------------------------- MODULE MCSettlementWorker -------------------------
(* Model-checking instance of SettlementWorker: trade ids are model values *)
(* and interchangeable, so permuting them is a symmetry of safety runs.    *)
EXTENDS SettlementWorker, TLC

MCSymmetry == Permutations(Jobs)

=============================================================================
