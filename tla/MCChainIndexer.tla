---------------------------- MODULE MCChainIndexer ----------------------------
(* Model-checking instance of ChainIndexer: trade ids and user            *)
(* transactions are model values.                                         *)
EXTENDS ChainIndexer, TLC

MCUserEvents == {"Deposit", "Approval"}

=============================================================================
