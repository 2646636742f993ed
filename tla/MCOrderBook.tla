---------------------------- MODULE MCOrderBook ----------------------------
(* Model-checking instance of OrderBook: three order ids, amounts 0..2.    *)
EXTENDS OrderBook

MCAmounts == 0..2

\* Ids are interchangeable: CreatedAt comes from the clock, not the id.
MCSymmetry == Permutations(OrderIds)
=============================================================================
