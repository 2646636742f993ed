--------------------------- MODULE MCOrderService ---------------------------
(* Instantiates OrderService for TLC. *)
EXTENDS OrderService

MCAmounts == 0..2

Buy(s, b)  == [side |-> "buy",  amountSell |-> s, amountBuy |-> b]
Sell(s, b) == [side |-> "sell", amountSell |-> s, amountBuy |-> b]

\* Unit orders at price 1: every match fills both orders.
MCUnitInputs == {Buy(1, 1), Sell(1, 1)}
\* A sell of 2 at price 1 against unit buys: partial fills, and a taker
\* that matches two makers and sends two settlement jobs.
MCSizedInputs == {Buy(1, 1), Sell(2, 2)}
MCInputs == MCUnitInputs \cup MCSizedInputs

MCSymmetry == Permutations(Requests)
=============================================================================
