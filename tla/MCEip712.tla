------------------------------ MODULE MCEip712 ------------------------------
(* Model-checking instance of Eip712: base-4 digits and two-digit words,  *)
(* one-digit addresses, two makers and one token.                         *)
EXTENDS Eip712

CONSTANTS m1, m2, t1

MCAddrOf == (m1 :> 1) @@ (m2 :> 2) @@ (t1 :> 3)

\* amountSell, amountBuy and salt: zero, one, the largest one-word value
\* and the smallest value that needs a longer encoding.
MCAmounts == {0, 1, 15, 16}

\* The same around zero, where a negative value is written.
MCSignedAmounts == {-1, 0, 1}

=============================================================================
