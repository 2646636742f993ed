------------------------------- MODULE Eip712 -------------------------------
(***************************************************************************)
(* The typed-data hash of an order and its signature check                 *)
(* (pkg/eip712/typehash.go, verify.go), as SubmitOrder uses them, against  *)
(* a maker who signs orders the way the client does (signOrder in          *)
(* scripts/test_api.go) and a submitter who may present any order with     *)
(* that signature.                                                         *)
(*                                                                         *)
(* Bytes are digits in base Base and a 32-byte word is Width digits; an    *)
(* address is AddrWidth digits (20 bytes), a code fixed by AddrOf.  The    *)
(* encoding is modelled by what it does: big.Int.Bytes() is the magnitude  *)
(* without leading zeros (the sign is dropped) and LeftPadBytes pads to    *)
(* Width but leaves a longer slice as it is.  Keccak256 is collision       *)
(* resistant, so a hash is the tuple it is taken of.  The type hash and    *)
(* the domain separator are the same in every digest and are left out.    *)
(* Ecrecover yields the signer when the digest and the recovery id are the *)
(* ones signed, and some other address otherwise.                          *)
(***************************************************************************)
EXTENDS Integers, Sequences, SequencesExt

CONSTANTS Base, Width, AddrWidth,
          Makers, Tokens, AddrOf,  \* addresses and their numeric values
          Amounts,                 \* amountSell, amountBuy, salt (big.Int)
          Uints,                   \* expiry, nonce (uint64)
          VBytes,                  \* values of the signature's last byte
          SigLens,                 \* lengths of the decoded signature
          OtherAddr                \* an address no maker has

VARIABLES sig,      \* the maker's signature, or NoSig
          claim,    \* the order submitted with it, or NoOrder
          presented,\* the signature's last byte and length as submitted
          verdict   \* VerifyOrderSignature's outcome

vars == <<sig, claim, presented, verdict>>

AddrFields == <<"maker", "tokenSell", "tokenBuy">>
IntFields == <<"amountSell", "amountBuy", "expiry", "nonce", "salt">>
Fields == AddrFields \o IntFields

Orders == [maker : Makers, tokenSell : Tokens, tokenBuy : Tokens,
           amountSell : Amounts, amountBuy : Amounts, expiry : Uints,
           nonce : Uints, salt : Amounts]

NoOrder == [maker |-> OtherAddr]
NoSig == [len |-> 0]

\* The value a field stands for: an address's number, or the integer.
FieldValue(o, f) == IF f \in ToSet(AddrFields) THEN AddrOf[o[f]] ELSE o[f]

Mag(x) == IF x < 0 THEN -x ELSE x

\* big.Int.Bytes(): big-endian magnitude, no leading zeros, sign dropped.
RECURSIVE BytesOf(_)
BytesOf(x) ==
  IF Mag(x) = 0 THEN <<>>
  ELSE Append(BytesOf(Mag(x) \div Base), Mag(x) % Base)

\* common.LeftPadBytes: a slice at least l long is returned as it is.
LeftPadBytes(b, l) ==
  IF Len(b) >= l THEN b ELSE [i \in 1..(l - Len(b)) |-> 0] \o b

\* common.Address.Bytes(): always the full 20 bytes.
AddressBytes(a) == LeftPadBytes(BytesOf(AddrOf[a]), AddrWidth)

FieldBytes(o, f) ==
  IF f \in ToSet(AddrFields) THEN LeftPadBytes(AddressBytes(o[f]), Width)
  ELSE LeftPadBytes(BytesOf(o[f]), Width)

\* Mutant: amountBuy is encoded before amountSell.
HashOrderFieldSwap(o) ==
  LET swapped == <<"maker", "tokenSell", "tokenBuy", "amountBuy", "amountSell",
                   "expiry", "nonce", "salt">>
  IN FlattenSeq([i \in 1..Len(swapped) |-> FieldBytes(o, swapped[i])])

\* Mutant: every field is cut to its last word.
HashOrderTruncated(o) ==
  LET Cut(b) == SubSeq(b, Len(b) - Width + 1, Len(b))
  IN FlattenSeq([i \in 1..Len(Fields) |-> Cut(FieldBytes(o, Fields[i]))])

\* HashOrder: the fields' words, concatenated in type order.
HashOrder(o) == FlattenSeq([i \in 1..Len(Fields) |-> FieldBytes(o, Fields[i])])

\* HashTypedData(domain.Hash(), HashOrder(o)).
Digest(o) == <<"1901", HashOrder(o)>>

\* Mutant: only a v above 27 is adjusted.
AdjustVStrict(v) == IF v > 27 THEN v - 27 ELSE v

\* v of 27 or 28 is turned into the recovery id 0 or 1.
AdjustV(v) == IF v >= 27 THEN v - 27 ELSE v

Ecrecover(d, s) == IF s.digest = d /\ AdjustV(s.v) = s.recid
                   THEN s.signer ELSE OtherAddr

VerifyOrderSignature(o, s) ==
  CASE s.len # 65                   -> "error"
    [] AdjustV(s.v) \notin {0, 1}   -> "error"
    [] Ecrecover(Digest(o), s) = o.maker -> "valid"
    [] OTHER                        -> "mismatch"

\* What spec section 3 asks of the struct hash: every integer field is
\* non-negative and below 2^256, and is encoded as exactly one word.
InRange(o) == \A i \in 1..Len(IntFields) :
                0 <= o[IntFields[i]] /\ o[IntFields[i]] < Base ^ Width
BigEndianWord(x) == [k \in 1..Width |-> (x \div Base ^ (Width - k)) % Base]
SpecHashOrder(o) ==
  FlattenSeq([i \in 1..Len(Fields) |-> BigEndianWord(FieldValue(o, Fields[i]))])

-----------------------------------------------------------------------------
Init == sig = NoSig /\ claim = NoOrder /\ presented = [v |-> 0, len |-> 0]
        /\ verdict = "none"

(* signOrder: the maker signs the digest of an order of its own and sets  *)
(* v to 27 or 28.  A wallet encodes only in-range values.                 *)
Sign(o, recid) ==
  /\ sig = NoSig
  /\ o \in {x \in Orders : InRange(x)}
  /\ sig' = [signer |-> o.maker, digest |-> Digest(o), recid |-> recid,
             v |-> recid + 27, len |-> 65, order |-> o]
  /\ UNCHANGED <<claim, presented, verdict>>

(* SubmitOrder decodes the signature hex and calls VerifyOrderSignature   *)
(* with the order it parsed; the submitter picks the order, the last      *)
(* byte and the length.                                                   *)
Submit(c, v, len) ==
  /\ sig # NoSig /\ verdict = "none"
  /\ claim' = c
  /\ presented' = [v |-> v, len |-> len]
  /\ verdict' = VerifyOrderSignature(c, [sig EXCEPT !.v = v, !.len = len])
  /\ UNCHANGED sig

Next ==
  \/ \E o \in Orders, r \in {0, 1} : Sign(o, r)
  \/ \E c \in Orders, v \in VBytes, l \in SigLens : Submit(c, v, l)

Spec == Init /\ [][Next]_vars


-----------------------------------------------------------------------------
\* HashOrder encodes every in-range order exactly as spec section 3 says:
\* each field one big-endian word, in the order of the type string.
EncodingMatchesSpec ==
  verdict # "none" /\ InRange(claim) => HashOrder(claim) = SpecHashOrder(claim)

\* A signature the client made over an order verifies that order, with the
\* last byte as 27/28 or as the raw recovery id (verify.go's v adjustment).
GenuineAccepted ==
  /\ verdict # "none"
  /\ claim = sig.order
  /\ presented.len = 65
  /\ presented.v \in {sig.recid, sig.recid + 27}
  => verdict = "valid"

\* A signature verifies only the order its maker signed: no other order can
\* be submitted under the maker's signature (VerifyOrderSignature on the
\* order SubmitOrder parsed).
AcceptedOnlySigned == verdict = "valid" => claim = sig.order

=============================================================================
