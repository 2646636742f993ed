----------------------------- MODULE OrderBook -----------------------------
(***************************************************************************)
(* The in-memory matching engine of one trading pair                      *)
(* (src/backend/internal/orderbook/engine.go, heap.go and the Order       *)
(* helpers of src/backend/internal/domain/order.go).                      *)
(*                                                                         *)
(* AddOrder and CancelOrder run under the book's exclusive lock and do no *)
(* I/O, so each is one atomic action; the matching loop of matchBuy and   *)
(* matchSell is the recursive operator MatchLoop.  The two heaps are      *)
(* abstracted to the sets of resting order ids: the heap top is the       *)
(* unique element that is Less than every other one (creation times are   *)
(* distinct), which is what container/heap guarantees.                    *)
(*                                                                         *)
(* Prices are exact ratios compared by cross-multiplication.  The code    *)
(* compares float64 quotients; for the small amounts of the model every   *)
(* two distinct ratios are far more than one ulp apart, so both orders    *)
(* coincide.  x/0 (x > 0) is +Inf in big.Float, which cross-multiplication*)
(* also gets right; 0/0 makes big.Float.Quo panic, so an order with both  *)
(* amounts zero never reaches the book (see OrderService).                *)
(***************************************************************************)
EXTENDS Integers, Sequences, FiniteSets, FiniteSetsExt, TLC

Seqs == INSTANCE SequencesExt

CONSTANTS
  OrderIds,   \* ids the order store hands out (model values)
  Amounts     \* the values amountSell and amountBuy may take

ASSUME Amounts \subseteq Nat /\ 0 \in Amounts

VARIABLES
  orders,     \* id -> the *domain.Order record the book and its callers share
  buys,       \* ids in the BuyHeap
  sells,      \* ids in the SellHeap
  orderMap,   \* ids that are keys of ob.orderMap
  clock,      \* source of CreatedAt: strictly increasing per submission
  matchLog    \* auxiliary: every MatchResult ever returned, in order

vars == <<orders, buys, sells, orderMap, clock, matchLog>>

Sides    == {"buy", "sell"}
Statuses == {"open", "partially_filled", "filled", "cancelled"}

\* A submission the engine can receive: both amounts zero would make
\* Price() panic before AddOrder touches anything.
OrderInputs ==
  {r \in [side : Sides, amountSell : Amounts, amountBuy : Amounts] :
     r.amountSell + r.amountBuy > 0}

NewOrder(in, t) ==
  [side |-> in.side, amountSell |-> in.amountSell, amountBuy |-> in.amountBuy,
   filled |-> 0, status |-> "open", created |-> t]

-----------------------------------------------------------------------------
(* domain.Order helpers *)

\* Price(): quote per base as the ratio <<numerator, denominator>>.
Price(o) == IF o.side = "buy" THEN <<o.amountSell, o.amountBuy>>
                              ELSE <<o.amountBuy, o.amountSell>>

PriceLess(p, q) == p[1] * q[2] < q[1] * p[2]
PriceEq(p, q)   == p[1] * q[2] = q[1] * p[2]

\* The order's size in base units: amountBuy for a buy, amountSell for a sell.
TotalBase(o) == IF o.side = "buy" THEN o.amountBuy ELSE o.amountSell

\* RemainingBase(): the base amount still to fill.
RemainingBase(o) == TotalBase(o) - o.filled

\* updateOrderStatus(): Filled when nothing remains, else PartiallyFilled
\* once something filled, else unchanged.
UpdateOrderStatus(o) ==
  [o EXCEPT !.status = IF RemainingBase(o) <= 0 THEN "filled"
                       ELSE IF o.filled > 0 THEN "partially_filled"
                       ELSE @]

\* Fault variant: FilledBase set to the fill instead of increased by it.
ApplyFillSet(o, f) == UpdateOrderStatus([o EXCEPT !.filled = f])

\* FilledBase = FilledBase + fillAmount, then updateOrderStatus.
ApplyFill(o, f) == UpdateOrderStatus([o EXCEPT !.filled = @ + f])

\* BuyHeap.Less / SellHeap.Less: better price first, then earlier CreatedAt.
BuyLess(a, b) ==
  IF ~PriceEq(Price(a), Price(b)) THEN PriceLess(Price(b), Price(a))
                                  ELSE a.created < b.created
SellLess(a, b) ==
  IF ~PriceEq(Price(a), Price(b)) THEN PriceLess(Price(a), Price(b))
                                  ELSE a.created < b.created

\* (*ob.buys)[0] / (*ob.sells)[0]: the top of a non-empty heap.
BestBuy(ord, heap)  == CHOOSE i \in heap : \A j \in heap \ {i} : BuyLess(ord[i], ord[j])
BestSell(ord, heap) == CHOOSE i \in heap : \A j \in heap \ {i} : SellLess(ord[i], ord[j])

\* quoteAmount of a match: both matchBuy and matchSell compute
\* fill * sell.AmountBuy / sell.AmountSell (big.Int Div, non-negative here).
QuoteAmount(sellO, fill) == (fill * sellO.amountBuy) \div sellO.amountSell

-----------------------------------------------------------------------------
(* matchBuy / matchSell.  s is [ord, opp, omap, out]: the orders, the       *)
(* opposite heap, the orderMap keys and the matches so far.                *)

\* Fault variants of Crosses: breaking on equal prices as well, and a
\* matchSell that copies matchBuy's comparison (sellPrice < bestBuy price).
CrossesStrict(tk, mk) ==
  IF tk.side = "buy" THEN PriceLess(Price(mk), Price(tk))
                     ELSE PriceLess(Price(tk), Price(mk))
CrossesCopied(tk, mk) == ~PriceLess(Price(tk), Price(mk))

\* The loop goes on while the prices cross: it breaks on
\* buyPrice < bestSell.Price() (matchBuy) or bestBuy.Price() < sellPrice
\* (matchSell).
Crosses(tk, mk) ==
  IF tk.side = "buy" THEN ~PriceLess(Price(tk), Price(mk))
                     ELSE ~PriceLess(Price(mk), Price(tk))

\* Fault variant: the fill takes the taker's whole remainder.
FillAmountTaker(tk, mk) == RemainingBase(tk)

\* fillAmount := minBigInt(taker.RemainingBase(), maker.RemainingBase())
FillAmount(tk, mk) == Min({RemainingBase(tk), RemainingBase(mk)})

\* Fault variant: the maker is popped but its orderMap entry is kept.
PopFilledKeepMap(s, m) ==
  IF s.ord[m].status = "filled" THEN [s EXCEPT !.opp = @ \ {m}] ELSE s

\* heap.Pop and delete(ob.orderMap, id) once the maker is Filled.
PopFilled(s, m) ==
  IF s.ord[m].status = "filled" THEN [s EXCEPT !.opp = @ \ {m}, !.omap = @ \ {m}]
                                ELSE s

\* One turn of the loop against the opposite top m: append the
\* MatchResult (Price is the maker's), fill both orders, pop m if Filled.
MatchStep(t, m, fill, s) ==
  LET tk    == s.ord[t]
      mk    == s.ord[m]
      isBuy == tk.side = "buy"
      res   == [buy   |-> IF isBuy THEN t ELSE m,
                sell  |-> IF isBuy THEN m ELSE t,
                fill  |-> fill,
                quote |-> QuoteAmount(IF isBuy THEN mk ELSE tk, fill),
                price |-> Price(mk)]
  IN PopFilled([s EXCEPT !.ord = [@ EXCEPT ![t] = ApplyFill(@, fill),
                                           ![m] = ApplyFill(@, fill)],
                         !.out = Append(@, res)], m)

RECURSIVE MatchLoop(_, _)
MatchLoop(t, s) ==
  IF s.opp = {} \/ RemainingBase(s.ord[t]) <= 0 THEN s
  ELSE
    LET m    == IF s.ord[t].side = "buy" THEN BestSell(s.ord, s.opp)
                                         ELSE BestBuy(s.ord, s.opp)
        fill == FillAmount(s.ord[t], s.ord[m])
    IN IF ~Crosses(s.ord[t], s.ord[m]) \/ fill <= 0 THEN s
       ELSE MatchLoop(t, MatchStep(t, m, fill, s))

\* The outcome of AddOrder(ord[t]) on the book (buys, sells, omap):
\* matching, then resting the remainder when it is positive and not Filled.
AddOrderResult(ord, t, bs, ss, omap) ==
  LET isBuy == ord[t].side = "buy"
      r     == MatchLoop(t, [ord |-> ord, opp |-> IF isBuy THEN ss ELSE bs,
                             omap |-> omap, out |-> <<>>])
      rest  == IF RemainingBase(r.ord[t]) > 0 /\ r.ord[t].status # "filled"
               THEN {t} ELSE {}
  IN [ord   |-> r.ord,
      buys  |-> IF isBuy THEN bs \cup rest ELSE r.opp,
      sells |-> IF isBuy THEN r.opp ELSE ss \cup rest,
      omap  |-> r.omap \cup rest,
      out   |-> r.out]

\* Fault variant: the order is looked up among all orders, not orderMap.
CancelResultAnyOrder(ord, id, bs, ss, omap) ==
  [ord   |-> [ord EXCEPT ![id].status = "cancelled"],
   buys  |-> bs \ {id}, sells |-> ss \ {id}, omap |-> omap \ {id}, ok |-> TRUE]

\* CancelOrder on (ord, buys, sells, omap): a miss when id is not a key of
\* orderMap, else Cancelled, deleted from orderMap and removed from its heap.
CancelResult(ord, id, bs, ss, omap) ==
  IF id \notin omap THEN [ord |-> ord, buys |-> bs, sells |-> ss, omap |-> omap, ok |-> FALSE]
  ELSE [ord   |-> [ord EXCEPT ![id].status = "cancelled"],
        buys  |-> IF ord[id].side = "buy" THEN bs \ {id} ELSE bs,
        sells |-> IF ord[id].side = "buy" THEN ss ELSE ss \ {id},
        omap  |-> omap \ {id},
        ok    |-> TRUE]

(* GetSnapshot: aggregateLevels / aggregateSellLevels group the resting  *)
(* orders of a heap by their float64 price into PriceLevels {price, total  *)
(* remaining base, count}.  A level is keyed here by the reduced ratio,    *)
(* the exact value the float stands for; sortDesc/sortAsc only order the   *)
(* levels, so a set of levels carries the same information.                *)
GcdOf(a, b) == CHOOSE g \in 1..(a + b) :
                 /\ a % g = 0 /\ b % g = 0
                 /\ \A h \in (g + 1)..(a + b) : ~(a % h = 0 /\ b % h = 0)
PriceKey(o) == LET p == Price(o) g == GcdOf(p[1], p[2]) IN <<p[1] \div g, p[2] \div g>>

AggregateLevels(ord, heap) ==
  { LET at == {i \in heap : PriceKey(ord[i]) = k}
    IN [price  |-> k,
        amount |-> MapThenSumSet(LAMBDA i : RemainingBase(ord[i]), at),
        count  |-> Cardinality(at)]
  : k \in {PriceKey(ord[i]) : i \in heap} }

GetSnapshot(ord, bs, ss) == [bids |-> AggregateLevels(ord, bs), asks |-> AggregateLevels(ord, ss)]

(* sortDesc / sortAsc order the level prices by insertion sort: element  *)
(* j moves left while it goes before its left neighbour, by s[j] > s[j-1] *)
(* in sortDesc and s[j] < s[j-1] in sortAsc.  The input is the order in   *)
(* which the heap array first meets each price.                           *)
Before(desc, p, q) == IF desc THEN PriceLess(q, p) ELSE PriceLess(p, q)

Swap(s, i, j) == [s EXCEPT ![i] = s[j], ![j] = s[i]]

RECURSIVE SinkLeft(_, _, _)
SinkLeft(s, j, desc) ==
  IF j > 1 /\ Before(desc, s[j], s[j - 1]) THEN SinkLeft(Swap(s, j, j - 1), j - 1, desc)
  ELSE s

RECURSIVE InsertionPass(_, _, _)
InsertionPass(s, i, desc) ==
  IF i > Len(s) THEN s ELSE InsertionPass(SinkLeft(s, i, desc), i + 1, desc)

\* Mutant: the outer loop starts one element late.
SortDescLate(s) == InsertionPass(s, 3, TRUE)

SortDesc(s) == InsertionPass(s, 2, TRUE)
SortAsc(s)  == InsertionPass(s, 2, FALSE)

\* The distinct prices of the orders in a heap.
LevelPrices(ord, heap) == {PriceKey(ord[i]) : i \in heap}

-----------------------------------------------------------------------------
Init ==
  /\ orders   = <<>>
  /\ buys     = {}
  /\ sells    = {}
  /\ orderMap = {}
  /\ clock    = 0
  /\ matchLog = <<>>

\* AddOrder(order) for a freshly created order (Open, FilledBase 0).
AddOrder(id, in) ==
  /\ id \notin DOMAIN orders
  /\ LET ord == (id :> NewOrder(in, clock)) @@ orders
         r   == AddOrderResult(ord, id, buys, sells, orderMap)
     IN /\ orders'   = r.ord
        /\ buys'     = r.buys
        /\ sells'    = r.sells
        /\ orderMap' = r.omap
        /\ matchLog' = matchLog \o r.out
  /\ clock' = clock + 1

CancelOrder(id) ==
  LET r == CancelResult(orders, id, buys, sells, orderMap)
  IN /\ id \in DOMAIN orders
     /\ orders'   = r.ord
     /\ buys'     = r.buys
     /\ sells'    = r.sells
     /\ orderMap' = r.omap
     /\ UNCHANGED <<clock, matchLog>>

Next ==
  \/ \E id \in OrderIds, in \in OrderInputs : AddOrder(id, in)
  \/ \E id \in OrderIds : CancelOrder(id)

Spec == Init /\ [][Next]_vars

-----------------------------------------------------------------------------
(* Properties *)

Resting == buys \cup sells

TypeOK ==
  /\ DOMAIN orders \subseteq OrderIds
  /\ \A i \in DOMAIN orders :
       /\ orders[i].side \in Sides
       /\ orders[i].status \in Statuses
       /\ orders[i].filled \in 0..TotalBase(orders[i])
  /\ buys \subseteq DOMAIN orders /\ sells \subseteq DOMAIN orders
  /\ orderMap \subseteq DOMAIN orders
  /\ clock \in Nat

\* The by-id map and the two heaps describe the same resting orders: every
\* entry of orderMap is in exactly one heap, the heap of its side, and no
\* resting order is Filled, Cancelled or empty (spec 8a).  A stale orderMap
\* entry would let CancelOrder call heap.Remove with Index -1.
BookConsistent ==
  /\ orderMap = Resting
  /\ buys \cap sells = {}
  /\ \A i \in buys : orders[i].side = "buy"
  /\ \A i \in sells : orders[i].side = "sell"
  /\ \A i \in Resting : orders[i].status \in {"open", "partially_filled"}
                        /\ RemainingBase(orders[i]) > 0

\* After every AddOrder the book is not crossed: the best bid is strictly
\* below the best ask, i.e. the matching loop never stops while the top of
\* the book still crosses.
NotCrossed ==
  buys # {} /\ sells # {} =>
    PriceLess(Price(orders[BestBuy(orders, buys)]), Price(orders[BestSell(orders, sells)]))

FilledBy(i) == MapThenSumSet(LAMBDA k : matchLog[k].fill,
                             {k \in DOMAIN matchLog : i \in {matchLog[k].buy, matchLog[k].sell}})

\* Every order's FilledBase is exactly the sum of the fills of the matches
\* it took part in, and its status agrees with
\* it (Filled iff nothing remains, PartiallyFilled iff partly filled) unless
\* it was cancelled (spec 8b, 8c and section 3).
FillAccounting ==
  \A i \in DOMAIN orders :
    LET o == orders[i] IN
    /\ o.filled = FilledBy(i)
    /\ o.status # "cancelled" =>
         (o.status = "filled" <=> o.filled > 0 /\ RemainingBase(o) = 0)
    /\ o.status = "partially_filled" => o.filled > 0 /\ RemainingBase(o) > 0

\* Every match executes between the two limits: the seller's price is at
\* most the match price, which is at most the buyer's price, and the quote
\* the buyer pays never exceeds fill times its limit (spec 8d).
WithinLimits ==
  \A k \in DOMAIN matchLog :
    LET m == matchLog[k]
        b == orders[m.buy]
        s == orders[m.sell]
    IN /\ ~PriceLess(m.price, Price(s))
       /\ ~PriceLess(Price(b), m.price)
       /\ m.quote * b.amountBuy <= m.fill * b.amountSell

\* Spec 4.B / 8e: the quote of every match is computed at the maker's
\* price: fill * maker.amountBuy / maker.amountSell for a resting sell,
\* fill * maker.amountSell / maker.amountBuy for a resting buy.
QuoteAtMakerPrice ==
  \A k \in DOMAIN matchLog :
    LET m == matchLog[k]
    IN m.quote = (m.fill * m.price[1]) \div m.price[2]

\* A step never lowers an order's FilledBase, and never changes a Filled
\* or Cancelled order (section 3: no mutation after a terminal status).
TerminalIsFinal ==
  [][\A i \in DOMAIN orders :
       /\ orders'[i].filled >= orders[i].filled
       /\ orders[i].status \in {"filled", "cancelled"} => orders'[i] = orders[i]]_orders


\* GetSnapshot lists the bids highest price first and the asks lowest price
\* first, each level once (spec 4.B), whatever order the heap arrays hold
\* the orders in: sortDesc and sortAsc agree with a reference sort.
SnapshotSorted ==
  /\ \A s \in Seqs!SetToSeqs(LevelPrices(orders, buys)) :
       SortDesc(s) = Seqs!SortSeq(s, LAMBDA p, q : PriceLess(q, p))
  /\ \A s \in Seqs!SetToSeqs(LevelPrices(orders, sells)) :
       SortAsc(s) = Seqs!SortSeq(s, LAMBDA p, q : PriceLess(p, q))

=============================================================================
