---------------------------- MODULE OrderService ----------------------------
(***************************************************************************)
(* The order service (src/backend/internal/service/order_service.go) with *)
(* the engine of one pair, the order and trade rows it writes              *)
(* (repository/postgres), the settlement channel with an abstract worker,  *)
(* the goroutine that waits for each settlement reply, and a process       *)
(* restart followed by LoadOpenOrders.                                     *)
(*                                                                         *)
(* Every HTTP request is a process that runs SubmitOrder or CancelOrder    *)
(* one step per call that suspends (a store round trip, a channel send)    *)
(* or takes the book lock.  Book operations are atomic (they hold the lock *)
(* and do no I/O).  A store write reads its arguments in one step and      *)
(* reaches the database in the next: another connection's write can land   *)
(* in between.  updateCache is one step: its snapshot, cache and publish   *)
(* round trips change nothing this module reads, and their errors are only *)
(* logged; SnapshotFeed models that path.                                  *)
(***************************************************************************)
EXTENDS Integers, Sequences, FiniteSets, SequencesExt, TLC

CONSTANTS
  Requests,      \* concurrent HTTP requests; a submit's order id is its request
  Amounts,       \* values of amountSell and amountBuy
  Inputs,        \* the parsed orders clients submit
  Kinds,         \* the requests clients send: "submit", "cancel"
  QueueCap,      \* capacity of the settlement channel (100 in main.go)
  StoreMayFail,  \* whether order/trade store writes may return an error
  MaxRestarts    \* bound on process restarts

ASSUME QueueCap \in Nat \ {0} /\ MaxRestarts \in Nat
ASSUME Kinds \subseteq {"submit", "cancel"}
ASSUME StoreMayFail \in BOOLEAN

VARIABLES
  mem,        \* the *domain.Order objects in memory (shared by book and requests)
  buys, sells, orderMap,   \* the engine of the pair
  clock,      \* time.Now() as a counter: CreatedAt of orderRepo.Create
  dbOrders,   \* rows of the orders table: id -> row
  dbTrades,   \* rows of the trades table, in insertion order
  settleQ,    \* the buffered settlement channel: trade ids
  replies,    \* trade id -> reply sent on its result channel, not yet received
  awaiting,   \* trade ids whose reply goroutine is running
  req,        \* request -> its local state and program counter
  restarts    \* number of restarts so far

vars == <<mem, buys, sells, orderMap, clock, dbOrders, dbTrades, settleQ,
          replies, awaiting, req, restarts>>

Book == INSTANCE OrderBook WITH OrderIds <- Requests, orders <- mem,
                                matchLog <- <<>>

ASSUME Inputs \subseteq Book!OrderInputs   \* 0/0 is excluded (see Create)

NoWrite == [id |-> "none", status |-> "none", filled |-> 0]

NoInput == [side |-> "none", amountSell |-> 0, amountBuy |-> 0]
NoRow   == [side |-> "none", amountSell |-> 0, amountBuy |-> 0, created |-> 0,
            status |-> "none", filled |-> 0]

ReqIdle == [pc |-> "idle", kind |-> "none", oid |-> "none", in |-> NoInput,
            ms |-> <<>>, k |-> 0, tid |-> 0, w |-> NoWrite, row |-> NoRow]

\* Store writes return an error only where the configuration allows it.
StoreOutcomes == IF StoreMayFail THEN {TRUE, FALSE} ELSE {TRUE}

-----------------------------------------------------------------------------
(* Helpers *)

At(r, p)    == req[r].pc = p
Set(r, rec) == req' = [req EXCEPT ![r] = rec]

\* The row orderRepo.Create inserts for a new order, and the order object.
NewRow(in, t) == [side |-> in.side, amountSell |-> in.amountSell,
                  amountBuy |-> in.amountBuy, created |-> t,
                  status |-> "open", filled |-> 0]
RowToOrder(row) == [side |-> row.side, amountSell |-> row.amountSell,
                    amountBuy |-> row.amountBuy, filled |-> row.filled,
                    status |-> row.status, created |-> row.created]

\* orderRepo.UpdateStatus: the row's status and filled_base are replaced.
UpdateRow(rows, w) == [rows EXCEPT ![w.id].status = w.status, ![w.id].filled = w.filled]

\* tradeRepo.Create inserts the match's trade with settled_on_chain false;
\* tradeRepo.MarkSettled sets the flag (and the tx hash, left out).
NewTradeRow(m) == [buy |-> m.buy, sell |-> m.sell, base |-> m.fill, quote |-> m.quote,
                   settled |-> FALSE]
MarkSettled(rows, t) == [rows EXCEPT ![t].settled = TRUE]

\* After the k-th match: next match, or on to updateCache.
NextMatch(rec) == IF rec.k < Len(rec.ms) THEN [rec EXCEPT !.k = @ + 1, !.pc = "trade"]
                                        ELSE [rec EXCEPT !.pc = "cache"]

-----------------------------------------------------------------------------
(* SubmitOrder *)

\* A client sends POST /orders (a valid, signed order) or DELETE /orders/:id.
StartSubmit(r, in) ==
  /\ At(r, "idle")
  /\ Set(r, [ReqIdle EXCEPT !.pc = "create", !.kind = "submit", !.oid = r, !.in = in])
  /\ UNCHANGED <<mem, buys, sells, orderMap, clock, dbOrders, dbTrades, settleQ,
                 replies, awaiting, restarts>>

\* orderRepo.Create: assigns CreatedAt and inserts the row; on error the
\* request returns.
Create(r) ==
  /\ At(r, "create")
  /\ \E ok \in StoreOutcomes :
       IF ok THEN /\ dbOrders' = (r :> NewRow(req[r].in, clock)) @@ dbOrders
                  /\ mem' = (r :> RowToOrder(NewRow(req[r].in, clock))) @@ mem
                  /\ Set(r, [req[r] EXCEPT !.pc = "add"])
             ELSE /\ Set(r, [req[r] EXCEPT !.pc = "done"])
                  /\ UNCHANGED <<dbOrders, mem>>
  /\ clock' = clock + 1
  /\ UNCHANGED <<buys, sells, orderMap, dbTrades, settleQ, replies, awaiting,
                 restarts>>

\* book.AddOrder(order) under the book lock; the matches are kept.
Add(r) ==
  /\ At(r, "add")
  /\ \E b \in {Book!AddOrderResult(mem, r, buys, sells, orderMap)} :
        /\ mem' = b.ord /\ buys' = b.buys /\ sells' = b.sells /\ orderMap' = b.omap
        /\ Set(r, IF b.out = <<>> THEN [req[r] EXCEPT !.pc = "cache"]
                  ELSE [req[r] EXCEPT !.ms = b.out, !.k = 1, !.pc = "trade"])
  /\ UNCHANGED <<clock, dbOrders, dbTrades, settleQ, replies, awaiting,
                 restarts>>

\* tradeRepo.Create for the k-th match; on error the match is skipped
\* (log and continue).
TradeCreate(r) ==
  /\ At(r, "trade")
  /\ LET m == req[r].ms[req[r].k] IN
     \E ok \in StoreOutcomes :
       IF ok THEN /\ dbTrades' = Append(dbTrades, NewTradeRow(m))
                  /\ Set(r, [req[r] EXCEPT !.tid = Len(dbTrades) + 1, !.pc = "readBuy"])
             ELSE /\ Set(r, NextMatch(req[r]))
                  /\ UNCHANGED dbTrades
  /\ UNCHANGED <<mem, buys, sells, orderMap, clock, dbOrders, settleQ, replies,
                 awaiting, restarts>>

\* The arguments of UpdateStatus(match.BuyOrder.ID, .Status, .FilledBase)
\* are read from the shared order object, outside the book lock.
ReadOrder(r, p, side, nxt) ==
  /\ At(r, p)
  /\ LET id == req[r].ms[req[r].k][side]
     IN Set(r, [req[r] EXCEPT !.w = [id |-> id, status |-> mem[id].status,
                                     filled |-> mem[id].filled], !.pc = nxt])
  /\ UNCHANGED <<mem, buys, sells, orderMap, clock, dbOrders, dbTrades, settleQ,
                 replies, awaiting, restarts>>

\* The UPDATE reaches the database; its error is ignored.
WriteOrder(r, p, nxt) ==
  /\ At(r, p)
  /\ \E ok \in StoreOutcomes :
       dbOrders' = IF ok THEN UpdateRow(dbOrders, req[r].w) ELSE dbOrders
  /\ Set(r, [req[r] EXCEPT !.w = NoWrite, !.pc = nxt])
  /\ UNCHANGED <<mem, buys, sells, orderMap, clock, dbTrades, settleQ, replies,
                 awaiting, restarts>>

\* Mutant: the send does not wait for room in the channel.
EnqueueUnbounded(r) ==
  /\ At(r, "enqueue")
  /\ settleQ' = Append(settleQ, req[r].tid)
  /\ awaiting' = awaiting \cup {req[r].tid}
  /\ Set(r, NextMatch(req[r]))
  /\ UNCHANGED <<mem, buys, sells, orderMap, clock, dbOrders, dbTrades, replies,
                 restarts>>

\* s.settleCh <- SettleJob: blocks while the channel is full; then the
\* goroutine that awaits the reply is started.
Enqueue(r) ==
  /\ At(r, "enqueue")
  /\ Len(settleQ) < QueueCap
  /\ settleQ' = Append(settleQ, req[r].tid)
  /\ awaiting' = awaiting \cup {req[r].tid}
  /\ Set(r, NextMatch(req[r]))
  /\ UNCHANGED <<mem, buys, sells, orderMap, clock, dbOrders, dbTrades, replies,
                 restarts>>

-----------------------------------------------------------------------------
(* CancelOrder *)

StartCancel(r, id) ==
  /\ At(r, "idle")
  /\ Set(r, [ReqIdle EXCEPT !.pc = "get", !.kind = "cancel", !.oid = id])
  /\ UNCHANGED <<mem, buys, sells, orderMap, clock, dbOrders, dbTrades, settleQ,
                 replies, awaiting, restarts>>

\* orderRepo.GetByID: "order not found" when there is no row.
GetByID(r) ==
  /\ At(r, "get")
  /\ Set(r, IF req[r].oid \in DOMAIN dbOrders
            THEN [req[r] EXCEPT !.row = dbOrders[req[r].oid], !.pc = "cancelBook"]
            ELSE [req[r] EXCEPT !.pc = "done"])
  /\ UNCHANGED <<mem, buys, sells, orderMap, clock, dbOrders, dbTrades, settleQ,
                 replies, awaiting, restarts>>

\* book.CancelOrder(orderID); a miss is ignored.
CancelBook(r) ==
  /\ At(r, "cancelBook")
  /\ LET b == Book!CancelResult(mem, req[r].oid, buys, sells, orderMap)
     IN /\ mem' = b.ord /\ buys' = b.buys /\ sells' = b.sells /\ orderMap' = b.omap
  /\ Set(r, [req[r] EXCEPT !.pc = "cancelRow"])
  /\ UNCHANGED <<clock, dbOrders, dbTrades, settleQ, replies, awaiting,
                 restarts>>

\* UpdateStatus(orderID, Cancelled, order.FilledBase) with the row read by
\* GetByID; on error the request returns before updating the cache.
CancelRow(r) ==
  /\ At(r, "cancelRow")
  /\ \E ok \in StoreOutcomes :
       IF ok THEN /\ dbOrders' = UpdateRow(dbOrders, [id |-> req[r].oid,
                                   status |-> "cancelled", filled |-> req[r].row.filled])
                  /\ Set(r, [req[r] EXCEPT !.pc = "cache"])
             ELSE /\ UNCHANGED dbOrders
                  /\ Set(r, [req[r] EXCEPT !.pc = "done"])
  /\ UNCHANGED <<mem, buys, sells, orderMap, clock, dbTrades, settleQ, replies,
                 awaiting, restarts>>

-----------------------------------------------------------------------------
\* updateCache: GetSnapshot under the read lock, then SetSnapshot and
\* PublishUpdate, whose errors are only logged; the request returns.
UpdateCache(r) ==
  /\ At(r, "cache")
  /\ Set(r, [req[r] EXCEPT !.pc = "done"])
  /\ UNCHANGED <<mem, buys, sells, orderMap, clock, dbOrders, dbTrades, settleQ,
                 replies, awaiting, restarts>>

-----------------------------------------------------------------------------
(* Settlement *)

\* The worker (or, without a chain, the stub drainer in main.go) takes the
\* next job and answers it on the job's result channel, with a tx hash or
\* an error.
WorkerReply ==
  /\ settleQ # <<>>
  /\ \E ok \in BOOLEAN :
       replies' = (Head(settleQ) :> ok) @@ replies
  /\ settleQ' = Tail(settleQ)
  /\ UNCHANGED <<mem, buys, sells, orderMap, clock, dbOrders, dbTrades,
                 awaiting, req, restarts>>

\* The reply goroutine of trade t: on an error it logs and returns,
\* otherwise tradeRepo.MarkSettled (whose error is only logged).
AwaitReply(t) ==
  /\ t \in awaiting /\ t \in DOMAIN replies
  /\ \E ok \in StoreOutcomes :
       dbTrades' = IF replies[t] /\ ok THEN MarkSettled(dbTrades, t)
                                     ELSE dbTrades
  /\ awaiting' = awaiting \ {t}
  /\ replies' = [x \in DOMAIN replies \ {t} |-> replies[x]]
  /\ UNCHANGED <<mem, buys, sells, orderMap, clock, dbOrders, settleQ, req,
                 restarts>>

-----------------------------------------------------------------------------
(* Restart: the process dies (requests in flight fail, the book, the       *)
(* channel and the reply goroutines are lost) and main runs                *)
(* LoadOpenOrders before serving: the open and partially filled rows,      *)
(* oldest first, are added to a fresh book; matches found are dropped.     *)
(* If GetOpenByPair fails, main logs it and serves with an empty book.     *)

\* Mutant: the rows are put back into the heaps without matching.
ReplayRest(ids, b) ==
  LET s  == {ids[k] : k \in DOMAIN ids}
      bs == {i \in s : b.ord[i].side = "buy"}
  IN [ord |-> b.ord, buys |-> b.buys \cup bs, sells |-> b.sells \cup (s \ bs),
      omap |-> b.omap \cup s]

RECURSIVE Replay(_, _)
Replay(ids, b) ==
  IF ids = <<>> THEN b
  ELSE LET r == Book!AddOrderResult(b.ord, Head(ids), b.buys, b.sells, b.omap)
       IN Replay(Tail(ids), [ord |-> r.ord, buys |-> r.buys, sells |-> r.sells, omap |-> r.omap])

OpenRows == {i \in DOMAIN dbOrders : dbOrders[i].status \in {"open", "partially_filled"}}

Restart ==
  /\ restarts < MaxRestarts
  /\ \E ok \in StoreOutcomes :
       LET ids   == SetToSortSeq(OpenRows, LAMBDA a, b : dbOrders[a].created < dbOrders[b].created)
           empty == [ord |-> <<>>, buys |-> {}, sells |-> {}, omap |-> {}]
           b     == IF ok THEN Replay(ids, [empty EXCEPT !.ord = [i \in OpenRows |-> RowToOrder(dbOrders[i])]])
                    ELSE empty
       IN /\ mem' = b.ord /\ buys' = b.buys /\ sells' = b.sells /\ orderMap' = b.omap
  /\ req' = [r \in Requests |-> IF At(r, "idle") THEN req[r]
                                ELSE [ReqIdle EXCEPT !.pc = "done", !.kind = req[r].kind]]
  /\ settleQ' = <<>> /\ replies' = <<>> /\ awaiting' = {}
  /\ restarts' = restarts + 1
  /\ UNCHANGED <<clock, dbOrders, dbTrades>>

-----------------------------------------------------------------------------
Init ==
  /\ mem = <<>> /\ buys = {} /\ sells = {} /\ orderMap = {}
  /\ clock = 0
  /\ dbOrders = <<>> /\ dbTrades = <<>>
  /\ settleQ = <<>> /\ replies = <<>> /\ awaiting = {}
  /\ req = [r \in Requests |-> ReqIdle]
  /\ restarts = 0

\* The steps of a running request.
Step(r) ==
  \/ Create(r) \/ Add(r) \/ TradeCreate(r)
  \/ ReadOrder(r, "readBuy", "buy", "writeBuy") \/ WriteOrder(r, "writeBuy", "readSell")
  \/ ReadOrder(r, "readSell", "sell", "writeSell") \/ WriteOrder(r, "writeSell", "enqueue")
  \/ Enqueue(r)
  \/ GetByID(r) \/ CancelBook(r) \/ CancelRow(r)
  \/ UpdateCache(r)

Next ==
  \/ "submit" \in Kinds /\ \E r \in Requests, in \in Inputs : StartSubmit(r, in)
  \/ "cancel" \in Kinds /\ \E r, id \in Requests : r # id /\ StartCancel(r, id)
  \/ \E r \in Requests : Step(r)
  \/ WorkerReply
  \/ \E t \in awaiting : AwaitReply(t)
  \/ Restart

Spec == Init /\ [][Next]_vars

-----------------------------------------------------------------------------
(* Properties *)

Pcs == {"idle", "create", "add", "trade", "readBuy", "writeBuy", "readSell",
        "writeSell", "enqueue", "get", "cancelBook", "cancelRow", "cache",
        "done"}
TradeIds == 1..Len(dbTrades)

TypeOK ==
  /\ Book!TypeOK
  /\ \A i \in DOMAIN dbOrders :
       /\ dbOrders[i].status \in Book!Statuses
       /\ dbOrders[i].filled \in 0..Book!TotalBase(dbOrders[i])
  /\ \A r \in Requests : req[r].pc \in Pcs
  /\ \A t \in TradeIds : dbTrades[t].base > 0 /\ dbTrades[t].settled \in BOOLEAN
  /\ Len(settleQ) <= QueueCap /\ {settleQ[k] : k \in DOMAIN settleQ} \subseteq TradeIds
  /\ DOMAIN replies \subseteq awaiting /\ awaiting \subseteq TradeIds

\* No request is between its first and its last step.
Quiet == \A r \in Requests : At(r, "idle") \/ At(r, "done")

\* The base amount of all trade rows of order i.
TradedBase(i) ==
  LET ts == {t \in TradeIds : i \in {dbTrades[t].buy, dbTrades[t].sell}}
  IN MapThenSumSet(LAMBDA t : dbTrades[t].base, ts)

\* An order never trades more than it offered: the trade rows that name an
\* order (inserted by SubmitOrder for every match) sum to at most its size.
\* Across a restart this depends on LoadOpenOrders replaying rows that
\* already count the trades inserted before the crash.
TradesWithinOrderSize ==
  \A i \in DOMAIN dbOrders : TradedBase(i) <= Book!TotalBase(dbOrders[i])

\* When no request is in flight, every order row agrees with the book: the
\* status and filled_base that UpdateStatus wrote last are those of the
\* in-memory order after its last match or cancel.
StoreAgreesWithBookWhenIdle ==
  Quiet => \A i \in DOMAIN mem : dbOrders[i].status = mem[i].status
                                 /\ dbOrders[i].filled = mem[i].filled

\* A row's filled_base never decreases (spec 3 and 4.D: UpdateStatus writes
\* a monotone filledBase).  SubmitOrder writes the shared order's FilledBase
\* after the book lock is released, and CancelOrder writes the FilledBase
\* that GetByID read before it asked the book.
RowFilledMonotone ==
  [][\A i \in DOMAIN dbOrders : dbOrders'[i].filled >= dbOrders[i].filled]_dbOrders

\* The book LoadOpenOrders rebuilds from the open rows after a restart is
\* as sound as one built by requests: heaps and orderMap agree, no resting
\* order is finished, and the book is not crossed.
BookSound == Book!BookConsistent /\ Book!NotCrossed


=============================================================================
