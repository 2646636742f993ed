---------------------------- MODULE BookRegistry ----------------------------
(***************************************************************************)
(* The pair-to-book map of the order service (OrderService.orderbooks and  *)
(* GetOrCreateOrderBook, service/order_service.go) under concurrent        *)
(* requests.  The map has no lock: the lookup and the store of a new book  *)
(* are separate steps, and another request can run between them.          *)
(*                                                                         *)
(* A book is an instance number; what a request does with the book it got  *)
(* is reduced to what matters for the map: SubmitOrder rests its order in *)
(* it (AddOrder of an order that does not cross), GET /orderbook only     *)
(* reads it.  The pair is any string a client sends (neither SubmitOrder   *)
(* nor the handlers check it).  main loads the main pair's book            *)
(* (LoadOpenOrders) before serving, so it exists from the start.  A Go map *)
(* read or written during another write is a data race: the runtime may   *)
(* also stop the process ("concurrent map writes"); the model keeps the    *)
(* outcome in which both writes land, the later one overwriting.          *)
(***************************************************************************)
EXTENDS Naturals, FiniteSets

CONSTANTS Requests,   \* concurrent HTTP requests; a submit's order is its request
          Pairs,      \* pair strings clients send
          MainPair,   \* "TKA-TKB", loaded at startup
          Kinds       \* "submit" (POST /orders), "get" (GET /orderbook)

ASSUME MainPair \in Pairs /\ Kinds \subseteq {"submit", "get"}

NoBook == 0
BookIds == 1..(Cardinality(Requests) + 1)

VARIABLES orderbooks, \* pair -> the book the map holds, or NoBook
          created,    \* books made by ob.NewOrderBook so far
          req,        \* request -> [pc, kind, pair, book]
          rested      \* book -> the orders resting in it

vars == <<orderbooks, created, req, rested>>

Idle == [pc |-> "idle", kind |-> "none", pair |-> MainPair, book |-> NoBook]

Init ==
  /\ orderbooks = [p \in Pairs |-> IF p = MainPair THEN 1 ELSE NoBook]
  /\ created = 1
  /\ req = [r \in Requests |-> Idle]
  /\ rested = [b \in BookIds |-> {}]

\* A request for pair p reaches GetOrCreateOrderBook (after orderRepo.Create
\* for a submit).
Request(r, k, p) ==
  /\ req[r].pc = "idle"
  /\ req' = [req EXCEPT ![r] = [Idle EXCEPT !.pc = "lookup", !.kind = k, !.pair = p]]
  /\ UNCHANGED <<orderbooks, created, rested>>

\* if book, ok := s.orderbooks[pair]; ok { return book }
Lookup(r) ==
  /\ req[r].pc = "lookup"
  /\ req' = [req EXCEPT ![r] =
               IF orderbooks[req[r].pair] # NoBook
               THEN [@ EXCEPT !.pc = "use", !.book = orderbooks[req[r].pair]]
               ELSE [@ EXCEPT !.pc = "store"]]
  /\ UNCHANGED <<orderbooks, created, rested>>

\* book := ob.NewOrderBook(pair); s.orderbooks[pair] = book; return book
Store(r) ==
  /\ req[r].pc = "store"
  /\ created' = created + 1
  /\ orderbooks' = [orderbooks EXCEPT ![req[r].pair] = created + 1]
  /\ req' = [req EXCEPT ![r].pc = "use", ![r].book = created + 1]
  /\ UNCHANGED rested

\* SubmitOrder: book.AddOrder(order) rests the order; GetOrderbook:
\* book.GetSnapshot() only reads.
UseBook(r) ==
  /\ req[r].pc = "use"
  /\ rested' = IF req[r].kind = "submit"
               THEN [rested EXCEPT ![req[r].book] = @ \cup {r}]
               ELSE rested
  /\ req' = [req EXCEPT ![r].pc = "done"]
  /\ UNCHANGED <<orderbooks, created>>

Next ==
  \/ \E r \in Requests, k \in Kinds, p \in Pairs : Request(r, k, p)
  \/ \E r \in Requests : Lookup(r) \/ Store(r) \/ UseBook(r)

Spec == Init /\ [][Next]_vars

-----------------------------------------------------------------------------
\* Spec section 5: the per-pair book map must be protected when a book is
\* created lazily; concurrent creation for a pair must yield a single
\* instance.  So an order SubmitOrder accepted and rested stays in the book
\* that the map holds for its pair, where GET /orderbook shows it and later
\* orders and cancels find it.
OrdersReachable ==
  \A r \in Requests :
    req[r].pc = "done" /\ req[r].kind = "submit"
      => r \in rested[orderbooks[req[r].pair]]

=============================================================================
