----------------------------- MODULE SnapshotFeed -----------------------------
(***************************************************************************)
(* The path from the book to a websocket client: updateCache at the end of *)
(* SubmitOrder and CancelOrder (service/order_service.go), the Redis cache *)
(* and channel (repository/redis/orderbook_cache.go) and the websocket     *)
(* handler (handler/ws_handler.go).                                        *)
(*                                                                         *)
(* The book is abstracted to a version number, bumped by every AddOrder or *)
(* CancelOrder under the write lock; a snapshot is the version it was read *)
(* at, and a side (bids, asks) stored in Redis or shown to a client is the *)
(* version of the snapshot it came from.  Redis commands are atomic one by *)
(* one; SetSnapshot's pipeline of two SETs is taken as one atomic write,   *)
(* as spec 4.C asks of it.  A PUBLISH reaches the connections subscribed  *)
(* at that moment, in publish order.  Cache and store errors are left out: *)
(* the spec lets the cache go stale after one (CacheUnavailable).          *)
(***************************************************************************)
EXTENDS Naturals, Sequences

CONSTANTS Writers,   \* requests that change the book and then run updateCache
          Clients    \* websocket connections to /ws

VARIABLES version,   \* the book's version (its state under the lock)
          wpc,       \* per writer: where it is in its request
          wsnap,     \* per writer: the version updateCache read
          cache,     \* the versions stored under ob:{pair}:bids and :asks
          cpc,       \* per client: where Handle is
          got,       \* per client: the bids GetSnapshot read so far
          inbox,     \* per client: messages published to its subscription
          view       \* per client: the bids/asks of the last message sent

vars == <<version, wpc, wsnap, cache, cpc, got, inbox, view>>

Side == [bids : Nat, asks : Nat]
Snap(v) == [bids |-> v, asks |-> v]
NoView == [bids |-> 0, asks |-> 0, none |-> TRUE]

Init ==
  /\ version = 0
  /\ wpc = [w \in Writers |-> "book"]
  /\ wsnap = [w \in Writers |-> 0]
  /\ cache = Snap(0)
  /\ cpc = [c \in Clients |-> "offline"]
  /\ got = [c \in Clients |-> 0]
  /\ inbox = [c \in Clients |-> <<>>]
  /\ view = [c \in Clients |-> NoView]

ClientVars == <<cpc, got, inbox, view>>
WriterVars == <<version, wpc, wsnap, cache>>

-----------------------------------------------------------------------------
(* Writers.                                                                *)

\* book.AddOrder (SubmitOrder) or book.CancelOrder (CancelOrder) under the
\* exclusive lock; the request then goes on to updateCache.
BookUpdate(w) ==
  /\ wpc[w] = "book"
  /\ version' = version + 1
  /\ wpc' = [wpc EXCEPT ![w] = "snapshot"]
  /\ UNCHANGED <<wsnap, cache>> /\ UNCHANGED ClientVars

\* updateCache: snapshot := book.GetSnapshot() under the shared lock.
SnapshotRead(w) ==
  /\ wpc[w] = "snapshot"
  /\ wsnap' = [wsnap EXCEPT ![w] = version]
  /\ wpc' = [wpc EXCEPT ![w] = "setCache"]
  /\ UNCHANGED <<version, cache>> /\ UNCHANGED ClientVars

\* s.cache.SetSnapshot: the pipelined SETs of both keys.
SetSnapshot(w) ==
  /\ wpc[w] = "setCache"
  /\ cache' = Snap(wsnap[w])
  /\ wpc' = [wpc EXCEPT ![w] = "publish"]
  /\ UNCHANGED <<version, wsnap>> /\ UNCHANGED ClientVars

\* s.cache.PublishUpdate: {type:"orderbook", bids, asks} of the writer's own
\* snapshot, to every connection subscribed at that moment.
PublishUpdate(w) ==
  /\ wpc[w] = "publish"
  /\ inbox' = [c \in Clients |->
                 IF cpc[c] = "live" THEN Append(inbox[c], Snap(wsnap[w]))
                 ELSE inbox[c]]
  /\ wpc' = [wpc EXCEPT ![w] = "done"]
  /\ UNCHANGED <<version, wsnap, cache, cpc, got, view>>

-----------------------------------------------------------------------------
(* Websocket connections (WSHandler.Handle).                               *)

\* Upgrade, then GetSnapshot's GET of ob:{pair}:bids.
GetBids(c) ==
  /\ cpc[c] = "offline"
  /\ got' = [got EXCEPT ![c] = cache.bids]
  /\ cpc' = [cpc EXCEPT ![c] = "asks"]
  /\ UNCHANGED <<inbox, view>> /\ UNCHANGED WriterVars

\* GetSnapshot's GET of ob:{pair}:asks, then WriteJSON of the "snapshot".
GetAsks(c) ==
  /\ cpc[c] = "asks"
  /\ view' = [view EXCEPT ![c] = [bids |-> got[c], asks |-> cache.asks]]
  /\ cpc' = [cpc EXCEPT ![c] = "subscribe"]
  /\ UNCHANGED <<got, inbox>> /\ UNCHANGED WriterVars

\* h.cache.Subscribe: from here on the connection receives publications.
Subscribe(c) ==
  /\ cpc[c] = "subscribe"
  /\ cpc' = [cpc EXCEPT ![c] = "live"]
  /\ UNCHANGED <<got, inbox, view>> /\ UNCHANGED WriterVars

\* The select loop writes the next message's payload to the socket.
Forward(c) ==
  /\ cpc[c] = "live"
  /\ inbox[c] # <<>>
  /\ view' = [view EXCEPT ![c] = Head(inbox[c])]
  /\ inbox' = [inbox EXCEPT ![c] = Tail(inbox[c])]
  /\ UNCHANGED <<cpc, got>> /\ UNCHANGED WriterVars

\* The read pump sees the socket close and cancels ctx (or a write fails):
\* Handle returns and the deferred sub.Close unsubscribes.
Disconnect(c) ==
  /\ cpc[c] = "live"
  /\ cpc' = [cpc EXCEPT ![c] = "closed"]
  /\ inbox' = [inbox EXCEPT ![c] = <<>>]
  /\ UNCHANGED <<got, view>> /\ UNCHANGED WriterVars

Next ==
  \/ \E w \in Writers :
       BookUpdate(w) \/ SnapshotRead(w) \/ SetSnapshot(w) \/ PublishUpdate(w)
  \/ \E c \in Clients :
       GetBids(c) \/ GetAsks(c) \/ Subscribe(c) \/ Forward(c) \/ Disconnect(c)

Spec == Init /\ [][Next]_vars

-----------------------------------------------------------------------------
\* Nothing is in flight: no request is between its book update and its
\* publication, and every connected client has been sent every message
\* published to it.
Quiet ==
  /\ \A w \in Writers : wpc[w] \in {"book", "done"}
  /\ \A c \in Clients : cpc[c] \in {"offline", "live", "closed"} /\ inbox[c] = <<>>

\* Spec section 1 and 4.C: the book and every downstream observer agree.
\* Once the book is quiet, the cache holds its snapshot and every open
\* websocket shows it (the snapshot Handle sent, or the last update since).
ObserversAgreeWhenIdle ==
  Quiet => /\ cache = Snap(version)
           /\ \A c \in Clients : cpc[c] = "live" => view[c] = Snap(version)

=============================================================================
