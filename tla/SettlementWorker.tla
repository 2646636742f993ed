-------------------------- MODULE SettlementWorker --------------------------
(***************************************************************************)
(* The settlement worker (internal/blockchain/settlement.go), the chain    *)
(* node it talks to, and the per-trade goroutines of the order service    *)
(* that await its replies and mark trades settled (order_service.go        *)
(* 150-161, trade_repo.go MarkSettled).                                    *)
(*                                                                         *)
(* A job is a trade id.  The worker is one goroutine (Run), so its steps   *)
(* are a program counter wpc over the RPCs of settle(); nonceMu is held by *)
(* that goroutine alone and adds nothing.  Pack and SignTx cannot fail on  *)
(* the values the service builds, so they are folded into the neighbouring *)
(* steps.  The node keeps the account's confirmed nonce, its pending pool  *)
(* (nonce -> job) and the mined transactions with their receipt status.    *)
(* An RPC may fail; a failed SendTransaction may still have reached the    *)
(* node (the request got through, the answer was lost).  A crash of the    *)
(* process loses the channel, the worker's job and the reply channels; the *)
(* chain and the trades table survive.  The context of Run is cancelled    *)
(* only by the deferred cancel when main returns, i.e. at process exit,    *)
(* so cancellation is the crash.                                           *)
(***************************************************************************)
EXTENDS Naturals, Sequences, SequencesExt, FiniteSets

CONSTANTS Jobs,          \* trade ids
          NoJob,         \* the worker holds no job
          QueueCap,      \* capacity of settleCh (100 in main.go)
          RpcMayFail,    \* an RPC to the node may fail
          StoreMayFail,  \* MarkSettled may fail
          MaxCrashes     \* bound on process crashes

VARIABLES jobs,       \* settleCh: jobs sent and not yet received
          wpc,        \* where Run/settle is
          cur,        \* the job settle() is working on
          nonce,      \* settle's local nonce
          res,        \* settle's result: TRUE iff success
          confirmed,  \* the account's nonce on chain (next to be mined)
          pool,       \* the node's pending transactions: nonce -> job
          mined,      \* mined transactions [nonce, job, ok]
          sends,      \* history: every SendTransaction [nonce, free]
          replies,    \* replies sent and not yet consumed [job, ok]
          settled,    \* trades with settled_on_chain = TRUE
          answered,   \* history: jobs replied to, in order
          crashes,    \* crashes so far
          enqueued    \* history: every trade id ever enqueued

vars == <<jobs, wpc, cur, nonce, res, confirmed, pool, mined, sends,
          replies, settled, answered, crashes, enqueued>>

Pcs == {"idle", "nonce", "gas", "send", "wait", "reply"}

\* PendingNonceAt: the confirmed nonce plus the transactions pending.
PendingNonce == confirmed + Cardinality(DOMAIN pool)

\* The node accepts a transaction only with a nonce no other one holds.
NonceUsable(n) == n >= confirmed /\ n \notin DOMAIN pool

\* settle returns SettleResult{Err: ...}: go straight to the reply.
Fail == wpc' = "reply" /\ res' = FALSE
\* Mutant: the enqueue does not respect the channel's capacity.
SubmitUnbounded(j) ==
  /\ j \notin enqueued
  /\ jobs' = Append(jobs, j)
  /\ enqueued' = enqueued \cup {j}
  /\ UNCHANGED <<wpc, cur, nonce, res, confirmed, pool, mined, sends,
                 replies, settled, answered, crashes>>


-----------------------------------------------------------------------------
(* The order service enqueues a job (order_service.go 142-148): the send   *)
(* blocks while settleCh is full.                                          *)
Submit(j) ==
  /\ j \notin enqueued
  /\ Len(jobs) < QueueCap
  /\ jobs' = Append(jobs, j)
  /\ enqueued' = enqueued \cup {j}
  /\ UNCHANGED <<wpc, cur, nonce, res, confirmed, pool, mined, sends,
                 replies, settled, answered, crashes>>

(* Run receives a job; settle tuplifies the orders and packs the call.    *)
Recv ==
  /\ wpc = "idle"
  /\ jobs # <<>>
  /\ cur' = Head(jobs)
  /\ jobs' = Tail(jobs)
  /\ wpc' = "nonce"
  /\ UNCHANGED <<nonce, res, confirmed, pool, mined, sends, replies,
                 settled, answered, crashes, enqueued>>
\* Mutant: NonceAt(latest) instead of PendingNonceAt.
NonceReadLatest ==
  /\ wpc = "nonce"
  /\ \/ nonce' = confirmed /\ wpc' = "gas" /\ UNCHANGED res
     \/ RpcMayFail /\ Fail /\ UNCHANGED nonce
  /\ UNCHANGED <<jobs, cur, confirmed, pool, mined, sends, replies,
                 settled, answered, crashes, enqueued>>


(* PendingNonceAt.                                                         *)
NonceRead ==
  /\ wpc = "nonce"
  /\ \/ nonce' = PendingNonce /\ wpc' = "gas" /\ UNCHANGED res
     \/ RpcMayFail /\ Fail /\ UNCHANGED nonce
  /\ UNCHANGED <<jobs, cur, confirmed, pool, mined, sends, replies,
                 settled, answered, crashes, enqueued>>

(* SuggestGasPrice, NewTransaction, SignTx.                                *)
GasSign ==
  /\ wpc = "gas"
  /\ \/ wpc' = "send" /\ UNCHANGED res
     \/ RpcMayFail /\ Fail
  /\ UNCHANGED <<jobs, cur, nonce, confirmed, pool, mined, sends, replies,
                 settled, answered, crashes, enqueued>>

(* SendTransaction: the node takes the transaction if its nonce is free;  *)
(* with a failing RPC the request or only its answer may be lost.         *)
Send ==
  /\ wpc = "send"
  /\ sends' = Append(sends, [nonce |-> nonce, free |-> PendingNonce])
  /\ \/ NonceUsable(nonce) /\ pool' = pool @@ (nonce :> cur)
        /\ wpc' = "wait" /\ UNCHANGED res
     \/ NonceUsable(nonce) /\ RpcMayFail /\ pool' = pool @@ (nonce :> cur)
        /\ Fail
     \/ (RpcMayFail \/ ~NonceUsable(nonce)) /\ Fail /\ UNCHANGED pool
  /\ UNCHANGED <<jobs, cur, nonce, confirmed, mined, replies, settled,
                 answered, crashes, enqueued>>
\* Mutant: the receipt status is not checked.
WaitIgnoreStatus ==
  /\ wpc = "wait"
  /\ \E m \in mined : m.nonce = nonce /\ m.job = cur
  /\ res' = TRUE
  /\ wpc' = "reply"
  /\ UNCHANGED <<jobs, cur, nonce, confirmed, pool, mined, sends, replies,
                 settled, answered, crashes, enqueued>>


(* bind.WaitMined polls for the receipt until the transaction is mined;   *)
(* the receipt status decides success or "tx reverted".                   *)
Wait ==
  /\ wpc = "wait"
  /\ \E m \in mined :
       /\ m.nonce = nonce /\ m.job = cur
       /\ res' = m.ok
  /\ wpc' = "reply"
  /\ UNCHANGED <<jobs, cur, nonce, confirmed, pool, mined, sends, replies,
                 settled, answered, crashes, enqueued>>
\* Mutant: a failed job gets no reply.
ReplyDropOnError ==
  /\ wpc = "reply"
  /\ replies' = IF res THEN replies \cup {[job |-> cur, ok |-> res]}
                ELSE replies
  /\ answered' = IF res THEN Append(answered, cur) ELSE answered
  /\ cur' = NoJob
  /\ wpc' = "idle"
  /\ UNCHANGED <<jobs, nonce, res, confirmed, pool, mined, sends, settled,
                 crashes, enqueued>>


(* job.Result <- result (the reply channel has room for one).             *)
Reply ==
  /\ wpc = "reply"
  /\ replies' = replies \cup {[job |-> cur, ok |-> res]}
  /\ answered' = Append(answered, cur)
  /\ cur' = NoJob
  /\ wpc' = "idle"
  /\ UNCHANGED <<jobs, nonce, res, confirmed, pool, mined, sends, settled,
                 crashes, enqueued>>

(* The goroutine awaiting a reply marks the trade settled on success.     *)
AwaitReply(r) ==
  /\ replies' = replies \ {r}
  /\ \/ r.ok /\ settled' = settled \cup {r.job}
     \/ ~r.ok /\ UNCHANGED settled
     \/ r.ok /\ StoreMayFail /\ UNCHANGED settled
  /\ UNCHANGED <<jobs, wpc, cur, nonce, res, confirmed, pool, mined, sends,
                 answered, crashes, enqueued>>

(* The node mines the next pending transaction; it may revert.            *)
Mine ==
  /\ confirmed \in DOMAIN pool
  /\ \E ok \in BOOLEAN :
       mined' = mined \cup {[nonce |-> confirmed, job |-> pool[confirmed],
                             ok |-> ok]}
  /\ pool' = [n \in DOMAIN pool \ {confirmed} |-> pool[n]]
  /\ confirmed' = confirmed + 1
  /\ UNCHANGED <<jobs, wpc, cur, nonce, res, sends, replies, settled,
                 answered, crashes, enqueued>>

(* The process dies and restarts: memory is lost, the chain and the       *)
(* trades table are not.  Nothing re-enqueues unsettled trades.           *)
Crash ==
  /\ crashes < MaxCrashes
  /\ crashes' = crashes + 1
  /\ jobs' = <<>> /\ wpc' = "idle" /\ cur' = NoJob /\ replies' = {}
  /\ UNCHANGED <<nonce, res, confirmed, pool, mined, sends, settled,
                 answered, enqueued>>

-----------------------------------------------------------------------------
Init ==
  /\ jobs = <<>> /\ wpc = "idle" /\ cur = NoJob /\ nonce = 0 /\ res = FALSE
  /\ confirmed = 0 /\ pool = <<>> /\ mined = {} /\ sends = <<>>
  /\ replies = {} /\ settled = {} /\ answered = <<>> /\ crashes = 0
  /\ enqueued = {}

Worker == Recv \/ NonceRead \/ GasSign \/ Send \/ Wait \/ Reply

Next ==
  \/ \E j \in Jobs : Submit(j)
  \/ Worker
  \/ \E r \in replies : AwaitReply(r)
  \/ Mine
  \/ Crash

\* Run is one goroutine that is always scheduled; the node mines every
\* pending transaction (a dev chain, no pool eviction); the awaiting
\* goroutines are scheduled.
Fairness == WF_vars(Worker) /\ WF_vars(Mine)
            /\ WF_vars(\E r \in replies : AwaitReply(r))

Spec == Init /\ [][Next]_vars /\ Fairness


-----------------------------------------------------------------------------
TypeOK ==
  /\ jobs \in Seq(Jobs) /\ Len(jobs) <= QueueCap
  /\ wpc \in Pcs /\ cur \in Jobs \cup {NoJob} /\ res \in BOOLEAN
  /\ nonce \in Nat /\ confirmed \in Nat
  /\ DOMAIN pool \subseteq Nat /\ Range(pool) \subseteq Jobs
  /\ mined \subseteq [nonce : Nat, job : Jobs, ok : BOOLEAN]
  /\ replies \subseteq [job : Jobs, ok : BOOLEAN]
  /\ settled \subseteq Jobs /\ enqueued \subseteq Jobs
  /\ crashes \in 0..MaxCrashes

\* Serialized nonces: every transaction the worker sends carries the
\* account's next free nonce at that moment (PendingNonceAt), even after
\* an earlier send whose answer was lost left a transaction pending, or a
\* crash left one in the pool, so the node never rejects a settlement for
\* a used nonce and never holds a nonce gap.
NonceIsNextFree == \A i \in 1..Len(sends) : sends[i].nonce = sends[i].free

\* A trade is marked settled_on_chain only if a transaction for it was
\* mined with a successful receipt (settle's receipt.Status check and the
\* awaiting goroutine's result.Err check).
SettledOnlyIfMined ==
  \A j \in settled : \E m \in mined : m.job = j /\ m.ok

\* When nothing is in flight, the trades table agrees with the chain: a
\* trade is settled_on_chain iff its settlement was mined successfully.
Quiescent == wpc = "idle" /\ jobs = <<>> /\ DOMAIN pool = {} /\ replies = {}
SettledMatchesChain ==
  Quiescent => settled = {m.job : m \in {x \in mined : x.ok}}

\* The worker implements the interface of spec 4.E: a FIFO in which every
\* job is answered exactly once, in order, and eventually.  The job settle
\* is working on is still at the head of the abstract queue.
Queue == IF cur = NoJob THEN jobs ELSE <<cur>> \o jobs
Q == INSTANCE SettlementQueue
       WITH queue <- Queue, answered <- answered, QueueCap <- QueueCap + 1
RefinesQueue == Q!Spec

=============================================================================
