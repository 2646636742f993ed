--------------------------- MODULE SettlementQueue ---------------------------
(***************************************************************************)
(* What the settlement worker promises its callers (spec 4.E, Interface): *)
(* a bounded FIFO of jobs, each answered exactly once, in the order it was *)
(* sent, and every job sent is eventually answered.  The queue lives in   *)
(* memory, so a crash of the process loses the jobs not yet answered.  How *)
(* a job is answered (the RPCs, the chain) is left out.                    *)
(***************************************************************************)
EXTENDS Sequences, SequencesExt

CONSTANTS Jobs, QueueCap

VARIABLES queue,     \* jobs sent and not yet answered, oldest first
          answered   \* jobs answered, in answer order

vars == <<queue, answered>>

Sent == ToSet(queue) \cup ToSet(answered)

Init == queue = <<>> /\ answered = <<>>

\* A caller sends a new job while there is room.
Send(j) ==
  /\ j \notin Sent
  /\ Len(queue) < QueueCap
  /\ queue' = Append(queue, j)
  /\ UNCHANGED answered

\* The oldest job is answered.
Answer ==
  /\ queue # <<>>
  /\ answered' = Append(answered, Head(queue))
  /\ queue' = Tail(queue)

\* A crash loses every job not yet answered.
Lose ==
  /\ queue # <<>>
  /\ queue' = <<>>
  /\ UNCHANGED answered

Next == (\E j \in Jobs : Send(j)) \/ Answer \/ Lose

Spec == Init /\ [][Next]_vars /\ WF_vars(Answer)

=============================================================================
