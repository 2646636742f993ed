---------------------------- MODULE ChainIndexer ----------------------------
(***************************************************************************)
(* The chain indexer (internal/blockchain/indexer.go) in the process that  *)
(* also runs the settlement worker (cmd/server/main.go 62-81), composed    *)
(* with SettlementWorker: the blocks it polls are the ones the worker's    *)
(* settlements and other users' transactions are mined into.               *)
(*                                                                         *)
(* The node mines one transaction per block, as a development node does,  *)
(* and has no reorganisations (SettlementWorker takes receipts as final).  *)
(* A successful settleTrade emits one TradeSettled log; a reverted one     *)
(* emits none; a user transaction emits one log of some event of the      *)
(* contract.  A log is [ev, id]: its first topic and what it identifies.   *)
(* The handler (noopHandler) is the history seen of the calls Start makes  *)
(* in this process: a crash loses it with lastBlock.  The sleeps and the   *)
(* backoff only pace the loop; a failed BlockNumber or a poll that finds   *)
(* no new block changes nothing else and is a stuttering step.             *)
(***************************************************************************)
EXTENDS SettlementWorker

CONSTANTS UserTxs,   \* transactions of other accounts to the contract
          UserEvents \* the first topics their logs may carry

VARIABLES blocks,    \* the chain: block h holds the logs of its transaction
          ipc,       \* where the loop of Start is
          head,      \* currentBlock, as BlockNumber returned it
          lastBlock, \* the last block whose logs were handled
          seen       \* the handler calls made since the process started

idxVars == <<ipc, head, lastBlock, seen>>
allVars == <<vars, blocks, idxVars>>

\* The signatures processLog dispatches on: Deposit, Withdraw, TradeSettled.
Handled == {"Deposit", "Withdraw", "TradeSettled"}

\* processLog: a log with a known first topic becomes one handler call;
\* any other log of the contract is skipped.  (The three events always
\* carry their two indexed topics and ABI-encoded data, so the topic
\* indexing and Unpack cannot fail on logs of this contract.)
ProcessLog(l) == IF l.ev \in Handled THEN <<l>> ELSE <<>>

\* FilterLogs over FromBlock..ToBlock: the logs of those blocks in order.
LogsIn(from, to) == FlattenSeq(SubSeq(blocks, from, to))

\* The handler calls processing a list of logs makes, in order.
HandleAll(ls) == FlattenSeq([i \in 1..Len(ls) |-> ProcessLog(ls[i])])

-----------------------------------------------------------------------------
(* The node.                                                               *)

\* Mine, with the block it appends: the TradeSettled log of a successful
\* settlement, nothing for a reverted one.
MineBlock ==
  /\ Mine
  /\ LET m == CHOOSE x \in mined' : x.nonce = confirmed
     IN blocks' = Append(blocks,
                    IF m.ok THEN <<[ev |-> "TradeSettled", id |-> m.job]>>
                    ELSE <<>>)
  /\ UNCHANGED idxVars

\* Another account's transaction to the contract is mined.
UserTx(u, e) ==
  /\ \A h \in 1..Len(blocks) : \A i \in 1..Len(blocks[h]) : blocks[h][i].id # u
  /\ blocks' = Append(blocks, <<[ev |-> e, id |-> u]>>)
  /\ UNCHANGED vars /\ UNCHANGED idxVars

-----------------------------------------------------------------------------
(* Indexer.Start.                                                          *)

\* Mutant: the loop waits for a block beyond the next one.
BlockNumberLate ==
  /\ ipc = "poll"
  /\ Len(blocks) > lastBlock + 1
  /\ head' = Len(blocks)
  /\ ipc' = "filter"
  /\ UNCHANGED <<lastBlock, seen>> /\ UNCHANGED vars /\ UNCHANGED blocks

\* BlockNumber answers a head above lastBlock: the loop goes on to query
\* FromBlock = lastBlock + 1, ToBlock = currentBlock (and resets backoff).
BlockNumber ==
  /\ ipc = "poll"
  /\ Len(blocks) > lastBlock
  /\ head' = Len(blocks)
  /\ ipc' = "filter"
  /\ UNCHANGED <<lastBlock, seen>> /\ UNCHANGED vars /\ UNCHANGED blocks

\* FilterLogs answers: every log goes through processLog, then
\* lastBlock = currentBlock.
FilterLogsOk ==
  /\ ipc = "filter"
  /\ seen' = seen \o HandleAll(LogsIn(lastBlock + 1, head))
  /\ lastBlock' = head
  /\ ipc' = "poll"
  /\ UNCHANGED head /\ UNCHANGED vars /\ UNCHANGED blocks

\* Mutant: lastBlock moves on also when FilterLogs failed.
FilterLogsFailAdvance ==
  /\ ipc = "filter"
  /\ RpcMayFail
  /\ ipc' = "poll"
  /\ lastBlock' = head
  /\ UNCHANGED <<head, seen>> /\ UNCHANGED vars /\ UNCHANGED blocks

\* FilterLogs fails: sleep and poll again from the same lastBlock.
FilterLogsFail ==
  /\ ipc = "filter"
  /\ RpcMayFail
  /\ ipc' = "poll"
  /\ UNCHANGED <<head, lastBlock, seen>> /\ UNCHANGED vars /\ UNCHANGED blocks

Indexer == BlockNumber \/ FilterLogsOk \/ FilterLogsFail

\* The process dies and restarts (SettlementWorker's Crash); Start runs
\* again from lastBlock = 0 with a fresh handler.
Restart ==
  /\ Crash
  /\ ipc' = "poll" /\ head' = 0 /\ lastBlock' = 0 /\ seen' = <<>>
  /\ UNCHANGED blocks

-----------------------------------------------------------------------------
IdxInit ==
  /\ Init
  /\ blocks = <<>> /\ ipc = "poll" /\ head = 0 /\ lastBlock = 0 /\ seen = <<>>

IdxNext ==
  \/ (\/ \E j \in Jobs : Submit(j)
      \/ Worker
      \/ \E r \in replies : AwaitReply(r))
     /\ UNCHANGED blocks /\ UNCHANGED idxVars
  \/ MineBlock
  \/ \E u \in UserTxs, e \in UserEvents : UserTx(u, e)
  \/ Restart
  \/ Indexer

\* SettlementWorker's fairness, and the indexer goroutine, which loops
\* forever: it is always scheduled, and the node answers FilterLogs if it
\* is asked again and again (without that the loop retries for ever).
IdxFairness == Fairness /\ WF_allVars(Indexer) /\ SF_allVars(FilterLogsOk)

IdxSpec == IdxInit /\ [][IdxNext]_allVars /\ IdxFairness

-----------------------------------------------------------------------------
\* In every lifetime of the process, the handler has been called for
\* exactly the logs of blocks 1..lastBlock that processLog dispatches, each
\* once and in chain order: the FromBlock/ToBlock window, the lastBlock
\* update after a successful FilterLogs only, and a head read before
\* later blocks are mined never skip or repeat a block.
IndexedPrefix == seen = HandleAll(LogsIn(1, lastBlock))

\* Every settlement mined with a successful receipt is eventually handed
\* to OnTradeSettled, also again after a crash restarts the indexer from
\* block 0: the worker, the node and the poll loop together never leave a
\* settled trade unreported.
SettlementReported ==
  \A j \in Jobs :
    (\E m \in mined : m.job = j /\ m.ok)
      ~> [ev |-> "TradeSettled", id |-> j] \in Range(seen)

=============================================================================
