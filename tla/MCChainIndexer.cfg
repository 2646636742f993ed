\* The settlement worker under every fault (failing RPCs, lost send
\* answers, failing MarkSettled, two crashes at any step) with the indexer
\* polling the chain it settles on, beside another account's transaction.
CONSTANTS
  Jobs = {j1, j2}
  NoJob = NoJob
  QueueCap = 1
  RpcMayFail = TRUE
  StoreMayFail = TRUE
  MaxCrashes = 2
  UserTxs = {u1}
  UserEvents <- MCUserEvents
SPECIFICATION IdxSpec
INVARIANT TypeOK NonceIsNextFree SettledOnlyIfMined IndexedPrefix
PROPERTY RefinesQueue SettlementReported
CHECK_DEADLOCK FALSE
