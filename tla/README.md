# TLA+ models of the nexus-orderbook-dex backend

This directory holds TLA+ models of the Go backend under `src/backend`. The
models cover the matching engine, the order service that coordinates it
with the stores, the cache and the settlement worker, the worker and the
chain indexer, the websocket feed and the typed-data verifier. Each module names the code it models. `PROJECT.json` maps
every definition to its source lines and lists the runs, the mutants, the
findings and the hazards.

Tools: `tlasany M.tla` parses a module. `tlc -workers 2 -config X.cfg M`
checks it.

## 1. Inventory

### Components

| Component | Source | State it keeps | Operations that change state |
|---|---|---|---|
| Matching engine | `internal/orderbook/engine.go`, `heap.go`, `internal/domain/order.go` | `BuyHeap`, `SellHeap` (entries with a heap `Index`), `orderMap` (id to entry), and the `*domain.Order` objects it shares with its callers | `AddOrder` (`matchBuy`/`matchSell`, then rest the remainder), `CancelOrder`. `GetSnapshot` only reads. |
| Order service (coordinator) | `internal/service/order_service.go` | `orderbooks` map (pair to book), the settlement channel | `SubmitOrder`, `CancelOrder`, `LoadOpenOrders`, `GetOrCreateOrderBook`, `updateCache`, one reply goroutine per trade |
| Order and trade stores | `internal/repository/postgres/*.go` | rows of `orders` and `trades` | `Create`, `UpdateStatus`, `GetByID`, `GetOpenByPair`; trade `Create`, `MarkSettled` |
| Snapshot cache and pub/sub | `internal/repository/redis/orderbook_cache.go` | `ob:{pair}:bids`/`asks` keys, the `ob:updates:{pair}` channel | `SetSnapshot` (one pipelined write), `PublishUpdate`. `GetSnapshot` and `Subscribe` read. |
| Settlement worker | `internal/blockchain/settlement.go`, `cmd/server/main.go` | the job channel (capacity 100), `nonceMu`, the account nonce on the chain | `Run` (take a job, `settle`, reply), `settle` (pack, nonce, gas price, sign, send, wait for the receipt) |
| Typed-data verifier | `pkg/eip712/*.go` | none (pure) | `HashOrder`, `HashTypedData`, `VerifyOrderSignature` |
| HTTP handlers | `internal/handler/order_handler.go`, `orderbook_handler.go`, `trade_handler.go` | none; one goroutine per request | call the service |
| Websocket feed | `internal/handler/ws_handler.go` | per connection: the socket and a Redis subscription | `Handle`: `GetSnapshot` (GET bids, then GET asks), send it as `snapshot`, `Subscribe`, then forward every publication until the socket closes |
| Chain indexer | `internal/blockchain/indexer.go` | `lastBlock` (in memory only) | `Start`: poll `BlockNumber`, `FilterLogs` over `lastBlock+1..currentBlock`, `processLog` each log to the handler (`noopHandler`, which only logs), move `lastBlock` |
| Client, config, startup | `internal/blockchain/client.go`, `internal/config/config.go`, `cmd/server/main.go` | connections | startup: stores, cache, worker (or a stub that answers every job with success), `LoadOpenOrders("TKA-TKB")`, then serve |
| Test scripts | `scripts/*.go` | — | drive the HTTP API; not part of the running system |

### How the components interact

A submission goes handler → `SubmitOrder`. The service parses the order and
verifies the signature. It inserts the order row, then calls `AddOrder` under
the book lock. For each match it inserts a trade and updates both order rows.
It then sends a job on the settlement channel and starts a goroutine that
waits for the reply and marks the trade settled. Last, it reads a snapshot of
the book, writes it to the cache and publishes it.

A cancellation goes `CancelOrder` → `GetByID` (row) → `book.CancelOrder` →
`UpdateStatus(Cancelled, row.FilledBase)` → cache.

The engine and the service share the `*domain.Order` objects. The book mutates
them under its lock. The service reads `Status` and `FilledBase` from them
after the lock is released, to write the rows.

### What is hard

- **Concurrency.** Requests run in parallel. Only `AddOrder`/`CancelOrder`
  are serialised, by the book lock. The row writes, the cache writes and the
  book map are not serialised at all.
- **Partial failure.** Every store and cache write can fail. Trade insert
  failures are skipped, `UpdateStatus` errors are ignored, cache errors are
  logged. The engine has already changed by then.
- **Crash and restart.** The book and the settlement queue are in memory
  only. A restart replays the open rows, which may lag the trades already
  persisted.
- **Ordering and timeouts.** Cache writes and publications can land out of
  order. Settlement replies come back in any order, and a receipt wait can
  fail after the transaction was sent.

### What makes each component correct

- Engine: the heaps and `orderMap` hold the same resting orders. No resting
  order is Filled or empty. The book is never crossed. `FilledBase` equals
  the sum of the order's fills and never exceeds its size. Every match lies
  between both limits. The quote is computed at the maker's price. Filled and
  Cancelled orders never change.
- Coordinator and stores: when no request is in flight, every row agrees with
  the book. The trades of an order never exceed its size, also across a
  restart. A cancelled order never trades again. A row's `filled_base` never
  decreases (spec 3, 4.D).
- Cache and feed: when no request is in flight, the cache and every open
  websocket show the current book (spec section 1: every downstream observer
  agrees), and no snapshot is torn (spec 4.B, 4.C).
- Settlement: every job gets exactly one reply. Nonces are used in order. A
  trade is marked settled only after a successful receipt, and at most once.
  Every submission eventually returns, even when the channel is full.
- Verifier: a signature verifies only the order that was signed.
- Indexer: in each lifetime of the process, the handler sees every handled
  log of the scanned blocks exactly once and in chain order. Every
  successful settlement eventually reaches `OnTradeSettled`.

## 2. Plan

Modules, in order of importance:

1. `OrderBook` (done). The engine: one atomic action per locked operation,
   with the matching loop as a recursive operator. `MCOrderBook` checks it.
2. `OrderService` (done, section 3). It composes the engine (`INSTANCE OrderBook`) with
   concurrent `SubmitOrder`/`CancelOrder` requests, modelled as processes
   with a program counter per step. It also models the order and trade rows,
   failing writes, the cache and publications, the settlement queue (with an
   abstract worker), the reply goroutines, and a restart that replays the open
   rows. Runs:
   - store agreement when idle (violation: a cancel between `Create` and
     `AddOrder` of the same order);
   - monotone `filled_base` (violation: a cancel writes back a stale amount);
   - a restart with failing store writes: the channel bound and the rebuilt
     book (pass);
   - trades within order size across a restart (violation: a crash between
     the trade insert and the row update).
   `BookRegistry` models the `orderbooks` map of the same service under
   requests for several pairs (violation: two books for one pair).
3. `SettlementWorker` (done, section 3). The worker goroutine with each step
   of `settle`, the node (pending pool, mined receipts), failing RPCs, lost
   send answers, crashes and the reply goroutines. The abstract
   `SettlementQueue` (each job answered once, in FIFO order, eventually) is
   checked as a property through `INSTANCE ... WITH`. `OrderService` keeps
   the one-step abstraction of the worker.
4. `Eip712` (done, section 3). The order encoding with `Bytes()` and
   `LeftPadBytes` as they behave, verification with the v adjustment, and a
   check of the encoding against the spec's.
5. `SnapshotFeed` (done, section 3). `updateCache`, the two Redis keys, the
   channel and the websocket handler, with the book abstracted to a version.
   Run: observers agree with the book when idle (violation: a torn snapshot
   and the snapshot-then-subscribe window; reordered cache writes).
6. `Snapshot` operators (done): the insertion sorts of `GetSnapshot` checked
   against a reference sort in `engine_safety`.
7. `ChainIndexer` (done, section 3). The indexer's poll loop composed with
   `SettlementWorker` in one process. The blocks it scans are the worker's
   mined settlements and other accounts' transactions, and a crash restarts
   both. Run `settle_and_index` takes over the worker's run.

Bounds: three or four order ids, amounts in 0..2, settlement channel
capacity 1 or 2. These allow partial fills, fills across two makers,
equal-priced makers, and a full channel.

## 3. Modules and runs

### OrderBook (matching engine)

State: `orders` (the shared `*domain.Order` records: side, amounts,
`filled` = `FilledBase`, `status`, `created` = `CreatedAt`); `buys`/`sells`
(the ids in each heap); `orderMap` (its keys); `clock` (the source of
`CreatedAt`); and the auxiliary `matchLog` (every `MatchResult` returned).

The heaps are sets. Their top is the element that `BuyHeap.Less`/
`SellHeap.Less` puts before every other. Creation times are distinct, so that
element is unique, which is what `container/heap` returns at index 0.

Prices are exact ratios compared by cross-multiplication. For the model's
amounts, distinct ratios are far apart in float64, so this ordering is the
code's float ordering. A price x/0 is +Inf, and cross-multiplication handles
it the same way. 0/0 panics in `big.Float.Quo` before any engine state
changes, so such inputs are left to the coordinator model.

Actions:
- `AddOrder(id, in)` is `OrderBook.AddOrder` for a freshly created order:
  `MatchLoop` (`matchBuy`/`matchSell`: `Crosses`, `FillAmount`, `MatchStep`
  with `ApplyFill`, `PopFilled`), then the remainder rests if positive and
  not Filled.
- `CancelOrder(id)` is `OrderBook.CancelOrder`: a miss, or Cancelled, removed
  from `orderMap` and from the heap of its side.

`GetSnapshot` changes no state. Its aggregation (`AggregateLevels`, keyed by
the reduced ratio) is an operator that `OrderService` uses. Its insertion
sorts `sortDesc`/`sortAsc` are the recursive operators `SinkLeft` (the inner
loop) and `InsertionPass` (the outer loop). `SnapshotSorted` checks them
against `SortSeq` of the community module `SequencesExt`. It does so for
every order in which the heap array may list the price levels of the
current book.

Runs (`MCOrderBook`: ids `{o1,o2,o3}`, amounts `0..2`, symmetry over ids,
which is sound because `CreatedAt` comes from the clock and not from the id):

| Run | Expect | Properties | What it shows |
|---|---|---|---|
| `engine_safety` | pass | `TypeOK`, `BookConsistent`, `NotCrossed`, `FillAccounting`, `WithinLimits`, `TerminalIsFinal`, `SnapshotSorted` | Every sequence of adds and cancels keeps the heaps and `orderMap` equal and on the right side, never leaves a crossed book, keeps each `FilledBase` equal to its fills and within size with a consistent status, executes every match between both limits, never changes a Filled or Cancelled order, and lists snapshot levels best price first. About 21,000 distinct states. |
| `engine_quote_maker_price` | violation | `QuoteAtMakerPrice` | A sell taker against a resting buy: `matchSell` computes the quote from the sell's own ratio while it reports the buy's price. TLC: resting buy 1 for 1, sell 1 for 0, and the match has price 1.0 with quote 0. |

Three amounts allow partial fills, fills against two makers, equal prices at
different ratios (1/1 and 2/2), and both infinite and zero prices. Three
orders allow a taker that crosses two makers, and a cancel after a partial
fill.

Each property of a passing run has a mutant in `PROJECT.json`: a variant
operator defined just before the one it replaces, such as `CrossesStrict` or
`PopFilledKeepMap`. It reproduces a plausible bug, and TLC finds the property
violated under it.

Fairness: the engine has no processes of its own and is driven by its
callers, so `OrderBook` states safety only.

### OrderService (coordinator, stores, cache, settlement channel, restart)

`OrderService` instantiates the engine (`Book == INSTANCE OrderBook WITH
orders <- mem, ...`), so every book operation is the engine's own operator:
`AddOrderResult`, `CancelResult`, `GetSnapshot`.

State: `mem` (the shared `*domain.Order` objects), the book (`buys`,
`sells`, `orderMap`), `clock` (`time.Now()` in `orderRepo.Create`),
`dbOrders` and `dbTrades` (rows), `settleQ` (the buffered channel),
`replies` and `awaiting` (the result channels and their goroutines), `req`
(each HTTP request's program counter and locals), and `restarts`. The cache
is left out here: `updateCache` changes only the cache and the channel to
websocket clients, and `SnapshotFeed` models those.

Each request is a process that runs once. A submit request's id is the
order id it creates. Its steps, in the order `SubmitOrder` runs them:

| Action | Code | Failure |
|---|---|---|
| `Create` | `orderRepo.Create` (sets `CreatedAt`) | returns an error |
| `Add` | `book.AddOrder` under the lock | — |
| `TradeCreate` | `tradeRepo.Create` for the k-th match | logged, match skipped |
| `ReadOrder` / `WriteOrder` | `UpdateStatus(match.X.ID, match.X.Status, match.X.FilledBase)`: the arguments are read from the shared object, the UPDATE lands in a later step | error ignored |
| `Enqueue` | `s.settleCh <- job` and `go func` | blocks while full |
| `UpdateCache` | `updateCache`: snapshot, `SetSnapshot`, `PublishUpdate` (one step here) | logged |

A cancel request runs `GetByID` ("not found" when there is no row),
`CancelBook` (a miss is ignored), `CancelRow` (`UpdateStatus(Cancelled,
row.FilledBase)`, whose error returns before `updateCache`), and then
`UpdateCache`. `WorkerReply` is the worker's loop (`Run`, or the
stub drainer of `main.go`): the head job is answered with a hash or an
error. `AwaitReply` is the reply goroutine: on success it calls
`MarkSettled`, which may fail. `Restart` kills the process: requests in
flight, the channel and the goroutines are lost. `main` then runs
`LoadOpenOrders`: the open and partially filled rows, ordered by
`created_at`, go through `AddOrder` in a fresh book (`Replay`), and the
matches it finds are dropped, as in the code. If `GetOpenByPair` fails,
which is possible only when store failures are on, `main` logs it and serves
with an empty book; `service_restart` explores this branch. The
trade row that `tradeRepo.Create` inserts is `NewTradeRow`, and
`MarkSettled` sets its flag.

Constants: `Requests`, `Inputs` (the orders clients send), `Kinds` (submit,
cancel), `QueueCap`, `StoreMayFail`, `MaxRestarts`.

No fairness is assumed: every property of this module is a safety
property.

Runs (`MCOrderService`, amounts `0..2`, channel capacity 1, symmetry over
request ids; `CHECK_DEADLOCK FALSE` because every
request runs once and the server then idles):

| Run | Expect | Properties | Config | What it shows |
|---|---|---|---|---|
| `service_restart` | pass | `TypeOK`, `BookSound` | 3 requests, submit and cancel, buy 1/1 and sell 2/2, store writes may fail, one restart | Over every interleaving, failing writes and a crash at any step: the channel stays within capacity (a sell that fills two buys sends two jobs into a channel of capacity 1, so the second send must wait). The book rebuilt by `LoadOpenOrders`, or left empty when `GetOpenByPair` fails, has consistent heaps and `orderMap`, holds no finished order, and is not crossed. About 239,000 states, 30 seconds. |
| `service_store_agreement` | violation | `StoreAgreesWithBookWhenIdle` | 3 requests, no failures | See finding 2. |
| `service_cancel_after_fill` | violation | `RowFilledMonotone` | unit orders | See finding 3. |
| `service_restart_double_trade` | violation | `TradesWithinOrderSize` | unit orders, one restart | See finding 4. |

Bounds. A sell of 2 against unit buys gives partial fills, a taker that
matches two makers, and two jobs for one channel slot. Three requests allow
a submission to race a second submission and a cancel. Row agreement is
checked without failures, because a failed write makes them false at once
and the code accepts that by logging it. That a send blocked on a full
channel eventually proceeds is not checked: it rests on the worker, whose
`settle` has no timeout.

### BookRegistry (the service's pair-to-book map)

`BookRegistry` models `OrderService.orderbooks` and `GetOrCreateOrderBook`
(`order_service.go:47-54`). That is the one piece of the service that
`OrderService`, which has a single pair, leaves out. The map has no lock. The
lookup (lines 48-50) and the creation and store of a new book (51-53) are
separate steps. Any request whose pair has no book yet runs them:
`SubmitOrder` (line 117) and `GET /orderbook?pair=` (line 190, which needs no
signature). The pair is never validated. `main` creates the `TKA-TKB` book
through `LoadOpenOrders` before serving (`Init`).

State:
- `orderbooks` maps each pair to a book instance number, or `NoBook`;
- `created` counts the books `NewOrderBook` has made;
- `req` holds each request's program counter, kind, pair and the book it got;
- `rested` maps each book to the orders resting in it.

What a request does with its book is reduced to what matters for the map.
A submit rests its order (`AddOrder` of an order that does not cross). A GET
only reads. A Go map written concurrently is a data race. The runtime may
abort the process instead ("concurrent map writes"). The model keeps the
other outcome, in which both stores land and the later one wins.

| Action | Code |
|---|---|
| `Request(r, k, p)` | a POST `/orders` or GET `/orderbook` for pair `p` reaches `GetOrCreateOrderBook` |
| `Lookup(r)` | `if book, ok := s.orderbooks[pair]; ok { return book }` |
| `Store(r)` | `book := ob.NewOrderBook(pair); s.orderbooks[pair] = book` |
| `UseBook(r)` | `book.AddOrder(order)` or `book.GetSnapshot()` |

`OrdersReachable` says that every order a finished submit rested is in the
book the map holds for its pair. Only there can `GetOrderbook`, later
matches and `CancelOrder` find it. Spec section 5 requires a single instance
per pair.

| Run | Expect | Properties | Config | What it shows |
|---|---|---|---|---|
| `service_book_map_race` | violation | `OrdersReachable` | `MCBookRegistry`: 2 requests, submit or get, pairs `TKA-TKB` and `TKC-TKD` | See finding 9. |

### SettlementWorker and SettlementQueue (settlement worker)

`SettlementQueue` is what spec 4.E promises callers. `queue` holds the jobs
sent and not yet answered, and `answered` the jobs answered, in order. `Send`
adds a new job while there is room, and `Answer` answers the oldest job. Weak
fairness of `Answer` means every job is eventually answered.

`SettlementWorker` models `internal/blockchain/settlement.go` together with:
- the node it calls;
- the enqueue of `SubmitOrder`;
- the goroutine that awaits the reply and calls `MarkSettled`.

A job is a trade id. `Run` is one goroutine, so `settle` is a program counter
`wpc`. `nonceMu` is only ever taken by that goroutine and is left out.

| Action | Code | Notes |
|---|---|---|
| `Submit(j)` | `s.settleCh <- job` (`order_service.go` 142-148) | blocks while `settleCh` is full |
| `Recv` | `case job := <-jobs`, tuplify, `Pack` | `Pack` cannot fail on the service's values |
| `NonceRead` | `PendingNonceAt` | the confirmed nonce plus the pending transactions; may fail |
| `GasSign` | `SuggestGasPrice`, `NewTransaction`, `SignTx` | the RPC may fail; signing with the configured key cannot |
| `Send` | `SendTransaction` | the node takes the transaction if its nonce is free; a failing RPC loses the request or only the answer |
| `Wait` | `bind.WaitMined`, `receipt.Status` | waits until mined; a reverted receipt is an error |
| `Reply` | `job.Result <- result` | the reply channel is buffered |
| `AwaitReply(r)` | the reply goroutine and `MarkSettled` | marks settled on success; the write may fail |
| `Mine` | the node | mines the next pending nonce, which succeeds or reverts |
| `Crash` | process exit (`main.go` 69-78) | loses `settleCh`, the job and the reply goroutines; the chain and the trades table survive |

There is no separate cancellation action. `Run`'s context is cancelled only by
`defer cancel()` when `main` returns, that is, at process exit, so
cancellation is the crash.

The refinement mapping sends the job in progress, followed by `settleCh`, to
the abstract `queue`:
- `Recv` is a stuttering step;
- `Reply` is `Answer`;
- `Crash` is `Lose`, the abstract queue's loss of every unanswered job.

Fairness:
- `Run` is always scheduled.
- The awaiting goroutines are scheduled.
- The node mines every pending transaction. This is an assumption about a
  dev chain, and eviction from the pool is not modelled.


| Run | Expect | Properties | Bounds | What it shows |
|---|---|---|---|---|
| `settle_and_index` | pass | `TypeOK`, `NonceIsNextFree`, `SettledOnlyIfMined`, `IndexedPrefix`, `RefinesQueue`, `SettlementReported` | `MCChainIndexer`: 2 jobs, capacity 1, RPCs and `MarkSettled` may fail, 2 crashes, one user transaction with a handled or an unhandled event | The worker implements spec 4.E's queue: each job is answered once, in order, and eventually, unless a crash loses it. Every transaction carries the next free nonce, even with orphans left pending. No trade is marked settled without a successful receipt. The indexer properties are described in the `ChainIndexer` section. About 126,000 states, under 2 minutes. |
| `settle_send_answer_lost` | violation | `SettledMatchesChain` | 2 jobs, the RPC may fail | A send whose answer is lost is reported failed but is mined, so the trade row stays unsettled (finding 6). |

Two jobs and two crashes are enough for an orphan transaction to be
pending while the next job reads its nonce. The orphan can come from a lost
answer or from a crash. With capacity 1, the channel is full while a job is
in `settle`. The worker alone was once checked with three jobs and capacity
2 (about 100,000 states). With the indexer composed in, three jobs exceed
five minutes of liveness checking, even with one crash. The four mutants of
the worker's properties are still caught at two jobs. With RPC failures off and one crash, `SettledMatchesChain` is
violated in the same way: a crash after the send, then the transaction is
mined.

### ChainIndexer (chain indexer, composed with the settlement worker)

`main` starts the worker and the indexer on the same client and the same
context (`main.go` 62-81). `ChainIndexer` therefore `EXTENDS
SettlementWorker`. It adds:
- the chain as a sequence of blocks (`blocks`), one transaction per block,
  as a development node mines;
- the indexer's loop state: `ipc`, `head` (the `currentBlock` read) and
  `lastBlock`;
- `seen`, the handler calls made in this lifetime of the process.

A successful settlement's block holds one `TradeSettled` log, and a
reverted one holds none. A user transaction holds one log with some first
topic.

| Action | Code | Notes |
|---|---|---|
| `MineBlock` | the node | `SettlementWorker`'s `Mine`, which also appends the block |
| `UserTx(u, e)` | the node | another account's transaction to the contract, with event `e` |
| `BlockNumber` | `Start` 51-73 | a head above `lastBlock` is read; the window is `lastBlock+1..head` |
| `FilterLogsOk` | `Start` 75-87, `processLog` | the window's logs go through `ProcessLog` (a call for `Deposit`, `Withdraw` and `TradeSettled`, nothing for other topics), then `lastBlock = head` |
| `FilterLogsFail` | `Start` 75-80 | sleep, then poll again from the same `lastBlock` |
| `Restart` | `Crash`, then `go indexer.Start(ctx)` | `lastBlock`, `head` and the handler's history start afresh |

Properties:
- `IndexedPrefix` (invariant): `seen` equals the handled logs of blocks
  1..`lastBlock`, in chain order. A block mined between `BlockNumber` and
  `FilterLogs` is left for the next round, because `ToBlock` is pinned. A
  failed `FilterLogs` retries the same window.
- `SettlementReported` (`~>`): every settlement mined with a successful
  receipt is eventually handed to `OnTradeSettled`. This holds again after
  every crash, because the indexer rescans from block 1.

Mutants:
- `lastBlock` moved on a failed `FilterLogs` breaks `IndexedPrefix`.
- A loop that waits for one block more (`Len(blocks) > lastBlock + 1`)
  breaks `SettlementReported`.

Fairness, on top of the worker's:
- `WF` on the indexer loop, which is a goroutine that never exits.
- `SF` on a successful `FilterLogs`: a node asked again and again
  eventually answers. Without this the loop can retry for ever, which is
  what the code does against a dead node.

Across restarts the same logs are handed to the handler again. Only the
no-op handler makes that harmless. This is listed as a hazard, and no
property forbids it.

### SnapshotFeed (cache, pub/sub and websocket feed)

`SnapshotFeed` abstracts the book to a `version`, which every `AddOrder` or
`CancelOrder` bumps under the write lock. A snapshot, a Redis key and a
client's view hold the version they were taken from. `SetSnapshot`'s two
pipelined SETs are one atomic write, as spec 4.C requires, so a torn
snapshot cannot come from the writer side. A PUBLISH reaches only the
connections subscribed at that moment, in publish order.

| Action | Code |
|---|---|
| `BookUpdate(w)` | `book.AddOrder` / `book.CancelOrder` in the request |
| `SnapshotRead(w)` | `updateCache`: `book.GetSnapshot()` under the read lock |
| `SetSnapshot(w)` | `OrderbookCache.SetSnapshot` |
| `PublishUpdate(w)` | `OrderbookCache.PublishUpdate` of the writer's snapshot |
| `GetBids(c)` | `Handle`: upgrade, first GET of `GetSnapshot` |
| `GetAsks(c)` | second GET, then `WriteJSON` of the `snapshot` message |
| `Subscribe(c)` | `h.cache.Subscribe` |
| `Forward(c)` | the select loop writes the next publication |
| `Disconnect(c)` | the read pump cancels the context; `Handle` returns and unsubscribes |

`Quiet` holds when no request is between its book update and its
publication, and every live client has been sent everything published to
it.

| Run | Expect | Properties | Bounds | What it shows |
|---|---|---|---|---|
| `feed_stale_view` | violation | `ObserversAgreeWhenIdle` | 2 writers, 1 client | Finding 8: a torn snapshot kept past the last publication, in 7 steps. Without clients, the same property shows finding 5. |

Two writers allow reordered `SetSnapshot` calls. One client is enough for
the window. This model has no passing run, because no agreement property
holds of this code.

### Eip712 (typed-data hasher and verifier)

`Eip712` models `HashOrder`, `HashTypedData` and `VerifyOrderSignature` as
operators. Its state machine has two steps:
- `Sign(o, recid)` is the client's `signOrder`. It signs an in-range order,
  and v is 27 or 28.
- `Submit(c, v, len)` is `SubmitOrder`'s verification. The submitter picks
  the order `c` it sends with that signature, the last byte `v` and the
  decoded length `len`.

The encoding is modelled by what it does:
- A byte is a base-4 digit. A 32-byte word is two digits, and an address is
  one digit.
- `BytesOf` is `big.Int.Bytes()`: the big-endian magnitude without leading
  zeros, so the sign is lost.
- `LeftPadBytes` pads to a word and leaves a longer slice as it is.

Keccak256 is treated as injective, so a digest is the tuple it hashes.
`Ecrecover` returns the signer only for the signed digest and recovery id.

`SpecHashOrder` is the reference from spec section 3: each field is one
big-endian word.

| Run | Expect | Properties | Bounds | What it shows |
|---|---|---|---|---|
| `eip712_verify` | pass | `EncodingMatchesSpec`, `GenuineAccepted`, `AcceptedOnlySigned` | 2 makers; amounts and salt in {0, 1, 15, 16}; v in {0, 1, 27, 28, 29}; length 64 or 65 | For in-range orders the encoding is the spec's. A genuine signature verifies with either v convention. With non-negative fields, even ones wider than a word, no other order verifies under it. About 138,000 states. |
| `eip712_negated_field` | violation | `AcceptedOnlySigned` | amounts and salt in {-1, 0, 1} | A signed order with a field negated verifies (finding 7). |

15 is the largest one-word value and 16 the smallest that needs three
digits, so the pass run covers both the exact fit and the overflow that
`LeftPadBytes` does not truncate.

## 4. Findings so far

1. `engine.go:150`: the quote of a match with a resting buy is computed at
   the taker's price, not the maker's (spec 4.B, 8e). See
   `engine_quote_maker_price`.
2. `order_service.go:177`: a cancel between `orderRepo.Create` and
   `book.AddOrder` misses the book and writes the row Cancelled. `AddOrder`
   then rests the order, where it can still trade. Order ids are visible through
   `GET /orders/:address` as soon as the row exists. See
   `service_store_agreement`.
3. `order_service.go:181`: `CancelOrder` writes Cancelled with the
   `FilledBase` that `GetByID` read before it asked the book. If the order
   was filled in between, the row's `filled_base` goes down, against spec 3
   and 4.D, which say it never decreases. Spec 4.F allows Cancelled over a
   fill, but not a smaller amount. See `service_cancel_after_fill`.
4. `order_service.go:212`: the trade insert and the two row updates are
   separate writes. After a crash between them, `LoadOpenOrders` replays a row
   that is still open although its fill is already a trade, and the order
   trades again beyond its size. See `service_restart_double_trade`.
5. `order_service.go:231`: `updateCache` writes the snapshot after releasing
   the book lock. Two requests can write in the opposite order of their
   snapshots, which leaves a stale cache and publication. This shows in
   `feed_stale_view` when it has no websocket client (`Clients <- {}`): 8
   steps, with the cache left at version 1 while the book is at 2. With a
   client, TLC reports finding 8 first, because its trace is shorter.
6. `settlement.go:105`: any `SendTransaction` error is reported as a failed
   settlement, and the trade stays `settled_on_chain = false`, as spec 4.E and
   7 say. But if the node got the transaction and only the answer was lost,
   or the process crashed after the send, the transaction is mined. The trade
   is then settled on chain and unsettled in the database for good:
   `GetUnsettled` is never called and nothing reconciles. The spec does not
   cover this case. See `settle_send_answer_lost`.
7. `typehash.go:60`: `HashOrder` encodes integers with `big.Int.Bytes()`,
   which drops the sign. `SubmitOrder` parses amounts and salt with
   `SetString`, which accepts `-`. A maker's signature over an order
   therefore also verifies the order with any of those fields negated. Spec
   section 3 requires such values to fail verification. See
   `eip712_negated_field`.
8. `ws_handler.go:38`: `Handle` sends the first snapshot from
   `GetSnapshot`, which reads the two keys with two separate GETs. It
   subscribes only afterwards, at line 51. A request can write the cache
   between the GETs, so the client is sent bids of one book and asks of
   another. Spec 4.B and 4.C say a snapshot is never torn. If the request's
   publication goes out before `Subscribe`, the client keeps this view until
   the next change, against spec section 1. See `feed_stale_view`.

9. `order_service.go:48`: `GetOrCreateOrderBook` reads and writes the
   `orderbooks` map without a lock. Two submits for a pair with no book both
   miss, and each creates a book. The first rests its order in its book; the
   second overwrites the map entry. The first order is now in no book the
   service can reach, so it never matches and cannot be cancelled in
   memory, while its row stays open. Spec section 5 requires a single
   instance per pair. See `service_book_map_race`.

## 5. Not modelled

- Decimal and hex parsing (inputs are the parsed values), the domain separator (fixed
  per process), `RecoverSigner` (never called), and the `0/0` panic of `Price()`. Inputs exclude it. The
  consequence is a short fixed sequence that a unit test reaches: `Create`
  persists the row, `AddOrder` panics, and every later `LoadOpenOrders`
  panics on that row at startup.
- Eviction of a pending transaction by the node. `WaitMined` would then
  block the worker for good, which the spec allows (no built-in timeout);
  the fairness of `Mine` excludes it.
- The HTTP transport and configuration. The websocket's ping ticker changes
  no state.
- Reorganisations of the chain. The indexer's window ends at the current
  head with no confirmation depth. A handled log from a block that a reorg
  later removes is never retracted, and a re-mined block at or below
  `lastBlock` is never rescanned. Like `WaitMined` in `SettlementWorker`,
  the model treats a mined block as final. This is listed as a hazard.
- The indexer's sleeps and backoff. They only pace the loop. A failed
  `BlockNumber`, or a poll that finds no new block, changes nothing else and
  is a stuttering step. A failed `FilterLogs` does not double the backoff,
  so a node that keeps failing is polled every second. That costs time,
  not correctness.
- The go-redis subscription buffer (100 messages, dropped after a send
  timeout). The limit is in the library and is far beyond the model's two
  publications.
- Cache and store errors in `SnapshotFeed`. After an error the spec lets the
  cache go stale (CacheUnavailable). So a `CancelOrder` whose `UpdateStatus`
  fails, and which returns before `updateCache`, is a listed hazard, not a
  property.
- Float rounding of prices beyond the model's bounds: two ratios that round
  to the same float64 need amounts far beyond what TLC can enumerate.
- The on-chain contract. A mined settlement succeeds or reverts
  nondeterministically. The node is modelled only by its nonce, its pending
  pool and its receipts.
