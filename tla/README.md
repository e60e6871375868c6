# lightwalletd-rs: TLA+ specifications

lightwalletd-rs serves compact Zcash blocks to wallets. It follows one full
node, keeps a cache of compact blocks in a local database, and answers wallet
requests from the cache and, where the cache has no answer, from the node. The
node reorganises, restarts and fails while all of that goes on, and the process
may stop between any two commits. These modules model the parts of the program
where that matters, TLC checks them on small instances, and TLAPS proves the
safety properties of all of them for every instance.

## The system

| component | state | operations | interacts with |
|---|---|---|---|
| block cache (`cache.rs`) | blocks by height, snapshot base row, epoch digest rows | append, truncate, chunked read, corruption search | everyone; each method is one database transaction |
| ingestor (`ingestor.rs`, `fetch.rs`) | ingest floor, repair budget, recovery counter, window in flight | take a report, read the node's tip, decide, fetch a window concurrently, commit its chained prefix, roll back, recover | only writer of the cache once it runs |
| repair slot (`repair.rs`) | one atomic height | report (fetch_min), take (swap) | range streams report, the ingestor takes |
| configuration (`config.rs`) | none | resolve the command line and zcash.conf, or refuse | read once, at start |
| startup and lifecycle (`main.rs`, `lib.rs`) | where the start is, which tasks run, who asked to stop | resolve, reach the node, open the cache, import, spawn, serve, drain, exit | wires all of the others |
| node client (`node/mod.rs`, `node/readstate.rs`) | none that survives a call | one request (JSON-RPC) or several reads of a state (readstate) per call, batches | node |
| block building and filters (`fetch.rs`, `compact.rs`, `filter.rs`) | none | verbose and raw answer to compact block, integrity checks, projections | node client, streams, ingestor |
| frame coalescing (`service/framing.rs`) | messages held back | push, flush, flush ahead of an error | streams, wallets |
| block range streams (`service/blocks.rs`) | cursor, chunk read, link to the block before | read a chunk, serve from cache or node, check continuity, report | cache, node, repair slot |
| snapshot publication (`snapshot/export.rs`) | the walk's index and what it read | find a pending epoch, read bounds and body, recheck, store the row | reads and writes the cache beside the ingestor |
| snapshot HTTP server (`snapshot/serve.rs`) | download permits, an export task and channel per download | manifest, epoch body, refusals | cache, peers |
| snapshot import (`snapshot/import.rs`) | next height | manifest, fetch, verify, commit an epoch | peer, node, cache |
| mempool monitor, streams and polls (`service/mempool*.rs`) | snapshot of one block interval; index per stream | refresh, publish, subscribe, end at a new tip or when stale; list with exclusions | node, wallets |
| bulkhead (`node/bulkhead.rs`) | two permit pools | admit, refuse after a wait, hold past cancellation | node, wallets |
| darkside (`darkside/`) | staged and active chain | reset, stage, apply; the node's reads over it | test clients |
| address, tree-state, subtree methods (`service/`) | deadline, caps | bounded node scans | node, wallets |

What is hard about it: the node's answers to one window, to one stream, or to
one call of the readstate backend, may come from different chains; a height
read before an await is used after it; a report may name blocks that are gone;
a corrupt database must be truncated without losing more than needed and
without looping; digest rows are written after the blocks they describe may
have been replaced; a permit must outlive its caller and not its work; a stop
request may come at any step of the start; and everything must recover without
an operator. PROJECT.json lists each of these at its line under `hazards`, with
the properties that watch it.

## Modules

The cache and its writers and readers:

* `BlockCache` — the database as a record `[blocks, base, digests]` and every
  `Cache` method as an operator on it. A block is its hash; `PrevHash` and
  `HeightOf` are what a decoded block says of itself; `Corrupt` is a stored
  value that does not decode. Since each method is one transaction, using one
  operator in one action is faithful; where the program uses several
  transactions, the modules below use several actions.
* `ChainStore` — the abstract promise: a gapless, hash-linked run that is only
  extended on top, cut back from the top, or damaged from some height up.
* `Ingestor` (extends `BlockCache`) — the ingestor's loop, the repair slot, the
  node as environment, and the process around them. `pc` names the await the
  loop is at: `open`, `import` (startup), `loop` (take a report), `info`
  (getblockchaininfo), `decide`, `fetch` (window in flight). Each fetch task of
  a window returns in an action of its own, and `NodeMoves` may come between
  any two. A task may also fail (`Failed`) or die without leaving a result
  (`Dead`). Any read, commit or node call may fail (`StepFails`, `RepairFails`,
  `RecoveryFails`), which commits nothing.
* `RangeStream` (extends `Ingestor`) — wallets' range streams on top of the
  whole ingestor: the cache is really truncated and refilled under them, and
  their reports really reach the ingestor's slot. The byte budget of a chunk
  read is a choice of where the read stops.
* `SnapshotExport` (extends `BlockCache`) — the digest walk, one action per
  transaction, beside appends and truncations. A digest is modelled as the
  blocks it digests.
* `SnapshotServe` (extends `SnapshotExport`) — downloads beside the walk.
  `download[p].at` follows the export task: `opened` (permit taken), `found`
  (row read again), `sending` (the body, out of one read transaction), `sent`
  or `none`. The permit belongs to the task; `channel` is the bounded channel
  it blocks on, and `reading` whether the client is still there.
* `SnapshotImport` (extends `BlockCache`) — the importer as it runs at every
  start: `import.at` is where it stands (`manifest` and `rows`, the peer's two
  reads for the manifest; `info`, the node's tip; `next`, the next entry and
  its download; `verify`; `lookup`, the node's hashes, up to the commit;
  `ingest`, over), `entries` the manifest left to do, `attempt` the retry of
  the download. The peer is the run of blocks it serves at the moment; manifest
  and bodies are cut from it when they are asked for, with the publisher's own
  epoch bounds. Between two imports the ingestor extends the cache along the
  node's chain or rolls it back.

From the node to a wallet:

* `NodeReads` — the node calls over both backends. Over JSON-RPC a call is one
  answer from one chain; over the readstate backend it is the list of reads
  `ReadsOf` gives, made one by one into `call.got`, and the best chain may move
  between two of them. What the node
  would have answered in one piece is `NodeAnswer`, and the two backends are
  compared with it. A batch may be answered in any order, with replies missing,
  repeated or for an id nobody used.
* `Delivery` (extends `NodeReads`) — one request for blocks at a time:
  `verbose` then `raw` per height, the checks of `fetch::compact_block`, the
  link to the block before, the projection to the pools asked for, and the
  frames. The coinbase height is decoded from script bytes. The other methods
  are one call each; `get_subtree_roots` first refuses or bounds its arguments.
* `Mempool` — the monitor's refresh, call by call (tip, listing, one fetch per
  new transaction, publish), the published snapshot, GetMempoolStream (look at
  the snapshot, emit past the index, wait, wake by a publication or the
  staleness poll) and GetMempoolTx with its exclusion by txid suffixes.
  `wallet` is what a polling wallet holds.
* `Darkside` — the mock chain: Reset, staging and ApplyStaged, each one action
  because the call holds the state's lock throughout; the two failing forms of
  ApplyStaged keep what they did before the error. The mock's answers to the
  node's reads (chain info, verbose and raw block, mempool, transaction) are
  operators over the active chain.

The process:

* `NodeCalls` — the node calls of the wallet-facing methods behind the
  bulkhead. `req[w].todo` is what a request still has to ask the node, in
  order; `queue` the semaphores' waiters, `free` their permits, `orphans` the
  tasks whose caller is gone, `working` what the node is at work on and
  `forgotten` the part of it the node client has given up on.
* `Configuration` — `resolve` of a command line and a zcash.conf to the
  resolved configuration or `Refused`, one operator per function of `config.rs`.
* `Lifecycle` (extends `NodeCalls` and `Configuration`) — one run of the
  process. `phase` is the step of `run` it is at; each step may fail in the
  ways the code lets it; `tasks` are the background tasks, and `"response"` among them
  stands for the streamed responses that are open (block ranges, mempool
  streams, in darkside mode everything); a stop comes from a signal, from
  darkside's Stop or from its timer. While the server serves or drains, the
  requests of `NodeCalls` and the open responses go on inside it, and the drain
  waits for all of them.

`MCIngestor`, `MCRangeStream`, `MCSnapshot`, `MCImport`, `MCDelivery`,
`MCMempool`, `MCDarkside`, `MCNodeCalls` and `MCLifecycle` hold block trees, chains, command
lines and bounds for TLC. The theorems are in `BlockCacheProofs`,
`IngestorProofs` (with the streams), `SnapshotProofs` (publication, downloads
and the import), `MempoolProofs`, `DeliveryProofs`, `DarksideProofs` and
`NodeCallsProofs`, which has those about `Lifecycle` and `Configuration` too.
`FoldFacts` is what they share: what a fold computes, for any operator.

Operators named `... \* mutant` are deliberately wrong variants of the
definition that follows them; no specification uses them. Replacing the
definition by its variant must make TLC report the property PROJECT.json names,
which shows the property depends on that piece of code.

### What is abstracted

Hashes stand for blocks, so hash collisions are out of scope. In the cache
modules `compact_block`'s checks become "an answer is a block of the node's
present chain at that height, or a failure"; `FetchedIsTheNodes` in `Delivery`
is that statement, weakened to "at some moment of the fetch", which is also
what an `Ingestor` fetch that ends before or after a `NodeMoves` gives. Damage
to the file is what `lowest_corrupt_height` is written for, a suffix of
undecodable values. Gaps never arise in the model (a theorem), so that branch
of the search is written down but only its suffix branch runs. Waiting (idle
poll, back-off) is the scheduler's freedom. Concurrency below the window size
only restricts which fetches overlap, so all of them may. A digest walk that
fails on a damaged block simply starts over and is left out with the damage. An
imported epoch is one step of `Ingestor`: nothing else touches the cache during
an import, and an epoch is committed only if its blocks are linked and each of
them is the block the node names at its height, so what is committed is a
stretch of one chain the node followed; `SnapshotImport` checks exactly that of
the importer's own steps.

In `SnapshotServe` a chunk of the body is one record, and compression is left
out. In `SnapshotImport`, `Corrupt` is a record that fails a check of its own
(it does not decode, names another height, its tree sizes do not add up), and a
hash over an epoch body is the body; the check that an epoch's tree sizes go on
from the cached tip's is left out, for sizes are not modelled there. In `Delivery` a transaction is the set of
kinds of data in it, bytes are whole or damaged, the size of a message counts
its parts, and note-commitment trees are their sizes; the widths 2^16 and 2^32
are constants, small in the runs. In `Mempool` the monitor and the streams tell block
intervals apart by the tip's hash, as the code does, and the node may come back
to a tip it left (a restart from an older state, another node behind the same
address); `node.back` records that it did. In `Darkside` one note-commitment
tree stands for the three, which the code treats alike, and the header byte that
mining bumps keeps its range of 256; the coinbase a created block gets is part
of its root, and a staged transaction that does not parse is left out. In
`NodeCalls` every single read is a `read`, every balance or output query a
`scan`; time is the choice of when a wait, a deadline or the node client's
timeout ends, with what the constants imply (the wait for a permit is far
shorter than a deadline, which starts with the request). `timeout_at` polls the
call before it looks at the clock, so an overdue call that finds a permit is
still started, and abandoned in the same poll (`AdmitOverdue`). In
`Configuration` a URL, an origin or an address is what its parser makes of it.

## Runs

Bounds: `Bounds`, `Limit`, `Allowance`, `MaxMoves`, `MaxRollbacks`, `Asks`,
`Requests` and `Signals` limit how often the environment may move the node,
fail a call, damage the file, report, restart, ask or signal; the chains are
short branches of one tree whose forks lie above the floor, at it, and inside
an epoch. Epochs are two blocks, windows two or three, chunks two, so that every
boundary falls inside a range. `delivery` spans heights 16 to 18, where the
coinbase height turns from an opcode into a push and where pools activate, and
frames of two or three messages; its widths are two bits for indexes and five
for heights, so that calls beyond them are in the run. `lifecycle` takes every
command line that differs in at most two flags from one that serves, which
covers each refusal, since every check of `config.rs` relates at most two flags
(readstate with darkside, which needs three, is added). Every defect the mutants
introduce shows within these bounds, and the passing runs between them reach
every action.

| run | expects | question |
|---|---|---|
| `ingestor` | pass | Does the cache stay a linked run, the base row describe it, every batch fit, a repair drop exactly the suspects, a recovery or an open leave no damage, a rollback need evidence of a second chain, and the whole implement `ChainStore`? Does the cache converge to the node, and is the repair slot always emptied, also when two reports meet a budget of one? Node moves over four chains, faults, damage, reports, restarts: each two kinds of event meet in one of the bounds; import and both levers available |
| `imported_floor` | violation | A reorg at an imported floor forgets the floor at the next restart |
| `stream` | pass | Under a reorganisation, a fault and damage, is what a wallet received always one linked run of its range, in both directions, and is a wallet that retries served in the end? |
| `digests` | pass | Does every row no truncation overtook describe the cached blocks, does every complete epoch get a row, does a download bring one linked run or less, and does its permit come back? Two truncations |
| `digests_stale` | violation | A truncation regrown to the old height leaves a stale row for good |
| `snapshot_import` | pass | Does an import from an honest, spliced, damaged or absent peer, moving like the node, commit only linked stretches of one chain of the node, record the right base, and end? |
| `mempool` | pass | Until the node comes back to a tip it left: is nothing mined published, nothing emitted twice, everything that stays emitted, and does a poll miss nothing the wallet did not name? And in any case: does every stream end with its tip or its node? |
| `darkside` | pass | Do tree sizes add up in every order of calls, failing ones included, and is what a successful ApplyStaged presents linked, fetchable, complete and visibly changed? |
| `lifecycle` | pass | From every command line, through a start that may fail anywhere, to three requests and streamed responses of two wallets and a signal at any moment: is the server wired as asked, do permits follow the calls waited for and come back, does no request wait past its deadline, and does a stop request end the process once its clients read on or leave? |
| `permit_early` | violation | A call that meets the node client's timeout gives its permit back while the node works on |
| `delivery` | pass | Do the backends agree whenever the chain stood still, was every accepted block the node's, and does the wallet get its projection, complete and in order, also ahead of an error? |
| `readstate_sizes` | violation | Over the readstate backend a block can carry the tree sizes of another branch |

The violations are disagreements between the code and a statement of the
repository; `findings` in PROJECT.json quotes each statement. None of them
contradicts the safety properties: a re-sync from the configured start costs
time, a stale digest row is caught by the importer's checks, and wrong tree
sizes need two moves of the best chain within one call. `permit_early` is the
one that weakens a bound: `bulkhead.rs` says of `hold` that the permit is held
"until the node has actually answered", but `REQUEST_TIMEOUT` ends the call
first, so a node that takes longer than 30 seconds per call has more calls to
work on than the pool has permits.

More behaviours are worth knowing and no run is about them:

* Recovery of corruption at height 0 truncates above height 0 and so keeps the
  corrupt block; a cache normally starts at Sapling activation, and
  `RecoveryDropsCorruption` is stated for caches without a block 0.
* A repair drops one reported seam: after a reorganisation of several blocks a
  descending stream can be aborted more than once before its range is clean,
  which is why `WalletServed` is a liveness property of a wallet that retries.
* What the bulkhead does bound is the calls the node client waits for:
  `WorkHoldsPermits` is about these, with the ones given up on (`forgotten`)
  taken off.
* The deadline of `GetTaddressTransactions` covers the address query and the
  fetches. The look-up of the tip that resolves an open range is made before
  them outside of it (`address.rs`, `resolve_range_end`; `docs/decisions/0025`
  counts it in), and a call that gets its permit too late is still made, with
  nobody waiting for it; `DeadlineStopsCalls` says neither of these away.
* The monitor, a stream and a wallet know a block interval by its tip's hash. A
  node that leaves a tip and comes back to it starts a second interval with the
  same name and a new list: a stream that slept through the tip in between goes
  on with the index it had in the old list, and so emits a transaction twice or
  skips one; a fetch under way may put a transaction into the snapshot that the
  chain has mined. `NothingMinedPublished`, `EmitsOnce`, `TxReachesStreams` and
  `PollMissesNothing` therefore speak of the time until then (`node.back`);
  `OutageEndsStreams` and `NewTipEndsStreams` need no such condition.
* Beyond 16 bits a subtree index or limit is `Invalid params` from the node and
  an empty or unlimited answer from the readstate backend
  (`docs/decisions/0030`). The backends agree because `get_subtree_roots`
  refuses such an index and turns such a limit into none before it asks.
* After an ApplyStaged that failed, and until one succeeds, the mock chain may
  be shown unlinked: its hashes are put right by the last pass, which a failing
  call does not reach. `PresentedLinked` speaks of the time after a success;
  tree sizes add up in either case.
* A flag that another one leaves without use is dropped in silence:
  `--tls-cert` and `--tls-key` beside `--no-tls-very-insecure`, `--rpc-host` and
  `--rpc-port` beside `--rpc-url`, `--zebra-indexer-url` with the rpc backend.
  `WiredAsAdvertised` names the two the code refuses to drop.
* The drain has no timeout (`serve_with_incoming_shutdown` in `lib.rs`): a
  client that is alive and does not read keeps the process from ending.
* A download permit comes back when its client reads on or leaves. One that
  does neither, with its connection open, keeps its permit: "a slow client
  cannot hold a slot indefinitely" (`config.rs`, the help of
  `--snapshot-max-concurrent-downloads`) is true of the requests that are
  refused instead of queued, not of a download that has begun.
* The readstate `get_treestate` reads block and trees one after the other, as
  `get_block_verbose` does; `BackendsAgree` compares answers only when the
  chain did not move during the call.
* With the handlers installed by the import and nothing waiting for them, a
  signal that arrives before the server waits may be lost, and one that arrives
  while requests drain is ignored. `StopEndsProcess` is about the requests that
  reach the process; a lost signal needs a second one.
* A short suffix carried across a new block may fit one transaction the wallet
  does not have, and then hides it: the protocol cannot tell. Within one block
  interval a suffix that fits several entries excludes none of them, and
  `PollMissesNothing` is stated for that.

`darkside`, `snapshot_import`, `lifecycle` and `permit_early` do not check for deadlock: the test
client may stop calling, the ingestor may have nothing left to ingest, the
process ends. An import, a permit or a start that got stuck would break
`ImportEnds`, `PoolRecovers` or `StopEndsProcess`.

Fairness: weak fairness of the ingestor's own steps, of startup, of each open
stream and of the digest walk, because the runtime polls every task that can
run; of the repair window elapsing, because time passes; of the publisher's
ingestor appending, because it follows a node that grows. Wallets retry in
`stream`, as wallets do. An export task runs, and its client
reads or leaves: an assumption about clients, without which a permit may be
held for good, as above. The importer's
steps are fair because each of its network calls has a timeout; the mempool
monitor and its streams because their tasks are polled and the monitor's calls
return; a snapshot ages while the node is away because time passes. In
`lifecycle` there are two assumptions. `ServerFairness` is the runtime's: the
steps of `run` are fair, each request's task is run as far as it gets without
its client, and a node call ends, by its answer or by the node client's
timeout, whether or not its caller is still there; nothing is assumed of the
node finishing its work. `ClientsReadOrLeave` is about clients and nothing in
the code enforces it: each reads its response, so that the response is polled
for more, or goes away. Without it `StopEndsProcess` is false.
Nothing is assumed of the node's moves, faults, damage, signals or restarts;
they are finite in number by the bounds, which is what "once the node settles"
means. `delivery` checks safety only.

## Proofs

Each module of proofs extends the module it is about, names its inductive
invariant, shows step by step that every action keeps it, and derives the
properties. TLC checked what it can evaluate of these invariants on the
instance of the run before they were proved. The theorems hold for every value of the constants that
satisfies the `ASSUME`s, which TLC evaluates in the runs.

| theorem | statement | invariant |
|---|---|---|
| `IngestorProofs!TypeCorrect` | `Spec => []TypeOK` | `IInv` |
| `IngestorProofs!CacheStaysLinked` | `Spec => []CacheLinked` | `IInv` |
| `IngestorProofs!BaseStaysCurrent` | `Spec => []BaseDescribesCache` | `IInv` |
| `IngestorProofs!AppendsAccepted` | `Spec => []AppendsExtendTip` | `IInv` |
| `IngestorProofs!RollbacksJustified` | `Spec => RollsBackOnEvidence` | `IInv` |
| `IngestorProofs!RepairsCutAtReport` | `Spec => RepairDropsSuspects` | `IInv` |
| `IngestorProofs!RecoveriesDropCorruption` | `Spec => RecoveryDropsCorruption` | `IInv` |
| `IngestorProofs!Refinement` | `Spec => ImplementsChainStore` | `IInv` |
| `IngestorProofs!WalletsGetOneRun` | `StreamSpec => []ServedRunLinked` | `StreamInv` |
| `IngestorProofs!StreamReportsCut` | `StreamSpec => RepairDropsSuspects` | `StreamInv` |
| `IngestorProofs!StreamsKeepTheStore` | `StreamSpec => ImplementsChainStore` | `StreamInv` |
| `SnapshotProofs!DigestsCurrent` | `ServeSpec => []DigestsCurrentUnlessRaced` | `ServeInv` |
| `SnapshotProofs!BodiesUnspliced` | `ServeSpec => []BodyIsOneRun` | `ServeInv` |
| `SnapshotProofs!CacheLinked` | `ImportSpec => []ImportedLinked` | `ImportInv` |
| `SnapshotProofs!BaseLowest` | `ImportSpec => []BaseIsLowest` | `ImportInv` |
| `SnapshotProofs!CommittedFromOneChain` | `ImportSpec => ImportedFromOneChain` | `ImportInv` |
| `MempoolProofs!SnapshotsUnmined` | `MempoolSpec => []NothingMinedPublished` | `MempoolInv` |
| `MempoolProofs!StreamsEmitOnce` | `MempoolSpec => []EmitsOnce` | `MempoolInv` |
| `MempoolProofs!PollsComplete` | `MempoolSpec => PollMissesNothing` | `MempoolInv` |
| `DeliveryProofs!BackendsAnswerAlike` | `DeliverySpec => []BackendsAgree` | `DeliveryInv` |
| `DeliveryProofs!FetchesAreTheNodes` | `DeliverySpec => FetchedIsTheNodes` | `DeliveryInv` |
| `DeliveryProofs!RangesAreProjections` | `DeliverySpec => []DeliveredIsProjection` | `DeliveryInv`, `Sends` |
| `DeliveryProofs!MessagesAllLeave` | `DeliverySpec => []NothingWithheld` | `DeliveryInv`, `Sends` |
| `DarksideProofs!TreeSizesStay` | `DarksideSpec => []TreeSizesAddUp` | `DarksideInv` |
| `DarksideProofs!PresentedStaysLinked` | `DarksideSpec => []PresentedLinked` | `DarksideInv` |
| `DarksideProofs!MiningReorganises` | `DarksideSpec => MiningMovesHashes` | `DarksideInv` |
| `DarksideProofs!StagedAreMined` | `DarksideSpec => StagedTxsAreMined` | `DarksideInv` |
| `NodeCallsProofs!PermitsAccounted` | `CallsSpec => []WorkHoldsPermits` | `CallsInv` |
| `NodeCallsProofs!ServerPermitsAccounted` | `LifeSpec => []WorkHoldsPermits` | `CallsInv` |
| `NodeCallsProofs!CallsTyped` | `LifeSpec => []CallsTypeOK` | `CallsInv` |
| `NodeCallsProofs!DeadlinesStopCalls` | `LifeSpec => DeadlineStopsCalls` | `CallsInv` |
| `NodeCallsProofs!ServerAsAdvertised` | `LifeSpec => WiredAsAdvertised` | `Configured` |

### Folds

ApplyStaged makes passes over what is staged, a block's transactions are
filtered one by one, frames are flattened, a zcash.conf is read line by line:
all of these are folds, and what a fold computes is a matter of induction. The
library's induction theorems take an operator as a parameter and cannot be
used; `FoldFacts` therefore takes the operator as a constant of the module and
inducts over a set (`SetInduction`, from the well-foundedness of the natural
numbers). The recursion that defines `FoldLeft` has a solution
(`IterationExists`), and its value is the last one of a run of single
applications, in order (`FoldRuns`). Each module instantiates it with its own
operator and shows what one application preserves.

### The cache and the ingestor

`IInv == TypeOK /\ Intact(cache) /\ WindowFits`. `CacheLinked` alone is not
inductive, for two reasons. Appending on top of the tip needs to know that the
window in flight was asked for the height above the present tip and that every
block in it answers the height it was asked for: `WindowFits`. And recovery is a
truncation, and linking survives it, only because what does not decode is a
suffix: `CorruptSuffix`, part of `Intact` with `Gapless`, `Linked` and
`BaseRowCurrent`. `BlockCacheProofs` shows that `append` of a chained run,
`remove_from` at any height and `recover` keep a cache intact (`AppendIntact`,
`RemoveFromIntact`, `RecoverIsTruncation`), what a truncation drops and that a
recovery, in the loop or at the open, leaves nothing undecodable above height 0 (`RecoverDrops`); one step
per action is then enough. The refinement reuses the same lemmas: every action
that writes the cache is an extension or a cut.

`RollbacksJustified` needs one more fact: while one chain explains the cache,
the tip just read and the window in flight, neither comparison of the step can
fail (`NoEvidence`), because in a chain the predecessor of a height is named by
the block above it; so no rollback is enabled (`ExplainedKeeps`).

Proving `RepairsCutAtReport` corrected the property. It used to say that a
repair keeps everything below the reported height; that is false of a cache
whose base, recorded by an import, is below the configured start, for a report
between the two is at or below the floor and `reorg_to_floor` then empties the
cache. The property now says both: the blocks below the report stay if it is
above `start_height`, and none does otherwise. Reports are above 0, because
`validate_block_range` refuses 0 in a range.

### Streams

`StreamInv` keeps the ingestor's `IInv` and says of every open stream where it
stands: the next height is the one after what was sent, in its direction; its
link is the one the last block sent established; what was sent is linked; and a
chunk holds at each height a block of that height. The last follows from
`Intact` at the moment of the read and needs nothing afterwards, which is why a
truncation under an open stream does no harm. `Miss` and a missing link must
not be taken for a block or a link (`StreamAssumption`). The streams leave the
cache alone, so the refinement of `ChainStore` carries over to the ingestor
with any number of wallets beside it (`StreamsKeepTheStore`).

### Snapshots

`ServeInv` is about `ServeSpec`, the specification without fairness. A row that
was not raced is current because each append leaves complete epochs alone and
each truncation drops the rows of every epoch it reaches into
(`EarlierEpochEnds`); of the walk, that what it read is still cached unless it
was raced. Of a download: what the client has and what waits in the channel are
together one linked run that ends right before the next record to send.

`ImportInv` says that the hashes looked up so far are each of a chain the node
was on since the look-ups began. One chain is enough for all of them: the
node's chains are linked to height 0 (`ChainAssumption`), a body is linked, so
the chain that has its last block has all of it. `CommittedFromOneChain` is
that argument, and the reason why comparing hashes batch by batch is sound
although the node may move between two batches.

### The mempool

The node remembers the tips it left, and as long as it is at a new one
everybody else holds the tip of an interval that is over or of the present one
(`Passed`); stream, snapshot and wallet are moreover never ahead of the monitor:
one that is at the node's tip finds the monitor there too (`Behind`). Two at the
same tip therefore have lists of one interval, and the one further from the node
has a prefix of the other's. The invariant ends when the node comes back to a
tip it left, so `MempoolConsistent` is `[](node.back \/ MempoolInv)`, and the
three theorems carry the same condition. Nothing is assumed of which tip follows
which, only that a move changes the tip (`TipsAssumption`).

### Blocks from the node

`DeliveryInv` has two parts. `Gathered` says what each read of a call in flight
returned if the chain did not move since (`Returned`); `ReadStep` and
`AssembledAgrees` then show, read by read and method by method, that the answer
is the node's. The lemmas behind them are where widths matter: a height the
state cannot hold is above every tip (`KeyFinds`, `ClampedIsMin`), an index
within 16 bits is the same for both and so is a limit, where 0 is none
(`SubtreesAgree`; the service lets no others through), and the replies of a
batch can come in any order, repeated and with strays among them
(`BatchAgrees`). The assumptions: a block commits to its height, tips fit
`MaxHeight`, and there are at most 2^16 subtree roots of a pool.
`FetchInv` says that the hash a fetch goes on with was the node's block at that
height on a chain it was on since the fetch began (`Candidates`): the chain may
move between any two reads, which is why nothing stronger holds.

`Sends` is about what leaves: the frames sent and the messages held back are,
in order, what the method's transform makes of the blocks fetched (`Batched`),
`bytes` counts exactly what is held back, and every frame is worth sending but
the one flushed at the end (`WorthSending`). A push either holds a message back
or closes a frame over all that was held (`PushBatches`), a flush ahead of an
error or at the end closes the last (`FlushBatches`). `RangesAreProjections`
then needs only what a transform makes of one block (`TransformProjects`): the
pools a request resolves to are the ones it wants, whatever its list repeats or
leaves out (`PoolsResolved`), and `retain` keeps the order of the indexes
(`RetainKeeps`).

### Darkside

`DarksideInv` is the state between two calls; `Kept` is its part about the
active blocks, which every pass of ApplyStaged keeps after every single block
and transaction, so that it also holds where a failing call stops. Tree sizes
add up because a block put in starts from the one below it and cuts off what is
above, and mining adds a transaction's notes to its block and to all later ones.

`MiningReorganises` is the hard one: that a hash changed is a statement about
two chains. A block's `prev` is the hash its predecessor had when the block was
last linked, and mining leaves it stale until the call's last pass. So the
invariant remembers, for every linked block, the blocks below it as they were
then (`Remembers`): the same roots, no more transactions than now. The header
byte of a block counts the transactions mined into it modulo 256 (`Grown`), so
two versions of a block with the same root and hash differ by a multiple of 256
transactions. The proof thereby corrected the property: mining 256 transactions
into one block wraps the byte (`wrapping_add` in `darkside/state.rs`) and the
block is presented with its old hash. `MiningMovesHashes` is now stated for
fewer. `RootAssumption` says that a Merkle root commits to the transactions a
block was staged with.

### The process

`CallsInv` accounts for the permits (`Accounted`), and says who holds them and
who waits: the queues are exactly the waiting requests, each once, and what a
request has still to ask is a list the program can have. Each action either
touches no counter, starts a call or ends one, and a call leaves the pool it
entered because a kind of call has one pool, the pool of its cost
(`PoolIsCost`). The wallets are finitely many. `ServerConsistent` carries
`CallsInv` over to `LifeSpec`: every step of the process is a step of
`NodeCalls`, leaves it alone, or ends it; an open response uses up one of the
wallets' requests and touches nothing else (`ResponseInv`).

`Configured` says that until the server is wired its configuration is what some
accepted command line resolves to. `ResolvedNode`, `ResolvedModes` and
`ResolvedServable` go through the checks of `Cli::resolve`, and `FileRead` shows that reading a
zcash.conf of any length leaves each key what its last line says, a port that
does not parse included. The command lines have the types the flags have
(`IsCommandLine`), and `None` is neither a number, a configuration nor a
setting of gRPC-web's origins.

### Only model-checked

* Liveness (`Converges`, `ReportResolved`, `WalletServed`, `EveryEpochPublished`,
  `PermitComesBack`, `ImportEnds`, `TxReachesStreams`, `OutageEndsStreams`,
  `NewTipEndsStreams`, `PoolRecovers`, `StopEndsProcess`): fairness and ENABLED
  are out of this prover's reach.
* The violations: they are behaviours, found by TLC.

Every invariant and every action property of a passing run is a theorem.

## Plan

1. (done) `BlockCache`, `Ingestor`, `ChainStore`: the cache and its writer.
2. (done) `RangeStream`: the read path against the writer.
3. (done) `SnapshotExport`, `SnapshotServe`: the digest walk and downloads.
4. (done) `SnapshotImport`: manifest and bodies read at different moments,
   verification against a moving node.
5. (done) `Mempool`: monitor, snapshot, streams, staleness, polls.
6. (done) `NodeCalls`, `Configuration`, `Lifecycle`: permits, timeouts,
   cancellation, deadlines, and the process around them.
7. (done) `Darkside`: staging and applying; what the mock presents.
8. (done) `NodeReads`, `Delivery`: both backends, block building, projections,
   frames.
9. (done) The safety properties of all of these, proved.

## Not modelled

* Byte formats: parsing of blocks and transactions, the snapshot file's
  encoding and hashing, protobuf and JSON. Their outcome is modelled (whole or
  damaged, which fields), their loops are data transformation no property here
  depends on.
* Metrics, logging, TLS, listeners, gRPC-web, ping and the wording of errors:
  I/O whose state nothing else reads.
* Darkside's address, tree-state, subtree-root and incoming-transaction lists,
  each filled and read back by single calls, and the mempool that is polled per
  request in darkside mode, which keeps no state between requests.
* Input checks and reply shaping of the address and tree-state methods, and
  sending a transaction: one call passed through to the node.
* The node, and the state it keeps for the readstate backend: the environment.
