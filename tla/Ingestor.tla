------------------------------ MODULE Ingestor ------------------------------
(***************************************************************************)
(* The ingestor (ingestor.rs), the repair slot it shares with the read     *)
(* path (repair.rs), the node it follows and the process around it:        *)
(* startup, snapshot bootstrap and restart (lib.rs).                       *)
(*                                                                         *)
(* The ingestor is the cache's only writer once it runs.  It loops: act on *)
(* a reported discontinuity, ask the node for its tip, decide, fetch a     *)
(* window of blocks concurrently, commit the chained prefix.  The node may *)
(* move to another chain between any two of its answers.                   *)
(***************************************************************************)
EXTENDS BlockCache

CONSTANTS
  Chains,          \* the chains the node may follow, as functions 0..n -> Block
  ConfiguredStart, \* --start-height, or Sapling activation
  PeerBase,        \* lowest height of the snapshot peer's manifest, None without --snapshot-url
  SyncFrom,        \* heights an operator may pass as --sync-from-height (0: --redownload)
  Window,          \* --ingest window: heights fetched per step
  MaxRecoveries,   \* MAX_CONSECUTIVE_RECOVERIES
  MaxRepairs,      \* MAX_REPAIRS_PER_WINDOW
  NOTHING,         \* the repair slot's sentinel, above every height
  ReportHeights,   \* heights the read path may report
  Bounds           \* bound[k], for one of these bounds: how often the environment may do k

Pending == "pending"   \* the fetch task has not finished
Failed  == "failed"    \* it returned a FetchError
Dead    == "dead"      \* it panicked: its height has no result at all

Occurrence == {"move", "fault", "damage", "report", "restart"}

ASSUME IngestorAssumption ==
  /\ \A c \in Chains :
       \E n \in DOMAIN c :
         /\ n \in Nat
         /\ c \in [0 .. n -> Block]
         /\ \A h \in 0 .. n : HeightOf[c[h]] = h
         /\ \A h \in 1 .. n : PrevHash[c[h]] = c[h - 1]
  /\ Block \cap {Pending, Failed, Dead} = {}
  /\ ConfiguredStart \in Nat
  /\ PeerBase \in Nat \cup {None}
  /\ SyncFrom \subseteq Nat
  /\ Window \in Nat
  /\ MaxRecoveries \in Nat
  /\ MaxRepairs \in Nat
  /\ NOTHING \in Nat \ {0}
  /\ ReportHeights \subseteq 1 .. (NOTHING - 1)   \* validate_block_range refuses 0
  /\ Bounds \subseteq [Occurrence -> Nat]

VARIABLES
  node,         \* the chain the node follows now
  cache,        \* the database on disk
  pc,           \* where the process is
  start_height, \* the ingest floor resolved at startup
  tip,          \* the last getblockchaininfo answer
  window,       \* per-height results of the window in flight
  repair,       \* RepairSignal: the lowest height reported, or NOTHING
  budget,       \* RepairBudget: repairs spent, and whether its window has passed
  recoveries,   \* consecutive_recoveries
  left          \* what the environment may still do

ingestVars == <<start_height, tip, window, budget, recoveries>>
vars == <<node, cache, pc, ingestVars, repair, left>>

Result == Block \cup {Pending, Failed, Dead}

NoWindow == << >>
FreshBudget == [spent |-> 0, elapsed |-> FALSE]

TipHeight(chain) == Max(DOMAIN chain)

Spend(k) ==
  /\ left[k] > 0
  /\ left' = [left EXCEPT ![k] = @ - 1]

-----------------------------------------------------------------------------
(***************************************************************************)
(* The node (external).  It follows one chain at a time and may switch:    *)
(* extend, reorganise, fall behind after a restart, or answer from another *)
(* backend of a balanced endpoint.                                         *)
(***************************************************************************)
NodeMoves(c) ==
  /\ c # node
  /\ Spend("move")
  /\ node' = c
  /\ UNCHANGED <<cache, pc, ingestVars, repair>>

(***************************************************************************)
(* Damage to the file (external): the stored values from some height up no *)
(* longer decode, the corruption lowest_corrupt_height is written for.     *)
(***************************************************************************)
Damage(height) ==
  /\ height \in Cached(cache)
  /\ cache.blocks[height] # Corrupt
  /\ Spend("damage")
  /\ cache' = [cache EXCEPT !.blocks =
                 [h \in Cached(cache) |-> IF h >= height THEN Corrupt ELSE cache.blocks[h]]]
  /\ UNCHANGED <<node, pc, ingestVars, repair>>

\* RepairSignal::report: fetch_min on the slot.
reported(height) == Min({repair, height})

\* A range stream saw a discontinuity (see RangeStream for which heights).
Report(height) ==
  /\ pc \notin {"open", "import"}
  /\ Spend("report")
  /\ repair' = reported(height)
  /\ UNCHANGED <<node, cache, pc, ingestVars>>

\* REPAIR_WINDOW passes.
WindowElapses ==
  /\ ~budget.elapsed
  /\ budget' = [budget EXCEPT !.elapsed = TRUE]
  /\ UNCHANGED <<node, cache, pc, start_height, tip, window, recoveries, repair, left>>

-----------------------------------------------------------------------------
(***************************************************************************)
(* Startup: open and check the cache, apply the operator levers, import    *)
(* from a snapshot peer, resolve the floor, start the ingestor.            *)
(***************************************************************************)
OpenCache(lever) ==
  /\ pc = "open"
  /\ LET checked == IF validate_light(cache) THEN cache ELSE recover(cache)
     IN  cache' = IF lever = None THEN checked ELSE truncate_from(checked, lever)
  /\ pc' = "import"
  /\ UNCHANGED <<node, ingestVars, repair, left>>

(***************************************************************************)
(* One epoch of a snapshot import.  The body is linked inside, verified    *)
(* block by block against the node and joined onto the cached tip, so what *)
(* is committed is a stretch of a chain the node followed at one moment.   *)
(* An empty cache records the run's first height as its base.  Nothing     *)
(* else touches the cache during an import, so verification and commit are *)
(* one step.  An import that fails or runs out of epochs just ends.        *)
(***************************************************************************)
ImportEpoch ==
  /\ pc = "import"
  /\ PeerBase # None
  /\ LET next == IF IsEmpty(cache) THEN PeerBase ELSE AppendHeight(cache)
         last == epoch_last_height(epoch_index(next))
     IN  /\ next >= PeerBase
         /\ last \in DOMAIN node
         /\ ~IsEmpty(cache) => PrevHash[node[next]] = latest_hash(cache)
         /\ cache' = append(cache, Restrict(node, next .. last),
                            IF IsEmpty(cache) THEN next ELSE None)
  /\ UNCHANGED <<node, pc, ingestVars, repair, left>>

\* max(--start-height, recorded snapshot base).
effective_start_height(configured, base) ==
  IF base # None /\ base > configured THEN base ELSE configured

StartIngestor ==
  /\ pc = "import"
  /\ start_height' = effective_start_height(ConfiguredStart, cache.base)
  /\ pc' = "loop"
  /\ UNCHANGED <<node, cache, tip, window, budget, recoveries, repair, left>>

(***************************************************************************)
(* The process stops at any point, an import included, and is started      *)
(* again: only the database survives.                                      *)
(***************************************************************************)
Restart ==
  /\ Spend("restart")
  /\ pc' = "open"
  /\ window' = NoWindow
  /\ repair' = NOTHING
  /\ budget' = FreshBudget
  /\ recoveries' = 0
  /\ UNCHANGED <<node, cache, start_height, tip>>

-----------------------------------------------------------------------------
ClampToFloor(target) ==   \* mutant: never cut below the floor
  reorg(cache, IF target < start_height THEN start_height ELSE target)

(***************************************************************************)
(* Roll back to the target, or empty the cache when that would cross the   *)
(* floor or not lower the tip.                                             *)
(***************************************************************************)
reorg_to_floor(target) ==
  IF target < start_height \/ IsEmpty(cache) \/ target >= latest_height(cache)
  THEN truncate_from(cache, 0)
  ELSE reorg(cache, target)

Unrenewed(b) == b   \* mutant: a spent window is never renewed

\* RepairBudget::try_spend restarts a window that has passed.
Current(b) == IF b.elapsed THEN FreshBudget ELSE b

CanSpend(b) == Current(b).spent < MaxRepairs

Charged(b) == [Current(b) EXCEPT !.spent = @ + 1]

AboveBase(height) ==   \* mutant: no upper bound
  ~IsEmpty(cache) /\ height >= BaseHeight(cache)

IsRepairable(height) ==
  ~IsEmpty(cache) /\ height \in BaseHeight(cache) .. latest_height(cache)

(***************************************************************************)
(* The top of the run loop: take the report, if any, and repair_reported.  *)
(* The take and the put-back touch the slot with single atomic operations  *)
(* and the ingestor is the cache's only writer, so one action stands for   *)
(* them.                                                                   *)
(***************************************************************************)
NothingReported ==
  /\ pc = "loop"
  /\ repair = NOTHING
  /\ pc' = "info"
  /\ UNCHANGED <<node, cache, ingestVars, repair, left>>

RepairIgnored ==
  /\ pc = "loop"
  /\ repair # NOTHING
  /\ ~IsRepairable(repair)
  /\ pc' = "info"
  /\ repair' = NOTHING
  /\ UNCHANGED <<node, cache, ingestVars, left>>

RepairRefused ==
  /\ pc = "loop"
  /\ repair # NOTHING
  /\ IsRepairable(repair)
  /\ ~CanSpend(budget)
  /\ pc' = "info"
  /\ budget' = Current(budget)
  /\ UNCHANGED <<node, cache, start_height, tip, window, recoveries, repair, left>>

Repair ==
  /\ pc = "loop"
  /\ repair # NOTHING
  /\ IsRepairable(repair)
  /\ CanSpend(budget)
  /\ pc' = "info"
  /\ budget' = Charged(budget)
  /\ cache' = reorg_to_floor(Pred(repair))
  /\ repair' = NOTHING
  /\ UNCHANGED <<node, start_height, tip, window, recoveries, left>>

(***************************************************************************)
(* Reading the range or truncating fails: the report is logged and gone; a *)
(* truncation that fails has already been charged.                         *)
(***************************************************************************)
RepairFails ==
  /\ pc = "loop"
  /\ repair # NOTHING
  /\ Spend("fault")
  /\ pc' = "info"
  /\ repair' = NOTHING
  /\ \/ UNCHANGED budget
     \/ /\ IsRepairable(repair)
        /\ CanSpend(budget)
        /\ budget' = Charged(budget)
  /\ UNCHANGED <<node, cache, start_height, tip, window, recoveries>>

-----------------------------------------------------------------------------
(***************************************************************************)
(* step.  The tip height and hash come from one getblockchaininfo answer,  *)
(* which may be out of date by the time the step acts on it.               *)
(***************************************************************************)
GetBlockchainInfo ==
  /\ pc = "info"
  /\ tip' = [height |-> TipHeight(node), hash |-> node[TipHeight(node)]]
  /\ pc' = "decide"
  /\ UNCHANGED <<node, cache, start_height, window, budget, recoveries, repair, left>>

\* The cache reaches the node's reported tip, or past it.
CaughtUp == ~IsEmpty(cache) /\ latest_height(cache) >= tip.height

\* It also holds the tip's height, so the two chains can be compared there.
Comparable == CaughtUp /\ tip.height \in Cached(cache)

RefetchTip == IF IsEmpty(cache) THEN start_height ELSE latest_height(cache)   \* mutant

NextHeight == IF IsEmpty(cache) THEN start_height ELSE AppendHeight(cache)

Done == pc' = "loop" /\ recoveries' = 0 /\ window' = NoWindow

\* Progress::Idle: nothing to fetch, and nothing that contradicts the node.
StepIdle ==
  /\ pc = "decide"
  /\ \/ CaughtUp /\ (Comparable => cache.blocks[tip.height] = tip.hash)
     \/ ~CaughtUp /\ NextHeight > tip.height
  /\ Done
  /\ UNCHANGED <<node, cache, start_height, tip, budget, repair, left>>

BehindIsReorg ==   \* mutant: compares the two tips whatever their heights
  /\ pc = "decide"
  /\ CaughtUp
  /\ latest_hash(cache) \notin {tip.hash, Corrupt}
  /\ cache' = reorg_to_floor(Pred(latest_height(cache)))
  /\ Done
  /\ UNCHANGED <<node, start_height, tip, budget, repair, left>>

\* The node's tip contradicts the cached block of its height: one block back.
StepRollsBack ==
  /\ pc = "decide"
  /\ Comparable
  /\ cache.blocks[tip.height] \notin {tip.hash, Corrupt}
  /\ cache' = reorg_to_floor(Pred(latest_height(cache)))
  /\ Done
  /\ UNCHANGED <<node, start_height, tip, budget, repair, left>>

StepFetches ==
  /\ pc = "decide"
  /\ ~CaughtUp
  /\ NextHeight <= tip.height
  /\ window' = [h \in NextHeight .. Min({tip.height, NextHeight + Pred(Window)}) |-> Pending]
  /\ pc' = "fetch"
  /\ UNCHANGED <<node, cache, start_height, tip, budget, recoveries, repair, left>>

(***************************************************************************)
(* fetch_window: every height is fetched by a task of its own, at its own  *)
(* moment.  compact_block resolves the height to a hash and then fetches   *)
(* by that hash, so one answer is one block of one chain.                  *)
(***************************************************************************)
compact_block(height) == IF height \in DOMAIN node THEN node[height] ELSE Failed

FetchReturns(height) ==
  /\ pc = "fetch"
  /\ height \in DOMAIN window
  /\ window[height] = Pending
  /\ window' = [window EXCEPT ![height] = compact_block(height)]
  /\ UNCHANGED <<node, cache, pc, start_height, tip, budget, recoveries, repair, left>>

FetchBreaks(height) ==
  /\ pc = "fetch"
  /\ height \in DOMAIN window
  /\ window[height] = Pending
  /\ Spend("fault")
  /\ \E outcome \in {Failed, Dead} : window' = [window EXCEPT ![height] = outcome]
  /\ UNCHANGED <<node, cache, pc, start_height, tip, budget, recoveries, repair>>

WindowDone == pc = "fetch" /\ \A h \in DOMAIN window : window[h] # Pending

WindowStart == Min(DOMAIN window)

\* The first block fetched does not chain onto the cached tip.
FirstMismatches ==
  /\ window[WindowStart] \in Block
  /\ ~IsEmpty(cache)
  /\ PrevHash[window[WindowStart]] # latest_hash(cache)

Arrived ==   \* mutant: consecutive blocks, linked or not
  {h \in DOMAIN window : \A g \in WindowStart .. h : window[g] \in Block}

\* The heights whose blocks, and all before them, arrived and chain together.
Chained ==
  {h \in DOMAIN window :
     \A g \in WindowStart .. h :
       /\ window[g] \in Block
       /\ g > WindowStart => PrevHash[window[g]] = window[g - 1]}

ReorgDetected ==
  /\ WindowDone
  /\ ~IsEmpty(cache) => TipDecodes(cache)
  /\ FirstMismatches
  /\ cache' = reorg_to_floor(Pred(Pred(WindowStart)))
  /\ Done
  /\ UNCHANGED <<node, start_height, tip, budget, repair, left>>

\* One transaction commits the whole prefix.
BatchCommits ==
  /\ WindowDone
  /\ ~IsEmpty(cache) => TipDecodes(cache)
  /\ ~FirstMismatches
  /\ Chained # {}
  /\ cache' = append(cache, Restrict(window, Chained), None)
  /\ Done
  /\ UNCHANGED <<node, start_height, tip, budget, repair, left>>

\* Nothing usable arrived: the step fails and the loop backs off.
WindowFails ==
  /\ WindowDone
  /\ ~IsEmpty(cache) => TipDecodes(cache)
  /\ ~FirstMismatches
  /\ Chained = {}
  /\ Done
  /\ UNCHANGED <<node, cache, start_height, tip, budget, repair, left>>

(***************************************************************************)
(* A value the step had to decode is corrupt: truncate below it and retry  *)
(* at once, unless that was already done MaxRecoveries times in a row.     *)
(***************************************************************************)
MeetsCorruption ==
  \/ pc = "decide" /\ Comparable /\ cache.blocks[tip.height] = Corrupt
  \/ WindowDone /\ ~IsEmpty(cache) /\ ~TipDecodes(cache)

OneRecoveryMore == recoveries <= MaxRecoveries   \* mutant

should_recover == recoveries < MaxRecoveries

StepRecovers ==
  /\ MeetsCorruption
  /\ should_recover
  /\ cache' = recover(cache)
  /\ recoveries' = recoveries + 1
  /\ window' = NoWindow
  /\ pc' = "loop"
  /\ UNCHANGED <<node, start_height, tip, budget, repair, left>>

\* The truncation itself fails; it counts towards the limit all the same.
RecoveryFails ==
  /\ MeetsCorruption
  /\ should_recover
  /\ Spend("fault")
  /\ recoveries' = recoveries + 1
  /\ window' = NoWindow
  /\ pc' = "loop"
  /\ UNCHANGED <<node, cache, start_height, tip, budget, repair>>

RecoveryLimitReached ==
  /\ MeetsCorruption
  /\ ~should_recover
  /\ Done
  /\ UNCHANGED <<node, cache, start_height, tip, budget, repair, left>>

\* A node call, a cache read or a commit fails: nothing is written.
StepFails ==
  /\ pc \in {"info", "decide"} \/ WindowDone
  /\ Spend("fault")
  /\ Done
  /\ UNCHANGED <<node, cache, start_height, tip, budget, repair>>

-----------------------------------------------------------------------------
Init ==
  /\ node \in Chains
  /\ cache = EmptyCache
  /\ pc = "open"
  /\ start_height = ConfiguredStart
  /\ tip = [height |-> TipHeight(node), hash |-> node[TipHeight(node)]]
  /\ window = NoWindow
  /\ repair = NOTHING
  /\ budget = FreshBudget
  /\ recoveries = 0
  /\ left \in Bounds

Environment ==
  \/ \E c \in Chains : NodeMoves(c)
  \/ \E h \in Cached(cache) : Damage(h)
  \/ WindowElapses
  \/ Restart

Startup ==
  \/ \E lever \in SyncFrom \cup {None} : OpenCache(lever)
  \/ ImportEpoch
  \/ StartIngestor

TakeRepair == NothingReported \/ RepairIgnored \/ RepairRefused \/ Repair

Decide == StepIdle \/ StepRollsBack \/ StepFetches

ApplyWindow == ReorgDetected \/ BatchCommits \/ WindowFails

Fault ==
  \/ RepairFails
  \/ \E h \in DOMAIN window : FetchBreaks(h)
  \/ RecoveryFails
  \/ StepFails

\* The ingestor's own steps, without the faults that befall it.
IngestorStep ==
  \/ TakeRepair
  \/ GetBlockchainInfo
  \/ Decide
  \/ \E h \in DOMAIN window : FetchReturns(h)
  \/ ApplyWindow
  \/ StepRecovers
  \/ RecoveryLimitReached

\* Everything but the read path, which RangeStream adds.
Core == Environment \/ Startup \/ IngestorStep \/ Fault

Next == Core \/ \E h \in ReportHeights : Report(h)

Spec == Init /\ [][Next]_vars

Fairness ==
  /\ WF_vars(\E lever \in SyncFrom \cup {None} : OpenCache(lever))
  /\ WF_vars(StartIngestor)
  /\ WF_vars(IngestorStep)
  /\ WF_vars(WindowElapses)

FairSpec == Spec /\ Fairness

-----------------------------------------------------------------------------
(***************************************************************************)
(* The ingestor and the process around it implement the abstract store:    *)
(* however the node behaves, readers only ever see linked blocks go on top *)
(* of the cache or come off its top.                                       *)
(***************************************************************************)
Store == INSTANCE ChainStore WITH store <- cache.blocks

ImplementsChainStore == Store!StoreSpec

-----------------------------------------------------------------------------
(***************************************************************************)
(* Every variable holds a value of its kind; the cache maps heights to     *)
(* stored values and its base row, when there is one, is a height.         *)
(***************************************************************************)
TypeOK ==
  /\ node \in Chains
  /\ CacheType(cache)
  /\ pc \in {"open", "import", "loop", "info", "decide", "fetch"}
  /\ start_height \in Nat
  /\ tip \in [height : Nat, hash : Block]
  /\ DOMAIN window \subseteq Nat
  /\ window \in [DOMAIN window -> Result]
  /\ repair \in Nat \ {0}
  /\ budget \in [spent : 0 .. MaxRepairs, elapsed : BOOLEAN]
  /\ recoveries \in 0 .. MaxRecoveries
  /\ left \in [Occurrence -> Nat]

(***************************************************************************)
(* The window in flight was asked for the cache's present tip, and every   *)
(* block in it answers the height it was asked for.                        *)
(***************************************************************************)
WindowFits ==
  /\ pc = "fetch" => \E last \in DOMAIN window : DOMAIN window = NextHeight .. last
  /\ \A h \in DOMAIN window : window[h] \in Block => HeightOf[window[h]] = h

\* The inductive invariant: what the safety properties rest on.
IInv == TypeOK /\ Intact(cache) /\ WindowFits

(***************************************************************************)
(* Whatever the node does between the answers of one window, and wherever  *)
(* the process stops, the cache is one gapless run of hash-linked blocks:  *)
(* fetch_window's results are only ever committed as a chained prefix, and *)
(* truncation only removes a suffix (ingestor.rs step, cache.rs append).   *)
(***************************************************************************)
CacheLinked == Gapless(cache) /\ Linked(cache)

(***************************************************************************)
(* The recorded snapshot base never outlives the block it describes: while *)
(* the row exists it is the lowest cached height (cache.rs append and      *)
(* remove_from).                                                           *)
(***************************************************************************)
BaseDescribesCache == BaseRowCurrent(cache)

(***************************************************************************)
(* A window fetched for one cache tip is never committed onto another: the *)
(* batch the step hands to add_batch always extends the tip by one, so the *)
(* store's non-monotonic-append rejection is unreachable from the          *)
(* ingestor.                                                               *)
(***************************************************************************)
AppendsExtendTip ==
  WindowDone /\ Chained # {} => Accepts(cache, Restrict(window, Chained))

(***************************************************************************)
(* A repair drops the reported block and everything above it and not one   *)
(* block below: an out-of-range report, which would empty the cache, is    *)
(* never acted on (ingestor.rs repair_reported).  A cache that could not   *)
(* stay above the floor is emptied, the blocks an import left below the    *)
(* floor included (reorg_to_floor).                                        *)
(***************************************************************************)
RepairDropsSuspects ==
  [][pc = "loop" /\ pc' = "info" /\ cache' # cache =>
       Cached(cache') = {h \in Cached(cache) : h < repair /\ repair > start_height}]_vars

\* One chain holds every cached block and every answer the step decides on.
OneChainExplains(c) ==
  /\ \A h \in Cached(cache) : h \in DOMAIN c /\ c[h] = cache.blocks[h]
  /\ pc = "decide" => tip.height \in DOMAIN c /\ c[tip.height] = tip.hash
  /\ pc = "fetch" => \A h \in DOMAIN window :
                      window[h] \in Block => h \in DOMAIN c /\ c[h] = window[h]

(***************************************************************************)
(* The step drops a block only on evidence of another chain or of damage:  *)
(* while some chain explains both the cache and the node's answers, a node *)
(* that fell behind, fails calls or loses fetch tasks costs no block       *)
(* (ingestor.rs step: "must not drain hours of ingested blocks").          *)
(***************************************************************************)
RollsBackOnEvidence ==
  [][/\ pc \in {"decide", "fetch"}
     /\ ~(Cached(cache) \subseteq Cached(cache'))
     => ~\E c \in Chains : OneChainExplains(c)]_vars

(***************************************************************************)
(* The cache has every block of the node's chain from the floor up and     *)
(* nothing that contradicts it.                                            *)
(***************************************************************************)
InSync ==
  start_height <= TipHeight(node) =>
    /\ ~IsEmpty(cache)
    /\ latest_height(cache) >= TipHeight(node)
    /\ \A h \in Cached(cache) : h <= TipHeight(node) => cache.blocks[h] = node[h]

(***************************************************************************)
(* Once the node settles on a chain, the ingestor converges to it whatever *)
(* forks, faults, damage, reports and restarts came before.                *)
(***************************************************************************)
Converges == <>[]InSync

(***************************************************************************)
(* A reported discontinuity is never left in the slot for good: it is      *)
(* acted on, or found moot, even when the budget refuses it for a while.   *)
(***************************************************************************)
ReportResolved == (repair # NOTHING) ~> (repair = NOTHING)

(***************************************************************************)
(* cache.rs on lowest_corrupt_height: the caller's truncation drops the    *)
(* corruption, so re-ingestion refills it.  A recovery in the loop that    *)
(* does not fail, and the check at every open, leave no corrupt block,     *)
(* however far down the damaged suffix reaches, except in a cache that     *)
(* holds height 0, which saturating_sub keeps.                             *)
(***************************************************************************)
Recovers == recoveries' = recoveries + 1 /\ left' = left

Opens == pc = "open" /\ pc' # "open"

RecoveryDropsCorruption ==
  [][(Recovers \/ Opens) /\ 0 \notin Cached(cache) =>
       \A h \in Cached(cache') : cache'.blocks[h] # Corrupt]_vars

(***************************************************************************)
(* docs/ARCHITECTURE.md on an imported base: a reorg cannot empty the      *)
(* cache and silently re-sync it from the configured start.                *)
(***************************************************************************)
ImportedFloorHolds ==
  [](cache.base # None => [](IsEmpty(cache) \/ BaseHeight(cache) >= PeerBase))
=============================================================================
