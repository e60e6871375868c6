--------------------------- MODULE SnapshotExport ---------------------------
(***************************************************************************)
(* Publishing a cache as a snapshot (snapshot/export.rs): the walk that    *)
(* computes and stores one digest row per complete epoch while the         *)
(* ingestor appends to the cache and truncates it.                         *)
(*                                                                         *)
(* The walk reads the cache in several transactions and writes in a last   *)
(* one.  The ingestor appears through the commits Ingestor shows it makes: *)
(* a linked block on top, or everything from a height up dropped.          *)
(*                                                                         *)
(* A digest is abstracted to what it is a digest of: the body's blocks.    *)
(***************************************************************************)
EXTENDS BlockCache

CONSTANTS
  Floor,         \* the publisher's ingest floor
  MaxRollbacks   \* how often its ingestor may truncate

ASSUME ExportAssumption == Floor \in Nat /\ MaxRollbacks \in Nat

VARIABLES
  pub,        \* the publisher's database
  walk,       \* the maintenance walk: where it is and what it has read
  stale,      \* history: rows stored after a truncation had reached their epoch
  rollbacks   \* truncations so far

exportVars == <<pub, walk, stale, rollbacks>>

Idle == [at |-> "idle", index |-> None, before |-> None, row |-> None, raced |-> FALSE]

\* Cache::range.
range(c) == IF IsEmpty(c) THEN None ELSE [base |-> BaseHeight(c), tip |-> latest_height(c)]

-----------------------------------------------------------------------------
(***************************************************************************)
(* Which epochs are complete, and which one comes next.                    *)
(***************************************************************************)
EpochStart(c, i) == Max({epoch_first_height(i), BaseHeight(c)})

UnclippedEpochBounds(c, i) ==   \* mutant: only whole epochs
  IF ~IsEmpty(c) /\ BaseHeight(c) <= epoch_first_height(i)
                 /\ epoch_last_height(i) < latest_height(c)
  THEN [start |-> epoch_first_height(i), end |-> epoch_last_height(i)]
  ELSE None

\* The heights epoch i covers here, clipped at the base, once the tip is past it.
complete_epoch_bounds(c, i) ==
  IF ~IsEmpty(c) /\ EpochStart(c, i) <= epoch_last_height(i)
                 /\ epoch_last_height(i) < latest_height(c)
  THEN [start |-> EpochStart(c, i), end |-> epoch_last_height(i)]
  ELSE None

\* The epochs of the cache the tip is past, from the base up.
CompleteEpochs(c) ==
  IF IsEmpty(c) THEN {}
  ELSE {i \in epoch_index(BaseHeight(c)) .. epoch_index(latest_height(c)) :
          epoch_last_height(i) < latest_height(c)}

\* The records write_body finds in one read transaction.
Records(c, start, end) == Restrict(c.blocks, (start .. end) \cap Cached(c))

\* The base moved, the tip went down or the cache was emptied.
was_truncated(before, after) ==
  /\ before # None
  /\ after # None => after.base # before.base \/ after.tip < before.tip

-----------------------------------------------------------------------------
(***************************************************************************)
(* The publisher's ingestor.                                               *)
(***************************************************************************)
AppendsBlock(block) ==
  /\ IsEmpty(pub) => HeightOf[block] = Floor
  /\ ~IsEmpty(pub) => HeightOf[block] = AppendHeight(pub) /\ PrevHash[block] = latest_hash(pub)
  /\ pub' = append(pub, [h \in {HeightOf[block]} |-> block], None)
  /\ UNCHANGED <<walk, stale, rollbacks>>

\* The truncation also marks, for the properties, a digest it has overtaken.
TruncatesFrom(height) ==
  /\ height \in Cached(pub)
  /\ rollbacks < MaxRollbacks
  /\ rollbacks' = rollbacks + 1
  /\ pub' = truncate_from(pub, height)
  /\ walk' = [walk EXCEPT !.raced = @ \/ (walk.at \in {"check", "store"} /\ height <= walk.row.end)]
  /\ stale' = stale \cap DOMAIN pub'.digests

-----------------------------------------------------------------------------
(***************************************************************************)
(* store_next_epoch_digest, one action per transaction.                    *)
(***************************************************************************)
\* next_pending_epoch: read the range once, then one row at a time from the
\* base's epoch up.
BeginScan ==
  /\ walk.at = "idle"
  /\ ~IsEmpty(pub)
  /\ walk' = [walk EXCEPT !.at = "scan", !.before = range(pub),
                          !.index = epoch_index(BaseHeight(pub))]
  /\ UNCHANGED <<pub, stale, rollbacks>>

ScanRow ==
  /\ walk.at = "scan"
  /\ walk' = CASE epoch_last_height(walk.index) >= walk.before.tip -> Idle
               [] epoch_last_height(walk.index) < walk.before.tip ->
                    IF walk.index \in DOMAIN pub.digests
                    THEN [walk EXCEPT !.index = @ + 1] ELSE [walk EXCEPT !.at = "range"]
  /\ UNCHANGED <<pub, stale, rollbacks>>

ReadRange ==
  /\ walk.at = "range"
  /\ walk' = [walk EXCEPT !.at = "bounds", !.before = range(pub)]
  /\ UNCHANGED <<pub, stale, rollbacks>>

\* compute_epoch_digest gives up on an epoch that is not complete any more.
ReadBounds ==
  /\ walk.at = "bounds"
  /\ LET bounds == complete_epoch_bounds(pub, walk.index)
     IN  walk' = IF bounds = None THEN Idle
                 ELSE [walk EXCEPT !.at = "body",
                                   !.row = [start |-> bounds.start, end |-> bounds.end,
                                            body |-> << >>]]
  /\ UNCHANGED <<pub, stale, rollbacks>>

\* A body with a hole is an error; the walk starts over.
ReadBody ==
  /\ walk.at = "body"
  /\ LET body == Records(pub, walk.row.start, walk.row.end)
     IN  walk' = IF DOMAIN body = walk.row.start .. walk.row.end
                 THEN [walk EXCEPT !.at = "check", !.row.body = body, !.raced = FALSE]
                 ELSE Idle
  /\ UNCHANGED <<pub, stale, rollbacks>>

CheckRange ==
  /\ walk.at = "check"
  /\ walk' = IF was_truncated(walk.before, range(pub)) THEN Idle
             ELSE [walk EXCEPT !.at = "store"]
  /\ UNCHANGED <<pub, stale, rollbacks>>

StoreDigest ==
  /\ walk.at = "store"
  /\ pub' = set_epoch_digest(pub, walk.index, walk.row)
  /\ stale' = IF walk.raced THEN stale \cup {walk.index} ELSE stale \ {walk.index}
  /\ walk' = Idle
  /\ UNCHANGED rollbacks

-----------------------------------------------------------------------------
ExportInit ==
  /\ pub = EmptyCache
  /\ walk = Idle
  /\ stale = {}
  /\ rollbacks = 0

PublisherIngests ==
  \/ \E block \in Block : AppendsBlock(block)
  \/ \E height \in Cached(pub) : TruncatesFrom(height)

MaintainDigests ==
  BeginScan \/ ScanRow \/ ReadRange \/ ReadBounds \/ ReadBody \/ CheckRange \/ StoreDigest

ExportNext == PublisherIngests \/ MaintainDigests

-----------------------------------------------------------------------------
\* A row holds the digest of the blocks c has at the heights it names.
Describes(c, row) ==
  Records(c, row.start, row.end) = row.body /\ DOMAIN row.body = row.start .. row.end

(***************************************************************************)
(* Every row stored without a truncation overtaking it describes the       *)
(* blocks cached now: remove_from drops the rows of every epoch it reaches *)
(* into, in the same transaction, and appends never touch a complete one.  *)
(***************************************************************************)
DigestsCurrentUnlessRaced == \A i \in DOMAIN pub.digests \ stale : Describes(pub, pub.digests[i])

(***************************************************************************)
(* Once the publisher's cache settles, every complete epoch gets a row.    *)
(***************************************************************************)
EveryEpochPublished == <>[](CompleteEpochs(pub) \subseteq DOMAIN pub.digests)

(***************************************************************************)
(* export.rs on maintain_digests: "Keep the stored epoch digests current,  *)
(* forever".  Once the cache settles, every row describes its blocks.      *)
(***************************************************************************)
DigestsBecomeCurrent ==
  <>[](\A i \in DOMAIN pub.digests : Describes(pub, pub.digests[i]))
=============================================================================
