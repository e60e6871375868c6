----------------------------- MODULE BlockCache -----------------------------
(***************************************************************************)
(* The compact-block cache (cache.rs): one redb database holding a block   *)
(* table keyed by height and a meta table with the imported snapshot's     *)
(* base height and one digest row per published epoch.                     *)
(*                                                                         *)
(* Every method of Cache opens one transaction, so every method is one     *)
(* operator here: from the whole database to a value, or to the whole      *)
(* database after the commit.  A write that fails commits nothing.         *)
(*                                                                         *)
(* A block is abstracted to its hash.  PrevHash and HeightOf are what a    *)
(* decoded block says of itself; a hash commits to both.  Corrupt stands   *)
(* for stored bytes that do not decode.                                    *)
(***************************************************************************)
EXTENDS Integers, FiniteSetsExt

CONSTANTS
  Block,      \* the block hashes the node may ever serve
  HeightOf,   \* HeightOf[b]: the height block b carries
  PrevHash,   \* PrevHash[b]: the hash of the block b was mined on
  Corrupt,    \* a stored value that fails to decode
  None,       \* Rust's Option::None
  EpochSize   \* EPOCH_SIZE: heights per published snapshot epoch

ASSUME BlockAssumption ==
  /\ HeightOf \in [Block -> Nat]
  /\ PrevHash \in [Block -> Block \cup {None}]
  /\ Corrupt \notin Block
  /\ None \notin Block
  /\ None \notin Nat
  /\ None # Corrupt
  /\ EpochSize \in Nat \ {0}

(***************************************************************************)
(* u64::saturating_sub(1).                                                 *)
(***************************************************************************)
Pred(h) == IF h = 0 THEN 0 ELSE h - 1

-----------------------------------------------------------------------------
(***************************************************************************)
(* Epochs (snapshot/format.rs).                                            *)
(***************************************************************************)
epoch_index(h) == h \div EpochSize

epoch_first_height(i) == i * EpochSize

epoch_last_height(i) == epoch_first_height(i) + (EpochSize - 1)

-----------------------------------------------------------------------------
(***************************************************************************)
(* A database: the BLOCKS table, and the two kinds of META row.            *)
(***************************************************************************)
Entry == Block \cup {Corrupt}

CacheType(c) ==
  /\ c = [blocks |-> c.blocks, base |-> c.base, digests |-> c.digests]
  /\ DOMAIN c.blocks \subseteq Nat
  /\ c.blocks \in [DOMAIN c.blocks -> Entry]
  /\ c.base \in Nat \cup {None}

EmptyCache == [blocks |-> << >>, base |-> None, digests |-> << >>]

Cached(c) == DOMAIN c.blocks

IsEmpty(c) == Cached(c) = {}

BaseHeight(c) == Min(Cached(c))

latest_height(c) == Max(Cached(c))

latest_hash(c) == c.blocks[latest_height(c)]

TipDecodes(c) == latest_hash(c) # Corrupt

\* The height an append must start at once the cache holds something.
AppendHeight(c) == latest_height(c) + 1

-----------------------------------------------------------------------------
(***************************************************************************)
(* append: the batch as a whole must extend the tip by one and be          *)
(* consecutive; an empty cache takes any run.  The snapshot base is        *)
(* recorded with the blocks it describes or not at all.                    *)
(***************************************************************************)
Accepts(c, batch) ==
  /\ ~IsEmpty(c) => Min(DOMAIN batch) = AppendHeight(c)
  /\ DOMAIN batch = Min(DOMAIN batch) .. Max(DOMAIN batch)

append(c, batch, snapshot_base) ==
  [blocks  |-> [h \in Cached(c) \cup DOMAIN batch |->
                  IF h \in DOMAIN batch THEN batch[h] ELSE c.blocks[h]],
   base    |-> IF snapshot_base = None THEN c.base ELSE snapshot_base,
   digests |-> c.digests]

RemoveKeepingBase(c, height) ==   \* mutant: the snapshot base row is forgotten
  [blocks  |-> Restrict(c.blocks, {h \in Cached(c) : h < height}),
   base    |-> c.base,
   digests |-> Restrict(c.digests, {i \in DOMAIN c.digests : i < epoch_index(height)})]

RemoveKeepingReached(c, height) ==   \* mutant: the epoch cut through keeps its row
  [blocks  |-> Restrict(c.blocks, {h \in Cached(c) : h < height}),
   base    |-> IF c.base # None /\ height <= c.base THEN None ELSE c.base,
   digests |-> Restrict(c.digests, {i \in DOMAIN c.digests : i <= epoch_index(height)})]

RemoveOneHeight(c, height) ==   \* mutant: what is above the height stays
  [blocks  |-> Restrict(c.blocks, Cached(c) \ {height}),
   base    |-> IF c.base # None /\ height <= c.base THEN None ELSE c.base,
   digests |-> Restrict(c.digests, {i \in DOMAIN c.digests : i < epoch_index(height)})]

(***************************************************************************)
(* remove_from: drop the blocks at or above the height, the digest rows of *)
(* the epochs it reaches into and, when it goes too, the snapshot base.    *)
(***************************************************************************)
remove_from(c, height) ==
  [blocks  |-> Restrict(c.blocks, {h \in Cached(c) : h < height}),
   base    |-> IF c.base # None /\ height <= c.base THEN None ELSE c.base,
   digests |-> Restrict(c.digests, {i \in DOMAIN c.digests : i < epoch_index(height)})]

reorg(c, height) == remove_from(c, height + 1)

truncate_from(c, height) == remove_from(c, height)

set_epoch_digest(c, index, row) ==
  [c EXCEPT !.digests = [i \in DOMAIN c.digests \cup {index} |->
                           IF i = index THEN row ELSE c.digests[i]]]

-----------------------------------------------------------------------------
(***************************************************************************)
(* validate_light: the tip decodes and the heights have no gap.            *)
(***************************************************************************)
validate_light(c) ==
  IsEmpty(c) \/ (TipDecodes(c) /\ Cached(c) = BaseHeight(c) .. latest_height(c))

(***************************************************************************)
(* lowest_corrupt_height: the lowest hole if the heights have one, else    *)
(* the height above the highest block that still decodes.                  *)
(***************************************************************************)
lowest_corrupt_height(c) ==
  LET holes   == (BaseHeight(c) .. latest_height(c)) \ Cached(c)
      decodes == {h \in Cached(c) : c.blocks[h] # Corrupt}
  IN  CASE IsEmpty(c)                         -> None
        [] ~IsEmpty(c) /\ holes # {}          -> Min(holes)
        [] ~IsEmpty(c) /\ holes = {} /\ decodes = {} -> BaseHeight(c)
        [] OTHER -> IF Max(decodes) = latest_height(c) THEN None ELSE Max(decodes) + 1

RecoverKeepingLowest(c) ==   \* mutant: reorg(corrupt)
  IF lowest_corrupt_height(c) = None THEN c ELSE reorg(c, lowest_corrupt_height(c))

(***************************************************************************)
(* The truncation both the ingestor and the open-time check derive from    *)
(* it: reorg(corrupt.saturating_sub(1)).                                   *)
(***************************************************************************)
recover(c) ==
  IF lowest_corrupt_height(c) = None THEN c
  ELSE reorg(c, Pred(lowest_corrupt_height(c)))

(***************************************************************************)
(* What the cache promises its readers: the heights form one gapless run,  *)
(* every decodable block carries the height it is filed under, and any two *)
(* neighbours that decode are linked by hash.                              *)
(***************************************************************************)
Gapless(c) == IsEmpty(c) \/ \E lo, hi \in Cached(c) : Cached(c) = lo .. hi

Linked(c) ==
  \A h \in Cached(c) :
    c.blocks[h] # Corrupt =>
      /\ HeightOf[c.blocks[h]] = h
      /\ (h - 1 \in Cached(c) /\ c.blocks[h - 1] # Corrupt)
           => PrevHash[c.blocks[h]] = c.blocks[h - 1]

\* The snapshot base row, while there is one, is the lowest cached height.
BaseRowCurrent(c) == c.base # None => ~IsEmpty(c) /\ BaseHeight(c) = c.base

\* The corruption recover is written for: nothing above a value that does not
\* decode decodes.
CorruptSuffix(c) ==
  \A h, g \in Cached(c) : h < g /\ c.blocks[h] = Corrupt => c.blocks[g] = Corrupt

Intact(c) ==
  CacheType(c) /\ Gapless(c) /\ Linked(c) /\ BaseRowCurrent(c) /\ CorruptSuffix(c)
=============================================================================
