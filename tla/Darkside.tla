------------------------------ MODULE Darkside ------------------------------
(***************************************************************************)
(* The darkside mock chain (darkside/state.rs): blocks and transactions    *)
(* are staged, ApplyStaged merges them into the active chain the mock node *)
(* presents.  Every control call holds the state's lock from start to end, *)
(* so each is one action; a call that fails keeps what it did before the   *)
(* error.                                                                  *)
(*                                                                         *)
(* A header is its Merkle root, its previous hash and how often mining     *)
(* bumped it; the hash of a block is its header.  One note-commitment tree *)
(* stands for the three, which the code treats alike.                      *)
(***************************************************************************)
EXTENDS Integers, Sequences, SequencesExt

CONSTANTS
  Tx,          \* transactions
  Notes,       \* Notes[t]: the notes t adds to the tree
  RawBlock,    \* blocks that StageBlocks may bring: [height, root, txs]
  Nonces,      \* nonces of StageBlocksCreate
  Starts,      \* Sapling activation heights of Reset
  StartSizes,  \* tree sizes of Reset
  Heights,     \* heights named by the control calls
  MaxCount,    \* blocks one StageBlocksCreate makes
  Limit        \* Limit[k]: how many calls of kind k

Call == {"reset", "block", "tx", "apply"}

ASSUME DarksideAssumption ==
  /\ Notes \in [Tx -> Nat]
  /\ \A b \in RawBlock : b.height \in Nat /\ b.txs \in Seq(Tx)
  /\ Starts \subseteq Nat /\ StartSizes \subseteq Nat /\ Heights \subseteq Nat
  /\ MaxCount \in Nat
  /\ Limit \in [Call -> Nat]

\* A Merkle root commits to the transactions of its block.
ASSUME RootAssumption ==
  /\ \A a, b \in RawBlock : a.root = b.root => a.txs = b.txs
  /\ \A b \in RawBlock : b.root \in Nonces \X Nat => b.txs = << >>

VARIABLES
  meta,           \* was_reset, start_height and the tree size below it
  latest_height,  \* the presented tip; -1 before the first ApplyStaged
  active,         \* the active blocks, from start_height up
  staged_blocks,
  staged_txs,     \* [height, tx]
  settled,        \* history: no ApplyStaged failed since one last succeeded
  left            \* calls left

darksideVars ==
  <<meta, latest_height, active, staged_blocks, staged_txs, settled, left>>

Uses(k) == left[k] > 0 /\ left' = [left EXCEPT ![k] = @ - 1]

\* The range of the header byte that mining bumps.
ByteRange == 256

NotesIn(txs) == FoldLeft(LAMBDA n, t : n + Notes[t], 0, txs)

Hash(b) == <<b.root, b.prev, b.bumps>>

-----------------------------------------------------------------------------
reset(start, size) ==
  /\ Uses("reset")
  /\ meta' = [reset |-> TRUE, start |-> start, size |-> size]
  /\ latest_height' = -1
  /\ active' = << >>
  /\ staged_blocks' = << >>
  /\ staged_txs' = << >>
  /\ settled' = TRUE

stage_block(raw) ==
  /\ meta.reset
  /\ raw.height >= meta.start
  /\ Uses("block")
  /\ staged_blocks' = Append(staged_blocks, raw)
  /\ UNCHANGED <<meta, latest_height, active, staged_txs, settled>>

synthetic_block(height, nonce) ==
  [height |-> height, root |-> <<nonce, height>>, txs |-> << >>]

\* Consecutive heights: if the first is not too low, none is.
stage_blocks_create(height, nonce, count) ==
  /\ meta.reset
  /\ height >= meta.start
  /\ Uses("block")
  /\ staged_blocks' =
       staged_blocks \o [i \in 1 .. count |-> synthetic_block(height + i - 1, nonce)]
  /\ UNCHANGED <<meta, latest_height, active, staged_txs, settled>>

\* The height is not looked at before ApplyStaged.
stage_transaction(height, tx) ==
  /\ meta.reset
  /\ Uses("tx")
  /\ staged_txs' = Append(staged_txs, [height |-> height, tx |-> tx])
  /\ UNCHANGED <<meta, latest_height, active, staged_blocks, settled>>

-----------------------------------------------------------------------------
(***************************************************************************)
(* apply_staged.  A pass over the staged items carries the active blocks   *)
(* and whether no item failed yet; after a failure it changes nothing.     *)
(***************************************************************************)
Offset(height) == height - meta.start

\* Appended at the end, or in place of the block at its height and all above.
add_block_active(pass, raw) ==
  LET below == SubSeq(pass.active, 1, Offset(raw.height))
      base  == IF below = << >> THEN meta.size ELSE Last(below).size
  IN  IF ~pass.ok \/ Offset(raw.height) > Len(pass.active)
      THEN [pass EXCEPT !.ok = FALSE]
      ELSE [pass EXCEPT !.active =
              Append(below, [root |-> raw.root, prev |-> << >>, bumps |-> 0,
                             txs |-> raw.txs, size |-> base + NotesIn(raw.txs)])]

apply_staged_blocks ==
  FoldLeft(add_block_active, [active |-> active, ok |-> TRUE], staged_blocks)

GrowsOwnBlockOnly(pass, staged) ==   \* mutant: later blocks keep their sizes
  LET i == Offset(staged.height) + 1
  IN  IF ~pass.ok \/ i \notin DOMAIN pass.active
      THEN [pass EXCEPT !.ok = FALSE]
      ELSE [pass EXCEPT !.active[i].txs = Append(@, staged.tx),
                        !.active[i].bumps = (@ + 1) % ByteRange,
                        !.active[i].size = @ + Notes[staged.tx]]

MinesUnperturbed(pass, staged) ==   \* mutant: the header is left alone
  LET i == Offset(staged.height) + 1
      grow(j, b) == IF j < i THEN b ELSE [b EXCEPT !.size = @ + Notes[staged.tx]]
  IN  IF ~pass.ok \/ i \notin DOMAIN pass.active
      THEN [pass EXCEPT !.ok = FALSE]
      ELSE [pass EXCEPT !.active = [[j \in DOMAIN @ |-> grow(j, @[j])]
                EXCEPT ![i].txs = Append(@, staged.tx)]]

\* Into the block at its height: its header changes, and the tree grows there
\* and in every later block.
mine(pass, staged) ==
  LET i == Offset(staged.height) + 1
      grow(j, b) == IF j < i THEN b ELSE [b EXCEPT !.size = @ + Notes[staged.tx]]
      grown == [j \in DOMAIN pass.active |-> grow(j, pass.active[j])]
      mined == [grown EXCEPT ![i].txs = Append(@, staged.tx),
                             ![i].bumps = (@ + 1) % ByteRange]
  IN  IF ~pass.ok \/ i \notin DOMAIN pass.active
      THEN [pass EXCEPT !.ok = FALSE]
      ELSE [pass EXCEPT !.active = mined]

mine_staged_transactions(blocks) ==
  FoldLeft(mine, [active |-> blocks, ok |-> TRUE], staged_txs)

\* The first block keeps the previous hash it was staged with.
set_prevhash(blocks) ==
  LET relinked[i \in DOMAIN blocks] ==
        IF i = 1 THEN blocks[1] ELSE [blocks[i] EXCEPT !.prev = Hash(relinked[i - 1])]
  IN  relinked

MayApply(target) ==
  /\ meta.reset
  /\ target >= meta.start
  /\ Uses("apply")

LinksBeforeMining(target) ==   \* mutant: the previous hashes are set first
  LET merged == apply_staged_blocks
      mined  == mine_staged_transactions(set_prevhash(merged.active))
  IN  /\ MayApply(target)
      /\ merged.ok /\ merged.active # << >> /\ mined.ok
      /\ active' = mined.active
      /\ latest_height' = IF target < meta.start + Len(mined.active) - 1
                          THEN target ELSE meta.start + Len(mined.active) - 1
      /\ staged_blocks' = << >>
      /\ staged_txs' = << >>
      /\ settled' = TRUE
      /\ UNCHANGED meta

MinesBeforeMerging(target) ==   \* mutant: the transactions go in first
  LET mined  == mine_staged_transactions(active)
      merged == FoldLeft(add_block_active, mined, staged_blocks)
  IN  /\ MayApply(target)
      /\ merged.ok /\ merged.active # << >>
      /\ active' = set_prevhash(merged.active)
      /\ latest_height' = IF target < meta.start + Len(merged.active) - 1
                          THEN target ELSE meta.start + Len(merged.active) - 1
      /\ staged_blocks' = << >>
      /\ staged_txs' = << >>
      /\ settled' = TRUE
      /\ UNCHANGED meta

apply_staged(target) ==
  LET merged     == apply_staged_blocks
      mined      == mine_staged_transactions(merged.active)
      max_height == meta.start + Len(mined.active) - 1
  IN  /\ MayApply(target)
      /\ merged.ok /\ merged.active # << >> /\ mined.ok
      /\ active' = set_prevhash(mined.active)
      /\ latest_height' = IF target < max_height THEN target ELSE max_height
      /\ staged_blocks' = << >>
      /\ staged_txs' = << >>
      /\ settled' = TRUE
      /\ UNCHANGED meta

\* A gap, or nothing to present: the staged blocks are gone, those before the
\* gap are in the active chain, and the staged transactions wait on.
ApplyFailsOnBlock(target) ==
  LET merged == apply_staged_blocks
  IN  /\ MayApply(target)
      /\ ~merged.ok \/ merged.active = << >>
      /\ active' = merged.active
      /\ staged_blocks' = << >>
      /\ settled' = FALSE
      /\ UNCHANGED <<meta, latest_height, staged_txs>>

\* A transaction below the first block or above the last.
ApplyFailsOnTx(target) ==
  LET merged == apply_staged_blocks
      mined  == mine_staged_transactions(merged.active)
  IN  /\ MayApply(target)
      /\ merged.ok /\ merged.active # << >> /\ ~mined.ok
      /\ active' = mined.active
      /\ staged_blocks' = << >>
      /\ staged_txs' = << >>
      /\ settled' = FALSE
      /\ UNCHANGED <<meta, latest_height>>

-----------------------------------------------------------------------------
(***************************************************************************)
(* What the mock node serves: a wallet's range is fetched height by height *)
(* with block_verbose and then, by the hash in it, block_raw_by_hash.      *)
(***************************************************************************)
\* tip_index and block_at agree on the heights that can be read.
IsPresented(height) ==
  /\ height \in meta.start .. latest_height
  /\ Offset(height) < Len(active)

\* The tip is reported once a block is presented.
blockchain_info == [blocks |-> latest_height, bestblockhash |-> Hash(active[Offset(latest_height) + 1])]

block_verbose(height) ==
  LET b == active[Offset(height) + 1] IN [hash |-> Hash(b), tree |-> b.size]

\* The first active block of that hash, also one above the presented tip.
block_raw_by_hash(hash) == active[SelectInSeq(active, LAMBDA b : Hash(b) = hash)]

\* The staging area is the mempool.
raw_mempool ==
  UNION {ToSet(staged_blocks[i].txs) : i \in DOMAIN staged_blocks}
    \cup {staged_txs[i].tx : i \in DOMAIN staged_txs}

\* The height a transaction is reported at, an active block's before a staged
\* one's; 0 stands for the mempool, -1 for not found.
raw_transaction(tx) ==
  LET holds(b) == tx \in ToSet(b.txs)
      mined  == SelectInSeq(active, holds)
      staged == SelectInSeq(staged_blocks, holds)
  IN  IF mined > 0 THEN meta.start + mined - 1
      ELSE IF staged > 0 THEN staged_blocks[staged].height
      ELSE IF tx \in raw_mempool THEN 0 ELSE -1

DarksideInit ==
  /\ meta = [reset |-> FALSE, start |-> 0, size |-> 0]
  /\ latest_height = -1
  /\ active = << >>
  /\ staged_blocks = << >>
  /\ staged_txs = << >>
  /\ settled = TRUE
  /\ left = Limit

DarksideNext ==
  \/ \E start \in Starts, size \in StartSizes : reset(start, size)
  \/ \E raw \in RawBlock : stage_block(raw)
  \/ \E height \in Heights, nonce \in Nonces, count \in 1 .. MaxCount :
       stage_blocks_create(height, nonce, count)
  \/ \E height \in Heights, tx \in Tx : stage_transaction(height, tx)
  \/ \E target \in Heights :
       apply_staged(target) \/ ApplyFailsOnBlock(target) \/ ApplyFailsOnTx(target)

DarksideSpec == DarksideInit /\ [][DarksideNext]_darksideVars

-----------------------------------------------------------------------------
(***************************************************************************)
(* Every block's tree size is its predecessor's plus the notes it carries, *)
(* the first counting from the size given to Reset: a wallet and the       *)
(* snapshot importer's tree size check rely on it.  It survives rewrites,  *)
(* mining below the tip and an ApplyStaged that fails half way.            *)
(***************************************************************************)
TreeSizesAddUp ==
  \A i \in DOMAIN active :
    active[i].size = NotesIn(active[i].txs) + IF i = 1 THEN meta.size ELSE active[i - 1].size

(***************************************************************************)
(* Once an ApplyStaged succeeded, and until one fails, every height up to  *)
(* the reported tip can be fetched, each block names the one before it,    *)
(* and the hash a height is reported with leads to that height's block,    *)
(* whatever was rewritten, mined into or left above the presented tip.     *)
(***************************************************************************)
PresentedLinked ==
  settled =>
    /\ \A height \in meta.start .. latest_height :
         /\ IsPresented(height)
         /\ block_raw_by_hash(block_verbose(height).hash) = active[Offset(height) + 1]
    /\ latest_height >= 0 =>
         blockchain_info.bestblockhash = block_verbose(blockchain_info.blocks).hash
    /\ \A i \in DOMAIN active \ {1} : active[i].prev = Hash(active[i - 1])

(***************************************************************************)
(* Mining a transaction into a block already presented shows as a          *)
(* reorganisation from that height: its hash and every later one change.   *)
(* What mining perturbs is a byte, so this is for a block that gained      *)
(* fewer than ByteRange transactions since it was last linked, which is    *)
(* not later than when it held none.                                       *)
(***************************************************************************)
MiningMovesHashes ==
  [][settled' =>
       \A i, j \in DOMAIN active \cap DOMAIN active' :
         /\ i <= j /\ IsStrictPrefix(active[i].txs, active'[i].txs)
         /\ Len(active'[i].txs) - (IF settled THEN Len(active[i].txs) ELSE 0) < ByteRange
         => Hash(active[j]) # Hash(active'[j])]_darksideVars

(***************************************************************************)
(* proto/darkside.proto on ApplyStaged: after merging the blocks, it       *)
(* appends every staged transaction to the block at its height, also when  *)
(* the same call rewrites that height; the transaction then leaves the     *)
(* mempool and is reported at a height whose block holds it.               *)
(***************************************************************************)
StagedTxsAreMined ==
  [][left'.apply < left.apply /\ settled' =>
       /\ raw_mempool' = {}
       /\ \A tx \in Tx : \A i \in DOMAIN staged_txs :
            LET holds(height) == tx \in ToSet(active'[Offset(height) + 1].txs)
            IN  staged_txs[i].tx = tx =>
                  /\ holds(staged_txs[i].height)
                  /\ raw_transaction(tx)' \in meta.start .. staged_txs[i].height
                  /\ holds(raw_transaction(tx)')]_darksideVars
=============================================================================
