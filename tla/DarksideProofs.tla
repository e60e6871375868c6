--------------------------- MODULE DarksideProofs ---------------------------
(***************************************************************************)
(* The darkside mock chain, for any blocks, transactions and number of     *)
(* control calls.  ApplyStaged makes two passes over what is staged and a  *)
(* third over the result; what the passes preserve is shown block by block *)
(* and transaction by transaction (FoldFacts), then for the whole call,    *)
(* also when it fails half way.                                            *)
(***************************************************************************)
EXTENDS Darkside, SequenceTheorems, TLAPS

IsSequence(s) == s \in Seq(Range(s))

Raws == RawBlock \cup {synthetic_block(h, nonce) : h \in Nat, nonce \in Nonces}

StagedTx == [height : Nat, tx : Tx]

\* The header byte counts the transactions mined into a block since it was staged.
Grown(b) ==
  \E raw \in Raws :
    /\ raw.root = b.root /\ Len(b.txs) >= Len(raw.txs)
    /\ b.bumps = (Len(b.txs) - Len(raw.txs)) % ByteRange

IsBlock(b) ==
  /\ b = [f \in {"root", "prev", "bumps", "txs", "size"} |-> b[f]]
  /\ b.txs \in Seq(Tx)
  /\ b.size \in Nat
  /\ Grown(b)

SizesAddUp(a) ==
  \A i \in DOMAIN a :
    a[i].size = NotesIn(a[i].txs) + IF i = 1 THEN meta.size ELSE a[i - 1].size

Linked(a) == \A i \in DOMAIN a \ {1} : a[i].prev = Hash(a[i - 1])

\* The blocks below j as they were when j was last linked: since then none was
\* replaced, and their transactions were only added to.
Remembers(old, a, j) ==
  /\ a[j].prev = Hash(old[j - 1])
  /\ \A k \in 2 .. j - 1 : old[k].prev = Hash(old[k - 1])
  /\ \A k \in 1 .. j - 1 :
       /\ Grown(old[k]) /\ old[k].root = a[k].root
       /\ old[k].txs \in Seq(Tx) /\ Len(old[k].txs) <= Len(a[k].txs)

LinkedOnce(a) ==
  \A j \in DOMAIN a :
    IF j = 1 THEN a[j].prev = << >>
             ELSE a[j].prev # << >> => \E old : Remembers(old, a, j)

\* What holds of the active blocks throughout a pass.
Kept(a) ==
  /\ IsSequence(a)
  /\ \A i \in DOMAIN a : IsBlock(a[i])
  /\ SizesAddUp(a)
  /\ LinkedOnce(a)

Staged ==
  /\ meta = [reset |-> meta.reset, start |-> meta.start, size |-> meta.size]
  /\ meta.start \in Nat /\ meta.size \in Nat
  /\ staged_blocks \in Seq(Raws)
  /\ \A i \in DOMAIN staged_blocks : staged_blocks[i].height >= meta.start
  /\ staged_txs \in Seq(StagedTx)
  /\ left \in [Call -> Nat]
  /\ latest_height \in Int

\* What a wallet is shown since the last ApplyStaged, if it succeeded.
Settles == settled => Linked(active) /\ latest_height < meta.start + Len(active)

\* The inductive invariant.
DarksideInv == Staged /\ Kept(active) /\ Settles

-----------------------------------------------------------------------------
(***************************************************************************)
(* The notes of a list of transactions.                                    *)
(***************************************************************************)
CountNotes(n, t) == n + Notes[t]

NotesFold == INSTANCE FoldFacts WITH Op <- CountNotes

LEMMA NotesAreFolded ==
  ASSUME NEW txs
  PROVE  NotesIn(txs) = NotesFold!Folded(0, txs)
BY DEF NotesIn, CountNotes, FoldLeft, MapThenFoldSet, Max,
       NotesFold!Folded, NotesFold!Iterates, NotesFold!Greatest

LEMMA NotesOfNone == NotesIn(<< >>) = 0
<1>1. DOMAIN << >> = 1 .. 0 /\ 0 \in Nat
  OBVIOUS
<1> QED
  BY <1>1, NotesAreFolded, NotesFold!FoldSteps

\* One transaction more adds its notes.
LEMMA NotesOfAppend ==
  ASSUME NEW txs \in Seq(Tx), NEW t \in Tx
  PROVE  NotesIn(Append(txs, t)) = NotesIn(txs) + Notes[t]
<1> DEFINE m == Len(txs)  longer == Append(txs, t)
<1>1. m \in Nat /\ DOMAIN txs = 1 .. m
  BY LenProperties
<1>2. DOMAIN longer = 1 .. m + 1 /\ longer[m + 1] = t /\ \A i \in 1 .. m : longer[i] = txs[i]
  BY AppendProperties, LenProperties
<1> HIDE DEF m, longer
<1>3. NotesFold!Folded(0, longer) = CountNotes(NotesFold!Folded(0, txs), t)
  BY <1>1, <1>2, NotesFold!FoldSteps
<1> QED
  BY <1>3, NotesAreFolded DEF longer, CountNotes

LEMMA NotesAreNat ==
  ASSUME NEW txs \in Seq(Tx)
  PROVE  NotesIn(txs) \in Nat
<1> DEFINE m == Len(txs)
<1>1. m \in Nat /\ DOMAIN txs = 1 .. m /\ \A i \in 1 .. m : txs[i] \in Tx
  BY LenProperties
<1> HIDE DEF m
<1>2. PICK run : NotesFold!Run(run, 0, txs, m) /\ run[m] = NotesFold!Folded(0, txs)
  BY <1>1, NotesFold!FoldRuns
<1> DEFINE S == {i \in Nat : i <= m => run[i] \in Nat}
<1>3. 0 \in S
  BY <1>2 DEF NotesFold!Run
<1>4. ASSUME NEW i \in Nat, i \in S PROVE i + 1 \in S
  <2> SUFFICES ASSUME i + 1 <= m PROVE run[i + 1] \in Nat
    OBVIOUS
  <2>1. i + 1 \in 1 .. m /\ (i + 1) - 1 = i /\ run[i] \in Nat
    BY <1>1, <1>4
  <2>2. run[i + 1] = run[i] + Notes[txs[i + 1]]
    BY <1>2, <2>1 DEF NotesFold!Run, CountNotes
  <2>3. Notes[txs[i + 1]] \in Nat
    BY <1>1, <2>1, DarksideAssumption
  <2> QED
    BY <2>1, <2>2, <2>3
<1>5. m \in S
  <2> HIDE DEF S
  <2> QED
    BY <1>1, <1>3, <1>4, NotesFold!SetInduction
<1> QED
  BY <1>1, <1>2, <1>5, NotesAreFolded

-----------------------------------------------------------------------------
(***************************************************************************)
(* Sequences.                                                              *)
(***************************************************************************)
LEMMA SequenceFacts ==
  ASSUME NEW s, IsSequence(s)
  PROVE  /\ Len(s) \in Nat /\ DOMAIN s = 1 .. Len(s)
         /\ \A i \in DOMAIN s : s[i] \in Range(s)
BY LenProperties DEF IsSequence

\* A function on 1 .. n is a sequence.
LEMMA FunctionIsSequence ==
  ASSUME NEW n \in Nat, NEW s, s = [i \in 1 .. n |-> s[i]]
  PROVE  IsSequence(s) /\ Len(s) = n /\ DOMAIN s = 1 .. n
<1>1. s \in [1 .. n -> Range(s)]
  BY DEF Range
<1>2. s \in Seq(Range(s))
  BY <1>1, SeqDef
<1>3. DOMAIN s = 1 .. n /\ DOMAIN s = 1 .. Len(s) /\ Len(s) \in Nat
  BY <1>1, <1>2, LenProperties
<1> QED
  BY <1>2, <1>3 DEF IsSequence

LEMMA EmptyIsSequence == IsSequence(<< >>) /\ Len(<< >>) = 0 /\ DOMAIN << >> = {}
BY DEF IsSequence

\* The first n elements and one more.
LEMMA CutAndAppend ==
  ASSUME NEW s, IsSequence(s), NEW n \in 0 .. Len(s), NEW x
  PROVE  LET below == SubSeq(s, 1, n)
             t     == Append(below, x)
         IN  /\ IsSequence(t) /\ Len(t) = n + 1 /\ DOMAIN t = 1 .. n + 1
             /\ t[n + 1] = x
             /\ \A i \in 1 .. n : t[i] = s[i]
             /\ below = << >> <=> n = 0
             /\ n > 0 => Last(below) = s[n]
<1> DEFINE S == Range(s) \cup {x}  below == SubSeq(s, 1, n)  t == Append(below, x)
<1>1. Len(s) \in Nat /\ n \in Nat /\ \A i \in 1 .. n : s[i] \in S
  BY SequenceFacts
<1>2. /\ below \in Seq(S)
      /\ Len(below) = IF 1 <= n THEN n - 1 + 1 ELSE 0
      /\ \A i \in 1 .. n - 1 + 1 : below[i] = s[1 + i - 1]
  BY <1>1, SubSeqProperties
<1>3. Len(below) = n /\ \A i \in 1 .. n : below[i] = s[i]
  BY <1>1, <1>2
<1>4. below = << >> <=> n = 0
  BY <1>2, <1>3, EmptySeq
<1>5. n > 0 => Last(below) = s[n]
  BY <1>1, <1>3 DEF Last
<1> HIDE DEF below
<1>6. /\ t \in Seq(S) /\ Len(t) = Len(below) + 1 /\ t[Len(below) + 1] = x
      /\ \A i \in 1 .. Len(below) : t[i] = below[i]
  BY <1>2, AppendProperties
<1>7. IsSequence(t) /\ DOMAIN t = 1 .. n + 1 /\ Len(t) = n + 1
  BY <1>1, <1>3, <1>6, SeqOfRange, LenProperties DEF IsSequence
<1> QED
  BY <1>1, <1>3, <1>4, <1>5, <1>6, <1>7 DEF below

-----------------------------------------------------------------------------
(***************************************************************************)
(* What is staged.                                                         *)
(***************************************************************************)
LEMMA RawFacts ==
  ASSUME NEW raw \in Raws
  PROVE  raw.txs \in Seq(Tx) /\ raw.height \in Nat /\ Len(raw.txs) \in Nat
<1>1. CASE raw \in RawBlock
  BY <1>1, DarksideAssumption
<1>2. CASE \E h \in Nat, nonce \in Nonces : raw = synthetic_block(h, nonce)
  BY <1>2 DEF synthetic_block
<1>3. raw.txs \in Seq(Tx) /\ raw.height \in Nat
  BY <1>1, <1>2 DEF Raws
<1> QED
  BY <1>3, LenProperties

\* The root of a staged block tells its transactions.
LEMMA RootTells ==
  ASSUME NEW raw \in Raws, NEW other \in Raws, raw.root = other.root
  PROVE  raw.txs = other.txs
<1> DEFINE Synthetic == {synthetic_block(h, nonce) : h \in Nat, nonce \in Nonces}
<1>1. \A b \in Synthetic : b.root \in Nonces \X Nat /\ b.txs = << >>
  BY DEF synthetic_block
<1>2. raw \in RawBlock \/ raw \in Synthetic
  BY DEF Raws
<1>3. other \in RawBlock \/ other \in Synthetic
  BY DEF Raws
<1> HIDE DEF Synthetic
<1> QED
  BY <1>1, <1>2, <1>3, RootAssumption

\* Two states of a block whose lengths differ, by less than the byte can count.
LEMMA BumpsTell ==
  ASSUME NEW b, NEW c, Grown(b), Grown(c), b.root = c.root,
         Len(b.txs) \in Nat, Len(c.txs) \in Nat,
         Len(c.txs) > Len(b.txs), Len(c.txs) - Len(b.txs) < ByteRange
  PROVE  b.bumps # c.bumps
<1>1. PICK raw \in Raws : /\ raw.root = b.root /\ Len(b.txs) >= Len(raw.txs)
                          /\ b.bumps = (Len(b.txs) - Len(raw.txs)) % ByteRange
  BY DEF Grown
<1>2. PICK other \in Raws : /\ other.root = c.root /\ Len(c.txs) >= Len(other.txs)
                            /\ c.bumps = (Len(c.txs) - Len(other.txs)) % ByteRange
  BY DEF Grown
<1>3. Len(raw.txs) = Len(other.txs) /\ Len(raw.txs) \in Nat
  BY <1>1, <1>2, RootTells, RawFacts
<1>4. \A x, y, r \in Nat : y > x /\ y - x < 256 /\ x >= r => (x - r) % 256 # (y - r) % 256
  OBVIOUS
<1>5. \A x, y, r \in Nat :
        y > x /\ y - x < ByteRange /\ x >= r => (x - r) % ByteRange # (y - r) % ByteRange
  BY <1>4 DEF ByteRange
<1>6. (Len(b.txs) - Len(raw.txs)) % ByteRange # (Len(c.txs) - Len(raw.txs)) % ByteRange
  BY <1>1, <1>3, <1>5
<1> QED
  BY <1>1, <1>2, <1>3, <1>6

-----------------------------------------------------------------------------
(***************************************************************************)
(* The first pass: the staged blocks.                                      *)
(***************************************************************************)
IsPass(pass) ==
  /\ pass = [active |-> pass.active, ok |-> pass.ok]
  /\ pass.ok \in BOOLEAN
  /\ Kept(pass.active)

\* A staged block is appended or takes the place of those from its height up.
LEMMA AddedKept ==
  ASSUME Staged, NEW a, Kept(a), NEW raw \in Raws, raw.height >= meta.start,
         Offset(raw.height) <= Len(a)
  PROVE  LET below == SubSeq(a, 1, Offset(raw.height))
             base  == IF below = << >> THEN meta.size ELSE Last(below).size
         IN  Kept(Append(below, [root |-> raw.root, prev |-> << >>, bumps |-> 0,
                                 txs |-> raw.txs, size |-> base + NotesIn(raw.txs)]))
<1> DEFINE n     == Offset(raw.height)
           below == SubSeq(a, 1, n)
           base  == IF below = << >> THEN meta.size ELSE Last(below).size
           b     == [root |-> raw.root, prev |-> << >>, bumps |-> 0,
                     txs |-> raw.txs, size |-> base + NotesIn(raw.txs)]
           t     == Append(below, b)
<1>0. raw.txs \in Seq(Tx) /\ raw.height \in Nat /\ Len(raw.txs) \in Nat /\ NotesIn(raw.txs) \in Nat
  BY RawFacts, NotesAreNat
<1>1. IsSequence(a) /\ Len(a) \in Nat /\ DOMAIN a = 1 .. Len(a) /\ n \in 0 .. Len(a)
  <2>1. meta.start \in Nat
    BY DEF Staged
  <2> QED
    BY <1>0, <2>1, SequenceFacts DEF Kept, Offset
<1> HIDE DEF n
<1>2. /\ IsSequence(t) /\ DOMAIN t = 1 .. n + 1 /\ t[n + 1] = b
      /\ \A i \in 1 .. n : t[i] = a[i]
      /\ below = << >> <=> n = 0
      /\ n > 0 => Last(below) = a[n]
  BY <1>1, CutAndAppend
<1>3. base = (IF n = 0 THEN meta.size ELSE a[n].size) /\ base \in Nat
  BY <1>1, <1>2 DEF Kept, IsBlock, Staged
<1> HIDE DEF below, base
<1>4. IsBlock(b)
  <2>1. b = [f \in {"root", "prev", "bumps", "txs", "size"} |-> b[f]]
    OBVIOUS
  <2>2. b.txs = raw.txs /\ b.root = raw.root /\ b.bumps = 0 /\ b.size = base + NotesIn(raw.txs)
    OBVIOUS
  <2> HIDE DEF b
  <2>3. (Len(raw.txs) - Len(raw.txs)) % ByteRange = 0 /\ Len(b.txs) >= Len(raw.txs)
    BY <1>0, <2>2 DEF ByteRange
  <2>4. Grown(b)
    BY <2>2, <2>3 DEF Grown
  <2> QED
    BY <1>0, <1>3, <2>1, <2>2, <2>4 DEF IsBlock
<1>5. b.prev = << >> /\ b.size = base + NotesIn(b.txs)
  OBVIOUS
<1> HIDE DEF t, b
<1>6. \A i \in DOMAIN t : IsBlock(t[i])
  BY <1>1, <1>2, <1>4 DEF Kept
<1>7. SizesAddUp(t)
  <2> SUFFICES ASSUME NEW i \in DOMAIN t
               PROVE  t[i].size = NotesIn(t[i].txs) + IF i = 1 THEN meta.size ELSE t[i - 1].size
    BY DEF SizesAddUp
  <2>1. CASE i <= n
    <3>1. i \in DOMAIN a /\ t[i] = a[i] /\ (i # 1 => t[i - 1] = a[i - 1])
      BY <1>1, <1>2, <2>1
    <3> QED
      BY <3>1 DEF Kept, SizesAddUp
  <2>2. CASE i = n + 1
    <3>1. i # 1 => n # 0 /\ t[i - 1] = a[n]
      BY <1>1, <1>2, <2>2
    <3>2. i = 1 => n = 0
      BY <1>1, <2>2
    <3>3. b.size = NotesIn(b.txs) + base
      <4>1. NotesIn(b.txs) \in Nat
        BY <1>4, NotesAreNat DEF IsBlock
      <4> QED
        BY <1>3, <1>5, <4>1
    <3> QED
      BY <1>2, <1>3, <2>2, <3>1, <3>2, <3>3
  <2> QED
    BY <1>1, <1>2, <2>1, <2>2
<1>8. LinkedOnce(t)
  <2> SUFFICES ASSUME NEW j \in DOMAIN t
               PROVE  IF j = 1 THEN t[j].prev = << >>
                      ELSE t[j].prev # << >> => \E old : Remembers(old, t, j)
    BY DEF LinkedOnce
  <2>1. CASE j = n + 1
    BY <1>2, <1>5, <2>1
  <2>2. CASE j <= n
    <3>1. j \in DOMAIN a /\ t[j] = a[j] /\ \A k \in 1 .. j - 1 : t[k] = a[k]
      BY <1>1, <1>2, <2>2
    <3>2. IF j = 1 THEN a[j].prev = << >>
          ELSE a[j].prev # << >> => \E old : Remembers(old, a, j)
      BY <3>1 DEF Kept, LinkedOnce
    <3>3. \A old : Remembers(old, a, j) => Remembers(old, t, j)
      BY <3>1 DEF Remembers
    <3> QED
      BY <3>1, <3>2, <3>3
  <2> QED
    BY <1>1, <1>2, <2>1, <2>2
<1>9. Kept(t)
  BY <1>2, <1>6, <1>7, <1>8 DEF Kept
<1> QED
  BY <1>9 DEF t, b, base, below, n

LEMMA AddKeepsPass ==
  ASSUME Staged, NEW pass, IsPass(pass), NEW raw \in Raws, raw.height >= meta.start
  PROVE  IsPass(add_block_active(pass, raw))
<1> DEFINE below == SubSeq(pass.active, 1, Offset(raw.height))
           base  == IF below = << >> THEN meta.size ELSE Last(below).size
           new   == Append(below, [root |-> raw.root, prev |-> << >>, bumps |-> 0,
                                   txs |-> raw.txs, size |-> base + NotesIn(raw.txs)])
<1>1. CASE ~pass.ok \/ Offset(raw.height) > Len(pass.active)
  <2>1. add_block_active(pass, raw) = [pass EXCEPT !.ok = FALSE]
    BY <1>1 DEF add_block_active
  <2> QED
    BY <2>1 DEF IsPass
<1>2. CASE ~(~pass.ok \/ Offset(raw.height) > Len(pass.active))
  <2>1. add_block_active(pass, raw) = [pass EXCEPT !.active = new]
    BY <1>2 DEF add_block_active
  <2>2. Offset(raw.height) <= Len(pass.active)
    <3>1. raw.height \in Nat /\ meta.start \in Nat /\ Len(pass.active) \in Nat
      BY RawFacts, SequenceFacts DEF Staged, IsPass, Kept
    <3> QED
      BY <1>2, <3>1 DEF Offset
  <2>3. Kept(new)
    BY <2>2, AddedKept DEF IsPass
  <2> HIDE DEF new
  <2> QED
    BY <2>1, <2>3 DEF IsPass
<1> QED
  BY <1>1, <1>2

BlockFold == INSTANCE FoldFacts WITH Op <- add_block_active

LEMMA MergedPass ==
  ASSUME Staged, Kept(active)
  PROVE  IsPass(apply_staged_blocks)
<1> DEFINE start == [active |-> active, ok |-> TRUE]
           m     == Len(staged_blocks)
<1>1. m \in Nat /\ DOMAIN staged_blocks = 1 .. m
  BY LenProperties DEF Staged
<1>2. apply_staged_blocks = BlockFold!Folded(start, staged_blocks)
  BY DEF apply_staged_blocks, FoldLeft, MapThenFoldSet, Max,
         BlockFold!Folded, BlockFold!Iterates, BlockFold!Greatest
<1>3. IsPass(start)
  BY DEF IsPass
<1> HIDE DEF start, m
<1>4. PICK run : BlockFold!Run(run, start, staged_blocks, m)
                   /\ run[m] = BlockFold!Folded(start, staged_blocks)
  BY <1>1, BlockFold!FoldRuns
<1> DEFINE S == {i \in Nat : i <= m => IsPass(run[i])}
<1>5. 0 \in S
  BY <1>3, <1>4 DEF BlockFold!Run
<1>6. ASSUME NEW i \in Nat, i \in S PROVE i + 1 \in S
  <2> SUFFICES ASSUME i + 1 <= m PROVE IsPass(run[i + 1])
    OBVIOUS
  <2>1. i + 1 \in 1 .. m /\ (i + 1) - 1 = i /\ IsPass(run[i])
    BY <1>1, <1>6
  <2>2. run[i + 1] = add_block_active(run[i], staged_blocks[i + 1])
    BY <1>4, <2>1 DEF BlockFold!Run
  <2>3. staged_blocks[i + 1] \in Raws /\ staged_blocks[i + 1].height >= meta.start
    BY <1>1, <2>1, LenProperties DEF Staged
  <2> QED
    BY <2>1, <2>2, <2>3, AddKeepsPass
<1>7. m \in S
  <2> HIDE DEF S
  <2> QED
    BY <1>1, <1>5, <1>6, BlockFold!SetInduction
<1> QED
  BY <1>1, <1>2, <1>4, <1>7

-----------------------------------------------------------------------------
(***************************************************************************)
(* The second pass: the staged transactions.                               *)
(***************************************************************************)

\* What mining tx into block i of a leaves there, field by field.
Mined(a, i, tx) ==
  [[j \in DOMAIN a |-> IF j < i THEN a[j] ELSE [a[j] EXCEPT !.size = @ + Notes[tx]]]
     EXCEPT ![i].txs = Append(@, tx), ![i].bumps = (@ + 1) % ByteRange]

LEMMA MinedFields ==
  ASSUME NEW a, Kept(a), NEW i \in DOMAIN a, NEW tx \in Tx
  PROVE  LET c == Mined(a, i, tx)
         IN  /\ IsSequence(c) /\ DOMAIN c = DOMAIN a
             /\ \A j \in DOMAIN a :
                  /\ c[j] = [f \in {"root", "prev", "bumps", "txs", "size"} |-> c[j][f]]
                  /\ c[j].root = a[j].root /\ c[j].prev = a[j].prev
                  /\ c[j].txs = IF j = i THEN Append(a[j].txs, tx) ELSE a[j].txs
                  /\ c[j].bumps = IF j = i THEN (a[j].bumps + 1) % ByteRange ELSE a[j].bumps
                  /\ c[j].size = IF j < i THEN a[j].size ELSE a[j].size + Notes[tx]
<1> DEFINE c == Mined(a, i, tx)
<1>1. Len(a) \in Nat /\ DOMAIN a = 1 .. Len(a)
  BY SequenceFacts DEF Kept
<1>2. DOMAIN c = DOMAIN a /\ c = [j \in DOMAIN a |-> c[j]]
  BY DEF Mined
<1>3. IsSequence(c)
  <2> HIDE DEF c
  <2> QED
    BY <1>1, <1>2, FunctionIsSequence
<1>4. ASSUME NEW j \in DOMAIN a
      PROVE  /\ c[j] = [f \in {"root", "prev", "bumps", "txs", "size"} |-> c[j][f]]
             /\ c[j].root = a[j].root /\ c[j].prev = a[j].prev
             /\ c[j].txs = IF j = i THEN Append(a[j].txs, tx) ELSE a[j].txs
             /\ c[j].bumps = IF j = i THEN (a[j].bumps + 1) % ByteRange ELSE a[j].bumps
             /\ c[j].size = IF j < i THEN a[j].size ELSE a[j].size + Notes[tx]
  <2>1. a[j] = [f \in {"root", "prev", "bumps", "txs", "size"} |-> a[j][f]]
    BY DEF Kept, IsBlock
  <2>2. CASE j = i
    <3>1. ~(i < i)
      BY <1>1
    <3>2. c[j] = [[a[j] EXCEPT !.size = @ + Notes[tx]]
                    EXCEPT !.txs = Append(@, tx), !.bumps = (@ + 1) % ByteRange]
      BY <2>2, <3>1 DEF Mined
    <3> QED
      BY <2>1, <2>2, <3>1, <3>2
  <2>3. CASE j # i /\ j < i
    <3>1. c[j] = a[j]
      BY <2>3 DEF Mined
    <3> QED
      BY <2>1, <2>3, <3>1
  <2>4. CASE j # i /\ ~(j < i)
    <3>1. c[j] = [a[j] EXCEPT !.size = @ + Notes[tx]]
      BY <2>4 DEF Mined
    <3> QED
      BY <2>1, <2>4, <3>1
  <2> QED
    BY <2>2, <2>3, <2>4
<1> QED
  BY <1>2, <1>3, <1>4

LEMMA MinedKept ==
  ASSUME meta.size \in Nat, NEW a, Kept(a), NEW i \in DOMAIN a, NEW tx \in Tx
  PROVE  Kept(Mined(a, i, tx))
<1> DEFINE c == Mined(a, i, tx)
<1>1. Len(a) \in Nat /\ DOMAIN a = 1 .. Len(a)
  BY SequenceFacts DEF Kept
<1>2. /\ IsSequence(c) /\ DOMAIN c = DOMAIN a
      /\ \A j \in DOMAIN a :
           /\ c[j] = [f \in {"root", "prev", "bumps", "txs", "size"} |-> c[j][f]]
           /\ c[j].root = a[j].root /\ c[j].prev = a[j].prev
           /\ c[j].txs = IF j = i THEN Append(a[j].txs, tx) ELSE a[j].txs
           /\ c[j].bumps = IF j = i THEN (a[j].bumps + 1) % ByteRange ELSE a[j].bumps
           /\ c[j].size = IF j < i THEN a[j].size ELSE a[j].size + Notes[tx]
  BY MinedFields
<1> HIDE DEF c
<1>3. Notes[tx] \in Nat
  BY DarksideAssumption
<1>4. \A j \in DOMAIN a : IsBlock(a[j]) /\ a[j].txs \in Seq(Tx) /\ a[j].size \in Nat /\ Grown(a[j])
  BY DEF Kept, IsBlock
<1>5. \A j \in DOMAIN a : /\ c[j].txs \in Seq(Tx) /\ c[j].size \in Nat
                          /\ Len(c[j].txs) \in Nat /\ Len(a[j].txs) \in Nat
                          /\ Len(c[j].txs) = Len(a[j].txs) + IF j = i THEN 1 ELSE 0
  <2> SUFFICES ASSUME NEW j \in DOMAIN a
               PROVE  /\ c[j].txs \in Seq(Tx) /\ c[j].size \in Nat
                      /\ Len(c[j].txs) \in Nat /\ Len(a[j].txs) \in Nat
                      /\ Len(c[j].txs) = Len(a[j].txs) + IF j = i THEN 1 ELSE 0
    OBVIOUS
  <2>1. a[j].txs \in Seq(Tx) /\ Len(a[j].txs) \in Nat
    BY <1>4, LenProperties
  <2>2. /\ Append(a[j].txs, tx) \in Seq(Tx)
        /\ Len(Append(a[j].txs, tx)) = Len(a[j].txs) + 1
    BY <2>1, AppendProperties
  <2>3. c[j].size \in Nat
    BY <1>2, <1>3, <1>4
  <2>4. CASE j = i
    <3>1. c[j].txs = Append(a[j].txs, tx)
      BY <1>2, <2>4
    <3> QED
      BY <2>1, <2>2, <2>3, <2>4, <3>1
  <2>5. CASE j # i
    <3>1. c[j].txs = a[j].txs
      BY <1>2, <2>5
    <3> QED
      BY <2>1, <2>3, <2>5, <3>1
  <2> QED
    BY <2>4, <2>5
<1>6. \A j \in DOMAIN c : IsBlock(c[j])
  <2> SUFFICES ASSUME NEW j \in DOMAIN a PROVE Grown(c[j])
    BY <1>2, <1>5 DEF IsBlock
  <2>1. PICK raw \in Raws : /\ raw.root = a[j].root /\ Len(a[j].txs) >= Len(raw.txs)
                            /\ a[j].bumps = (Len(a[j].txs) - Len(raw.txs)) % ByteRange
    BY <1>4 DEF Grown
  <2>2. Len(raw.txs) \in Nat
    BY RawFacts
  <2>3. CASE j # i
    BY <1>2, <2>1, <2>3 DEF Grown
  <2>4. CASE j = i
    <3>1. \A x, r \in Nat : x >= r => (((x - r) % 256) + 1) % 256 = ((x + 1) - r) % 256
      OBVIOUS
    <3>2. \A x, r \in Nat : x >= r =>
            (((x - r) % ByteRange) + 1) % ByteRange = ((x + 1) - r) % ByteRange
      BY <3>1 DEF ByteRange
    <3>0. Len(c[j].txs) = Len(a[j].txs) + 1 /\ Len(a[j].txs) \in Nat
      BY <1>5, <2>4
    <3>3. c[j].bumps = (Len(c[j].txs) - Len(raw.txs)) % ByteRange
      <4>1. c[j].bumps = (((Len(a[j].txs) - Len(raw.txs)) % ByteRange) + 1) % ByteRange
        BY <1>2, <2>1, <2>4
      <4>2. c[j].bumps = ((Len(a[j].txs) + 1) - Len(raw.txs)) % ByteRange
        BY <2>1, <2>2, <3>0, <3>2, <4>1
      <4> QED
        BY <3>0, <4>2
    <3>4. Len(c[j].txs) >= Len(raw.txs)
      BY <2>1, <2>2, <3>0
    <3> QED
      BY <1>2, <2>1, <3>3, <3>4 DEF Grown
  <2> QED
    BY <2>3, <2>4
<1>7. SizesAddUp(c)
  <2> SUFFICES ASSUME NEW j \in DOMAIN a
               PROVE  c[j].size = NotesIn(c[j].txs) + IF j = 1 THEN meta.size ELSE c[j - 1].size
    BY <1>2 DEF SizesAddUp
  <2> DEFINE under == IF j = 1 THEN meta.size ELSE a[j - 1].size
             below == IF j = 1 THEN meta.size ELSE c[j - 1].size
  <2>1. a[j].size = NotesIn(a[j].txs) + under
    BY DEF Kept, SizesAddUp
  <2>2. NotesIn(a[j].txs) \in Nat /\ a[j].size \in Nat
    BY <1>4, NotesAreNat
  <2>3. j # 1 => /\ j - 1 \in DOMAIN a /\ a[j - 1].size \in Nat
                 /\ c[j - 1].size = IF j - 1 < i THEN a[j - 1].size ELSE a[j - 1].size + Notes[tx]
    BY <1>1, <1>2, <1>4
  <2>4. CASE j < i
    <3>1. c[j].size = a[j].size /\ c[j].txs = a[j].txs /\ below = under
      BY <1>1, <1>2, <2>3, <2>4
    <3> QED
      BY <2>1, <3>1
  <2>5. CASE j = i
    <3>0. ~(j < i)
      BY <1>1, <2>5
    <3>1. c[j].size = a[j].size + Notes[tx] /\ c[j].txs = Append(a[j].txs, tx)
      BY <1>2, <2>5, <3>0
    <3>2. below = under
      BY <1>1, <2>3, <2>5
    <3>3. NotesIn(c[j].txs) = NotesIn(a[j].txs) + Notes[tx]
      BY <1>4, <3>1, NotesOfAppend
    <3>4. CASE j = 1
      <4>1. a[j].size = NotesIn(a[j].txs) + meta.size
        BY <2>1, <3>4
      <4>2. c[j].size = (NotesIn(a[j].txs) + meta.size) + Notes[tx]
        BY <3>1, <4>1
      <4> QED
        BY <1>3, <2>2, <3>2, <3>3, <3>4, <4>1, <4>2
    <3>5. CASE j # 1
      BY <1>3, <2>1, <2>2, <2>3, <3>1, <3>2, <3>3, <3>5
    <3> QED
      BY <3>4, <3>5
  <2>6. CASE j > i
    <3>1. c[j].size = a[j].size + Notes[tx] /\ c[j].txs = a[j].txs
          /\ j # 1 /\ below = a[j - 1].size + Notes[tx] /\ under = a[j - 1].size
      BY <1>1, <1>2, <2>3, <2>6
    <3> QED
      BY <1>3, <2>1, <2>2, <2>3, <3>1
  <2> QED
    BY <1>1, <2>4, <2>5, <2>6
<1>8. LinkedOnce(c)
  <2> SUFFICES ASSUME NEW j \in DOMAIN a
               PROVE  IF j = 1 THEN c[j].prev = << >>
                      ELSE c[j].prev # << >> => \E old : Remembers(old, c, j)
    BY <1>2 DEF LinkedOnce
  <2>1. IF j = 1 THEN a[j].prev = << >>
        ELSE a[j].prev # << >> => \E old : Remembers(old, a, j)
    BY DEF Kept, LinkedOnce
  <2>2. \A k \in 1 .. j - 1 : k \in DOMAIN a
    BY <1>1
  <2>3. \A old : Remembers(old, a, j) => Remembers(old, c, j)
    <3> SUFFICES ASSUME NEW old, Remembers(old, a, j) PROVE Remembers(old, c, j)
      OBVIOUS
    <3>1. ASSUME NEW k \in 1 .. j - 1
          PROVE  /\ Grown(old[k]) /\ old[k].root = c[k].root
                 /\ old[k].txs \in Seq(Tx) /\ Len(old[k].txs) <= Len(c[k].txs)
      <4>1. /\ Grown(old[k]) /\ old[k].root = a[k].root
            /\ old[k].txs \in Seq(Tx) /\ Len(old[k].txs) <= Len(a[k].txs)
        BY DEF Remembers
      <4>2. Len(old[k].txs) \in Nat
        BY <4>1, LenProperties
      <4>3. k \in DOMAIN a /\ c[k].root = a[k].root
        BY <1>2, <2>2
      <4>4. Len(c[k].txs) \in Nat /\ Len(a[k].txs) \in Nat /\ Len(c[k].txs) >= Len(a[k].txs)
        <5>1. Len(c[k].txs) \in Nat /\ Len(a[k].txs) \in Nat
          BY <1>5, <4>3
        <5>2. CASE k = i
          <6>1. Len(c[k].txs) = Len(a[k].txs) + 1
            BY <1>5, <4>3, <5>2
          <6> QED
            BY <5>1, <6>1
        <5>3. CASE k # i
          <6>1. c[k].txs = a[k].txs
            BY <1>2, <4>3, <5>3
          <6> QED
            BY <5>1, <6>1
        <5> QED
          BY <5>2, <5>3
      <4> QED
        BY <4>1, <4>2, <4>3, <4>4
    <3>2. c[j].prev = Hash(old[j - 1]) /\ \A k \in 2 .. j - 1 : old[k].prev = Hash(old[k - 1])
      BY <1>2 DEF Remembers
    <3> QED
      BY <3>1, <3>2 DEF Remembers
  <2> QED
    BY <1>2, <2>1, <2>3
<1> QED
  BY <1>2, <1>6, <1>7, <1>8 DEF Kept, c

\* The k-th staged transaction is in the block at its height.
InPlace(a, k) ==
  LET i == Offset(staged_txs[k].height) + 1
  IN  i \in DOMAIN a /\ staged_txs[k].tx \in ToSet(a[i].txs)

LEMMA ToSetOfAppend ==
  ASSUME NEW txs \in Seq(Tx), NEW tx \in Tx
  PROVE  ToSet(txs) \subseteq ToSet(Append(txs, tx)) /\ tx \in ToSet(Append(txs, tx))
<1> DEFINE n == Len(txs)  t == Append(txs, tx)
<1>1. n \in Nat /\ DOMAIN txs = 1 .. n
  BY LenProperties
<1>2. DOMAIN t = 1 .. n + 1 /\ t[n + 1] = tx /\ \A i \in 1 .. n : t[i] = txs[i]
  BY AppendProperties, LenProperties
<1> HIDE DEF n, t
<1>3. n + 1 \in DOMAIN t /\ \A i \in DOMAIN txs : i \in DOMAIN t
  BY <1>1, <1>2
<1> QED
  BY <1>1, <1>2, <1>3 DEF ToSet, t

\* A transaction is mined where its height says, and none mined before is lost.
LEMMA MineKeepsPass ==
  ASSUME Staged, NEW pass, IsPass(pass), NEW n \in DOMAIN staged_txs
  PROVE  LET q == mine(pass, staged_txs[n])
         IN  /\ IsPass(q)
             /\ q.ok => /\ pass.ok /\ InPlace(q.active, n)
                        /\ \A k \in DOMAIN staged_txs : InPlace(pass.active, k) => InPlace(q.active, k)
<1> DEFINE tx == staged_txs[n].tx
           i  == Offset(staged_txs[n].height) + 1
           a  == pass.active
           c  == Mined(a, i, tx)
           q  == mine(pass, staged_txs[n])
<1>1. tx \in Tx /\ meta.size \in Nat
  <2>1. staged_txs \in Seq(StagedTx) /\ meta.size \in Nat
    BY DEF Staged
  <2>2. n \in 1 .. Len(staged_txs)
    BY <2>1, LenProperties
  <2>3. staged_txs[n] \in StagedTx
    BY <2>1, <2>2, ElementOfSeq
  <2> QED
    BY <2>1, <2>3 DEF StagedTx
<1>2. CASE ~pass.ok \/ i \notin DOMAIN a
  <2>1. q = [pass EXCEPT !.ok = FALSE]
    BY <1>2 DEF mine
  <2>2. IsPass(q) /\ q.ok = FALSE
    BY <2>1 DEF IsPass
  <2> HIDE DEF q
  <2> QED
    BY <2>2 DEF q
<1>3. CASE pass.ok /\ i \in DOMAIN a
  <2>1. q = [pass EXCEPT !.active = c]
    BY <1>3 DEF mine, Mined
  <2>2. Kept(a)
    BY DEF IsPass
  <2>3. Kept(c)
    BY <1>1, <1>3, <2>2, MinedKept
  <2>4. /\ DOMAIN c = DOMAIN a
        /\ \A j \in DOMAIN a : c[j].txs = IF j = i THEN Append(a[j].txs, tx) ELSE a[j].txs
    <3>1. i \in DOMAIN a /\ tx \in Tx /\ Kept(a)
      BY <1>1, <1>3, <2>2
    <3> HIDE DEF i, a, tx
    <3>2. /\ IsSequence(c) /\ DOMAIN c = DOMAIN a
          /\ \A j \in DOMAIN a :
               /\ c[j] = [f \in {"root", "prev", "bumps", "txs", "size"} |-> c[j][f]]
               /\ c[j].root = a[j].root /\ c[j].prev = a[j].prev
               /\ c[j].txs = IF j = i THEN Append(a[j].txs, tx) ELSE a[j].txs
               /\ c[j].bumps = IF j = i THEN (a[j].bumps + 1) % ByteRange ELSE a[j].bumps
               /\ c[j].size = IF j < i THEN a[j].size ELSE a[j].size + Notes[tx]
      BY <3>1, MinedFields
    <3> HIDE DEF c
    <3> QED
      BY <3>2
  <2> HIDE DEF c
  <2>5. IsPass(q) /\ q.active = c
    BY <1>3, <2>1, <2>3 DEF IsPass
  <2>6. \A j \in DOMAIN a : a[j].txs \in Seq(Tx)
    BY <2>2 DEF Kept, IsBlock
  <2>7. \A j \in DOMAIN a : ToSet(a[j].txs) \subseteq ToSet(c[j].txs)
    BY <1>1, <2>4, <2>6, ToSetOfAppend
  <2>8. tx \in ToSet(c[i].txs)
    BY <1>1, <1>3, <2>4, <2>6, ToSetOfAppend
  <2>9. InPlace(c, n)
    BY <1>3, <2>4, <2>8 DEF InPlace
  <2>10. \A k \in DOMAIN staged_txs : InPlace(a, k) => InPlace(c, k)
    BY <2>4, <2>7 DEF InPlace
  <2> HIDE DEF q, a
  <2> QED
    BY <1>3, <2>5, <2>9, <2>10 DEF q, a
<1> QED
  BY <1>2, <1>3

MineFold == INSTANCE FoldFacts WITH Op <- mine

LEMMA MinedPass ==
  ASSUME Staged, NEW blocks, Kept(blocks)
  PROVE  LET q == mine_staged_transactions(blocks)
         IN  IsPass(q) /\ (q.ok => \A k \in DOMAIN staged_txs : InPlace(q.active, k))
<1> DEFINE start == [active |-> blocks, ok |-> TRUE]
           m     == Len(staged_txs)
           q     == mine_staged_transactions(blocks)
<1>1. m \in Nat /\ DOMAIN staged_txs = 1 .. m
  BY LenProperties DEF Staged
<1>2. q = MineFold!Folded(start, staged_txs)
  BY DEF mine_staged_transactions, FoldLeft, MapThenFoldSet, Max,
         MineFold!Folded, MineFold!Iterates, MineFold!Greatest
<1>3. IsPass(start)
  BY DEF IsPass
<1> HIDE DEF start, m, q
<1>4. PICK run : MineFold!Run(run, start, staged_txs, m)
                   /\ run[m] = MineFold!Folded(start, staged_txs)
  BY <1>1, MineFold!FoldRuns
<1> DEFINE Through(i) == IsPass(run[i]) /\ (run[i].ok => \A k \in 1 .. i : InPlace(run[i].active, k))
           S == {i \in Nat : i <= m => Through(i)}
<1>5. 0 \in S
  BY <1>3, <1>4 DEF MineFold!Run
<1>6. ASSUME NEW i \in Nat, i \in S PROVE i + 1 \in S
  <2> SUFFICES ASSUME i + 1 <= m PROVE Through(i + 1)
    OBVIOUS
  <2>1. i + 1 \in 1 .. m /\ (i + 1) - 1 = i /\ Through(i)
    BY <1>1, <1>6
  <2>2. run[i + 1] = mine(run[i], staged_txs[i + 1])
    BY <1>4, <2>1 DEF MineFold!Run
  <2>3. /\ IsPass(run[i + 1])
        /\ run[i + 1].ok => /\ run[i].ok /\ InPlace(run[i + 1].active, i + 1)
                            /\ \A k \in DOMAIN staged_txs :
                                 InPlace(run[i].active, k) => InPlace(run[i + 1].active, k)
    BY <1>1, <2>1, <2>2, MineKeepsPass
  <2>4. \A k \in 1 .. i + 1 : k \in DOMAIN staged_txs /\ (k \in 1 .. i \/ k = i + 1)
    BY <1>1, <2>1
  <2> QED
    BY <2>1, <2>3, <2>4
<1>7. m \in S
  <2> HIDE DEF S
  <2> QED
    BY <1>1, <1>5, <1>6, MineFold!SetInduction
<1> QED
  BY <1>1, <1>2, <1>4, <1>7 DEF q

-----------------------------------------------------------------------------
(***************************************************************************)
(* The third pass: the previous hashes.                                    *)
(***************************************************************************)
Relinks(g, a) ==
  g = [i \in DOMAIN a |-> IF i = 1 THEN a[1] ELSE [a[i] EXCEPT !.prev = Hash(g[i - 1])]]

LEMMA RelinkedExists ==
  ASSUME NEW a, NEW m \in Nat, DOMAIN a = 1 .. m
  PROVE  \E g : Relinks(g, a)
<1> DEFINE step(g, i) == IF i = 1 THEN a[1] ELSE [a[i] EXCEPT !.prev = Hash(g[i - 1])]
           Upto(g, n) == g = [i \in 1 .. n |-> step(g, i)]
           S == {n \in Nat : \E g : Upto(g, n)}
<1>1. 0 \in S
  <2>1. Upto([i \in 1 .. 0 |-> i], 0)
    OBVIOUS
  <2> QED
    BY <2>1
<1>2. ASSUME NEW n \in Nat, n \in S PROVE n + 1 \in S
  <2>1. PICK g : Upto(g, n)
    BY <1>2
  <2> DEFINE h == [i \in 1 .. n + 1 |-> IF i = n + 1 THEN step(g, i) ELSE g[i]]
  <2>2. ASSUME NEW i \in 1 .. n + 1 PROVE h[i] = step(h, i)
    <3>1. CASE i = n + 1
      <4>1. h[i] = step(g, i)
        BY <3>1
      <4>2. i # 1 => i - 1 \in 1 .. n + 1 /\ i - 1 # n + 1
        BY <3>1
      <4>3. i # 1 => h[i - 1] = g[i - 1]
        BY <4>2
      <4> HIDE DEF h
      <4> QED
        BY <4>1, <4>3
    <3>2. CASE i # n + 1
      <4>1. i \in 1 .. n
        BY <3>2
      <4>2. h[i] = g[i]
        BY <3>2
      <4>3. g[i] = step(g, i)
        BY <2>1, <4>1
      <4>4. i # 1 => i - 1 \in 1 .. n + 1 /\ i - 1 # n + 1
        BY <4>1
      <4>5. i # 1 => h[i - 1] = g[i - 1]
        BY <4>4
      <4> HIDE DEF h
      <4> QED
        BY <4>2, <4>3, <4>5
    <3> QED
      BY <3>1, <3>2
  <2>3. h = [i \in 1 .. n + 1 |-> h[i]]
    OBVIOUS
  <2> HIDE DEF h
  <2>4. Upto(h, n + 1)
    <3> HIDE DEF step
    <3>1. [i \in 1 .. n + 1 |-> h[i]] = [i \in 1 .. n + 1 |-> step(h, i)]
      BY <2>2
    <3> QED
      BY <2>3, <3>1
  <2> QED
    BY <2>4
<1>3. m \in S
  <2> HIDE DEF S
  <2> QED
    BY <1>1, <1>2, NotesFold!SetInduction
<1>4. PICK g : Upto(g, m)
  BY <1>3
<1> QED
  BY <1>4 DEF Relinks

\* Every block but the first takes the hash of the one before it, and nothing else.
LEMMA RelinkedFields ==
  ASSUME NEW a, Kept(a)
  PROVE  LET g == set_prevhash(a)
         IN  /\ IsSequence(g) /\ DOMAIN g = DOMAIN a /\ Len(g) = Len(a)
             /\ \A i \in DOMAIN a :
                  /\ g[i] = [f \in {"root", "prev", "bumps", "txs", "size"} |-> g[i][f]]
                  /\ g[i].root = a[i].root /\ g[i].bumps = a[i].bumps
                  /\ g[i].txs = a[i].txs /\ g[i].size = a[i].size
                  /\ g[i].prev = IF i = 1 THEN << >> ELSE Hash(g[i - 1])
<1> DEFINE g == set_prevhash(a)
<1>1. Len(a) \in Nat /\ DOMAIN a = 1 .. Len(a)
  BY SequenceFacts DEF Kept
<1>2. Relinks(g, a)
  <2>1. \E h : Relinks(h, a)
    BY <1>1, RelinkedExists
  <2>2. g = CHOOSE h : Relinks(h, a)
    BY DEF set_prevhash, Relinks
  <2> QED
    BY <2>1, <2>2
<1> HIDE DEF g
<1>3. g = [i \in DOMAIN a |-> g[i]]
  BY <1>2 DEF Relinks
<1>4. IsSequence(g) /\ DOMAIN g = DOMAIN a /\ Len(g) = Len(a)
  BY <1>1, <1>3, FunctionIsSequence
<1>5. ASSUME NEW i \in DOMAIN a
      PROVE  /\ g[i] = [f \in {"root", "prev", "bumps", "txs", "size"} |-> g[i][f]]
             /\ g[i].root = a[i].root /\ g[i].bumps = a[i].bumps
             /\ g[i].txs = a[i].txs /\ g[i].size = a[i].size
             /\ g[i].prev = IF i = 1 THEN << >> ELSE Hash(g[i - 1])
  <2>1. a[i] = [f \in {"root", "prev", "bumps", "txs", "size"} |-> a[i][f]]
    BY DEF Kept, IsBlock
  <2>2. CASE i = 1
    <3>1. g[i] = a[i] /\ a[i].prev = << >>
      BY <1>2, <2>2 DEF Relinks, Kept, LinkedOnce
    <3> QED
      BY <2>1, <2>2, <3>1
  <2>3. CASE i # 1
    <3>1. g[i] = [a[i] EXCEPT !.prev = Hash(g[i - 1])]
      BY <1>2, <2>3 DEF Relinks
    <3> QED
      BY <2>1, <2>3, <3>1
  <2> QED
    BY <2>2, <2>3
<1> QED
  BY <1>4, <1>5 DEF g

LEMMA RelinkedKept ==
  ASSUME NEW a, Kept(a)
  PROVE  Kept(set_prevhash(a)) /\ Linked(set_prevhash(a))
<1> DEFINE g == set_prevhash(a)
<1>1. /\ IsSequence(g) /\ DOMAIN g = DOMAIN a /\ Len(g) = Len(a)
      /\ \A i \in DOMAIN a :
           /\ g[i] = [f \in {"root", "prev", "bumps", "txs", "size"} |-> g[i][f]]
           /\ g[i].root = a[i].root /\ g[i].bumps = a[i].bumps
           /\ g[i].txs = a[i].txs /\ g[i].size = a[i].size
           /\ g[i].prev = IF i = 1 THEN << >> ELSE Hash(g[i - 1])
  BY RelinkedFields
<1> HIDE DEF g
<1>2. Len(a) \in Nat /\ DOMAIN a = 1 .. Len(a)
  BY SequenceFacts DEF Kept
<1>3. \A i \in DOMAIN a : a[i].txs \in Seq(Tx) /\ a[i].size \in Nat /\ Grown(a[i])
  BY DEF Kept, IsBlock
<1>4. \A i \in DOMAIN a : Grown(g[i])
  <2> SUFFICES ASSUME NEW i \in DOMAIN a PROVE Grown(g[i])
    OBVIOUS
  <2>1. g[i].root = a[i].root /\ g[i].bumps = a[i].bumps /\ g[i].txs = a[i].txs
    BY <1>1
  <2>2. Grown(a[i])
    BY <1>3
  <2> QED
    BY <2>1, <2>2 DEF Grown
<1>5. \A i \in DOMAIN g : IsBlock(g[i])
  BY <1>1, <1>3, <1>4 DEF IsBlock
<1>6. SizesAddUp(g)
  <2> SUFFICES ASSUME NEW i \in DOMAIN a
               PROVE  g[i].size = NotesIn(g[i].txs) + IF i = 1 THEN meta.size ELSE g[i - 1].size
    BY <1>1 DEF SizesAddUp
  <2>1. i # 1 => i - 1 \in DOMAIN a
    BY <1>2
  <2>2. a[i].size = NotesIn(a[i].txs) + IF i = 1 THEN meta.size ELSE a[i - 1].size
    BY DEF Kept, SizesAddUp
  <2> QED
    BY <1>1, <2>1, <2>2
<1>7. Linked(g)
  BY <1>1 DEF Linked
<1>8. LinkedOnce(g)
  <2> SUFFICES ASSUME NEW j \in DOMAIN a, j # 1 PROVE Remembers(g, g, j)
    BY <1>1 DEF LinkedOnce
  <2>1. \A k \in 1 .. j - 1 : k \in DOMAIN a
    BY <1>2
  <2>2. \A k \in 2 .. j - 1 : k \in DOMAIN a /\ k # 1
    BY <1>2
  <2>3. \A k \in 1 .. j - 1 : Len(g[k].txs) \in Nat /\ g[k].txs \in Seq(Tx)
    BY <1>1, <1>3, <2>1, LenProperties
  <2>4. \A k \in 1 .. j - 1 : Len(g[k].txs) <= Len(g[k].txs)
    BY <2>3
  <2> QED
    BY <1>1, <1>4, <2>1, <2>2, <2>3, <2>4 DEF Remembers
<1> QED
  BY <1>1, <1>5, <1>6, <1>7, <1>8 DEF Kept, g

-----------------------------------------------------------------------------
(***************************************************************************)
(* Hashes of linked blocks.                                                *)
(***************************************************************************)

\* A difference is carried upwards by the links.
LEMMA HashesStayApart ==
  ASSUME NEW o, NEW a, NEW i \in Nat, Hash(o[i]) # Hash(a[i]), NEW n \in Nat, i <= n,
         \A k \in i + 1 .. n : o[k].prev = Hash(o[k - 1]) /\ a[k].prev = Hash(a[k - 1])
  PROVE  Hash(o[n]) # Hash(a[n])
<1> DEFINE S == {d \in Nat : i + d <= n => Hash(o[i + d]) # Hash(a[i + d])}
<1>1. 0 \in S
  <2>1. i + 0 = i
    OBVIOUS
  <2> QED
    BY <2>1
<1>2. ASSUME NEW d \in Nat, d \in S PROVE d + 1 \in S
  <2> SUFFICES ASSUME i + (d + 1) <= n PROVE Hash(o[i + (d + 1)]) # Hash(a[i + (d + 1)])
    OBVIOUS
  <2>1. i + (d + 1) \in i + 1 .. n /\ (i + (d + 1)) - 1 = i + d /\ i + d <= n
    OBVIOUS
  <2>2. Hash(o[i + d]) # Hash(a[i + d])
    BY <1>2, <2>1
  <2>3. /\ o[i + (d + 1)].prev = Hash(o[i + d])
        /\ a[i + (d + 1)].prev = Hash(a[i + d])
    BY <2>1
  <2> HIDE DEF S
  <2>4. o[i + (d + 1)].prev # a[i + (d + 1)].prev
    BY <2>2, <2>3
  <2> QED
    BY <2>4 DEF Hash
<1>3. n - i \in Nat /\ i + (n - i) = n
  OBVIOUS
<1>4. n - i \in S
  <2> HIDE DEF S
  <2> QED
    BY <1>1, <1>2, <1>3, NotesFold!SetInduction
<1> QED
  BY <1>3, <1>4

\* Two blocks of a linked chain have different hashes.
LEMMA HashesDiffer ==
  ASSUME NEW a, Kept(a), Linked(a)
  PROVE  \A i, j \in DOMAIN a : i # j => Hash(a[i]) # Hash(a[j])
<1>1. Len(a) \in Nat /\ DOMAIN a = 1 .. Len(a)
  BY SequenceFacts DEF Kept
<1> DEFINE S == {i \in Nat : i \in DOMAIN a => \A j \in DOMAIN a : i < j => Hash(a[i]) # Hash(a[j])}
<1>2. 0 \in S
  BY <1>1
<1>3. ASSUME NEW i \in Nat, i \in S PROVE i + 1 \in S
  <2> SUFFICES ASSUME i + 1 \in DOMAIN a, NEW j \in DOMAIN a, i + 1 < j
               PROVE  Hash(a[i + 1]) # Hash(a[j])
    OBVIOUS
  <2>1. j # 1 /\ j - 1 \in DOMAIN a /\ a[j].prev = Hash(a[j - 1])
    BY <1>1 DEF Linked
  <2>2. CASE i = 0
    <3>1. a[1].prev = << >> /\ i + 1 = 1
      BY <2>2 DEF Kept, LinkedOnce
    <3>2. Hash(a[j - 1]) # << >>
      BY DEF Hash
    <3>3. a[i + 1].prev # a[j].prev
      BY <2>1, <3>1, <3>2
    <3> QED
      BY <3>3 DEF Hash
  <2>3. CASE i # 0
    <3>1. i \in DOMAIN a /\ (i + 1) - 1 = i /\ i + 1 # 1 /\ i < j - 1
      BY <1>1, <2>3
    <3>2. a[i + 1].prev = Hash(a[i])
      BY <3>1 DEF Linked
    <3>3. Hash(a[i]) # Hash(a[j - 1])
      BY <1>3, <2>1, <3>1
    <3>4. a[i + 1].prev # a[j].prev
      BY <2>1, <3>2, <3>3
    <3> QED
      BY <3>4 DEF Hash
  <2> QED
    BY <2>2, <2>3
<1>4. \A i \in Nat : i \in S
  <2> HIDE DEF S
  <2> QED
    BY <1>2, <1>3, NotesFold!SetInduction
<1>5. \A i, j \in DOMAIN a : i < j => Hash(a[i]) # Hash(a[j])
  BY <1>1, <1>4
<1>6. \A i, j \in DOMAIN a : i # j => i < j \/ j < i
  BY <1>1
<1> QED
  BY <1>5, <1>6

-----------------------------------------------------------------------------
(***************************************************************************)
(* The invariant: every control call preserves it, and one that fails      *)
(* leaves the active blocks as its passes left them.                       *)
(***************************************************************************)
LEMMA EmptyKept ==
  ASSUME NEW a, a = << >>
  PROVE  Kept(a) /\ Linked(a)
BY EmptyIsSequence DEF Kept, SizesAddUp, LinkedOnce, Linked

LEMMA KeptMoves ==
  ASSUME meta' = meta, Kept(active')
  PROVE  Kept(active)'
BY DEF Kept, SizesAddUp

LEMMA UsesCounts ==
  ASSUME Staged, NEW k \in Call, Uses(k)
  PROVE  left' \in [Call -> Nat]
BY DEF Staged, Uses

LEMMA InitKeeps == DarksideInit => DarksideInv
<1> SUFFICES ASSUME DarksideInit PROVE DarksideInv
  OBVIOUS
<1>1. Kept(active) /\ Linked(active) /\ Len(active) = 0
  BY EmptyKept, EmptyIsSequence DEF DarksideInit
<1>2. Staged
  BY DarksideAssumption DEF DarksideInit, Staged
<1>3. Settles
  BY <1>1 DEF DarksideInit, Settles
<1> QED
  BY <1>1, <1>2, <1>3 DEF DarksideInv

LEMMA ResetKeeps ==
  ASSUME DarksideInv, NEW start \in Starts, NEW size \in StartSizes, reset(start, size)
  PROVE  DarksideInv'
<1>1. start \in Nat /\ size \in Nat
  BY DarksideAssumption
<1>2. /\ meta' = [reset |-> TRUE, start |-> start, size |-> size]
      /\ latest_height' = -1 /\ active' = << >> /\ staged_blocks' = << >> /\ staged_txs' = << >>
  BY DEF reset
<1>3. left' \in [Call -> Nat]
  BY UsesCounts DEF DarksideInv, reset, Call
<1>4. Kept(active)' /\ Linked(active)' /\ Len(active') = 0
  BY <1>2, EmptyIsSequence DEF Kept, SizesAddUp, LinkedOnce, Linked
<1>5. Staged'
  BY <1>1, <1>2, <1>3 DEF Staged
<1>6. Settles'
  BY <1>1, <1>2, <1>4 DEF Settles
<1> QED
  BY <1>4, <1>5, <1>6 DEF DarksideInv

\* A call that stages something changes the staging area only.
LEMMA StagingKeeps ==
  ASSUME DarksideInv, UNCHANGED <<meta, latest_height, active, settled>>,
         left' \in [Call -> Nat],
         staged_blocks' \in Seq(Raws),
         \A i \in DOMAIN staged_blocks' : staged_blocks'[i].height >= meta.start,
         staged_txs' \in Seq(StagedTx)
  PROVE  DarksideInv'
<1>1. Kept(active)'
  BY KeptMoves DEF DarksideInv
<1>2. Staged'
  BY DEF DarksideInv, Staged
<1>3. Settles'
  BY DEF DarksideInv, Settles, Linked
<1> QED
  BY <1>1, <1>2, <1>3 DEF DarksideInv

LEMMA StageBlockKeeps ==
  ASSUME DarksideInv, NEW raw \in RawBlock, stage_block(raw)
  PROVE  DarksideInv'
<1>1. left' \in [Call -> Nat] /\ raw \in Raws
  BY UsesCounts DEF DarksideInv, stage_block, Call, Raws
<1>2. staged_blocks \in Seq(Raws) /\ staged_txs \in Seq(StagedTx)
      /\ \A i \in DOMAIN staged_blocks : staged_blocks[i].height >= meta.start
  BY DEF DarksideInv, Staged
<1>3. staged_blocks' = Append(staged_blocks, raw) /\ staged_txs' = staged_txs
      /\ raw.height >= meta.start
  BY DEF stage_block
<1>4. staged_blocks' \in Seq(Raws)
      /\ \A i \in DOMAIN staged_blocks' : staged_blocks'[i].height >= meta.start
  <2> DEFINE n == Len(staged_blocks)
  <2>1. n \in Nat /\ DOMAIN staged_blocks = 1 .. n
    BY <1>2, LenProperties
  <2>2. /\ staged_blocks' \in Seq(Raws) /\ Len(staged_blocks') = n + 1
        /\ staged_blocks'[n + 1] = raw
        /\ \A i \in 1 .. n : staged_blocks'[i] = staged_blocks[i]
    BY <1>1, <1>2, <1>3, AppendProperties
  <2>3. DOMAIN staged_blocks' = 1 .. n + 1
    BY <2>2, LenProperties
  <2> HIDE DEF n
  <2> QED
    BY <1>2, <1>3, <2>1, <2>2, <2>3
<1> QED
  BY <1>1, <1>2, <1>3, <1>4, StagingKeeps DEF stage_block

LEMMA StageBlocksCreateKeeps ==
  ASSUME DarksideInv, NEW height \in Heights, NEW nonce \in Nonces, NEW count \in 1 .. MaxCount,
         stage_blocks_create(height, nonce, count)
  PROVE  DarksideInv'
<1> DEFINE new == [i \in 1 .. count |-> synthetic_block(height + i - 1, nonce)]
           n   == Len(staged_blocks)
<1>1. left' \in [Call -> Nat]
  BY UsesCounts DEF DarksideInv, stage_blocks_create, Call
<1>2. staged_blocks \in Seq(Raws) /\ staged_txs \in Seq(StagedTx) /\ meta.start \in Nat
      /\ \A i \in DOMAIN staged_blocks : staged_blocks[i].height >= meta.start
  BY DEF DarksideInv, Staged
<1>3. staged_blocks' = staged_blocks \o new /\ staged_txs' = staged_txs /\ height >= meta.start
  BY DEF stage_blocks_create
<1>4. height \in Nat /\ count \in Nat
  BY DarksideAssumption
<1>5. \A i \in 1 .. count : new[i] \in Raws /\ new[i].height >= meta.start
  <2> SUFFICES ASSUME NEW i \in 1 .. count
               PROVE  /\ synthetic_block(height + i - 1, nonce) \in Raws
                      /\ synthetic_block(height + i - 1, nonce).height >= meta.start
    OBVIOUS
  <2>1. height + i - 1 \in Nat /\ height + i - 1 >= meta.start
    BY <1>2, <1>3, <1>4
  <2>2. synthetic_block(height + i - 1, nonce) \in Raws
    BY <2>1 DEF Raws
  <2>3. synthetic_block(height + i - 1, nonce).height = height + i - 1
    BY DEF synthetic_block
  <2> QED
    BY <2>1, <2>2, <2>3
<1>6. new \in Seq(Raws) /\ Len(new) = count
  <2>1. new = [i \in 1 .. count |-> new[i]]
    OBVIOUS
  <2> HIDE DEF new
  <2>2. new \in [1 .. count -> Raws]
    BY <1>5, <2>1
  <2>3. new \in Seq(Raws)
    BY <1>4, <2>2, SeqDef
  <2> QED
    BY <1>4, <2>1, <2>3, FunctionIsSequence
<1>7. staged_blocks' \in Seq(Raws)
      /\ \A i \in DOMAIN staged_blocks' : staged_blocks'[i].height >= meta.start
  <2> HIDE DEF new
  <2>1. n \in Nat /\ DOMAIN staged_blocks = 1 .. n
    BY <1>2, LenProperties
  <2>2. /\ staged_blocks' \in Seq(Raws) /\ Len(staged_blocks') = n + count
        /\ \A i \in 1 .. n + count :
             staged_blocks'[i] = IF i <= n THEN staged_blocks[i] ELSE new[i - n]
    BY <1>2, <1>3, <1>6, ConcatProperties
  <2>3. DOMAIN staged_blocks' = 1 .. n + count
    BY <2>2, LenProperties
  <2> HIDE DEF n
  <2> SUFFICES ASSUME NEW i \in 1 .. n + count PROVE staged_blocks'[i].height >= meta.start
    BY <2>2, <2>3
  <2>4. CASE i <= n
    <3>1. i \in DOMAIN staged_blocks /\ staged_blocks'[i] = staged_blocks[i]
      BY <2>1, <2>2, <2>4
    <3> QED
      BY <1>2, <3>1
  <2>5. CASE ~(i <= n)
    <3>1. i - n \in 1 .. count /\ staged_blocks'[i] = new[i - n]
      BY <1>4, <2>1, <2>2, <2>5
    <3> QED
      BY <1>5, <3>1
  <2> QED
    BY <2>4, <2>5
<1> QED
  BY <1>1, <1>2, <1>3, <1>7, StagingKeeps DEF stage_blocks_create

LEMMA StageTransactionKeeps ==
  ASSUME DarksideInv, NEW height \in Heights, NEW tx \in Tx, stage_transaction(height, tx)
  PROVE  DarksideInv'
<1>1. left' \in [Call -> Nat]
  BY UsesCounts DEF DarksideInv, stage_transaction, Call
<1>2. staged_blocks \in Seq(Raws) /\ staged_txs \in Seq(StagedTx)
      /\ \A i \in DOMAIN staged_blocks : staged_blocks[i].height >= meta.start
  BY DEF DarksideInv, Staged
<1>3. [height |-> height, tx |-> tx] \in StagedTx
  BY DarksideAssumption DEF StagedTx
<1>4. staged_txs' = Append(staged_txs, [height |-> height, tx |-> tx])
      /\ staged_blocks' = staged_blocks /\ UNCHANGED <<meta, latest_height, active, settled>>
  BY DEF stage_transaction
<1>5. staged_txs' \in Seq(StagedTx)
  BY <1>2, <1>3, <1>4, AppendProperties
<1> QED
  BY <1>1, <1>2, <1>4, <1>5, StagingKeeps

\* What ApplyStaged has after its passes.
LEMMA ApplyFacts ==
  ASSUME DarksideInv, NEW target, MayApply(target)
  PROVE  LET merged == apply_staged_blocks
             mined  == mine_staged_transactions(merged.active)
         IN  /\ left' \in [Call -> Nat] /\ Staged
             /\ IsPass(merged) /\ IsPass(mined)
             /\ mined.ok => \A k \in DOMAIN staged_txs : InPlace(mined.active, k)
<1>1. left' \in [Call -> Nat]
  BY UsesCounts DEF DarksideInv, MayApply, Call
<1>2. IsPass(apply_staged_blocks)
  BY MergedPass DEF DarksideInv
<1>3. Kept(apply_staged_blocks.active)
  BY <1>2 DEF IsPass
<1> QED
  BY <1>1, <1>2, <1>3, MinedPass DEF DarksideInv

\* The staged blocks are gone, and the staged transactions too or wait on.
LEMMA AppliedStaged ==
  ASSUME Staged, left' \in [Call -> Nat], meta' = meta, latest_height' \in Int,
         staged_blocks' = << >>, staged_txs' = << >> \/ staged_txs' = staged_txs
  PROVE  Staged'
<1>1. staged_blocks' \in Seq(Raws) /\ DOMAIN staged_blocks' = {}
  OBVIOUS
<1>2. staged_txs' \in Seq(StagedTx)
  <2>1. staged_txs \in Seq(StagedTx) /\ << >> \in Seq(StagedTx)
    BY EmptySeq DEF Staged
  <2> QED
    BY <2>1
<1> QED
  BY <1>1, <1>2 DEF Staged

LEMMA ApplyFailsOnBlockKeeps ==
  ASSUME DarksideInv, NEW target \in Heights, ApplyFailsOnBlock(target)
  PROVE  DarksideInv'
<1>1. Staged /\ left' \in [Call -> Nat] /\ Kept(apply_staged_blocks.active)
  BY ApplyFacts DEF ApplyFailsOnBlock, IsPass
<1>2. active' = apply_staged_blocks.active /\ staged_blocks' = << >> /\ settled' = FALSE
      /\ UNCHANGED <<meta, latest_height, staged_txs>>
  BY DEF ApplyFailsOnBlock
<1>3. Kept(active)'
  BY <1>1, <1>2, KeptMoves
<1>4. Staged'
  <2>1. latest_height' \in Int
    BY <1>1, <1>2 DEF Staged
  <2> QED
    BY <1>1, <1>2, <2>1, AppliedStaged
<1>5. Settles'
  BY <1>2 DEF Settles
<1> QED
  BY <1>3, <1>4, <1>5 DEF DarksideInv

LEMMA ApplyFailsOnTxKeeps ==
  ASSUME DarksideInv, NEW target \in Heights, ApplyFailsOnTx(target)
  PROVE  DarksideInv'
<1> DEFINE mined == mine_staged_transactions(apply_staged_blocks.active)
<1>1. Staged /\ left' \in [Call -> Nat] /\ Kept(mined.active)
  BY ApplyFacts DEF ApplyFailsOnTx, IsPass
<1>2. active' = mined.active /\ staged_blocks' = << >> /\ staged_txs' = << >> /\ settled' = FALSE
      /\ UNCHANGED <<meta, latest_height>>
  BY DEF ApplyFailsOnTx
<1> HIDE DEF mined
<1>3. Kept(active)'
  BY <1>1, <1>2, KeptMoves
<1>4. Staged'
  <2>1. latest_height' \in Int
    BY <1>1, <1>2 DEF Staged
  <2> QED
    BY <1>1, <1>2, <2>1, AppliedStaged
<1>5. Settles'
  BY <1>2 DEF Settles
<1> QED
  BY <1>3, <1>4, <1>5 DEF DarksideInv

\* What a successful ApplyStaged leaves.
LEMMA AppliedFacts ==
  ASSUME DarksideInv, NEW target \in Heights, apply_staged(target)
  PROVE  /\ Kept(active') /\ Linked(active')
         /\ latest_height' \in Int /\ latest_height' < meta.start + Len(active')
         /\ \A k \in DOMAIN staged_txs : InPlace(active', k)
<1> DEFINE mined == mine_staged_transactions(apply_staged_blocks.active)
           a     == mined.active
           max   == meta.start + Len(a) - 1
<1>1. MayApply(target) /\ mined.ok /\ active' = set_prevhash(a)
      /\ latest_height' = IF target < max THEN target ELSE max
  BY DEF apply_staged
<1>2. Staged /\ Kept(a) /\ \A k \in DOMAIN staged_txs : InPlace(a, k)
  BY <1>1, ApplyFacts DEF IsPass
<1> HIDE DEF mined, a
<1>3. Kept(active') /\ Linked(active')
  BY <1>1, <1>2, RelinkedKept
<1>4. DOMAIN active' = DOMAIN a /\ Len(active') = Len(a)
      /\ \A i \in DOMAIN a : active'[i].txs = a[i].txs
  <2> DEFINE g == set_prevhash(a)
  <2>1. /\ IsSequence(g) /\ DOMAIN g = DOMAIN a /\ Len(g) = Len(a)
        /\ \A i \in DOMAIN a :
             /\ g[i] = [f \in {"root", "prev", "bumps", "txs", "size"} |-> g[i][f]]
             /\ g[i].root = a[i].root /\ g[i].bumps = a[i].bumps
             /\ g[i].txs = a[i].txs /\ g[i].size = a[i].size
             /\ g[i].prev = IF i = 1 THEN << >> ELSE Hash(g[i - 1])
    BY <1>2, RelinkedFields
  <2> HIDE DEF g
  <2> QED
    BY <1>1, <2>1 DEF g
<1>5. Len(a) \in Nat /\ meta.start \in Nat /\ target \in Nat
  BY <1>2, SequenceFacts, DarksideAssumption DEF Kept, Staged
<1>6. latest_height' \in Int /\ latest_height' < meta.start + Len(active')
  BY <1>1, <1>4, <1>5
<1>7. \A k \in DOMAIN staged_txs : InPlace(active', k)
  BY <1>2, <1>4 DEF InPlace
<1> QED
  BY <1>3, <1>6, <1>7

LEMMA ApplyStagedKeeps ==
  ASSUME DarksideInv, NEW target \in Heights, apply_staged(target)
  PROVE  DarksideInv'
<1>1. /\ Kept(active') /\ Linked(active')
      /\ latest_height' \in Int /\ latest_height' < meta.start + Len(active')
  BY AppliedFacts
<1>2. Staged /\ left' \in [Call -> Nat]
  BY ApplyFacts DEF apply_staged
<1>3. staged_blocks' = << >> /\ staged_txs' = << >> /\ meta' = meta
  BY DEF apply_staged
<1>4. Kept(active)'
  BY <1>1, <1>3, KeptMoves
<1>5. Staged'
  BY <1>1, <1>2, <1>3, AppliedStaged
<1>6. Settles'
  BY <1>1, <1>3 DEF Settles, Linked
<1> QED
  BY <1>4, <1>5, <1>6 DEF DarksideInv

LEMMA NextKeeps == DarksideInv /\ [DarksideNext]_darksideVars => DarksideInv'
<1> SUFFICES ASSUME DarksideInv, [DarksideNext]_darksideVars PROVE DarksideInv'
  OBVIOUS
<1>1. ASSUME NEW start \in Starts, NEW size \in StartSizes, reset(start, size) PROVE DarksideInv'
  BY <1>1, ResetKeeps
<1>2. ASSUME NEW raw \in RawBlock, stage_block(raw) PROVE DarksideInv'
  BY <1>2, StageBlockKeeps
<1>3. ASSUME NEW height \in Heights, NEW nonce \in Nonces, NEW count \in 1 .. MaxCount,
             stage_blocks_create(height, nonce, count)
      PROVE  DarksideInv'
  BY <1>3, StageBlocksCreateKeeps
<1>4. ASSUME NEW height \in Heights, NEW tx \in Tx, stage_transaction(height, tx) PROVE DarksideInv'
  BY <1>4, StageTransactionKeeps
<1>5. ASSUME NEW target \in Heights, apply_staged(target) PROVE DarksideInv'
  BY <1>5, ApplyStagedKeeps
<1>6. ASSUME NEW target \in Heights, ApplyFailsOnBlock(target) PROVE DarksideInv'
  BY <1>6, ApplyFailsOnBlockKeeps
<1>7. ASSUME NEW target \in Heights, ApplyFailsOnTx(target) PROVE DarksideInv'
  BY <1>7, ApplyFailsOnTxKeeps
<1>8. CASE UNCHANGED darksideVars
  <2>1. left \in [Call -> Nat] /\ staged_blocks \in Seq(Raws) /\ staged_txs \in Seq(StagedTx)
        /\ \A i \in DOMAIN staged_blocks : staged_blocks[i].height >= meta.start
    BY DEF DarksideInv, Staged
  <2> QED
    BY <1>8, <2>1, StagingKeeps DEF darksideVars
<1> QED
  BY <1>1, <1>2, <1>3, <1>4, <1>5, <1>6, <1>7, <1>8 DEF DarksideNext

-----------------------------------------------------------------------------
(***************************************************************************)
(* Whatever is staged, rewritten, mined below the tip or left by a call    *)
(* that failed half way, the active blocks are kept and, after a success,  *)
(* linked (DarksideInv).                                                   *)
(***************************************************************************)
THEOREM DarksideConsistent == DarksideSpec => []DarksideInv
BY InitKeeps, NextKeeps, PTL DEF DarksideSpec

(***************************************************************************)
(* Each tree size is the one below it plus the block's notes: add_block    *)
(* starts from the size under the block it puts in, and mining grows every *)
(* block from its own up.                                                  *)
(***************************************************************************)
THEOREM TreeSizesStay == DarksideSpec => []TreeSizesAddUp
<1>1. DarksideInv => TreeSizesAddUp
  BY DEF DarksideInv, Kept, SizesAddUp, TreeSizesAddUp
<1> QED
  BY <1>1, DarksideConsistent, PTL

(***************************************************************************)
(* After a successful ApplyStaged, and until one fails, every presented    *)
(* height can be fetched, links to the one below, and is found by the hash *)
(* it is reported with: set_prevhash makes the hashes of the active blocks *)
(* differ. A failing call does not reach set_prevhash, and the chain it    *)
(* leaves may be shown unlinked.                                           *)
(***************************************************************************)
THEOREM PresentedStaysLinked == DarksideSpec => []PresentedLinked
<1>1. DarksideInv => PresentedLinked
  <2> SUFFICES ASSUME DarksideInv, settled PROVE PresentedLinked
    BY DEF PresentedLinked
  <2>1. Kept(active) /\ Linked(active) /\ latest_height < meta.start + Len(active)
        /\ meta.start \in Nat /\ latest_height \in Int
    BY DEF DarksideInv, Settles, Staged
  <2>2. IsSequence(active) /\ Len(active) \in Nat /\ DOMAIN active = 1 .. Len(active)
    BY <2>1, SequenceFacts DEF Kept
  <2>3. ASSUME NEW height \in meta.start .. latest_height
        PROVE  /\ IsPresented(height)
               /\ block_raw_by_hash(block_verbose(height).hash) = active[Offset(height) + 1]
    <3> DEFINE k == Offset(height) + 1
               Test(b) == Hash(b) = Hash(active[k])
    <3>1. k \in DOMAIN active /\ Offset(height) < Len(active)
      BY <2>1, <2>2 DEF Offset
    <3>2. IsPresented(height)
      BY <3>1 DEF IsPresented
    <3>3. \A i \in DOMAIN active : Test(active[i]) => i = k
      BY <2>1, <3>1, HashesDiffer
    <3>4. block_verbose(height).hash = Hash(active[k])
      BY DEF block_verbose
    <3> HIDE DEF k
    <3>5. SelectInSeq(active, Test) = k
      <4> DEFINE I == {i \in 1 .. Len(active) : Test(active[i])}
      <4>1. I = {k} /\ k <= k
        BY <2>2, <3>1, <3>3
      <4>2. SelectInSeq(active, Test) = IF I # {} THEN Min(I) ELSE 0
        BY DEF SelectInSeq
      <4> HIDE DEF I
      <4>3. Min(I) = k
        BY <4>1 DEF Min
      <4> QED
        BY <4>1, <4>2, <4>3
    <3>6. block_raw_by_hash(Hash(active[k])) = active[SelectInSeq(active, Test)]
      BY DEF block_raw_by_hash
    <3> QED
      BY <3>2, <3>4, <3>5, <3>6 DEF k
  <2>4. blockchain_info.bestblockhash = block_verbose(blockchain_info.blocks).hash
    BY DEF blockchain_info, block_verbose
  <2> QED
    BY <2>1, <2>3, <2>4 DEF PresentedLinked, Linked
<1> QED
  BY <1>1, DarksideConsistent, PTL

-----------------------------------------------------------------------------
LEMMA StrictPrefixIsShorter ==
  ASSUME NEW s \in Seq(Tx), NEW t \in Seq(Tx), IsStrictPrefix(s, t)
  PROVE  Len(s) < Len(t)
<1>1. Len(s) \in Nat /\ Len(t) \in Nat /\ Len(s) <= Len(t) /\ s # t
      /\ SubSeq(s, 1, Len(s)) = SubSeq(t, 1, Len(s))
  BY LenProperties DEF IsStrictPrefix, IsPrefix
<1>2. CASE Len(s) = Len(t)
  <2> DEFINE n == Len(s)
  <2>1. (\A i \in 1 .. n : s[i] \in Tx) /\ (\A i \in 1 .. n : t[i] \in Tx)
    BY <1>2, ElementOfSeq
  <2>2. \A i \in 1 .. n - 1 + 1 : SubSeq(s, 1, n)[i] = s[1 + i - 1]
    BY <1>1, <2>1, SubSeqProperties
  <2>3. \A i \in 1 .. n - 1 + 1 : SubSeq(t, 1, n)[i] = t[1 + i - 1]
    BY <1>1, <2>1, SubSeqProperties
  <2>4. \A i \in 1 .. n : i \in 1 .. n - 1 + 1 /\ 1 + i - 1 = i
    BY <1>1
  <2>5. \A i \in 1 .. n : s[i] = t[i]
    BY <1>1, <2>2, <2>3, <2>4
  <2>6. s = t
    BY <1>2, <2>5, SeqEqual
  <2> QED
    BY <1>1, <2>6
<1> QED
  BY <1>1, <1>2

\* Two states of the block at one height whose lengths differ, by less than the
\* byte can count, have different hashes.
LEMMA GrownTell ==
  ASSUME NEW b, NEW c, Grown(b), Grown(c), Len(b.txs) \in Nat, Len(c.txs) \in Nat,
         Len(c.txs) > Len(b.txs), Len(c.txs) - Len(b.txs) < ByteRange
  PROVE  Hash(b) # Hash(c)
<1>1. CASE b.root # c.root
  BY <1>1 DEF Hash
<1>2. CASE b.root = c.root
  <2>1. b.bumps # c.bumps
    BY <1>2, BumpsTell
  <2> QED
    BY <2>1 DEF Hash
<1> QED
  BY <1>1, <1>2

\* From the block that grew up, every hash moved.
LEMMA GrowingMovesHashes ==
  ASSUME NEW a, Kept(a), NEW new, Kept(new), Linked(new), NEW linked \in BOOLEAN, linked => Linked(a),
         NEW i \in DOMAIN a \cap DOMAIN new, NEW j \in DOMAIN a \cap DOMAIN new, i <= j,
         IsStrictPrefix(a[i].txs, new[i].txs),
         Len(new[i].txs) - (IF linked THEN Len(a[i].txs) ELSE 0) < ByteRange
  PROVE  Hash(a[j]) # Hash(new[j])
<1>1. /\ Len(a) \in Nat /\ DOMAIN a = 1 .. Len(a) /\ Len(new) \in Nat /\ DOMAIN new = 1 .. Len(new)
  BY SequenceFacts DEF Kept
<1>2. i \in Nat /\ j \in Nat /\ i >= 1 /\ \A k \in i + 1 .. j : k \in DOMAIN a \ {1} /\ k \in DOMAIN new \ {1}
  BY <1>1
<1>3. /\ a[i].txs \in Seq(Tx) /\ new[i].txs \in Seq(Tx) /\ Grown(a[i]) /\ Grown(new[i])
      /\ Len(a[i].txs) \in Nat /\ Len(new[i].txs) \in Nat
  BY LenProperties DEF Kept, IsBlock
<1>4. Len(a[i].txs) < Len(new[i].txs) /\ ByteRange \in Nat
  BY <1>3, StrictPrefixIsShorter DEF ByteRange
<1>5. Len(new[i].txs) - Len(a[i].txs) < ByteRange
  <2>1. CASE linked
    BY <2>1
  <2>2. CASE ~linked
    <3>1. Len(new[i].txs) - 0 < ByteRange
      BY <2>2
    <3>2. \A x, y, z \in Nat : x - 0 < z => x - y < z
      OBVIOUS
    <3> QED
      BY <1>3, <1>4, <3>1, <3>2
  <2> QED
    BY <2>1, <2>2
<1>6. Hash(a[i]) # Hash(new[i])
  BY <1>3, <1>4, <1>5, GrownTell
<1>7. \A k \in DOMAIN new \ {1} : new[k].prev = Hash(new[k - 1])
  BY DEF Linked
<1>8. CASE linked
  <2>1. \A k \in i + 1 .. j : a[k].prev = Hash(a[k - 1]) /\ new[k].prev = Hash(new[k - 1])
    BY <1>2, <1>7, <1>8 DEF Linked
  <2> QED
    BY <1>2, <1>6, <2>1, HashesStayApart
<1>9. CASE ~linked /\ i # j
  <2>1. j # 1 /\ new[j].prev = Hash(new[j - 1]) /\ j - 1 \in Nat /\ i <= j - 1 /\ i \in 1 .. j - 1
    BY <1>1, <1>2, <1>7, <1>9
  <2>2. CASE a[j].prev = << >>
    <3>1. Hash(new[j - 1]) # << >>
      BY DEF Hash
    <3>2. a[j].prev # new[j].prev
      BY <2>1, <2>2, <3>1
    <3> QED
      BY <3>2 DEF Hash
  <2>3. CASE a[j].prev # << >>
    <3>1. PICK old : Remembers(old, a, j)
      BY <2>1, <2>3 DEF Kept, LinkedOnce
    <3>2. /\ Grown(old[i]) /\ old[i].txs \in Seq(Tx) /\ Len(old[i].txs) <= Len(a[i].txs)
          /\ Len(old[i].txs) \in Nat
      BY <2>1, <3>1, LenProperties DEF Remembers
    <3>3. Len(new[i].txs) < ByteRange
      <4>1. Len(new[i].txs) - 0 < ByteRange
        BY <1>9
      <4> QED
        BY <1>3, <4>1
    <3>4. Hash(old[i]) # Hash(new[i])
      <4>1. Len(new[i].txs) > Len(old[i].txs) /\ Len(new[i].txs) - Len(old[i].txs) < ByteRange
        <5> DEFINE o == Len(old[i].txs)  x == Len(a[i].txs)  y == Len(new[i].txs)
        <5>1. o \in Nat /\ x \in Nat /\ y \in Nat /\ o <= x /\ x < y
          BY <1>3, <1>4, <3>2
        <5>2. y < 256 /\ ByteRange = 256
          BY <3>3 DEF ByteRange
        <5> HIDE DEF o, x, y
        <5>3. y > o /\ y - o < 256
          BY <5>1, <5>2
        <5> QED
          BY <5>2, <5>3 DEF o, y
      <4> QED
        BY <1>3, <3>2, <4>1, GrownTell
    <3>5. \A k \in i + 1 .. j - 1 : k \in 2 .. j - 1 /\ k \in i + 1 .. j
      BY <1>2, <2>1
    <3>6. \A k \in i + 1 .. j - 1 : old[k].prev = Hash(old[k - 1]) /\ new[k].prev = Hash(new[k - 1])
      BY <1>2, <1>7, <3>1, <3>5 DEF Remembers
    <3>7. Hash(old[j - 1]) # Hash(new[j - 1])
      BY <1>2, <2>1, <3>4, <3>6, HashesStayApart
    <3>8. a[j].prev # new[j].prev
      BY <2>1, <3>1, <3>7 DEF Remembers
    <3> QED
      BY <3>8 DEF Hash
  <2> QED
    BY <2>2, <2>3
<1> QED
  BY <1>6, <1>8, <1>9

\* What each call does to the active blocks and to the calls left.
LEMMA CallsDo ==
  ASSUME DarksideInv, [DarksideNext]_darksideVars
  PROVE  \/ active' = << >> /\ left'.apply = left.apply
         \/ active' = active /\ settled' = settled /\ left'.apply = left.apply
         \/ \E target \in Heights : apply_staged(target)
         \/ settled' = FALSE
<1>1. left \in [Call -> Nat]
  BY DEF DarksideInv, Staged
<1>2. \A k \in Call : Uses(k) /\ k # "apply" => left'.apply = left.apply
  BY <1>1 DEF Uses, Call
<1>3. "reset" \in Call /\ "block" \in Call /\ "tx" \in Call
  BY DEF Call
<1>4. ASSUME NEW start \in Starts, NEW size \in StartSizes, reset(start, size)
      PROVE  active' = << >> /\ left'.apply = left.apply
  BY <1>2, <1>3, <1>4 DEF reset
<1>5. ASSUME NEW raw \in RawBlock, stage_block(raw)
      PROVE  active' = active /\ settled' = settled /\ left'.apply = left.apply
  BY <1>2, <1>3, <1>5 DEF stage_block
<1>6. ASSUME NEW height \in Heights, NEW nonce \in Nonces, NEW count \in 1 .. MaxCount,
             stage_blocks_create(height, nonce, count)
      PROVE  active' = active /\ settled' = settled /\ left'.apply = left.apply
  BY <1>2, <1>3, <1>6 DEF stage_blocks_create
<1>7. ASSUME NEW height \in Heights, NEW tx \in Tx, stage_transaction(height, tx)
      PROVE  active' = active /\ settled' = settled /\ left'.apply = left.apply
  BY <1>2, <1>3, <1>7 DEF stage_transaction
<1>8. \A target : ApplyFailsOnBlock(target) \/ ApplyFailsOnTx(target) => settled' = FALSE
  BY DEF ApplyFailsOnBlock, ApplyFailsOnTx
<1>9. CASE UNCHANGED darksideVars
  BY <1>9 DEF darksideVars
<1> QED
  BY <1>4, <1>5, <1>6, <1>7, <1>8, <1>9 DEF DarksideNext

(***************************************************************************)
(* A presented block that gained a transaction, fewer than the header byte *)
(* counts, and every block above it get new hashes: the byte counts what   *)
(* was mined since the block was staged, and the links carry the           *)
(* difference up, also from a block that was linked before an ApplyStaged  *)
(* that failed (LinkedOnce).                                               *)
(***************************************************************************)
THEOREM MiningReorganises == DarksideSpec => MiningMovesHashes
<1> DEFINE Moves ==
      settled' =>
        \A i, j \in DOMAIN active \cap DOMAIN active' :
          /\ i <= j /\ IsStrictPrefix(active[i].txs, active'[i].txs)
          /\ Len(active'[i].txs) - (IF settled THEN Len(active[i].txs) ELSE 0) < ByteRange
          => Hash(active[j]) # Hash(active'[j])
<1>1. DarksideInv /\ [DarksideNext]_darksideVars => [Moves]_darksideVars
  <2> SUFFICES ASSUME DarksideInv, [DarksideNext]_darksideVars, settled' = TRUE \/ settled',
                      NEW i \in DOMAIN active \cap DOMAIN active',
                      NEW j \in DOMAIN active \cap DOMAIN active',
                      i <= j, IsStrictPrefix(active[i].txs, active'[i].txs),
                      Len(active'[i].txs) - (IF settled THEN Len(active[i].txs) ELSE 0) < ByteRange
               PROVE  Hash(active[j]) # Hash(active'[j])
    OBVIOUS
  <2>1. CASE active' = << >>
    BY <2>1
  <2>2. CASE active' = active
    BY <2>2 DEF IsStrictPrefix
  <2>3. ASSUME NEW target \in Heights, apply_staged(target)
        PROVE  Hash(active[j]) # Hash(active'[j])
    <3>1. Kept(active') /\ Linked(active')
      BY <2>3, AppliedFacts
    <3>2. Kept(active) /\ (settled => Linked(active))
      BY DEF DarksideInv, Settles
    <3> DEFINE linked == IF settled THEN TRUE ELSE FALSE
    <3>3. linked \in BOOLEAN /\ (linked => Linked(active))
          /\ Len(active'[i].txs) - (IF linked THEN Len(active[i].txs) ELSE 0) < ByteRange
      BY <3>2
    <3> HIDE DEF linked
    <3> QED
      BY <3>1, <3>2, <3>3, GrowingMovesHashes
  <2> QED
    BY <2>1, <2>2, <2>3, CallsDo
<1> QED
  BY <1>1, DarksideConsistent, PTL DEF DarksideSpec, MiningMovesHashes

-----------------------------------------------------------------------------
\* A transaction some active block holds is reported at the first that does.
LEMMA ReportedAtFirst ==
  DarksideInv =>
    \A tx \in Tx : \A i \in DOMAIN active : tx \in ToSet(active[i].txs) =>
      \E k \in DOMAIN active : /\ k <= i /\ tx \in ToSet(active[k].txs)
                               /\ raw_transaction(tx) = meta.start + k - 1
<1> SUFFICES ASSUME DarksideInv, NEW tx \in Tx, NEW i \in DOMAIN active, tx \in ToSet(active[i].txs)
             PROVE  \E k \in DOMAIN active : /\ k <= i /\ tx \in ToSet(active[k].txs)
                                             /\ raw_transaction(tx) = meta.start + k - 1
  OBVIOUS
<1>1. Len(active) \in Nat /\ DOMAIN active = 1 .. Len(active)
  BY SequenceFacts DEF DarksideInv, Kept
<1> DEFINE holds(b) == tx \in ToSet(b.txs)
           I == {n \in 1 .. Len(active) : holds(active[n])}
<1>2. SelectInSeq(active, holds) = IF I # {} THEN Min(I) ELSE 0
  BY DEF SelectInSeq
<1>3. i \in I /\ I \subseteq Nat
  BY <1>1
<1>4. PICK k \in I : \A y \in I : k <= y
  <2> HIDE DEF I
  <2> QED
    BY <1>3, NotesFold!Smallest
<1>5. Min(I) \in I /\ \A y \in I : Min(I) <= y
  <2> HIDE DEF I
  <2> QED
    BY <1>4 DEF Min
<1>6. SelectInSeq(active, holds) = Min(I) /\ Min(I) > 0
  <2>1. \A y \in I : y > 0
    BY <1>1
  <2> HIDE DEF I, holds
  <2> QED
    BY <1>2, <1>3, <1>5, <2>1
<1>7. raw_transaction(tx) = meta.start + Min(I) - 1
  BY <1>6 DEF raw_transaction
<1>8. Min(I) \in DOMAIN active /\ tx \in ToSet(active[Min(I)].txs)
  <2>1. \A y \in I : y \in DOMAIN active /\ tx \in ToSet(active[y].txs)
    BY <1>1
  <2> HIDE DEF I
  <2> QED
    BY <1>5, <2>1
<1>9. Min(I) <= i
  BY <1>3, <1>5
<1> HIDE DEF I
<1> QED
  BY <1>7, <1>8, <1>9

(***************************************************************************)
(* A successful ApplyStaged empties the mempool and mines every staged     *)
(* transaction at its height, where it or an earlier height is then        *)
(* reported for it: no later item of the same call takes it out.           *)
(***************************************************************************)
THEOREM StagedAreMined == DarksideSpec => StagedTxsAreMined
<1> DEFINE Mines ==
      left'.apply < left.apply /\ settled' =>
        /\ raw_mempool' = {}
        /\ \A tx \in Tx : \A i \in DOMAIN staged_txs :
             LET holds(height) == tx \in ToSet(active'[Offset(height) + 1].txs)
             IN  staged_txs[i].tx = tx =>
                   /\ holds(staged_txs[i].height)
                   /\ raw_transaction(tx)' \in meta.start .. staged_txs[i].height
                   /\ holds(raw_transaction(tx)')
<1>1. DarksideInv /\ DarksideInv' /\ [DarksideNext]_darksideVars
      /\ (\A tx \in Tx : \A i \in DOMAIN active : tx \in ToSet(active[i].txs) =>
            \E k \in DOMAIN active : /\ k <= i /\ tx \in ToSet(active[k].txs)
                                     /\ raw_transaction(tx) = meta.start + k - 1)'
      => [Mines]_darksideVars
  <2> SUFFICES ASSUME DarksideInv, DarksideInv', [DarksideNext]_darksideVars,
                      \A tx \in Tx : \A i \in DOMAIN active' : tx \in ToSet(active'[i].txs) =>
                        \E k \in DOMAIN active' : /\ k <= i /\ tx \in ToSet(active'[k].txs)
                                                  /\ raw_transaction(tx)' = meta'.start + k - 1,
                      left'.apply < left.apply, settled'
               PROVE  Mines
    OBVIOUS
  <2>1. left.apply \in Nat
    BY DEF DarksideInv, Staged, Call
  <2>0. left'.apply # left.apply
    BY <2>1
  <2>2. PICK target \in Heights : apply_staged(target)
    <3>1. ~(settled' = FALSE)
      OBVIOUS
    <3> QED
      BY <2>0, <3>1, CallsDo
  <2>3. staged_blocks' = << >> /\ staged_txs' = << >> /\ meta' = meta
    BY <2>2 DEF apply_staged
  <2>4. raw_mempool' = {}
    BY <2>3 DEF raw_mempool
  <2>5. ASSUME NEW tx \in Tx, NEW i \in DOMAIN staged_txs, staged_txs[i].tx = tx
        PROVE  /\ tx \in ToSet(active'[Offset(staged_txs[i].height) + 1].txs)
               /\ raw_transaction(tx)' \in meta.start .. staged_txs[i].height
               /\ tx \in ToSet(active'[Offset(raw_transaction(tx)') + 1].txs)
    <3> DEFINE n == Offset(staged_txs[i].height) + 1
    <3>1. InPlace(active', i)
      BY <2>2, AppliedFacts
    <3>2. n \in DOMAIN active' /\ tx \in ToSet(active'[n].txs)
      BY <2>5, <3>1 DEF InPlace
    <3>3. meta.start \in Nat /\ staged_txs[i].height \in Nat /\ DOMAIN active' \subseteq Nat \ {0}
      <4>1. staged_txs \in Seq(StagedTx) /\ meta.start \in Nat
        BY DEF DarksideInv, Staged
      <4>2. staged_txs[i] \in StagedTx
        BY <4>1, LenProperties, ElementOfSeq
      <4>3. Kept(active')
        BY <2>2, AppliedFacts
      <4>4. Len(active') \in Nat /\ DOMAIN active' = 1 .. Len(active')
        BY <4>3, SequenceFacts DEF Kept
      <4> QED
        BY <4>1, <4>2, <4>4 DEF StagedTx
    <3>4. PICK k \in DOMAIN active' : /\ k <= n /\ tx \in ToSet(active'[k].txs)
                                      /\ raw_transaction(tx)' = meta.start + k - 1
      BY <2>3, <3>2
    <3>5. k \in Nat /\ k # 0 /\ n = staged_txs[i].height - meta.start + 1
      BY <3>3 DEF Offset
    <3>6. raw_transaction(tx)' \in meta.start .. staged_txs[i].height
      BY <3>3, <3>4, <3>5
    <3>7. Offset(raw_transaction(tx)') + 1 = k
      BY <3>3, <3>4, <3>5 DEF Offset
    <3> QED
      BY <3>2, <3>4, <3>6, <3>7
  <2> QED
    BY <2>4, <2>5
<1> QED
  BY <1>1, DarksideConsistent, ReportedAtFirst, PTL DEF DarksideSpec, StagedTxsAreMined

=============================================================================
