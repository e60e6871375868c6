--------------------------- MODULE SnapshotProofs ---------------------------
(***************************************************************************)
(* Publishing a snapshot, for any blocks, epoch size and number of         *)
(* downloads: a digest row that no truncation overtook describes the       *)
(* cached blocks, and what a client receives is one linked run.            *)
(***************************************************************************)
EXTENDS SnapshotServe, SnapshotImport, BlockCacheProofs, FiniteSetTheorems, SequenceTheorems

\* The row of epoch i, as far as its heights go.
SpansEpoch(row, i) == i \in Nat /\ row.start \in Nat /\ row.end = epoch_last_height(i)

\* What the walk has read is still so unless a truncation reached it.
WalkCurrent ==
  /\ walk = [at |-> walk.at, index |-> walk.index, before |-> walk.before, row |-> walk.row,
             raced |-> walk.raced]
  /\ walk.at # "idle" => walk.index \in Nat
  /\ walk.at = "scan" => walk.before.tip \in Nat
  /\ walk.at \in {"body", "check", "store"} =>
       /\ walk.row = [start |-> walk.row.start, end |-> walk.row.end, body |-> walk.row.body]
       /\ SpansEpoch(walk.row, walk.index)
  /\ walk.at \in {"check", "store"} /\ ~walk.raced => Describes(pub, walk.row)

RowsCurrent ==
  \A i \in DOMAIN pub.digests :
    SpansEpoch(pub.digests[i], i) /\ (i \notin stale => Describes(pub, pub.digests[i]))

ExportInv == Clean(pub) /\ WalkCurrent /\ RowsCurrent

LinkedSeq(s) == \A k \in 1 .. Len(s) - 1 : PrevHash[s[k + 1]] = s[k]

\* What client and channel have together.
Delivered(d) == d.got \o d.channel

\* The shape of a download.
IsDownload(d) ==
  d = [at |-> d.at, index |-> d.index, span |-> d.span, records |-> d.records,
       next |-> d.next, channel |-> d.channel, got |-> d.got, reading |-> d.reading]

\* A download: its records are one linked run, and what was sent of them is too
\* and ends where the next record continues.
OneRun(d) ==
  /\ IsDownload(d)
  /\ d.got \in Seq(Block) /\ d.channel \in Seq(Block)
  /\ LinkedSeq(d.got)
  /\ d.reading => LinkedSeq(Delivered(d))
  /\ d.at \in {"none", "opened", "found"} => d.got = << >> /\ d.channel = << >>
  /\ d.at = "sending" =>
       /\ DOMAIN d.records \subseteq Nat
       /\ \A h \in DOMAIN d.records :
            /\ d.records[h] \in Block
            /\ h - 1 \in DOMAIN d.records => PrevHash[d.records[h]] = d.records[h - 1]
       /\ d.reading /\ Delivered(d) # << >> =>
            /\ d.next - 1 \in DOMAIN d.records
            /\ Delivered(d)[Len(Delivered(d))] = d.records[d.next - 1]

\* The inductive invariant.
ServeInv ==
  /\ ExportInv
  /\ download = [p \in Peer |-> download[p]]
  /\ \A p \in Peer : OneRun(download[p])

-----------------------------------------------------------------------------
(***************************************************************************)
(* The walk.                                                               *)
(***************************************************************************)
LEMMA EpochHeightsNat ==
  ASSUME NEW i \in Nat
  PROVE  epoch_first_height(i) \in Nat /\ epoch_last_height(i) \in Nat
BY BlockAssumption DEF epoch_first_height, epoch_last_height

\* A commit that leaves the blocks up to the row's last height alone leaves a
\* row that describes them one that does.
LEMMA DescribesKept ==
  ASSUME NEW c, NEW d, NEW row, row.start \in Nat, row.end \in Nat, Describes(c, row),
         \A h \in Cached(c) : h <= row.end => h \in Cached(d) /\ d.blocks[h] = c.blocks[h]
  PROVE  Describes(d, row)
<1>1. /\ DOMAIN row.body = row.start .. row.end
      /\ row.body = [h \in (row.start .. row.end) \cap Cached(c) |-> c.blocks[h]]
  BY DEF Describes, Records, Restrict
<1>2. (row.start .. row.end) \cap Cached(c) = row.start .. row.end
  BY <1>1
<1>3. \A h \in row.start .. row.end : h \in Cached(d) /\ d.blocks[h] = c.blocks[h]
  BY <1>2
<1>4. (row.start .. row.end) \cap Cached(d) = row.start .. row.end
  BY <1>3
<1>5. row.body = [h \in (row.start .. row.end) \cap Cached(d) |-> d.blocks[h]]
  BY <1>1, <1>2, <1>3, <1>4
<1> QED
  BY <1>1, <1>5 DEF Describes, Records, Restrict

LEMMA ExportInitInv ==
  ASSUME ExportInit
  PROVE  ExportInv
<1>1. Clean(pub)
  BY EmptyClean DEF ExportInit
<1>2. WalkCurrent
  BY DEF ExportInit, Idle, WalkCurrent
<1>3. RowsCurrent
  BY DEF ExportInit, EmptyCache, RowsCurrent
<1> QED
  BY <1>1, <1>2, <1>3 DEF ExportInv

\* A block on top: its height is new, and everything else stays.
LEMMA AppendsInv ==
  ASSUME ExportInv, NEW block \in Block, AppendsBlock(block)
  PROVE  ExportInv'
<1> DEFINE h == HeightOf[block]
           batch == [g \in {h} |-> block]
<1>1. /\ UNCHANGED <<walk, stale>> /\ h \in Nat /\ Clean(pub)
      /\ pub' = append(pub, batch, None)
      /\ ~IsEmpty(pub) => h = AppendHeight(pub) /\ PrevHash[block] = latest_hash(pub)
  BY BlockAssumption DEF AppendsBlock, ExportInv
<1>2. batch[h] = block /\ DOMAIN batch = {h} /\ batch \in [{h} -> Block]
  OBVIOUS
<1> HIDE DEF batch, h
<1>3. ChainedRun(batch, h, h)
  <2>1. h .. h = {h} /\ h - 1 \notin h .. h
    BY <1>1
  <2> QED
    BY <1>1, <1>2, <2>1 DEF ChainedRun, h
<1>4. Clean(pub')
  BY <1>1, <1>2, <1>3, AppendClean
<1>5. h \notin Cached(pub)
  <2>1. CASE IsEmpty(pub)
    BY <2>1 DEF IsEmpty
  <2>2. CASE ~IsEmpty(pub)
    <3>1. /\ latest_height(pub) \in Nat
          /\ \A g \in Cached(pub) : g \in Nat /\ g <= latest_height(pub)
      BY <2>2, <1>1, CachedIsInterval DEF Clean
    <3>2. h = latest_height(pub) + 1
      BY <1>1, <2>2 DEF AppendHeight
    <3> QED
      BY <3>1, <3>2
  <2> QED
    BY <2>1, <2>2
<1>6. /\ \A g \in Cached(pub) : g \in Cached(pub') /\ pub'.blocks[g] = pub.blocks[g]
      /\ pub'.digests = pub.digests
  <2>1. pub'.digests = pub.digests
    BY <1>1 DEF append
  <2> QED
    BY <1>1, <1>2, <1>5, <2>1, AppendAdds
<1>7. ASSUME NEW row, row.start \in Nat, row.end \in Nat, Describes(pub, row)
      PROVE  Describes(pub', row)
  BY <1>6, <1>7, DescribesKept
<1>8. WalkCurrent'
  <2>1. WalkCurrent
    BY DEF ExportInv
  <2>2. walk.at \in {"check", "store"} /\ ~walk.raced => Describes(pub', walk.row)
    BY <1>7, <2>1, EpochHeightsNat DEF WalkCurrent, SpansEpoch
  <2> QED
    BY <1>1, <2>1, <2>2 DEF WalkCurrent
<1>9. RowsCurrent'
  <2>1. RowsCurrent
    BY DEF ExportInv
  <2>2. ASSUME NEW i \in DOMAIN pub.digests
        PROVE  /\ SpansEpoch(pub.digests[i], i)
               /\ i \notin stale => Describes(pub', pub.digests[i])
    BY <1>7, <2>1, EpochHeightsNat DEF RowsCurrent, SpansEpoch
  <2> QED
    BY <1>1, <1>6, <2>2 DEF RowsCurrent
<1> QED
  BY <1>4, <1>8, <1>9 DEF ExportInv

\* A truncation drops the rows of the epochs it reaches into and marks the walk
\* it overtakes; the rows that stay end below the cut.
LEMMA TruncatesInv ==
  ASSUME ExportInv, NEW height \in Cached(pub), TruncatesFrom(height)
  PROVE  ExportInv'
<1>1. /\ Clean(pub) /\ WalkCurrent /\ RowsCurrent /\ height \in Nat
      /\ pub' = remove_from(pub, height)
      /\ stale' = stale \cap DOMAIN pub'.digests
  BY DEF ExportInv, Clean, Intact, CacheType, Cached, TruncatesFrom, truncate_from
<1>2. Clean(pub')
  BY <1>1, RemoveClean
<1>3. ASSUME NEW row, row.start \in Nat, row.end \in Nat, Describes(pub, row), row.end < height
      PROVE  Describes(pub', row)
  <2>1. \A h \in Cached(pub) : h <= row.end => h < height
    BY <1>1, <1>3 DEF Clean, Intact, CacheType, Cached
  <2>2. \A h \in Cached(pub) : h <= row.end
          => h \in Cached(pub') /\ pub'.blocks[h] = pub.blocks[h]
    BY <1>1, <2>1, RemoveFromKeeps
  <2> QED
    BY <1>3, <2>2, DescribesKept
<1>4. RowsCurrent'
  <2>1. pub'.digests = [i \in {i \in DOMAIN pub.digests : i < epoch_index(height)} |->
                          pub.digests[i]]
    BY <1>1 DEF remove_from, Restrict
  <2>2. ASSUME NEW i \in DOMAIN pub'.digests
        PROVE  /\ SpansEpoch(pub.digests[i], i)
               /\ i \notin stale' => Describes(pub', pub.digests[i])
    <3>1. /\ i \in DOMAIN pub.digests /\ i < epoch_index(height)
          /\ i \notin stale' => i \notin stale
      BY <1>1, <2>1
    <3>2. SpansEpoch(pub.digests[i], i) /\ (i \notin stale => Describes(pub, pub.digests[i]))
      BY <1>1, <3>1 DEF RowsCurrent
    <3>3. pub.digests[i].end < height
      BY <1>1, <3>1, <3>2, EarlierEpochEnds DEF SpansEpoch
    <3> QED
      BY <1>3, <3>1, <3>2, <3>3, EpochHeightsNat DEF SpansEpoch
  <2> QED
    BY <2>1, <2>2 DEF RowsCurrent
<1>5. WalkCurrent'
  <2> DEFINE reached == walk.at \in {"check", "store"} /\ height <= walk.row.end
  <2>1. walk' = [walk EXCEPT !.raced = @ \/ reached]
    BY DEF TruncatesFrom
  <2>2. /\ walk'.at = walk.at /\ walk'.index = walk.index /\ walk'.before = walk.before
        /\ walk'.row = walk.row /\ walk'.raced = (walk.raced \/ reached)
        /\ walk' = [at |-> walk'.at, index |-> walk'.index, before |-> walk'.before,
                    row |-> walk'.row, raced |-> walk'.raced]
    BY <1>1, <2>1 DEF WalkCurrent
  <2>3. walk.at \in {"check", "store"} /\ ~walk'.raced => Describes(pub', walk.row)
    <3> SUFFICES ASSUME walk.at \in {"check", "store"}, ~walk'.raced
                 PROVE  Describes(pub', walk.row)
      OBVIOUS
    <3>1. ~walk.raced /\ ~(height <= walk.row.end)
      BY <2>2
    <3>2. walk.row.start \in Nat /\ walk.row.end \in Nat
      BY <1>1, EpochHeightsNat DEF WalkCurrent, SpansEpoch
    <3>3. walk.row.end < height
      BY <1>1, <3>1, <3>2
    <3> QED
      BY <1>1, <1>3, <3>1, <3>2, <3>3 DEF WalkCurrent
  <2> HIDE DEF reached
  <2> QED
    BY <1>1, <2>2, <2>3 DEF WalkCurrent
<1> QED
  BY <1>2, <1>4, <1>5 DEF ExportInv

LEMMA StepsOnInv ==
  ASSUME ExportInv, UNCHANGED <<pub, stale>>, WalkCurrent'
  PROVE  ExportInv'
BY DEF ExportInv, RowsCurrent

LEMMA IdleCurrent ==
  ASSUME walk' = Idle
  PROVE  WalkCurrent'
BY DEF Idle, WalkCurrent

\* A step that reads no row.
LEMMA ScanCurrent ==
  ASSUME ExportInv, BeginScan \/ ScanRow \/ ReadRange, walk' # Idle
  PROVE  WalkCurrent'
<1>1. WalkCurrent /\ Clean(pub)
  BY DEF ExportInv
<1>2. CASE BeginScan
  <2>1. BaseHeight(pub) \in Nat /\ range(pub).tip \in Nat
    <3>1. ~IsEmpty(pub) /\ BaseHeight(pub) \in Nat /\ latest_height(pub) \in Nat
      BY <1>1, <1>2, CachedIsInterval DEF BeginScan, Clean
    <3> QED
      BY <3>1 DEF range
  <2>2. epoch_index(BaseHeight(pub)) \in Nat
    BY <2>1, BlockAssumption DEF epoch_index
  <2>3. walk' = [walk EXCEPT !.at = "scan", !.before = range(pub),
                             !.index = epoch_index(BaseHeight(pub))]
    BY <1>2 DEF BeginScan
  <2> QED
    BY <1>1, <2>1, <2>2, <2>3 DEF WalkCurrent
<1>3. CASE ScanRow
  <2>1. /\ walk.at = "scan" /\ walk.index \in Nat /\ walk.before.tip \in Nat
        /\ epoch_last_height(walk.index) \in Nat
    BY <1>1, <1>3, EpochHeightsNat DEF ScanRow, WalkCurrent
  <2>2. \/ walk' = [walk EXCEPT !.index = @ + 1]
        \/ walk' = [walk EXCEPT !.at = "range"]
    BY <1>3, <2>1 DEF ScanRow
  <2> QED
    BY <1>1, <2>1, <2>2 DEF WalkCurrent
<1>4. CASE ReadRange
  BY <1>1, <1>4 DEF ReadRange, WalkCurrent
<1> QED
  BY <1>2, <1>3, <1>4

LEMMA ReadBoundsCurrent ==
  ASSUME ExportInv, ReadBounds, walk' # Idle
  PROVE  WalkCurrent'
<1> DEFINE bounds == complete_epoch_bounds(pub, walk.index)
           row == [start |-> bounds.start, end |-> bounds.end, body |-> << >>]
<1>1. WalkCurrent /\ Clean(pub) /\ walk.index \in Nat
  BY DEF ExportInv, ReadBounds, WalkCurrent
<1>2. bounds # None /\ walk' = [walk EXCEPT !.at = "body", !.row = row]
  BY DEF ReadBounds
<1>3. /\ ~IsEmpty(pub)
      /\ bounds = [start |-> EpochStart(pub, walk.index), end |-> epoch_last_height(walk.index)]
  BY <1>2 DEF complete_epoch_bounds
<1>4. EpochStart(pub, walk.index) \in Nat
  <2>1. BaseHeight(pub) \in Nat /\ epoch_first_height(walk.index) \in Nat
    BY <1>1, <1>3, CachedIsInterval, EpochHeightsNat DEF Clean
  <2> QED
    BY <2>1, MaxOfTwo DEF EpochStart
<1>5. SpansEpoch(row, walk.index)
  BY <1>1, <1>3, <1>4 DEF SpansEpoch
<1> QED
  BY <1>1, <1>2, <1>5 DEF WalkCurrent

LEMMA ReadBodyCurrent ==
  ASSUME ExportInv, ReadBody, walk' # Idle
  PROVE  WalkCurrent'
<1> DEFINE body == Records(pub, walk.row.start, walk.row.end)
           row == [start |-> walk.row.start, end |-> walk.row.end, body |-> body]
<1>1. /\ WalkCurrent /\ walk.at = "body" /\ SpansEpoch(walk.row, walk.index)
      /\ walk.row = [start |-> walk.row.start, end |-> walk.row.end, body |-> walk.row.body]
  BY DEF ExportInv, ReadBody, WalkCurrent
<1>2. /\ DOMAIN body = walk.row.start .. walk.row.end
      /\ walk' = [walk EXCEPT !.at = "check", !.row.body = body, !.raced = FALSE]
  BY DEF ReadBody
<1>3. SpansEpoch(row, walk.index) /\ Describes(pub, row)
  BY <1>1, <1>2 DEF SpansEpoch, Describes
<1> HIDE DEF body
<1>4. walk' = [at |-> "check", index |-> walk.index, before |-> walk.before, row |-> row,
               raced |-> FALSE]
  <2>1. walk = [at |-> walk.at, index |-> walk.index, before |-> walk.before, row |-> walk.row,
                raced |-> walk.raced]
    BY <1>1 DEF WalkCurrent
  <2>2. [walk.row EXCEPT !.body = body] = row
    BY <1>1
  <2> QED
    BY <1>2, <2>1, <2>2
<1>5. pub' = pub /\ walk.index \in Nat
  BY <1>1 DEF ReadBody, SpansEpoch
<1> QED
  BY <1>3, <1>4, <1>5 DEF WalkCurrent

LEMMA CheckRangeCurrent ==
  ASSUME ExportInv, CheckRange, walk' # Idle
  PROVE  WalkCurrent'
<1>1. /\ WalkCurrent /\ walk.at = "check" /\ walk' = [walk EXCEPT !.at = "store"]
      /\ pub' = pub
  BY DEF ExportInv, CheckRange
<1> QED
  BY <1>1 DEF WalkCurrent

LEMMA StoreDigestInv ==
  ASSUME ExportInv, StoreDigest
  PROVE  ExportInv'
<1>1. /\ Clean(pub) /\ WalkCurrent /\ RowsCurrent /\ walk.at = "store"
      /\ pub' = set_epoch_digest(pub, walk.index, walk.row)
  BY DEF ExportInv, StoreDigest
<1>2. /\ pub'.blocks = pub.blocks /\ pub'.base = pub.base
      /\ pub' = [blocks |-> pub'.blocks, base |-> pub'.base, digests |-> pub'.digests]
      /\ pub'.digests = [i \in DOMAIN pub.digests \cup {walk.index} |->
                            IF i = walk.index THEN walk.row ELSE pub.digests[i]]
  BY <1>1 DEF set_epoch_digest, Clean, Intact, CacheType
<1>3. Clean(pub')
  BY <1>1, <1>2 DEF Clean, Intact, CacheType, Gapless, Linked, BaseRowCurrent, CorruptSuffix,
                    IsEmpty, Cached, BaseHeight
<1>4. \A row : Describes(pub', row) <=> Describes(pub, row)
  BY <1>2 DEF Describes, Records, Cached
<1>5. RowsCurrent'
  <2>1. ASSUME NEW i \in DOMAIN pub'.digests
        PROVE  /\ SpansEpoch(pub'.digests[i], i)
               /\ i \notin stale' => Describes(pub', pub'.digests[i])
    <3>1. CASE i = walk.index
      <4>1. pub'.digests[i] = walk.row
        BY <1>2, <3>1
      <4>2. i \notin stale' => ~walk.raced
        BY <3>1 DEF StoreDigest
      <4> QED
        BY <1>1, <1>4, <3>1, <4>1, <4>2 DEF WalkCurrent
    <3>2. CASE i # walk.index
      <4>1. i \in DOMAIN pub.digests /\ pub'.digests[i] = pub.digests[i]
        BY <1>2, <3>2
      <4>2. i \notin stale' => i \notin stale
        BY <3>2 DEF StoreDigest
      <4> QED
        BY <1>1, <1>4, <4>1, <4>2 DEF RowsCurrent
    <3> QED
      BY <3>1, <3>2
  <2> QED
    BY <2>1 DEF RowsCurrent
<1> QED
  BY <1>3, <1>5, IdleCurrent DEF ExportInv, StoreDigest

LEMMA ExportNextInv ==
  ASSUME ExportInv, ExportNext
  PROVE  ExportInv'
<1>1. CASE PublisherIngests
  BY <1>1, AppendsInv, TruncatesInv DEF PublisherIngests
<1>2. CASE MaintainDigests
  <2>1. CASE StoreDigest
    BY <2>1, StoreDigestInv
  <2>2. CASE ~StoreDigest
    <3>1. UNCHANGED <<pub, stale>>
      BY <1>2, <2>2 DEF MaintainDigests, BeginScan, ScanRow, ReadRange, ReadBounds, ReadBody,
                        CheckRange
    <3>2. WalkCurrent'
      BY <1>2, <2>2, IdleCurrent, ScanCurrent, ReadBoundsCurrent, ReadBodyCurrent,
         CheckRangeCurrent DEF MaintainDigests
    <3> QED
      BY <3>1, <3>2, StepsOnInv
  <2> QED
    BY <2>1, <2>2
<1> QED
  BY <1>1, <1>2 DEF ExportNext

-----------------------------------------------------------------------------
(***************************************************************************)
(* The downloads.                                                          *)
(***************************************************************************)
LEMMA ConcatTypes ==
  ASSUME NEW s \in Seq(Block), NEW t \in Seq(Block)
  PROVE  /\ s \o t \in Seq(Block) /\ Len(s \o t) = Len(s) + Len(t)
         /\ Len(s) \in Nat /\ Len(t) \in Nat
         /\ \A i \in 1 .. Len(s) + Len(t) : (s \o t)[i] =
                                             IF i <= Len(s) THEN s[i] ELSE t[i - Len(s)]
BY ConcatProperties

\* A record goes from the channel to the client; what they have together stays.
LEMMA ReadMoves ==
  ASSUME NEW s \in Seq(Block), NEW t \in Seq(Block), t # << >>
  PROVE  /\ Append(s, Head(t)) \in Seq(Block) /\ Tail(t) \in Seq(Block)
         /\ Append(s, Head(t)) \o Tail(t) = s \o t
<1> DEFINE a == Append(s, Head(t))  u == Tail(t)
<1>1. /\ a \in Seq(Block) /\ Len(a) = Len(s) + 1 /\ a[Len(s) + 1] = t[1]
      /\ \A i \in 1 .. Len(s) : a[i] = s[i]
      /\ u \in Seq(Block) /\ Len(u) = Len(t) - 1 /\ \A i \in 1 .. Len(u) : u[i] = t[i + 1]
      /\ Len(s) \in Nat /\ Len(t) \in Nat \ {0}
  OBVIOUS
<1> HIDE DEF a, u
<1>2. /\ a \o u \in Seq(Block) /\ Len(a \o u) = Len(a) + Len(u)
      /\ \A i \in 1 .. Len(a) + Len(u) : (a \o u)[i] =
                                          IF i <= Len(a) THEN a[i] ELSE u[i - Len(a)]
  BY <1>1, ConcatTypes
<1>3. \A i \in 1 .. Len(s) + Len(t) : (a \o u)[i] = (s \o t)[i]
  <2> SUFFICES ASSUME NEW i \in 1 .. Len(s) + Len(t) PROVE (a \o u)[i] = (s \o t)[i]
    OBVIOUS
  <2>1. (s \o t)[i] = IF i <= Len(s) THEN s[i] ELSE t[i - Len(s)]
    BY ConcatTypes
  <2>2. CASE i <= Len(s)
    BY <1>1, <1>2, <2>1, <2>2
  <2>3. CASE i = Len(s) + 1
    BY <1>1, <1>2, <2>1, <2>3
  <2>4. CASE i > Len(s) + 1
    <3>1. (a \o u)[i] = u[i - Len(a)] /\ i - Len(a) \in 1 .. Len(u)
      BY <1>1, <1>2, <2>4
    <3> QED
      BY <1>1, <2>1, <2>4, <3>1
  <2> QED
    BY <1>1, <2>2, <2>3, <2>4
<1>4. a \o u = s \o t
  <2>1. s \o t \in Seq(Block) /\ Len(s \o t) = Len(a \o u) /\ Len(a \o u) = Len(s) + Len(t)
    BY <1>1, <1>2, ConcatTypes
  <2> QED
    BY <1>2, <1>3, <2>1, SeqEqual
<1> QED
  BY <1>1, <1>4 DEF a, u

\* A record is sent: it comes last.
LEMMA SendAppends ==
  ASSUME NEW s \in Seq(Block), NEW t \in Seq(Block), NEW x \in Block
  PROVE  Append(t, x) \in Seq(Block) /\ s \o Append(t, x) = Append(s \o t, x)
<1> DEFINE a == Append(t, x)  st == s \o t  b == Append(st, x)  c == s \o a
           m == Len(s)  n == Len(t)
<1>1. /\ m \in Nat /\ n \in Nat
      /\ st \in Seq(Block) /\ Len(st) = m + n
      /\ \A i \in 1 .. m + n : st[i] = IF i <= m THEN s[i] ELSE t[i - m]
  BY ConcatTypes
<1>2. /\ a \in Seq(Block) /\ Len(a) = n + 1 /\ a[n + 1] = x
      /\ \A i \in 1 .. n : a[i] = t[i]
  BY AppendProperties
<1> HIDE DEF a, st
<1>3. /\ b \in Seq(Block) /\ Len(b) = m + n + 1 /\ b[m + n + 1] = x
      /\ \A i \in 1 .. m + n : b[i] = st[i]
  BY <1>1, AppendProperties
<1>4. /\ c \in Seq(Block) /\ Len(c) = m + n + 1
      /\ \A i \in 1 .. m + (n + 1) : c[i] = IF i <= m THEN s[i] ELSE a[i - m]
  <2>1. /\ c \in Seq(Block) /\ Len(c) = m + Len(a)
        /\ \A i \in 1 .. m + Len(a) : c[i] = IF i <= m THEN s[i] ELSE a[i - m]
    BY <1>2, ConcatTypes
  <2> HIDE DEF c, m, n
  <2> QED
    BY <1>1, <1>2, <2>1
<1> HIDE DEF b, c, m, n
<1>5. ASSUME NEW i \in 1 .. m + n + 1 PROVE c[i] = b[i]
  <2>1. CASE i <= m
    <3>1. i \in 1 .. m + n /\ i \in 1 .. m + (n + 1)
      BY <1>1, <2>1
    <3> QED
      BY <1>1, <1>3, <1>4, <2>1, <3>1
  <2>2. CASE i > m /\ i <= m + n
    <3>0. m \in Nat /\ n \in Nat
      BY <1>1
    <3>1. /\ i - m \in 1 .. n /\ i \in 1 .. m + n /\ ~(i <= m)
          /\ i \in 1 .. m + (n + 1)
      BY <3>0, <2>2
    <3>2. a[i - m] = t[i - m]
      BY <1>2, <3>1
    <3>3. b[i] = st[i]
      BY <1>3, <3>1
    <3>4. st[i] = t[i - m]
      BY <1>1, <3>1
    <3>5. c[i] = a[i - m]
      BY <1>4, <3>1
    <3> QED
      BY <3>2, <3>3, <3>4, <3>5
  <2>3. CASE i = m + n + 1
    <3>1. i - m = n + 1 /\ ~(i <= m) /\ i \in 1 .. m + (n + 1)
      BY <1>1, <2>3
    <3> QED
      BY <1>2, <1>3, <1>4, <2>3, <3>1
  <2> QED
    BY <1>1, <2>1, <2>2, <2>3
<1>6. c = b
  BY <1>3, <1>4, <1>5, SeqEqual
<1> QED
  BY <1>2, <1>6 DEF a, b, c, st

LEMMA LinkedAppend ==
  ASSUME NEW s \in Seq(Block), LinkedSeq(s), NEW x \in Block,
         s # << >> => PrevHash[x] = s[Len(s)]
  PROVE  LinkedSeq(Append(s, x))
<1> DEFINE a == Append(s, x)
<1>1. /\ Len(a) = Len(s) + 1 /\ a[Len(s) + 1] = x /\ \A i \in 1 .. Len(s) : a[i] = s[i]
      /\ Len(s) \in Nat /\ (Len(s) > 0 => s # << >>)
  OBVIOUS
<1> HIDE DEF a
<1>2. LinkedSeq(a)
  <2> SUFFICES ASSUME NEW k \in 1 .. Len(a) - 1 PROVE PrevHash[a[k + 1]] = a[k]
    BY DEF LinkedSeq
  <2>1. CASE k = Len(s)
    BY <1>1, <2>1
  <2>2. CASE k # Len(s)
    BY <1>1, <2>2 DEF LinkedSeq
  <2> QED
    BY <2>1, <2>2
<1> QED
  BY <1>2 DEF a

LEMMA LinkedStart ==
  ASSUME NEW s \in Seq(Block), NEW t \in Seq(Block), LinkedSeq(s \o t)
  PROVE  LinkedSeq(s)
<1>1. /\ Len(s \o t) = Len(s) + Len(t) /\ Len(s) \in Nat /\ Len(t) \in Nat
      /\ \A i \in 1 .. Len(s) : (s \o t)[i] = s[i]
  BY ConcatTypes
<1> QED
  BY <1>1 DEF LinkedSeq

\* Nothing sent and nothing read.
LEMMA FreshRun ==
  ASSUME NEW d, d.got = << >>, d.channel = << >>, d.at # "sending", IsDownload(d)
  PROVE  OneRun(d)
<1>1. Delivered(d) = << >> /\ << >> \in Seq(Block) /\ Len(<< >>) = 0
  BY EmptySeq, ConcatEmptySeq DEF Delivered
<1> QED
  BY <1>1 DEF OneRun, LinkedSeq

LEMMA NoDownloadRun == OneRun(NoDownload)
BY FreshRun DEF NoDownload, IsDownload

LEMMA OneDownloadInv ==
  ASSUME ServeInv, UNCHANGED exportVars, NEW p \in Peer, NEW d, OneRun(d), Set(p, d)
  PROVE  ServeInv'
<1>1. ExportInv'
  BY DEF ServeInv, ExportInv, exportVars, WalkCurrent, RowsCurrent
<1>2. \A q \in Peer : download'[q] = IF q = p THEN d ELSE download[q]
  BY DEF ServeInv, Set
<1>3. download' = [q \in Peer |-> download'[q]]
  BY DEF ServeInv, Set
<1>4. \A q \in Peer : OneRun(download'[q])
  BY <1>2 DEF ServeInv
<1> QED
  BY <1>1, <1>3, <1>4 DEF ServeInv

LEMMA OpenInv ==
  ASSUME ServeInv, NEW p \in Peer, NEW i, GetEpoch(p, i)
  PROVE  ServeInv'
<1> DEFINE d == [NoDownload EXCEPT !.at = "opened", !.index = i, !.reading = TRUE]
<1>1. IsDownload(d) /\ d.got = << >> /\ d.channel = << >> /\ d.at = "opened"
  <2>1. IsDownload(NoDownload) /\ NoDownload.got = << >> /\ NoDownload.channel = << >>
    BY DEF NoDownload, IsDownload
  <2>2. d = [NoDownload EXCEPT !.at = "opened", !.index = i, !.reading = TRUE]
    OBVIOUS
  <2> HIDE DEF d
  <2> QED
    BY <2>1, <2>2 DEF IsDownload
<1> HIDE DEF d
<1>2. OneRun(d)
  BY <1>1, FreshRun
<1> QED
  BY <1>2, OneDownloadInv DEF GetEpoch, d

\* The end of an export keeps what is underway to a client that reads.
LEMMA ClosedRun ==
  ASSUME NEW d, OneRun(d)
  PROVE  OneRun(Closed(d))
<1>1. CASE d.reading
  <2> DEFINE e == Closed(d)
  <2>1. /\ IsDownload(e) /\ e.at = "sent" /\ e.got = d.got /\ e.channel = d.channel
        /\ e.reading = d.reading
    BY <1>1 DEF Closed, OneRun, IsDownload
  <2> HIDE DEF e
  <2>2. OneRun(e)
    BY <2>1 DEF OneRun, IsDownload, Delivered
  <2> QED
    BY <2>2 DEF e
<1>2. CASE ~d.reading
  BY <1>2, NoDownloadRun DEF Closed
<1> QED
  BY <1>1, <1>2

LEMMA FindRowInv ==
  ASSUME ServeInv, NEW p \in Peer, FindRow(p)
  PROVE  ServeInv'
<1> DEFINE d == download[p]
           span == pub.digests[d.index].start .. pub.digests[d.index].end
           e == IF d.index \in DOMAIN pub.digests
                THEN [d EXCEPT !.at = "found", !.span = span] ELSE Closed(d)
<1>1. OneRun(d) /\ d.at = "opened" /\ UNCHANGED exportVars /\ Set(p, e)
  BY DEF ServeInv, FindRow
<1> HIDE DEF d, span
<1>2. OneRun(e)
  <2>1. CASE d.index \in DOMAIN pub.digests
    <3>1. /\ IsDownload(e) /\ e.at = "found" /\ e.got = << >> /\ e.channel = << >>
      BY <1>1, <2>1 DEF OneRun, IsDownload
    <3> HIDE DEF e
    <3> QED
      BY <3>1, FreshRun
  <2>2. CASE d.index \notin DOMAIN pub.digests
    BY <1>1, <2>2, ClosedRun
  <2> QED
    BY <2>1, <2>2
<1> HIDE DEF e
<1> QED
  BY <1>1, <1>2, OneDownloadInv

\* The records of an epoch come from one state of a clean cache.
LEMMA ReadEpochInv ==
  ASSUME ServeInv, NEW p \in Peer, ReadEpoch(p)
  PROVE  ServeInv'
<1> DEFINE d == download[p]
           lo == Min(d.span)
           hi == Max(d.span)
           records == Records(pub, lo, hi)
           e == [d EXCEPT !.at = "sending", !.next = lo, !.records = records]
<1>1. OneRun(d) /\ d.at = "found" /\ UNCHANGED exportVars /\ Set(p, e) /\ Clean(pub)
  BY DEF ServeInv, ExportInv, ReadEpoch
<1> HIDE DEF d, lo, hi
<1>2. /\ DOMAIN records \subseteq Nat
      /\ \A h \in DOMAIN records :
           /\ records[h] \in Block
           /\ h - 1 \in DOMAIN records => PrevHash[records[h]] = records[h - 1]
  <2>1. DOMAIN records \subseteq Cached(pub) /\ \A h \in DOMAIN records : records[h] = pub.blocks[h]
    BY DEF Records, Restrict
  <2>2. /\ Cached(pub) \subseteq Nat
        /\ \A h \in Cached(pub) : pub.blocks[h] \in Block
        /\ \A h \in Cached(pub) : h - 1 \in Cached(pub) => PrevHash[pub.blocks[h]] = pub.blocks[h - 1]
    BY <1>1 DEF Clean, Intact, CacheType, Linked, Cached, Entry
  <2> HIDE DEF records
  <2> QED
    BY <2>1, <2>2
<1> HIDE DEF records
<1>3. /\ IsDownload(e) /\ e.at = "sending" /\ e.records = records
      /\ e.got = << >> /\ e.channel = << >>
  <2>1. IsDownload(d) /\ d.got = << >> /\ d.channel = << >>
    BY <1>1 DEF OneRun
  <2>2. e = [d EXCEPT !.at = "sending", !.next = lo, !.records = records]
    OBVIOUS
  <2> HIDE DEF e
  <2> QED
    BY <2>1, <2>2 DEF IsDownload
<1> HIDE DEF e
<1>4. Delivered(e) = << >> /\ << >> \in Seq(Block) /\ Len(<< >>) = 0
  BY <1>3, EmptySeq, ConcatEmptySeq DEF Delivered
<1>5. OneRun(e)
  BY <1>2, <1>3, <1>4 DEF OneRun, IsDownload, LinkedSeq
<1> QED
  BY <1>1, <1>5, OneDownloadInv

\* The record sent next is linked to the one sent last.
LEMMA SendInv ==
  ASSUME ServeInv, NEW p \in Peer, Send(p)
  PROVE  ServeInv'
<1> DEFINE d == download[p]
           x == d.records[d.next]
           e == [d EXCEPT !.next = @ + 1, !.channel = Append(@, x)]
<1>1. /\ OneRun(d) /\ d.at = "sending" /\ d.reading /\ d.next \in DOMAIN d.records
      /\ UNCHANGED exportVars /\ Set(p, e)
  BY DEF ServeInv, Send
<1> HIDE DEF d
<1>2. /\ d.got \in Seq(Block) /\ d.channel \in Seq(Block) /\ x \in Block /\ d.next \in Nat
      /\ LinkedSeq(Delivered(d)) /\ LinkedSeq(d.got)
      /\ Delivered(d) # << >> => PrevHash[x] = Delivered(d)[Len(Delivered(d))]
  BY <1>1 DEF OneRun
<1>3. /\ IsDownload(e) /\ e.at = "sending" /\ e.reading /\ e.next = d.next + 1
      /\ e.records = d.records /\ e.got = d.got /\ e.channel = Append(d.channel, x)
  <2>1. IsDownload(d)
    BY <1>1 DEF OneRun
  <2>2. e = [d EXCEPT !.next = @ + 1, !.channel = Append(@, x)]
    OBVIOUS
  <2> HIDE DEF e
  <2> QED
    BY <1>1, <2>1, <2>2 DEF IsDownload
<1> HIDE DEF e
<1>4. Delivered(d) \in Seq(Block)
  BY <1>2, ConcatTypes DEF Delivered
<1>5. Delivered(e) = Append(Delivered(d), x) /\ e.channel \in Seq(Block)
  <2> HIDE DEF x
  <2>1. /\ Append(d.channel, x) \in Seq(Block)
        /\ d.got \o Append(d.channel, x) = Append(d.got \o d.channel, x)
    BY <1>2, SendAppends
  <2> QED
    BY <1>3, <2>1 DEF Delivered
<1>6. LinkedSeq(Delivered(e))
  BY <1>2, <1>4, <1>5, LinkedAppend
<1>7. Delivered(e)[Len(Delivered(e))] = x
  BY <1>2, <1>4, <1>5, AppendProperties
<1>8. e.next - 1 = d.next /\ x = d.records[d.next]
  BY <1>2, <1>3
<1> HIDE DEF x
<1>9. OneRun(e)
  BY <1>1, <1>2, <1>3, <1>5, <1>6, <1>7, <1>8 DEF OneRun, IsDownload
<1> QED
  BY <1>1, <1>9, OneDownloadInv

LEMMA EndsInv ==
  ASSUME ServeInv, NEW p \in Peer, SendFails(p) \/ ExportEnds(p)
  PROVE  ServeInv'
BY ClosedRun, NoDownloadRun, OneDownloadInv DEF ServeInv, SendFails, ExportEnds

LEMMA ClientReadsInv ==
  ASSUME ServeInv, NEW p \in Peer, ClientReads(p)
  PROVE  ServeInv'
<1> DEFINE d == download[p]
           e == [d EXCEPT !.channel = Tail(@), !.got = Append(@, Head(d.channel))]
<1>1. /\ OneRun(d) /\ d.reading /\ d.channel # << >> /\ UNCHANGED exportVars /\ Set(p, e)
  BY DEF ServeInv, ClientReads
<1> HIDE DEF d
<1>2. /\ d.got \in Seq(Block) /\ d.channel \in Seq(Block) /\ LinkedSeq(Delivered(d))
      /\ d.at \notin {"none", "opened", "found"}
  BY <1>1 DEF OneRun
<1>3. /\ IsDownload(e) /\ e.at = d.at /\ e.reading = d.reading /\ e.next = d.next
      /\ e.records = d.records
      /\ e.got = Append(d.got, Head(d.channel)) /\ e.channel = Tail(d.channel)
  <2>1. IsDownload(d)
    BY <1>1 DEF OneRun
  <2>2. e = [d EXCEPT !.channel = Tail(@), !.got = Append(@, Head(d.channel))]
    OBVIOUS
  <2> HIDE DEF e
  <2> QED
    BY <1>1, <2>1, <2>2 DEF IsDownload
<1> HIDE DEF e
<1>4. Delivered(e) = Delivered(d) /\ e.got \in Seq(Block) /\ e.channel \in Seq(Block)
  BY <1>1, <1>2, <1>3, ReadMoves DEF Delivered
<1>5. LinkedSeq(e.got)
  BY <1>2, <1>4, LinkedStart DEF Delivered
<1>6. OneRun(e)
  BY <1>1, <1>2, <1>3, <1>4, <1>5 DEF OneRun, IsDownload
<1> QED
  BY <1>1, <1>6, OneDownloadInv

LEMMA ClientLeavesInv ==
  ASSUME ServeInv, NEW p \in Peer, ClientLeaves(p)
  PROVE  ServeInv'
<1> DEFINE d == download[p]
           e == [d EXCEPT !.reading = FALSE, !.channel = << >>]
<1>1. /\ OneRun(d) /\ UNCHANGED exportVars /\ Set(p, IF d.at = "sent" THEN NoDownload ELSE e)
  BY DEF ServeInv, ClientLeaves
<1> HIDE DEF d
<1>2. /\ IsDownload(e) /\ e.at = d.at /\ ~e.reading /\ e.records = d.records
      /\ e.got = d.got /\ e.channel = << >>
  <2>1. IsDownload(d)
    BY <1>1 DEF OneRun
  <2>2. e = [d EXCEPT !.reading = FALSE, !.channel = << >>]
    OBVIOUS
  <2> HIDE DEF e
  <2> QED
    BY <1>1, <2>1, <2>2 DEF IsDownload
<1> HIDE DEF e
<1>3. OneRun(e)
  BY <1>1, <1>2, EmptySeq DEF OneRun, IsDownload
<1> QED
  BY <1>1, <1>3, NoDownloadRun, OneDownloadInv

LEMMA ServeNextInv ==
  ASSUME ServeInv, ServeNext
  PROVE  ServeInv'
<1>1. CASE ExportNext /\ UNCHANGED <<download, requests>>
  <2>1. ExportInv'
    BY <1>1, ExportNextInv DEF ServeInv
  <2> QED
    BY <1>1, <2>1 DEF ServeInv
<1>2. ASSUME NEW p \in Peer,
             \/ \E i \in DOMAIN pub.digests : GetEpoch(p, i)
             \/ Exports(p) \/ ClientReads(p) \/ ClientLeaves(p)
      PROVE  ServeInv'
  BY <1>2, OpenInv, FindRowInv, ReadEpochInv, SendInv, EndsInv, ClientReadsInv,
     ClientLeavesInv DEF Exports
<1> QED
  BY <1>1, <1>2 DEF ServeNext

LEMMA ServeStutterInv ==
  ASSUME ServeInv, UNCHANGED serveVars
  PROVE  ServeInv'
<1>1. UNCHANGED <<pub, walk, stale, download>>
  BY DEF serveVars, exportVars
<1>2. ExportInv'
  BY <1>1 DEF ServeInv, ExportInv, WalkCurrent, RowsCurrent
<1> QED
  BY <1>1, <1>2 DEF ServeInv

-----------------------------------------------------------------------------
(***************************************************************************)
(* The walk, the ingestor's commits and the downloads keep the inductive   *)
(* invariant in any order.                                                 *)
(***************************************************************************)
THEOREM ServeConsistent == ServeSpec => []ServeInv
<1>1. ServeInit => ServeInv
  BY ExportInitInv, NoDownloadRun DEF ServeInit, ServeInv
<1>2. ServeInv /\ [ServeNext]_serveVars => ServeInv'
  BY ServeNextInv, ServeStutterInv
<1> QED
  BY <1>1, <1>2, PTL DEF ServeSpec

(***************************************************************************)
(* Every digest row that no truncation overtook between the walk's read    *)
(* and its store describes the blocks cached now (remove_from drops the    *)
(* rows of the epochs it reaches into).                                    *)
(***************************************************************************)
THEOREM DigestsCurrent == ServeSpec => []DigestsCurrentUnlessRaced
<1>1. ServeInv => DigestsCurrentUnlessRaced
  BY DEF ServeInv, ExportInv, RowsCurrent, DigestsCurrentUnlessRaced
<1> QED
  BY <1>1, ServeConsistent, PTL

(***************************************************************************)
(* No client receives a spliced body, whatever the ingestor does to the    *)
(* epoch while it is streamed (for_each_raw's one read transaction).       *)
(***************************************************************************)
THEOREM BodiesUnspliced == ServeSpec => []BodyIsOneRun
<1>1. ServeInv => BodyIsOneRun
  BY DEF ServeInv, OneRun, LinkedSeq, BodyIsOneRun
<1> QED
  BY <1>1, ServeConsistent, PTL

-----------------------------------------------------------------------------
(***************************************************************************)
(* The snapshot import, for any chains of the node, any runs of the peer   *)
(* and any epoch size: what it leaves in the cache is one linked run, and  *)
(* an epoch it commits is part of one chain the node was on.               *)
(*                                                                         *)
(* Every hash the lookups return is of a block the node had at that height *)
(* on some chain.  A body equal to them is therefore filed at the right    *)
(* heights, and, being linked, belongs to the chain that answered for its  *)
(* last block, whatever chains answered for the others.                    *)
(***************************************************************************)

\* A manifest entry: an interval of heights cut from some run.
Published ==
  {[index |-> i, start |-> a, end |-> b, digest |-> Restrict(p, a .. b)] :
     i \in Nat, a \in Nat, b \in Nat, p \in PeerRuns}

\* The local variables of the import.
ImportTypes ==
  /\ node \in NodeChains /\ peer \in PeerRuns /\ held \subseteq NodeChains
  /\ import = [at |-> import.at, base |-> import.base, entries |-> import.entries,
               node_tip |-> import.node_tip, attempt |-> import.attempt,
               body |-> import.body, hashes |-> import.hashes]
  /\ import.entries \in Seq(Published)

\* The entry in flight covers the next height.
Covers == import.entries # << >> /\ next_height \in entry.start .. entry.end

\* The hashes looked up so far are blocks of chains the node was on.
Anchored ==
  /\ node \in held
  /\ import.body = entry.digest /\ LinkedRun(import.body)
  /\ DOMAIN import.hashes \subseteq DOMAIN import.body
  /\ \A h \in DOMAIN import.hashes :
       \E chain \in held : h \in DOMAIN chain /\ import.hashes[h] = chain[h]

\* The inductive invariant.
ImportInv ==
  /\ ImportTypes
  /\ Clean(cache)
  /\ import.at \in {"verify", "lookup"} => Covers
  /\ import.at = "lookup" => Anchored

-----------------------------------------------------------------------------
(***************************************************************************)
(* What the peer publishes.                                                *)
(***************************************************************************)
LEMMA PublishedParts ==
  ASSUME NEW e \in Published
  PROVE  /\ e.index \in Nat /\ e.start \in Nat /\ e.end \in Nat
         /\ DOMAIN e.digest = e.start .. e.end
BY DEF Published, Restrict

LEMMA PeerBaseNat ==
  ASSUME ImportTypes
  PROVE  PeerBase \in Nat /\ epoch_index(PeerBase) \in Nat
<1>1. PeerBase \in Nat
  BY ImportAssumption DEF ImportTypes, PeerBase
<1> QED
  BY <1>1, BlockAssumption DEF epoch_index

LEMMA EntryOfPublished ==
  ASSUME ImportTypes, NEW i \in Nat
  PROVE  EntryOf(i) \in Published
<1>1. epoch_first_height(i) \in Nat /\ epoch_last_height(i) \in Nat
  BY BlockAssumption DEF epoch_first_height, epoch_last_height
<1>2. Max({epoch_first_height(i), PeerBase}) \in Nat
  BY <1>1, PeerBaseNat, MaxOfTwo
<1> QED
  BY <1>1, <1>2 DEF ImportTypes, EntryOf, Published

LEMMA ManifestPublished ==
  ASSUME ImportTypes
  PROVE  manifest \in Seq(Published)
<1> DEFINE shown == {i \in 0 .. epoch_index(Max(DOMAIN peer)) : Publishes(i)}
           first == epoch_index(PeerBase)
           count == Cardinality(shown)
<1>1. count \in Nat
  <2>1. epoch_index(Max(DOMAIN peer)) \in Nat
    <3>1. Max(DOMAIN peer) \in Nat
      BY ImportAssumption DEF ImportTypes
    <3> QED
      BY <3>1, BlockAssumption DEF epoch_index
  <2>2. IsFiniteSet(0 .. epoch_index(Max(DOMAIN peer)))
    BY <2>1, FS_Interval
  <2>3. IsFiniteSet(shown)
    BY <2>2, FS_Subset
  <2> QED
    BY <2>3, FS_CardinalityType
<1>2. manifest = [k \in 1 .. count |-> EntryOf(first + k - 1)]
  BY DEF manifest
<1> HIDE DEF count, first
<1>3. \A k \in 1 .. count : EntryOf(first + k - 1) \in Published
  <2>1. first \in Nat
    BY PeerBaseNat DEF first
  <2>2. \A k \in 1 .. count : first + k - 1 \in Nat
    BY <1>1, <2>1
  <2> QED
    BY <2>2, EntryOfPublished
<1>4. manifest \in [1 .. count -> Published]
  BY <1>2, <1>3
<1> QED
  BY <1>1, <1>4, SeqDef

\* The heights at hand are natural numbers.
LEMMA NextHeightNat ==
  ASSUME ImportTypes, Clean(cache), import.entries # << >>
  PROVE  entry \in Published /\ next_height \in Nat
<1>1. entry \in Published
  BY HeadTailProperties DEF ImportTypes, entry
<1>2. CASE IsEmpty(cache)
  BY <1>1, <1>2, PublishedParts DEF next_height
<1>3. CASE ~IsEmpty(cache)
  <2>1. latest_height(cache) \in Nat
    BY <1>3, CachedIsInterval DEF Clean
  <2> QED
    BY <1>1, <1>3, <2>1 DEF next_height, AppendHeight
<1> QED
  BY <1>1, <1>2, <1>3

-----------------------------------------------------------------------------
(***************************************************************************)
(* The steps.                                                              *)
(***************************************************************************)
LEMMA InitInv ==
  ASSUME ImportInit
  PROVE  ImportInv
<1>1. ImportTypes
  BY EmptySeq DEF ImportInit, ImportTypes, NoImport
<1>2. Clean(cache)
  BY EmptyClean DEF ImportInit, Clean
<1> QED
  BY <1>1, <1>2 DEF ImportInit, NoImport, ImportInv

\* While the cache and the import stay, so does what they cover.
LEMMA SameCovers ==
  ASSUME UNCHANGED <<cache, import>>, Covers
  PROVE  Covers'
BY DEF Covers, next_height, entry, IsEmpty, Cached, AppendHeight, latest_height

LEMMA MovesInv ==
  ASSUME ImportInv,
         \/ \E chain \in NodeChains : NodeMoves(chain)
         \/ \E run \in PeerRuns : PeerMoves(run)
  PROVE  ImportInv'
<1>1. /\ UNCHANGED <<cache, import>>
      /\ node' \in NodeChains /\ peer' \in PeerRuns /\ held' \subseteq NodeChains
      /\ import.at = "lookup" => held \subseteq held' /\ (node \in held => node' \in held')
  BY DEF ImportInv, ImportTypes, NodeMoves, PeerMoves
<1>2. ImportTypes'
  BY <1>1 DEF ImportInv, ImportTypes
<1>3. import.at = "lookup" => Anchored'
  BY <1>1 DEF ImportInv, Anchored, LinkedRun, entry
<1> QED
  BY <1>1, <1>2, <1>3, SameCovers DEF ImportInv

\* Any step that leaves the import with nothing in flight.
LEMMA IdleInv ==
  ASSUME ImportInv, Clean(cache)', UNCHANGED <<node, peer>>, held' \subseteq NodeChains,
         import' = [at |-> import'.at, base |-> import'.base, entries |-> import'.entries,
                    node_tip |-> import'.node_tip, attempt |-> import'.attempt,
                    body |-> import'.body, hashes |-> import'.hashes],
         import'.entries \in Seq(Published), import'.at \notin {"verify", "lookup"}
  PROVE  ImportInv'
BY DEF ImportInv, ImportTypes

LEMMA DegradedInv ==
  ASSUME ImportInv, UNCHANGED <<node, peer, cache>>, held' \subseteq NodeChains,
         import' \in {Degraded, NoImport}
  PROVE  ImportInv'
<1>1. Clean(cache)'
  BY DEF ImportInv
<1>2. /\ import' = [at |-> import'.at, base |-> import'.base, entries |-> import'.entries,
                    node_tip |-> import'.node_tip, attempt |-> import'.attempt,
                    body |-> import'.body, hashes |-> import'.hashes]
      /\ import'.entries = << >> /\ import'.at \notin {"verify", "lookup"}
  BY DEF Degraded, NoImport
<1> QED
  BY <1>1, <1>2, EmptySeq, IdleInv

LEMMA ManifestInv ==
  ASSUME ImportInv, ReadOwnRange \/ ReadManifest \/ GetBlockchainInfo \/ SkipHeld
  PROVE  ImportInv'
<1>1. /\ UNCHANGED <<node, peer, cache, held>> /\ held \subseteq NodeChains /\ Clean(cache)'
  BY DEF ReadOwnRange, ReadManifest, GetBlockchainInfo, SkipHeld, ImportInv, ImportTypes
<1>2. import.entries \in Seq(Published) /\ ImportTypes
  BY DEF ImportInv, ImportTypes
<1>3. CASE ReadOwnRange
  BY <1>1, <1>2, <1>3, IdleInv DEF ReadOwnRange, ImportTypes
<1>4. CASE ReadManifest
  BY <1>1, <1>2, <1>4, ManifestPublished, IdleInv DEF ReadManifest, ImportTypes
<1>5. CASE GetBlockchainInfo /\ import' = Degraded
  BY <1>1, <1>5, DegradedInv DEF GetBlockchainInfo
<1>6. CASE GetBlockchainInfo /\ import' # Degraded
  BY <1>1, <1>2, <1>6, IdleInv DEF GetBlockchainInfo, ImportTypes
<1>7. CASE SkipHeld
  <2>1. Tail(import.entries) \in Seq(Published)
    BY <1>2, <1>7, HeadTailProperties DEF SkipHeld
  <2> QED
    BY <1>1, <1>2, <1>7, <2>1, IdleInv DEF SkipHeld, ImportTypes
<1> QED
  BY <1>3, <1>4, <1>5, <1>6, <1>7

LEMMA FetchInv ==
  ASSUME ImportInv, FetchBody \/ FetchFails
  PROVE  ImportInv'
<1>1. /\ UNCHANGED <<node, peer, cache, held>> /\ held \subseteq NodeChains /\ Clean(cache)'
      /\ WantsBody /\ ImportTypes /\ Clean(cache)
  BY DEF FetchBody, FetchFails, ImportInv, ImportTypes
<1>2. CASE import' = Degraded
  BY <1>1, <1>2, DegradedInv
<1>3. CASE FetchFails /\ import' # Degraded
  BY <1>1, <1>3, IdleInv DEF FetchFails, ImportTypes, WantsBody
<1>4. CASE FetchBody /\ import' # Degraded
  <2>1. Covers
    BY <1>1, NextHeightNat, PublishedParts DEF WantsBody, Covers
  <2>2. import' = [import EXCEPT !.at = "verify", !.attempt = 1,
                                 !.body = EntryOf(entry.index).digest]
    BY <1>4 DEF FetchBody
  <2>3. ImportTypes' /\ import'.entries = import.entries /\ import'.at = "verify"
    BY <1>1, <2>2 DEF ImportTypes
  <2>4. Covers'
    BY <2>1, <2>3, <1>1 DEF Covers, next_height, entry, IsEmpty, Cached, AppendHeight,
                            latest_height
  <2> QED
    BY <1>1, <2>3, <2>4 DEF ImportInv
<1> QED
  BY <1>2, <1>3, <1>4

LEMMA VerifyInv ==
  ASSUME ImportInv, VerifyBody
  PROVE  ImportInv'
<1>1. /\ UNCHANGED <<node, peer, cache>> /\ held' = {node} /\ held' \subseteq NodeChains
      /\ Clean(cache)' /\ ImportTypes /\ Covers
  BY DEF VerifyBody, ImportInv, ImportTypes
<1>2. CASE import' = Degraded
  BY <1>1, <1>2, DegradedInv
<1>3. CASE import' # Degraded
  <2>1. /\ import' = [import EXCEPT !.at = "lookup", !.hashes = << >>]
        /\ import.body = entry.digest /\ LinkedRun(import.body)
    BY <1>3 DEF VerifyBody
  <2>2. /\ import'.entries = import.entries /\ import'.at = "lookup" /\ import'.hashes = << >>
        /\ import'.body = import.body
    BY <1>1, <2>1 DEF ImportTypes
  <2>3. ImportTypes'
    BY <1>1, <2>1 DEF ImportTypes
  <2>4. Covers'
    BY <1>1, <2>2 DEF Covers, next_height, entry, IsEmpty, Cached, AppendHeight, latest_height
  <2>5. Anchored'
    BY <1>1, <2>1, <2>2 DEF Anchored, LinkedRun, entry
  <2> QED
    BY <1>1, <2>2, <2>3, <2>4, <2>5 DEF ImportInv
<1> QED
  BY <1>2, <1>3

LEMMA LookupHashInv ==
  ASSUME ImportInv, NEW h, LookupHash(h)
  PROVE  ImportInv'
<1>1. /\ UNCHANGED <<node, peer, cache, held>> /\ Clean(cache)' /\ ImportTypes
      /\ Covers /\ Anchored
      /\ h \in DOMAIN import.body \ DOMAIN import.hashes /\ h \in DOMAIN node
  BY DEF LookupHash, ImportInv
<1> DEFINE more == [g \in DOMAIN import.hashes \cup {h} |->
                      IF g = h THEN node[h] ELSE import.hashes[g]]
<1>2. import' = [import EXCEPT !.hashes = more]
  BY DEF LookupHash
<1>3. /\ DOMAIN more \subseteq DOMAIN import.body
      /\ \A g \in DOMAIN more : \E chain \in held : g \in DOMAIN chain /\ more[g] = chain[g]
  BY <1>1 DEF Anchored
<1> HIDE DEF more
<1>4. /\ import'.entries = import.entries /\ import'.at = import.at /\ import'.hashes = more
      /\ import'.body = import.body
  BY <1>1, <1>2 DEF ImportTypes
<1>5. ImportTypes'
  BY <1>1, <1>2 DEF ImportTypes
<1>6. Covers'
  BY <1>1, <1>4 DEF Covers, next_height, entry, IsEmpty, Cached, AppendHeight, latest_height
<1>7. Anchored'
  BY <1>1, <1>3, <1>4 DEF Anchored, LinkedRun, entry
<1> QED
  BY <1>1, <1>5, <1>6, <1>7 DEF ImportInv

\* The body of an anchored epoch is of the node's blocks, each at its height.
LEMMA AnchoredBody ==
  ASSUME ImportInv, import.at = "lookup", import.body = import.hashes
  PROVE  /\ next_height \in Nat /\ entry.start \in Nat /\ entry.end \in Nat
         /\ entry.start <= next_height /\ next_height <= entry.end
         /\ DOMAIN import.body = entry.start .. entry.end
         /\ \A h \in entry.start .. entry.end :
              /\ import.body[h] \in Block /\ HeightOf[import.body[h]] = h
              /\ \E chain \in held : h \in DOMAIN chain /\ import.body[h] = chain[h]
         /\ \A h \in entry.start .. entry.end : h - 1 \in entry.start .. entry.end
                => PrevHash[import.body[h]] = import.body[h - 1]
<1>1. Covers /\ Anchored /\ ImportTypes /\ Clean(cache)
  BY DEF ImportInv
<1>2. entry \in Published /\ next_height \in Nat
  BY <1>1, NextHeightNat DEF Covers
<1>3. /\ entry.start \in Nat /\ entry.end \in Nat
      /\ DOMAIN import.body = entry.start .. entry.end
  BY <1>1, <1>2, PublishedParts DEF Anchored
<1>4. entry.start <= next_height /\ next_height <= entry.end
  BY <1>1, <1>2, <1>3 DEF Covers
<1>5. ASSUME NEW h \in entry.start .. entry.end
      PROVE  /\ import.body[h] \in Block /\ HeightOf[import.body[h]] = h
             /\ \E chain \in held : h \in DOMAIN chain /\ import.body[h] = chain[h]
  <2>1. PICK chain \in held : h \in DOMAIN chain /\ import.body[h] = chain[h]
    BY <1>1, <1>3 DEF Anchored
  <2>2. chain \in NodeChains
    BY <1>1 DEF ImportTypes
  <2>3. chain[h] \in Block /\ HeightOf[chain[h]] = h
    BY <2>1, <2>2, ImportAssumption, ChainAssumption
  <2> QED
    BY <2>1, <2>3
<1>6. \A h \in entry.start .. entry.end : h - 1 \in entry.start .. entry.end
                => PrevHash[import.body[h]] = import.body[h - 1]
  BY <1>1, <1>3 DEF Anchored, LinkedRun
<1> QED
  BY <1>2, <1>3, <1>4, <1>5, <1>6

LEMMA CommitInv ==
  ASSUME ImportInv, CommitEpoch
  PROVE  ImportInv'
<1>1. /\ UNCHANGED <<node, peer, held>> /\ held' \subseteq NodeChains
      /\ ImportTypes /\ Clean(cache) /\ Covers /\ import.at = "lookup"
  BY DEF CommitEpoch, ImportInv, ImportTypes
<1> DEFINE arriving == Restrict(import.body, next_height .. entry.end)
<1>2. CASE import' = Degraded /\ UNCHANGED cache
  BY <1>1, <1>2, DegradedInv
<1>3. CASE ~(import' = Degraded /\ UNCHANGED cache)
  <2>1. /\ import.body = import.hashes /\ check_junction(arriving[next_height])
        /\ cache' = append(cache, arriving, snapshot_base(next_height))
        /\ import' = [import EXCEPT !.at = "next", !.entries = Tail(@),
                                    !.body = << >>, !.hashes = << >>]
    BY <1>3 DEF CommitEpoch, verify_anchor
  <2>2. Tail(import.entries) \in Seq(Published)
    BY <1>1, HeadTailProperties DEF Covers, ImportTypes
  <2>3. ChainedRun(arriving, next_height, entry.end)
    <3>1. \A h \in next_height .. entry.end : h \in entry.start .. entry.end
      BY <1>1, <2>1, AnchoredBody
    <3>2. \A h \in next_height .. entry.end : arriving[h] = import.body[h]
      BY DEF Restrict
    <3>3. arriving \in [next_height .. entry.end -> Block]
      BY <1>1, <2>1, <3>1, AnchoredBody DEF Restrict
    <3> HIDE DEF arriving
    <3> QED
      BY <1>1, <2>1, <3>1, <3>2, <3>3, AnchoredBody DEF ChainedRun
  <2>4. Clean(cache)'
    <3>1. next_height \in Nat /\ entry.end \in Nat /\ next_height <= entry.end
      BY <1>1, <2>1, AnchoredBody
    <3>2. /\ snapshot_base(next_height) \in {None, next_height}
          /\ snapshot_base(next_height) # None => IsEmpty(cache)
      BY DEF snapshot_base
    <3>3. ~IsEmpty(cache) => /\ next_height = AppendHeight(cache)
                             /\ PrevHash[arriving[next_height]] = latest_hash(cache)
      BY <2>1 DEF next_height, check_junction
    <3> HIDE DEF arriving
    <3> QED
      BY <1>1, <2>1, <2>3, <3>1, <3>2, <3>3, AppendClean
  <2> QED
    BY <1>1, <2>1, <2>2, <2>4, IdleInv DEF ImportTypes
<1> QED
  BY <1>2, <1>3

LEMMA IngestInv ==
  ASSUME ImportInv, Ingesting
  PROVE  ImportInv'
<1>1. /\ UNCHANGED <<node, peer, import, held>> /\ held' \subseteq NodeChains
      /\ ImportTypes /\ Clean(cache) /\ import.at = "ingest"
  BY DEF Ingesting, IngestBlock, RollBack, ImportInv, ImportTypes
<1>2. Clean(cache)'
  <2>1. CASE IngestBlock
    <3> DEFINE h == IF IsEmpty(cache) THEN StartHeight ELSE AppendHeight(cache)
               batch == Restrict(node, {h})
    <3>1. /\ h \in DOMAIN node /\ cache' = append(cache, batch, None)
          /\ ~IsEmpty(cache) => PrevHash[node[h]] = latest_hash(cache)
      BY <2>1 DEF IngestBlock
    <3>2. ~IsEmpty(cache) => h = AppendHeight(cache)
      OBVIOUS
    <3> HIDE DEF h
    <3>3. h \in Nat /\ node[h] \in Block /\ HeightOf[node[h]] = h
      BY <1>1, <3>1, ImportAssumption, ChainAssumption DEF ImportTypes
    <3>4. batch[h] = node[h] /\ batch \in [{h} -> Block]
      BY <3>3 DEF Restrict
    <3> HIDE DEF batch
    <3>5. ChainedRun(batch, h, h)
      <4>1. h .. h = {h} /\ h - 1 \notin h .. h
        BY <3>3
      <4> QED
        BY <3>3, <3>4, <4>1 DEF ChainedRun
    <3> QED
      BY <1>1, <3>1, <3>2, <3>3, <3>4, <3>5, AppendClean
  <2>2. CASE \E height \in Cached(cache) : RollBack(height)
    <3>1. PICK height \in Cached(cache) : RollBack(height)
      BY <2>2
    <3>2. height \in Nat
      BY <1>1 DEF Clean, Intact, CacheType, Cached
    <3> QED
      BY <1>1, <3>1, <3>2, RemoveClean DEF RollBack, truncate_from
  <2> QED
    BY <2>1, <2>2 DEF Ingesting
<1> QED
  BY <1>1, <1>2, IdleInv DEF ImportTypes

LEMMA StutterInv ==
  ASSUME ImportInv, UNCHANGED importVars
  PROVE  ImportInv'
<1>1. UNCHANGED <<node, peer, cache, import, held>>
  BY DEF importVars
<1>2. ImportTypes' /\ (import.at = "lookup" => Anchored')
  BY <1>1 DEF ImportInv, ImportTypes, Anchored, LinkedRun, entry
<1> QED
  BY <1>1, <1>2, SameCovers DEF ImportInv

LEMMA NextInv ==
  ASSUME ImportInv, ImportNext
  PROVE  ImportInv'
<1>1. CASE ImportStep
  <2>1. CASE ReadOwnRange \/ ReadManifest \/ GetBlockchainInfo \/ SkipHeld
    BY <2>1, ManifestInv
  <2>2. CASE StopImport \/ LookupFails \/ ImportFails
    BY <2>2, DegradedInv DEF StopImport, LookupFails, ImportFails, ImportInv, ImportTypes
  <2>3. CASE FetchBody \/ FetchFails
    BY <2>3, FetchInv
  <2>4. CASE VerifyBody \/ CommitEpoch \/ \E h \in DOMAIN import.body : LookupHash(h)
    BY <2>4, VerifyInv, CommitInv, LookupHashInv
  <2> QED
    BY <1>1, <2>1, <2>2, <2>3, <2>4 DEF ImportStep
<1>2. CASE Restart
  BY <1>2, DegradedInv DEF Restart
<1> QED
  BY <1>1, <1>2, MovesInv, IngestInv DEF ImportNext

-----------------------------------------------------------------------------
(***************************************************************************)
(* A linked body that ends with a block of a chain is a piece of that      *)
(* chain: the highest height at which it could leave the chain is below    *)
(* one at which it is on it, and that block names its predecessor.         *)
(***************************************************************************)
LEMMA OnTheLastBlocksChain ==
  ASSUME NEW chain \in NodeChains, NEW start \in Nat, NEW end \in Nat, NEW body,
         \A h \in start .. end : h - 1 \in start .. end => PrevHash[body[h]] = body[h - 1],
         end \in DOMAIN chain, body[end] = chain[end]
  PROVE  \A h \in start .. end : h \in DOMAIN chain /\ body[h] = chain[h]
<1> DEFINE strays == {h \in start .. end : ~(h \in DOMAIN chain /\ body[h] = chain[h])}
<1> SUFFICES ASSUME strays # {} PROVE FALSE
  OBVIOUS
<1>1. strays \subseteq Int /\ (\A x \in strays : x <= end) /\ end \in Int
  OBVIOUS
<1>2. Max(strays) \in strays /\ \A x \in strays : x <= Max(strays)
  <2> HIDE DEF strays
  <2> QED
    BY <1>1, MaxIsGreatest
<1> DEFINE m == Max(strays)
<1>3. m \in start .. end /\ m # end /\ m + 1 \notin strays
  <2>1. m \in start .. end /\ m # end
    BY <1>2
  <2>2. ~(m + 1 <= m)
    BY <2>1
  <2> QED
    BY <1>2, <2>1, <2>2
<1>4. ~(m \in DOMAIN chain /\ body[m] = chain[m])
  BY <1>2
<1>5. m + 1 \in start .. end /\ m + 1 > 0 /\ m + 1 - 1 = m /\ m \in Nat
  BY <1>3
<1>6. m + 1 \in DOMAIN chain /\ body[m + 1] = chain[m + 1]
  BY <1>3, <1>5
<1> HIDE DEF m, strays
<1>7. PrevHash[chain[m + 1]] = chain[m]
  BY <1>5, <1>6, ChainAssumption
<1>8. PrevHash[body[m + 1]] = body[m]
  BY <1>3, <1>5
<1>9. m \in DOMAIN chain
  <2>1. DOMAIN chain = 0 .. Max(DOMAIN chain) /\ Max(DOMAIN chain) \in Nat
    BY ImportAssumption
  <2> QED
    BY <2>1, <1>5, <1>6
<1> QED
  BY <1>4, <1>6, <1>7, <1>8, <1>9

\* What a commit adds was part of one chain the node was on during the lookups.
LEMMA CommitsOneChain ==
  ASSUME ImportInv, CommitEpoch, cache' # cache
  PROVE  \E chain \in held : \A h \in Cached(cache') \ Cached(cache) :
           h \in DOMAIN chain /\ cache'.blocks[h] = chain[h]
<1> DEFINE arriving == Restrict(import.body, next_height .. entry.end)
<1>1. /\ import.at = "lookup" /\ import.body = import.hashes
      /\ cache' = append(cache, arriving, snapshot_base(next_height))
  BY DEF CommitEpoch, verify_anchor
<1>2. PICK chain \in held : entry.end \in DOMAIN chain /\ import.body[entry.end] = chain[entry.end]
  <2>1. entry.end \in entry.start .. entry.end
    BY <1>1, AnchoredBody
  <2> QED
    BY <1>1, <2>1, AnchoredBody
<1>3. chain \in NodeChains
  BY DEF ImportInv, ImportTypes
<1>4. \A h \in entry.start .. entry.end : h \in DOMAIN chain /\ import.body[h] = chain[h]
  <2>1. /\ entry.start \in Nat /\ entry.end \in Nat
        /\ \A h \in entry.start .. entry.end : h - 1 \in entry.start .. entry.end
              => PrevHash[import.body[h]] = import.body[h - 1]
    BY <1>1, AnchoredBody
  <2> DEFINE body == import.body  a == entry.start  b == entry.end
  <2>2. /\ a \in Nat /\ b \in Nat /\ b \in DOMAIN chain /\ body[b] = chain[b]
        /\ \A h \in a .. b : h - 1 \in a .. b => PrevHash[body[h]] = body[h - 1]
    BY <1>2, <2>1
  <2> HIDE DEF body, a, b
  <2>3. \A h \in a .. b : h \in DOMAIN chain /\ body[h] = chain[h]
    BY <1>3, <2>2, OnTheLastBlocksChain
  <2> QED
    BY <2>3 DEF body, a, b
<1>5. ASSUME NEW h \in Cached(cache') \ Cached(cache)
      PROVE  h \in DOMAIN chain /\ cache'.blocks[h] = chain[h]
  <2>1. DOMAIN arriving = next_height .. entry.end
    BY DEF Restrict
  <2>2. h \in next_height .. entry.end /\ cache'.blocks[h] = arriving[h]
    <3> HIDE DEF arriving
    <3>1. /\ Cached(cache') = Cached(cache) \cup DOMAIN arriving
          /\ \A g \in DOMAIN arriving : cache'.blocks[g] = arriving[g]
      BY <1>1, AppendAdds
    <3> QED
      BY <2>1, <3>1
  <2>3. arriving[h] = import.body[h]
    BY <2>2 DEF Restrict
  <2>4. h \in entry.start .. entry.end
    BY <1>1, <2>2, AnchoredBody
  <2> QED
    BY <1>4, <2>2, <2>3, <2>4
<1> QED
  BY <1>5

-----------------------------------------------------------------------------
(***************************************************************************)
(* The import's inductive invariant holds however the peer and the node    *)
(* move between its steps, and across restarts and rollbacks.              *)
(***************************************************************************)
THEOREM ImportConsistent == ImportSpec => []ImportInv
<1>1. ImportInit => ImportInv
  BY InitInv
<1>2. ImportInv /\ [ImportNext]_importVars => ImportInv'
  BY NextInv, StutterInv
<1> QED
  BY <1>1, <1>2, PTL DEF ImportSpec

(***************************************************************************)
(* The imported cache is one gapless run of blocks linked by hash: no seam *)
(* splices one chain onto another (check_linkage, check_junction).         *)
(***************************************************************************)
THEOREM CacheLinked == ImportSpec => []ImportedLinked
<1>1. ImportInv => ImportedLinked
  <2> SUFFICES ASSUME ImportInv PROVE ImportedLinked
    OBVIOUS
  <2>1. Intact(cache) /\ Clean(cache)
    BY DEF ImportInv, Clean
  <2>2. ~IsEmpty(cache) => Cached(cache) = BaseHeight(cache) .. latest_height(cache)
    BY <2>1, CachedIsInterval
  <2>3. ASSUME NEW h \in Cached(cache), h + 1 \in Cached(cache)
        PROVE  PrevHash[cache.blocks[h + 1]] = cache.blocks[h]
    <3>1. h \in Nat /\ h + 1 - 1 = h
      BY <2>1 DEF Intact, CacheType, Cached
    <3>2. cache.blocks[h + 1] # Corrupt /\ cache.blocks[h] # Corrupt
      BY <2>1, <2>3 DEF Clean
    <3> QED
      BY <2>1, <2>3, <3>1, <3>2 DEF Intact, Linked
  <2> QED
    BY <2>2, <2>3 DEF ImportedLinked
<1> QED
  BY <1>1, ImportConsistent, PTL

(***************************************************************************)
(* The recorded snapshot base is the lowest cached height, however the     *)
(* cache was imported, extended and cut (append's and remove_from's base). *)
(***************************************************************************)
THEOREM BaseLowest == ImportSpec => []BaseIsLowest
<1>1. ImportInv => BaseIsLowest
  BY DEF ImportInv, Clean, Intact, BaseRowCurrent, BaseIsLowest
<1> QED
  BY <1>1, ImportConsistent, PTL

(***************************************************************************)
(* Every epoch the import commits was part of one chain the node was on    *)
(* while its hashes were looked up, although batches are answered in any   *)
(* order and the node may reorganise between them (verify_anchor).         *)
(***************************************************************************)
THEOREM CommittedFromOneChain == ImportSpec => ImportedFromOneChain
<1> DEFINE OneChain == import.at = "lookup" /\ cache' # cache =>
                         \E chain \in held : \A h \in Cached(cache') \ Cached(cache) :
                           h \in DOMAIN chain /\ cache'.blocks[h] = chain[h]
<1>1. ImportInv /\ [ImportNext]_importVars => [OneChain]_importVars
  <2> SUFFICES ASSUME ImportInv, ImportNext, import.at = "lookup", cache' # cache
               PROVE  CommitEpoch
    BY CommitsOneChain
  <2> QED
    BY DEF ImportNext, NodeMoves, PeerMoves, ImportStep, ReadOwnRange, ReadManifest,
           GetBlockchainInfo, SkipHeld, StopImport, FetchBody, FetchFails, VerifyBody,
           LookupHash, LookupFails, ImportFails, Ingesting, IngestBlock, RollBack, Restart
<1> QED
  BY <1>1, ImportConsistent, PTL DEF ImportSpec, ImportedFromOneChain
=============================================================================
