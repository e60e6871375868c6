-------------------------- MODULE BlockCacheProofs --------------------------
(***************************************************************************)
(* Lemmas about the operators of BlockCache: what every transaction of the *)
(* cache preserves, whatever the cache holds and however large it is.      *)
(***************************************************************************)
EXTENDS BlockCache, WellFoundedInduction, TLAPS

-----------------------------------------------------------------------------
(***************************************************************************)
(* Least and greatest elements.                                            *)
(***************************************************************************)

\* A nonempty set of integers with an upper bound has a greatest element.
LEMMA MaxIsGreatest ==
  ASSUME NEW S, S \subseteq Int, S # {}, NEW top \in Int, \A x \in S : x <= top
  PROVE  Max(S) \in S /\ \A x \in S : x <= Max(S)
<1> DEFINE T == {top - x : x \in S}
<1>1. T \subseteq Nat /\ T # {}
  <2>1. PICK x \in S : TRUE
    OBVIOUS
  <2>2. top - x \in T
    OBVIOUS
  <2>3. ASSUME NEW y \in T PROVE y \in Nat
    <3>1. PICK z \in S : y = top - z
      OBVIOUS
    <3>2. z \in Int /\ z <= top
      OBVIOUS
    <3> QED BY <3>1, <3>2
  <2> QED BY <2>2, <2>3
<1>2. PICK t \in T : \A y \in T : ~(<<y, t>> \in OpToRel(<, Nat))
  BY <1>1, NatLessThanWellFounded, WFMin
<1>3. \A y \in T : ~(y < t)
  <2> SUFFICES ASSUME NEW y \in T, y < t PROVE FALSE
    OBVIOUS
  <2>1. <<y, t>> \in OpToRel(<, Nat)
    BY <1>1 DEF OpToRel
  <2> QED BY <2>1, <1>2
<1>4. PICK m \in S : t = top - m
  OBVIOUS
<1>5. \A x \in S : x <= m
  <2> SUFFICES ASSUME NEW x \in S PROVE x <= m
    OBVIOUS
  <2>1. ~(top - x < top - m)
    BY <1>3, <1>4
  <2>2. x \in Int /\ m \in Int
    OBVIOUS
  <2> QED BY <2>1, <2>2
<1> HIDE DEF T
<1>6. \E x \in S : \A y \in S : x >= y
  BY <1>5
<1> QED BY <1>6 DEF Max

\* The bounds of an interval are its least and greatest elements.
LEMMA IntervalBounds ==
  ASSUME NEW lo \in Int, NEW hi \in Int, lo <= hi
  PROVE  Min(lo .. hi) = lo /\ Max(lo .. hi) = hi
BY DEF Min, Max

\* The smaller of two integers is one of them and below both.
LEMMA MinOfTwo ==
  ASSUME NEW a \in Int, NEW b \in Int
  PROVE  Min({a, b}) \in {a, b} /\ Min({a, b}) <= a /\ Min({a, b}) <= b
<1>1. \E x \in {a, b} : \A y \in {a, b} : x <= y
  OBVIOUS
<1> QED BY <1>1 DEF Min

\* The lower of two positive heights is one.
LEMMA SmallerOfTwo ==
  ASSUME NEW a \in Nat \ {0}, NEW b \in Nat \ {0}
  PROVE  Min({a, b}) \in Nat \ {0}
<1>1. a \in Int /\ b \in Int
  OBVIOUS
<1> QED BY <1>1, MinOfTwo

\* The larger of two naturals is one of them and above both.
LEMMA MaxOfTwo ==
  ASSUME NEW a \in Nat, NEW b \in Nat
  PROVE  Max({a, b}) \in {a, b} /\ Max({a, b}) >= a /\ Max({a, b}) >= b
<1>1. \E x \in {a, b} : \A y \in {a, b} : x >= y
  OBVIOUS
<1> QED BY <1>1 DEF Max

\* The last height of an epoch below that of a height is below the height.
LEMMA EarlierEpochEnds ==
  ASSUME NEW i \in Nat, NEW height \in Nat, i < epoch_index(height)
  PROVE  epoch_last_height(i) < height
<1> DEFINE q == height \div EpochSize
<1>1. q \in Nat /\ q * EpochSize <= height
  BY BlockAssumption
<1>2. i + 1 <= q
  BY <1>1 DEF epoch_index
<1> HIDE DEF q
<1>3. (i + 1) * EpochSize <= q * EpochSize
  BY <1>1, <1>2, BlockAssumption
<1>4. (i + 1) * EpochSize = i * EpochSize + EpochSize
  BY BlockAssumption
<1> QED BY <1>1, <1>3, <1>4, BlockAssumption DEF epoch_last_height, epoch_first_height

-----------------------------------------------------------------------------
(***************************************************************************)
(* The transactions of the cache.                                          *)
(***************************************************************************)

\* The heights of an intact, nonempty cache are the interval from its base to
\* its tip.
LEMMA CachedIsInterval ==
  ASSUME NEW c, Intact(c), ~IsEmpty(c)
  PROVE  /\ BaseHeight(c) \in Nat /\ latest_height(c) \in Nat
         /\ BaseHeight(c) <= latest_height(c)
         /\ Cached(c) = BaseHeight(c) .. latest_height(c)
<1>1. PICK lo \in Cached(c), hi \in Cached(c) : Cached(c) = lo .. hi
  BY DEF Intact, Gapless
<1>2. lo \in Nat /\ hi \in Nat /\ lo <= hi
  BY <1>1 DEF Intact, CacheType, Cached
<1>3. BaseHeight(c) = lo /\ latest_height(c) = hi
  BY <1>1, <1>2, IntervalBounds DEF BaseHeight, latest_height
<1> QED BY <1>1, <1>2, <1>3

\* Conversely, heights that fill an interval of naturals have no gap.
LEMMA IntervalIsGapless ==
  ASSUME NEW c, NEW lo \in Nat, NEW hi \in Nat, lo <= hi, Cached(c) = lo .. hi
  PROVE  Gapless(c) /\ ~IsEmpty(c) /\ BaseHeight(c) = lo /\ latest_height(c) = hi
BY IntervalBounds DEF Gapless, IsEmpty, BaseHeight, latest_height

\* remove_from keeps exactly the blocks below the height, as they were.
LEMMA RemoveFromKeeps ==
  ASSUME NEW c, NEW height
  PROVE  /\ Cached(remove_from(c, height)) = {h \in Cached(c) : h < height}
         /\ \A h \in Cached(remove_from(c, height)) :
              remove_from(c, height).blocks[h] = c.blocks[h]
BY DEF remove_from, Cached, Restrict

\* remove_from keeps the cache intact: no gap opens, no link breaks, and the
\* base row goes exactly when its block does.
LEMMA RemoveFromIntact ==
  ASSUME NEW c, Intact(c), NEW height \in Nat
  PROVE  Intact(remove_from(c, height))
<1> DEFINE d == remove_from(c, height)
<1>1. /\ Cached(d) = {h \in Cached(c) : h < height}
      /\ \A h \in Cached(d) : d.blocks[h] = c.blocks[h]
  BY RemoveFromKeeps
<1>2. d.base = IF c.base # None /\ height <= c.base THEN None ELSE c.base
  BY DEF remove_from
<1>3. CacheType(d)
  BY DEF CacheType, Intact, remove_from, Cached, Restrict
<1>4. Linked(d) /\ CorruptSuffix(d)
  BY <1>1 DEF Intact, Linked, CorruptSuffix
<1>5. CASE IsEmpty(c)
  BY <1>1, <1>2, <1>3, <1>4, <1>5 DEF Intact, Gapless, IsEmpty, BaseRowCurrent
<1>6. CASE ~IsEmpty(c)
  <2> DEFINE lo == BaseHeight(c)  hi == latest_height(c)
  <2>1. lo \in Nat /\ hi \in Nat /\ lo <= hi /\ Cached(c) = lo .. hi
    BY <1>6, CachedIsInterval
  <2>2. c.base \in Nat \cup {None} /\ (c.base # None => c.base = lo)
    BY DEF Intact, BaseRowCurrent, CacheType
  <2> HIDE DEF lo, hi, d
  <2>3. CASE height <= lo
    <3>1. Cached(d) = {}
      BY <1>1, <2>1, <2>3
    <3>2. d.base = None
      BY <1>2, <2>2, <2>3
    <3> QED BY <3>1, <3>2, <1>3, <1>4 DEF Intact, Gapless, IsEmpty, BaseRowCurrent, d
  <2>4. CASE lo < height
    <3> DEFINE top == IF hi < height THEN hi ELSE height - 1
    <3>1. top \in Nat /\ lo <= top /\ Cached(d) = lo .. top
      BY <1>1, <2>1, <2>4
    <3>2. Gapless(d) /\ ~IsEmpty(d) /\ BaseHeight(d) = lo
      BY <3>1, <2>1, IntervalIsGapless
    <3>3. d.base # None => d.base = lo
      BY <1>2, <2>2
    <3> QED BY <3>2, <3>3, <1>3, <1>4 DEF Intact, BaseRowCurrent, d
  <2> QED BY <2>1, <2>3, <2>4
<1> QED BY <1>5, <1>6

\* A run of blocks that carry their own heights and chain together, as
\* fetch_window and a verified epoch body hand it to append.
ChainedRun(batch, from, to) ==
  /\ batch \in [from .. to -> Block]
  /\ \A h \in from .. to : HeightOf[batch[h]] = h
  /\ \A h \in from .. to : h - 1 \in from .. to => PrevHash[batch[h]] = batch[h - 1]

\* What append leaves in the block table.
LEMMA AppendAdds ==
  ASSUME NEW c, NEW batch, NEW base
  PROVE  /\ Cached(append(c, batch, base)) = Cached(c) \cup DOMAIN batch
         /\ \A h \in DOMAIN batch : append(c, batch, base).blocks[h] = batch[h]
         /\ \A h \in Cached(c) \ DOMAIN batch : append(c, batch, base).blocks[h] = c.blocks[h]
         /\ append(c, batch, base).base = IF base = None THEN c.base ELSE base
BY DEF append, Cached

\* append keeps the cache intact when the run starts at the next height, links
\* to a tip that decodes, and a base is only recorded for an empty cache.
LEMMA AppendIntact ==
  ASSUME NEW c, Intact(c), NEW from \in Nat, NEW to \in Nat, from <= to,
         NEW batch, ChainedRun(batch, from, to), NEW base \in {None, from},
         base # None => IsEmpty(c),
         ~IsEmpty(c) => /\ from = AppendHeight(c)
                        /\ TipDecodes(c)
                        /\ PrevHash[batch[from]] = latest_hash(c)
  PROVE  Intact(append(c, batch, base))
<1> DEFINE d == append(c, batch, base)
<1>0. CacheType(c) /\ DOMAIN batch = from .. to
  BY DEF Intact, ChainedRun
<1>1. /\ Cached(d) = Cached(c) \cup (from .. to)
      /\ \A h \in from .. to : d.blocks[h] = batch[h]
      /\ \A h \in Cached(c) \ (from .. to) : d.blocks[h] = c.blocks[h]
      /\ d.base = IF base = None THEN c.base ELSE base
  BY <1>0, AppendAdds
<1>2. /\ d.blocks = [h \in DOMAIN d.blocks |-> d.blocks[h]]
      /\ d = [blocks |-> d.blocks, base |-> d.base, digests |-> d.digests]
  <2>1. d.blocks = [h \in Cached(c) \cup DOMAIN batch |->
                      IF h \in DOMAIN batch THEN batch[h] ELSE c.blocks[h]]
    BY DEF append
  <2> QED BY <2>1 DEF append
<1> SUFFICES Intact(d)
  OBVIOUS
<1> HIDE DEF d
<1>3. CacheType(d)
  <2>1. DOMAIN d.blocks = Cached(d)
    BY DEF Cached
  <2>2. Cached(d) \subseteq Nat
    BY <1>0, <1>1 DEF CacheType, Cached
  <2>3. \A h \in Cached(d) : d.blocks[h] \in Entry
    BY <1>0, <1>1 DEF CacheType, Cached, ChainedRun, Entry
  <2>4. d.base \in Nat \cup {None}
    BY <1>0, <1>1 DEF CacheType
  <2>5. d.blocks \in [DOMAIN d.blocks -> Entry]
    BY <1>2, <2>1, <2>3
  <2> QED BY <1>2, <2>1, <2>2, <2>4, <2>5 DEF CacheType
<1>4. CASE IsEmpty(c)
  <2>1. Cached(d) = from .. to /\ \A h \in from .. to : d.blocks[h] = batch[h] /\ batch[h] \in Block
    BY <1>1, <1>4 DEF IsEmpty, ChainedRun
  <2>2. Gapless(d) /\ ~IsEmpty(d) /\ BaseHeight(d) = from
    BY <2>1, IntervalIsGapless
  <2>3. c.base = None
    BY <1>4 DEF Intact, BaseRowCurrent
  <2>4. BaseRowCurrent(d)
    BY <1>1, <2>2, <2>3 DEF BaseRowCurrent
  <2>5. Linked(d)
    BY <2>1 DEF Linked, ChainedRun
  <2>6. CorruptSuffix(d)
    BY <2>1, BlockAssumption DEF CorruptSuffix
  <2> QED BY <1>3, <2>2, <2>4, <2>5, <2>6 DEF Intact
<1>5. CASE ~IsEmpty(c)
  <2> DEFINE lo == BaseHeight(c)  hi == latest_height(c)
  <2>1. lo \in Nat /\ hi \in Nat /\ lo <= hi /\ Cached(c) = lo .. hi /\ from = hi + 1
    BY <1>5, CachedIsInterval DEF AppendHeight
  <2>2. c.blocks[hi] # Corrupt /\ PrevHash[batch[from]] = c.blocks[hi]
    BY <1>5 DEF TipDecodes, latest_hash
  <2>3. base = None
    BY <1>5
  <2>4. c.base # None => c.base = lo
    BY DEF Intact, BaseRowCurrent
  <2> HIDE DEF lo, hi
  <2>5. Cached(d) = lo .. to /\ lo <= to
    BY <1>1, <2>1
  <2>6. Gapless(d) /\ ~IsEmpty(d) /\ BaseHeight(d) = lo
    BY <2>1, <2>5, IntervalIsGapless
  <2>7. BaseRowCurrent(d)
    BY <1>1, <2>3, <2>4, <2>6 DEF BaseRowCurrent
  <2>8. /\ \A h \in lo .. hi : d.blocks[h] = c.blocks[h]
        /\ \A h \in from .. to : d.blocks[h] = batch[h] /\ batch[h] \in Block
    BY <1>1, <2>1 DEF ChainedRun
  <2>9. \A h \in lo .. to : d.blocks[h] # Corrupt
    <3>1. \A h \in lo .. hi : c.blocks[h] # Corrupt
      BY <2>1, <2>2 DEF Intact, CorruptSuffix
    <3>2. ASSUME NEW h \in lo .. to
          PROVE  h \in lo .. hi \/ h \in from .. to
      BY <2>1
    <3>3. \A h \in lo .. hi : d.blocks[h] # Corrupt
      BY <3>1, <2>8
    <3>4. \A h \in from .. to : d.blocks[h] # Corrupt
      BY <2>8, BlockAssumption
    <3> QED BY <3>2, <3>3, <3>4
  <2>10. Linked(d)
    <3> SUFFICES ASSUME NEW h \in lo .. to
                 PROVE  /\ HeightOf[d.blocks[h]] = h
                        /\ h - 1 \in lo .. to => PrevHash[d.blocks[h]] = d.blocks[h - 1]
      BY <2>5 DEF Linked
    <3>1. CASE h <= hi
      <4>1. h \in Cached(c) /\ c.blocks[h] # Corrupt /\ d.blocks[h] = c.blocks[h]
        BY <3>1, <2>1, <2>8, <2>9
      <4>2. ASSUME h - 1 \in lo .. to
            PROVE  h - 1 \in Cached(c) /\ c.blocks[h - 1] # Corrupt /\ d.blocks[h - 1] = c.blocks[h - 1]
        BY <4>2, <3>1, <2>1, <2>8, <2>9
      <4> QED BY <4>1, <4>2 DEF Intact, Linked
    <3>2. CASE h = from
      BY <3>2, <2>1, <2>2, <2>8 DEF ChainedRun
    <3>3. CASE from < h
      <4>1. h \in from .. to /\ h - 1 \in from .. to
        BY <3>3, <2>1
      <4> QED BY <4>1, <2>8 DEF ChainedRun
    <3> QED BY <3>1, <3>2, <3>3, <2>1
  <2>11. CorruptSuffix(d)
    BY <2>5, <2>9 DEF CorruptSuffix
  <2> QED BY <1>3, <2>6, <2>7, <2>10, <2>11 DEF Intact
<1> QED BY <1>4, <1>5

\* An intact cache has no hole, so the search for corruption returns nothing or
\* a height: the one above the highest block that decodes.
LEMMA LowestCorruptHeightType ==
  ASSUME NEW c, Intact(c)
  PROVE  lowest_corrupt_height(c) \in Nat \cup {None}
<1> DEFINE holes   == (BaseHeight(c) .. latest_height(c)) \ Cached(c)
           decodes == {h \in Cached(c) : c.blocks[h] # Corrupt}
<1>1. CASE IsEmpty(c)
  BY <1>1 DEF lowest_corrupt_height
<1>2. CASE ~IsEmpty(c)
  <2>1. /\ BaseHeight(c) \in Nat /\ latest_height(c) \in Nat
        /\ Cached(c) = BaseHeight(c) .. latest_height(c)
    BY <1>2, CachedIsInterval
  <2>2. holes = {}
    BY <2>1
  <2>3. CASE decodes = {}
    BY <1>2, <2>1, <2>2, <2>3 DEF lowest_corrupt_height
  <2>4. CASE decodes # {}
    <3>1. decodes \subseteq Int /\ \A x \in decodes : x <= latest_height(c)
      BY <2>1
    <3>2. lowest_corrupt_height(c) =
            IF Max(decodes) = latest_height(c) THEN None ELSE Max(decodes) + 1
      BY <1>2, <2>2, <2>4 DEF lowest_corrupt_height
    <3>3. decodes \subseteq Nat /\ latest_height(c) \in Int
      BY <2>1
    <3> HIDE DEF decodes
    <3>4. Max(decodes) \in decodes
      BY <2>4, <3>1, <3>3, MaxIsGreatest
    <3>5. Max(decodes) \in Nat
      BY <3>3, <3>4
    <3> QED BY <3>2, <3>5
  <2> QED BY <2>3, <2>4
<1> QED BY <1>1, <1>2

\* recover is no change, or one truncation.
LEMMA RecoverIsTruncation ==
  ASSUME NEW c, Intact(c)
  PROVE  recover(c) = c \/ \E height \in Nat : recover(c) = remove_from(c, height)
<1>1. lowest_corrupt_height(c) \in Nat \cup {None}
  BY LowestCorruptHeightType
<1>2. CASE lowest_corrupt_height(c) = None
  BY <1>2 DEF recover
<1>3. CASE lowest_corrupt_height(c) # None
  <2>1. Pred(lowest_corrupt_height(c)) + 1 \in Nat
    BY <1>1, <1>3 DEF Pred
  <2>2. recover(c) = remove_from(c, Pred(lowest_corrupt_height(c)) + 1)
    BY <1>3 DEF recover, reorg
  <2> QED BY <2>1, <2>2
<1> QED BY <1>2, <1>3

\* What recover leaves decodes, but for a block at height 0, which the
\* saturating subtraction keeps.
LEMMA RecoverDrops ==
  ASSUME NEW c, Intact(c), 0 \notin Cached(c)
  PROVE  \A h \in Cached(recover(c)) : recover(c).blocks[h] # Corrupt
<1> DEFINE holes   == (BaseHeight(c) .. latest_height(c)) \ Cached(c)
           decodes == {h \in Cached(c) : c.blocks[h] # Corrupt}
           lo == BaseHeight(c)
           hi == latest_height(c)
<1>1. CASE IsEmpty(c)
  <2>1. recover(c) = c
    BY <1>1 DEF lowest_corrupt_height, recover
  <2> QED BY <1>1, <2>1 DEF IsEmpty
<1>2. CASE ~IsEmpty(c)
  <2>1. lo \in Nat /\ hi \in Nat /\ lo <= hi /\ Cached(c) = lo .. hi
    BY <1>2, CachedIsInterval
  <2>2. holes = {}
    BY <2>1
  <2>3. CASE decodes = {}
    <3>1. lowest_corrupt_height(c) = lo
      BY <1>2, <2>2, <2>3 DEF lowest_corrupt_height
    <3> HIDE DEF lo, hi
    <3>2. lo # 0 /\ lo # None
      BY <2>1, BlockAssumption
    <3>3. Pred(lo) + 1 = lo
      BY <2>1, <3>2 DEF Pred
    <3>4. recover(c) = remove_from(c, lo)
      BY <3>1, <3>2, <3>3 DEF recover, reorg
    <3>5. \A h \in Cached(c) : ~(h < lo)
      BY <2>1
    <3> QED BY <3>4, <3>5, RemoveFromKeeps
  <2>4. CASE decodes # {}
    <3> DEFINE top == Max(decodes)
    <3>1. lowest_corrupt_height(c) = IF top = hi THEN None ELSE top + 1
      BY <1>2, <2>2, <2>4 DEF lowest_corrupt_height
    <3>2. top \in decodes
      <4>1. decodes \subseteq Int /\ hi \in Int /\ \A x \in decodes : x <= hi
        BY <2>1
      <4> HIDE DEF decodes, hi
      <4> QED BY <2>4, <4>1, MaxIsGreatest
    <3> HIDE DEF top, lo, hi
    <3>3. top \in Nat /\ top \in Cached(c) /\ c.blocks[top] # Corrupt
      BY <2>1, <3>2
    <3>4. \A h \in Cached(c) : h <= top => c.blocks[h] # Corrupt
      BY <2>1, <3>3 DEF Intact, CorruptSuffix
    <3>5. CASE top = hi
      <4>1. recover(c) = c
        BY <3>1, <3>5 DEF recover
      <4> QED BY <2>1, <3>4, <3>5, <4>1
    <3>6. CASE top # hi
      <4>1. lowest_corrupt_height(c) = top + 1 /\ top + 1 # None /\ Pred(top + 1) = top
        BY <3>1, <3>3, <3>6, BlockAssumption DEF Pred
      <4>2. recover(c) = remove_from(c, top + 1)
        BY <4>1 DEF recover, reorg
      <4>3. \A h \in Cached(c) : h < top + 1 => h <= top
        BY <2>1, <3>3
      <4> QED BY <3>4, <4>2, <4>3, RemoveFromKeeps
    <3> QED BY <3>5, <3>6
  <2> QED BY <2>3, <2>4
<1> QED BY <1>1, <1>2

-----------------------------------------------------------------------------
(***************************************************************************)
(* A cache nothing in which fails to decode, as the import and the         *)
(* publication leave it.                                                   *)
(***************************************************************************)
Clean(c) == Intact(c) /\ \A h \in Cached(c) : c.blocks[h] # Corrupt

LEMMA EmptyClean == Clean(EmptyCache) /\ IsEmpty(EmptyCache)
BY BlockAssumption
   DEF Clean, Intact, EmptyCache, CacheType, Gapless, Linked, BaseRowCurrent, CorruptSuffix,
       IsEmpty, Cached, Entry

LEMMA AppendClean ==
  ASSUME NEW c, Clean(c), NEW from \in Nat, NEW to \in Nat, from <= to,
         NEW batch, ChainedRun(batch, from, to), NEW base \in {None, from},
         base # None => IsEmpty(c),
         ~IsEmpty(c) => from = AppendHeight(c) /\ PrevHash[batch[from]] = latest_hash(c)
  PROVE  Clean(append(c, batch, base))
<1> DEFINE d == append(c, batch, base)
<1>1. ~IsEmpty(c) => TipDecodes(c)
  BY CachedIsInterval DEF Clean, TipDecodes, latest_hash
<1>2. Intact(d)
  BY <1>1, AppendIntact DEF Clean
<1>3. ASSUME NEW h \in Cached(d)
      PROVE  d.blocks[h] # Corrupt
  <2>1. DOMAIN batch = from .. to /\ \A g \in DOMAIN batch : batch[g] # Corrupt
    BY BlockAssumption DEF ChainedRun
  <2>2. h \in DOMAIN batch \/ h \in Cached(c) \ DOMAIN batch
    BY <1>3, AppendAdds
  <2> QED BY <2>1, <2>2, AppendAdds DEF Clean
<1> QED BY <1>2, <1>3 DEF Clean

LEMMA RemoveClean ==
  ASSUME NEW c, Clean(c), NEW height \in Nat
  PROVE  Clean(remove_from(c, height))
<1>1. Intact(remove_from(c, height))
  BY RemoveFromIntact DEF Clean
<1> QED BY <1>1, RemoveFromKeeps DEF Clean
=============================================================================
