--------------------------- MODULE IngestorProofs ---------------------------
(***************************************************************************)
(* The safety of the ingestor for every block tree, every set of chains    *)
(* the node may follow, every window size and every bound.  IInv is the    *)
(* inductive invariant; each action is shown to keep it, first through the *)
(* one transaction by which it changes the cache.                          *)
(***************************************************************************)
EXTENDS RangeStream, BlockCacheProofs, SequenceTheorems

-----------------------------------------------------------------------------
(***************************************************************************)
(* What the node serves.                                                   *)
(***************************************************************************)

\* A chain is a run of linked blocks from genesis to its tip.
LEMMA ChainFacts ==
  ASSUME NEW c \in Chains
  PROVE  /\ TipHeight(c) \in Nat
         /\ c \in [0 .. TipHeight(c) -> Block]
         /\ \A h \in DOMAIN c : h \in Nat /\ c[h] \in Block /\ HeightOf[c[h]] = h
         /\ \A h \in DOMAIN c : h - 1 \in DOMAIN c => PrevHash[c[h]] = c[h - 1]
         /\ TipHeight(c) \in DOMAIN c
<1>1. PICK n \in DOMAIN c : /\ n \in Nat
                            /\ c \in [0 .. n -> Block]
                            /\ \A h \in 0 .. n : HeightOf[c[h]] = h
                            /\ \A h \in 1 .. n : PrevHash[c[h]] = c[h - 1]
  BY IngestorAssumption
<1>2. TipHeight(c) = n
  BY <1>1, IntervalBounds DEF TipHeight
<1>3. ASSUME NEW h \in DOMAIN c, h - 1 \in DOMAIN c PROVE h \in 1 .. n
  BY <1>1, <1>3
<1> QED BY <1>1, <1>2, <1>3

\* A stretch of a chain is a run append accepts.
LEMMA ChainIsRun ==
  ASSUME NEW c \in Chains, NEW from \in Nat, NEW to \in DOMAIN c
  PROVE  ChainedRun(Restrict(c, from .. to), from, to)
<1>1. \A h \in from .. to : h \in DOMAIN c
  BY ChainFacts
<1>2. DOMAIN Restrict(c, from .. to) = from .. to
  BY DEF Restrict
<1>3. \A h \in from .. to : Restrict(c, from .. to)[h] = c[h]
  BY DEF Restrict
<1>4. Restrict(c, from .. to) \in [from .. to -> Block]
  BY <1>1, ChainFacts DEF Restrict
<1>5. \A h \in from .. to : h - 1 \in from .. to => PrevHash[c[h]] = c[h - 1]
  BY <1>1, ChainFacts
<1>6. \A h \in from .. to : HeightOf[c[h]] = h
  BY <1>1, ChainFacts
<1> QED BY <1>3, <1>4, <1>5, <1>6 DEF ChainedRun

-----------------------------------------------------------------------------
(***************************************************************************)
(* What the ingestor decides on.                                           *)
(***************************************************************************)

\* The next height to fetch is a height.
LEMMA NextHeightType ==
  ASSUME IInv
  PROVE  NextHeight \in Nat
BY CachedIsInterval DEF IInv, TypeOK, NextHeight, AppendHeight

\* Rolling back to the floor or above it is one truncation.
LEMMA ReorgToFloorIsTruncation ==
  ASSUME NEW target \in Nat
  PROVE  \E height \in Nat : reorg_to_floor(target) = remove_from(cache, height)
<1>1. target + 1 \in Nat /\ 0 \in Nat
  OBVIOUS
<1> QED BY <1>1 DEF reorg_to_floor, truncate_from, reorg

\* The heights that arrived and chain are a prefix of the window, and the
\* blocks at them a run that append accepts on top of the cache.
LEMMA ChainedIsPrefix ==
  ASSUME IInv, WindowDone, Chained # {}
  PROVE  \E last \in Nat :
           /\ NextHeight <= last
           /\ WindowStart = NextHeight
           /\ Chained = NextHeight .. last
           /\ ChainedRun(Restrict(window, Chained), NextHeight, last)
           /\ window[NextHeight] \in Block
<1> DEFINE start == NextHeight
<1>1. start \in Nat
  BY NextHeightType
<1>2. PICK end \in DOMAIN window : DOMAIN window = start .. end
  BY DEF IInv, WindowFits, WindowDone
<1> HIDE DEF start
<1>3. end \in Nat /\ start <= end
  BY <1>1, <1>2 DEF IInv, TypeOK
<1>4. WindowStart = start
  BY <1>1, <1>2, <1>3, IntervalBounds DEF WindowStart
<1>5. Chained \subseteq start .. end
  BY <1>2 DEF Chained
<1>6. Chained \subseteq Int /\ \A x \in Chained : x <= end
  BY <1>1, <1>3, <1>5
<1> DEFINE last == Max(Chained)
<1>7. last \in Chained /\ \A x \in Chained : x <= last
  <2>1. end \in Int
    BY <1>3
  <2> QED BY <1>6, <2>1, MaxIsGreatest
<1> HIDE DEF last
<1>8. last \in Nat /\ start <= last /\ last <= end
  <2>1. last \in start .. end
    BY <1>5, <1>7
  <2> QED BY <1>1, <1>3, <2>1
<1>9. \A g \in start .. last :
        /\ window[g] \in Block
        /\ g > start => PrevHash[window[g]] = window[g - 1]
  BY <1>4, <1>7 DEF Chained
<1>10. Chained = start .. last
  <2>1. ASSUME NEW h \in start .. last PROVE h \in Chained
    <3>1. h \in DOMAIN window
      BY <1>1, <1>2, <1>3, <1>8
    <3>2. \A g \in WindowStart .. h : g \in start .. last
      BY <1>1, <1>4, <1>8
    <3> QED BY <3>1, <3>2, <1>4, <1>9 DEF Chained
  <2>2. ASSUME NEW h \in Chained PROVE h \in start .. last
    BY <1>1, <1>3, <1>5, <1>7, <1>8
  <2> QED BY <2>1, <2>2
<1>11. ChainedRun(Restrict(window, Chained), start, last)
  <2>1. \A h \in start .. last : HeightOf[window[h]] = h
    <3>1. \A h \in start .. last : h \in DOMAIN window
      BY <1>1, <1>2, <1>3, <1>8
    <3> QED BY <3>1, <1>9 DEF IInv, WindowFits
  <2>2. \A h \in start .. last : h - 1 \in start .. last => PrevHash[window[h]] = window[h - 1]
    BY <1>1, <1>8, <1>9
  <2> QED BY <1>9, <1>10, <2>1, <2>2 DEF ChainedRun, Restrict
<1>12. window[start] \in Block
  BY <1>1, <1>8, <1>9
<1> QED BY <1>4, <1>8, <1>10, <1>11, <1>12 DEF start

-----------------------------------------------------------------------------
(***************************************************************************)
(* The four things a step can do to the cache: nothing, take blocks off    *)
(* its top, put linked blocks on it, or find it damaged from a height up.  *)
(***************************************************************************)
Cuts(c, d) ==
  /\ Cached(d) \subseteq Cached(c)
  /\ \A h \in Cached(d) : d.blocks[h] = c.blocks[h]
  /\ \A h \in Cached(d), g \in Cached(c) : g < h => g \in Cached(d)

Grows(c, d) ==
  /\ Cached(c) \subseteq Cached(d) /\ Cached(c) # Cached(d)
  /\ \A h \in Cached(c) : d.blocks[h] = c.blocks[h]
  /\ \A h \in Cached(d) \ Cached(c) : d.blocks[h] \in Block /\ \A g \in Cached(c) : g < h
  /\ \A h \in Cached(c) : h + 1 \notin Cached(c) => c.blocks[h] # Corrupt

Decays(c, d) ==
  /\ Cached(d) = Cached(c)
  /\ \A h \in Cached(c) : d.blocks[h] \in {c.blocks[h], Corrupt}
  /\ \A h, g \in Cached(c) : h < g /\ d.blocks[h] = Corrupt => d.blocks[g] = Corrupt

\* A truncation cuts.
LEMMA RemoveFromCuts ==
  ASSUME NEW c, Intact(c), NEW height \in Nat
  PROVE  Cuts(c, remove_from(c, height))
<1>1. Cached(c) \subseteq Nat
  BY DEF Intact, CacheType, Cached
<1> QED BY <1>1, RemoveFromKeeps DEF Cuts

\* Cutting twice is cutting.
LEMMA CutsTransitive ==
  ASSUME NEW c, NEW d, NEW e, Cuts(c, d), Cuts(d, e)
  PROVE  Cuts(c, e)
BY DEF Cuts

\* Recovery cuts and keeps the cache intact.
LEMMA RecoverCuts ==
  ASSUME NEW c, Intact(c)
  PROVE  Intact(recover(c)) /\ Cuts(c, recover(c))
<1>1. CASE recover(c) = c
  BY <1>1 DEF Cuts
<1>2. CASE \E height \in Nat : recover(c) = remove_from(c, height)
  BY <1>2, RemoveFromIntact, RemoveFromCuts
<1> QED BY <1>1, <1>2, RecoverIsTruncation

\* An append that starts at the next height and links to the tip grows.
LEMMA AppendGrows ==
  ASSUME NEW c, Intact(c), NEW from \in Nat, NEW to \in Nat, from <= to,
         NEW batch, ChainedRun(batch, from, to), NEW base,
         ~IsEmpty(c) => from = AppendHeight(c) /\ TipDecodes(c)
  PROVE  Grows(c, append(c, batch, base))
<1> DEFINE d == append(c, batch, base)
<1>0. DOMAIN batch = from .. to /\ \A h \in from .. to : batch[h] \in Block
  BY DEF ChainedRun
<1>1. /\ Cached(d) = Cached(c) \cup (from .. to)
      /\ \A h \in from .. to : d.blocks[h] = batch[h]
      /\ \A h \in Cached(c) \ (from .. to) : d.blocks[h] = c.blocks[h]
  BY <1>0, AppendAdds
<1> SUFFICES Grows(c, d)
  OBVIOUS
<1> HIDE DEF d
<1>2. CASE IsEmpty(c)
  <2>1. Cached(c) = {} /\ Cached(d) = from .. to /\ from \in from .. to
    BY <1>1, <1>2 DEF IsEmpty
  <2> QED BY <2>1, <1>0, <1>1 DEF Grows
<1>3. CASE ~IsEmpty(c)
  <2> DEFINE lo == BaseHeight(c)  hi == latest_height(c)
  <2>1. lo \in Nat /\ hi \in Nat /\ lo <= hi /\ Cached(c) = lo .. hi /\ from = hi + 1
    BY <1>3, CachedIsInterval DEF AppendHeight
  <2>2. c.blocks[hi] # Corrupt
    BY <1>3 DEF TipDecodes, latest_hash
  <2> HIDE DEF lo, hi
  <2>3. \A h \in Cached(c) : h \notin from .. to
    BY <2>1
  <2>4. from \in Cached(d) /\ from \notin Cached(c)
    BY <1>1, <2>1
  <2>5. \A h \in Cached(d) \ Cached(c) : h \in from .. to /\ \A g \in Cached(c) : g < h
    BY <1>1, <2>1
  <2>6. \A h \in Cached(c) : h + 1 \notin Cached(c) => h = hi
    BY <2>1
  <2> QED BY <1>0, <1>1, <2>2, <2>3, <2>4, <2>5, <2>6 DEF Grows
<1> QED BY <1>2, <1>3

\* Damage from a height up that still decoded decays, and keeps everything but
\* the damaged values.
LEMMA DamageDecays ==
  ASSUME IInv, NEW height \in Cached(cache), Damage(height)
  PROVE  Intact(cache') /\ Decays(cache, cache')
<1> DEFINE c == cache  d == cache'
<1>1. CacheType(c)
  BY DEF IInv, Intact
<1>2. c = [blocks |-> c.blocks, base |-> c.base, digests |-> c.digests]
  BY <1>1 DEF CacheType
<1>3. d = [blocks |-> [h \in Cached(c) |-> IF h >= height THEN Corrupt ELSE c.blocks[h]],
           base |-> c.base, digests |-> c.digests]
  BY <1>2 DEF Damage
<1>4. c.blocks[height] # Corrupt
  BY DEF Damage
<1>5. Intact(c) /\ height \in Cached(c) /\ Cached(c) \subseteq Nat
  BY <1>1 DEF IInv, CacheType, Cached
<1> SUFFICES Intact(d) /\ Decays(c, d)
  OBVIOUS
<1> HIDE DEF c, d
<1>6. /\ Cached(d) = Cached(c)
      /\ d.base = c.base
      /\ \A h \in Cached(c) : d.blocks[h] = IF h >= height THEN Corrupt ELSE c.blocks[h]
  BY <1>3 DEF Cached
<1>7. CacheType(d)
  BY <1>1, <1>3 DEF CacheType, Cached, Entry
<1>8. \A h \in Cached(c) : c.blocks[h] = Corrupt => h > height
  BY <1>4, <1>5 DEF Intact, CorruptSuffix
<1>9. \A h, g \in Cached(c) : h < g /\ d.blocks[h] = Corrupt => d.blocks[g] = Corrupt
  BY <1>5, <1>6, <1>8
<1>10. Gapless(d) /\ BaseRowCurrent(d)
  BY <1>5, <1>6 DEF Intact, Gapless, BaseRowCurrent, BaseHeight, IsEmpty
<1>11. Linked(d)
  <2>1. \A h \in Cached(c) : d.blocks[h] # Corrupt => d.blocks[h] = c.blocks[h] /\ c.blocks[h] # Corrupt
    BY <1>6
  <2> QED BY <2>1, <1>5, <1>6 DEF Intact, Linked
<1> QED BY <1>6, <1>7, <1>9, <1>10, <1>11 DEF Intact, Decays, CorruptSuffix

\* A rollback to the floor, or above it, cuts and keeps the cache intact.
LEMMA ReorgToFloorCuts ==
  ASSUME IInv, NEW target \in Nat
  PROVE  Intact(reorg_to_floor(target)) /\ Cuts(cache, reorg_to_floor(target))
<1>1. PICK height \in Nat : reorg_to_floor(target) = remove_from(cache, height)
  BY ReorgToFloorIsTruncation
<1> QED BY <1>1, RemoveFromIntact, RemoveFromCuts DEF IInv

\* Opening the cache cuts: at corruption, at the operator's lever, or both.
LEMMA OpenCacheCuts ==
  ASSUME IInv, NEW lever \in SyncFrom \cup {None}, OpenCache(lever)
  PROVE  Intact(cache') /\ Cuts(cache, cache')
<1> DEFINE checked == IF validate_light(cache) THEN cache ELSE recover(cache)
<1>1. Intact(checked) /\ Cuts(cache, checked)
  <2>1. Intact(cache) /\ Cuts(cache, cache)
    BY DEF IInv, Cuts
  <2> QED BY <2>1, RecoverCuts
<1>2. cache' = IF lever = None THEN checked ELSE truncate_from(checked, lever)
  BY DEF OpenCache
<1>3. lever # None => lever \in Nat
  BY IngestorAssumption
<1> HIDE DEF checked
<1>4. CASE lever = None
  BY <1>1, <1>2, <1>4
<1>5. CASE lever # None
  <2>1. Intact(cache') /\ Cuts(checked, cache')
    BY <1>1, <1>2, <1>3, <1>5, RemoveFromIntact, RemoveFromCuts DEF truncate_from
  <2> QED BY <1>1, <2>1, CutsTransitive
<1> QED BY <1>4, <1>5

\* An imported epoch grows the cache.
LEMMA ImportEpochGrows ==
  ASSUME IInv, ImportEpoch
  PROVE  Intact(cache') /\ Grows(cache, cache')
<1> DEFINE next == IF IsEmpty(cache) THEN PeerBase ELSE AppendHeight(cache)
           last == epoch_last_height(epoch_index(next))
           body == Restrict(node, next .. last)
           base == IF IsEmpty(cache) THEN next ELSE None
<1>1. /\ PeerBase # None /\ next >= PeerBase /\ last \in DOMAIN node
      /\ ~IsEmpty(cache) => PrevHash[node[next]] = latest_hash(cache)
      /\ cache' = append(cache, body, base)
  BY DEF ImportEpoch
<1>2. node \in Chains /\ Intact(cache)
  BY DEF IInv, TypeOK
<1>3. next \in Nat
  BY <1>1, <1>2, CachedIsInterval, IngestorAssumption DEF AppendHeight
<1>4. last \in Nat /\ next <= last
  <2>1. EpochSize \in Nat \ {0}
    BY BlockAssumption
  <2> HIDE DEF next
  <2>2. (next \div EpochSize) \in Nat
    BY <1>3, <2>1
  <2>3. next = (next \div EpochSize) * EpochSize + (next % EpochSize)
    BY <1>3, <2>1
  <2>4. (next % EpochSize) \in 0 .. (EpochSize - 1)
    BY <1>3, <2>1
  <2> QED BY <1>3, <2>1, <2>2, <2>3, <2>4
            DEF epoch_last_height, epoch_first_height, epoch_index
<1>5. ChainedRun(body, next, last)
  BY <1>1, <1>2, <1>3, ChainIsRun
<1>6. ~IsEmpty(cache) =>
        /\ next = AppendHeight(cache)
        /\ TipDecodes(cache)
        /\ PrevHash[body[next]] = latest_hash(cache)
  <2>1. next \in next .. last
    BY <1>3, <1>4
  <2>2. body[next] = node[next]
    BY <2>1 DEF Restrict
  <2>3. next \in DOMAIN node
    BY <1>1, <1>2, <1>3, <1>4, ChainFacts
  <2>4. PrevHash[node[next]] # Corrupt
    BY <1>2, <2>3, ChainFacts, BlockAssumption
  <2> QED BY <1>1, <2>2, <2>4 DEF TipDecodes
<1>7. base \in {None, next} /\ (base # None => IsEmpty(cache))
  OBVIOUS
<1> HIDE DEF next, last, body, base
<1>8. Intact(append(cache, body, base))
  BY <1>2, <1>3, <1>4, <1>5, <1>6, <1>7, AppendIntact
<1>9. Grows(cache, append(cache, body, base))
  BY <1>2, <1>3, <1>4, <1>5, <1>6, AppendGrows
<1> QED BY <1>1, <1>8, <1>9

\* A committed window grows the cache.
LEMMA BatchCommitsGrows ==
  ASSUME IInv, BatchCommits
  PROVE  Intact(cache') /\ Grows(cache, cache')
<1> DEFINE from == NextHeight
           batch == Restrict(window, Chained)
<1>1. PICK to \in Nat : /\ from <= to
                        /\ WindowStart = from
                        /\ Chained = from .. to
                        /\ ChainedRun(batch, from, to)
                        /\ window[from] \in Block
  BY ChainedIsPrefix DEF BatchCommits
<1>2. from \in Nat /\ Intact(cache)
  BY NextHeightType DEF IInv
<1>3. ~IsEmpty(cache) =>
        /\ from = AppendHeight(cache)
        /\ TipDecodes(cache)
        /\ PrevHash[window[from]] = latest_hash(cache)
  BY <1>1 DEF BatchCommits, FirstMismatches, NextHeight
<1>4. batch[from] = window[from]
  BY <1>1, <1>2 DEF Restrict
<1>5. cache' = append(cache, batch, None)
  BY DEF BatchCommits
<1> HIDE DEF from, batch
<1>6. Intact(append(cache, batch, None))
  BY <1>1, <1>2, <1>3, <1>4, AppendIntact
<1>7. Grows(cache, append(cache, batch, None))
  BY <1>1, <1>2, <1>3, AppendGrows
<1> QED BY <1>5, <1>6, <1>7

\* Every step keeps the cache intact and does one of the four things to it.
LEMMA CacheStep ==
  ASSUME IInv, [Next]_vars
  PROVE  /\ Intact(cache')
         /\ cache' = cache \/ Cuts(cache, cache') \/ Grows(cache, cache') \/ Decays(cache, cache')
<1> DEFINE Goal ==
      /\ Intact(cache')
      /\ cache' = cache \/ Cuts(cache, cache') \/ Grows(cache, cache') \/ Decays(cache, cache')
<1>0. ASSUME cache' = cache PROVE Goal
  BY <1>0 DEF IInv
<1>1. ASSUME NEW target \in Nat, cache' = reorg_to_floor(target) PROVE Goal
  BY <1>1, ReorgToFloorCuts
<1>2. CASE UNCHANGED vars
  BY <1>0, <1>2 DEF vars
<1>3. ASSUME NEW c \in Chains, NodeMoves(c) PROVE Goal
  BY <1>0, <1>3 DEF NodeMoves
<1>4. ASSUME NEW h \in Cached(cache), Damage(h) PROVE Goal
  BY <1>4, DamageDecays
<1>5. CASE WindowElapses
  BY <1>0, <1>5 DEF WindowElapses
<1>6. CASE Restart
  BY <1>0, <1>6 DEF Restart
<1>7. ASSUME NEW lever \in SyncFrom \cup {None}, OpenCache(lever) PROVE Goal
  BY <1>7, OpenCacheCuts
<1>8. CASE ImportEpoch
  BY <1>8, ImportEpochGrows
<1>9. CASE StartIngestor
  BY <1>0, <1>9 DEF StartIngestor
<1>10. CASE TakeRepair
  <2>1. CASE NothingReported \/ RepairIgnored \/ RepairRefused
    BY <1>0, <2>1 DEF NothingReported, RepairIgnored, RepairRefused
  <2>2. CASE Repair
    <3>1. Pred(repair) \in Nat
      BY DEF Pred, IInv, TypeOK
    <3> QED BY <1>1, <2>2, <3>1 DEF Repair
  <2> QED BY <1>10, <2>1, <2>2 DEF TakeRepair
<1>11. CASE GetBlockchainInfo
  BY <1>0, <1>11 DEF GetBlockchainInfo
<1>12. CASE Decide
  <2>1. CASE StepIdle \/ StepFetches
    BY <1>0, <2>1 DEF StepIdle, StepFetches
  <2>2. CASE StepRollsBack
    <3>1. latest_height(cache) \in Nat
      BY <2>2, CachedIsInterval DEF StepRollsBack, Comparable, CaughtUp, IInv
    <3>2. Pred(latest_height(cache)) \in Nat
      BY <3>1 DEF Pred
    <3> QED BY <1>1, <2>2, <3>2 DEF StepRollsBack
  <2> QED BY <1>12, <2>1, <2>2 DEF Decide
<1>13. ASSUME NEW h \in DOMAIN window, FetchReturns(h) PROVE Goal
  BY <1>0, <1>13 DEF FetchReturns
<1>14. CASE ApplyWindow
  <2>1. CASE ReorgDetected
    <3>1. PICK last \in DOMAIN window : DOMAIN window = NextHeight .. last
      BY <2>1 DEF ReorgDetected, WindowDone, IInv, WindowFits
    <3>2. NextHeight \in Nat /\ last \in Nat
      BY NextHeightType DEF IInv, TypeOK
    <3>3. NextHeight <= last
      BY <3>1, <3>2
    <3>4. WindowStart \in Nat
      BY <3>1, <3>2, <3>3, IntervalBounds DEF WindowStart
    <3>5. Pred(Pred(WindowStart)) \in Nat
      BY <3>4 DEF Pred
    <3> QED BY <1>1, <2>1, <3>5 DEF ReorgDetected
  <2>2. CASE BatchCommits
    BY <2>2, BatchCommitsGrows
  <2>3. CASE WindowFails
    BY <1>0, <2>3 DEF WindowFails
  <2> QED BY <1>14, <2>1, <2>2, <2>3 DEF ApplyWindow
<1>15. CASE StepRecovers
  BY <1>15, RecoverCuts DEF StepRecovers, IInv
<1>16. CASE RecoveryLimitReached
  BY <1>0, <1>16 DEF RecoveryLimitReached
<1>17. CASE Fault
  BY <1>0, <1>17 DEF Fault, RepairFails, FetchBreaks, RecoveryFails, StepFails
<1>18. ASSUME NEW h \in ReportHeights, Report(h) PROVE Goal
  BY <1>0, <1>18 DEF Report
<1> QED
  BY <1>2, <1>3, <1>4, <1>5, <1>6, <1>7, <1>8, <1>9, <1>10, <1>11, <1>12, <1>13, <1>14,
     <1>15, <1>16, <1>17, <1>18
     DEF Next, Core, Environment, Startup, IngestorStep

-----------------------------------------------------------------------------
\* A result a fetch task leaves is a block of the height asked for, or no block.
LEMMA FetchedBlock ==
  ASSUME IInv, NEW h \in Nat
  PROVE  /\ compact_block(h) \in Result
         /\ compact_block(h) \in Block => HeightOf[compact_block(h)] = h
<1>1. node \in Chains
  BY DEF IInv, TypeOK
<1> QED BY <1>1, ChainFacts, IngestorAssumption DEF compact_block, Result

\* Spending leaves a record of what is left.
LEMMA SpendType ==
  ASSUME IInv, NEW k \in Occurrence, Spend(k)
  PROVE  left' \in [Occurrence -> Nat]
BY DEF Spend, IInv, TypeOK

\* The repair budget stays within its window's allowance.
LEMMA BudgetType ==
  ASSUME NEW b \in [spent : 0 .. MaxRepairs, elapsed : BOOLEAN]
  PROVE  /\ FreshBudget \in [spent : 0 .. MaxRepairs, elapsed : BOOLEAN]
         /\ Current(b) \in [spent : 0 .. MaxRepairs, elapsed : BOOLEAN]
         /\ [b EXCEPT !.elapsed = TRUE] \in [spent : 0 .. MaxRepairs, elapsed : BOOLEAN]
         /\ CanSpend(b) => Charged(b) \in [spent : 0 .. MaxRepairs, elapsed : BOOLEAN]
<1>1. FreshBudget \in [spent : 0 .. MaxRepairs, elapsed : BOOLEAN]
  BY IngestorAssumption DEF FreshBudget
<1>2. Current(b) \in [spent : 0 .. MaxRepairs, elapsed : BOOLEAN]
  BY <1>1 DEF Current
<1>3. ASSUME CanSpend(b) PROVE Charged(b) \in [spent : 0 .. MaxRepairs, elapsed : BOOLEAN]
  <2>1. Current(b).spent < MaxRepairs
    BY <1>3 DEF CanSpend
  <2>2. Current(b).spent \in Nat /\ MaxRepairs \in Nat
    BY <1>2, IngestorAssumption
  <2>3. Current(b).spent + 1 \in 0 .. MaxRepairs
    BY <2>1, <2>2
  <2> QED BY <1>2, <2>3 DEF Charged
<1> QED BY <1>1, <1>2, <1>3

\* The answer to getblockchaininfo is a height and a block.
LEMMA TipType ==
  ASSUME NEW c \in Chains
  PROVE  [height |-> TipHeight(c), hash |-> c[TipHeight(c)]] \in [height : Nat, hash : Block]
BY ChainFacts

\* What a finished step, and a restart, reset the ingestor to.
LEMMA ResetType ==
  /\ DOMAIN NoWindow = {}
  /\ NoWindow \in [DOMAIN NoWindow -> Result]
  /\ 0 \in 0 .. MaxRecoveries
  /\ \A n \in 0 .. MaxRecoveries : n < MaxRecoveries => n + 1 \in 0 .. MaxRecoveries
BY IngestorAssumption DEF NoWindow

\* Every step keeps the types.
LEMMA TypeStep ==
  ASSUME IInv, [Next]_vars
  PROVE  TypeOK'
<1> USE DEF IInv
<1>0. CacheType(cache')
  BY CacheStep DEF Intact
<1>1. CASE UNCHANGED vars
  BY <1>1 DEF vars, ingestVars, TypeOK
<1>2. ASSUME NEW c \in Chains, NodeMoves(c) PROVE TypeOK'
  BY <1>0, <1>2, SpendType DEF NodeMoves, ingestVars, TypeOK, Occurrence
<1>3. ASSUME NEW h \in Cached(cache), Damage(h) PROVE TypeOK'
  BY <1>0, <1>3, SpendType DEF Damage, ingestVars, TypeOK, Occurrence
<1>4. CASE WindowElapses
  BY <1>0, <1>4, BudgetType DEF WindowElapses, TypeOK
<1>5. CASE Restart
  BY <1>0, <1>5, BudgetType, SpendType, ResetType, IngestorAssumption
     DEF Restart, TypeOK, Occurrence
<1>6. ASSUME NEW lever \in SyncFrom \cup {None}, OpenCache(lever) PROVE TypeOK'
  BY <1>0, <1>6 DEF OpenCache, ingestVars, TypeOK
<1>7. CASE ImportEpoch
  BY <1>0, <1>7 DEF ImportEpoch, ingestVars, TypeOK
<1>8. CASE StartIngestor
  BY <1>0, <1>8, IngestorAssumption DEF StartIngestor, effective_start_height, TypeOK, CacheType
<1>9. CASE TakeRepair
  <2>1. NOTHING \in Nat \ {0}
    BY IngestorAssumption
  <2>2. CASE NothingReported
    BY <1>0, <2>2 DEF NothingReported, ingestVars, TypeOK
  <2>3. CASE RepairIgnored
    BY <1>0, <2>1, <2>3 DEF RepairIgnored, ingestVars, TypeOK
  <2>4. CASE RepairRefused
    BY <1>0, <2>4, BudgetType DEF RepairRefused, TypeOK
  <2>5. CASE Repair
    BY <1>0, <2>1, <2>5, BudgetType DEF Repair, TypeOK
  <2> QED BY <1>9, <2>2, <2>3, <2>4, <2>5 DEF TakeRepair
<1>10. CASE GetBlockchainInfo
  BY <1>0, <1>10, TipType DEF GetBlockchainInfo, TypeOK
<1>11. CASE Decide
  <2>1. CASE StepIdle \/ StepRollsBack
    BY <1>0, <2>1, ResetType DEF StepIdle, StepRollsBack, Done, TypeOK
  <2>2. CASE StepFetches
    <3> DEFINE last == Min({tip.height, NextHeight + Pred(Window)})
    <3>1. NextHeight \in Nat
      BY NextHeightType
    <3>2. window' = [h \in NextHeight .. last |-> Pending]
      BY <2>2 DEF StepFetches
    <3> HIDE DEF last
    <3>3. DOMAIN window' \subseteq Nat /\ window' \in [DOMAIN window' -> Result]
      BY <3>1, <3>2 DEF Result
    <3> QED BY <1>0, <2>2, <3>3 DEF StepFetches, TypeOK
  <2> QED BY <1>11, <2>1, <2>2 DEF Decide
<1>12. ASSUME NEW h \in DOMAIN window, FetchReturns(h) PROVE TypeOK'
  <2>1. compact_block(h) \in Result
    BY FetchedBlock DEF TypeOK
  <2> QED BY <1>0, <1>12, <2>1 DEF FetchReturns, TypeOK
<1>13. CASE ApplyWindow
  BY <1>0, <1>13, ResetType
     DEF ApplyWindow, ReorgDetected, BatchCommits, WindowFails, Done, TypeOK
<1>14. CASE StepRecovers
  BY <1>0, <1>14, ResetType DEF StepRecovers, should_recover, TypeOK
<1>15. CASE RecoveryLimitReached
  BY <1>0, <1>15, ResetType DEF RecoveryLimitReached, Done, TypeOK
<1>16. CASE RepairFails
  <2>1. NOTHING \in Nat \ {0}
    BY IngestorAssumption
  <2>2. budget' \in [spent : 0 .. MaxRepairs, elapsed : BOOLEAN]
    BY <1>16, BudgetType DEF RepairFails, TypeOK
  <2> QED BY <1>0, <1>16, <2>1, <2>2, SpendType DEF RepairFails, TypeOK, Occurrence
<1>17. ASSUME NEW h \in DOMAIN window, FetchBreaks(h) PROVE TypeOK'
  BY <1>0, <1>17, SpendType DEF FetchBreaks, Result, TypeOK, Occurrence
<1>18. CASE RecoveryFails
  BY <1>0, <1>18, SpendType, ResetType DEF RecoveryFails, should_recover, TypeOK, Occurrence
<1>19. CASE StepFails
  BY <1>0, <1>19, SpendType, ResetType DEF StepFails, Done, TypeOK, Occurrence
<1>20. ASSUME NEW h \in ReportHeights, Report(h) PROVE TypeOK'
  <2>1. h \in Nat \ {0}
    BY IngestorAssumption
  <2>2. repair' \in Nat \ {0}
    BY <1>20, <2>1, SmallerOfTwo DEF Report, reported, TypeOK
  <2> QED BY <1>0, <1>20, <2>2, SpendType DEF Report, ingestVars, TypeOK, Occurrence
<1> QED
  BY <1>1, <1>2, <1>3, <1>4, <1>5, <1>6, <1>7, <1>8, <1>9, <1>10, <1>11, <1>12, <1>13, <1>14,
     <1>15, <1>16, <1>17, <1>18, <1>19, <1>20
     DEF Next, Core, Environment, Startup, IngestorStep, Fault

\* The next height only depends on the floor and on which heights are cached.
LEMMA NextHeightStable ==
  ASSUME start_height' = start_height, Cached(cache') = Cached(cache)
  PROVE  NextHeight' = NextHeight
BY DEF NextHeight, AppendHeight, latest_height, IsEmpty

\* Every step keeps the window in flight fitting the cache.
LEMMA WindowStep ==
  ASSUME IInv, [Next]_vars
  PROVE  WindowFits'
<1>1. ASSUME window' = window, pc' = pc, start_height' = start_height,
             Cached(cache') = Cached(cache)
      PROVE  WindowFits'
  BY <1>1, NextHeightStable DEF WindowFits, IInv
<1>2. ASSUME window' \in {window, NoWindow}, pc' # "fetch"
      PROVE  WindowFits'
  BY <1>2, ResetType DEF WindowFits, IInv
<1>3. CASE UNCHANGED vars
  BY <1>1, <1>3 DEF vars, ingestVars
<1>4. CASE Environment
  <2>1. ASSUME NEW h \in Cached(cache), Damage(h) PROVE WindowFits'
    <3>1. Cached(cache') = Cached(cache)
      BY <2>1, DamageDecays DEF Decays
    <3> QED BY <1>1, <2>1, <3>1 DEF Damage, ingestVars
  <2> QED BY <1>1, <1>2, <1>4, <2>1 DEF Environment, NodeMoves, WindowElapses, Restart, ingestVars
<1>5. CASE Startup
  BY <1>2, <1>5 DEF Startup, OpenCache, ImportEpoch, StartIngestor, ingestVars
<1>6. CASE TakeRepair
  BY <1>2, <1>6
     DEF TakeRepair, NothingReported, RepairIgnored, RepairRefused, Repair, ingestVars
<1>7. CASE GetBlockchainInfo
  BY <1>2, <1>7 DEF GetBlockchainInfo
<1>8. CASE StepIdle \/ StepRollsBack
  BY <1>2, <1>8 DEF StepIdle, StepRollsBack, Done
<1>9. CASE StepFetches
  <2> DEFINE start == NextHeight
             last  == Min({tip.height, start + Pred(Window)})
  <2>1. start \in Nat /\ tip.height \in Nat /\ start <= tip.height
    BY <1>9, NextHeightType DEF StepFetches, IInv, TypeOK
  <2>2. NextHeight' = start
    BY <1>9, NextHeightStable DEF StepFetches
  <2>3. window' = [h \in start .. last |-> Pending]
    BY <1>9 DEF StepFetches
  <2> HIDE DEF start
  <2>4. start + Pred(Window) \in Nat /\ start <= start + Pred(Window)
    BY <2>1, IngestorAssumption DEF Pred
  <2>5. last \in {tip.height, start + Pred(Window)}
    <3>1. tip.height \in Int /\ start + Pred(Window) \in Int
      BY <2>1, <2>4
    <3> QED BY <3>1, MinOfTwo, Zenon
  <2> HIDE DEF last
  <2>6. last \in Nat /\ start <= last
    BY <2>1, <2>4, <2>5
  <2>7. DOMAIN window' = start .. last /\ last \in start .. last
    BY <2>1, <2>3, <2>6
  <2>8. \A h \in DOMAIN window' : window'[h] \notin Block
    <3>1. Pending \notin Block
      BY IngestorAssumption
    <3> QED BY <2>3, <3>1
  <2> QED BY <2>2, <2>7, <2>8 DEF WindowFits
<1>10. ASSUME NEW h \in DOMAIN window, NEW result,
              window' = [window EXCEPT ![h] = result], pc' = pc,
              result \in Block => HeightOf[result] = h,
              start_height' = start_height, cache' = cache
       PROVE  WindowFits'
  <2>1. NextHeight' = NextHeight
    BY <1>10, NextHeightStable
  <2>2. DOMAIN window' = DOMAIN window
    BY <1>10
  <2>3. \A g \in DOMAIN window : window'[g] = IF g = h THEN result ELSE window[g]
    BY <1>10
  <2> QED BY <1>10, <2>1, <2>2, <2>3 DEF WindowFits, IInv
<1>11. ASSUME NEW h \in DOMAIN window, FetchReturns(h) PROVE WindowFits'
  <2>1. h \in Nat
    BY DEF IInv, TypeOK
  <2> QED BY <1>10, <1>11, <2>1, FetchedBlock DEF FetchReturns
<1>12. ASSUME NEW h \in DOMAIN window, FetchBreaks(h) PROVE WindowFits'
  <2>1. Failed \notin Block /\ Dead \notin Block
    BY IngestorAssumption
  <2> QED BY <1>10, <1>12, <2>1 DEF FetchBreaks
<1>13. CASE ApplyWindow \/ StepRecovers \/ RecoveryLimitReached
  BY <1>2, <1>13
     DEF ApplyWindow, ReorgDetected, BatchCommits, WindowFails, StepRecovers,
         RecoveryLimitReached, Done
<1>14. CASE RepairFails \/ RecoveryFails \/ StepFails
  BY <1>2, <1>14 DEF RepairFails, RecoveryFails, StepFails, Done
<1>15. ASSUME NEW h \in ReportHeights, Report(h) PROVE WindowFits'
  BY <1>1, <1>15 DEF Report, ingestVars
<1> QED
  BY <1>3, <1>4, <1>5, <1>6, <1>7, <1>8, <1>9, <1>11, <1>12, <1>13, <1>14, <1>15
     DEF Next, Core, IngestorStep, Decide, Fault

-----------------------------------------------------------------------------
(***************************************************************************)
(* The theorems.                                                           *)
(***************************************************************************)

\* The invariant holds when the server is started on a fresh cache.
LEMMA InitIInv == Init => IInv
<1> SUFFICES ASSUME Init PROVE IInv
  OBVIOUS
<1>1. Cached(cache) = {} /\ cache.base = None
  BY DEF Init, EmptyCache, Cached
<1>2. CacheType(cache)
  BY DEF Init, EmptyCache, CacheType
<1>3. Intact(cache)
  BY <1>1, <1>2 DEF Intact, Gapless, IsEmpty, Linked, BaseRowCurrent, CorruptSuffix
<1>4. FreshBudget \in [spent : 0 .. MaxRepairs, elapsed : BOOLEAN]
  BY IngestorAssumption DEF FreshBudget
<1>5. TypeOK
  BY <1>2, <1>4, ResetType, TipType, IngestorAssumption DEF Init, TypeOK
<1>6. WindowFits
  BY ResetType DEF Init, WindowFits
<1> QED BY <1>3, <1>5, <1>6 DEF IInv

\* The invariant holds in every reachable state: whatever the node serves,
\* however the fetches interleave, fail or die, and wherever the process stops.
THEOREM Invariance == Spec => []IInv
<1>1. IInv /\ [Next]_vars => IInv'
  BY CacheStep, TypeStep, WindowStep DEF IInv
<1> QED BY InitIInv, <1>1, PTL DEF Spec

\* Every variable keeps its type (TypeOK).
THEOREM TypeCorrect == Spec => []TypeOK
<1>1. IInv => TypeOK
  BY DEF IInv
<1> QED BY Invariance, <1>1, PTL

\* The cache the ingestor maintains is one gapless run of hash-linked blocks
\* (step's chained prefix, append, remove_from).
THEOREM CacheStaysLinked == Spec => []CacheLinked
<1>1. IInv => CacheLinked
  BY DEF IInv, Intact, CacheLinked
<1> QED BY Invariance, <1>1, PTL

\* The snapshot base row never outlives the block it describes (append,
\* remove_from).
THEOREM BaseStaysCurrent == Spec => []BaseDescribesCache
<1>1. IInv => BaseDescribesCache
  BY DEF IInv, Intact, BaseDescribesCache
<1> QED BY Invariance, <1>1, PTL

\* A window is never committed onto another tip than the one it was fetched
\* for: append's monotonicity rejection is unreachable from step.
THEOREM AppendsAccepted == Spec => []AppendsExtendTip
<1>1. IInv => AppendsExtendTip
  <2> SUFFICES ASSUME IInv, WindowDone, Chained # {}
               PROVE  Accepts(cache, Restrict(window, Chained))
    BY DEF AppendsExtendTip
  <2>1. PICK last \in Nat : NextHeight <= last /\ Chained = NextHeight .. last
    BY ChainedIsPrefix
  <2>2. NextHeight \in Nat
    BY NextHeightType
  <2>3. DOMAIN Restrict(window, Chained) = NextHeight .. last
    BY <2>1 DEF Restrict
  <2>4. Min(NextHeight .. last) = NextHeight /\ Max(NextHeight .. last) = last
    BY <2>1, <2>2, IntervalBounds
  <2> QED BY <2>3, <2>4 DEF Accepts, NextHeight
<1> QED BY Invariance, <1>1, PTL

\* A chain that explains the cache and the node's answers rules out both ways
\* of seeing a reorganisation, and damage.
LEMMA NoEvidence ==
  ASSUME IInv, pc \in {"decide", "fetch"}, NEW c \in Chains, OneChainExplains(c)
  PROVE  ~StepRollsBack /\ ~ReorgDetected /\ ~MeetsCorruption
<1>1. \A h \in Cached(cache) : h \in DOMAIN c /\ cache.blocks[h] = c[h] /\ cache.blocks[h] # Corrupt
  BY ChainFacts, BlockAssumption DEF OneChainExplains
<1>2. ~IsEmpty(cache) => latest_height(cache) \in Cached(cache) /\ latest_height(cache) \in Nat
  <2>1. ~IsEmpty(cache) => latest_height(cache) \in BaseHeight(cache) .. latest_height(cache)
    BY CachedIsInterval DEF IInv
  <2> QED BY <2>1, CachedIsInterval DEF IInv
<1>3. ~MeetsCorruption
  BY <1>1, <1>2 DEF MeetsCorruption, Comparable, TipDecodes, latest_hash
<1>4. ~StepRollsBack
  BY <1>1 DEF StepRollsBack, Comparable, OneChainExplains
<1>5. ~ReorgDetected
  <2> SUFFICES ASSUME WindowDone, FirstMismatches PROVE FALSE
    BY DEF ReorgDetected
  <2> DEFINE top == latest_height(cache)
  <2>1. ~IsEmpty(cache) /\ top \in Cached(cache) /\ top \in Nat /\ NextHeight = top + 1
    BY <1>2 DEF FirstMismatches, NextHeight, AppendHeight
  <2> HIDE DEF top
  <2>2. PICK end \in DOMAIN window : DOMAIN window = top + 1 .. end
    BY <2>1 DEF IInv, WindowFits, WindowDone
  <2>3. end \in Nat /\ top + 1 <= end
    BY <2>1, <2>2 DEF IInv, TypeOK
  <2>4. WindowStart = top + 1
    BY <2>1, <2>2, <2>3, IntervalBounds DEF WindowStart
  <2>5. top + 1 \in DOMAIN window /\ window[top + 1] \in Block
    BY <2>1, <2>2, <2>3, <2>4 DEF FirstMismatches
  <2>6. top + 1 \in DOMAIN c /\ window[top + 1] = c[top + 1]
    BY <2>5 DEF OneChainExplains, WindowDone
  <2>7. top \in DOMAIN c /\ latest_hash(cache) = c[top]
    BY <1>1, <2>1 DEF latest_hash, top
  <2>8. PrevHash[c[top + 1]] = c[top]
    <3>1. (top + 1) - 1 = top
      BY <2>1
    <3> QED BY <2>6, <2>7, <3>1, ChainFacts
  <2> QED BY <2>4, <2>6, <2>7, <2>8 DEF FirstMismatches
<1> QED BY <1>3, <1>4, <1>5

\* Without such evidence no step of the ingestor or its environment takes a
\* block out of the cache while a step is deciding or fetching.
LEMMA ExplainedKeeps ==
  ASSUME IInv, [Next]_vars, pc \in {"decide", "fetch"},
         NEW c \in Chains, OneChainExplains(c)
  PROVE  Cached(cache) \subseteq Cached(cache')
<1>1. ~StepRollsBack /\ ~ReorgDetected /\ ~MeetsCorruption
  BY NoEvidence
<1>2. CASE UNCHANGED vars
  BY <1>2 DEF vars
<1>3. CASE Environment
  <2>1. ASSUME NEW h \in Cached(cache), Damage(h) PROVE Cached(cache') = Cached(cache)
    BY <2>1, DamageDecays DEF Decays
  <2> QED BY <1>3, <2>1 DEF Environment, NodeMoves, WindowElapses, Restart
<1>4. CASE Startup \/ TakeRepair
  BY <1>4 DEF Startup, OpenCache, ImportEpoch, StartIngestor, TakeRepair, NothingReported,
              RepairIgnored, RepairRefused, Repair
<1>5. CASE GetBlockchainInfo \/ StepIdle \/ StepFetches \/ WindowFails \/ RecoveryLimitReached
  BY <1>5 DEF GetBlockchainInfo, StepIdle, StepFetches, WindowFails, RecoveryLimitReached
<1>6. ASSUME NEW h \in DOMAIN window, FetchReturns(h) \/ FetchBreaks(h) PROVE cache' = cache
  BY <1>6 DEF FetchReturns, FetchBreaks
<1>7. CASE BatchCommits
  BY <1>7, BatchCommitsGrows DEF Grows
<1>8. CASE StepRecovers \/ RecoveryFails
  BY <1>1, <1>8 DEF StepRecovers, RecoveryFails
<1>9. CASE RepairFails \/ StepFails
  BY <1>9 DEF RepairFails, StepFails
<1>10. ASSUME NEW h \in ReportHeights, Report(h) PROVE cache' = cache
  BY <1>10 DEF Report
<1> QED
  BY <1>1, <1>2, <1>3, <1>4, <1>5, <1>6, <1>7, <1>8, <1>9, <1>10
     DEF Next, Core, IngestorStep, Decide, ApplyWindow, Fault

\* The step rolls back or truncates only when no one chain explains what it
\* holds and what the node answered: a node that is merely behind, or fails,
\* costs the cache nothing (step, fetch_window).
THEOREM RollbacksJustified == Spec => RollsBackOnEvidence
<1>1. IInv /\ [Next]_vars =>
        [/\ pc \in {"decide", "fetch"}
         /\ ~(Cached(cache) \subseteq Cached(cache'))
         => ~\E c \in Chains : OneChainExplains(c)]_vars
  BY ExplainedKeeps
<1> QED BY <1>1, Invariance, PTL DEF Spec, RollsBackOnEvidence

\* Of the steps that leave the top of the loop, only the repair changes the
\* cache, and it cuts at the report.
LEMMA RepairCutsAtReport ==
  ASSUME IInv, [Next]_vars, pc = "loop", pc' = "info", cache' # cache
  PROVE  Cached(cache') = {h \in Cached(cache) : h < repair /\ repair > start_height}
<1>1. ASSUME Repair PROVE Cached(cache') = {h \in Cached(cache) : h < repair /\ repair > start_height}
  <2> DEFINE lo == BaseHeight(cache)
             hi == latest_height(cache)
  <2>1. /\ ~IsEmpty(cache) /\ repair \in lo .. hi /\ cache' = reorg_to_floor(Pred(repair))
    BY <1>1 DEF Repair, IsRepairable
  <2>2. lo \in Nat /\ hi \in Nat /\ Cached(cache) = lo .. hi
    BY <2>1, CachedIsInterval DEF IInv
  <2>3. repair \in Nat \ {0} /\ start_height \in Nat
    BY DEF IInv, TypeOK
  <2>4. Pred(repair) = repair - 1
    BY <2>3 DEF Pred
  <2>5. CASE repair > start_height
    <3>1. ~(repair - 1 < start_height) /\ ~(repair - 1 >= hi) /\ repair - 1 + 1 = repair
      <4> HIDE DEF lo, hi
      <4> QED BY <2>1, <2>2, <2>3, <2>5
    <3>2. cache' = remove_from(cache, repair)
      BY <2>1, <2>4, <3>1 DEF reorg_to_floor, reorg
    <3> QED BY <2>5, <3>2, RemoveFromKeeps
  <2>6. CASE ~(repair > start_height)
    <3>1. repair - 1 < start_height
      BY <2>3, <2>6
    <3>2. cache' = remove_from(cache, 0)
      BY <2>1, <2>4, <3>1 DEF reorg_to_floor, truncate_from
    <3>3. \A h \in Cached(cache) : ~(h < 0)
      <4> HIDE DEF lo, hi
      <4> QED BY <2>2
    <3> QED BY <2>6, <3>2, <3>3, RemoveFromKeeps
  <2> QED BY <2>5, <2>6
<1>2. CASE UNCHANGED vars
  BY <1>2 DEF vars
<1>3. CASE Environment
  BY <1>3 DEF Environment, NodeMoves, Damage, WindowElapses, Restart
<1>4. CASE Startup
  BY <1>4 DEF Startup, OpenCache, ImportEpoch, StartIngestor
<1>5. CASE NothingReported \/ RepairIgnored \/ RepairRefused
  BY <1>5 DEF NothingReported, RepairIgnored, RepairRefused
<1>6. CASE GetBlockchainInfo \/ Decide \/ ApplyWindow \/ StepRecovers \/ RecoveryLimitReached
  BY <1>6
     DEF GetBlockchainInfo, Decide, StepIdle, StepRollsBack, StepFetches, ApplyWindow,
         ReorgDetected, BatchCommits, WindowFails, WindowDone, StepRecovers,
         RecoveryLimitReached, MeetsCorruption
<1>7. ASSUME NEW h \in DOMAIN window, FetchReturns(h) \/ FetchBreaks(h) PROVE FALSE
  BY <1>7 DEF FetchReturns, FetchBreaks
<1>8. CASE RepairFails \/ RecoveryFails \/ StepFails
  BY <1>8 DEF RepairFails, RecoveryFails, StepFails
<1>9. ASSUME NEW h \in ReportHeights, Report(h) PROVE FALSE
  BY <1>9 DEF Report
<1> QED
  BY <1>1, <1>2, <1>3, <1>4, <1>5, <1>6, <1>7, <1>8, <1>9
     DEF Next, Core, IngestorStep, TakeRepair, Fault

\* A repair drops the reported block and everything above it and nothing below,
\* whatever a stale stream reported (repair_reported's range check).
THEOREM RepairsCutAtReport == Spec => RepairDropsSuspects
<1>1. IInv /\ [Next]_vars =>
        [pc = "loop" /\ pc' = "info" /\ cache' # cache =>
           Cached(cache') = {h \in Cached(cache) : h < repair /\ repair > start_height}]_vars
  BY RepairCutsAtReport
<1> QED BY <1>1, Invariance, PTL DEF Spec, RepairDropsSuspects

\* The count of recoveries goes up by a truncation, or by one that failed.
LEMMA RecoveryStep ==
  ASSUME IInv, [Next]_vars, recoveries' = recoveries + 1, left' = left
  PROVE  cache' = recover(cache)
<1>1. recoveries \in Nat /\ left \in [Occurrence -> Nat]
  BY IngestorAssumption DEF IInv, TypeOK
<1>2. recoveries' # recoveries /\ recoveries' # 0
  BY <1>1
<1>3. ASSUME NEW k \in Occurrence, Spend(k) PROVE FALSE
  <2>1. left[k] \in Nat /\ left'[k] = left[k] - 1
    BY <1>1, <1>3 DEF Spend
  <2> QED BY <2>1
<1>4. CASE UNCHANGED vars
  BY <1>2, <1>4 DEF vars, ingestVars
<1>5. CASE Environment
  BY <1>2, <1>5 DEF Environment, NodeMoves, Damage, WindowElapses, Restart, ingestVars
<1>6. CASE Startup
  BY <1>2, <1>6 DEF Startup, OpenCache, ImportEpoch, StartIngestor, ingestVars
<1>7. CASE TakeRepair
  BY <1>2, <1>7
     DEF TakeRepair, NothingReported, RepairIgnored, RepairRefused, Repair, ingestVars
<1>8. CASE GetBlockchainInfo \/ Decide
  BY <1>2, <1>8 DEF GetBlockchainInfo, Decide, StepIdle, StepRollsBack, StepFetches, Done
<1>9. CASE ApplyWindow \/ RecoveryLimitReached
  BY <1>2, <1>9
     DEF ApplyWindow, ReorgDetected, BatchCommits, WindowFails, RecoveryLimitReached, Done
<1>10. CASE StepRecovers
  BY <1>10 DEF StepRecovers
<1>11. ASSUME NEW h \in DOMAIN window, FetchReturns(h) \/ FetchBreaks(h) PROVE FALSE
  BY <1>2, <1>11 DEF FetchReturns, FetchBreaks
<1>12. CASE RepairFails \/ StepFails
  BY <1>2, <1>12 DEF RepairFails, StepFails, Done
<1>13. CASE RecoveryFails
  BY <1>3, <1>13 DEF RecoveryFails, Occurrence
<1>14. ASSUME NEW h \in ReportHeights, Report(h) PROVE FALSE
  BY <1>2, <1>14 DEF Report, ingestVars
<1> QED
  BY <1>4, <1>5, <1>6, <1>7, <1>8, <1>9, <1>10, <1>11, <1>12, <1>13, <1>14
     DEF Next, Core, IngestorStep, Fault

\* Whatever the check at the open finds, what it leaves decodes.
LEMMA OpenDrops ==
  ASSUME IInv, [Next]_vars, Opens, 0 \notin Cached(cache)
  PROVE  \A h \in Cached(cache') : cache'.blocks[h] # Corrupt
<1> DEFINE checked == IF validate_light(cache) THEN cache ELSE recover(cache)
<1>1. PICK lever \in SyncFrom \cup {None} : OpenCache(lever)
  <2>1. pc = "open" /\ pc' # "open"
    BY DEF Opens
  <2>2. ~UNCHANGED vars /\ ~Environment
    BY <2>1 DEF vars, Environment, NodeMoves, Damage, WindowElapses, Restart
  <2>3. ~IngestorStep /\ ~Fault /\ ~\E h \in ReportHeights : Report(h)
    BY <2>1 DEF IngestorStep, TakeRepair, NothingReported, RepairIgnored, RepairRefused, Repair,
       GetBlockchainInfo, Decide, StepIdle, StepRollsBack, StepFetches, ApplyWindow, FetchReturns,
       FetchBreaks, WindowDone, ReorgDetected, BatchCommits, WindowFails, StepRecovers,
       RecoveryLimitReached, MeetsCorruption, Fault, RepairFails, StepFails, RecoveryFails, Report
  <2> QED
    BY <2>1, <2>2, <2>3 DEF Next, Core, Startup, ImportEpoch, StartIngestor
<1>2. Intact(cache)
  BY DEF IInv
<1>3. \A h \in Cached(checked) : checked.blocks[h] # Corrupt
  <2>1. CASE ~validate_light(cache)
    BY <1>2, <2>1, RecoverDrops
  <2>2. CASE validate_light(cache)
    <3>1. CASE IsEmpty(cache)
      BY <2>2, <3>1 DEF IsEmpty
    <3>2. CASE ~IsEmpty(cache)
      <4>1. /\ latest_height(cache) \in Cached(cache)
            /\ cache.blocks[latest_height(cache)] # Corrupt
            /\ \A h \in Cached(cache) : h = latest_height(cache) \/ h < latest_height(cache)
        BY <1>2, <2>2, <3>2, CachedIsInterval DEF validate_light, TipDecodes, latest_hash
      <4> QED
        BY <1>2, <2>2, <4>1 DEF Intact, CorruptSuffix
    <3> QED
      BY <3>1, <3>2
  <2> QED
    BY <2>1, <2>2
<1>4. Intact(checked)
  BY <1>2, RecoverCuts
<1>5. cache' = IF lever = None THEN checked ELSE truncate_from(checked, lever)
  BY <1>1 DEF OpenCache
<1>6. lever # None => lever \in Nat
  BY IngestorAssumption
<1> HIDE DEF checked
<1>7. CASE lever = None
  BY <1>3, <1>5, <1>7
<1>8. CASE lever # None
  <2>1. Cuts(checked, cache')
    BY <1>4, <1>5, <1>6, <1>8, RemoveFromCuts DEF truncate_from
  <2> QED
    BY <1>3, <2>1 DEF Cuts
<1> QED
  BY <1>7, <1>8

\* A recovery in the loop that does not fail, and every open, leave nothing that
\* does not decode, however deep the damage reaches, unless the cache held height 0
\* (recover, lowest_corrupt_height, validate_light).
THEOREM RecoveriesDropCorruption == Spec => RecoveryDropsCorruption
<1>1. IInv /\ [Next]_vars =>
        [(Recovers \/ Opens) /\ 0 \notin Cached(cache) =>
           \A h \in Cached(cache') : cache'.blocks[h] # Corrupt]_vars
  <2> SUFFICES ASSUME IInv, [Next]_vars, Recovers \/ Opens, 0 \notin Cached(cache)
               PROVE  \A h \in Cached(cache') : cache'.blocks[h] # Corrupt
    OBVIOUS
  <2>1. CASE Recovers
    <3>1. cache' = recover(cache)
      BY <2>1, RecoveryStep DEF Recovers
    <3> QED BY <3>1, RecoverDrops DEF IInv
  <2>2. CASE Opens
    BY <2>2, OpenDrops
  <2> QED BY <2>1, <2>2
<1> QED BY <1>1, Invariance, PTL DEF Spec, RecoveryDropsCorruption

\* Every step of the ingestor, the node, the operator and the process is, seen
\* from the cache's readers, a step of the abstract store.
LEMMA StepImplementsStore ==
  ASSUME IInv, [Next]_vars
  PROVE  [Store!StoreNext]_(cache.blocks)
<1>1. Intact(cache')
  BY CacheStep
<1>2. CASE cache' = cache
  BY <1>2
<1>3. CASE Cuts(cache, cache')
  <2>1. Store!CutBack
    BY <1>3 DEF Cuts, Cached, Store!CutBack, Store!Heights
  <2> QED BY <2>1 DEF Store!StoreNext
<1>4. CASE Grows(cache, cache')
  <2>1. Store!WellFormed(cache'.blocks)
    BY <1>1 DEF Intact, Gapless, Linked, IsEmpty, Cached, Store!WellFormed
  <2>2. Store!Extend
    BY <1>4, <2>1 DEF Grows, Cached, Store!Extend, Store!Heights
  <2> QED BY <2>2 DEF Store!StoreNext
<1>5. CASE Decays(cache, cache')
  <2>1. Store!Decay
    BY <1>5 DEF Decays, Cached, Store!Decay, Store!Heights
  <2> QED BY <2>1 DEF Store!StoreNext
<1> QED BY <1>2, <1>3, <1>4, <1>5, CacheStep

\* The ingestor implements the abstract store: linked blocks go on top of the
\* cache or come off its top, and none is ever replaced in place.
THEOREM Refinement == Spec => ImplementsChainStore
<1>1. Init => Store!StoreInit
  BY DEF Init, EmptyCache, Store!StoreInit
<1>2. IInv /\ [Next]_vars => [Store!StoreNext]_(cache.blocks)
  BY StepImplementsStore
<1> QED BY <1>1, <1>2, Invariance, PTL DEF Spec, ImplementsChainStore, Store!StoreSpec

-----------------------------------------------------------------------------
(***************************************************************************)
(* What a wallet receives is one linked run of the range it asked for, for *)
(* every block tree, range and chunk size, however the ingestor and the    *)
(* node move between two reads.  StreamInv says of a stream that is being  *)
(* served where it stands and that its link describes the block delivered  *)
(* last; the ingestor's IInv is what makes the blocks of a chunk carry the *)
(* heights they were read at.                                              *)
(***************************************************************************)

IsStream(s) ==
  s = [phase |-> s.phase, from |-> s.from, to |-> s.to, at |-> s.at, chunk |-> s.chunk,
       link |-> s.link, sent |-> s.sent]

\* The i-th height of the range, in the direction served.
HeightAt(s, i) == IF Descending(s) THEN s.from - (i - 1) ELSE s.from + (i - 1)

\* Block b may be delivered right after block a.
Follows(s, a, b) == IF Descending(s) THEN PrevHash[a] = b ELSE PrevHash[b] = a

SentLinked(s) ==
  /\ s.sent \in Seq(Block)
  /\ \A i \in 1 .. Len(s.sent) : HeightOf[s.sent[i]] = HeightAt(s, i)
  /\ \A i \in 2 .. Len(s.sent) : Follows(s, s.sent[i - 1], s.sent[i])

\* The link is that of the block delivered last.
LinkCurrent(s) ==
  IF s.sent = << >> THEN s.link = None
  ELSE /\ s.link \in ChainLink
       /\ s.link.expected = IF Descending(s) THEN PrevHash[s.sent[Len(s.sent)]]
                                             ELSE s.sent[Len(s.sent)]

ChunkFits(s) == \A h \in DOMAIN s.chunk : s.chunk[h] \in Block => HeightOf[s.chunk[h]] = h

\* Where a stream that is being served stands.
Position(s) ==
  /\ s.to \in Nat \ {0}
  /\ s.at \in Nat \ {0}
  /\ s.at = HeightAt(s, Len(s.sent) + 1)
  /\ IF Descending(s) THEN s.to <= s.at ELSE s.at <= s.to

StreamOK(s) ==
  /\ IsStream(s)
  /\ s.from \in Nat
  /\ s.to \in Nat
  /\ SentLinked(s)
  /\ s.phase = "serving" => Position(s) /\ ChunkFits(s) /\ LinkCurrent(s)
  /\ s.phase = "done" => Len(s.sent) = High(s) - Low(s) + 1

(***************************************************************************)
(* The inductive invariant.                                                *)
(***************************************************************************)
StreamInv ==
  /\ IInv
  /\ DOMAIN stream = Client
  /\ \A c \in Client : StreamOK(stream[c])

-----------------------------------------------------------------------------
(***************************************************************************)
(* One stream.                                                             *)
(***************************************************************************)

\* The ends of a range, by its direction.
LEMMA RangeEnds ==
  ASSUME NEW s, s.from \in Nat, s.to \in Nat
  PROVE  High(s) - Low(s) = IF Descending(s) THEN s.from - s.to ELSE s.to - s.from
<1> DEFINE lo == Low(s)
           hi == High(s)
<1>1. lo \in {s.from, s.to} /\ lo <= s.from /\ lo <= s.to
  <2>1. s.from \in Int /\ s.to \in Int
    OBVIOUS
  <2> QED
    BY <2>1, MinOfTwo DEF Low
<1>2. hi \in {s.from, s.to} /\ hi >= s.from /\ hi >= s.to
  BY MaxOfTwo DEF High
<1> HIDE DEF lo, hi
<1>3. hi - lo = IF s.from > s.to THEN s.from - s.to ELSE s.to - s.from
  BY <1>1, <1>2
<1> QED
  BY <1>3 DEF lo, hi, Descending

\* What appending a block does to what was sent.
LEMMA SentAppend ==
  ASSUME NEW sent \in Seq(Block), NEW block \in Block
  PROVE  /\ Append(sent, block) \in Seq(Block)
         /\ Len(sent) \in Nat
         /\ Len(Append(sent, block)) = Len(sent) + 1
         /\ Append(sent, block)[Len(sent) + 1] = block
         /\ \A i \in 1 .. Len(sent) : Append(sent, block)[i] = sent[i]
         /\ Append(sent, block) # << >>
         /\ sent = << >> <=> Len(sent) = 0
BY AppendProperties, EmptySeq

LEMMA ClosedOK == StreamOK(Closed)
<1>1. << >> \in Seq(Block) /\ Len(<< >>) = 0
  BY EmptySeq
<1> QED
  BY <1>1 DEF StreamOK, Closed, IsStream, SentLinked

\* A stream that ends keeps what it sent.
LEMMA EndedOK ==
  ASSUME NEW s, StreamOK(s), NEW phase \in {"aborted", "failed"}
  PROVE  StreamOK(Ended(s, phase))
<1> DEFINE q == Ended(s, phase)
<1>1. IsStream(s)
  BY DEF StreamOK
<1>2. q = [s EXCEPT !.phase = phase, !.chunk = << >>]
  BY DEF Ended
<1> HIDE DEF q
<1>3. /\ IsStream(q) /\ q.phase = phase /\ q.from = s.from /\ q.to = s.to /\ q.sent = s.sent
  BY <1>1, <1>2 DEF IsStream
<1>4. StreamOK(q)
  BY <1>3 DEF StreamOK, SentLinked, HeightAt, Follows, Descending
<1> QED
  BY <1>4 DEF q

\* The block at the stream's height, connecting to the last one, extends the run.
LEMMA DeliveredOK ==
  ASSUME NEW s, StreamOK(s), s.phase = "serving",
         NEW block \in Block, HeightOf[block] = s.at, NEW source \in {"cache", "node"},
         Connects(s, block)
  PROVE  StreamOK(Delivered(s, block, source))
<1> DEFINE q == Delivered(s, block, source)
           link == after(s, block, source)
           n == Len(s.sent)
<1>1. /\ IsStream(s) /\ s.from \in Nat /\ s.to \in Nat
      /\ SentLinked(s) /\ Position(s) /\ ChunkFits(s) /\ LinkCurrent(s)
  BY DEF StreamOK
<1>2. q = [s EXCEPT !.sent = Append(s.sent, block), !.link = link,
                    !.phase = IF s.at = s.to THEN "done" ELSE "serving",
                    !.at = IF Descending(s) THEN s.at - 1 ELSE s.at + 1,
                    !.chunk = Restrict(s.chunk, DOMAIN s.chunk \ {s.at})]
  BY <1>1 DEF Delivered, IsStream
<1> HIDE DEF q
<1>3. link \in ChainLink /\ link.expected = IF Descending(s) THEN PrevHash[block] ELSE block
  BY <1>1, BlockAssumption DEF after, ChainLink, Position
<1> HIDE DEF link
<1>4. /\ IsStream(q) /\ q.from = s.from /\ q.to = s.to
      /\ q.phase = IF s.at = s.to THEN "done" ELSE "serving"
      /\ q.at = IF Descending(s) THEN s.at - 1 ELSE s.at + 1
      /\ q.chunk = Restrict(s.chunk, DOMAIN s.chunk \ {s.at})
      /\ q.link = link
      /\ q.sent = Append(s.sent, block)
  BY <1>1, <1>2 DEF IsStream
<1>5. Descending(q) = Descending(s) /\ \A i : HeightAt(q, i) = HeightAt(s, i)
  BY <1>4 DEF Descending, HeightAt
<1>6. /\ q.sent \in Seq(Block) /\ n \in Nat /\ Len(q.sent) = n + 1 /\ q.sent[n + 1] = block
      /\ \A i \in 1 .. n : q.sent[i] = s.sent[i]
      /\ q.sent # << >>
      /\ s.sent = << >> <=> n = 0
  BY <1>1, <1>4, SentAppend DEF SentLinked
<1> HIDE DEF n
<1>7. s.at = HeightAt(s, n + 1)
  BY <1>1 DEF Position, n
<1>8. SentLinked(q)
  <2>1. \A i \in 1 .. n : HeightOf[s.sent[i]] = HeightAt(s, i)
    BY <1>1 DEF SentLinked, n
  <2>2. \A i \in 2 .. n : Follows(s, s.sent[i - 1], s.sent[i])
    BY <1>1 DEF SentLinked, n
  <2>3. ASSUME NEW i \in 1 .. n + 1 PROVE HeightOf[q.sent[i]] = HeightAt(q, i)
    <3>1. CASE i = n + 1
      BY <1>5, <1>6, <1>7, <3>1
    <3>2. CASE i # n + 1
      <4>1. i \in 1 .. n
        BY <1>6, <3>2
      <4> QED
        BY <1>5, <1>6, <2>1, <4>1
    <3> QED
      BY <3>1, <3>2
  <2>4. ASSUME NEW i \in 2 .. n + 1 PROVE Follows(q, q.sent[i - 1], q.sent[i])
    <3>1. CASE i = n + 1
      <4>1. n # 0 /\ n \in 1 .. n /\ i - 1 = n
        BY <1>6, <3>1
      <4>2. /\ s.link \in ChainLink
            /\ s.link.expected = IF Descending(s) THEN PrevHash[s.sent[n]] ELSE s.sent[n]
        BY <1>1, <1>6, <4>1 DEF LinkCurrent, n
      <4>3. s.link # None
        BY <4>2, StreamAssumption
      <4>4. s.link.expected = IF Descending(s) THEN block ELSE PrevHash[block]
        BY <4>3 DEF Connects
      <4>5. q.sent[i] = block /\ q.sent[i - 1] = s.sent[n]
        BY <1>6, <3>1, <4>1
      <4> QED
        BY <1>5, <4>2, <4>4, <4>5 DEF Follows
    <3>2. CASE i # n + 1
      <4>1. i \in 2 .. n /\ i \in 1 .. n /\ i - 1 \in 1 .. n
        BY <1>6, <3>2
      <4>2. q.sent[i] = s.sent[i] /\ q.sent[i - 1] = s.sent[i - 1]
        BY <1>6, <4>1
      <4>3. Follows(s, s.sent[i - 1], s.sent[i])
        BY <2>2, <4>1
      <4> QED
        BY <1>5, <4>2, <4>3 DEF Follows
    <3> QED
      BY <3>1, <3>2
  <2> QED
    BY <1>6, <2>3, <2>4 DEF SentLinked
<1>9. ASSUME s.at # s.to PROVE Position(q)
  <2>1. CASE Descending(s)
    <3>1. s.at = s.from - n /\ s.to \in Nat \ {0} /\ s.at \in Nat \ {0} /\ s.to <= s.at
      BY <1>1, <1>6, <1>7, <2>1 DEF Position, HeightAt
    <3>2. /\ s.at - 1 = s.from - (n + 1) /\ s.at - 1 \in Nat \ {0} /\ s.to <= s.at - 1
          /\ n + 1 + 1 - 1 = n + 1
      BY <1>1, <1>6, <1>9, <3>1
    <3> QED
      BY <1>4, <1>5, <1>6, <2>1, <3>1, <3>2 DEF Position, HeightAt
  <2>2. CASE ~Descending(s)
    <3>1. s.at = s.from + n /\ s.to \in Nat \ {0} /\ s.at \in Nat \ {0} /\ s.at <= s.to
      BY <1>1, <1>6, <1>7, <2>2 DEF Position, HeightAt
    <3>2. /\ s.at + 1 = s.from + (n + 1) /\ s.at + 1 \in Nat \ {0} /\ s.at + 1 <= s.to
          /\ n + 1 + 1 - 1 = n + 1
      <4> DEFINE a == s.at
                 b == s.to
                 f == s.from
      <4>1. f \in Nat /\ n \in Nat /\ a = f + n /\ b \in Nat /\ a <= b /\ a # b
        BY <1>1, <1>6, <1>9, <3>1
      <4> HIDE DEF a, b, f
      <4>2. a + 1 = f + (n + 1) /\ a + 1 \in Nat \ {0} /\ a + 1 <= b /\ n + 1 + 1 - 1 = n + 1
        BY <4>1
      <4> QED
        BY <4>2 DEF a, b, f
    <3> QED
      BY <1>4, <1>5, <1>6, <2>2, <3>1, <3>2 DEF Position, HeightAt
  <2> QED
    BY <2>1, <2>2
<1>10. ChunkFits(q)
  BY <1>1, <1>4 DEF ChunkFits, Restrict
<1>11. LinkCurrent(q)
  BY <1>3, <1>4, <1>5, <1>6 DEF LinkCurrent
<1>12. ASSUME s.at = s.to PROVE Len(q.sent) = High(q) - Low(q) + 1
  <2>1. High(q) - Low(q) = IF Descending(s) THEN s.from - s.to ELSE s.to - s.from
    BY <1>1, <1>4, <1>5, RangeEnds
  <2> QED
    BY <1>1, <1>6, <1>7, <1>12, <2>1 DEF HeightAt
<1>13. q.phase = "serving" => s.at # s.to
  BY <1>4
<1>14. q.phase = "done" => s.at = s.to
  BY <1>4
<1>15. q.from \in Nat /\ q.to \in Nat
  BY <1>1, <1>4
<1>16. StreamOK(q)
  BY <1>4, <1>8, <1>9, <1>10, <1>11, <1>12, <1>13, <1>14, <1>15 DEF StreamOK
<1> QED
  BY <1>16 DEF q

-----------------------------------------------------------------------------
(***************************************************************************)
(* One step.                                                               *)
(***************************************************************************)

\* A step of one stream leaves the others alone.
LEMMA OneStreamInv ==
  ASSUME StreamInv, IInv', NEW c \in Client, NEW s, StreamOK(s), Set(c, s)
  PROVE  StreamInv'
<1>1. DOMAIN stream' = Client /\ \A d \in Client : stream'[d] = IF d = c THEN s ELSE stream[d]
  BY DEF StreamInv, Set
<1> QED
  BY <1>1 DEF StreamInv

\* The ingestor's invariant does not mind a report, or a call that fails.
LEMMA ReportKeeps ==
  ASSUME IInv, UNCHANGED <<node, cache, pc, ingestVars>>, repair' \in Nat \ {0},
         left' \in [Occurrence -> Nat]
  PROVE  IInv'
<1>1. NextHeight' = NextHeight
  BY NextHeightStable DEF ingestVars
<1> QED
  BY <1>1 DEF IInv, TypeOK, WindowFits, ingestVars

LEMMA StutterKeeps ==
  ASSUME IInv, UNCHANGED vars
  PROVE  IInv'
BY ReportKeeps DEF vars, IInv, TypeOK

LEMMA GetBlockRangeInv ==
  ASSUME StreamInv, NEW c \in Client, NEW request \in Requests, GetBlockRange(c, request)
  PROVE  StreamInv'
<1> DEFINE q == [Closed EXCEPT !.phase = "serving", !.from = request[1], !.to = request[2],
                               !.at = request[1]]
<1>1. request[1] \in Nat \ {0} /\ request[2] \in Nat \ {0}
  BY StreamAssumption
<1>2. Set(c, q) /\ UNCHANGED vars
  BY DEF GetBlockRange
<1>3. /\ IsStream(q) /\ q.phase = "serving" /\ q.from = request[1] /\ q.to = request[2]
      /\ q.at = request[1] /\ q.chunk = << >> /\ q.link = None /\ q.sent = << >>
  <2> DEFINE a == request[1]
             b == request[2]
  <2>1. q = [Closed EXCEPT !.phase = "serving", !.from = a, !.to = b, !.at = a]
    OBVIOUS
  <2> HIDE DEF q, a, b
  <2>2. /\ IsStream(q) /\ q.phase = "serving" /\ q.from = a /\ q.to = b
        /\ q.at = a /\ q.chunk = << >> /\ q.link = None /\ q.sent = << >>
    BY <2>1 DEF Closed, IsStream
  <2> QED
    BY <2>2 DEF a, b
<1> HIDE DEF q
<1>4. << >> \in Seq(Block) /\ Len(<< >>) = 0 /\ DOMAIN << >> = {}
  BY EmptySeq
<1>5. StreamOK(q)
  BY <1>1, <1>3, <1>4
     DEF StreamOK, IsStream, SentLinked, Position, ChunkFits, LinkCurrent, HeightAt, Descending
<1> QED
  BY <1>2, <1>5, StutterKeeps, OneStreamInv DEF StreamInv

\* A cached block carries the height it is stored at, so a chunk fits.
LEMMA ReadChunkInv ==
  ASSUME StreamInv, NEW c \in Client, ReadChunk(c)
  PROVE  StreamInv'
<1> DEFINE s == stream[c]
<1>1. PICK covered \in Covers(s) :
        Set(c, [s EXCEPT !.chunk = [h \in covered |->
                   IF h \in Cached(cache) THEN cache.blocks[h] ELSE Miss]])
  BY DEF ReadChunk
<1> DEFINE chunk == [h \in covered |-> IF h \in Cached(cache) THEN cache.blocks[h] ELSE Miss]
           q == [s EXCEPT !.chunk = chunk]
<1>2. StreamOK(s) /\ UNCHANGED vars /\ Set(c, q)
  BY <1>1 DEF StreamInv, ReadChunk
<1>3. \A h \in DOMAIN chunk : chunk[h] \in Block => HeightOf[chunk[h]] = h
  BY StreamAssumption, BlockAssumption DEF StreamInv, IInv, Intact, Linked
<1> HIDE DEF chunk, s
<1>4. /\ IsStream(q) /\ q.phase = s.phase /\ q.from = s.from /\ q.to = s.to /\ q.at = s.at
      /\ q.chunk = chunk /\ q.link = s.link /\ q.sent = s.sent
  <2>1. q = [s EXCEPT !.chunk = chunk]
    OBVIOUS
  <2> HIDE DEF q
  <2> QED
    BY <1>2, <2>1 DEF StreamOK, IsStream
<1> HIDE DEF q
<1>5. SentLinked(s) => SentLinked(q)
  BY <1>4 DEF SentLinked, HeightAt, Follows, Descending
<1>6. /\ Position(s) => Position(q)
      /\ LinkCurrent(s) => LinkCurrent(q)
      /\ High(q) = High(s) /\ Low(q) = Low(s)
  BY <1>4 DEF Position, LinkCurrent, High, Low, HeightAt, Descending
<1>7. ChunkFits(q)
  BY <1>3, <1>4 DEF ChunkFits
<1>8. StreamOK(q)
  BY <1>2, <1>4, <1>5, <1>6, <1>7 DEF StreamOK
<1> QED
  BY <1>2, <1>8, StutterKeeps, OneStreamInv DEF StreamInv

\* Whichever source a block came from, it is delivered or the stream ends.
LEMMA ResolveInv ==
  ASSUME StreamInv, NEW c \in Client, stream[c].phase = "serving",
         NEW block \in Block, HeightOf[block] = stream[c].at, NEW source \in {"cache", "node"},
         Resolve(c, block, source)
  PROVE  StreamInv'
<1> DEFINE s == stream[c]
<1>1. StreamOK(s) /\ IInv
  BY DEF StreamInv
<1>2. CASE Connects(s, block) /\ Set(c, Delivered(s, block, source)) /\ UNCHANGED vars
  <2>1. StreamOK(Delivered(s, block, source))
    BY <1>1, <1>2, DeliveredOK
  <2> QED
    BY <1>1, <1>2, <2>1, StutterKeeps, OneStreamInv
<1>3. CASE /\ ~Connects(s, block)
           /\ Set(c, Ended(s, "aborted"))
           /\ repair' = IF CacheImplicated(s, source)
                        THEN reported(Min({s.at, s.link.height})) ELSE repair
           /\ UNCHANGED <<node, cache, pc, ingestVars, left>>
  <2>1. s.link # None
    BY <1>3 DEF Connects
  <2>2. s.at \in Nat \ {0} /\ s.link \in ChainLink
    BY <1>1, <2>1 DEF StreamOK, Position, LinkCurrent
  <2>3. s.link.height \in Nat \ {0}
    BY <2>2 DEF ChainLink
  <2>4. Min({s.at, s.link.height}) \in Nat \ {0}
    BY <2>2, <2>3, SmallerOfTwo
  <2>5. repair \in Nat \ {0} /\ left \in [Occurrence -> Nat]
    BY <1>1 DEF IInv, TypeOK
  <2>6. repair' \in Nat \ {0}
    BY <1>3, <2>4, <2>5, SmallerOfTwo DEF reported
  <2>7. IInv'
    BY <1>1, <1>3, <2>5, <2>6, ReportKeeps
  <2>8. StreamOK(Ended(s, "aborted"))
    BY <1>1, EndedOK
  <2> QED
    BY <1>3, <2>7, <2>8, OneStreamInv
<1> QED
  BY <1>2, <1>3 DEF Resolve

LEMMA ServeInvs ==
  ASSUME StreamInv, NEW c \in Client, ServeCached(c) \/ ServeFromNode(c) \/ ServeFails(c)
  PROVE  StreamInv'
<1> DEFINE s == stream[c]
<1>1. StreamOK(s) /\ IInv
  BY DEF StreamInv
<1>2. CASE ServeCached(c)
  <2>1. /\ s.phase = "serving" /\ s.at \in DOMAIN s.chunk /\ s.chunk[s.at] \in Block
        /\ Resolve(c, s.chunk[s.at], "cache")
    BY <1>2 DEF ServeCached, ReadyToServe
  <2>2. HeightOf[s.chunk[s.at]] = s.at
    BY <1>1, <2>1 DEF StreamOK, ChunkFits
  <2> QED
    BY <2>1, <2>2, ResolveInv
<1>3. CASE ServeFromNode(c)
  <2>1. s.phase = "serving" /\ s.at \in DOMAIN node /\ Resolve(c, node[s.at], "node")
    BY <1>3 DEF ServeFromNode, ReadyToServe
  <2>2. node[s.at] \in Block /\ HeightOf[node[s.at]] = s.at
    BY <1>1, <2>1, ChainFacts DEF IInv, TypeOK
  <2> QED
    BY <2>1, <2>2, ResolveInv
<1>4. CASE ServeFails(c)
  <2>1. Set(c, Ended(s, "failed")) /\ StreamOK(Ended(s, "failed"))
    BY <1>1, <1>4, EndedOK DEF ServeFails
  <2>2. CASE UNCHANGED vars
    BY <1>1, <2>1, <2>2, StutterKeeps, OneStreamInv
  <2>3. CASE Spend("fault") /\ UNCHANGED <<node, cache, pc, ingestVars, repair>>
    <3>1. left' \in [Occurrence -> Nat]
      BY <1>1, <2>3, SpendType DEF Occurrence
    <3>2. repair' \in Nat \ {0}
      BY <1>1, <2>3 DEF IInv, TypeOK
    <3>3. IInv'
      BY <1>1, <2>3, <3>1, <3>2, ReportKeeps
    <3> QED
      BY <2>1, <3>3, OneStreamInv
  <2> QED
    BY <1>4, <2>2, <2>3 DEF ServeFails
<1> QED
  BY <1>2, <1>3, <1>4

\* The ingestor's steps touch no stream, but for the restart that closes all.
LEMMA ProcessStepInv ==
  ASSUME StreamInv, ProcessStep
  PROVE  StreamInv'
<1>1. IInv /\ [Next]_vars
  BY DEF StreamInv, ProcessStep, Next
<1>2. IInv'
  BY <1>1, CacheStep, TypeStep, WindowStep DEF IInv
<1>3. stream' = stream \/ stream' = [c \in Client |-> Closed]
  BY DEF ProcessStep
<1> QED
  BY <1>2, <1>3, ClosedOK DEF StreamInv

-----------------------------------------------------------------------------
(***************************************************************************)
(* The ingestor, the node and the streams keep the inductive invariant in  *)
(* any order.                                                              *)
(***************************************************************************)
THEOREM StreamsConsistent == StreamSpec => []StreamInv
<1>1. StreamInit => StreamInv
  BY InitIInv, ClosedOK DEF StreamInit, StreamInv
<1>2. ASSUME StreamInv, StreamNext PROVE StreamInv'
  BY <1>2, ProcessStepInv, GetBlockRangeInv, ReadChunkInv, ServeInvs DEF StreamNext, StreamStep
<1>3. ASSUME StreamInv, UNCHANGED allVars PROVE StreamInv'
  BY <1>3, StutterKeeps DEF allVars, StreamInv
<1> QED
  BY <1>1, <1>2, <1>3, PTL DEF StreamSpec

(***************************************************************************)
(* What a wallet received is a gapless, hash-linked run of the range it    *)
(* asked for, and the whole of it once the stream is done, for every chunk *)
(* size and in both directions (block_range_stream, ChainLink::check).     *)
(***************************************************************************)
THEOREM WalletsGetOneRun == StreamSpec => []ServedRunLinked
<1>1. StreamInv => ServedRunLinked
  <2> SUFFICES ASSUME StreamInv, NEW c \in Client
               PROVE  LET s    == stream[c]
                          step == IF Descending(s) THEN -1 ELSE 1
                      IN  /\ \A i \in 1 .. Len(s.sent) :
                               HeightOf[s.sent[i]] = s.from + step * (i - 1)
                          /\ \A i \in 2 .. Len(s.sent) :
                               IF Descending(s) THEN PrevHash[s.sent[i - 1]] = s.sent[i]
                                                ELSE PrevHash[s.sent[i]] = s.sent[i - 1]
                          /\ s.phase = "done" => Len(s.sent) = High(s) - Low(s) + 1
    BY DEF ServedRunLinked
  <2> DEFINE s == stream[c]
             step == IF Descending(s) THEN -1 ELSE 1
  <2>1. StreamOK(s)
    BY DEF StreamInv
  <2>2. s.from \in Nat /\ SentLinked(s)
    BY <2>1 DEF StreamOK
  <2>3. \A i \in Int : s.from + step * (i - 1) = HeightAt(s, i)
    BY <2>2 DEF HeightAt
  <2>4. \A i \in 1 .. Len(s.sent) : i \in Int
    BY <2>2 DEF SentLinked
  <2> QED
    BY <2>1, <2>2, <2>3, <2>4 DEF StreamOK, SentLinked, Follows
<1> QED
  BY <1>1, StreamsConsistent, PTL

(***************************************************************************)
(* The reports streams really leave, stale ones too, never cost a block    *)
(* below the seam: the ingestor's repair cuts there when streams, not a    *)
(* bounded environment, fill the slot (repair_reported, RepairSignal).     *)
(***************************************************************************)
THEOREM StreamReportsCut == StreamSpec => RepairDropsSuspects
<1>1. StreamInv /\ [StreamNext]_allVars =>
        [pc = "loop" /\ pc' = "info" /\ cache' # cache =>
           Cached(cache') = {h \in Cached(cache) : h < repair /\ repair > start_height}]_vars
  <2> SUFFICES ASSUME StreamInv, [StreamNext]_allVars, pc = "loop", pc' = "info", cache' # cache
               PROVE  Cached(cache') = {h \in Cached(cache) : h < repair /\ repair > start_height}
    OBVIOUS
  <2>1. ASSUME NEW c \in Client, StreamStep(c) PROVE pc' = pc
    BY <2>1
       DEF StreamStep, ReadChunk, ServeCached, ServeFromNode, ServeFails, Resolve, vars, ingestVars
  <2>2. ASSUME NEW c \in Client, NEW request \in Requests, GetBlockRange(c, request)
        PROVE  pc' = pc
    BY <2>2 DEF GetBlockRange, vars
  <2>3. ~UNCHANGED allVars
    BY DEF allVars, vars
  <2>4. pc' # pc
    OBVIOUS
  <2>5. ProcessStep
    BY <2>1, <2>2, <2>3, <2>4 DEF StreamNext
  <2> QED
    BY <2>5, RepairCutsAtReport DEF StreamInv, ProcessStep, Next
<1> QED
  BY <1>1, StreamsConsistent, PTL DEF StreamSpec, RepairDropsSuspects

(***************************************************************************)
(* With streams reading, reporting and restarting beside the ingestor, the *)
(* cache is still the abstract store: a stream changes no block, and what  *)
(* its reports make the ingestor do is a cut (block_range_stream,          *)
(* repair_reported).                                                       *)
(***************************************************************************)
THEOREM StreamsKeepTheStore == StreamSpec => ImplementsChainStore
<1>1. StreamInit => Store!StoreInit
  BY DEF StreamInit, Init, EmptyCache, Store!StoreInit
<1>2. StreamInv /\ [StreamNext]_allVars => [Store!StoreNext]_(cache.blocks)
  <2> SUFFICES ASSUME StreamInv, [StreamNext]_allVars
               PROVE  [Store!StoreNext]_(cache.blocks)
    OBVIOUS
  <2>1. ASSUME NEW c \in Client, StreamStep(c) PROVE cache' = cache
    BY <2>1
       DEF StreamStep, ReadChunk, ServeCached, ServeFromNode, ServeFails, Resolve, vars
  <2>2. ASSUME NEW c \in Client, NEW request \in Requests, GetBlockRange(c, request)
        PROVE  cache' = cache
    BY <2>2 DEF GetBlockRange, vars
  <2>3. ASSUME UNCHANGED allVars PROVE cache' = cache
    BY <2>3 DEF allVars, vars
  <2>4. CASE ProcessStep
    BY <2>4, StepImplementsStore DEF StreamInv, ProcessStep, Next
  <2>5. CASE cache' = cache
    BY <2>5
  <2> QED
    BY <2>1, <2>2, <2>3, <2>4, <2>5 DEF StreamNext
<1> QED
  BY <1>1, <1>2, StreamsConsistent, PTL DEF StreamSpec, ImplementsChainStore, Store!StoreSpec
=============================================================================
