----------------------------- MODULE ChainStore -----------------------------
(***************************************************************************)
(* What the block cache promises everyone who reads it, with the ingestor, *)
(* the node and the process lifecycle left out.  The store is one gapless, *)
(* hash-linked run of blocks.  A commit puts linked blocks on top of it or *)
(* cuts blocks off its top; no commit ever replaces a block in place, so a *)
(* reader that sees a height twice sees the same block or a cut between.   *)
(***************************************************************************)
EXTENDS Integers, Functions

CONSTANTS Block, HeightOf, PrevHash, Corrupt

VARIABLE store   \* height -> block, or Corrupt where the file is damaged

Heights == DOMAIN store

WellFormed(s) ==
  /\ DOMAIN s = {} \/ \E lo, hi \in DOMAIN s : DOMAIN s = lo .. hi
  /\ \A h \in DOMAIN s :
       s[h] # Corrupt =>
         /\ HeightOf[s[h]] = h
         /\ (h - 1 \in DOMAIN s /\ s[h - 1] # Corrupt) => PrevHash[s[h]] = s[h - 1]

StoreInit == store = << >>

\* New blocks above every stored one; the stored ones stay as they were and
\* the join decodes.
Extend ==
  /\ Heights \subseteq DOMAIN store' /\ Heights # DOMAIN store'
  /\ \A h \in Heights : store'[h] = store[h]
  /\ \A h \in DOMAIN store' \ Heights : store'[h] \in Block /\ \A g \in Heights : g < h
  /\ \A h \in Heights : h + 1 \notin Heights => store[h] # Corrupt
  /\ WellFormed(store')

\* Everything from some height up is dropped.
CutBack ==
  /\ DOMAIN store' \subseteq Heights
  /\ \A h \in DOMAIN store' : store'[h] = store[h]
  /\ \A h \in DOMAIN store', g \in Heights : g < h => g \in DOMAIN store'

\* The file is damaged from some height up.
Decay ==
  /\ DOMAIN store' = Heights
  /\ \A h \in Heights : store'[h] \in {store[h], Corrupt}
  /\ \A h, g \in Heights : h < g /\ store'[h] = Corrupt => store'[g] = Corrupt

StoreNext == Extend \/ CutBack \/ Decay

StoreSpec == StoreInit /\ [][StoreNext]_store
=============================================================================
