--------------------------- MODULE SnapshotImport ---------------------------
(***************************************************************************)
(* Bootstrapping the cache from a snapshot peer (snapshot/import.rs), at   *)
(* every start and before the ingestor runs: read the peer's manifest,     *)
(* then for each epoch download the body, check it against the manifest    *)
(* and in itself, look its hashes up at the local node, check that it      *)
(* joins the cache, commit.  The peer and the node move all the while, and *)
(* the process may stop at any point.                                      *)
(*                                                                         *)
(* The peer is what it serves (snapshot/serve.rs, export.rs): a run of     *)
(* blocks, from which its manifest and bodies are cut.  Corrupt stands for *)
(* a record that fails the checks of its own: it does not decode, carries  *)
(* another height or its tree sizes do not add up.                         *)
(***************************************************************************)
EXTENDS BlockCache, Sequences

CONSTANTS
  NodeChains,    \* the chains the local node may be on: height -> block
  PeerRuns,      \* the runs the peer may serve: height -> block or Corrupt
  StartHeight,   \* where the ingestor fills an empty cache from
  FetchAttempts, \* FETCH_ATTEMPTS
  Limit          \* Limit[k]: how often the environment may do k

Happening == {"node", "peer", "fault", "restart", "rollback"}

ASSUME ImportAssumption ==
  /\ \A c \in NodeChains : Max(DOMAIN c) \in Nat /\ c \in [0 .. Max(DOMAIN c) -> Block]
  /\ \A p \in PeerRuns : /\ Min(DOMAIN p) \in Nat /\ Max(DOMAIN p) \in Nat
                         /\ p \in [Min(DOMAIN p) .. Max(DOMAIN p) -> Entry]
  /\ StartHeight \in Nat
  /\ FetchAttempts \in Nat \ {0}
  /\ Limit \in [Happening -> Nat]

\* A node's chain is linked by hash from its tip to height 0.
ASSUME ChainAssumption ==
  \A c \in NodeChains : \A h \in DOMAIN c :
    HeightOf[c[h]] = h /\ (h > 0 => PrevHash[c[h]] = c[h - 1])

VARIABLES
  node,    \* the chain the node is on
  peer,    \* the run the peer serves
  cache,   \* the local database
  import,  \* where the import is, and its local variables
  held,    \* history: the chains the node was on since the lookups began
  left     \* what may still happen

importVars == <<node, peer, cache, import, held, left>>

Happens(k) == left[k] > 0 /\ left' = [left EXCEPT ![k] = @ - 1]

NoImport ==
  [at |-> "manifest", base |-> None, entries |-> << >>, node_tip |-> None,
   attempt |-> 1, body |-> << >>, hashes |-> << >>]

-----------------------------------------------------------------------------
(***************************************************************************)
(* The environment (external).                                             *)
(***************************************************************************)
NodeMoves(chain) ==
  /\ chain # node
  /\ Happens("node")
  /\ node' = chain
  /\ held' = IF import.at = "lookup" THEN held \cup {chain} ELSE held
  /\ UNCHANGED <<peer, cache, import>>

PeerMoves(run) ==
  /\ run # peer
  /\ Happens("peer")
  /\ peer' = run
  /\ UNCHANGED <<node, cache, import, held>>

-----------------------------------------------------------------------------
(***************************************************************************)
(* What the peer publishes: the epochs its tip is past, the lowest clipped *)
(* at its base.  A digest is as good as what it is taken over.             *)
(***************************************************************************)
PeerBase == Min(DOMAIN peer)

EntryOf(i) ==
  LET start == Max({epoch_first_height(i), PeerBase})
      end   == epoch_last_height(i)
  IN  [index |-> i, start |-> start, end |-> end, digest |-> Restrict(peer, start .. end)]

Publishes(i) ==
  /\ epoch_index(PeerBase) <= i
  /\ epoch_last_height(i) < Max(DOMAIN peer)

manifest ==
  LET first == epoch_index(PeerBase)
      count == Cardinality({i \in 0 .. epoch_index(Max(DOMAIN peer)) : Publishes(i)})
  IN  [k \in 1 .. count |-> EntryOf(first + k - 1)]

-----------------------------------------------------------------------------
\* The import gives up; the ingestor takes over from what is cached.
Degraded == [NoImport EXCEPT !.at = "ingest"]

\* manifest reads the cache's range and the digest rows one after the other.
ReadOwnRange ==
  /\ import.at = "manifest"
  /\ import' = [import EXCEPT !.at = "rows", !.base = PeerBase]
  /\ UNCHANGED <<node, peer, cache, held, left>>

ReadManifest ==
  /\ import.at = "rows"
  /\ import' = [import EXCEPT !.at = "info", !.entries = manifest]
  /\ UNCHANGED <<node, peer, cache, held, left>>

\* Only the lowest entry may begin mid-epoch, at the base the manifest states.
validate_manifest(base, entries) ==
  \A k \in DOMAIN entries :
    /\ entries[k].start <= entries[k].end
    /\ entries[k].end = epoch_last_height(entries[k].index)
    /\ IF k = 1 THEN entries[k].start >= epoch_first_height(entries[k].index)
                     /\ entries[k].start = base
       ELSE entries[k].index = entries[k - 1].index + 1
            /\ entries[k].start = epoch_first_height(entries[k].index)

GetBlockchainInfo ==
  /\ import.at = "info"
  /\ import' = IF validate_manifest(import.base, import.entries)
               THEN [import EXCEPT !.at = "next", !.node_tip = Max(DOMAIN node)]
               ELSE Degraded
  /\ UNCHANGED <<node, peer, cache, held, left>>

-----------------------------------------------------------------------------
(***************************************************************************)
(* The loop over the entries.                                              *)
(***************************************************************************)
entry == Head(import.entries)

\* The first height this entry has to bring.
next_height == IF IsEmpty(cache) THEN entry.start ELSE AppendHeight(cache)

SkipHeld ==
  /\ import.at = "next"
  /\ import.entries # << >>
  /\ entry.end < next_height
  /\ import' = [import EXCEPT !.entries = Tail(@)]
  /\ UNCHANGED <<node, peer, cache, held, left>>

\* No entry is left, there is a gap below this one, or it is above the node.
StopImport ==
  /\ import.at = "next"
  /\ import.entries # << >> =>
       /\ entry.end >= next_height
       /\ entry.start > next_height \/ entry.end > import.node_tip
  /\ import' = Degraded
  /\ UNCHANGED <<node, peer, cache, held, left>>

WantsBody ==
  /\ import.at = "next"
  /\ import.entries # << >>
  /\ entry.start <= next_height /\ next_height <= entry.end
  /\ entry.end <= import.node_tip

\* The epoch as the peer has it now, or its settled answer that it has none.
FetchBody ==
  /\ WantsBody
  /\ import' = IF Publishes(entry.index)
               THEN [import EXCEPT !.at = "verify", !.attempt = 1,
                                   !.body = EntryOf(entry.index).digest]
               ELSE Degraded
  /\ UNCHANGED <<node, peer, cache, held, left>>

RetriesForever ==   \* mutant: a failed transfer is always tried again
  /\ WantsBody
  /\ import' = [import EXCEPT !.attempt = IF @ < FetchAttempts THEN @ + 1 ELSE 1]
  /\ UNCHANGED <<node, peer, cache, held, left>>

\* The transfer breaks, stalls or is told to come back.
FetchFails ==
  /\ WantsBody
  /\ import' = IF import.attempt < FetchAttempts
               THEN [import EXCEPT !.attempt = @ + 1] ELSE Degraded
  /\ UNCHANGED <<node, peer, cache, held, left>>

SkipsLinkage(body) ==   \* mutant: the records are taken one by one
  \A h \in DOMAIN body : body[h] # Corrupt

\* decode_block, check_linkage and check_tree_sizes over a body.
LinkedRun(body) ==
  \A h \in DOMAIN body :
    /\ body[h] # Corrupt
    /\ h - 1 \in DOMAIN body => PrevHash[body[h]] = body[h - 1]

VerifyBody ==
  /\ import.at = "verify"
  /\ import' = IF import.body = entry.digest /\ LinkedRun(import.body)
               THEN [import EXCEPT !.at = "lookup", !.hashes = << >>]
               ELSE Degraded
  /\ held' = {node}
  /\ UNCHANGED <<node, peer, cache, left>>

\* fetch_block_hashes: the batches are answered in any order, each by the
\* chain the node is on by then.
LookupHash(h) ==
  /\ import.at = "lookup"
  /\ h \in DOMAIN import.body \ DOMAIN import.hashes
  /\ h \in DOMAIN node
  /\ import' = [import EXCEPT !.hashes =
       [g \in DOMAIN @ \cup {h} |-> IF g = h THEN node[h] ELSE @[g]]]
  /\ UNCHANGED <<node, peer, cache, held, left>>

LookupFails ==
  /\ import.at = "lookup"
  /\ DOMAIN import.body # DOMAIN import.hashes
  /\ IF DOMAIN import.body \ DOMAIN import.hashes \subseteq DOMAIN node
     THEN Happens("fault") ELSE UNCHANGED left
  /\ import' = Degraded
  /\ UNCHANGED <<node, peer, cache, held>>

verify_anchor(body, hashes) == body = hashes

\* No manifest, no answer to get_blockchain_info, or a commit the cache refuses.
ImportFails ==
  /\ \/ import.at \in {"manifest", "rows", "info"}
     \/ import.at = "lookup" /\ DOMAIN import.hashes = DOMAIN import.body
  /\ import' = Degraded
  /\ UNCHANGED <<node, peer, cache, held, left>>

JoinsAnything(first) == TRUE   \* mutant: no junction check

check_junction(first) == IsEmpty(cache) \/ PrevHash[first] = latest_hash(cache)

AlwaysBased(start) == start   \* mutant: every epoch records a base

\* The base is recorded only for a cache that was empty.
snapshot_base(start) == IF IsEmpty(cache) THEN start ELSE None

CommitEpoch ==
  LET arriving == Restrict(import.body, next_height .. entry.end)
  IN  /\ import.at = "lookup"
      /\ DOMAIN import.hashes = DOMAIN import.body
      /\ IF verify_anchor(import.body, import.hashes)
              /\ check_junction(arriving[next_height])
         THEN /\ cache' = append(cache, arriving, snapshot_base(next_height))
              /\ import' = [import EXCEPT !.at = "next", !.entries = Tail(@),
                                          !.body = << >>, !.hashes = << >>]
         ELSE /\ import' = Degraded
              /\ UNCHANGED cache
      /\ UNCHANGED <<node, peer, held, left>>

-----------------------------------------------------------------------------
(***************************************************************************)
(* Between two imports the ingestor extends the cache along the node's     *)
(* chain or cuts it back.  A stop drops the epoch in flight.               *)
(***************************************************************************)
IngestBlock ==
  LET h == IF IsEmpty(cache) THEN StartHeight ELSE AppendHeight(cache)
  IN  /\ import.at = "ingest"
      /\ h \in DOMAIN node
      /\ ~IsEmpty(cache) => PrevHash[node[h]] = latest_hash(cache)
      /\ cache' = append(cache, Restrict(node, {h}), None)
      /\ UNCHANGED <<node, peer, import, held, left>>

RollBack(height) ==
  /\ import.at = "ingest"
  /\ height \in Cached(cache)
  /\ Happens("rollback")
  /\ cache' = truncate_from(cache, height)
  /\ UNCHANGED <<node, peer, import, held>>

Restart ==
  /\ Happens("restart")
  /\ import' = NoImport
  /\ held' = {}
  /\ UNCHANGED <<node, peer, cache>>

-----------------------------------------------------------------------------
ImportInit ==
  /\ node \in NodeChains
  /\ peer \in PeerRuns
  /\ cache = EmptyCache
  /\ import = NoImport
  /\ held = {}
  /\ left = Limit

ImportStep ==
  \/ ReadOwnRange \/ ReadManifest \/ GetBlockchainInfo
  \/ SkipHeld \/ StopImport
  \/ FetchBody \/ FetchFails \/ VerifyBody
  \/ \E h \in DOMAIN import.body : LookupHash(h)
  \/ LookupFails
  \/ CommitEpoch
  \/ ImportFails

Ingesting == IngestBlock \/ \E height \in Cached(cache) : RollBack(height)

ImportNext ==
  \/ \E chain \in NodeChains : NodeMoves(chain)
  \/ \E run \in PeerRuns : PeerMoves(run)
  \/ ImportStep
  \/ Ingesting
  \/ Restart

ImportSpec == ImportInit /\ [][ImportNext]_importVars

\* Every call of the import returns: the node client and the peer's reads have
\* timeouts.
FairImportSpec == ImportSpec /\ WF_importVars(ImportStep)

-----------------------------------------------------------------------------
(***************************************************************************)
(* import.rs on the junction: whatever the peer served and however it and  *)
(* the node reorganised between epochs, restarts and rollbacks, the cache  *)
(* is one run of hash-linked blocks; no seam splices one chain onto        *)
(* another.                                                                *)
(***************************************************************************)
ImportedLinked ==
  /\ ~IsEmpty(cache) => Cached(cache) = BaseHeight(cache) .. latest_height(cache)
  /\ \A h \in Cached(cache) :
       h + 1 \in Cached(cache) => PrevHash[cache.blocks[h + 1]] = cache.blocks[h]

(***************************************************************************)
(* docs/decisions/0024: an imported epoch describes the operator's own     *)
(* chain.  Although its hashes are looked up one batch at a time while the *)
(* node may reorganise, everything an import commits was part of one chain *)
(* the node was on during those lookups.                                   *)
(***************************************************************************)
ImportedFromOneChain ==
  [][import.at = "lookup" /\ cache' # cache =>
       \E chain \in held : \A h \in Cached(cache') \ Cached(cache) :
         h \in DOMAIN chain /\ cache'.blocks[h] = chain[h]
    ]_importVars

(***************************************************************************)
(* The recorded snapshot base is the lowest cached height: the floor the   *)
(* next start derives from it is a block the cache has.                    *)
(***************************************************************************)
BaseIsLowest == cache.base # None => ~IsEmpty(cache) /\ cache.base = BaseHeight(cache)

(***************************************************************************)
(* bootstrap_from_snapshot is never fatal: whatever the peer and the node  *)
(* do, the import ends and the ingestor takes over.                        *)
(***************************************************************************)
ImportEnds == (import.at # "ingest") ~> (import.at = "ingest")
=============================================================================
