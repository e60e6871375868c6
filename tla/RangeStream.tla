---------------------------- MODULE RangeStream ----------------------------
(***************************************************************************)
(* Serving a block range (service/blocks.rs) while the ingestor rewrites   *)
(* the cache and the node moves.  A stream reads the cache in chunks, each *)
(* under one read transaction, fetches the heights the chunk missed from   *)
(* the node, checks that consecutive blocks connect and reports a seam the *)
(* cache is party to in the ingestor's repair slot.                        *)
(***************************************************************************)
EXTENDS Ingestor, Sequences

CONSTANTS
  Client,     \* wallets
  Requests,   \* the <<start, end>> ranges they ask for, descending ones too
  ChunkSize   \* CACHE_READ_CHUNK: heights per cache read

Miss == "miss"    \* a covered height the cache does not hold

\* ChainLink: the block delivered last, and what the next one is checked with.
ChainLink == [height : Nat \ {0}, source : {"cache", "node"}, expected : Block \cup {None}]

ASSUME StreamAssumption ==
  /\ Requests \subseteq (Nat \ {0}) \X (Nat \ {0})   \* validate_block_range
  /\ ChunkSize \in Nat \ {0}
  /\ Miss \notin Block
  /\ None \notin ChainLink

VARIABLE stream   \* stream[c]: the range stream of wallet c

allVars == <<vars, stream>>

Closed == [phase |-> "closed", from |-> 0, to |-> 0, at |-> 0, chunk |-> << >>,
           link |-> None, sent |-> << >>]

Low(s)  == Min({s.from, s.to})
High(s) == Max({s.from, s.to})
Descending(s) == s.from > s.to

Set(c, s) == stream' = [stream EXCEPT ![c] = s]

-----------------------------------------------------------------------------
Serving == pc \notin {"open", "import"}

\* The lowest height served: the cache's base, or the floor while it is empty.
IngestFloor == IF IsEmpty(cache) THEN start_height ELSE BaseHeight(cache)

(***************************************************************************)
(* get_block_range: validate and check the ingest floor, once, then open   *)
(* the stream.  A wallet whose stream ended without its blocks retries.    *)
(***************************************************************************)
GetBlockRange(c, request) ==
  /\ Serving
  /\ stream[c].phase \in {"closed", "aborted", "failed"}
  /\ Min({request[1], request[2]}) >= IngestFloor
  /\ Set(c, [Closed EXCEPT !.phase = "serving", !.from = request[1], !.to = request[2],
                           !.at = request[1]])
  /\ UNCHANGED vars

\* chunk_from: the next heights to ask the cache for.
chunk_from(s) ==
  IF Descending(s) THEN Max({s.at - (ChunkSize - 1), Low(s)}) .. s.at
                   ELSE s.at .. Min({s.at + (ChunkSize - 1), High(s)})

(***************************************************************************)
(* read_chunk: what one read covers.  The byte budget may stop it before   *)
(* any cached block but the first one read, so it never comes back empty.  *)
(***************************************************************************)
Covers(s) ==
  LET asked == chunk_from(s)
      held  == asked \cap Cached(cache)
      cuts  == IF held = {} THEN {} ELSE held \ {IF Descending(s) THEN Max(held) ELSE Min(held)}
  IN  {asked} \cup {{h \in asked : IF Descending(s) THEN h > cut ELSE h < cut} : cut \in cuts}

ReadChunk(c) ==
  LET s == stream[c]
  IN  /\ s.phase = "serving"
      /\ s.at \notin DOMAIN s.chunk
      /\ \E covered \in Covers(s) :
           Set(c, [s EXCEPT !.chunk = [h \in covered |->
                      IF h \in Cached(cache) THEN cache.blocks[h] ELSE Miss]])
      /\ UNCHANGED vars

-----------------------------------------------------------------------------
\* ChainLink::after: what the block that follows must hash to.
after(s, block, source) ==
  [height |-> s.at, source |-> source,
   expected |-> IF Descending(s) THEN PrevHash[block] ELSE block]

ConnectsUpwards(s, block) ==   \* mutant: descending streams are not checked
  s.link # None /\ ~Descending(s) => s.link.expected = PrevHash[block]

\* ChainLink::check.
Connects(s, block) ==
  s.link # None => s.link.expected = (IF Descending(s) THEN block ELSE PrevHash[block])

CacheImplicated(s, source) == "cache" \in {s.link.source, source}

Delivered(s, block, source) ==
  [s EXCEPT !.sent = Append(@, block),
            !.link = after(s, block, source),
            !.phase = IF s.at = s.to THEN "done" ELSE "serving",
            !.at = IF Descending(s) THEN @ - 1 ELSE @ + 1,
            !.chunk = Restrict(@, DOMAIN @ \ {s.at})]

Ended(s, phase) == [s EXCEPT !.phase = phase, !.chunk = << >>]

(***************************************************************************)
(* One block resolved from either source: deliver it, or end the stream    *)
(* and report the lower side of the seam.                                  *)
(***************************************************************************)
Resolve(c, block, source) ==
  LET s == stream[c]
  IN  \/ /\ Connects(s, block)
         /\ Set(c, Delivered(s, block, source))
         /\ UNCHANGED vars
      \/ /\ ~Connects(s, block)
         /\ Set(c, Ended(s, "aborted"))
         /\ repair' = IF CacheImplicated(s, source)
                      THEN reported(Min({s.at, s.link.height})) ELSE repair
         /\ UNCHANGED <<node, cache, pc, ingestVars, left>>

ReadyToServe(c) == stream[c].phase = "serving" /\ stream[c].at \in DOMAIN stream[c].chunk

ServeCached(c) ==
  LET s == stream[c]
  IN  /\ ReadyToServe(c)
      /\ s.chunk[s.at] \in Block
      /\ Resolve(c, s.chunk[s.at], "cache")

\* The miss is fetched at this moment, chunk and link long since read.
ServeFromNode(c) ==
  LET s == stream[c]
  IN  /\ ReadyToServe(c)
      /\ s.chunk[s.at] = Miss
      /\ s.at \in DOMAIN node
      /\ Resolve(c, node[s.at], "node")

\* A stored block does not decode, the node has no such height or does not
\* answer.
ServeFails(c) ==
  LET s == stream[c]
  IN  /\ ReadyToServe(c)
      /\ \/ s.chunk[s.at] = Corrupt /\ UNCHANGED vars
         \/ s.chunk[s.at] = Miss /\ s.at \notin DOMAIN node /\ UNCHANGED vars
         \/ /\ s.chunk[s.at] = Miss
            /\ Spend("fault")
            /\ UNCHANGED <<node, cache, pc, ingestVars, repair>>
      /\ Set(c, Ended(s, "failed"))

-----------------------------------------------------------------------------
StreamInit == Init /\ stream = [c \in Client |-> Closed]

StreamStep(c) ==
  \/ ReadChunk(c)
  \/ ServeCached(c)
  \/ ServeFromNode(c)
  \/ ServeFails(c)

\* A restart takes the connections down with it.
ProcessStep ==
  /\ Core
  /\ stream' = IF pc' = "open" THEN [c \in Client |-> Closed] ELSE stream

StreamNext ==
  \/ ProcessStep
  \/ \E c \in Client :
       \/ StreamStep(c)
       \/ \E request \in Requests : GetBlockRange(c, request)

StreamSpec == StreamInit /\ [][StreamNext]_allVars

\* The runtime keeps polling the ingestor and the streams; wallets retry.  The
\* ingestor opens, starts and steps one after the other, and a stream is either
\* served or asked for, so one condition each is as strong as several.
StreamFairness ==
  /\ WF_allVars(ProcessStep /\ \/ \E lever \in SyncFrom \cup {None} : OpenCache(lever)
                               \/ StartIngestor
                               \/ IngestorStep)
  /\ WF_allVars(ProcessStep /\ WindowElapses)
  /\ \A c \in Client : WF_allVars(StreamStep(c) \/ \E request \in Requests : GetBlockRange(c, request))

FairStreamSpec == StreamSpec /\ StreamFairness

-----------------------------------------------------------------------------
(***************************************************************************)
(* Whatever truncations, re-ingestions and node moves happen between two   *)
(* reads, what a wallet received is a run of the requested range from its  *)
(* start, gapless and hash-linked in the direction served, and a stream    *)
(* that completes delivered the whole range (block_range_stream).          *)
(***************************************************************************)
ServedRunLinked ==
  \A c \in Client :
    LET s    == stream[c]
        step == IF Descending(s) THEN -1 ELSE 1
    IN  /\ \A i \in 1 .. Len(s.sent) : HeightOf[s.sent[i]] = s.from + step * (i - 1)
        /\ \A i \in 2 .. Len(s.sent) :
             IF Descending(s) THEN PrevHash[s.sent[i - 1]] = s.sent[i]
                              ELSE PrevHash[s.sent[i]] = s.sent[i - 1]
        /\ s.phase = "done" => Len(s.sent) = High(s) - Low(s) + 1

(***************************************************************************)
(* A wallet that keeps asking is eventually served the whole range, however*)
(* the cache was torn down and repaired under its earlier attempts, once   *)
(* the node settles.                                                       *)
(***************************************************************************)
WalletServed == \A c \in Client : <>(stream[c].phase = "done")
=============================================================================
