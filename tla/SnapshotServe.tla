--------------------------- MODULE SnapshotServe ---------------------------
(***************************************************************************)
(* The HTTP server that publishes the cache (snapshot/serve.rs), beside    *)
(* the walk of SnapshotExport and the ingestor.  An epoch body is streamed *)
(* out of one read transaction by a blocking task that holds a download    *)
(* permit; a bounded channel makes it wait for its client.  A chunk is one *)
(* record.                                                                 *)
(*                                                                         *)
(* The requests that change nothing, the manifest and the answers 404, 429 *)
(* and 500, are where the actions' guards do not hold.                     *)
(***************************************************************************)
EXTENDS SnapshotExport, Sequences, FiniteSets

CONSTANTS
  Peer,              \* the clients
  MaxDownloads,      \* --snapshot-max-concurrent-downloads
  CHUNKS_IN_FLIGHT,
  Requests           \* how many downloads the clients ask for

ASSUME ServeAssumption ==
  MaxDownloads \in Nat \ {0} /\ CHUNKS_IN_FLIGHT \in Nat \ {0} /\ Requests \in Nat

VARIABLES
  download,   \* download[p]: the export serving p and what p has of it
  requests    \* downloads left to ask for

serveVars == <<exportVars, download, requests>>

NoDownload == [at |-> "none", index |-> None, span |-> None, records |-> << >>, next |-> 0,
               channel |-> << >>, got |-> << >>, reading |-> FALSE]

Set(p, d) == download' = [download EXCEPT ![p] = d]

\* The permit is the export's, not the response's.
HoldsPermit(p) == download[p].at \in {"opened", "found", "sending"}

\* epoch: the row is there and a permit is free.
GetEpoch(p, i) ==
  /\ download[p].at = "none"
  /\ requests > 0
  /\ i \in DOMAIN pub.digests
  /\ Cardinality({q \in Peer : HoldsPermit(q)}) < MaxDownloads
  /\ Set(p, [NoDownload EXCEPT !.at = "opened", !.index = i, !.reading = TRUE])
  /\ requests' = requests - 1
  /\ UNCHANGED exportVars

\* The export is over: its permit is free and the channel has no sender.
Closed(d) == IF d.reading THEN [d EXCEPT !.at = "sent", !.records = << >>] ELSE NoDownload

\* write_epoch reads the row again; a truncation may have taken it.
FindRow(p) ==
  /\ download[p].at = "opened"
  /\ LET i == download[p].index
     IN  Set(p, IF i \in DOMAIN pub.digests
                THEN [download[p] EXCEPT !.at = "found", !.span = pub.digests[i].start .. pub.digests[i].end]
                ELSE Closed(download[p]))
  /\ UNCHANGED <<exportVars, requests>>

\* write_body and for_each_raw: one read transaction for the whole body.
ReadEpoch(p) ==
  /\ download[p].at = "found"
  /\ LET span == download[p].span
     IN  Set(p, [download[p] EXCEPT !.at = "sending", !.next = Min(span),
                                    !.records = Records(pub, Min(span), Max(span))])
  /\ UNCHANGED <<exportVars, requests>>

SendCurrent(p) ==   \* mutant: each record from a transaction of its own
  LET d == download[p]
  IN  /\ d.at = "sending" /\ d.reading
      /\ d.next \in d.span /\ d.next \in Cached(pub)
      /\ Len(d.channel) < CHUNKS_IN_FLIGHT
      /\ Set(p, [d EXCEPT !.next = @ + 1, !.channel = Append(@, pub.blocks[d.next])])
      /\ UNCHANGED <<exportVars, requests>>

\* ChunkWriter: blocks while the channel is full.
Send(p) ==
  LET d == download[p]
  IN  /\ d.at = "sending" /\ d.reading
      /\ d.next \in DOMAIN d.records
      /\ Len(d.channel) < CHUNKS_IN_FLIGHT
      /\ Set(p, [d EXCEPT !.next = @ + 1, !.channel = Append(@, d.records[d.next])])
      /\ UNCHANGED <<exportVars, requests>>

StuckSender(p) ==   \* mutant: a client that left is not noticed
  /\ FALSE
  /\ UNCHANGED serveVars

\* A receiver that is gone fails the send.
SendFails(p) ==
  /\ download[p].at = "sending" /\ ~download[p].reading
  /\ Set(p, NoDownload)
  /\ UNCHANGED <<exportVars, requests>>

\* The last record is flushed, or the body has a hole and the export an error.
ExportEnds(p) ==
  /\ download[p].at = "sending" /\ download[p].reading
  /\ download[p].next \notin DOMAIN download[p].records
  /\ Set(p, Closed(download[p]))
  /\ UNCHANGED <<exportVars, requests>>

ClientReads(p) ==
  /\ download[p].reading /\ download[p].channel # << >>
  /\ Set(p, [download[p] EXCEPT !.channel = Tail(@), !.got = Append(@, Head(download[p].channel))])
  /\ UNCHANGED <<exportVars, requests>>

\* The end of the body, or the client's own end: the receiver is dropped.
ClientLeaves(p) ==
  /\ download[p].reading
  /\ Set(p, IF download[p].at = "sent" THEN NoDownload
            ELSE [download[p] EXCEPT !.reading = FALSE, !.channel = << >>])
  /\ UNCHANGED <<exportVars, requests>>

Exports(p) == FindRow(p) \/ ReadEpoch(p) \/ Send(p) \/ SendFails(p) \/ ExportEnds(p)

-----------------------------------------------------------------------------
ServeInit ==
  /\ ExportInit
  /\ download = [p \in Peer |-> NoDownload]
  /\ requests = Requests

ServeNext ==
  \/ ExportNext /\ UNCHANGED <<download, requests>>
  \/ \E p \in Peer :
       \/ \E i \in DOMAIN pub.digests : GetEpoch(p, i)
       \/ Exports(p) \/ ClientReads(p) \/ ClientLeaves(p)

ServeSpec == ServeInit /\ [][ServeNext]_serveVars

(***************************************************************************)
(* The walk and the exports run; the ingestor follows a node that grows;   *)
(* a client goes on reading what is there or leaves.  A client that does   *)
(* neither keeps its permit: nothing in serve.rs times it out.             *)
(***************************************************************************)
FairServeSpec ==
  /\ ServeSpec
  /\ WF_serveVars(MaintainDigests /\ UNCHANGED <<download, requests>>)
  /\ WF_serveVars((\E block \in Block : AppendsBlock(block)) /\ UNCHANGED <<download, requests>>)
  /\ \A p \in Peer : WF_serveVars(Exports(p)) /\ WF_serveVars(ClientReads(p) \/ ClientLeaves(p))

-----------------------------------------------------------------------------
(***************************************************************************)
(* What a client receives is one linked run of the chain, a body out of    *)
(* one state of the cache, even when the ingestor cuts the epoch back and  *)
(* grows it on another branch while the client reads (for_each_raw): a     *)
(* download is cut short or superseded, never spliced.                     *)
(***************************************************************************)
BodyIsOneRun ==
  \A p \in Peer :
    LET got == download[p].got
    IN  \A k \in 1 .. Len(got) - 1 : PrevHash[got[k + 1]] = got[k]

(***************************************************************************)
(* A download permit comes back, whatever the client does short of holding *)
(* the connection open unread, and whatever the ingestor does to the epoch *)
(* meanwhile (ChunkWriter's failed send, the export's early ends).         *)
(***************************************************************************)
PermitComesBack == \A p \in Peer : HoldsPermit(p) ~> ~HoldsPermit(p)
=============================================================================
