------------------------------ MODULE Mempool ------------------------------
(***************************************************************************)
(* The shared mempool monitor (service/mempool_monitor.rs), the            *)
(* GetMempoolStream streams that follow it and the GetMempoolTx calls that *)
(* read it (service/mempool.rs).                                           *)
(*                                                                         *)
(* One task refreshes the mempool: read the tip, list the mempool, fetch   *)
(* every transaction not seen in this block interval, publish.  Streams    *)
(* hold the last published snapshot they looked at, emit what their index  *)
(* has not reached, and end when the snapshot's tip is no longer the one   *)
(* they started at or the snapshot is too old.  The node moves throughout. *)
(***************************************************************************)
EXTENDS Naturals, Sequences, FiniteSets, Functions

CONSTANTS
  Tip,       \* tip hashes
  FirstTip,  \* the node's tip at the start
  NextTips,  \* NextTips[t]: the tips the node may move to from t
  Tx,        \* transactions
  Garbled,   \* those that do not parse
  Suffix,    \* txid suffixes a wallet may send
  EndsWith,  \* EndsWith[s]: the transactions whose txid ends with s
  TooLong,   \* the suffixes longer than a txid
  MAX_EXCLUDE_TXID_SUFFIXES,
  Client,    \* GetMempoolStream calls
  None,      \* no tip: the empty string
  Allowance  \* what the environment may do: with which transactions, each event how often

ASSUME TipsAssumption ==
  /\ FirstTip \in Tip
  /\ NextTips \in [Tip -> SUBSET Tip]
  /\ \A t \in Tip : t \notin NextTips[t]

\* mined[t]: the transactions in the chain that ends with t.
Allowed == [txs : SUBSET Tx, mined : [Tip -> SUBSET Tx], move : Nat, arrive : Nat,
            evict : Nat, fault : Nat, slow : Nat, list : Nat]

ASSUME MempoolAssumption ==
  /\ Garbled \subseteq Tx
  /\ None \notin Tip
  /\ EndsWith \in [Suffix -> SUBSET Tx] /\ TooLong \subseteq Suffix
  /\ MAX_EXCLUDE_TXID_SUFFIXES \in Nat
  /\ Allowance \subseteq Allowed

VARIABLES
  node,      \* the node: tip, mempool, reachable or not; the tips it left, if it came back to one
  monitor,   \* MonitorState, and where the refresh is
  snapshot,  \* the published MempoolSnapshot
  stream,    \* stream[c]: the stream of client c
  wallet,    \* a wallet that calls GetMempoolTx: what it got at its last snapshot's tip
  may        \* the chains, and what the environment may still do

mempoolVars == <<node, monitor, snapshot, stream, wallet, may>>

Mined == may.mined[node.tip]

Use(k) == may[k] > 0 /\ may' = [may EXCEPT ![k] = @ - 1]

Open(c) == stream[c].phase \in {"serving", "waiting"}

-----------------------------------------------------------------------------
(***************************************************************************)
(* The node (external).  A new tip takes what its chain mined out of the   *)
(* mempool and may return what only the chain it left had mined.  A node   *)
(* moves to a chain of more work; one that is restarted from an older      *)
(* state, or another one behind the same address, shows an old tip again.  *)
(***************************************************************************)
NodeMoves(tip, returns) ==
  /\ Use("move")
  /\ node' = [node EXCEPT !.tip = tip,
                          !.pool = (@ \ may.mined[tip]) \cup returns,
                          !.left = @ \cup {node.tip},
                          !.back = @ \/ tip \in node.left]
  /\ UNCHANGED <<monitor, snapshot, stream, wallet>>

TxArrives(tx) ==
  /\ tx \in may.txs \ (node.pool \cup Mined)
  /\ Use("arrive")
  /\ node' = [node EXCEPT !.pool = @ \cup {tx}]
  /\ UNCHANGED <<monitor, snapshot, stream, wallet>>

TxEvicted(tx) ==
  /\ tx \in node.pool
  /\ Use("evict")
  /\ node' = [node EXCEPT !.pool = @ \ {tx}]
  /\ UNCHANGED <<monitor, snapshot, stream, wallet>>

\* The node goes away for good.
NodeDies ==
  /\ node.up
  /\ Use("fault")
  /\ node' = [node EXCEPT !.up = FALSE]
  /\ UNCHANGED <<monitor, snapshot, stream, wallet>>

\* STALENESS_CUTOFF passes since the snapshot was confirmed: the node is gone,
\* or one refresh takes that long.
SnapshotAges ==
  /\ ~snapshot.stale
  /\ snapshot' = [snapshot EXCEPT !.stale = TRUE]
  /\ IF node.up THEN Use("slow") ELSE UNCHANGED may
  /\ UNCHANGED <<node, monitor, stream, wallet>>

-----------------------------------------------------------------------------
(***************************************************************************)
(* refresh.  The interval's state is reset when the tip differs from the   *)
(* one the state was gathered for.                                         *)
(***************************************************************************)
NewInterval(tip) == [monitor EXCEPT !.tip = tip, !.seen = {}, !.entries = << >>]

ForgetsSeenOnly ==   \* mutant: the entries of the old interval stay
  /\ monitor.at = "idle"
  /\ node.up
  /\ monitor' = IF node.tip # monitor.tip
                THEN [monitor EXCEPT !.at = "list", !.tip = node.tip, !.seen = {}]
                ELSE [monitor EXCEPT !.at = "list"]
  /\ UNCHANGED <<node, snapshot, stream, wallet, may>>

ReadTip ==
  /\ monitor.at = "idle"
  /\ node.up
  /\ monitor' = [IF node.tip # monitor.tip THEN NewInterval(node.tip) ELSE monitor
                   EXCEPT !.at = "list"]
  /\ UNCHANGED <<node, snapshot, stream, wallet, may>>

ListMempool ==
  /\ monitor.at = "list"
  /\ node.up
  /\ monitor' = [monitor EXCEPT !.at = "fetch", !.todo = node.pool \ monitor.seen]
  /\ UNCHANGED <<node, snapshot, stream, wallet, may>>

\* The refresh ends early with an error and nothing is published.
GiveUp(m) == [m EXCEPT !.at = "idle", !.todo = {}]

\* The tip cannot be read: the loop sleeps and comes back here.
TipFails ==
  /\ monitor.at = "idle"
  /\ ~node.up
  /\ UNCHANGED mempoolVars

ListFails ==
  /\ monitor.at = "list"
  /\ IF node.up THEN Use("fault") ELSE UNCHANGED may
  /\ monitor' = GiveUp(monitor)
  /\ UNCHANGED <<node, snapshot, stream, wallet>>

NeverMarksSeen(tx) ==   \* mutant: seen is left alone
  /\ monitor.at = "fetch"
  /\ node.up
  /\ tx \in monitor.todo
  /\ tx \in node.pool \cup Mined
  /\ monitor' = IF tx \in node.pool \ Garbled
                THEN [monitor EXCEPT !.todo = @ \ {tx}, !.entries = Append(@, tx)]
                ELSE [monitor EXCEPT !.todo = @ \ {tx}]
  /\ UNCHANGED <<node, snapshot, stream, wallet, may>>

(***************************************************************************)
(* get_raw_transaction answered: one mined meanwhile is marked seen and    *)
(* left out; one that does not parse is marked seen and fails the refresh. *)
(***************************************************************************)
FetchTx(tx) ==
  /\ monitor.at = "fetch"
  /\ node.up
  /\ tx \in monitor.todo
  /\ tx \in node.pool \cup Mined
  /\ LET fetched == [monitor EXCEPT !.todo = @ \ {tx}, !.seen = @ \cup {tx}]
     IN  monitor' = CASE tx \in Mined -> fetched
                      [] tx \in node.pool \cap Garbled -> GiveUp(fetched)
                      [] tx \in node.pool \ Garbled ->
                           [fetched EXCEPT !.entries = Append(@, tx)]
  /\ UNCHANGED <<node, snapshot, stream, wallet, may>>

SkippedForGood(tx) ==   \* mutant: marked seen all the same
  [monitor EXCEPT !.todo = @ \ {tx}, !.seen = @ \cup {tx}]

\* The call fails, or the transaction is gone: the refresh goes on without it,
\* and the next one tries it again.
Skipped(tx) == [monitor EXCEPT !.todo = @ \ {tx}]

FetchFails(tx) ==
  /\ monitor.at = "fetch"
  /\ tx \in monitor.todo
  /\ IF node.up /\ tx \in node.pool \cup Mined THEN Use("fault") ELSE UNCHANGED may
  /\ monitor' = Skipped(tx)
  /\ UNCHANGED <<node, snapshot, stream, wallet>>

Publish ==
  /\ monitor.at = "fetch"
  /\ monitor.todo = {}
  /\ snapshot' = [tip |-> monitor.tip, entries |-> monitor.entries, stale |-> FALSE]
  /\ monitor' = GiveUp(monitor)
  /\ UNCHANGED <<node, stream, wallet, may>>

-----------------------------------------------------------------------------
(***************************************************************************)
(* get_mempool_stream.                                                     *)
(***************************************************************************)
\* Look at the newest snapshot; a stale one ends the stream with Unavailable.
Look(s) ==
  [s EXCEPT !.phase = IF snapshot.stale THEN "unavailable" ELSE "serving",
            !.tip = snapshot.tip, !.entries = snapshot.entries]

Subscribe(c) ==
  /\ stream[c].phase = "closed"
  /\ stream' = [stream EXCEPT ![c] = Look(@)]
  /\ UNCHANGED <<node, monitor, snapshot, wallet, may>>

ServeAcrossTips(c) ==   \* mutant: the tip is not compared
  LET s == stream[c]
  IN  /\ s.phase = "serving"
      /\ stream' = [stream EXCEPT ![c] =
           [s EXCEPT !.phase = "waiting", !.start = IF @ = None THEN s.tip ELSE @,
                     !.sent = @ \o SubSeq(s.entries, s.index + 1, Len(s.entries)),
                     !.index = Len(s.entries)]]
      /\ UNCHANGED <<node, monitor, snapshot, wallet, may>>

\* Emit what the running index has not reached, or end at a new tip.
Serve(c) ==
  LET s == stream[c]
  IN  /\ s.phase = "serving"
      /\ stream' = [stream EXCEPT ![c] =
           IF s.start \notin {None, s.tip} THEN [s EXCEPT !.phase = "ended"]
           ELSE [s EXCEPT !.phase = "waiting", !.start = s.tip,
                          !.sent = @ \o SubSeq(s.entries, s.index + 1, Len(s.entries)),
                          !.index = Len(s.entries)]]
      /\ UNCHANGED <<node, monitor, snapshot, wallet, may>>

WakeOnPublish(c) ==   \* mutant: waits for a publication only
  /\ stream[c].phase = "waiting"
  /\ <<snapshot.tip, snapshot.entries>> # <<stream[c].tip, stream[c].entries>>
  /\ stream' = [stream EXCEPT ![c] = Look(@)]
  /\ UNCHANGED <<node, monitor, snapshot, wallet, may>>

\* Woken by a publication or by the staleness poll.
Wake(c) ==
  /\ stream[c].phase = "waiting"
  /\ stream' = [stream EXCEPT ![c] = Look(@)]
  /\ UNCHANGED <<node, monitor, snapshot, wallet, may>>

-----------------------------------------------------------------------------
(***************************************************************************)
(* get_mempool_tx.  The reply is cut from the snapshot of the moment; its  *)
(* compact transactions are projected as in Delivery.                      *)
(***************************************************************************)
ExcludesAllMatching(entries, exclude) ==   \* mutant: an ambiguous suffix excludes too
  {tx \in Range(entries) : \E i \in DOMAIN exclude : tx \in EndsWith[exclude[i]]}

\* Only a suffix that a single entry ends with excludes it.
excluded_by_suffixes(entries, exclude) ==
  {tx \in Range(entries) :
     \E i \in DOMAIN exclude :
       /\ tx \in EndsWith[exclude[i]]
       /\ Cardinality({k \in DOMAIN entries : entries[k] \in EndsWith[exclude[i]]}) = 1}

\* Too many suffixes, one that is no suffix, and a stale snapshot are refused.
Served(exclude) ==
  /\ Len(exclude) <= MAX_EXCLUDE_TXID_SUFFIXES
  /\ Range(exclude) \cap TooLong = {}
  /\ ~snapshot.stale

\* The wallet excludes some of what it has, shortening the txids as it likes.
MayExclude(exclude) ==
  \A i \in DOMAIN exclude : exclude[i] \in TooLong \/ wallet.has \cap EndsWith[exclude[i]] # {}

GetMempoolTx(exclude) ==
  /\ MayExclude(exclude)
  /\ Use("list")
  /\ LET had  == IF wallet.tip = snapshot.tip THEN wallet.has ELSE {}
         sent == Range(snapshot.entries) \ excluded_by_suffixes(snapshot.entries, exclude)
     IN  wallet' = IF Served(exclude)
                   THEN [tip |-> snapshot.tip, has |-> had \cup sent, served |-> TRUE]
                   ELSE [wallet EXCEPT !.served = FALSE]
  /\ UNCHANGED <<node, monitor, snapshot, stream>>

-----------------------------------------------------------------------------
MempoolInit ==
  /\ node = [tip |-> FirstTip, pool |-> {}, up |-> TRUE, left |-> {}, back |-> FALSE]
  /\ monitor = [at |-> "idle", tip |-> None, seen |-> {}, entries |-> << >>, todo |-> {}]
  /\ snapshot = [tip |-> None, entries |-> << >>, stale |-> TRUE]
  /\ stream = [c \in Client |->
       [phase |-> "closed", start |-> None, tip |-> None, entries |-> << >>,
        index |-> 0, sent |-> << >>]]
  /\ wallet = [tip |-> None, has |-> {}, served |-> FALSE]
  /\ may \in Allowance

NodeStep ==
  \/ \E tip \in NextTips[node.tip] : \E returns \in SUBSET (Mined \ may.mined[tip]) :
       NodeMoves(tip, returns)
  \/ \E tx \in Tx : TxArrives(tx) \/ TxEvicted(tx)
  \/ NodeDies

Refresh ==
  \/ ReadTip
  \/ ListMempool
  \/ \E tx \in monitor.todo : FetchTx(tx)
  \/ Publish

RefreshFault ==
  \/ TipFails
  \/ ListFails
  \/ \E tx \in monitor.todo : FetchFails(tx)

StreamStep(c) == Serve(c) \/ Wake(c)

MempoolNext ==
  \/ NodeStep
  \/ SnapshotAges
  \/ Refresh
  \/ RefreshFault
  \/ \E c \in Client : Subscribe(c) \/ StreamStep(c)
  \/ \E n \in 0 .. MAX_EXCLUDE_TXID_SUFFIXES + 1 : \E exclude \in [1 .. n -> Suffix] : GetMempoolTx(exclude)

MempoolSpec == MempoolInit /\ [][MempoolNext]_mempoolVars

\* The monitor's loop and the streams are polled; a call to a node that is gone
\* or for a transaction that is gone comes back; time passes.
FairMempoolSpec ==
  /\ MempoolSpec
  /\ WF_mempoolVars(Refresh \/ RefreshFault)
  /\ WF_mempoolVars(~node.up /\ SnapshotAges)
  /\ \A c \in Client : WF_mempoolVars(StreamStep(c))

-----------------------------------------------------------------------------
(***************************************************************************)
(* Four of the properties below are about a node that did not come back to *)
(* a tip it had left.  The monitor tells intervals apart by the tip's hash *)
(* alone: when an old tip comes back, what is left of its first interval   *)
(* (a stream's index, a wallet's list, a fetch under way) meets the list   *)
(* of the second one, and each of the four can then fail: a stream that    *)
(* slept through the other tip emits a transaction twice or skips one.     *)
(***************************************************************************)

(***************************************************************************)
(* While the node is at the tip a snapshot was published for, the snapshot *)
(* names no mined transaction, however the last block raced the refresh: a *)
(* wallet synced to that tip never meets a confirmed transaction as an     *)
(* unconfirmed one (refresh's reset and its height check), as long as the  *)
(* node did not come back to a tip it had left.                            *)
(***************************************************************************)
NothingMinedPublished ==
  ~node.back => (snapshot.tip = node.tip => Range(snapshot.entries) \cap Mined = {})

(***************************************************************************)
(* No stream emits a transaction twice, as long as the node did not come   *)
(* back to a tip it had left: the entries are append-only under one tip,   *)
(* and the running index of mempool.rs skips what was sent.                *)
(***************************************************************************)
EmitsOnce == ~node.back => \A c \in Client : IsInjective(stream[c].sent)

(***************************************************************************)
(* A transaction that stays in the mempool reaches every open stream, or   *)
(* the stream ends, whatever fetches fail and whatever else is listed with *)
(* it (refresh leaves a failed fetch out of seen), unless the node comes   *)
(* back to a tip it had left: the index may then be past it.               *)
(***************************************************************************)
TxReachesStreams ==
  \A c \in Client, tx \in Tx \ Garbled :
    (Open(c) /\ tx \in node.pool) ~>
      (~Open(c) \/ tx \notin node.pool \/ tx \in Range(stream[c].sent) \/ ~node.up \/ node.back)

(***************************************************************************)
(* docs/decisions/0021: when the node goes away, every open stream is told *)
(* so instead of waiting for a publication that never comes.               *)
(***************************************************************************)
OutageEndsStreams == \A c \in Client : (~node.up /\ Open(c)) ~> ~Open(c)

(***************************************************************************)
(* A new block ends every stream that started before it, unless the node   *)
(* goes away or is back at the stream's tip by then.                       *)
(***************************************************************************)
NewTipEndsStreams ==
  \A c \in Client : [](Open(c) => <>(~Open(c) \/ stream[c].start \in {None, node.tip} \/ ~node.up))

(***************************************************************************)
(* proto/service.proto on GetMempoolTx: a wallet that excludes what it has *)
(* from an earlier call, by suffixes as short as it likes, still receives  *)
(* the rest.  Within a block interval every reply leaves it with all that  *)
(* is published, for a suffix that others share excludes none of them and  *)
(* what the node evicted stays among the entries it is counted against     *)
(* (again as long as the node did not come back to a tip it had left, for  *)
(* the entries then start anew under the tip of the wallet's last call).   *)
(***************************************************************************)
PollMissesNothing ==
  [][may'.list < may.list /\ wallet'.served /\ wallet.tip = snapshot.tip /\ ~node.back
       => Range(snapshot.entries) \subseteq wallet'.has]_mempoolVars
=============================================================================
