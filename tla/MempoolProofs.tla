--------------------------- MODULE MempoolProofs ---------------------------
(***************************************************************************)
(* The mempool monitor, its streams and its polls, for any set of tips,    *)
(* transactions, clients and suffixes: nothing mined is published, nothing *)
(* is emitted twice, no poll misses a transaction.                         *)
(*                                                                         *)
(* Everybody holds a tip the node has passed, and nobody is ahead of the   *)
(* party it copies from: stream, snapshot, monitor, node.  As long as the  *)
(* node did not come back to a tip it had left, two parties at the same    *)
(* tip therefore have lists of one interval, and the one further from the  *)
(* node has a prefix of the other's.  Once it came back nothing is claimed *)
(* and the lists need not match.                                           *)
(***************************************************************************)
EXTENDS Mempool, FiniteSetTheorems, SequenceTheorems, TLAPS

Prefix(s, t) == Len(s) <= Len(t) /\ \A i \in 1 .. Len(s) : s[i] = t[i]

TipOrNone == Tip \cup {None}

MonitorType ==
  [at : {"idle", "list", "fetch"}, tip : TipOrNone, seen : SUBSET Tx,
   entries : Seq(Tx), todo : SUBSET Tx]

StreamType ==
  [phase : {"closed", "serving", "waiting", "unavailable", "ended"}, start : TipOrNone,
   tip : TipOrNone, entries : Seq(Tx), index : Nat, sent : Seq(Tx)]

NodeType == [tip : Tip, pool : SUBSET Tx, up : BOOLEAN, left : SUBSET Tip, back : BOOLEAN]

MempoolTypes ==
  /\ node \in NodeType
  /\ monitor \in MonitorType
  /\ snapshot \in [tip : TipOrNone, entries : Seq(Tx), stale : BOOLEAN]
  /\ stream \in [Client -> StreamType]
  /\ wallet \in [tip : TipOrNone, has : SUBSET Tx, served : BOOLEAN]
  /\ may \in Allowed

Passed == node.left \cup {node.tip, None}

\* A tip held behind the monitor: whoever is at a tip, the parties between it and
\* the node are.
Behind(tip) ==
  /\ tip \in Passed
  /\ tip = node.tip => monitor.tip = node.tip
  /\ tip = monitor.tip => snapshot.tip = monitor.tip

\* The monitor gathers the unmined transactions of one block interval, each once.
Gathers ==
  /\ node.tip \notin node.left /\ monitor.tip \in Passed
  /\ node.pool \cap Mined = {}
  /\ monitor.todo \cap monitor.seen = {}
  /\ Range(monitor.entries) \subseteq monitor.seen
  /\ IsInjective(monitor.entries)
  /\ monitor.at # "idle" => monitor.tip # None
  /\ monitor.tip = node.tip => Range(monitor.entries) \cap Mined = {}

\* What is published is the beginning of what is gathered.
Publishes ==
  /\ Behind(snapshot.tip)
  /\ IsInjective(snapshot.entries)
  /\ snapshot.stale \/ snapshot.tip # None
  /\ snapshot.tip = monitor.tip => Prefix(snapshot.entries, monitor.entries)

\* A stream's list is the beginning of what is published, and what it has sent
\* the beginning of its list.
Follows(s) ==
  /\ Behind(s.start) /\ Behind(s.tip)
  /\ s.start = snapshot.tip => s.tip = snapshot.tip
  /\ IsInjective(s.entries) /\ IsInjective(s.sent)
  /\ s.tip = snapshot.tip => Prefix(s.entries, snapshot.entries)
  /\ s.phase \in {"serving", "waiting"} => s.tip # None
  /\ s.start = None => s.sent = << >>
  /\ s.index = Len(s.sent)
  /\ s.start = s.tip => Prefix(s.sent, s.entries)

\* A polling wallet has only what was published at its tip.
Polls ==
  /\ Behind(wallet.tip)
  /\ wallet.tip = snapshot.tip => wallet.has \subseteq Range(snapshot.entries)

\* The inductive invariant, while no tip has come back.
MempoolInv == MempoolTypes /\ Gathers /\ Publishes /\ (\A c \in Client : Follows(stream[c])) /\ Polls

-----------------------------------------------------------------------------
LEMMA PrefixTrans ==
  ASSUME NEW r \in Seq(Tx), NEW s \in Seq(Tx), NEW t \in Seq(Tx), Prefix(r, s), Prefix(s, t)
  PROVE  Prefix(r, t)
BY DEF Prefix

\* Sending what the index has not reached completes the list.
LEMMA SendTheRest ==
  ASSUME NEW sent \in Seq(Tx), NEW entries \in Seq(Tx), Prefix(sent, entries)
  PROVE  sent \o SubSeq(entries, Len(sent) + 1, Len(entries)) = entries
<1> DEFINE rest == SubSeq(entries, Len(sent) + 1, Len(entries))
<1>1. /\ rest \in Seq(Tx) /\ Len(rest) = Len(entries) - Len(sent)
      /\ \A i \in 1 .. Len(rest) : rest[i] = entries[Len(sent) + i]
  BY DEF Prefix
<1> HIDE DEF rest
<1>2. sent \o rest \in Seq(Tx) /\ Len(sent \o rest) = Len(entries)
  BY <1>1 DEF Prefix
<1>3. \A i \in 1 .. Len(entries) : (sent \o rest)[i] = entries[i]
  BY <1>1 DEF Prefix
<1>4. sent \o rest = entries
  BY <1>2, <1>3, SeqEqual
<1> QED
  BY <1>4 DEF rest

LEMMA AppendFresh ==
  ASSUME NEW s \in Seq(Tx), NEW tx \in Tx, IsInjective(s), tx \notin Range(s)
  PROVE  /\ IsInjective(Append(s, tx))
         /\ Range(Append(s, tx)) = Range(s) \cup {tx}
         /\ \A r \in Seq(Tx) : Prefix(r, s) => Prefix(r, Append(s, tx))
<1> DEFINE a == Append(s, tx)
<1>1. /\ a \in Seq(Tx) /\ Len(a) = Len(s) + 1 /\ a[Len(s) + 1] = tx
      /\ \A i \in 1 .. Len(s) : a[i] = s[i]
  OBVIOUS
<1> HIDE DEF a
<1>2. DOMAIN a = 1 .. Len(s) + 1 /\ DOMAIN s = 1 .. Len(s) /\ Len(s) \in Nat
  BY <1>1
<1>3. IsInjective(a)
  BY <1>1, <1>2 DEF IsInjective, Range
<1>4. Range(a) = Range(s) \cup {tx}
  BY <1>1, <1>2 DEF Range
<1>5. \A r \in Seq(Tx) : Prefix(r, s) => Prefix(r, a)
  BY <1>1 DEF Prefix
<1> QED
  BY <1>3, <1>4, <1>5 DEF a

-----------------------------------------------------------------------------
\* MempoolInv, with its parts visible to the backends.
LEMMA Parts ==
  ASSUME MempoolInv
  PROVE  /\ MempoolTypes /\ Gathers /\ Publishes /\ Polls
         /\ \A c \in Client : Follows(stream[c]) /\ stream[c] \in StreamType
BY DEF MempoolInv, MempoolTypes

\* The environment's allowance shrinks, the chains stay.
MaySpent == may' \in Allowed /\ may'.mined = may.mined

LEMMA UseAllowed ==
  ASSUME may \in Allowed, NEW k \in {"move", "arrive", "evict", "fault", "slow", "list"}, Use(k)
  PROVE  MaySpent
<1>1. CASE k = "move"
  BY <1>1 DEF Use, Allowed, MaySpent
<1>2. CASE k = "arrive"
  BY <1>2 DEF Use, Allowed, MaySpent
<1>3. CASE k = "evict"
  BY <1>3 DEF Use, Allowed, MaySpent
<1>4. CASE k = "fault"
  BY <1>4 DEF Use, Allowed, MaySpent
<1>5. CASE k = "slow"
  BY <1>5 DEF Use, Allowed, MaySpent
<1>6. CASE k = "list"
  BY <1>6 DEF Use, Allowed, MaySpent
<1> QED
  BY <1>1, <1>2, <1>3, <1>4, <1>5, <1>6

LEMMA UnusedAllowed ==
  ASSUME may \in Allowed, UNCHANGED may
  PROVE  MaySpent
BY DEF MaySpent

LEMMA InitInv ==
  ASSUME MempoolInit
  PROVE  MempoolInv
<1>1. MempoolTypes
  BY TipsAssumption, MempoolAssumption
     DEF MempoolInit, MempoolTypes, NodeType, TipOrNone, StreamType, MonitorType
<1>2. Gathers
  BY DEF MempoolInit, Gathers, Passed, IsInjective, Range
<1>3. Publishes
  BY TipsAssumption, MempoolAssumption DEF MempoolInit, Publishes, Behind, Passed, IsInjective, Prefix
<1>4. \A c \in Client : Follows(stream[c])
  BY TipsAssumption, MempoolAssumption DEF MempoolInit, Follows, Behind, Passed, IsInjective, Prefix
<1>5. Polls
  BY TipsAssumption, MempoolAssumption DEF MempoolInit, Polls, Behind, Passed
<1> QED
  BY <1>1, <1>2, <1>3, <1>4, <1>5 DEF MempoolInv

\* What any step leaves of the node and of the allowance.
NodeTypes == node \in NodeType /\ may \in Allowed

LEMMA NodeStepTypes ==
  ASSUME NodeTypes, NodeStep
  PROVE  /\ NodeTypes' /\ MaySpent
         /\ node.back => node'.back
         /\ \/ node'.tip = node.tip /\ node'.left = node.left /\ node'.back = node.back
            \/ /\ node'.tip \in Tip \ {node.tip} /\ node'.left = node.left \cup {node.tip}
               /\ node'.back <=> node.back \/ node'.tip \in node.left
         /\ node.pool \cap Mined = {} => node'.pool \cap Mined' = {}
<1>1. MaySpent
  BY UseAllowed DEF NodeStep, NodeMoves, TxArrives, TxEvicted, NodeDies, NodeTypes
<1>2. /\ node \in NodeType /\ NextTips[node.tip] \subseteq Tip \ {node.tip} /\ may \in Allowed
      /\ may.mined \in [Tip -> SUBSET Tx] /\ may'.mined = may.mined
  BY <1>1, TipsAssumption DEF NodeTypes, NodeType, MaySpent, Allowed
<1> DEFINE Moved == /\ node' \in NodeType /\ (node.back => node'.back)
                    /\ \/ node'.tip = node.tip /\ node'.left = node.left /\ node'.back = node.back
                       \/ /\ node'.tip \in Tip \ {node.tip} /\ node'.left = node.left \cup {node.tip}
                          /\ node'.back <=> node.back \/ node'.tip \in node.left
                    /\ node.pool \cap Mined = {} => node'.pool \cap Mined' = {}
<1>3. ASSUME NEW tip \in NextTips[node.tip], NEW returns \in SUBSET (Mined \ may.mined[tip]),
             NodeMoves(tip, returns)
      PROVE  Moved
  <2>1. /\ node'.tip = tip /\ node'.pool = (node.pool \ may.mined[tip]) \cup returns
        /\ node'.left = node.left \cup {node.tip}
        /\ node'.back = (node.back \/ tip \in node.left) /\ node'.up = node.up
        /\ node' \in NodeType
    BY <1>2, <1>3 DEF NodeMoves, NodeType, Mined
  <2> QED
    BY <2>1, <1>2 DEF Mined, NodeType
<1>4. ASSUME NEW tx \in Tx, TxArrives(tx)
      PROVE  Moved
  BY <1>2, <1>4 DEF TxArrives, NodeType, Mined
<1>5. ASSUME NEW tx \in Tx, TxEvicted(tx)
      PROVE  Moved
  BY <1>2, <1>5 DEF TxEvicted, NodeType, Mined
<1>6. ASSUME NodeDies
      PROVE  Moved
  BY <1>2, <1>6 DEF NodeDies, NodeType, Mined
<1>7. Moved
  BY <1>3, <1>4, <1>5, <1>6 DEF NodeStep
<1> QED
  BY <1>1, <1>7 DEF NodeTypes, MaySpent

\* The node moves on to a tip nobody holds, or comes back to one.
LEMMA NodeStepInv ==
  ASSUME MempoolInv, NodeStep
  PROVE  node'.back \/ MempoolInv'
<1> SUFFICES ASSUME ~node'.back PROVE MempoolInv'
  OBVIOUS
<1>1. UNCHANGED <<monitor, snapshot, stream, wallet>>
  BY DEF NodeStep, NodeMoves, TxArrives, TxEvicted, NodeDies
<1>2. /\ NodeTypes' /\ MaySpent
      /\ \/ node'.tip = node.tip /\ node'.left = node.left
         \/ /\ node'.tip \in Tip \ {node.tip} /\ node'.tip \notin node.left
            /\ node'.left = node.left \cup {node.tip}
      /\ node'.pool \cap Mined' = {}
  BY NodeStepTypes, Parts DEF NodeTypes, MempoolTypes, Gathers
<1>3. MempoolTypes'
  BY <1>1, <1>2, Parts DEF MempoolTypes, NodeTypes
<1>4. ASSUME NEW tip \in Passed
      PROVE  tip \in Passed' /\ (tip = node'.tip => node'.tip = node.tip)
  BY <1>2, MempoolAssumption DEF Passed
<1>5. ASSUME NEW tip, Behind(tip)
      PROVE  Behind(tip)'
  BY <1>1, <1>4, <1>5 DEF Behind
<1>6. Gathers'
  <2>1. node'.tip \notin node'.left /\ monitor.tip \in Passed'
    BY <1>2, <1>4, Parts DEF Gathers
  <2>2. monitor.tip = node'.tip => Range(monitor.entries) \cap Mined' = {}
    BY <1>2, <1>4, Parts DEF Gathers, Mined, MaySpent
  <2> QED
    BY <1>1, <1>2, <2>1, <2>2, Parts DEF Gathers
<1>7. Publishes' /\ Polls'
  BY <1>1, <1>5, Parts DEF Publishes, Polls
<1>8. \A c \in Client : Follows(stream[c])'
  BY <1>1, <1>5, Parts DEF Follows
<1> QED
  BY <1>3, <1>6, <1>7, <1>8 DEF MempoolInv

LEMMA SnapshotAgesInv ==
  ASSUME MempoolInv, SnapshotAges
  PROVE  MempoolInv'
<1>0. MaySpent
  BY Parts, UseAllowed, UnusedAllowed DEF SnapshotAges, MempoolTypes
<1>1. UNCHANGED <<node, monitor, stream, wallet>>
  BY DEF SnapshotAges
<1>2. MempoolTypes'
  <2>1. snapshot' \in [tip : TipOrNone, entries : Seq(Tx), stale : BOOLEAN]
    BY Parts DEF SnapshotAges, MempoolTypes
  <2> QED
    BY <1>1, <1>0, <2>1, Parts DEF MempoolTypes, MaySpent
<1>3. snapshot'.tip = snapshot.tip /\ snapshot'.entries = snapshot.entries /\ snapshot'.stale
  BY Parts DEF SnapshotAges, MempoolTypes
<1>4. Gathers' /\ Publishes' /\ Polls' /\ \A c \in Client : Follows(stream[c])'
  BY <1>0, <1>1, <1>3, Parts
     DEF Gathers, Publishes, Polls, Follows, Behind, Passed, Mined, MaySpent
<1> QED
  BY <1>2, <1>4 DEF MempoolInv

(***************************************************************************)
(* A step of the monitor that publishes nothing, in the same interval or   *)
(* into the node's: it changes no party but itself.                        *)
(***************************************************************************)
LEMMA MonitorInv ==
  ASSUME MempoolInv, UNCHANGED <<node, snapshot, stream, wallet>>, MaySpent,
         monitor' \in MonitorType,
         monitor'.todo \cap monitor'.seen = {},
         Range(monitor'.entries) \subseteq monitor'.seen,
         IsInjective(monitor'.entries),
         monitor'.at # "idle" => monitor'.tip # None,
         \/ /\ monitor'.tip = monitor.tip
            /\ Range(monitor'.entries) \cap Mined \subseteq Range(monitor.entries)
            /\ \A r \in Seq(Tx) : Prefix(r, monitor.entries) => Prefix(r, monitor'.entries)
         \/ /\ monitor'.tip = node.tip /\ monitor.tip # node.tip
            /\ monitor'.entries = << >>
  PROVE  MempoolInv'
<1>1. MempoolTypes'
  BY Parts DEF MempoolTypes, MaySpent
<1>2. /\ monitor'.tip \in Passed /\ Passed' = Passed /\ Mined' = Mined
      /\ monitor'.tip = node.tip => Range(monitor'.entries) \cap Mined = {}
  BY Parts DEF Gathers, Passed, Range, Mined, MaySpent
<1>3. Gathers'
  BY <1>2, Parts DEF Gathers
<1>4. ASSUME NEW tip, Behind(tip)
      PROVE  Behind(tip)'
  BY <1>2, <1>4 DEF Behind
<1>5. Publishes'
  BY <1>4, Parts DEF Publishes, MempoolTypes, Behind
<1>6. Polls' /\ \A c \in Client : Follows(stream[c])'
  BY <1>4, Parts DEF Polls, Follows
<1> QED
  BY <1>1, <1>3, <1>5, <1>6 DEF MempoolInv

LEMMA ReadTipInv ==
  ASSUME MempoolInv, ReadTip
  PROVE  MempoolInv'
<1>1. /\ UNCHANGED <<node, snapshot, stream, wallet>> /\ MaySpent
      /\ monitor \in MonitorType /\ node.tip \in Tip
  BY Parts, UnusedAllowed DEF ReadTip, MempoolTypes, NodeType
<1>2. CASE node.tip # monitor.tip
  <2>1. /\ monitor' \in MonitorType /\ monitor'.tip = node.tip /\ monitor'.entries = << >>
        /\ monitor'.seen = {}
    <3> DEFINE fresh == NewInterval(node.tip)
    <3>1. monitor' = [fresh EXCEPT !.at = "list"]
      BY <1>2 DEF ReadTip
    <3>2. /\ fresh \in MonitorType /\ fresh.tip = node.tip /\ fresh.entries = << >>
          /\ fresh.seen = {}
      <4>1. << >> \in Seq(Tx) /\ node.tip \in TipOrNone /\ {} \in SUBSET Tx
        BY <1>1, EmptySeq DEF TipOrNone
      <4> QED
        BY <4>1, <1>1 DEF NewInterval, MonitorType
    <3> QED
      BY <3>1, <3>2 DEF MonitorType
  <2>2. monitor'.todo \cap monitor'.seen = {} /\ monitor'.tip # None
    BY <2>1, <1>1, MempoolAssumption
  <2>3. Range(monitor'.entries) \subseteq monitor'.seen /\ IsInjective(monitor'.entries)
    BY <2>1 DEF Range, IsInjective
  <2> QED
    BY <1>1, <1>2, <2>1, <2>2, <2>3, MonitorInv
<1>3. CASE node.tip = monitor.tip
  <2>1. /\ monitor' \in MonitorType /\ monitor'.tip = monitor.tip
        /\ monitor'.entries = monitor.entries
        /\ monitor'.seen = monitor.seen /\ monitor'.todo = monitor.todo
    BY <1>1, <1>3 DEF ReadTip, MonitorType
  <2>2. monitor'.tip # None
    BY <2>1, <1>1, <1>3, MempoolAssumption
  <2> QED
    BY <1>1, <2>1, <2>2, MonitorInv, Parts DEF Gathers
<1> QED
  BY <1>2, <1>3

\* The interval stays as it is: only at, todo and seen move.
LEMMA SameIntervalInv ==
  ASSUME MempoolInv, UNCHANGED <<node, snapshot, stream, wallet>>, MaySpent,
         monitor' \in MonitorType, monitor.at # "idle",
         monitor'.tip = monitor.tip, monitor'.entries = monitor.entries,
         monitor.seen \subseteq monitor'.seen, monitor'.todo \cap monitor'.seen = {}
  PROVE  MempoolInv'
BY MonitorInv, Parts DEF Gathers

LEMMA ListMempoolInv ==
  ASSUME MempoolInv, ListMempool \/ ListFails
  PROVE  MempoolInv'
<1>1. /\ UNCHANGED <<node, snapshot, stream, wallet>> /\ MaySpent
      /\ monitor \in MonitorType /\ node.pool \in SUBSET Tx /\ monitor.at = "list"
  BY Parts, UseAllowed, UnusedAllowed DEF ListMempool, ListFails, MempoolTypes, NodeType
<1>2. /\ monitor' \in MonitorType /\ monitor'.tip = monitor.tip
      /\ monitor'.entries = monitor.entries /\ monitor'.seen = monitor.seen
      /\ monitor'.todo = node.pool \ monitor.seen \/ monitor'.todo = {}
  BY <1>1 DEF ListMempool, ListFails, GiveUp, MonitorType
<1> QED
  BY <1>1, <1>2, SameIntervalInv

LEMMA FetchFailsInv ==
  ASSUME MempoolInv, NEW tx \in monitor.todo, FetchFails(tx)
  PROVE  MempoolInv'
<1>1. /\ UNCHANGED <<node, snapshot, stream, wallet>> /\ MaySpent
      /\ monitor \in MonitorType /\ monitor.at = "fetch"
  BY Parts, UseAllowed, UnusedAllowed DEF FetchFails, MempoolTypes
<1>2. /\ monitor' \in MonitorType /\ monitor'.tip = monitor.tip
      /\ monitor'.entries = monitor.entries /\ monitor'.seen = monitor.seen
      /\ monitor'.todo \subseteq monitor.todo
  BY <1>1 DEF FetchFails, Skipped, MonitorType
<1>3. monitor'.todo \cap monitor'.seen = {}
  BY <1>2, Parts DEF Gathers
<1> QED
  BY <1>1, <1>2, <1>3, SameIntervalInv

\* A fetched transaction was not seen before, so it is not among the entries.
LEMMA FetchTxInv ==
  ASSUME MempoolInv, NEW tx \in monitor.todo, FetchTx(tx)
  PROVE  MempoolInv'
<1>1. /\ UNCHANGED <<node, snapshot, stream, wallet>> /\ MaySpent
      /\ monitor \in MonitorType /\ monitor.at = "fetch" /\ tx \in Tx
      /\ monitor.todo \cap monitor.seen = {}
      /\ node.pool \cap Mined = {} /\ tx \in node.pool \cup Mined
  BY Parts, UnusedAllowed DEF FetchTx, MempoolTypes, MonitorType, Gathers
<1> DEFINE fetched == [monitor EXCEPT !.todo = @ \ {tx}, !.seen = @ \cup {tx}]
<1>2. /\ fetched \in MonitorType /\ fetched.tip = monitor.tip
      /\ fetched.entries = monitor.entries /\ fetched.seen = monitor.seen \cup {tx}
      /\ fetched.at = monitor.at
      /\ fetched.todo = monitor.todo \ {tx} /\ fetched.todo \cap fetched.seen = {}
  BY <1>1 DEF MonitorType
<1>3. CASE tx \in Mined
  <2>1. monitor' = fetched
    BY <1>1, <1>3 DEF FetchTx
  <2> QED
    BY <2>1, <1>1, <1>2, SameIntervalInv
<1>4. CASE tx \in node.pool \cap Garbled
  <2>1. monitor' = GiveUp(fetched)
    BY <1>1, <1>4 DEF FetchTx
  <2> HIDE DEF fetched
  <2>2. /\ monitor' \in MonitorType /\ monitor'.tip = monitor.tip
        /\ monitor'.entries = monitor.entries /\ monitor'.seen = monitor.seen \cup {tx}
        /\ monitor'.todo = {}
    BY <2>1, <1>2 DEF GiveUp, MonitorType
  <2> QED
    BY <2>2, <1>1, SameIntervalInv
<1>5. CASE tx \in node.pool \ Garbled
  <2>1. monitor' = [fetched EXCEPT !.entries = Append(@, tx)]
    BY <1>1, <1>5 DEF FetchTx
  <2> HIDE DEF fetched
  <2>2. /\ monitor' \in MonitorType /\ monitor'.tip = monitor.tip
        /\ monitor'.entries = Append(monitor.entries, tx)
        /\ monitor'.seen = monitor.seen \cup {tx}
        /\ monitor'.todo \cap monitor'.seen = {}
    <3>1. Append(fetched.entries, tx) \in Seq(Tx)
      BY <1>1, <1>2, AppendProperties DEF MonitorType
    <3>2. /\ monitor'.tip = fetched.tip /\ monitor'.seen = fetched.seen
          /\ monitor'.todo = fetched.todo /\ monitor'.entries = Append(fetched.entries, tx)
      BY <2>1, <1>2 DEF MonitorType
    <3>3. monitor' \in MonitorType
      BY <2>1, <1>2, <3>1 DEF MonitorType
    <3> QED
      BY <3>2, <3>3, <1>2
  <2>3. /\ monitor.entries \in Seq(Tx) /\ IsInjective(monitor.entries)
        /\ tx \notin Range(monitor.entries)
        /\ Range(monitor.entries) \subseteq monitor.seen
        /\ monitor.tip # None
    BY <1>1, Parts DEF Gathers, MonitorType
  <2>4. /\ IsInjective(monitor'.entries)
        /\ Range(monitor'.entries) = Range(monitor.entries) \cup {tx}
        /\ \A r \in Seq(Tx) : Prefix(r, monitor.entries) => Prefix(r, monitor'.entries)
    BY <2>2, <2>3, <1>1, AppendFresh
  <2>5. /\ Range(monitor'.entries) \subseteq monitor'.seen
        /\ Range(monitor'.entries) \cap Mined \subseteq Range(monitor.entries)
    BY <2>2, <2>3, <2>4, <1>1, <1>5
  <2> QED
    BY <1>1, <2>2, <2>3, <2>4, <2>5, MonitorInv
<1> QED
  BY <1>1, <1>3, <1>4, <1>5

LEMMA PublishInv ==
  ASSUME MempoolInv, Publish
  PROVE  MempoolInv'
<1>1. /\ UNCHANGED <<node, stream, wallet, may>>
      /\ monitor.tip # None /\ monitor \in MonitorType
      /\ snapshot' = [tip |-> monitor.tip, entries |-> monitor.entries, stale |-> FALSE]
      /\ monitor' = GiveUp(monitor)
  BY Parts DEF Publish, Gathers, MempoolTypes
<1>2. /\ monitor' \in MonitorType /\ monitor'.tip = monitor.tip
      /\ monitor'.entries = monitor.entries /\ monitor'.seen = monitor.seen
      /\ monitor'.todo = {} /\ monitor'.at = "idle"
  BY <1>1 DEF GiveUp, MonitorType
<1>3. MempoolTypes'
  BY <1>1, <1>2, Parts DEF MempoolTypes, MonitorType
<1>4. Gathers'
  BY <1>1, <1>2, Parts DEF Gathers, Passed, Mined
<1>5. /\ snapshot.tip \in TipOrNone /\ snapshot.entries \in Seq(Tx)
      /\ monitor.tip \in TipOrNone /\ monitor.entries \in Seq(Tx) /\ monitor.tip \in Passed
      /\ snapshot.tip = monitor.tip => Prefix(snapshot.entries, monitor.entries)
  BY Parts DEF MempoolTypes, MonitorType, Publishes, Gathers
<1>6. ASSUME NEW tip, tip \in Passed, tip = node.tip => monitor.tip = node.tip
      PROVE  Behind(tip)'
  BY <1>1, <1>2, <1>6 DEF Behind, Passed
<1>7. Publishes'
  BY <1>1, <1>2, <1>5, <1>6, Parts DEF Publishes, Gathers, Prefix, MonitorType
<1>8. ASSUME NEW c \in Client
      PROVE  Follows(stream[c])'
  <2>1. /\ stream[c].entries \in Seq(Tx) /\ Behind(stream[c].start) /\ Behind(stream[c].tip)
        /\ stream[c].start = snapshot.tip => stream[c].tip = snapshot.tip
        /\ stream[c].tip = snapshot.tip => Prefix(stream[c].entries, snapshot.entries)
    BY Parts DEF Follows, StreamType
  <2>2. /\ Behind(stream[c].start)' /\ Behind(stream[c].tip)'
        /\ stream[c].start = monitor.tip => stream[c].tip = monitor.tip
    BY <1>1, <1>6, <2>1 DEF Behind
  <2>3. stream[c].tip = monitor.tip => Prefix(stream[c].entries, monitor.entries)
    BY <1>5, <2>1, PrefixTrans DEF Behind
  <2> QED
    BY <1>1, <2>2, <2>3, Parts DEF Follows
<1>9. Polls'
  <2>1. /\ Behind(wallet.tip)
        /\ wallet.tip = snapshot.tip => wallet.has \subseteq Range(snapshot.entries)
    BY Parts DEF Polls
  <2>2. Behind(wallet.tip)'
    BY <1>1, <1>6, <2>1 DEF Behind
  <2>3. wallet.tip = monitor.tip => wallet.has \subseteq Range(monitor.entries)
    BY <1>5, <2>1 DEF Behind, Prefix, Range
  <2> QED
    BY <1>1, <2>2, <2>3 DEF Polls
<1> QED
  BY <1>3, <1>4, <1>7, <1>8, <1>9 DEF MempoolInv

-----------------------------------------------------------------------------
\* A step of one stream.
LEMMA OneStreamInv ==
  ASSUME MempoolInv, UNCHANGED <<node, monitor, snapshot, wallet, may>>,
         NEW c \in Client, NEW s \in StreamType, Follows(s),
         stream' = [stream EXCEPT ![c] = s]
  PROVE  MempoolInv'
<1>1. MempoolTypes'
  BY Parts DEF MempoolTypes
<1>2. ASSUME NEW d \in Client
      PROVE  Follows(stream[d])'
  <2>1. stream'[d] = IF d = c THEN s ELSE stream[d]
    BY Parts DEF MempoolTypes
  <2> QED
    BY <2>1, Parts DEF Follows, Behind, Passed
<1>3. Gathers' /\ Publishes' /\ Polls'
  BY Parts DEF Gathers, Publishes, Polls, Behind, Passed, Mined
<1> QED
  BY <1>1, <1>2, <1>3 DEF MempoolInv

\* Looking at the newest snapshot keeps what was sent, or leaves the interval.
LEMMA LookFollows ==
  ASSUME MempoolInv, NEW s \in StreamType, Follows(s)
  PROVE  Look(s) \in StreamType /\ Follows(Look(s))
<1>1. /\ snapshot.tip \in TipOrNone /\ snapshot.entries \in Seq(Tx)
      /\ IsInjective(snapshot.entries) /\ (snapshot.stale \/ snapshot.tip # None)
  BY Parts DEF MempoolTypes, Publishes
<1>2. /\ s.start \in TipOrNone /\ s.tip \in TipOrNone /\ s.entries \in Seq(Tx)
      /\ s.sent \in Seq(Tx) /\ s.index \in Nat
  BY DEF StreamType
<1>3. /\ Look(s) \in StreamType
      /\ Look(s).tip = snapshot.tip /\ Look(s).entries = snapshot.entries
      /\ Look(s).start = s.start /\ Look(s).sent = s.sent /\ Look(s).index = s.index
      /\ Look(s).phase \in {"serving", "waiting"} => ~snapshot.stale
  BY <1>1 DEF Look, StreamType
<1>4. Behind(s.start) /\ Behind(snapshot.tip)
  BY Parts DEF Follows, Publishes
<1>5. s.start = snapshot.tip => Prefix(s.sent, snapshot.entries)
  BY <1>1, <1>2, PrefixTrans DEF Follows
<1>6. Prefix(snapshot.entries, snapshot.entries)
  BY DEF Prefix
<1> QED
  BY <1>1, <1>3, <1>4, <1>5, <1>6 DEF Follows

LEMMA LookInv ==
  ASSUME MempoolInv, NEW c \in Client, Subscribe(c) \/ Wake(c)
  PROVE  MempoolInv'
<1>1. /\ UNCHANGED <<node, monitor, snapshot, wallet, may>>
      /\ stream' = [stream EXCEPT ![c] = Look(stream[c])]
  BY DEF Subscribe, Wake
<1> QED
  BY <1>1, LookFollows, OneStreamInv, Parts

\* At the tip it started from a stream completes its list: what it has then sent
\* is the list, which names nothing twice.
LEMMA ServeInv ==
  ASSUME MempoolInv, NEW c \in Client, Serve(c)
  PROVE  MempoolInv'
<1> DEFINE s == stream[c]
           rest == SubSeq(s.entries, s.index + 1, Len(s.entries))
<1>1. /\ s \in StreamType /\ Follows(s) /\ s.phase = "serving"
      /\ UNCHANGED <<node, monitor, snapshot, wallet, may>>
  BY Parts DEF Serve
<1>2. CASE s.start \notin {None, s.tip}
  <2> DEFINE e == [s EXCEPT !.phase = "ended"]
  <2>1. stream' = [stream EXCEPT ![c] = e]
    BY <1>2 DEF Serve
  <2> HIDE DEF s
  <2>2. /\ e \in StreamType /\ e.phase = "ended" /\ e.start = s.start /\ e.tip = s.tip
        /\ e.entries = s.entries /\ e.index = s.index /\ e.sent = s.sent
    BY <1>1 DEF StreamType
  <2> HIDE DEF e
  <2>3. Follows(e)
    BY <2>2, <1>1 DEF Follows
  <2> QED
    BY <2>1, <2>2, <2>3, <1>1, OneStreamInv
<1>3. CASE s.start \in {None, s.tip}
  <2> DEFINE e == [s EXCEPT !.phase = "waiting", !.start = s.tip, !.sent = @ \o rest,
                            !.index = Len(s.entries)]
  <2>1. stream' = [stream EXCEPT ![c] = e]
    BY <1>3 DEF Serve
  <2> HIDE DEF s
  <2>2. s.entries \in Seq(Tx) /\ s.sent \in Seq(Tx) /\ s.tip # None /\ s.index = Len(s.sent)
    BY <1>1 DEF StreamType, Follows
  <2>3. Prefix(s.sent, s.entries)
    BY <1>1, <1>3, <2>2 DEF Follows, Prefix
  <2>4. s.sent \o rest = s.entries
    BY <2>2, <2>3, SendTheRest
  <2> HIDE DEF rest
  <2>5. /\ e \in StreamType /\ e.phase = "waiting" /\ e.start = s.tip /\ e.tip = s.tip
        /\ e.entries = s.entries /\ e.index = Len(s.entries) /\ e.sent = s.entries
    <3>1. Len(s.entries) \in Nat /\ s.tip \in TipOrNone
      BY <1>1, <2>2 DEF StreamType
    <3>2. e = [s EXCEPT !.phase = "waiting", !.start = s.tip, !.sent = s.entries,
                        !.index = Len(s.entries)]
      BY <2>4
    <3> HIDE DEF e
    <3> QED
      BY <1>1, <2>2, <3>1, <3>2 DEF StreamType
  <2> HIDE DEF e
  <2>6. Follows(e)
    BY <2>2, <2>5, <1>1 DEF Follows, Prefix
  <2> QED
    BY <2>1, <2>5, <2>6, <1>1, OneStreamInv
<1> QED
  BY <1>2, <1>3

-----------------------------------------------------------------------------
\* A suffix that excludes an entry excludes the one the wallet named with it.
LEMMA ExcludesOnlyHeld ==
  ASSUME MempoolInv, NEW n \in Nat, NEW exclude \in [1 .. n -> Suffix],
         MayExclude(exclude), Served(exclude), wallet.tip = snapshot.tip
  PROVE  excluded_by_suffixes(snapshot.entries, exclude) \subseteq wallet.has
<1> DEFINE entries == snapshot.entries
<1>0. entries \in Seq(Tx) /\ wallet.has \subseteq Range(entries)
  BY Parts DEF MempoolTypes, Polls
<1> SUFFICES ASSUME NEW tx \in Range(entries), NEW i \in DOMAIN exclude,
                    tx \in EndsWith[exclude[i]],
                    Cardinality({k \in DOMAIN entries : entries[k] \in EndsWith[exclude[i]]}) = 1
             PROVE  tx \in wallet.has
  BY DEF excluded_by_suffixes
<1> DEFINE ending == {k \in DOMAIN entries : entries[k] \in EndsWith[exclude[i]]}
<1>1. exclude[i] \notin TooLong
  BY DEF Served, Range
<1>2. PICK held \in wallet.has : held \in EndsWith[exclude[i]]
  BY <1>1 DEF MayExclude
<1>3. PICK j \in DOMAIN entries : entries[j] = held
  BY <1>0 DEF Range
<1>4. PICK k \in DOMAIN entries : entries[k] = tx
  BY DEF Range
<1>5. IsFiniteSet(ending)
  <2>1. IsFiniteSet(1 .. Len(entries)) /\ DOMAIN entries = 1 .. Len(entries)
    BY <1>0, FS_Interval
  <2> QED
    BY <2>1, FS_Subset
<1>6. PICK only : ending = {only}
  BY <1>5, FS_Singleton
<1>7. j = k
  BY <1>2, <1>3, <1>4, <1>6
<1> QED
  BY <1>2, <1>3, <1>4, <1>7

\* A reply at the wallet's tip leaves it with all that is published.
LEMMA PollComplete ==
  ASSUME MempoolInv, NEW n \in Nat, NEW exclude \in [1 .. n -> Suffix], GetMempoolTx(exclude),
         wallet'.served, wallet.tip = snapshot.tip
  PROVE  Range(snapshot.entries) \subseteq wallet'.has
<1>1. Served(exclude)
  BY Parts DEF GetMempoolTx, MempoolTypes
<1>2. wallet'.has = wallet.has \cup (Range(snapshot.entries)
                                      \ excluded_by_suffixes(snapshot.entries, exclude))
  BY <1>1 DEF GetMempoolTx
<1> QED
  BY <1>1, <1>2, ExcludesOnlyHeld DEF GetMempoolTx

LEMMA GetMempoolTxInv ==
  ASSUME MempoolInv, NEW exclude, GetMempoolTx(exclude)
  PROVE  MempoolInv'
<1>1. UNCHANGED <<node, monitor, snapshot, stream>> /\ MaySpent
  BY Parts, UseAllowed DEF GetMempoolTx, MempoolTypes
<1>2. /\ wallet \in [tip : TipOrNone, has : SUBSET Tx, served : BOOLEAN]
      /\ snapshot.tip \in TipOrNone /\ snapshot.entries \in Seq(Tx)
      /\ Range(snapshot.entries) \subseteq Tx
      /\ wallet.tip = snapshot.tip => wallet.has \subseteq Range(snapshot.entries)
  BY Parts DEF MempoolTypes, Range, Polls
<1>3. \/ /\ wallet'.tip = wallet.tip /\ wallet'.has = wallet.has
         /\ wallet' \in [tip : TipOrNone, has : SUBSET Tx, served : BOOLEAN]
      \/ /\ wallet'.tip = snapshot.tip /\ wallet'.has \subseteq Range(snapshot.entries)
         /\ wallet' \in [tip : TipOrNone, has : SUBSET Tx, served : BOOLEAN]
  <2>1. CASE Served(exclude)
    <3> DEFINE had  == IF wallet.tip = snapshot.tip THEN wallet.has ELSE {}
               sent == Range(snapshot.entries) \ excluded_by_suffixes(snapshot.entries, exclude)
    <3>1. wallet' = [tip |-> snapshot.tip, has |-> had \cup sent, served |-> TRUE]
      BY <2>1 DEF GetMempoolTx
    <3>2. had \cup sent \subseteq Range(snapshot.entries)
      BY <1>2
    <3> HIDE DEF had, sent
    <3> QED
      BY <3>1, <3>2, <1>2
  <2>2. CASE ~Served(exclude)
    BY <2>2, <1>2 DEF GetMempoolTx
  <2> QED
    BY <2>1, <2>2
<1>4. MempoolTypes'
  BY <1>1, <1>3, Parts DEF MempoolTypes, MaySpent
<1>5. Polls'
  BY <1>1, <1>3, Parts DEF Polls, Publishes, Behind, Passed
<1>6. Gathers' /\ Publishes' /\ \A c \in Client : Follows(stream[c])'
  BY <1>1, Parts DEF Gathers, Publishes, Follows, Behind, Passed, Mined, MaySpent
<1> QED
  BY <1>4, <1>5, <1>6 DEF MempoolInv

LEMMA StutterInv ==
  ASSUME MempoolInv, UNCHANGED mempoolVars
  PROVE  MempoolInv'
BY DEF mempoolVars, MempoolInv, MempoolTypes, Gathers, Publishes, Follows, Polls, Behind, Passed,
       Mined

LEMMA NextInv ==
  ASSUME MempoolInv, MempoolNext
  PROVE  node'.back \/ MempoolInv'
<1>1. CASE NodeStep
  BY <1>1, NodeStepInv
<1>2. CASE SnapshotAges
  BY <1>2, SnapshotAgesInv
<1>3. CASE Refresh
  BY <1>3, ReadTipInv, ListMempoolInv, FetchTxInv, PublishInv DEF Refresh
<1>4. CASE RefreshFault
  BY <1>4, StutterInv, ListMempoolInv, FetchFailsInv DEF RefreshFault, TipFails
<1>5. CASE \E c \in Client : Subscribe(c) \/ StreamStep(c)
  BY <1>5, LookInv, ServeInv DEF StreamStep
<1>6. CASE \E n \in 0 .. MAX_EXCLUDE_TXID_SUFFIXES + 1 : \E exclude \in [1 .. n -> Suffix] :
             GetMempoolTx(exclude)
  BY <1>6, GetMempoolTxInv
<1> QED
  BY <1>1, <1>2, <1>3, <1>4, <1>5, <1>6 DEF MempoolNext

\* The types of the node and of the allowance hold throughout, and a node that came
\* back stays marked.
LEMMA NodeTypesStep ==
  ASSUME NodeTypes, MempoolNext
  PROVE  NodeTypes' /\ (node.back => node'.back)
<1>1. CASE NodeStep
  BY <1>1, NodeStepTypes
<1>2. CASE ~NodeStep
  <2>1. UNCHANGED node
    BY <1>2 DEF MempoolNext, SnapshotAges, Refresh, ReadTip, ListMempool, FetchTx, Publish,
       RefreshFault, TipFails, ListFails, FetchFails, Subscribe, StreamStep, Serve, Wake,
       GetMempoolTx, mempoolVars
  <2>2. MaySpent
    <3>0. may \in Allowed
      BY DEF NodeTypes
    <3>1. CASE SnapshotAges \/ RefreshFault
      BY <3>0, <3>1, UseAllowed, UnusedAllowed
         DEF SnapshotAges, RefreshFault, TipFails, ListFails, FetchFails, mempoolVars
    <3>2. CASE Refresh \/ \E c \in Client : Subscribe(c) \/ StreamStep(c)
      BY <3>0, <3>2, UnusedAllowed
         DEF Refresh, ReadTip, ListMempool, FetchTx, Publish, Subscribe, StreamStep, Serve, Wake
    <3>3. CASE \E exclude : GetMempoolTx(exclude)
      BY <3>0, <3>3, UseAllowed DEF GetMempoolTx
    <3> QED
      BY <1>2, <3>1, <3>2, <3>3 DEF MempoolNext
  <2> QED
    BY <2>1, <2>2 DEF NodeTypes, MaySpent
<1> QED
  BY <1>1, <1>2

\* Only a poll uses up a poll.
LEMMA OnlyPollsList ==
  ASSUME may \in Allowed, MempoolNext, may'.list < may.list
  PROVE  \E n \in Nat : \E exclude \in [1 .. n -> Suffix] : GetMempoolTx(exclude)
<1>0. may.list \in Nat /\ may \in Allowed
  BY DEF Allowed
<1>1. may' # may
  BY <1>0
<1>2. ASSUME NEW k \in {"move", "arrive", "evict", "fault", "slow"}, Use(k)
      PROVE  FALSE
  <2>1. may'.list = may.list
    BY <1>0, <1>2 DEF Use, Allowed
  <2> QED
    BY <1>0, <2>1
<1>3. ~(NodeStep \/ SnapshotAges \/ Refresh \/ RefreshFault)
  <2>1. ~NodeStep
    BY <1>2 DEF NodeStep, NodeMoves, TxArrives, TxEvicted, NodeDies
  <2>2. ~SnapshotAges
    BY <1>1, <1>2 DEF SnapshotAges
  <2>3. ~Refresh
    BY <1>1 DEF Refresh, ReadTip, ListMempool, FetchTx, Publish
  <2>4. ~RefreshFault
    BY <1>1, <1>2 DEF RefreshFault, TipFails, ListFails, FetchFails, mempoolVars
  <2> QED
    BY <2>1, <2>2, <2>3, <2>4
<1>4. ~\E c \in Client : Subscribe(c) \/ StreamStep(c)
  BY <1>1 DEF Subscribe, StreamStep, Serve, Wake
<1>5. \A n \in 0 .. MAX_EXCLUDE_TXID_SUFFIXES + 1 : n \in Nat
  BY MempoolAssumption
<1> QED
  BY <1>3, <1>4, <1>5 DEF MempoolNext

-----------------------------------------------------------------------------
(***************************************************************************)
(* As long as the node did not come back to a tip it had left, the parts   *)
(* of the mempool keep to the order of its block intervals, and two at the *)
(* same tip to one list (MempoolInv): refresh, the streams and the polls   *)
(* preserve it however the node moves between their steps.                 *)
(***************************************************************************)
THEOREM MempoolConsistent == MempoolSpec => [](node.back \/ MempoolInv)
<1> DEFINE Inv == NodeTypes /\ (node.back \/ MempoolInv)
<1>1. MempoolInit => Inv
  BY InitInv, Parts DEF NodeTypes, MempoolTypes
<1>2. Inv /\ [MempoolNext]_mempoolVars => Inv'
  <2>1. ASSUME Inv, MempoolNext
        PROVE  Inv'
    BY <2>1, NodeTypesStep, NextInv
  <2>2. ASSUME Inv, UNCHANGED mempoolVars
        PROVE  Inv'
    BY <2>2, StutterInv DEF NodeTypes, mempoolVars
  <2> QED
    BY <2>1, <2>2
<1> QED
  BY <1>1, <1>2, PTL DEF MempoolSpec

(***************************************************************************)
(* While the node is at the snapshot's tip and never came back to one, no  *)
(* published transaction is mined (refresh's reset and its height check),  *)
(* for any mempool traffic.                                                *)
(***************************************************************************)
THEOREM SnapshotsUnmined == MempoolSpec => []NothingMinedPublished
<1>1. node.back \/ MempoolInv => NothingMinedPublished
  <2> SUFFICES ASSUME MempoolInv, snapshot.tip = node.tip
               PROVE  Range(snapshot.entries) \cap Mined = {}
    BY DEF NothingMinedPublished
  <2>1. monitor.tip = node.tip
    BY Parts DEF Publishes, Behind
  <2>2. Range(snapshot.entries) \subseteq Range(monitor.entries)
    <3>1. /\ snapshot.entries \in Seq(Tx) /\ monitor.entries \in Seq(Tx)
          /\ Prefix(snapshot.entries, monitor.entries)
      BY <2>1, Parts DEF MempoolTypes, MonitorType, Publishes
    <3> QED
      BY <3>1 DEF Prefix, Range
  <2> QED
    BY <2>1, <2>2, Parts DEF Gathers
<1> QED
  BY <1>1, MempoolConsistent, PTL

(***************************************************************************)
(* As long as the node did not come back to a tip it had left, no stream   *)
(* emits a transaction twice (get_mempool_stream's running index), for any *)
(* number of streams.                                                      *)
(***************************************************************************)
THEOREM StreamsEmitOnce == MempoolSpec => []EmitsOnce
<1>1. node.back \/ MempoolInv => EmitsOnce
  BY Parts DEF EmitsOnce, Follows
<1> QED
  BY <1>1, MempoolConsistent, PTL

(***************************************************************************)
(* Within a block interval a reply of get_mempool_tx leaves the wallet     *)
(* with all that is published, whatever suffixes it excluded by, as long   *)
(* as the node did not come back to a tip it had left.                     *)
(***************************************************************************)
THEOREM PollsComplete == MempoolSpec => PollMissesNothing
<1> DEFINE Complete == may'.list < may.list /\ wallet'.served /\ wallet.tip = snapshot.tip
                         /\ ~node.back => Range(snapshot.entries) \subseteq wallet'.has
<1>1. (node.back \/ MempoolInv) /\ [MempoolNext]_mempoolVars => [Complete]_mempoolVars
  BY OnlyPollsList, PollComplete, Parts DEF MempoolTypes
<1> QED
  BY <1>1, MempoolConsistent, PTL DEF MempoolSpec, PollMissesNothing
=============================================================================
