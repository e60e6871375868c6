--------------------------- MODULE DeliveryProofs ---------------------------
(***************************************************************************)
(* The node's two backends and the fetch of a block over them, for any     *)
(* chains, calls, requests, integer widths and damaged bytes: while the    *)
(* best chain stands still both backends answer what the node would, and   *)
(* whatever it does, an accepted block is one the node had at that height. *)
(*                                                                         *)
(* The reads of a call are made one after the other, so the invariant says *)
(* what each of them must have returned by the chain the node is still on; *)
(* and of a fetch that goes on, that its first answer names a block of one *)
(* of the chains the node was on since it began.                           *)
(***************************************************************************)
EXTENDS Delivery, SequenceTheorems, TLAPS

RetainFold == INSTANCE FoldFacts WITH Op <- retain

IsSequence(s) == s \in Seq(Range(s))

IsCall(c) == c = [f \in {"method", "arg", "got", "answer", "moved"} |-> c[f]]

\* What the i-th read of call c returned, if the chain is the one it was made on.
Returned(chain, c, i) ==
  LET read == ReadsOf(c.method, c.arg)[i]
      b    == BlockAt(chain, c.arg)
  IN  CASE read = "block"    -> c.got[i] # None /\
             c.got[i] = BlockAt(chain, IF c.method = "hashes" THEN c.arg[i] ELSE c.arg)
        [] read = "tip"      -> c.got[i] = best_tip(chain)
        [] read = "txids"    -> c.got[i] = TxsOf[b]
        [] read \in Pool     -> c.got[i] = Trees[b][read]
        [] read = "mined"    -> c.got[i] = MinedAt(chain, c.arg)
        [] read = "utxos"    -> c.got[i] = TouchingIn(chain, 0, Tip(chain))
        [] read = "txids_of_addresses" -> NodeTxids(chain, c.arg[1], c.arg[2]) = Ok(c.got[i])
        [] read = "subtrees" -> NodeAnswer(chain, "subtrees", c.arg) = Ok(c.got[i])

CallTypes ==
  /\ node \in Chains
  /\ backend \in {"rpc", "readstate"}
  /\ IsCall(call)
  /\ call.method = "none" \/ Takes(call.method, call.arg)
  /\ call.moved \in BOOLEAN
  /\ IsSequence(call.got)
  /\ call.method = "none" => call.answer = Unanswered
  /\ InFlight => Len(call.got) <= Len(ReadsOf(call.method, call.arg))

\* The reads made so far, while the chain stands still.
Gathered == InFlight /\ ~call.moved => \A i \in DOMAIN call.got : Returned(node, call, i)

ReadsInv == CallTypes /\ Gathered /\ BackendsAgree

\* The blocks the node had at the height being fetched since the fetch began.
Candidates == {c[stream.at] : c \in {d \in stream.held : stream.at \in DOMAIN d}}

IsStream(s) ==
  s = [f \in {"phase", "request", "at", "verbose", "link", "pending", "bytes", "wire",
              "fetched", "held"} |-> s[f]]

Fetching == stream.phase \in {"verbose", "raw"}

FetchInv ==
  /\ IsStream(stream)
  /\ IsSequence(stream.fetched)
  /\ stream.held \subseteq Chains
  /\ Fetching =>
       /\ node \in stream.held
       /\ stream.request \in Requests
       /\ stream.at \in Nat
       /\ Descending => stream.at >= stream.request.to
  /\ stream.phase = "verbose" =>
       /\ call.method = "verbose" /\ call.arg = stream.at
       /\ call.got # << >> => call.got[1] \in Candidates
       /\ IsOk(call.answer) => call.answer[2].hash \in Candidates
  /\ stream.phase = "raw" => stream.verbose.hash \in Candidates

\* The inductive invariant.
DeliveryInv == ReadsInv /\ FetchInv

-----------------------------------------------------------------------------
(***************************************************************************)
(* The lists of reads.                                                     *)
(***************************************************************************)
LEMMA VerboseReads ==
  ASSUME NEW arg
  PROVE  ReadsOf("verbose", arg) = <<"block", "txids", "sapling", "orchard", "ironwood">>
BY DEF ReadsOf

LEMMA TreestateReads ==
  ASSUME NEW arg
  PROVE  ReadsOf("treestate", arg) = <<"block", "sapling", "orchard", "ironwood">>
BY DEF ReadsOf

LEMMA HashesReads ==
  ASSUME NEW arg \in Seq(Nat)
  PROVE  /\ Len(ReadsOf("hashes", arg)) = Len(arg)
         /\ \A i \in 1 .. Len(arg) : ReadsOf("hashes", arg)[i] = "block"
<1>1. ReadsOf("hashes", arg) = [i \in DOMAIN arg |-> "block"]
  BY DEF ReadsOf
<1>2. DOMAIN arg = 1 .. Len(arg) /\ Len(arg) \in Nat
  OBVIOUS
<1> QED BY <1>1, <1>2

LEMMA SingleReads ==
  ASSUME NEW arg
  PROVE  /\ ReadsOf("info", arg) = <<"tip">>
         /\ ReadsOf("raw", arg) = <<"block">>
         /\ ReadsOf("hash", arg) = <<"block">>
         /\ ReadsOf("transaction", arg) = <<"mined">>
         /\ ReadsOf("utxos", arg) = <<"utxos">>
         /\ ReadsOf("subtrees", arg) = <<"subtrees">>
         /\ ReadsOf("txids", arg) = <<"tip", "txids_of_addresses">>
BY DEF ReadsOf

Named == {"verbose", "raw", "hash", "treestate"}

\* Which method makes which read, and when.
LEMMA ReadKinds ==
  ASSUME NEW method, NEW arg, Takes(method, arg),
         NEW i \in 1 .. Len(ReadsOf(method, arg)), NEW read, read = ReadsOf(method, arg)[i]
  PROVE  /\ read \in {"block", "tip", "txids", "mined", "utxos", "txids_of_addresses", "subtrees"} \cup Pool
         /\ read = "block" => method = "hashes" \/ (method \in Named /\ i = 1)
         /\ read \in {"txids"} \cup Pool =>
              method \in {"verbose", "treestate"} /\ i > 1 /\ ReadsOf(method, arg)[1] = "block"
         /\ read = "tip" => method \in {"info", "txids"}
         /\ read = "mined" => method = "transaction"
         /\ read = "utxos" => method = "utxos"
         /\ read = "txids_of_addresses" => method = "txids" /\ i = 2 /\ ReadsOf(method, arg)[1] = "tip"
         /\ read = "subtrees" => method = "subtrees"
<1>1. CASE method = "verbose"
  BY <1>1, VerboseReads DEF Pool, Named
<1>2. CASE method = "treestate"
  BY <1>2, TreestateReads DEF Pool, Named
<1>3. CASE method = "hashes"
  <2>1. arg \in Seq(Nat)
    BY <1>3 DEF Takes, Argument
  <2> QED BY <1>3, <2>1, HashesReads DEF Pool
<1>4. CASE method \in {"info", "raw", "hash", "transaction", "utxos", "subtrees", "txids"}
  BY <1>4, SingleReads DEF Pool, Named
<1> QED BY <1>1, <1>2, <1>3, <1>4 DEF Takes, Argument

-----------------------------------------------------------------------------
(***************************************************************************)
(* A read of the state finds what the node finds, beyond the widths too.   *)
(***************************************************************************)
LEMMA MinOfTwo ==
  ASSUME NEW a \in Int, NEW b \in Int
  PROVE  Min({a, b}) = IF a <= b THEN a ELSE b
<1>1. \E x \in {a, b} : \A y \in {a, b} : x <= y
  OBVIOUS
<1> QED BY <1>1 DEF Min

LEMMA TipOfChain ==
  ASSUME NEW chain \in Chains
  PROVE  Tip(chain) \in Nat /\ Tip(chain) <= MaxHeight /\ Tip(chain) \in DOMAIN chain
<1>1. PICK tip \in DOMAIN chain : tip <= MaxHeight /\ DOMAIN chain \subseteq 0 .. tip
  BY ChainsAssumption
<1>2. \A h \in DOMAIN chain : h \in Nat /\ tip >= h
  BY <1>1
<1>3. Max(DOMAIN chain) \in DOMAIN chain /\ \A h \in DOMAIN chain : Max(DOMAIN chain) >= h
  BY <1>2 DEF Max
<1>4. Max(DOMAIN chain) = tip
  BY <1>1, <1>2, <1>3
<1> QED BY <1>1, <1>2, <1>4 DEF Tip

LEMMA BlockAtHeight ==
  ASSUME NEW chain \in Chains, NEW h \in Nat
  PROVE  /\ BlockAt(chain, h) = IF h \in DOMAIN chain THEN chain[h] ELSE None
         /\ BlockAt(chain, h) # None <=> h \in DOMAIN chain
<1>1. h \notin Block
  BY ReadsAssumption
<1>2. h \in DOMAIN chain => chain[h] # None
  BY ChainsAssumption, ReadsAssumption DEF Id
<1> QED BY <1>1, <1>2 DEF BlockAt

LEMMA KeyFinds ==
  ASSUME NEW chain \in Chains, NEW id \in Id
  PROVE  BlockAt(chain, Key(id)) = BlockAt(chain, id)
<1>1. CASE id \in Block
  BY <1>1 DEF Key
<1>2. CASE id \notin Block
  <2>1. id \in Nat
    BY <1>2 DEF Id
  <2>2. CASE id < U32 /\ id <= MaxHeight
    BY <1>2, <2>2 DEF Key, state_height
  <2>3. CASE ~(id < U32 /\ id <= MaxHeight)
    <3>1. Key(id) = None
      BY <1>2, <2>3 DEF Key, state_height
    <3>2. id > MaxHeight
      BY <2>1, <2>3, ReadsAssumption
    <3>3. id \notin DOMAIN chain
      <4>1. PICK tip \in DOMAIN chain : tip <= MaxHeight /\ DOMAIN chain \subseteq 0 .. tip
        BY ChainsAssumption
      <4> QED BY <2>1, <3>2, <4>1, ReadsAssumption
    <3>4. None \notin Block /\ None \notin DOMAIN chain
      BY ReadsAssumption, ChainsAssumption DEF Id
    <3> QED BY <1>2, <3>1, <3>3, <3>4 DEF BlockAt
  <2> QED BY <2>2, <2>3
<1> QED BY <1>1, <1>2

LEMMA ClampedIsMin ==
  ASSUME NEW h \in Nat, NEW tip \in Nat, tip <= MaxHeight
  PROVE  Clamped(h, tip) = Min({h, tip})
<1>1. None \notin Nat
  BY ReadsAssumption DEF Id
<1>2. h \in Int /\ tip \in Int
  OBVIOUS
<1>3. CASE h < U32 /\ h <= MaxHeight
  BY <1>1, <1>3 DEF Clamped, state_height
<1>4. CASE ~(h < U32 /\ h <= MaxHeight)
  <2>1. tip <= h
    BY <1>4, ReadsAssumption
  <2> QED BY <1>2, <1>4, <2>1, MinOfTwo DEF Clamped, state_height
<1> QED BY <1>3, <1>4

\* A range of heights clamps to the same span on both sides.
LEMMA TxidsAgree ==
  ASSUME NEW chain \in Chains, NEW start \in Nat, NEW end \in Nat
  PROVE  get_address_txids(chain, Tip(chain), start, end) = NodeTxids(chain, start, end)
<1>1. Tip(chain) \in Nat /\ Tip(chain) <= MaxHeight
  BY TipOfChain
<1>2. Clamped(start, Tip(chain)) = Min({start, Tip(chain)}) /\ Clamped(end, Tip(chain)) = Min({end, Tip(chain)})
  BY <1>1, ClampedIsMin
<1> QED BY <1>2 DEF get_address_txids, NodeTxids

\* Within 16 bits neither the index nor the limit needs bounding.
LEMMA SubtreesAgree ==
  ASSUME NEW chain \in Chains, NEW pool \in Pool, NEW start \in 0 .. MAX_SUBTREE_INDEX,
         NEW max \in 0 .. MAX_SUBTREE_INDEX
  PROVE  /\ get_subtrees(chain, pool, start, max) = NodeSubtrees(chain, pool, start, max)
         /\ NodeSubtrees(chain, pool, start, max) = Ok(RootsFrom(chain, pool, start, max))
<1>1. MAX_SUBTREE_INDEX \in Int
  BY SubtreesAssumption DEF MAX_SUBTREE_INDEX
<1>2. Min({max, MAX_SUBTREE_INDEX}) = max
  BY <1>1, MinOfTwo
<1> QED BY <1>1, <1>2 DEF get_subtrees, NodeSubtrees

\* A block has one height, whatever chain it is looked up on.
LEMMA HeightsAgree ==
  ASSUME NEW chain \in Chains, NEW h \in DOMAIN chain
  PROVE  HeightOfBlock(chain[h]) = h /\ HeightIn(chain, chain[h]) = h
<1>1. \A d \in Chains : \A k \in DOMAIN d : d[k] = chain[h] => k = h
  BY ChainsAssumption
<1>2. h \in UNION {DOMAIN c : c \in Chains}
  OBVIOUS
<1>3. HeightOfBlock(chain[h]) = h
  BY <1>1, <1>2 DEF HeightOfBlock
<1> QED BY <1>1, <1>3 DEF HeightIn

-----------------------------------------------------------------------------
(***************************************************************************)
(* Over JSON-RPC.                                                          *)
(***************************************************************************)
\* A set of positions that is not empty has a last one.
LEMMA LastPosition ==
  ASSUME NEW n \in Nat, NEW S \in SUBSET (1 .. n), S # {}
  PROVE  Max(S) \in S
<1> DEFINE T == {n - x : x \in S}
<1>0. \A x \in S : x \in Int /\ n - x \in Nat
  OBVIOUS
<1>1. T \in SUBSET Nat /\ T # {}
  BY <1>0
<1>2. PICK y \in T : \A z \in T : y <= z
  BY <1>1, RetainFold!Smallest
<1>3. PICK x \in S : y = n - x
  BY <1>2
<1>4. \A z \in S : x >= z
  <2> SUFFICES ASSUME NEW z \in S PROVE x >= z
    OBVIOUS
  <2>1. y <= n - z
    <3>1. n - z \in T
      OBVIOUS
    <3> QED BY <1>2, <3>1
  <2>2. x \in Int /\ z \in Int
    BY <1>0
  <2> QED BY <1>3, <2>1, <2>2
<1> QED BY <1>4 DEF Max

\* Whatever order the replies of a batch come in, and however often.
LEMMA BatchAgrees ==
  ASSUME NEW chain \in Chains, NEW heights \in Seq(Nat), NEW replies \in Replies(chain, heights)
  PROVE  batch_request(Len(heights), replies) \in {NoAnswer, NodeAnswer(chain, "hashes", heights)}
<1> DEFINE reply(i) == [id |-> i, result |-> BlockAt(chain, heights[i])]
           stray    == [id |-> 0, result |-> chain[Tip(chain)]]
           any      == {reply(i) : i \in DOMAIN heights} \cup {stray}
           n        == Len(heights)
           slot(i)  == {k \in DOMAIN replies : replies[k].id = i}
           ids      == {replies[k].id : k \in DOMAIN replies}
<1>1. n \in Nat /\ DOMAIN heights = 1 .. n
  OBVIOUS
<1>2. PICK m \in 0 .. n + 1 : replies \in [1 .. m -> any]
  BY DEF Replies
<1>3. m \in Nat /\ DOMAIN replies = 1 .. m
  BY <1>1, <1>2
<1>s. chain[Tip(chain)] # None
  <2>1. chain[Tip(chain)] \in Block
    BY TipOfChain, ChainsAssumption
  <2> QED BY <2>1, ReadsAssumption DEF Id
<1>4. \A k \in DOMAIN replies :
        \/ \E i \in DOMAIN heights : replies[k] = reply(i)
        \/ replies[k].id = 0 /\ replies[k].result # None
  BY <1>2, <1>3, <1>s
<1>5. \A i \in DOMAIN heights : heights[i] \in Nat
  OBVIOUS
<1>6. NodeAnswer(chain, "hashes", heights) =
        IF Range(heights) \subseteq DOMAIN chain
        THEN Ok([i \in DOMAIN heights |-> chain[heights[i]]]) ELSE NotFound
  BY DEF NodeAnswer
<1>7. CASE \E k \in DOMAIN replies : replies[k].result = None
  <2>1. PICK k \in DOMAIN replies : replies[k].result = None
    BY <1>7
  <2>2. PICK i \in DOMAIN heights : replies[k] = reply(i)
    BY <1>4, <2>1
  <2>3. BlockAt(chain, heights[i]) = None
    BY <2>1, <2>2
  <2>4. heights[i] \notin DOMAIN chain
    BY <1>5, <2>3, BlockAtHeight
  <2>5. ~(Range(heights) \subseteq DOMAIN chain)
    BY <2>4 DEF Range
  <2> QED BY <1>6, <1>7, <2>5 DEF batch_request
<1>8. CASE ~(\E k \in DOMAIN replies : replies[k].result = None) /\ ids # 1 .. n
  BY <1>8 DEF batch_request
<1>9. CASE ~(\E k \in DOMAIN replies : replies[k].result = None) /\ ids = 1 .. n
  <2>1. batch_request(n, replies) = Ok([i \in 1 .. n |-> replies[Max(slot(i))].result])
    BY <1>9 DEF batch_request
  <2>2. ASSUME NEW i \in 1 .. n
        PROVE  heights[i] \in DOMAIN chain /\ replies[Max(slot(i))].result = chain[heights[i]]
    <3>1. PICK k \in DOMAIN replies : replies[k].id = i
      BY <1>9
    <3>2. \A l \in DOMAIN replies : replies[l].id = i => replies[l] = reply(i)
      BY <1>4
    <3>3. PICK last : last = Max(slot(i))
      OBVIOUS
    <3>4. last \in DOMAIN replies /\ replies[last].id = i
      <4>1. slot(i) \in SUBSET (1 .. m) /\ slot(i) # {}
        BY <1>3, <3>1
      <4>2. last \in slot(i)
        <5> HIDE DEF slot
        <5> QED BY <1>3, <3>3, <4>1, LastPosition
      <4> QED BY <4>2
    <3>5. replies[last].result = BlockAt(chain, heights[i])
      <4>1. replies[last] = reply(i)
        BY <3>2, <3>4
      <4> QED BY <4>1
    <3>6. replies[Max(slot(i))].result = BlockAt(chain, heights[i])
      BY <3>3, <3>5
    <3>7. BlockAt(chain, heights[i]) # None
      BY <1>9, <3>1, <3>2
    <3> QED BY <1>1, <1>5, <3>6, <3>7, BlockAtHeight
  <2>3. Range(heights) \subseteq DOMAIN chain
    BY <1>1, <2>2 DEF Range
  <2>4. [i \in 1 .. n |-> replies[Max(slot(i))].result] = [i \in DOMAIN heights |-> chain[heights[i]]]
    BY <1>1, <2>2
  <2> QED BY <1>6, <2>1, <2>3, <2>4
<1> QED BY <1>7, <1>8, <1>9

LEMMA RpcAgrees ==
  ASSUME NEW chain \in Chains, NEW method, NEW arg, Takes(method, arg),
         NEW answer \in RpcAnswers(chain, method, arg)
  PROVE  answer \in {NoAnswer, NodeAnswer(chain, method, arg)}
<1>1. CASE method = "hashes"
  <2>1. arg \in Seq(Nat)
    BY <1>1 DEF Takes, Argument
  <2> QED BY <1>1, <2>1, BatchAgrees DEF RpcAnswers
<1>2. CASE method # "hashes"
  BY <1>2 DEF RpcAnswers
<1> QED BY <1>1, <1>2

-----------------------------------------------------------------------------
(***************************************************************************)
(* Over the state, read by read.                                           *)
(***************************************************************************)
\* The id a block read is keyed by names the same block on the node.
LEMMA BlockRead ==
  ASSUME NEW chain \in Chains, NEW c, Takes(c.method, c.arg), IsSequence(c.got),
         Len(c.got) < Len(ReadsOf(c.method, c.arg)),
         ReadsOf(c.method, c.arg)[Len(c.got) + 1] \in {"block", "txids"} \cup Pool,
         NEW id, id = IF c.method = "hashes" THEN c.arg[Len(c.got) + 1] ELSE c.arg
  PROVE  id \in Id /\ BlockAt(chain, Key(id)) = BlockAt(chain, id)
<1> DEFINE n == Len(c.got) + 1
<1>1. Len(c.got) \in Nat
  BY DEF IsSequence
<1>2. id \in Id
  <2>1. CASE c.method = "hashes"
    <3>1. c.arg \in Seq(Nat)
      BY <2>1 DEF Takes, Argument
    <3>2. n \in 1 .. Len(c.arg)
      BY <1>1, <2>1, <3>1, HashesReads
    <3> QED BY <2>1, <3>1, <3>2 DEF Id
  <2>2. CASE c.method \in {"verbose", "raw", "hash", "treestate"}
    BY <2>2 DEF Takes, Argument
  <2>3. CASE c.method \in {"info", "transaction", "utxos", "subtrees", "txids"}
    BY <1>1, <2>3, SingleReads DEF Pool
  <2> QED BY <2>1, <2>2, <2>3 DEF Takes, Argument
<1> QED BY <1>2, KeyFinds

\* A read of the state by a chain that stood still since the call began returns
\* what Returned says, or ends the call with the node's own error.
LEMMA ReadStep ==
  ASSUME NEW chain \in Chains, NEW c, Takes(c.method, c.arg), IsSequence(c.got),
         Len(c.got) < Len(ReadsOf(c.method, c.arg)),
         \A i \in DOMAIN c.got : Returned(chain, c, i)
  PROVE  /\ ~IsOk(Read(chain, c)) => Read(chain, c) = NodeAnswer(chain, c.method, c.arg)
         /\ \A d : /\ IsOk(Read(chain, c))
                  /\ d.method = c.method /\ d.arg = c.arg
                  /\ d.got[Len(c.got) + 1] = Read(chain, c)[2]
                  => Returned(chain, d, Len(c.got) + 1)
<1> DEFINE n    == Len(c.got) + 1
           read == ReadsOf(c.method, c.arg)[n]
           id   == IF c.method = "hashes" THEN c.arg[n] ELSE c.arg
           b    == BlockAt(chain, id)
           r    == Read(chain, c)
<1>1. Len(c.got) \in Nat /\ DOMAIN c.got = 1 .. Len(c.got) /\ n \in 1 .. Len(ReadsOf(c.method, c.arg))
  BY DEF IsSequence
<1>2. CASE read = "block"
  <2>1. id \in Id /\ BlockAt(chain, Key(id)) = b
    BY <1>2, BlockRead
  <2>2. r = IF b = None THEN NotFound ELSE Ok(b)
    BY <1>2, <2>1 DEF Read, Pool
  <2>3. c.method = "hashes" \/ c.method \in Named
    BY <1>1, <1>2, ReadKinds
  <2>4. b = None => NodeAnswer(chain, c.method, c.arg) = NotFound
    <3>1. CASE c.method = "hashes"
      <4>1. c.arg \in Seq(Nat) /\ n \in 1 .. Len(c.arg)
        BY <1>1, <3>1, HashesReads DEF Takes, Argument
      <4>2. c.arg[n] \in Nat /\ c.arg[n] \in Range(c.arg)
        BY <4>1 DEF Range
      <4>3. b = None => ~(Range(c.arg) \subseteq DOMAIN chain)
        BY <3>1, <4>2, BlockAtHeight
      <4> QED BY <3>1, <4>3 DEF NodeAnswer
    <3>2. CASE c.method \in Named
      BY <3>2 DEF NodeAnswer, Named
    <3> QED BY <2>3, <3>1, <3>2
  <2>5. b # None => IsOk(r) /\ r[2] = b
    BY <2>2 DEF IsOk, Ok, Unanswered
  <2>6. b = None => ~IsOk(r)
    BY <2>2 DEF IsOk, NotFound, Err
  <2>7. ASSUME NEW d, IsOk(r), d.method = c.method, d.arg = c.arg, d.got[n] = r[2]
        PROVE  Returned(chain, d, n)
    BY <1>2, <2>5, <2>6, <2>7 DEF Returned, Pool
  <2> QED BY <2>2, <2>4, <2>5, <2>6, <2>7
<1>3. CASE read \in {"txids"} \cup Pool
  <2>1. BlockAt(chain, Key(id)) = b
    BY <1>3, BlockRead DEF Pool
  <2>2. /\ c.method \in {"verbose", "treestate"} /\ n > 1
        /\ ReadsOf(c.method, c.arg)[1] = "block"
    BY <1>1, <1>3, ReadKinds
  <2>3. id = c.arg
    BY <2>2
  <2>4. b # None
    <3>1. Returned(chain, c, 1)
      BY <1>1, <2>2
    <3> QED BY <2>2, <2>3, <3>1 DEF Returned, Pool
  <2>5. CASE read = "txids"
    <3>1. r = Ok(TxsOf[b])
      BY <2>1, <2>4, <2>5 DEF Read, Pool
    <3>2. IsOk(r) /\ r[2] = TxsOf[b]
      BY <3>1 DEF IsOk, Ok, Unanswered
    <3>3. ASSUME NEW d, IsOk(r), d.method = c.method, d.arg = c.arg, d.got[n] = r[2]
          PROVE  Returned(chain, d, n)
      BY <2>3, <2>5, <3>2, <3>3 DEF Returned, Pool
    <3> QED BY <3>2, <3>3
  <2>6. CASE read \in Pool
    <3>1. r = Ok(Trees[b][read])
      BY <2>1, <2>4, <2>6 DEF Read, Pool
    <3>2. IsOk(r) /\ r[2] = Trees[b][read]
      BY <3>1 DEF IsOk, Ok, Unanswered
    <3>3. ASSUME NEW d, IsOk(r), d.method = c.method, d.arg = c.arg, d.got[n] = r[2]
          PROVE  Returned(chain, d, n)
      BY <2>3, <2>6, <3>2, <3>3 DEF Returned, Pool
    <3> QED BY <3>2, <3>3
  <2> QED BY <1>3, <2>5, <2>6
<1>4. CASE read = "tip"
  <2>1. r = Ok(best_tip(chain))
    BY <1>4 DEF Read, Pool
  <2>2. IsOk(r) /\ r[2] = best_tip(chain)
    BY <2>1 DEF IsOk, Ok, Unanswered
  <2>3. ASSUME NEW d, IsOk(r), d.method = c.method, d.arg = c.arg, d.got[n] = r[2]
        PROVE  Returned(chain, d, n)
    BY <1>4, <2>2, <2>3 DEF Returned, Pool
  <2> QED BY <2>2, <2>3
<1>5. CASE read = "mined"
  <2>1. r = Ok(MinedAt(chain, c.arg))
    BY <1>5 DEF Read, Pool
  <2>2. IsOk(r) /\ r[2] = MinedAt(chain, c.arg)
    BY <2>1 DEF IsOk, Ok, Unanswered
  <2>3. ASSUME NEW d, IsOk(r), d.method = c.method, d.arg = c.arg, d.got[n] = r[2]
        PROVE  Returned(chain, d, n)
    BY <1>5, <2>2, <2>3 DEF Returned, Pool
  <2> QED BY <2>2, <2>3
<1>6. CASE read = "utxos"
  <2>1. r = Ok(TouchingIn(chain, 0, Tip(chain)))
    BY <1>6 DEF Read, Pool
  <2>2. IsOk(r) /\ r[2] = TouchingIn(chain, 0, Tip(chain))
    BY <2>1 DEF IsOk, Ok, Unanswered
  <2>3. ASSUME NEW d, IsOk(r), d.method = c.method, d.arg = c.arg, d.got[n] = r[2]
        PROVE  Returned(chain, d, n)
    BY <1>6, <2>2, <2>3 DEF Returned, Pool
  <2> QED BY <2>2, <2>3
<1>7. CASE read = "txids_of_addresses"
  <2>1. c.method = "txids" /\ n = 2 /\ ReadsOf(c.method, c.arg)[1] = "tip"
    BY <1>1, <1>7, ReadKinds
  <2>2. c.got[1] = best_tip(chain)
    <3>1. Returned(chain, c, 1)
      BY <1>1, <2>1
    <3> QED BY <2>1, <3>1 DEF Returned, Pool
  <2>3. c.got[1][1] = Tip(chain)
    BY <2>2 DEF best_tip
  <2>4. c.arg[1] \in Nat /\ c.arg[2] \in Nat
    BY <2>1 DEF Takes, Argument
  <2>5. r = get_address_txids(chain, c.got[1][1], c.arg[1], c.arg[2])
    BY <1>7 DEF Read, Pool
  <2>6. r = NodeTxids(chain, c.arg[1], c.arg[2])
    BY <2>3, <2>4, <2>5, TxidsAgree
  <2>7. NodeAnswer(chain, c.method, c.arg) = r
    BY <2>1, <2>6 DEF NodeAnswer
  <2>8. IsOk(r) => r = Ok(r[2])
    BY <2>6 DEF NodeTxids, IsOk, Ok, BadArg, Err
  <2>9. ASSUME NEW d, IsOk(r), d.method = c.method, d.arg = c.arg, d.got[n] = r[2]
        PROVE  Returned(chain, d, n)
    BY <1>7, <2>6, <2>8, <2>9 DEF Returned, Pool
  <2> QED BY <2>7, <2>9
<1>8. CASE read = "subtrees"
  <2>1. c.method = "subtrees"
    BY <1>1, <1>8, ReadKinds
  <2>2. /\ c.arg[1] \in Pool
        /\ c.arg[2] \in 0 .. MAX_SUBTREE_INDEX /\ c.arg[3] \in 0 .. MAX_SUBTREE_INDEX
    BY <2>1 DEF Takes, Argument
  <2>3. r = get_subtrees(chain, c.arg[1], c.arg[2], c.arg[3])
    BY <1>8 DEF Read, Pool
  <2>4. r = NodeAnswer(chain, "subtrees", c.arg)
    BY <2>2, <2>3, SubtreesAgree DEF NodeAnswer
  <2>5. IsOk(r) => r = Ok(r[2])
    BY <2>2, <2>3, SubtreesAgree DEF Ok
  <2>6. ASSUME NEW d, IsOk(r), d.method = c.method, d.arg = c.arg, d.got[n] = r[2]
        PROVE  Returned(chain, d, n)
    BY <1>8, <2>4, <2>5, <2>6 DEF Returned, Pool
  <2> QED BY <2>1, <2>4, <2>6
<1> QED BY <1>1, <1>2, <1>3, <1>4, <1>5, <1>6, <1>7, <1>8, ReadKinds

\* What the reads of one chain returned is put together to the node's answer.
LEMMA AssembledAgrees ==
  ASSUME NEW chain \in Chains, NEW c, Takes(c.method, c.arg), IsSequence(c.got),
         Len(c.got) = Len(ReadsOf(c.method, c.arg)),
         \A i \in DOMAIN c.got : Returned(chain, c, i)
  PROVE  Assembled(chain, c) = NodeAnswer(chain, c.method, c.arg)
<1> DEFINE b == BlockAt(chain, c.arg)
<1>1. \A i \in 1 .. Len(c.got) : Returned(chain, c, i)
  BY DEF IsSequence
<1>2. CASE c.method = "verbose"
  <2>1. Len(c.got) = 5
    BY <1>2, VerboseReads
  <2>2. /\ Returned(chain, c, 1) /\ Returned(chain, c, 2) /\ Returned(chain, c, 3)
        /\ Returned(chain, c, 4) /\ Returned(chain, c, 5)
    BY <1>1, <2>1
  <2> DEFINE R == ReadsOf(c.method, c.arg)
  <2>r. /\ R[1] = "block" /\ R[2] = "txids" /\ R[3] = "sapling" /\ R[4] = "orchard"
        /\ R[5] = "ironwood"
    BY <1>2, VerboseReads
  <2>3. c.got[1] = b /\ b # None
    BY <1>2, <2>2, <2>r DEF Returned, Pool
  <2>4. c.got[2] = TxsOf[b]
    BY <1>2, <2>2, <2>r DEF Returned, Pool
  <2>5. c.got[3] = Trees[b]["sapling"]
    BY <1>2, <2>2, <2>r DEF Returned, Pool
  <2>6. c.got[4] = Trees[b]["orchard"]
    BY <1>2, <2>2, <2>r DEF Returned, Pool
  <2>7. c.got[5] = Trees[b]["ironwood"]
    BY <1>2, <2>2, <2>r DEF Returned, Pool
  <2>8. tree_sizes(c.got) = SizesAt(b)
    <3>1. \A p \in Pool : TreesRead(c.got, 3)[p] = Trees[b][p]
      BY <2>5, <2>6, <2>7 DEF TreesRead, Pool
    <3> QED BY <3>1 DEF tree_sizes, SizesAt
  <2>9. Assembled(chain, c) = Ok([hash |-> c.got[1], tx |-> c.got[2], trees |-> tree_sizes(c.got)])
    BY <1>2 DEF Assembled
  <2>10. NodeAnswer(chain, c.method, c.arg) = Ok([hash |-> b, tx |-> TxsOf[b], trees |-> SizesAt(b)])
    BY <1>2, <2>3 DEF NodeAnswer
  <2> QED BY <2>3, <2>4, <2>8, <2>9, <2>10
<1>3. CASE c.method = "treestate"
  <2>1. Len(c.got) = 4
    BY <1>3, TreestateReads
  <2>2. Returned(chain, c, 1) /\ Returned(chain, c, 2) /\ Returned(chain, c, 3) /\ Returned(chain, c, 4)
    BY <1>1, <2>1
  <2> DEFINE R == ReadsOf(c.method, c.arg)
  <2>r. R[1] = "block" /\ R[2] = "sapling" /\ R[3] = "orchard" /\ R[4] = "ironwood"
    BY <1>3, TreestateReads
  <2>3. c.got[1] = b /\ b # None
    BY <1>3, <2>2, <2>r DEF Returned, Pool
  <2>4. c.got[2] = Trees[b]["sapling"]
    BY <1>3, <2>2, <2>r DEF Returned, Pool
  <2>5. c.got[3] = Trees[b]["orchard"]
    BY <1>3, <2>2, <2>r DEF Returned, Pool
  <2>6. c.got[4] = Trees[b]["ironwood"]
    BY <1>3, <2>2, <2>r DEF Returned, Pool
  <2>7. PICK h \in DOMAIN chain : b = chain[h]
    BY <2>3 DEF BlockAt, Range
  <2>8. HeightOfBlock(b) = HeightIn(chain, b)
    BY <2>7, HeightsAgree
  <2>9. \A p \in Pool : TreesRead(c.got, 2)[p] = Trees[b][p]
    BY <2>4, <2>5, <2>6 DEF TreesRead, Pool
  <2>10. ActivePools(c.got, HeightOfBlock(b)) =
          [p \in Pool |-> IF HeightIn(chain, b) >= Activation[p] THEN Trees[b][p] ELSE None]
    BY <2>8, <2>9 DEF ActivePools
  <2>11. Assembled(chain, c) =
          Ok([hash |-> c.got[1], pools |-> ActivePools(c.got, HeightOfBlock(c.got[1]))])
    BY <1>3 DEF Assembled
  <2>12. NodeAnswer(chain, c.method, c.arg) =
          Ok([hash |-> b, pools |->
            [p \in Pool |-> IF HeightIn(chain, b) >= Activation[p] THEN Trees[b][p] ELSE None]])
    BY <1>3, <2>3 DEF NodeAnswer
  <2> QED BY <2>3, <2>10, <2>11, <2>12
<1>4. CASE c.method = "hashes"
  <2>1. c.arg \in Seq(Nat) /\ Len(c.got) = Len(c.arg) /\ DOMAIN c.arg = 1 .. Len(c.arg)
    BY <1>4, HashesReads DEF Takes, Argument
  <2>2. ASSUME NEW i \in 1 .. Len(c.arg)
        PROVE  c.arg[i] \in DOMAIN chain /\ c.got[i] = chain[c.arg[i]]
    <3>1. Returned(chain, c, i) /\ ReadsOf(c.method, c.arg)[i] = "block"
      BY <1>1, <1>4, <2>1, HashesReads
    <3>2. c.got[i] # None /\ c.got[i] = BlockAt(chain, c.arg[i])
      BY <1>4, <3>1 DEF Returned, Pool
    <3>3. c.arg[i] \in Nat
      BY <2>1
    <3> QED BY <3>2, <3>3, BlockAtHeight
  <2>3. Range(c.arg) \subseteq DOMAIN chain
    BY <2>1, <2>2 DEF Range
  <2>4. c.got = [i \in DOMAIN c.arg |-> chain[c.arg[i]]]
    BY <2>1, <2>2 DEF IsSequence
  <2>5. Assembled(chain, c) = Ok(c.got)
    BY <1>4 DEF Assembled
  <2> QED BY <1>4, <2>3, <2>4, <2>5 DEF NodeAnswer
<1>5. CASE c.method = "transaction"
  <2>1. Returned(chain, c, 1) /\ ReadsOf(c.method, c.arg)[1] = "mined"
    BY <1>1, <1>5, SingleReads
  <2>2. c.got[1] = MinedAt(chain, c.arg)
    BY <2>1 DEF Returned, Pool
  <2> QED BY <1>5, <2>2 DEF Assembled, NodeAnswer, NodeTransaction
<1>6. CASE c.method \in {"info", "raw", "hash", "utxos"}
  <2>1. Returned(chain, c, 1) /\ Len(c.got) = 1
    BY <1>1, <1>6, SingleReads
  <2>2. Assembled(chain, c) = Ok(c.got[1])
    BY <1>6, <2>1 DEF Assembled, Last
  <2>3. CASE c.method = "info"
    <3>1. ReadsOf(c.method, c.arg)[1] = "tip"
      BY <2>3, SingleReads
    <3>2. c.got[1] = best_tip(chain)
      BY <2>1, <3>1 DEF Returned, Pool
    <3> QED BY <2>2, <2>3, <3>2 DEF NodeAnswer
  <2>4. CASE c.method \in {"raw", "hash"}
    <3>1. ReadsOf(c.method, c.arg)[1] = "block"
      BY <2>4, SingleReads
    <3>2. c.got[1] = b /\ b # None
      BY <2>1, <2>4, <3>1 DEF Returned, Pool
    <3> QED BY <2>2, <2>4, <3>2 DEF NodeAnswer
  <2>5. CASE c.method = "utxos"
    <3>1. ReadsOf(c.method, c.arg)[1] = "utxos"
      BY <2>5, SingleReads
    <3>2. c.got[1] = TouchingIn(chain, 0, Tip(chain))
      BY <2>1, <3>1 DEF Returned, Pool
    <3> QED BY <2>2, <2>5, <3>2 DEF NodeAnswer
  <2> QED BY <1>6, <2>3, <2>4, <2>5
<1>7. CASE c.method \in {"txids", "subtrees"}
  <2>1. CASE c.method = "txids"
    <3>1. Returned(chain, c, 2) /\ Len(c.got) = 2
      BY <1>1, <2>1, SingleReads
    <3>2. Assembled(chain, c) = Ok(c.got[2])
      BY <2>1, <3>1 DEF Assembled, Last
    <3>3. ReadsOf(c.method, c.arg)[2] = "txids_of_addresses"
      BY <2>1, SingleReads
    <3>4. NodeTxids(chain, c.arg[1], c.arg[2]) = Ok(c.got[2])
      BY <3>1, <3>3 DEF Returned, Pool
    <3> QED BY <2>1, <3>2, <3>4 DEF NodeAnswer
  <2>2. CASE c.method = "subtrees"
    <3>1. Returned(chain, c, 1) /\ Len(c.got) = 1
      BY <1>1, <2>2, SingleReads
    <3>2. Assembled(chain, c) = Ok(c.got[1])
      BY <2>2, <3>1 DEF Assembled, Last
    <3>3. ReadsOf(c.method, c.arg)[1] = "subtrees"
      BY <2>2, SingleReads
    <3>4. NodeAnswer(chain, "subtrees", c.arg) = Ok(c.got[1])
      BY <3>1, <3>3 DEF Returned, Pool
    <3> QED BY <2>2, <3>2, <3>4
  <2> QED BY <1>7, <2>1, <2>2
<1> QED BY <1>2, <1>3, <1>4, <1>5, <1>6, <1>7 DEF Takes, Argument

-----------------------------------------------------------------------------
(***************************************************************************)
(* Every step keeps the calls' part of the invariant.                      *)
(***************************************************************************)
LEMMA AppendIsSequence ==
  ASSUME NEW s, IsSequence(s), NEW x
  PROVE  /\ IsSequence(Append(s, x))
         /\ Len(Append(s, x)) = Len(s) + 1 /\ Len(s) \in Nat
         /\ DOMAIN s = 1 .. Len(s)
         /\ DOMAIN Append(s, x) = 1 .. Len(s) + 1
         /\ Append(s, x)[Len(s) + 1] = x
         /\ \A i \in 1 .. Len(s) : Append(s, x)[i] = s[i]
<1> DEFINE T == Range(s) \cup {x}
           t == Append(s, x)
<1>1. s \in Seq(T) /\ Len(s) \in Nat /\ DOMAIN s = 1 .. Len(s)
  BY DEF IsSequence
<1>2. /\ t \in Seq(T) /\ Len(t) = Len(s) + 1 /\ t[Len(s) + 1] = x
      /\ \A i \in 1 .. Len(s) : t[i] = s[i]
  BY <1>1
<1> HIDE DEF t
<1>3. DOMAIN t = 1 .. Len(t)
  BY <1>2
<1>4. t \in Seq(Range(t))
  BY <1>2, <1>3 DEF Range
<1> QED BY <1>1, <1>2, <1>3, <1>4 DEF t, IsSequence

LEMMA FreshCall ==
  ASSUME NEW c, NEW method, NEW arg, c = Asking(method, arg)
  PROVE  /\ IsCall(c) /\ c.method = method /\ c.arg = arg /\ c.got = << >>
         /\ c.answer = Unanswered /\ ~c.moved /\ c.moved \in BOOLEAN
BY DEF Asking, NoCall, IsCall

LEMMA EmptyIsSequence ==
  IsSequence(<< >>) /\ Len(<< >>) = 0
BY DEF IsSequence, Range

LEMMA ReadsCount ==
  ASSUME NEW method, NEW arg, Takes(method, arg)
  PROVE  Len(ReadsOf(method, arg)) \in Nat
<1>1. CASE method = "hashes"
  <2>1. arg \in Seq(Nat)
    BY <1>1 DEF Takes, Argument
  <2> QED BY <1>1, <2>1, HashesReads
<1>2. CASE method # "hashes"
  BY <1>2, VerboseReads, TreestateReads, SingleReads DEF Takes, Argument
<1> QED BY <1>1, <1>2

\* A new call, and no call.
LEMMA AskingReads ==
  ASSUME ReadsInv, UNCHANGED <<node, backend>>,
         NEW method, NEW arg, Takes(method, arg), call' = Asking(method, arg)
  PROVE  ReadsInv'
<1> DEFINE c == call'
<1>1. /\ IsCall(c) /\ c.method = method /\ c.arg = arg /\ c.got = << >>
      /\ c.answer = Unanswered /\ ~c.moved /\ c.moved \in BOOLEAN
  BY FreshCall
<1>e. IsSequence(c.got) /\ Len(c.got) = 0
  BY <1>1, EmptyIsSequence
<1>2. Len(c.got) <= Len(ReadsOf(c.method, c.arg))
  BY <1>1, <1>e, ReadsCount
<1>3. DOMAIN c.got = {}
  BY <1>1
<1>4. CallTypes'
  BY <1>1, <1>2, <1>e DEF ReadsInv, CallTypes
<1> QED BY <1>1, <1>3, <1>4 DEF ReadsInv, Gathered, BackendsAgree

LEMMA NoCallReads ==
  ASSUME ReadsInv, UNCHANGED <<node, backend>>, call' = NoCall
  PROVE  ReadsInv'
<1> DEFINE c == call'
<1>1. /\ IsCall(c) /\ c.method = "none" /\ c.got = << >>
      /\ c.answer = Unanswered /\ c.moved = FALSE
  BY DEF NoCall, IsCall
<1>2. IsSequence(c.got)
  BY <1>1 DEF IsSequence, Range
<1>3. CallTypes'
  BY <1>1, <1>2 DEF ReadsInv, CallTypes, InFlight
<1> QED BY <1>1, <1>3 DEF ReadsInv, Gathered, BackendsAgree, InFlight

LEMMA MovesReads ==
  ASSUME ReadsInv, NEW chain \in Chains, NodeMoves(chain)
  PROVE  ReadsInv'
<1>1. /\ IsCall(call') /\ call'.method = call.method /\ call'.arg = call.arg
      /\ call'.got = call.got /\ call'.answer = call.answer /\ call'.moved = TRUE
  BY DEF NodeMoves, ReadsInv, CallTypes, IsCall
<1>2. node' \in Chains /\ backend' = backend
  BY DEF NodeMoves
<1>3. CallTypes'
  BY <1>1, <1>2 DEF ReadsInv, CallTypes, InFlight
<1> QED BY <1>1, <1>3 DEF ReadsInv, Gathered, BackendsAgree

\* An answer given to a call in flight.
LEMMA AnswerReads ==
  ASSUME ReadsInv, InFlight, UNCHANGED <<node, backend>>,
         NEW answer, call' = [call EXCEPT !.answer = answer],
         ~call.moved /\ answer # Unanswered =>
           answer \in {NoAnswer, NodeAnswer(node, call.method, call.arg)}
  PROVE  ReadsInv'
<1>1. /\ IsCall(call') /\ call'.method = call.method /\ call'.arg = call.arg
      /\ call'.got = call.got /\ call'.answer = answer /\ call'.moved = call.moved
  BY DEF ReadsInv, CallTypes, IsCall
<1>2. CallTypes'
  BY <1>1 DEF ReadsInv, CallTypes, InFlight
<1>3. Gathered'
  <2> SUFFICES ASSUME InFlight', ~call'.moved, NEW i \in DOMAIN call'.got PROVE Returned(node', call', i)
    BY DEF Gathered
  <2>1. Returned(node, call, i)
    BY <1>1 DEF ReadsInv, Gathered
  <2> QED BY <1>1, <2>1 DEF Returned
<1> QED BY <1>1, <1>2, <1>3 DEF ReadsInv, BackendsAgree

LEMMA AnsweringReads ==
  ASSUME ReadsInv, Answering
  PROVE  ReadsInv'
<1>1. CASE RpcCall
  <2>1. PICK answer \in RpcAnswers(node, call.method, call.arg) : call' = [call EXCEPT !.answer = answer]
    BY <1>1 DEF RpcCall
  <2>2. InFlight /\ UNCHANGED <<node, backend>>
    BY <1>1 DEF RpcCall
  <2>3. answer \in {NoAnswer, NodeAnswer(node, call.method, call.arg)}
    BY <2>2, RpcAgrees DEF ReadsInv, CallTypes, InFlight
  <2> QED BY <2>1, <2>2, <2>3, AnswerReads
<1>2. CASE StateFails
  BY <1>2, AnswerReads DEF StateFails
<1>3. CASE StateAnswers
  <2>1. InFlight /\ UNCHANGED <<node, backend>> /\ call' = [call EXCEPT !.answer = Assembled(node, call)]
    BY <1>3 DEF StateAnswers
  <2>2. Takes(call.method, call.arg) /\ IsSequence(call.got) /\ node \in Chains
    BY <2>1 DEF ReadsInv, CallTypes, InFlight
  <2>3. Len(call.got) = Len(ReadsOf(call.method, call.arg))
    <3>1. Len(call.got) \in Nat /\ Len(ReadsOf(call.method, call.arg)) \in Nat
      BY <2>2, ReadsCount DEF IsSequence
    <3> QED BY <1>3, <3>1 DEF StateAnswers, ReadsLeft
  <2>4. ~call.moved => Assembled(node, call) = NodeAnswer(node, call.method, call.arg)
    BY <2>1, <2>2, <2>3, AssembledAgrees DEF ReadsInv, Gathered
  <2> QED BY <2>1, <2>4, AnswerReads
<1>4. CASE StateRead
  <2> DEFINE read == Read(node, call)
  <2>1. InFlight /\ UNCHANGED <<node, backend>>
    BY <1>4 DEF StateRead
  <2>2. Takes(call.method, call.arg) /\ IsSequence(call.got) /\ node \in Chains
    BY <2>1 DEF ReadsInv, CallTypes, InFlight
  <2>3. Len(call.got) < Len(ReadsOf(call.method, call.arg))
    <3>1. Len(call.got) \in Nat /\ Len(ReadsOf(call.method, call.arg)) \in Nat
      BY <2>2, ReadsCount DEF IsSequence
    <3>2. ReadsLeft > 0
      BY <1>4 DEF StateRead
    <3>3. \A a, b \in Nat : a - b > 0 => b < a
      OBVIOUS
    <3> QED BY <3>1, <3>2, <3>3 DEF ReadsLeft
  <2>4. CASE ~IsOk(read)
    <3>1. call' = [call EXCEPT !.answer = read]
      BY <1>4, <2>4 DEF StateRead
    <3>2. ~call.moved => read = NodeAnswer(node, call.method, call.arg)
      BY <2>1, <2>2, <2>3, <2>4, ReadStep DEF ReadsInv, Gathered
    <3> QED BY <2>1, <3>1, <3>2, AnswerReads
  <2>5. CASE IsOk(read)
    <3>1. call' = [call EXCEPT !.got = Append(@, read[2])]
      BY <1>4, <2>5 DEF StateRead
    <3>2. /\ IsCall(call') /\ call'.method = call.method /\ call'.arg = call.arg
          /\ call'.got = Append(call.got, read[2]) /\ call'.answer = call.answer
          /\ call'.moved = call.moved
      BY <3>1 DEF ReadsInv, CallTypes, IsCall
    <3> HIDE DEF read
    <3>3. /\ IsSequence(call'.got) /\ Len(call'.got) = Len(call.got) + 1 /\ Len(call.got) \in Nat
          /\ DOMAIN call.got = 1 .. Len(call.got) /\ DOMAIN call'.got = 1 .. Len(call.got) + 1
          /\ call'.got[Len(call.got) + 1] = read[2]
          /\ \A i \in 1 .. Len(call.got) : call'.got[i] = call.got[i]
      BY <2>2, <3>2, AppendIsSequence
    <3>4. Len(call'.got) <= Len(ReadsOf(call.method, call.arg))
      BY <2>2, <2>3, <3>3, ReadsCount
    <3>5. CallTypes'
      BY <2>1, <3>2, <3>3, <3>4 DEF ReadsInv, CallTypes, InFlight
    <3>6. Gathered'
      <4> SUFFICES ASSUME ~call'.moved, NEW i \in DOMAIN call'.got PROVE Returned(node', call', i)
        BY DEF Gathered
      <4>1. \A j \in DOMAIN call.got : Returned(node, call, j)
        BY <2>1, <3>2 DEF ReadsInv, Gathered
      <4>2. CASE i = Len(call.got) + 1
        <5>1. Returned(node, call', Len(call.got) + 1)
          BY <2>2, <2>3, <2>5, <3>2, <3>3, <4>1, ReadStep DEF read
        <5> QED BY <2>1, <4>2, <5>1
      <4>3. CASE i \in 1 .. Len(call.got)
        <5>1. Returned(node, call, i)
          BY <3>3, <4>1, <4>3
        <5> QED BY <2>1, <3>2, <3>3, <4>3, <5>1 DEF Returned
      <4> QED BY <3>3, <4>2, <4>3
    <3>7. BackendsAgree'
      BY <2>1, <3>2 DEF BackendsAgree, InFlight
    <3> QED BY <3>5, <3>6, <3>7 DEF ReadsInv
  <2> QED BY <2>4, <2>5
<1> QED BY <1>1, <1>2, <1>3, <1>4 DEF Answering

-----------------------------------------------------------------------------
(***************************************************************************)
(* What the pieces of a fetch do to the stream.                            *)
(***************************************************************************)
LEMMA FlushKeeps ==
  ASSUME NEW s, IsStream(s)
  PROVE  /\ IsStream(flush(s)) /\ flush(s).fetched = s.fetched /\ flush(s).phase = s.phase
         /\ flush(s).request = s.request /\ flush(s).at = s.at /\ flush(s).held = s.held
BY DEF flush, IsStream

LEMMA PushKeeps ==
  ASSUME NEW s, IsStream(s), NEW message
  PROVE  /\ IsStream(push(s, message)) /\ push(s, message).fetched = s.fetched
         /\ push(s, message).request = s.request /\ push(s, message).at = s.at
<1> DEFINE bytes == s.bytes + encoded_len(message)
<1>1. CASE bytes >= BatchBytes
  <2>1. push(s, message) =
          [s EXCEPT !.wire = Append(@, Append(s.pending, message)), !.pending = << >>, !.bytes = 0]
    BY <1>1 DEF push
  <2> QED BY <2>1 DEF IsStream
<1>2. CASE ~(bytes >= BatchBytes)
  <2>1. push(s, message) = [s EXCEPT !.pending = Append(@, message), !.bytes = bytes]
    BY <1>2 DEF push
  <2> HIDE DEF bytes
  <2> QED BY <2>1 DEF IsStream
<1> QED BY <1>1, <1>2

LEMMA FailedKeeps ==
  ASSUME NEW s, IsStream(s)
  PROVE  /\ IsStream(Failed(s)) /\ Failed(s).fetched = s.fetched /\ Failed(s).phase = "failed"
         /\ Failed(s).held = {}
<1> DEFINE f == flush(s)
<1>1. IsStream(f) /\ f.fetched = s.fetched
  BY FlushKeeps
<1>2. Failed(s) = [f EXCEPT !.phase = "failed", !.verbose = None, !.held = {}]
  BY DEF Failed
<1> HIDE DEF f
<1> QED BY <1>1, <1>2 DEF IsStream

\* One block further, or the end of the range.
LEMMA DeliveredKeeps ==
  ASSUME IsStream(stream), NEW block, NEW d, d = Delivered(block)
  PROVE  /\ IsStream(d)
         /\ d.fetched = Append(stream.fetched, block)
         /\ \/ d.phase = "done" /\ d.held = {}
            \/ /\ stream.at # stream.request.to
               /\ d.phase = "verbose" /\ d.request = stream.request /\ d.held = {node}
               /\ d.at = IF Descending THEN stream.at - 1 ELSE stream.at + 1
<1> DEFINE message == transform(stream.request, block)
           sent    == IF Ranged(stream.request) THEN push(stream, message)
                      ELSE [stream EXCEPT !.wire = <<<<message>>>>]
           link    == IF Descending THEN block.prev_hash ELSE block.hash
           next    == [sent EXCEPT !.fetched = Append(@, block), !.link = link]
           step    == IF Descending THEN stream.at - 1 ELSE stream.at + 1
<1>1. /\ IsStream(sent) /\ sent.fetched = stream.fetched /\ sent.request = stream.request
      /\ sent.at = stream.at
  <2>1. CASE Ranged(stream.request)
    BY <2>1, PushKeeps
  <2>2. CASE ~Ranged(stream.request)
    <3>1. sent = [stream EXCEPT !.wire = <<<<message>>>>]
      BY <2>2
    <3> HIDE DEF sent, message
    <3> QED BY <3>1 DEF IsStream
  <2> QED BY <2>1, <2>2
<1>2. next = [sent EXCEPT !.fetched = Append(@, block), !.link = link]
  OBVIOUS
<1>3. d = IF stream.at = stream.request.to
          THEN [flush(next) EXCEPT !.phase = "done", !.verbose = None, !.held = {}]
          ELSE [next EXCEPT !.phase = "verbose", !.verbose = None,
                            !.at = IF Descending THEN @ - 1 ELSE @ + 1, !.held = {node}]
  BY DEF Delivered
<1> HIDE DEF message, sent, link, next
<1>4. /\ IsStream(next) /\ next.fetched = Append(stream.fetched, block)
      /\ next.request = stream.request /\ next.at = stream.at
  BY <1>1, <1>2 DEF IsStream
<1>5. CASE stream.at = stream.request.to
  <2> DEFINE f == flush(next)
  <2>1. IsStream(f) /\ f.fetched = next.fetched
    BY <1>4, FlushKeeps
  <2>2. d = [f EXCEPT !.phase = "done", !.verbose = None, !.held = {}]
    BY <1>3, <1>5
  <2> HIDE DEF f
  <2> QED BY <1>4, <2>1, <2>2 DEF IsStream
<1>6. CASE stream.at # stream.request.to
  <2>1. d = [next EXCEPT !.phase = "verbose", !.verbose = None, !.at = step, !.held = {node}]
    BY <1>3, <1>4, <1>6
  <2> HIDE DEF step
  <2>2. /\ IsStream(d) /\ d.fetched = next.fetched /\ d.phase = "verbose" /\ d.request = next.request
        /\ d.held = {node} /\ d.at = step
    BY <1>4, <2>1 DEF IsStream
  <2> QED BY <1>4, <1>6, <2>2 DEF step
<1> QED BY <1>5, <1>6

\* The compact form of a block of the chains.
Parsed(block) ==
  /\ block.hash \in Block
  /\ block = [f \in {"height", "hash", "prev_hash", "vtx", "trees"} |-> block[f]]
  /\ block.vtx = [k \in DOMAIN TxsOf[block.hash] |-> to_compact_tx(k - 1, TxsOf[block.hash][k])]

\* What the checks of fetch::compact_block let through.
LEMMA CheckedBlock ==
  ASSUME NEW height, NEW verbose, NEW raw, verbose.hash \in Block,
         NEW checked, checked = checked_block(height, verbose, raw), IsOk(checked)
  PROVE  /\ checked[2].height = height
         /\ checked[2].hash = verbose.hash
         /\ checked[2].prev_hash = PrevHash[verbose.hash]
         /\ [k \in DOMAIN checked[2].vtx |-> checked[2].vtx[k].txid] = TxsOf[verbose.hash]
         /\ Parsed(checked[2])
<1> DEFINE parsed == to_compact_block(raw)
           txs    == TxsOf[raw.block]
           vtx    == [i \in DOMAIN txs |-> to_compact_tx(i - 1, txs[i])]
           whole  == [height |-> coinbase_height(Script[raw.block]), hash |-> raw.block,
                      prev_hash |-> PrevHash[raw.block], vtx |-> vtx, trees |-> [p \in Pool |-> 0]]
<1>1. \A code : ~IsOk(Err(code))
  BY DEF IsOk, Err
<1>2. IsOk(parsed)
  BY DEF checked_block
<1>3. parsed = Ok(whole)
  BY <1>1, <1>2 DEF to_compact_block
<1> HIDE DEF whole, vtx
<1>4. parsed[2] = whole
  BY <1>3 DEF Ok
<1> HIDE DEF parsed
<1>5. /\ whole.height = height /\ whole.hash = verbose.hash
      /\ checked = Ok([whole EXCEPT !.trees = verbose.trees])
  BY <1>1, <1>2, <1>4 DEF checked_block, parsed
<1>6. checked[2] = [whole EXCEPT !.trees = verbose.trees]
  BY <1>5 DEF Ok
<1>7. raw.block = verbose.hash
  BY <1>5 DEF whole
<1>8. /\ checked[2].height = whole.height /\ checked[2].hash = whole.hash
      /\ checked[2].prev_hash = whole.prev_hash /\ checked[2].vtx = whole.vtx
  BY <1>6 DEF whole
<1>9. whole.prev_hash = PrevHash[raw.block] /\ whole.vtx = vtx
  BY DEF whole
<1>10. txs \in Seq(UNION {Range(TxsOf[b]) : b \in Block})
  BY <1>7, ReadsAssumption
<1>11. txs = [k \in DOMAIN txs |-> txs[k]]
  BY <1>10
<1>12. DOMAIN vtx = DOMAIN txs /\ \A k \in DOMAIN txs : vtx[k].txid = txs[k]
  BY DEF vtx, to_compact_tx
<1>13. [k \in DOMAIN vtx |-> vtx[k].txid] = txs
  BY <1>11, <1>12
<1>14. Parsed(checked[2])
  <2>1. whole = [f \in {"height", "hash", "prev_hash", "vtx", "trees"} |-> whole[f]]
    BY DEF whole
  <2>2. PICK c : c = checked[2]
    OBVIOUS
  <2>3. c = [f \in {"height", "hash", "prev_hash", "vtx", "trees"} |-> c[f]]
    BY <1>6, <2>1, <2>2
  <2>4. c.hash = raw.block /\ c.hash \in Block /\ c.vtx = vtx
    BY <1>5, <1>7, <1>8, <1>9, <2>2
  <2> QED BY <2>2, <2>3, <2>4 DEF Parsed, vtx
<1> QED BY <1>5, <1>7, <1>8, <1>9, <1>13, <1>14

-----------------------------------------------------------------------------
(***************************************************************************)
(* Every step keeps the invariant.                                         *)
(***************************************************************************)
LEMMA HeightIsTaken ==
  ASSUME NEW at \in Nat
  PROVE  Takes("verbose", at)
BY DEF Takes, Argument, Id

\* The node's block at the height is a candidate, and what a read by the height finds.
LEMMA NodesBlock ==
  ASSUME DeliveryInv, stream.phase = "verbose"
  PROVE  BlockAt(node, stream.at) # None => BlockAt(node, stream.at) \in Candidates
<1>1. node \in Chains /\ node \in stream.held /\ stream.at \in Nat
  BY DEF DeliveryInv, ReadsInv, CallTypes, FetchInv, Fetching
<1>2. BlockAt(node, stream.at) # None => stream.at \in DOMAIN node /\ BlockAt(node, stream.at) = node[stream.at]
  BY <1>1, BlockAtHeight
<1> QED BY <1>1, <1>2 DEF Candidates

\* A fetch that begins has asked nothing yet.
LEMMA FetchBegins ==
  ASSUME ReadsInv, UNCHANGED <<node, backend>>, NEW at \in Nat, NEW request \in Requests,
         request.from > request.to => at >= request.to,
         IsStream(stream'), IsSequence(stream'.fetched), stream'.phase = "verbose",
         stream'.request = request, stream'.at = at, stream'.held = {node},
         call' = Asking("verbose", at)
  PROVE  DeliveryInv'
<1>1. Takes("verbose", at)
  BY HeightIsTaken
<1>2. ReadsInv'
  BY <1>1, AskingReads
<1>3. call'.method = "verbose" /\ call'.arg = at /\ call'.got = << >> /\ call'.answer = Unanswered
  BY FreshCall
<1>4. node \in Chains
  BY DEF ReadsInv, CallTypes
<1>5. ~IsOk(call'.answer)
  BY <1>3 DEF IsOk
<1>6. Descending' => stream'.at >= stream'.request.to
  BY DEF Descending
<1>7. FetchInv'
  BY <1>3, <1>4, <1>5, <1>6 DEF FetchInv, Fetching
<1> QED BY <1>2, <1>7 DEF DeliveryInv

\* A stream that is not fetching.
LEMMA FetchRests ==
  ASSUME IsStream(stream'), IsSequence(stream'.fetched), stream'.held = {},
         stream'.phase \notin {"verbose", "raw"}
  PROVE  FetchInv'
BY DEF FetchInv, Fetching

LEMMA NoStreamRests ==
  ASSUME NEW s, NEW phase, s = [NoStream EXCEPT !.phase = phase]
  PROVE  IsStream(s) /\ s.fetched = << >> /\ s.held = {} /\ s.phase = phase
BY DEF NoStream, IsStream

LEMMA AnsweringFetch ==
  ASSUME DeliveryInv, Answering, UNCHANGED stream
  PROVE  FetchInv'
<1>1. UNCHANGED <<node, backend>>
  BY DEF Answering, RpcCall, StateRead, StateAnswers, StateFails
<1>2. CASE stream.phase # "verbose"
  BY <1>1, <1>2 DEF DeliveryInv, FetchInv, Fetching, Descending, Candidates
<1>3. CASE stream.phase = "verbose"
  <2>1. /\ call.method = "verbose" /\ call.arg = stream.at /\ stream.at \in Nat /\ node \in Chains
        /\ IsCall(call) /\ IsSequence(call.got)
        /\ call.got # << >> => call.got[1] \in Candidates
    BY <1>3 DEF DeliveryInv, ReadsInv, CallTypes, FetchInv, Fetching
  <2>2. InFlight
    BY DEF Answering, RpcCall, StateRead, StateAnswers, StateFails
  <2>3. Candidates' = Candidates
    BY DEF Candidates
  <2>4. SUFFICES /\ call'.method = "verbose" /\ call'.arg = stream.at
                 /\ call'.got # << >> => call'.got[1] \in Candidates
                 /\ IsOk(call'.answer) => call'.answer[2].hash \in Candidates
    BY <1>1, <1>3, <2>3 DEF DeliveryInv, FetchInv, Fetching, Descending
  <2> DEFINE b == BlockAt(node, stream.at)
  <2>5. b # None => b \in Candidates
    BY <1>3, NodesBlock
  <2>6. ASSUME NEW answer, call' = [call EXCEPT !.answer = answer],
               IsOk(answer) => answer[2].hash \in Candidates
        PROVE  /\ call'.method = "verbose" /\ call'.arg = stream.at
               /\ call'.got # << >> => call'.got[1] \in Candidates
               /\ IsOk(call'.answer) => call'.answer[2].hash \in Candidates
    <3>1. call'.method = call.method /\ call'.arg = call.arg /\ call'.got = call.got /\ call'.answer = answer
      BY <2>1, <2>6 DEF IsCall
    <3> QED BY <2>1, <2>6, <3>1
  <2>7. CASE RpcCall
    <3>1. PICK answer \in RpcAnswers(node, call.method, call.arg) : call' = [call EXCEPT !.answer = answer]
      BY <2>7 DEF RpcCall
    <3>2. answer \in {NoAnswer, NodeAnswer(node, "verbose", stream.at)}
      BY <2>1, RpcAgrees, HeightIsTaken
    <3>3. NodeAnswer(node, "verbose", stream.at) =
            IF b = None THEN NotFound ELSE Ok([hash |-> b, tx |-> TxsOf[b], trees |-> SizesAt(b)])
      BY DEF NodeAnswer
    <3>4. ~IsOk(NoAnswer) /\ ~IsOk(NotFound)
      BY DEF IsOk, NoAnswer, NotFound, Err
    <3>5. IsOk(answer) => answer[2].hash \in Candidates
      <4> SUFFICES ASSUME IsOk(answer) PROVE answer[2].hash \in Candidates
        OBVIOUS
      <4>1. b # None /\ answer = Ok([hash |-> b, tx |-> TxsOf[b], trees |-> SizesAt(b)])
        BY <3>2, <3>3, <3>4
      <4> HIDE DEF b
      <4>2. answer[2].hash = b
        BY <4>1 DEF Ok
      <4> QED BY <2>5, <4>1, <4>2
    <3> QED BY <2>6, <3>1, <3>5
  <2>8. CASE StateFails
    <3>1. call' = [call EXCEPT !.answer = NoAnswer]
      BY <2>8 DEF StateFails
    <3>2. ~IsOk(NoAnswer)
      BY DEF IsOk, NoAnswer, Err
    <3> QED BY <2>6, <3>1, <3>2
  <2>9. CASE StateAnswers
    <3>1. call' = [call EXCEPT !.answer = Assembled(node, call)]
      BY <2>9 DEF StateAnswers
    <3>2. Assembled(node, call) =
            Ok([hash |-> call.got[1], tx |-> call.got[2], trees |-> tree_sizes(call.got)])
      BY <2>1 DEF Assembled
    <3>3. Assembled(node, call)[2].hash = call.got[1]
      BY <3>2 DEF Ok
    <3>4. call.got # << >>
      <4>1. Len(call.got) \in Nat /\ Len(ReadsOf(call.method, call.arg)) = 5
        BY <2>1, VerboseReads DEF IsSequence
      <4>2. ReadsLeft = 0
        BY <2>9 DEF StateAnswers
      <4>3. Len(call.got) = 5
        BY <4>1, <4>2 DEF ReadsLeft
      <4> QED BY <4>3, EmptyIsSequence
    <3> QED BY <2>1, <2>6, <3>1, <3>3, <3>4
  <2>10. CASE StateRead
    <3> DEFINE read == Read(node, call)
    <3>1. CASE ~IsOk(read)
      <4>1. call' = [call EXCEPT !.answer = read]
        BY <2>10, <3>1 DEF StateRead
      <4> HIDE DEF read
      <4> QED BY <2>6, <3>1, <4>1
    <3>2. CASE IsOk(read)
      <4>1. call' = [call EXCEPT !.got = Append(@, read[2])]
        BY <2>10, <3>2 DEF StateRead
      <4>2. /\ call'.method = call.method /\ call'.arg = call.arg /\ call'.answer = Unanswered
            /\ call'.got = Append(call.got, read[2])
        BY <2>1, <2>2, <4>1 DEF IsCall, InFlight
      <4>3. ~IsOk(call'.answer)
        BY <4>2 DEF IsOk
      <4>4. call'.got[1] \in Candidates
        <5>1. CASE call.got = << >>
          <6>1. Len(call.got) = 0
            BY <5>1, EmptyIsSequence
          <6>2. ReadsOf(call.method, call.arg)[Len(call.got) + 1] = "block"
            BY <2>1, <6>1, VerboseReads
          <6>3. BlockAt(node, Key(stream.at)) = b
            BY <2>1, KeyFinds DEF Id
          <6>4. read = IF b = None THEN NotFound ELSE Ok(b)
            BY <2>1, <6>2, <6>3 DEF Read, Pool
          <6>5. b # None /\ read[2] = b
            BY <3>2, <6>4 DEF IsOk, NotFound, Err, Ok
          <6> HIDE DEF read, b
          <6>6. call'.got[1] = read[2]
            BY <4>2, <5>1
          <6> QED BY <2>5, <6>5, <6>6
        <5>2. CASE call.got # << >>
          <6> HIDE DEF read
          <6>1. Len(call.got) >= 1
            BY <2>1, <5>2 DEF IsSequence
          <6>2. \A k \in 1 .. Len(call.got) : Append(call.got, read[2])[k] = call.got[k]
            BY <2>1, AppendIsSequence
          <6>3. call'.got[1] = call.got[1]
            BY <2>1, <4>2, <6>1, <6>2, AppendIsSequence
          <6> QED BY <2>1, <5>2, <6>3
        <5> QED BY <5>1, <5>2
      <4> QED BY <2>1, <4>2, <4>3, <4>4
    <3> QED BY <3>1, <3>2
  <2> QED BY <2>7, <2>8, <2>9, <2>10 DEF Answering
<1> QED BY <1>2, <1>3

LEMMA MovesKeep ==
  ASSUME DeliveryInv, Moves
  PROVE  DeliveryInv'
<1>1. PICK chain \in Chains :
        /\ NodeMoves(chain)
        /\ stream' = IF Idle THEN stream ELSE [stream EXCEPT !.held = @ \cup {chain}]
  BY DEF Moves
<1>2. ReadsInv'
  BY <1>1, MovesReads DEF DeliveryInv
<1>3. node' = chain
  BY <1>1 DEF NodeMoves
<1>4. /\ call'.method = call.method /\ call'.arg = call.arg /\ call'.got = call.got
      /\ call'.answer = call.answer
  BY <1>1 DEF NodeMoves, DeliveryInv, ReadsInv, CallTypes, IsCall
<1>5. CASE Fetching
  <2>1. ~Idle
    BY <1>5 DEF Idle, Fetching
  <2>2. stream' = [stream EXCEPT !.held = @ \cup {chain}]
    BY <1>1, <2>1
  <2>3. /\ IsStream(stream') /\ stream'.phase = stream.phase /\ stream'.request = stream.request
        /\ stream'.at = stream.at /\ stream'.verbose = stream.verbose
        /\ stream'.fetched = stream.fetched /\ stream'.held = stream.held \cup {chain}
    BY <2>2 DEF DeliveryInv, FetchInv, IsStream
  <2>4. Candidates \subseteq Candidates'
    BY <2>3 DEF Candidates
  <2>5. FetchInv'
    BY <1>3, <1>4, <2>3, <2>4 DEF DeliveryInv, FetchInv, Fetching, Descending
  <2> QED BY <1>2, <2>5 DEF DeliveryInv
<1>6. CASE ~Fetching
  <2>1. /\ IsStream(stream') /\ stream'.phase = stream.phase /\ stream'.fetched = stream.fetched
        /\ stream'.held \subseteq Chains
    BY <1>1 DEF DeliveryInv, FetchInv, IsStream
  <2>2. FetchInv'
    BY <1>6, <2>1 DEF DeliveryInv, FetchInv, Fetching
  <2> QED BY <1>2, <2>2 DEF DeliveryInv
<1> QED BY <1>5, <1>6

LEMMA AcceptKeeps ==
  ASSUME DeliveryInv, NEW request \in Requests, Accept(request)
  PROVE  DeliveryInv'
<1>1. UNCHANGED <<node, backend>> /\ ReadsInv
  BY DEF Accept, DeliveryInv
<1>2. CASE Admitted(request)
  <2>1. /\ stream' = [NoStream EXCEPT !.phase = "verbose", !.request = request, !.at = request.from,
                                      !.held = {node}]
        /\ call' = Asking("verbose", request.from)
    BY <1>2 DEF Accept
  <2>2. /\ IsStream(stream') /\ stream'.phase = "verbose" /\ stream'.request = request
        /\ stream'.at = request.from /\ stream'.held = {node} /\ stream'.fetched = << >>
    BY <2>1 DEF NoStream, IsStream
  <2>3. request.from \in Nat /\ request.to \in Nat
    BY DeliveryAssumption
  <2>4. request.from > request.to => request.from >= request.to
    BY <2>3
  <2> QED BY <1>1, <2>1, <2>2, <2>3, <2>4, FetchBegins, EmptyIsSequence
<1>3. CASE ~Admitted(request)
  <2>1. stream' = [NoStream EXCEPT !.phase = "refused"] /\ call' = NoCall
    BY <1>3 DEF Accept
  <2>2. ReadsInv'
    BY <1>1, <2>1, NoCallReads
  <2>3. IsStream(stream') /\ stream'.fetched = << >> /\ stream'.held = {} /\ stream'.phase = "refused"
    BY <2>1, NoStreamRests
  <2>4. FetchInv'
    BY <2>3, FetchRests, EmptyIsSequence
  <2> QED BY <2>2, <2>4 DEF DeliveryInv
<1> QED BY <1>2, <1>3

LEMMA AskNodeKeeps ==
  ASSUME DeliveryInv, NEW c \in Calls, AskNode(c)
  PROVE  DeliveryInv'
<1> DEFINE bounded == get_subtree_roots(c[2][1], c[2][2], c[2][3])
           arg     == IF c[1] = "subtrees" THEN bounded ELSE c[2]
<1>1. UNCHANGED <<node, backend>> /\ ReadsInv
  BY DEF AskNode, DeliveryInv
<1>2. \/ call' = NoCall /\ stream' = [NoStream EXCEPT !.phase = "refused"]
      \/ call' = Asking(c[1], arg) /\ stream' = NoStream /\ (c[1] = "subtrees" => bounded # None)
  BY DEF AskNode
<1>3. ASSUME c[1] = "subtrees" => bounded # None PROVE Takes(c[1], arg)
  <2>1. CASE c[1] # "subtrees"
    BY <2>1, CallsAssumption
  <2>2. CASE c[1] = "subtrees"
    <3>1. PICK pool, start, max : /\ c[2][1] = pool /\ c[2][2] = start /\ c[2][3] = max
                                  /\ start \in Nat /\ max \in Nat
      <4>1. c[2] \in STRING \X Nat \X Nat
        BY <2>2, CallsAssumption
      <4> QED BY <4>1
    <3>2. /\ pool \in Pool /\ ~(start > MAX_SUBTREE_INDEX)
          /\ bounded = <<pool, start, IF max > MAX_SUBTREE_INDEX THEN 0 ELSE max>>
      BY <1>3, <2>2, <3>1 DEF get_subtree_roots
    <3>3. MAX_SUBTREE_INDEX \in Nat
      BY SubtreesAssumption DEF MAX_SUBTREE_INDEX
    <3>4. /\ start \in 0 .. MAX_SUBTREE_INDEX
          /\ (IF max > MAX_SUBTREE_INDEX THEN 0 ELSE max) \in 0 .. MAX_SUBTREE_INDEX
      BY <3>1, <3>2, <3>3
    <3>5. bounded \in Pool \X (0 .. MAX_SUBTREE_INDEX) \X (0 .. MAX_SUBTREE_INDEX)
      BY <3>2, <3>4
    <3> QED BY <2>2, <3>5 DEF Takes, Argument
  <2> QED BY <2>1, <2>2
<1> HIDE DEF bounded, arg
<1>4. ReadsInv'
  BY <1>1, <1>2, <1>3, AskingReads, NoCallReads
<1>5. IsStream(stream') /\ stream'.fetched = << >> /\ stream'.held = {}
      /\ stream'.phase \in {"idle", "refused"}
  BY <1>2 DEF NoStream, IsStream
<1>6. FetchInv'
  BY <1>5, FetchRests, EmptyIsSequence
<1> QED BY <1>4, <1>6 DEF DeliveryInv

LEMMA CandidatesAreBlocks ==
  ASSUME DeliveryInv
  PROVE  Candidates \subseteq Block
BY ChainsAssumption DEF DeliveryInv, FetchInv, Candidates

LEMMA GotVerboseKeeps ==
  ASSUME DeliveryInv, GotVerbose
  PROVE  DeliveryInv'
<1>1. /\ UNCHANGED <<node, backend>> /\ ReadsInv /\ stream.phase = "verbose" /\ IsOk(call.answer)
      /\ stream' = [stream EXCEPT !.phase = "raw", !.verbose = call.answer[2]]
      /\ call' = Asking("raw", call.answer[2].hash)
  BY DEF GotVerbose, Answered, DeliveryInv
<1>2. PICK hash : hash = call.answer[2].hash
  OBVIOUS
<1>3. hash \in Candidates
  BY <1>1, <1>2 DEF DeliveryInv, FetchInv
<1>4. Takes("raw", hash)
  BY <1>3, CandidatesAreBlocks DEF Takes, Argument, Id
<1>5. ReadsInv'
  BY <1>1, <1>2, <1>4, AskingReads
<1>6. /\ IsStream(stream') /\ stream'.phase = "raw" /\ stream'.verbose = call.answer[2]
      /\ stream'.request = stream.request /\ stream'.at = stream.at /\ stream'.held = stream.held
      /\ stream'.fetched = stream.fetched
  BY <1>1 DEF DeliveryInv, FetchInv, IsStream
<1>7. Candidates' = Candidates
  BY <1>6 DEF Candidates
<1>8. FetchInv'
  BY <1>1, <1>2, <1>3, <1>6, <1>7 DEF DeliveryInv, FetchInv, Fetching, Descending
<1> QED BY <1>5, <1>8 DEF DeliveryInv

LEMMA FailKeeps ==
  ASSUME DeliveryInv, Fail
  PROVE  DeliveryInv' /\ stream'.fetched = stream.fetched
<1>1. UNCHANGED <<node, backend>> /\ ReadsInv /\ call' = NoCall /\ stream' = Failed(stream)
  BY DEF Fail, DeliveryInv
<1>2. ReadsInv'
  BY <1>1, NoCallReads
<1>3. IsStream(stream) /\ IsSequence(stream.fetched)
  BY DEF DeliveryInv, FetchInv
<1>4. /\ IsStream(stream') /\ stream'.fetched = stream.fetched /\ stream'.phase = "failed"
      /\ stream'.held = {}
  BY <1>1, <1>3, FailedKeeps
<1>5. FetchInv'
  BY <1>3, <1>4, FetchRests
<1> QED BY <1>2, <1>4, <1>5 DEF DeliveryInv

LEMMA GotRawKeeps ==
  ASSUME DeliveryInv, NEW raw, GotRaw(raw)
  PROVE  DeliveryInv'
<1> DEFINE checked == checked_block(stream.at, stream.verbose, raw)
<1>1. CASE ~(IsOk(checked) /\ Connects(checked[2]))
  BY <1>1, FailKeeps DEF GotRaw
<1>2. CASE IsOk(checked) /\ Connects(checked[2])
  <2>1. /\ stream.phase = "raw" /\ UNCHANGED <<node, backend>>
        /\ stream' = Delivered(checked[2])
        /\ call' = IF stream'.phase = "done" THEN NoCall ELSE Asking("verbose", stream'.at)
    BY <1>2 DEF GotRaw, Answered
  <2>2. PICK block : block = checked[2]
    OBVIOUS
  <2> HIDE DEF checked
  <2>3. /\ IsStream(stream) /\ IsSequence(stream.fetched) /\ stream.request \in Requests
        /\ stream.at \in Nat /\ (Descending => stream.at >= stream.request.to) /\ ReadsInv
    BY <2>1 DEF DeliveryInv, FetchInv, Fetching
  <2>4. /\ IsStream(stream')
        /\ stream'.fetched = Append(stream.fetched, block)
        /\ \/ stream'.phase = "done" /\ stream'.held = {}
           \/ /\ stream.at # stream.request.to
              /\ stream'.phase = "verbose" /\ stream'.request = stream.request /\ stream'.held = {node}
              /\ stream'.at = IF Descending THEN stream.at - 1 ELSE stream.at + 1
    BY <2>1, <2>2, <2>3, DeliveredKeeps
  <2>5. IsSequence(stream'.fetched)
    BY <2>3, <2>4, AppendIsSequence
  <2>6. CASE stream'.phase = "done"
    <3>1. call' = NoCall /\ stream'.held = {}
      BY <2>1, <2>4, <2>6
    <3>2. ReadsInv'
      BY <2>1, <2>3, <3>1, NoCallReads
    <3>3. FetchInv'
      BY <2>4, <2>5, <2>6, <3>1, FetchRests
    <3> QED BY <3>2, <3>3 DEF DeliveryInv
  <2>7. CASE stream'.phase # "done"
    <3>1. /\ stream.at # stream.request.to
          /\ stream'.phase = "verbose" /\ stream'.request = stream.request /\ stream'.held = {node}
          /\ stream'.at = IF Descending THEN stream.at - 1 ELSE stream.at + 1
      BY <2>4, <2>7
    <3>2. call' = Asking("verbose", stream'.at)
      BY <2>1, <2>7
    <3>3. PICK at : at = stream'.at
      OBVIOUS
    <3>4. PICK request \in Requests : request = stream.request
      BY <2>3
    <3>5. request.from \in Nat /\ request.to \in Nat
      BY DeliveryAssumption
    <3>6. at \in Nat /\ (request.from > request.to => at >= request.to)
      <4>1. Descending <=> request.from > request.to
        BY <3>4 DEF Descending
      <4> QED BY <2>3, <3>1, <3>3, <3>4, <3>5, <4>1
    <3> QED BY <2>1, <2>3, <2>4, <2>5, <3>1, <3>2, <3>3, <3>4, <3>6, FetchBegins
  <2> QED BY <2>6, <2>7
<1> QED BY <1>1, <1>2

\* Accepted blocks, step by step.
LEMMA FetchedStep ==
  ASSUME DeliveryInv, [DeliveryNext]_deliveryVars, Len(stream'.fetched) > Len(stream.fetched)
  PROVE  LET got == Last(stream'.fetched)
         IN  /\ got.height = stream.at
             /\ \E c \in stream.held : stream.at \in DOMAIN c /\ c[stream.at] = got.hash
             /\ got.prev_hash = PrevHash[got.hash]
             /\ [k \in DOMAIN got.vtx |-> got.vtx[k].txid] = TxsOf[got.hash]
<1>1. IsStream(stream) /\ IsSequence(stream.fetched) /\ Len(stream.fetched) \in Nat
  BY DEF DeliveryInv, FetchInv, IsSequence
<1>2. stream'.fetched # stream.fetched /\ stream'.fetched # << >>
  BY <1>1, EmptyIsSequence
<1>3. PICK raw : GotRaw(raw)
  <2>1. CASE Moves
    BY <1>1, <1>2, <2>1 DEF Moves, IsStream
  <2>2. CASE Answering /\ UNCHANGED stream
    BY <1>2, <2>2
  <2>3. CASE \E request \in Requests : Accept(request)
    BY <1>2, <2>3 DEF Accept, NoStream
  <2>4. CASE \E c \in Calls : AskNode(c)
    BY <1>2, <2>4 DEF AskNode, NoStream
  <2>5. CASE GotVerbose
    BY <1>1, <1>2, <2>5 DEF GotVerbose, IsStream
  <2>6. CASE CallFails
    BY <1>2, <2>6, FailKeeps DEF CallFails
  <2>7. CASE UNCHANGED deliveryVars
    BY <1>2, <2>7 DEF deliveryVars
  <2> QED BY <2>1, <2>2, <2>3, <2>4, <2>5, <2>6, <2>7 DEF DeliveryNext
<1> DEFINE checked == checked_block(stream.at, stream.verbose, raw)
<1>4. CASE ~(IsOk(checked) /\ Connects(checked[2]))
  BY <1>2, <1>3, <1>4, FailKeeps DEF GotRaw
<1>5. CASE IsOk(checked) /\ Connects(checked[2])
  <2>1. stream.phase = "raw" /\ stream' = Delivered(checked[2])
    BY <1>3, <1>5 DEF GotRaw, Answered
  <2>2. PICK block : block = checked[2]
    OBVIOUS
  <2>3. stream.verbose.hash \in Candidates
    BY <2>1 DEF DeliveryInv, FetchInv
  <2>4. /\ block.height = stream.at /\ block.hash = stream.verbose.hash
        /\ block.prev_hash = PrevHash[stream.verbose.hash]
        /\ [k \in DOMAIN block.vtx |-> block.vtx[k].txid] = TxsOf[stream.verbose.hash]
    BY <1>5, <2>2, <2>3, CandidatesAreBlocks, CheckedBlock
  <2> HIDE DEF checked
  <2>5. stream'.fetched = Append(stream.fetched, block)
    BY <1>1, <2>1, <2>2, DeliveredKeeps
  <2>6. Last(stream'.fetched) = block
    BY <1>1, <2>5, AppendIsSequence DEF Last
  <2>7. \E c \in stream.held : stream.at \in DOMAIN c /\ c[stream.at] = block.hash
    BY <2>3, <2>4 DEF Candidates
  <2> QED BY <2>4, <2>6, <2>7
<1> QED BY <1>4, <1>5

-----------------------------------------------------------------------------
(***************************************************************************)
(* The invariant holds throughout: every call stands where its reads left  *)
(* it, and every fetch holds a block of a chain the node was on since.     *)
(***************************************************************************)
THEOREM DeliveryConsistent == DeliverySpec => []DeliveryInv
<1>1. DeliveryInit => DeliveryInv
  <2> SUFFICES ASSUME DeliveryInit PROVE DeliveryInv
    OBVIOUS
  <2>1. /\ node \in Chains /\ backend \in {"rpc", "readstate"} /\ call = NoCall /\ stream = NoStream
    BY DEF DeliveryInit, ReadsInit
  <2>2. /\ IsCall(call) /\ call.method = "none" /\ call.got = << >> /\ call.answer = Unanswered
        /\ call.moved \in BOOLEAN
    BY <2>1 DEF NoCall, IsCall
  <2>3. ReadsInv
    BY <2>1, <2>2, EmptyIsSequence DEF ReadsInv, CallTypes, Gathered, BackendsAgree, InFlight
  <2>4. IsStream(stream) /\ stream.fetched = << >> /\ stream.held = {} /\ stream.phase = "idle"
    BY <2>1 DEF NoStream, IsStream
  <2>5. FetchInv
    BY <2>4, EmptyIsSequence DEF FetchInv, Fetching
  <2> QED BY <2>3, <2>5 DEF DeliveryInv
<1>2. DeliveryInv /\ [DeliveryNext]_deliveryVars => DeliveryInv'
  <2> SUFFICES ASSUME DeliveryInv, [DeliveryNext]_deliveryVars PROVE DeliveryInv'
    OBVIOUS
  <2>1. CASE Moves
    BY <2>1, MovesKeep
  <2>2. CASE Answering /\ UNCHANGED stream
    BY <2>2, AnsweringReads, AnsweringFetch DEF DeliveryInv
  <2>3. CASE \E request \in Requests : Accept(request)
    BY <2>3, AcceptKeeps
  <2>4. CASE \E c \in Calls : AskNode(c)
    BY <2>4, AskNodeKeeps
  <2>5. CASE GotVerbose
    BY <2>5, GotVerboseKeeps
  <2>6. CASE CallFails
    BY <2>6, FailKeeps DEF CallFails
  <2>7. CASE \E raw \in [block : Block, form : {"whole"}] \cup BadRaw : GotRaw(raw)
    BY <2>7, GotRawKeeps
  <2>8. CASE UNCHANGED deliveryVars
    BY <2>8 DEF deliveryVars, readVars, DeliveryInv, ReadsInv, CallTypes, Gathered, BackendsAgree,
                InFlight, FetchInv, Fetching, Descending, Candidates
  <2> QED BY <2>1, <2>2, <2>3, <2>4, <2>5, <2>6, <2>7, <2>8 DEF DeliveryNext
<1> QED BY <1>1, <1>2, PTL DEF DeliverySpec

(***************************************************************************)
(* node/readstate.rs against node/mod.rs: while the best chain stands      *)
(* still, a call of the trait has one answer, whichever backend gives it,  *)
(* for heights of any size, the subtree arguments get_subtree_roots lets   *)
(* through, and batches answered in any order, with repeated and stray     *)
(* replies.                                                                *)
(***************************************************************************)
THEOREM BackendsAnswerAlike == DeliverySpec => []BackendsAgree
<1>1. DeliveryInv => BackendsAgree
  BY DEF DeliveryInv, ReadsInv
<1> QED BY <1>1, DeliveryConsistent, PTL

(***************************************************************************)
(* fetch.rs: an accepted block was the node's at that height at a moment   *)
(* of the fetch, with its own header and txids, however the chain moved    *)
(* between the reads and whatever bytes came back.                         *)
(***************************************************************************)
THEOREM FetchesAreTheNodes == DeliverySpec => FetchedIsTheNodes
<1>1. DeliveryInv /\ [DeliveryNext]_deliveryVars =>
        [Len(stream'.fetched) > Len(stream.fetched) =>
           LET got == Last(stream'.fetched)
           IN  /\ got.height = stream.at
               /\ \E c \in stream.held : stream.at \in DOMAIN c /\ c[stream.at] = got.hash
               /\ got.prev_hash = PrevHash[got.hash]
               /\ [k \in DOMAIN got.vtx |-> got.vtx[k].txid] = TxsOf[got.hash]]_deliveryVars
  BY FetchedStep
<1> QED BY <1>1, DeliveryConsistent, PTL DEF DeliverySpec, FetchedIsTheNodes

-----------------------------------------------------------------------------
(***************************************************************************)
(* What a wallet is sent.  A second invariant follows the batch: the       *)
(* frames and what is held back are, in order, what became of the blocks   *)
(* fetched.                                                                *)
(***************************************************************************)
Batched(wire, pending, bytes, messages) ==
  /\ \E S : wire \in Seq(Seq(S)) /\ pending \in Seq(S)
  /\ messages = FlattenSeq(wire) \o pending
  /\ bytes = FrameBytes(pending)

WorthSending(wire, n) == \A f \in 1 .. n : FrameBytes(wire[f]) >= BatchBytes

Messages(s) == [i \in DOMAIN s.fetched |-> transform(s.request, s.fetched[i])]

Ended(s) == s.phase \in {"done", "failed"}

Sends(s) ==
  s.request # None /\ Ranged(s.request) =>
    /\ s.request \in Requests
    /\ Batched(s.wire, s.pending, s.bytes, Messages(s))
    /\ WorthSending(s.wire, Len(s.wire) - IF Ended(s) THEN 1 ELSE 0)
    /\ Ended(s) => s.pending = << >>
    /\ \A i \in DOMAIN s.fetched : Parsed(s.fetched[i])

Joins(sent, frame) == sent \o frame

JoinFold == INSTANCE FoldFacts WITH Op <- Joins

\* FlattenSeq is the fold of the frames.
LEMMA FlattenIsFolded ==
  ASSUME NEW S, NEW seqs \in Seq(Seq(S))
  PROVE  FlattenSeq(seqs) = JoinFold!Folded(<< >>, seqs)
<1> DEFINE m == Len(seqs)
           step(g, i) == IF i = 1 THEN seqs[i] ELSE g[i - 1] \o seqs[i]
           Flattens(g) == g = [i \in 1 .. m |-> step(g, i)]
<1>1. m \in Nat /\ DOMAIN seqs = 1 .. m /\ \A i \in 1 .. m : seqs[i] \in Seq(S)
  BY LenProperties, ElementOfSeq
<1>2. FlattenSeq(seqs) = IF m = 0 THEN seqs ELSE (CHOOSE g : Flattens(g))[m]
  BY DEF FlattenSeq
<1>3. m = 0 => seqs = << >>
  BY EmptySeq
<1> HIDE DEF m
<1>4. PICK run : JoinFold!Run(run, << >>, seqs, m) /\ run[m] = JoinFold!Folded(<< >>, seqs)
  BY <1>1, JoinFold!FoldRuns
<1>5. run[0] = << >> /\ \A i \in 1 .. m : run[i] = run[i - 1] \o seqs[i]
  BY <1>4 DEF JoinFold!Run, Joins
<1>6. 1 \in 1 .. m => run[1] = seqs[1]
  <2> SUFFICES ASSUME 1 \in 1 .. m PROVE run[1] = seqs[1]
    OBVIOUS
  <2>1. run[1] = run[1 - 1] \o seqs[1] /\ 1 - 1 = 0 /\ seqs[1] \in Seq(S)
    BY <1>1, <1>5
  <2>2. run[1] = << >> \o seqs[1]
    BY <1>5, <2>1
  <2> QED BY <2>1, <2>2, ConcatEmptySeq
<1>7. \E g : Flattens(g)
  <2> DEFINE g == [i \in 1 .. m |-> run[i]]
  <2>1. ASSUME NEW i \in 1 .. m PROVE run[i] = step(g, i)
    <3>1. CASE i = 1
      BY <1>6, <3>1
    <3>2. CASE i # 1
      <4>1. i - 1 \in 1 .. m
        BY <1>1, <3>2
      <4>2. g[i - 1] = run[i - 1]
        BY <4>1
      <4> HIDE DEF g
      <4> QED BY <1>5, <3>2, <4>2
    <3> QED BY <3>1, <3>2
  <2>2. g = [i \in 1 .. m |-> step(g, i)]
    <3>1. [i \in 1 .. m |-> run[i]] = [i \in 1 .. m |-> step(g, i)]
      <4> HIDE DEF step
      <4> QED BY <2>1
    <3> QED BY <3>1
  <2> HIDE DEF g
  <2> QED BY <2>2
<1> DEFINE flat == CHOOSE g : Flattens(g)
<1>8. Flattens(flat)
  BY <1>7
<1> HIDE DEF flat
<1>9. \A i \in 1 .. m : flat[i] = step(flat, i)
  BY <1>8
<1> DEFINE I == {i \in Nat : i \in 1 .. m => flat[i] = run[i]}
<1>10. 0 \in I
  OBVIOUS
<1>11. ASSUME NEW i \in Nat, i \in I PROVE i + 1 \in I
  <2> SUFFICES ASSUME i + 1 \in 1 .. m PROVE flat[i + 1] = run[i + 1]
    OBVIOUS
  <2>1. CASE i = 0
    <3>1. i + 1 = 1
      BY <2>1
    <3> QED BY <1>6, <1>9, <3>1
  <2>2. CASE i # 0
    <3>1. i + 1 # 1 /\ (i + 1) - 1 = i /\ i \in 1 .. m
      BY <1>1, <2>2
    <3>2. flat[i] = run[i]
      BY <1>11, <3>1
    <3>3. flat[i + 1] = flat[i] \o seqs[i + 1]
      BY <1>9, <3>1
    <3>4. run[i + 1] = run[i] \o seqs[i + 1]
      BY <1>5, <3>1
    <3> QED BY <3>2, <3>3, <3>4
  <2> QED BY <2>1, <2>2
<1>12. m \in I
  <2> HIDE DEF I
  <2> QED BY <1>1, <1>10, <1>11, JoinFold!SetInduction
<1>13. CASE m = 0
  BY <1>2, <1>3, <1>4, <1>5, <1>13
<1>14. CASE m # 0
  <2>1. flat[m] = run[m]
    BY <1>1, <1>12, <1>14
  <2>2. FlattenSeq(seqs) = flat[m]
    BY <1>2, <1>14 DEF flat
  <2> QED BY <1>4, <2>1, <2>2
<1> QED BY <1>13, <1>14

\* One frame more comes after all the others.
LEMMA FlattenGrows ==
  ASSUME NEW S, NEW seqs \in Seq(Seq(S)), NEW frame \in Seq(S)
  PROVE  FlattenSeq(Append(seqs, frame)) = FlattenSeq(seqs) \o frame
<1> DEFINE m == Len(seqs)  longer == Append(seqs, frame)
<1>1. m \in Nat /\ DOMAIN seqs = 1 .. m
  BY LenProperties
<1>2. longer \in Seq(Seq(S)) /\ Len(longer) = m + 1 /\ longer[m + 1] = frame
      /\ \A i \in 1 .. m : longer[i] = seqs[i]
  BY AppendProperties
<1>3. DOMAIN longer = 1 .. m + 1
  BY <1>2, LenProperties
<1> HIDE DEF m, longer
<1>4. JoinFold!Folded(<< >>, longer) = Joins(JoinFold!Folded(<< >>, seqs), frame)
  BY <1>1, <1>2, <1>3, JoinFold!FoldSteps
<1> QED BY <1>2, <1>4, FlattenIsFolded DEF Joins, longer

LEMMA FlattenIsSequence ==
  ASSUME NEW S, NEW seqs \in Seq(Seq(S))
  PROVE  FlattenSeq(seqs) \in Seq(S)
<1> DEFINE m == Len(seqs)
<1>1. m \in Nat /\ DOMAIN seqs = 1 .. m /\ \A i \in 1 .. m : seqs[i] \in Seq(S)
  BY LenProperties, ElementOfSeq
<1> HIDE DEF m
<1>2. PICK run : JoinFold!Run(run, << >>, seqs, m) /\ run[m] = JoinFold!Folded(<< >>, seqs)
  BY <1>1, JoinFold!FoldRuns
<1> DEFINE I == {i \in Nat : i <= m => run[i] \in Seq(S)}
<1>3. 0 \in I
  BY <1>2, EmptySeq DEF JoinFold!Run
<1>4. ASSUME NEW i \in Nat, i \in I PROVE i + 1 \in I
  <2> SUFFICES ASSUME i + 1 <= m PROVE run[i + 1] \in Seq(S)
    OBVIOUS
  <2>1. i + 1 \in 1 .. m /\ (i + 1) - 1 = i /\ run[i] \in Seq(S)
    BY <1>1, <1>4
  <2>2. run[i + 1] = run[i] \o seqs[i + 1]
    BY <1>2, <2>1 DEF JoinFold!Run, Joins
  <2> QED BY <1>1, <2>1, <2>2, ConcatProperties
<1>5. m \in I
  <2> HIDE DEF I
  <2> QED BY <1>1, <1>3, <1>4, JoinFold!SetInduction
<1> QED BY <1>1, <1>2, <1>5, FlattenIsFolded

Counts(n, message) == n + encoded_len(message)

CountFold == INSTANCE FoldFacts WITH Op <- Counts

LEMMA FrameIsFolded ==
  ASSUME NEW frame
  PROVE  FrameBytes(frame) = CountFold!Folded(0, frame)
BY DEF FrameBytes, Counts, FoldLeft, MapThenFoldSet, Max,
       CountFold!Folded, CountFold!Iterates, CountFold!Greatest

LEMMA FrameGrows ==
  /\ FrameBytes(<< >>) = 0
  /\ \A S : \A frame \in Seq(S) : \A message \in S :
       FrameBytes(Append(frame, message)) = FrameBytes(frame) + encoded_len(message)
<1>1. FrameBytes(<< >>) = 0
  <2>1. DOMAIN << >> = 1 .. 0 /\ 0 \in Nat
    OBVIOUS
  <2> QED BY <2>1, FrameIsFolded, CountFold!FoldSteps
<1>2. ASSUME NEW S, NEW frame \in Seq(S), NEW message \in S
      PROVE  FrameBytes(Append(frame, message)) = FrameBytes(frame) + encoded_len(message)
  <2> DEFINE m == Len(frame)  longer == Append(frame, message)
  <2>1. m \in Nat /\ DOMAIN frame = 1 .. m
    BY LenProperties
  <2>2. longer \in Seq(S) /\ Len(longer) = m + 1 /\ longer[m + 1] = message
        /\ \A i \in 1 .. m : longer[i] = frame[i]
    BY AppendProperties
  <2>3. DOMAIN longer = 1 .. m + 1
    BY <2>2, LenProperties
  <2> HIDE DEF m, longer
  <2>4. CountFold!Folded(0, longer) = Counts(CountFold!Folded(0, frame), message)
    BY <2>1, <2>2, <2>3, CountFold!FoldSteps
  <2> QED BY <2>4, FrameIsFolded DEF Counts, longer
<1> QED BY <1>1, <1>2

LEMMA SeqGrows ==
  ASSUME NEW S, NEW T, S \subseteq T, NEW s \in Seq(S)
  PROVE  s \in Seq(T)
<1>1. Len(s) \in Nat /\ s \in [1 .. Len(s) -> S]
  BY LenProperties
<1>2. s \in [1 .. Len(s) -> T]
  BY <1>1
<1> QED BY <1>1, <1>2, SeqDef

LEMMA AppendAfterConcat ==
  ASSUME NEW S, NEW s \in Seq(S), NEW t \in Seq(S), NEW x \in S
  PROVE  s \o Append(t, x) = Append(s \o t, x)
<1>1. Append(t, x) = t \o <<x>> /\ <<x>> \in Seq(S)
  BY AppendIsConcat
<1>2. s \o t \in Seq(S)
  BY ConcatProperties
<1>3. Append(s \o t, x) = (s \o t) \o <<x>>
  BY <1>2, AppendIsConcat
<1>4. (s \o t) \o <<x>> = s \o (t \o <<x>>)
  BY <1>1, ConcatAssociative
<1> QED BY <1>1, <1>3, <1>4

\* FrameBatch::push, with or without releasing the batch.
LEMMA PushBatches ==
  ASSUME NEW s, IsStream(s), NEW messages, Batched(s.wire, s.pending, s.bytes, messages),
         WorthSending(s.wire, Len(s.wire)), NEW message, NEW p, p = push(s, message)
  PROVE  /\ Batched(p.wire, p.pending, p.bytes, Append(messages, message))
         /\ WorthSending(p.wire, Len(p.wire))
<1>1. PICK S : s.wire \in Seq(Seq(S)) /\ s.pending \in Seq(S)
  BY DEF Batched
<1> DEFINE T == S \cup {message}
<1>2. s.wire \in Seq(Seq(T)) /\ s.pending \in Seq(T) /\ message \in T
  <2>1. \A frame \in Seq(S) : frame \in Seq(T)
    BY SeqGrows
  <2>2. Seq(S) \subseteq Seq(T)
    BY <2>1
  <2> QED BY <1>1, <2>1, <2>2, SeqGrows
<1> HIDE DEF T
<1>3. PICK flat : flat = FlattenSeq(s.wire)
  OBVIOUS
<1>4. flat \in Seq(T) /\ messages = flat \o s.pending /\ s.bytes = FrameBytes(s.pending)
  BY <1>2, <1>3, FlattenIsSequence DEF Batched
<1>5. PICK frame : frame = Append(s.pending, message)
  OBVIOUS
<1>6. frame \in Seq(T) /\ FrameBytes(frame) = s.bytes + encoded_len(message)
  BY <1>2, <1>4, <1>5, AppendProperties, FrameGrows
<1>7. flat \o frame = Append(messages, message)
  BY <1>2, <1>4, <1>5, AppendAfterConcat
<1>8. CASE s.bytes + encoded_len(message) >= BatchBytes
  <2>1. p = [s EXCEPT !.wire = Append(@, frame), !.pending = << >>, !.bytes = 0]
    BY <1>5, <1>8 DEF push
  <2>2. p.wire = Append(s.wire, frame) /\ p.pending = << >> /\ p.bytes = 0
    BY <2>1 DEF IsStream
  <2>3. /\ p.wire \in Seq(Seq(T)) /\ Len(p.wire) = Len(s.wire) + 1
        /\ \A f \in 1 .. Len(s.wire) : p.wire[f] = s.wire[f]
        /\ p.wire[Len(s.wire) + 1] = frame
    BY <1>2, <1>6, <2>2, AppendProperties
  <2>4. FlattenSeq(p.wire) = flat \o frame
    BY <1>2, <1>3, <1>6, <2>2, FlattenGrows
  <2>5. flat \o frame \in Seq(T)
    BY <1>4, <1>6, ConcatProperties
  <2>6. FlattenSeq(p.wire) \o p.pending = Append(messages, message)
    BY <1>7, <2>2, <2>4, <2>5, ConcatEmptySeq
  <2>7. p.pending \in Seq(T) /\ p.bytes = FrameBytes(p.pending)
    BY <2>2, FrameGrows, EmptySeq
  <2>8. WorthSending(p.wire, Len(p.wire))
    <3>1. Len(s.wire) \in Nat
      BY <1>2, LenProperties
    <3>2. FrameBytes(frame) >= BatchBytes
      BY <1>6, <1>8
    <3>3. \A f \in 1 .. Len(p.wire) : f \in 1 .. Len(s.wire) \/ f = Len(s.wire) + 1
      BY <2>3, <3>1
    <3> QED BY <2>3, <3>2, <3>3 DEF WorthSending
  <2> QED BY <2>3, <2>6, <2>7, <2>8 DEF Batched
<1>9. CASE ~(s.bytes + encoded_len(message) >= BatchBytes)
  <2> DEFINE bytes == s.bytes + encoded_len(message)
  <2>1. p = [s EXCEPT !.pending = frame, !.bytes = bytes]
    BY <1>5, <1>9 DEF push
  <2> HIDE DEF bytes
  <2>2. p.wire = s.wire /\ p.pending = frame /\ p.bytes = bytes
    BY <2>1 DEF IsStream
  <2>3. p.wire \in Seq(Seq(T)) /\ p.pending \in Seq(T) /\ WorthSending(p.wire, Len(p.wire))
    BY <1>2, <1>6, <2>2
  <2>4. p.bytes = FrameBytes(p.pending)
    BY <1>6, <2>2 DEF bytes
  <2>5. Append(messages, message) = FlattenSeq(p.wire) \o p.pending
    BY <1>3, <1>7, <2>2
  <2> QED BY <2>3, <2>4, <2>5 DEF Batched
<1> QED BY <1>8, <1>9

\* FrameBatch::flush: the last frame may be of any size.
LEMMA FlushBatches ==
  ASSUME NEW s, IsStream(s), NEW messages, Batched(s.wire, s.pending, s.bytes, messages),
         WorthSending(s.wire, Len(s.wire)), NEW p, p = flush(s)
  PROVE  /\ Batched(p.wire, p.pending, p.bytes, messages)
         /\ WorthSending(p.wire, Len(p.wire) - 1) /\ p.pending = << >>
<1>1. PICK S : s.wire \in Seq(Seq(S)) /\ s.pending \in Seq(S)
  BY DEF Batched
<1>2. Len(s.wire) \in Nat
  BY <1>1, LenProperties
<1>3. CASE s.pending = << >>
  <2>1. p = s
    BY <1>3 DEF flush
  <2>2. \A f \in 1 .. Len(s.wire) - 1 : f \in 1 .. Len(s.wire)
    BY <1>2
  <2> QED BY <1>3, <2>1, <2>2 DEF WorthSending
<1>4. CASE s.pending # << >>
  <2>1. p = [s EXCEPT !.wire = Append(@, s.pending), !.pending = << >>, !.bytes = 0]
    BY <1>4 DEF flush
  <2>2. p.wire = Append(s.wire, s.pending) /\ p.pending = << >> /\ p.bytes = 0
    BY <2>1 DEF IsStream
  <2>3. /\ p.wire \in Seq(Seq(S)) /\ Len(p.wire) = Len(s.wire) + 1
        /\ \A f \in 1 .. Len(s.wire) : p.wire[f] = s.wire[f]
    BY <1>1, <2>2, AppendProperties
  <2>4. FlattenSeq(p.wire) = messages
    BY <1>1, <2>2, FlattenGrows DEF Batched
  <2>5. FlattenSeq(p.wire) \in Seq(S)
    BY <2>3, FlattenIsSequence
  <2>6. messages = FlattenSeq(p.wire) \o p.pending
    BY <2>2, <2>4, <2>5, ConcatEmptySeq
  <2>7. p.pending \in Seq(S) /\ p.bytes = FrameBytes(p.pending)
    BY <2>2, FrameGrows, EmptySeq
  <2>8. Len(p.wire) - 1 = Len(s.wire)
    BY <1>2, <2>3
  <2> QED BY <2>2, <2>3, <2>6, <2>7, <2>8 DEF Batched, WorthSending
<1> QED BY <1>3, <1>4

\* A stream that differs only in its progress sends the same.
LEMMA SendsSame ==
  ASSUME NEW s, Sends(s), NEW t, t.request = s.request, t.fetched = s.fetched, t.wire = s.wire,
         t.pending = s.pending, t.bytes = s.bytes, Ended(t) <=> Ended(s)
  PROVE  Sends(t)
<1>1. Messages(t) = Messages(s)
  BY DEF Messages
<1>2. (IF Ended(t) THEN 1 ELSE 0) = (IF Ended(s) THEN 1 ELSE 0)
  OBVIOUS
<1> QED BY <1>1, <1>2 DEF Sends

LEMMA NothingSentYet ==
  ASSUME NEW s, s.request \in Requests, s.fetched = << >>, s.wire = << >>, s.pending = << >>,
         s.bytes = 0, ~Ended(s)
  PROVE  Sends(s)
<1>1. Messages(s) = << >>
  BY DEF Messages
<1>2. FlattenSeq(<< >>) = << >> /\ << >> \o << >> = << >>
  BY DEF FlattenSeq
<1>3. << >> \in Seq({}) /\ << >> \in Seq(Seq({})) /\ Len(<< >>) = 0
  BY EmptySeq
<1>4. Batched(s.wire, s.pending, s.bytes, Messages(s))
  BY <1>1, <1>2, <1>3, FrameGrows DEF Batched
<1>5. WorthSending(s.wire, Len(s.wire) - 0)
  BY <1>3 DEF WorthSending
<1>6. Len(s.wire) - (IF Ended(s) THEN 1 ELSE 0) = Len(s.wire) - 0
  OBVIOUS
<1> QED BY <1>4, <1>5, <1>6 DEF Sends

\* A stream that is not sending anything to a wallet.
LEMMA NoRequestSends ==
  ASSUME NEW s, s.request = None
  PROVE  Sends(s)
BY DEF Sends

LEMMA MessagesGrow ==
  ASSUME NEW s, IsSequence(s.fetched), NEW block, NEW t, t.request = s.request,
         t.fetched = Append(s.fetched, block)
  PROVE  Messages(t) = Append(Messages(s), transform(s.request, block))
<1> DEFINE n == Len(s.fetched)  message == transform(s.request, block)
           S == Range(s.fetched) \cup {block}
           T == {transform(s.request, b) : b \in S}
<1>1. s.fetched \in Seq(S) /\ n \in Nat /\ DOMAIN s.fetched = 1 .. n
      /\ \A i \in 1 .. n : s.fetched[i] \in S
  <2>1. s.fetched \in Seq(Range(s.fetched))
    BY DEF IsSequence
  <2>2. s.fetched \in Seq(S)
    BY <2>1, SeqGrows
  <2> QED BY <2>2, LenProperties, ElementOfSeq
<1>2. /\ t.fetched \in Seq(S) /\ Len(t.fetched) = n + 1 /\ t.fetched[n + 1] = block
      /\ \A i \in 1 .. n : t.fetched[i] = s.fetched[i]
  BY <1>1, AppendProperties
<1>3. DOMAIN t.fetched = 1 .. n + 1
  BY <1>2, LenProperties
<1>4. message \in T /\ \A i \in 1 .. n : transform(s.request, s.fetched[i]) \in T
  BY <1>1
<1> HIDE DEF n, message, S, T
<1>5. Messages(s) = [i \in 1 .. n |-> transform(s.request, s.fetched[i])]
  BY <1>1 DEF Messages
<1>6. Messages(s) \in [1 .. n -> T]
  BY <1>4, <1>5
<1>7. Messages(s) \in Seq(T) /\ DOMAIN Messages(s) = 1 .. n
  BY <1>1, <1>6, SeqDef
<1>8. Len(Messages(s)) = n
  BY <1>1, <1>7, LenProperties
<1>9. PICK old : old = Messages(s)
  OBVIOUS
<1>10. /\ Append(old, message) \in Seq(T) /\ Len(Append(old, message)) = n + 1
       /\ \A i \in 1 .. n : Append(old, message)[i] = old[i]
       /\ Append(old, message)[n + 1] = message
  BY <1>4, <1>7, <1>8, <1>9, AppendProperties
<1>11. DOMAIN Append(old, message) = 1 .. n + 1
  BY <1>10, LenProperties
<1>12. Messages(t) = [i \in 1 .. n + 1 |-> transform(s.request, t.fetched[i])]
  BY <1>3 DEF Messages
<1>13. \A i \in 1 .. n + 1 : Append(old, message)[i] = transform(s.request, t.fetched[i])
  <2>1. \A i \in 1 .. n + 1 : i \in 1 .. n \/ i = n + 1
    BY <1>1
  <2>2. \A i \in 1 .. n : old[i] = transform(s.request, t.fetched[i])
    BY <1>2, <1>5, <1>9
  <2>3. message = transform(s.request, t.fetched[n + 1])
    BY <1>2 DEF message
  <2> QED BY <1>10, <2>1, <2>2, <2>3
<1>14. Append(old, message) = [i \in 1 .. n + 1 |-> Append(old, message)[i]]
  <2>1. Append(old, message) \in [1 .. n + 1 -> T]
    BY <1>10, LenProperties
  <2> QED BY <2>1
<1>15. Messages(t) = Append(old, message)
  BY <1>12, <1>13, <1>14
<1> QED BY <1>9, <1>15 DEF message

LEMMA FailSends ==
  ASSUME NEW s, IsStream(s), Sends(s), ~Ended(s)
  PROVE  Sends(Failed(s))
<1> DEFINE f == flush(s)  t == Failed(s)
<1>1. IsStream(f) /\ f.fetched = s.fetched /\ f.request = s.request
  BY FlushKeeps
<1>2. t = [f EXCEPT !.phase = "failed", !.verbose = None, !.held = {}]
  BY DEF Failed
<1>3. s.request # None /\ Ranged(s.request) =>
        /\ Batched(f.wire, f.pending, f.bytes, Messages(s))
        /\ WorthSending(f.wire, Len(f.wire) - 1) /\ f.pending = << >>
  <2> SUFFICES ASSUME s.request # None /\ Ranged(s.request)
               PROVE  /\ Batched(f.wire, f.pending, f.bytes, Messages(s))
                      /\ WorthSending(f.wire, Len(f.wire) - 1) /\ f.pending = << >>
    OBVIOUS
  <2>1. Batched(s.wire, s.pending, s.bytes, Messages(s))
    BY DEF Sends
  <2>2. Len(s.wire) - (IF Ended(s) THEN 1 ELSE 0) = Len(s.wire) - 0
    OBVIOUS
  <2>3. Len(s.wire) \in Nat
    BY <2>1, LenProperties DEF Batched
  <2>4. Len(s.wire) - 0 = Len(s.wire)
    BY <2>3
  <2>5. WorthSending(s.wire, Len(s.wire))
    BY <2>2, <2>4 DEF Sends
  <2> QED BY <2>1, <2>5, FlushBatches
<1> HIDE DEF f, t
<1>4. /\ t.request = s.request /\ t.fetched = s.fetched /\ t.wire = f.wire /\ t.pending = f.pending
      /\ t.bytes = f.bytes /\ t.phase = "failed"
  BY <1>1, <1>2 DEF IsStream
<1>5. Ended(t) /\ Messages(t) = Messages(s)
  BY <1>4 DEF Ended, Messages
<1>6. (IF Ended(t) THEN 1 ELSE 0) = 1
  BY <1>5
<1>7. Sends(t)
  BY <1>3, <1>4, <1>5, <1>6 DEF Sends
<1> QED BY <1>7 DEF t

LEMMA DeliveredSends ==
  ASSUME IsStream(stream), Sends(stream), ~Ended(stream), IsSequence(stream.fetched),
         NEW block, Parsed(block), NEW d, d = Delivered(block),
         stream.request # None, Ranged(stream.request)
  PROVE  Sends(d)
<1> DEFINE message == transform(stream.request, block)
           sent    == push(stream, message)
           link    == IF Descending THEN block.prev_hash ELSE block.hash
           next    == [sent EXCEPT !.fetched = Append(@, block), !.link = link]
           f       == flush(next)
           step    == IF Descending THEN stream.at - 1 ELSE stream.at + 1
<1>1. /\ IsStream(sent) /\ sent.fetched = stream.fetched /\ sent.request = stream.request
      /\ sent.at = stream.at
  BY PushKeeps
<1>2. d = IF stream.at = stream.request.to
          THEN [f EXCEPT !.phase = "done", !.verbose = None, !.held = {}]
          ELSE [next EXCEPT !.phase = "verbose", !.verbose = None,
                            !.at = IF Descending THEN @ - 1 ELSE @ + 1, !.held = {node}]
  BY DEF Delivered
<1>3. next = [sent EXCEPT !.fetched = Append(@, block), !.link = link]
  OBVIOUS
<1>4. /\ Batched(stream.wire, stream.pending, stream.bytes, Messages(stream))
      /\ WorthSending(stream.wire, Len(stream.wire))
  <2>1. Batched(stream.wire, stream.pending, stream.bytes, Messages(stream))
    BY DEF Sends
  <2>2. Len(stream.wire) - (IF Ended(stream) THEN 1 ELSE 0) = Len(stream.wire) - 0
    OBVIOUS
  <2>3. Len(stream.wire) \in Nat
    BY <2>1, LenProperties DEF Batched
  <2>4. Len(stream.wire) - 0 = Len(stream.wire)
    BY <2>3
  <2> QED BY <2>1, <2>2, <2>4 DEF Sends
<1>5. /\ Batched(sent.wire, sent.pending, sent.bytes, Append(Messages(stream), message))
      /\ WorthSending(sent.wire, Len(sent.wire))
  BY <1>4, PushBatches
<1>6. f = flush(next)
  OBVIOUS
<1> HIDE DEF sent, link, next, f
<1>7. /\ IsStream(next) /\ next.fetched = Append(stream.fetched, block)
      /\ next.request = stream.request /\ next.at = stream.at
      /\ next.wire = sent.wire /\ next.pending = sent.pending /\ next.bytes = sent.bytes
  BY <1>1, <1>3 DEF IsStream
<1>8. Messages(next) = Append(Messages(stream), message)
  BY <1>7, MessagesGrow
<1> HIDE DEF message
<1>9. /\ Batched(next.wire, next.pending, next.bytes, Messages(next))
      /\ WorthSending(next.wire, Len(next.wire))
  BY <1>5, <1>7, <1>8
<1>10. stream.request \in Requests /\ \A i \in DOMAIN next.fetched : Parsed(next.fetched[i])
  <2>1. stream.request \in Requests /\ \A i \in DOMAIN stream.fetched : Parsed(stream.fetched[i])
    BY DEF Sends
  <2>2. PICK got : got = stream.fetched
    OBVIOUS
  <2>3. /\ IsSequence(got) /\ \A i \in DOMAIN got : Parsed(got[i])
        /\ next.fetched = Append(got, block)
    BY <1>7, <2>1, <2>2
  <2>4. \A i \in DOMAIN next.fetched : next.fetched[i] = block \/
                                       (i \in DOMAIN got /\ next.fetched[i] = got[i])
    <3>1. got \in Seq(Range(got) \cup {block})
      BY <2>3, SeqGrows DEF IsSequence
    <3>2. Len(got) \in Nat /\ DOMAIN got = 1 .. Len(got)
      BY <3>1, LenProperties
    <3>3. /\ next.fetched \in Seq(Range(got) \cup {block}) /\ Len(next.fetched) = Len(got) + 1
          /\ next.fetched[Len(got) + 1] = block
          /\ \A i \in 1 .. Len(got) : next.fetched[i] = got[i]
      BY <2>3, <3>1, AppendProperties
    <3>4. DOMAIN next.fetched = 1 .. Len(got) + 1
      BY <3>3, LenProperties
    <3>5. \A i \in DOMAIN next.fetched : i \in 1 .. Len(got) \/ i = Len(got) + 1
      BY <3>2, <3>4
    <3> QED BY <3>2, <3>3, <3>5
  <2> QED BY <2>1, <2>3, <2>4
<1>11. CASE stream.at = stream.request.to
  <2>1. /\ Batched(f.wire, f.pending, f.bytes, Messages(next))
        /\ WorthSending(f.wire, Len(f.wire) - 1) /\ f.pending = << >>
    BY <1>6, <1>7, <1>9, FlushBatches
  <2>2. IsStream(f) /\ f.fetched = next.fetched /\ f.request = next.request
    BY <1>6, <1>7, FlushKeeps
  <2>3. d = [f EXCEPT !.phase = "done", !.verbose = None, !.held = {}]
    BY <1>2, <1>11
  <2>4. /\ d.request = stream.request /\ d.fetched = next.fetched /\ d.wire = f.wire
        /\ d.pending = f.pending /\ d.bytes = f.bytes /\ d.phase = "done"
    BY <1>7, <2>2, <2>3 DEF IsStream
  <2>5. Ended(d) /\ Messages(d) = Messages(next)
    BY <1>7, <2>4 DEF Ended, Messages
  <2>6. (IF Ended(d) THEN 1 ELSE 0) = 1
    BY <2>5
  <2> QED BY <1>10, <2>1, <2>4, <2>5, <2>6 DEF Sends
<1>12. CASE stream.at # stream.request.to
  <2>1. d = [next EXCEPT !.phase = "verbose", !.verbose = None, !.at = step, !.held = {node}]
    BY <1>2, <1>7, <1>12
  <2> HIDE DEF step
  <2>2. /\ d.request = stream.request /\ d.fetched = next.fetched /\ d.wire = next.wire
        /\ d.pending = next.pending /\ d.bytes = next.bytes /\ d.phase = "verbose"
    BY <1>7, <2>1 DEF IsStream
  <2>3. ~Ended(d) /\ Messages(d) = Messages(next)
    BY <1>7, <2>2 DEF Ended, Messages
  <2>4. (IF Ended(d) THEN 1 ELSE 0) = 0
    BY <2>3
  <2>5. Len(next.wire) \in Nat
    BY <1>9, LenProperties DEF Batched
  <2>6. Len(d.wire) - 0 = Len(next.wire)
    BY <2>2, <2>5
  <2> QED BY <1>9, <1>10, <2>2, <2>3, <2>4, <2>6 DEF Sends
<1> QED BY <1>11, <1>12

LEMMA DeliveredRequest ==
  ASSUME IsStream(stream), NEW block, NEW d, d = Delivered(block)
  PROVE  d.request = stream.request
<1> DEFINE message == transform(stream.request, block)
           sent    == IF Ranged(stream.request) THEN push(stream, message)
                      ELSE [stream EXCEPT !.wire = <<<<message>>>>]
           link    == IF Descending THEN block.prev_hash ELSE block.hash
           next    == [sent EXCEPT !.fetched = Append(@, block), !.link = link]
           f       == flush(next)
<1>1. IsStream(sent) /\ sent.request = stream.request
  <2>1. CASE Ranged(stream.request)
    BY <2>1, PushKeeps
  <2>2. CASE ~Ranged(stream.request)
    <3>1. sent = [stream EXCEPT !.wire = <<<<message>>>>]
      BY <2>2
    <3> HIDE DEF sent, message
    <3> QED BY <3>1 DEF IsStream
  <2> QED BY <2>1, <2>2
<1>2. d = IF stream.at = stream.request.to
          THEN [f EXCEPT !.phase = "done", !.verbose = None, !.held = {}]
          ELSE [next EXCEPT !.phase = "verbose", !.verbose = None,
                            !.at = IF Descending THEN @ - 1 ELSE @ + 1, !.held = {node}]
  BY DEF Delivered
<1> HIDE DEF message, sent, link
<1>3. IsStream(next) /\ next.request = stream.request
  BY <1>1 DEF IsStream
<1> HIDE DEF next
<1>4. IsStream(f) /\ f.request = stream.request
  BY <1>3, FlushKeeps
<1> HIDE DEF f
<1> QED BY <1>2, <1>3, <1>4 DEF IsStream

LEMMA SendsStep == DeliveryInv /\ Sends(stream) /\ [DeliveryNext]_deliveryVars => Sends(stream')
<1> SUFFICES ASSUME DeliveryInv, Sends(stream), [DeliveryNext]_deliveryVars PROVE Sends(stream')
  OBVIOUS
<1>1. IsStream(stream) /\ IsSequence(stream.fetched)
  BY DEF DeliveryInv, FetchInv
<1>2. stream.phase \in {"verbose", "raw"} => ~Ended(stream)
  BY DEF Ended
<1>3. Fail /\ stream.phase \in {"verbose", "raw"} => Sends(stream')
  BY <1>1, <1>2, FailSends DEF Fail
<1>4. CASE Moves
  <2>1. PICK chain : stream' = stream \/ stream' = [stream EXCEPT !.held = @ \cup {chain}]
    BY <1>4 DEF Moves
  <2>2. /\ stream'.request = stream.request /\ stream'.fetched = stream.fetched
        /\ stream'.wire = stream.wire /\ stream'.pending = stream.pending
        /\ stream'.bytes = stream.bytes /\ stream'.phase = stream.phase
    BY <1>1, <2>1 DEF IsStream
  <2>3. Ended(stream') <=> Ended(stream)
    BY <2>2 DEF Ended
  <2> QED BY <2>2, <2>3, SendsSame
<1>5. ASSUME NEW request \in Requests, Accept(request) PROVE Sends(stream')
  <2>1. CASE Admitted(request)
    <3>1. stream' = [NoStream EXCEPT !.phase = "verbose", !.request = request, !.at = request.from,
                                     !.held = {node}]
      BY <1>5, <2>1 DEF Accept
    <3>2. /\ stream'.request = request /\ stream'.fetched = << >> /\ stream'.wire = << >>
          /\ stream'.pending = << >> /\ stream'.bytes = 0 /\ stream'.phase = "verbose"
      BY <3>1 DEF NoStream
    <3>3. ~Ended(stream')
      BY <3>2 DEF Ended
    <3> QED BY <3>2, <3>3, NothingSentYet
  <2>2. CASE ~Admitted(request)
    <3>1. stream'.request = None
      BY <1>5, <2>2 DEF Accept, NoStream
    <3> QED BY <3>1, NoRequestSends
  <2> QED BY <2>1, <2>2
<1>6. ASSUME NEW c \in Calls, AskNode(c) PROVE Sends(stream')
  <2>1. stream'.request = None
    BY <1>6 DEF AskNode, NoStream
  <2> QED BY <2>1, NoRequestSends
<1>7. CASE GotVerbose
  <2>1. stream.phase = "verbose" /\ stream' = [stream EXCEPT !.phase = "raw", !.verbose = call.answer[2]]
    BY <1>7 DEF GotVerbose, Answered
  <2>2. /\ stream'.request = stream.request /\ stream'.fetched = stream.fetched
        /\ stream'.wire = stream.wire /\ stream'.pending = stream.pending
        /\ stream'.bytes = stream.bytes /\ stream'.phase = "raw"
    BY <1>1, <2>1 DEF IsStream
  <2>3. Ended(stream') <=> Ended(stream)
    BY <2>1, <2>2 DEF Ended
  <2> QED BY <2>2, <2>3, SendsSame
<1>8. CASE CallFails
  BY <1>3, <1>8 DEF CallFails, Answered
<1>9. ASSUME NEW raw, GotRaw(raw) PROVE Sends(stream')
  <2> DEFINE checked == checked_block(stream.at, stream.verbose, raw)
  <2>1. stream.phase = "raw"
    BY <1>9 DEF GotRaw, Answered
  <2>2. CASE ~(IsOk(checked) /\ Connects(checked[2]))
    BY <1>3, <1>9, <2>1, <2>2 DEF GotRaw
  <2>3. CASE IsOk(checked) /\ Connects(checked[2])
    <3>1. stream' = Delivered(checked[2])
      BY <1>9, <2>3 DEF GotRaw
    <3>2. PICK block : block = checked[2]
      OBVIOUS
    <3>3. stream.verbose.hash \in Block
      BY <2>1, CandidatesAreBlocks DEF DeliveryInv, FetchInv
    <3>4. Parsed(block)
      BY <2>3, <3>2, <3>3, CheckedBlock
    <3> HIDE DEF checked
    <3>5. CASE stream.request # None /\ Ranged(stream.request)
      <4>1. Sends(stream')
        BY <1>1, <1>2, <2>1, <3>1, <3>2, <3>4, <3>5, DeliveredSends
      <4> QED BY <4>1
    <3>6. CASE ~(stream.request # None /\ Ranged(stream.request))
      <4>1. stream'.request = stream.request
        BY <1>1, <3>1, DeliveredRequest
      <4> QED BY <3>6, <4>1 DEF Sends
    <3> QED BY <3>5, <3>6
  <2> QED BY <2>2, <2>3
<1>10. CASE UNCHANGED stream
  BY <1>10
<1> QED BY <1>4, <1>5, <1>6, <1>7, <1>8, <1>9, <1>10 DEF DeliveryNext, deliveryVars

(***************************************************************************)
(* However fetches end, the frames and the batch are the messages made of  *)
(* the fetched blocks, in order (Sends).                                   *)
(***************************************************************************)
THEOREM SendingConsistent == DeliverySpec => []Sends(stream)
<1>1. DeliveryInit => Sends(stream)
  <2> SUFFICES ASSUME DeliveryInit PROVE Sends(stream)
    OBVIOUS
  <2>1. stream.request = None
    BY DEF DeliveryInit, NoStream
  <2> QED BY <2>1, NoRequestSends
<1>2. DeliveryInv /\ Sends(stream) /\ [DeliveryNext]_deliveryVars => Sends(stream)'
  BY SendsStep
<1> QED BY <1>1, <1>2, DeliveryConsistent, PTL DEF DeliverySpec

\* What has left is the first part of the messages.
LEMMA SentAreMessages ==
  ASSUME NEW s, IsSequence(s.fetched), Batched(s.wire, s.pending, s.bytes, Messages(s))
  PROVE  /\ Len(FlattenSeq(s.wire)) + Len(s.pending) = Len(s.fetched)
         /\ \A i \in DOMAIN FlattenSeq(s.wire) :
              i \in DOMAIN s.fetched /\ FlattenSeq(s.wire)[i] = transform(s.request, s.fetched[i])
<1>1. PICK S : s.wire \in Seq(Seq(S)) /\ s.pending \in Seq(S)
  BY DEF Batched
<1>2. PICK sent : sent = FlattenSeq(s.wire)
  OBVIOUS
<1>3. sent \in Seq(S)
  BY <1>1, <1>2, FlattenIsSequence
<1>4. Messages(s) = sent \o s.pending
  BY <1>2 DEF Batched
<1>5. /\ sent \o s.pending \in Seq(S) /\ Len(sent \o s.pending) = Len(sent) + Len(s.pending)
      /\ \A i \in 1 .. Len(sent) + Len(s.pending) :
           (sent \o s.pending)[i] = IF i <= Len(sent) THEN sent[i] ELSE s.pending[i - Len(sent)]
  BY <1>1, <1>3, ConcatProperties
<1>6. Len(sent) \in Nat /\ DOMAIN sent = 1 .. Len(sent) /\ Len(s.pending) \in Nat
  BY <1>1, <1>3, LenProperties
<1>7. DOMAIN Messages(s) = 1 .. Len(sent) + Len(s.pending)
  BY <1>4, <1>5, LenProperties
<1>8. Len(s.fetched) \in Nat /\ DOMAIN s.fetched = 1 .. Len(s.fetched)
  BY LenProperties DEF IsSequence
<1>9. DOMAIN Messages(s) = DOMAIN s.fetched
  BY DEF Messages
<1>10. Len(sent) + Len(s.pending) = Len(s.fetched)
  <2>1. \A m, n \in Nat : 1 .. m = 1 .. n => m = n
    <3> SUFFICES ASSUME NEW m \in Nat, NEW n \in Nat, 1 .. m = 1 .. n PROVE m = n
      OBVIOUS
    <3>1. \A i \in Int : i \in 1 .. m <=> i \in 1 .. n
      OBVIOUS
    <3> QED BY <3>1
  <2>2. Len(sent) + Len(s.pending) \in Nat
    BY <1>6
  <2> QED BY <1>7, <1>8, <1>9, <2>1, <2>2
<1>11. ASSUME NEW i \in DOMAIN sent
       PROVE  i \in DOMAIN s.fetched /\ sent[i] = transform(s.request, s.fetched[i])
  <2>1. i \in 1 .. Len(sent) + Len(s.pending) /\ i <= Len(sent)
    BY <1>6
  <2>2. i \in DOMAIN s.fetched
    BY <1>8, <1>10, <2>1
  <2>3. Messages(s)[i] = transform(s.request, s.fetched[i])
    BY <2>2 DEF Messages
  <2>4. Messages(s)[i] = sent[i]
    BY <1>4, <1>5, <2>1
  <2> QED BY <2>2, <2>3, <2>4
<1> QED BY <1>2, <1>10, <1>11

LEMMA TransformKeepsHash ==
  ASSUME NEW request, Ranged(request), NEW block, Parsed(block)
  PROVE  transform(request, block).hash = block.hash
<1>1. block = [f \in {"height", "hash", "prev_hash", "vtx", "trees"} |-> block[f]]
  BY DEF Parsed
<1>2. \A pools : /\ filter_block_to_pools(block, pools).hash = block.hash
                 /\ nullifiers_only(filter_block_to_pools(block, pools)).hash = block.hash
  BY <1>1 DEF filter_block_to_pools, nullifiers_only
<1>3. CASE request.kind = "range"
  <2>1. transform(request, block) = filter_block_to_pools(block, from_pool_types(request.pools))
    BY <1>3 DEF transform
  <2> QED BY <1>2, <2>1
<1>4. CASE request.kind = "range_nullifiers"
  <2>1. transform(request, block) =
          nullifiers_only(filter_block_to_pools(block, from_pool_types_dropping_transparent(request.pools)))
    BY <1>4 DEF transform
  <2> QED BY <1>2, <2>1
<1> QED BY <1>3, <1>4 DEF Ranged

(***************************************************************************)
(* framing.rs: no message is lost, reordered or left behind by a stream    *)
(* that ends or fails, and every frame before the last is worth sending,   *)
(* for messages of any size.                                               *)
(***************************************************************************)
THEOREM MessagesAllLeave == DeliverySpec => []NothingWithheld
<1>1. DeliveryInv /\ Sends(stream) => NothingWithheld
  <2> SUFFICES ASSUME DeliveryInv, Sends(stream), stream.request # None, Ranged(stream.request)
               PROVE  /\ Len(FlattenSeq(stream.wire)) + Len(stream.pending) = Len(stream.fetched)
                      /\ \A i \in DOMAIN FlattenSeq(stream.wire) :
                           FlattenSeq(stream.wire)[i].hash = stream.fetched[i].hash
                      /\ \A f \in 1 .. Len(stream.wire) - 1 : FrameBytes(stream.wire[f]) >= BatchBytes
                      /\ stream.phase \in {"done", "failed"} => stream.pending = << >>
    BY DEF NothingWithheld
  <2>1. IsSequence(stream.fetched)
    BY DEF DeliveryInv, FetchInv
  <2>2. /\ Batched(stream.wire, stream.pending, stream.bytes, Messages(stream))
        /\ WorthSending(stream.wire, Len(stream.wire) - IF Ended(stream) THEN 1 ELSE 0)
        /\ Ended(stream) => stream.pending = << >>
        /\ \A i \in DOMAIN stream.fetched : Parsed(stream.fetched[i])
    BY DEF Sends
  <2>3. /\ Len(FlattenSeq(stream.wire)) + Len(stream.pending) = Len(stream.fetched)
        /\ \A i \in DOMAIN FlattenSeq(stream.wire) :
             /\ i \in DOMAIN stream.fetched
             /\ FlattenSeq(stream.wire)[i] = transform(stream.request, stream.fetched[i])
    BY <2>1, <2>2, SentAreMessages
  <2>4. \A i \in DOMAIN FlattenSeq(stream.wire) :
          FlattenSeq(stream.wire)[i].hash = stream.fetched[i].hash
    BY <2>2, <2>3, TransformKeepsHash
  <2>5. \A f \in 1 .. Len(stream.wire) - 1 : FrameBytes(stream.wire[f]) >= BatchBytes
    <3>1. Len(stream.wire) \in Nat
      BY <2>2, LenProperties DEF Batched
    <3>2. \A f \in 1 .. Len(stream.wire) - 1 :
            f \in 1 .. Len(stream.wire) - IF Ended(stream) THEN 1 ELSE 0
      <4>1. CASE Ended(stream)
        BY <4>1
      <4>2. CASE ~Ended(stream)
        <5>1. \A f \in 1 .. Len(stream.wire) - 1 : f \in 1 .. Len(stream.wire) - 0
          BY <3>1
        <5> QED BY <4>2, <5>1
      <4> QED BY <4>1, <4>2
    <3> QED BY <2>2, <3>2 DEF WorthSending
  <2> QED BY <2>2, <2>3, <2>4, <2>5 DEF Ended
<1> QED BY <1>1, DeliveryConsistent, SendingConsistent, PTL

-----------------------------------------------------------------------------
(***************************************************************************)
(* filter.rs: what is left of a block.                                     *)
(***************************************************************************)
\* Of transactions in the order of their indexes, retain keeps those with data.
LEMMA RetainKeeps ==
  ASSUME NEW m \in Nat, NEW cut, DOMAIN cut = 1 .. m, \A k \in 1 .. m : cut[k].index = k - 1
  PROVE  LET kept == FoldLeft(retain, << >>, cut)
         IN  /\ kept \in Seq(Range(cut))
             /\ ToSet(kept) = {cut[k] : k \in {k \in 1 .. m : cut[k].parts # {}}}
             /\ \A a, b \in DOMAIN kept : a < b => kept[a].index < kept[b].index
<1> DEFINE S == Range(cut)
           With(i) == {cut[k] : k \in {k \in 1 .. i : cut[k].parts # {}}}
           Sorted(r) == \A a, b \in DOMAIN r : a < b => r[a].index < r[b].index
<1>1. FoldLeft(retain, << >>, cut) = RetainFold!Folded(<< >>, cut)
  BY DEF FoldLeft, MapThenFoldSet, Max, RetainFold!Folded, RetainFold!Iterates, RetainFold!Greatest
<1>2. PICK run : RetainFold!Run(run, << >>, cut, m) /\ run[m] = RetainFold!Folded(<< >>, cut)
  BY RetainFold!FoldRuns
<1> DEFINE Kept(i) == run[i] \in Seq(S) /\ ToSet(run[i]) = With(i) /\ Sorted(run[i])
           I == {i \in Nat : i <= m => Kept(i)}
<1>3. 0 \in I
  <2>1. run[0] = << >>
    BY <1>2 DEF RetainFold!Run
  <2>2. With(0) = {}
    <3>1. 1 .. 0 = {}
      OBVIOUS
    <3> QED BY <3>1
  <2>3. << >> \in Seq(S) /\ ToSet(<< >>) = {} /\ Sorted(<< >>)
    BY EmptySeq DEF ToSet
  <2> HIDE DEF With, S, Sorted
  <2> QED BY <2>1, <2>2, <2>3
<1>4. ASSUME NEW i \in Nat, i \in I PROVE i + 1 \in I
  <2> SUFFICES ASSUME i + 1 <= m PROVE Kept(i + 1)
    <3> HIDE DEF Kept
    <3> QED OBVIOUS
  <2>1. i + 1 \in 1 .. m /\ (i + 1) - 1 = i /\ Kept(i)
    BY <1>4
  <2>2. PICK r : r = run[i]
    OBVIOUS
  <2>3. r \in Seq(S) /\ ToSet(r) = With(i) /\ Sorted(r)
    BY <2>1, <2>2
  <2>4. PICK tx : tx = cut[i + 1]
    OBVIOUS
  <2>5. tx \in S /\ tx.index = i
    BY <2>1, <2>4 DEF Range
  <2>6. run[i + 1] = IF tx.parts = {} THEN r ELSE Append(r, tx)
    BY <1>2, <2>1, <2>2, <2>4 DEF RetainFold!Run, retain
  <2>7. With(i + 1) = With(i) \cup (IF tx.parts = {} THEN {} ELSE {tx})
    <3>1. \A k : k \in 1 .. i + 1 <=> k \in 1 .. i \/ k = i + 1
      OBVIOUS
    <3>2. CASE tx.parts = {}
      <4>1. \A k : k \in {k_1 \in 1 .. i + 1 : cut[k_1].parts # {}} <=> k \in {k_1 \in 1 .. i : cut[k_1].parts # {}}
        BY <2>4, <3>1, <3>2
      <4> QED BY <3>2, <4>1
    <3>3. CASE tx.parts # {}
      <4>1. \A k : k \in {k_1 \in 1 .. i + 1 : cut[k_1].parts # {}}
                     <=> k \in {k_1 \in 1 .. i : cut[k_1].parts # {}} \/ k = i + 1
        BY <2>4, <3>1, <3>3
      <4> QED BY <2>4, <3>3, <4>1
    <3> QED BY <3>2, <3>3
  <2> HIDE DEF S
  <2>8. CASE tx.parts = {}
    <3>1. run[i + 1] = r /\ With(i + 1) = With(i)
      BY <2>6, <2>7, <2>8
    <3> HIDE DEF With, Sorted
    <3> QED BY <2>3, <3>1
  <2>9. CASE tx.parts # {}
    <3>1. run[i + 1] = Append(r, tx) /\ With(i + 1) = With(i) \cup {tx}
      BY <2>6, <2>7, <2>9
    <3>2. Len(r) \in Nat /\ DOMAIN r = 1 .. Len(r)
      BY <2>3, LenProperties
    <3>3. PICK n \in Nat : n = Len(r)
      BY <3>2
    <3>4. PICK t : t = run[i + 1]
      OBVIOUS
    <3>5. /\ t \in Seq(S) /\ Len(t) = n + 1 /\ t[n + 1] = tx
          /\ \A a \in 1 .. n : t[a] = r[a]
      BY <2>3, <2>5, <3>1, <3>3, <3>4, AppendProperties
    <3>6. DOMAIN t = 1 .. n + 1
      BY <3>5, LenProperties
    <3>7. \A a \in 1 .. n + 1 : a \in 1 .. n \/ a = n + 1
      OBVIOUS
    <3>8. n + 1 \in 1 .. n + 1 /\ \A a \in 1 .. n : a \in 1 .. n + 1
      OBVIOUS
    <3>9. ToSet(t) = With(i + 1)
      <4>1. ToSet(t) = ToSet(r) \cup {tx}
        BY <3>2, <3>3, <3>5, <3>6, <3>7, <3>8 DEF ToSet
      <4> HIDE DEF With
      <4> QED BY <2>3, <3>1, <4>1
    <3>10. Sorted(t)
      <4> SUFFICES ASSUME NEW a \in 1 .. n + 1, NEW b \in 1 .. n + 1, a < b
                   PROVE  t[a].index < t[b].index
        BY <3>6
      <4>1. CASE b = n + 1
        <5>1. a \in 1 .. n /\ t[a] = r[a] /\ t[b] = tx
          BY <3>5, <4>1
        <5>2. r[a] \in With(i)
          BY <2>3, <3>2, <3>3, <5>1 DEF ToSet
        <5>3. PICK k \in 1 .. i : r[a] = cut[k]
          BY <5>2
        <5>4. cut[k].index = k - 1
          BY <2>1, <5>3
        <5> QED BY <2>5, <5>1, <5>3, <5>4
      <4>2. CASE b # n + 1
        <5>1. a \in 1 .. n /\ b \in 1 .. n
          BY <4>2
        <5> QED BY <2>3, <3>2, <3>3, <3>5, <5>1
      <4> QED BY <4>1, <4>2
    <3> HIDE DEF With, Sorted
    <3> QED BY <3>4, <3>5, <3>9, <3>10
  <2> QED BY <2>8, <2>9
<1>5. m \in I
  <2> HIDE DEF I
  <2> QED BY <1>3, <1>4, RetainFold!SetInduction
<1>6. Kept(m)
  BY <1>5
<1>7. PICK kept : kept = run[m]
  OBVIOUS
<1>8. kept \in Seq(S) /\ ToSet(kept) = With(m) /\ Sorted(kept)
  BY <1>6, <1>7
<1>9. kept = FoldLeft(retain, << >>, cut)
  BY <1>1, <1>2, <1>7
<1> HIDE DEF I, Kept
<1> QED BY <1>8, <1>9

\* A list of pools and what it is resolved to, for one kind of data.
LEMMA PoolsResolved ==
  ASSUME NEW request, Ranged(request), request.pools \in Seq(STRING), NEW part \in Part
  PROVE  LET pools == IF request.kind = "range" THEN from_pool_types(request.pools)
                      ELSE from_pool_types_dropping_transparent(request.pools)
         IN  PoolOf(part) \in Wanted(request) <=> part \notin UNION {Carries[p] : p \in DOMAIN Carries \ pools}
<1> DEFINE list  == request.pools
           pools == IF request.kind = "range" THEN from_pool_types(list)
                    ELSE from_pool_types_dropping_transparent(list)
           Four  == {"sapling", "orchard", "ironwood", "transparent"}
<1>1. DOMAIN Carries = Four
  BY DEF Carries
<1>2. PoolOf(part) \in Four /\ \A p \in Four : part \in Carries[p] <=> p = PoolOf(part)
  BY DEF PoolOf, Carries, Part
<1>3. list = << >> <=> Range(list) = {}
  <2>1. Len(list) \in Nat /\ DOMAIN list = 1 .. Len(list)
    BY LenProperties
  <2>2. Range(list) = {} <=> DOMAIN list = {}
    BY DEF Range
  <2>3. Len(list) # 0 => 1 \in DOMAIN list
    BY <2>1
  <2>4. list # << >> => Len(list) # 0
    BY EmptySeq
  <2> QED BY <2>2, <2>3, <2>4
<1> HIDE DEF list
<1>4. CASE request.kind = "range"
  <2>1. pools = {p \in Pool : list = << >> \/ p \in Range(list)}
                  \cup (IF "transparent" \in Range(list) THEN {"transparent"} ELSE {})
    BY <1>4 DEF from_pool_types, resolve
  <2>2. Wanted(request) = IF Range(list) = {} THEN Pool ELSE Range(list)
    BY <1>4 DEF Wanted, list
  <2>3. \A p \in Four : p \in pools <=> p \in Wanted(request)
    BY <1>3, <2>1, <2>2 DEF Pool
  <2> HIDE DEF pools, Four
  <2>4. PoolOf(part) \in Wanted(request) <=> part \notin UNION {Carries[p] : p \in DOMAIN Carries \ pools}
    BY <1>1, <1>2, <2>3
  <2> QED BY <2>4 DEF pools, list
<1>5. CASE request.kind = "range_nullifiers"
  <2>1. pools = {p \in Pool : (\A i \in DOMAIN list : list[i] = "transparent") \/ p \in Range(list)}
    BY <1>5 DEF from_pool_types_dropping_transparent, resolve
  <2>2. Wanted(request) = IF Range(list) \ {"transparent"} = {} THEN Pool ELSE Range(list) \ {"transparent"}
    BY <1>5 DEF Wanted, list
  <2>3. (\A i \in DOMAIN list : list[i] = "transparent") <=> Range(list) \ {"transparent"} = {}
    BY DEF Range
  <2>4. \A p \in Four : p \in pools <=> p \in Wanted(request)
    BY <2>1, <2>2, <2>3 DEF Pool
  <2> HIDE DEF pools, Four
  <2>5. PoolOf(part) \in Wanted(request) <=> part \notin UNION {Carries[p] : p \in DOMAIN Carries \ pools}
    BY <1>1, <1>2, <2>4
  <2> QED BY <2>5 DEF pools, list
<1> QED BY <1>4, <1>5 DEF Ranged

\* Clearing some of a transaction's data leaves its index and id alone.
LEMMA PartsCleared ==
  ASSUME NEW n, NEW t, NEW had, NEW cleared
  PROVE  [[index |-> n, txid |-> t, parts |-> had] EXCEPT !.parts = @ \ cleared]
           = [index |-> n, txid |-> t, parts |-> had \ cleared]
OBVIOUS

\* What a range method makes of a fetched block, transaction by transaction.
LEMMA TransformProjects ==
  ASSUME NEW request \in Requests, Ranged(request), NEW block, Parsed(block)
  PROVE  LET b == block.hash
             vtx == transform(request, block).vtx
             held(k)    == {part \in PartsOf[TxsOf[b][k]] : ~(k = 1 /\ part = "vin")}
             asked(k)   == {part \in held(k) : PoolOf(part) \in Wanted(request)}
             brought(k) == [index |-> k - 1, txid |-> TxsOf[b][k],
                            parts |-> IF request.kind = "range_nullifiers"
                                      THEN asked(k) \cap Nullifiers ELSE asked(k)]
         IN  /\ ToSet(vtx) = {brought(k) : k \in {k \in DOMAIN TxsOf[b] : asked(k) # {}}}
             /\ \A m, n \in DOMAIN vtx : m < n => vtx[m].index < vtx[n].index
<1> DEFINE b == block.hash
           txs == TxsOf[b]
           held(k)  == {part \in PartsOf[txs[k]] : ~(k = 1 /\ part = "vin")}
           asked(k) == {part \in held(k) : PoolOf(part) \in Wanted(request)}
           pools == IF request.kind = "range" THEN from_pool_types(request.pools)
                    ELSE from_pool_types_dropping_transparent(request.pools)
           cut  == [i \in DOMAIN block.vtx |-> filter_tx_to_pools(block.vtx[i], pools)]
           kept == FoldLeft(retain, << >>, cut)
           lost == UNION {Carries[p] : p \in DOMAIN Carries \ pools}
           whole(k) == [index |-> k - 1, txid |-> txs[k], parts |-> asked(k)]
<1>1. b \in Block /\ txs \in Seq(UNION {Range(TxsOf[c]) : c \in Block})
  BY ReadsAssumption DEF Parsed
<1>2. PICK m \in Nat : m = Len(txs) /\ DOMAIN txs = 1 .. m
  BY <1>1, LenProperties
<1>3. \A k \in 1 .. m : PartsOf[txs[k]] \subseteq Part
  <2>1. \A k \in 1 .. m : txs[k] \in Range(TxsOf[b])
    BY <1>2 DEF Range
  <2> QED BY <1>1, <2>1, DeliveryAssumption
<1>4. request.pools \in Seq(STRING)
  BY DeliveryAssumption
<1>5. \A part \in Part : PoolOf(part) \in Wanted(request) <=> part \notin lost
  BY <1>4, PoolsResolved
<1> HIDE DEF pools, lost
<1>6. DOMAIN block.vtx = 1 .. m /\ \A k \in 1 .. m : block.vtx[k] = to_compact_tx(k - 1, txs[k])
  BY <1>2 DEF Parsed
<1>7. ASSUME NEW k \in 1 .. m PROVE cut[k] = whole(k)
  <2>1. k - 1 = 0 <=> k = 1
    OBVIOUS
  <2>2. to_compact_tx(k - 1, txs[k]) = [index |-> k - 1, txid |-> txs[k], parts |-> held(k)]
    <3>1. (IF k - 1 = 0 THEN PartsOf[txs[k]] \ {"vin"} ELSE PartsOf[txs[k]]) = held(k)
      BY <2>1
    <3> QED BY <3>1 DEF to_compact_tx
  <2>3. held(k) \ lost = asked(k)
    BY <1>3, <1>5
  <2> HIDE DEF held, asked
  <2>4. cut[k] = filter_tx_to_pools([index |-> k - 1, txid |-> txs[k], parts |-> held(k)], pools)
    BY <1>6, <2>2
  <2>5. filter_tx_to_pools([index |-> k - 1, txid |-> txs[k], parts |-> held(k)], pools)
          = [index |-> k - 1, txid |-> txs[k], parts |-> held(k) \ lost]
    <3>1. \A tx : filter_tx_to_pools(tx, pools) = [tx EXCEPT !.parts = @ \ lost]
      BY DEF filter_tx_to_pools, lost
    <3>2. PICK n, t, had, cleared : n = k - 1 /\ t = txs[k] /\ had = held(k) /\ cleared = lost
      OBVIOUS
    <3>3. filter_tx_to_pools([index |-> n, txid |-> t, parts |-> had], pools)
            = [[index |-> n, txid |-> t, parts |-> had] EXCEPT !.parts = @ \ cleared]
      BY <3>1, <3>2
    <3>4. filter_tx_to_pools([index |-> n, txid |-> t, parts |-> had], pools)
            = [index |-> n, txid |-> t, parts |-> had \ cleared]
      BY <3>3, PartsCleared
    <3> QED BY <3>2, <3>4
  <2> QED BY <2>3, <2>4, <2>5
<1>8. DOMAIN cut = 1 .. m /\ \A k \in 1 .. m : cut[k].index = k - 1 /\ cut[k].parts = asked(k)
  <2>1. DOMAIN cut = 1 .. m
    BY <1>6
  <2> HIDE DEF cut, asked
  <2> QED BY <1>7, <2>1
<1> HIDE DEF cut
<1>9. /\ ToSet(kept) = {cut[k] : k \in {k \in 1 .. m : cut[k].parts # {}}}
      /\ \A x, y \in DOMAIN kept : x < y => kept[x].index < kept[y].index
  BY <1>8, RetainKeeps
<1>10. filter_block_to_pools(block, pools) = [block EXCEPT !.vtx = kept]
  BY DEF filter_block_to_pools, cut
<1>11. block = [f \in {"height", "hash", "prev_hash", "vtx", "trees"} |-> block[f]]
  BY DEF Parsed
<1> HIDE DEF kept, held, asked
<1>12. {k \in 1 .. m : cut[k].parts # {}} = {k \in 1 .. m : asked(k) # {}}
  BY <1>8
<1>13. ToSet(kept) = {whole(k) : k \in {k \in 1 .. m : asked(k) # {}}}
  BY <1>7, <1>9, <1>12
<1>14. CASE request.kind = "range"
  <2>1. transform(request, block) = [block EXCEPT !.vtx = kept]
    BY <1>10, <1>14 DEF transform, pools
  <2>2. transform(request, block).vtx = kept
    BY <1>11, <2>1
  <2>3. ToSet(kept) = {[index |-> k - 1, txid |-> txs[k],
                        parts |-> IF request.kind = "range_nullifiers"
                                  THEN asked(k) \cap Nullifiers ELSE asked(k)] :
                       k \in {k \in DOMAIN txs : asked(k) # {}}}
    BY <1>2, <1>13, <1>14
  <2> QED BY <1>9, <2>2, <2>3 DEF asked, held
<1>15. CASE request.kind = "range_nullifiers"
  <2> DEFINE bare(tx) == [tx EXCEPT !.parts = @ \ {"outputs", "vin", "vout", "action_notes", "ironwood_notes"}]
             vtx == [i \in DOMAIN kept |-> bare(kept[i])]
             brought(k) == [index |-> k - 1, txid |-> txs[k], parts |-> asked(k) \cap Nullifiers]
  <2>1. \A t : /\ [block EXCEPT !.vtx = t].vtx = t
               /\ [block EXCEPT !.vtx = t] = [f \in {"height", "hash", "prev_hash", "vtx", "trees"} |-> [block EXCEPT !.vtx = t][f]]
    BY <1>11
  <2>2. transform(request, block) = nullifiers_only([block EXCEPT !.vtx = kept])
    BY <1>10, <1>15 DEF transform, pools
  <2>3. transform(request, block).vtx = vtx
    BY <2>1, <2>2 DEF nullifiers_only
  <2>4. ASSUME NEW k \in 1 .. m PROVE bare(whole(k)) = brought(k)
    <3>1. asked(k) \subseteq Part
      BY <1>3 DEF asked, held
    <3>2. asked(k) \ {"outputs", "vin", "vout", "action_notes", "ironwood_notes"} = asked(k) \cap Nullifiers
      BY <3>1 DEF Part, Nullifiers
    <3>3. PICK n, t, had : n = k - 1 /\ t = txs[k] /\ had = asked(k)
      OBVIOUS
    <3>4. bare([index |-> n, txid |-> t, parts |-> had])
            = [index |-> n, txid |-> t,
               parts |-> had \ {"outputs", "vin", "vout", "action_notes", "ironwood_notes"}]
      BY PartsCleared
    <3> HIDE DEF bare
    <3> QED BY <3>2, <3>3, <3>4
  <2>5. \A i \in DOMAIN kept : kept[i] \in ToSet(kept)
    BY DEF ToSet
  <2>6. \A i \in DOMAIN kept : \E k \in 1 .. m : kept[i] = whole(k) /\ asked(k) # {}
    BY <1>13, <2>5
  <2>7. \A k \in 1 .. m : asked(k) # {} => \E i \in DOMAIN kept : kept[i] = whole(k)
    BY <1>13 DEF ToSet
  <2>8. \A i \in DOMAIN kept : vtx[i].index = kept[i].index
    <3>1. \A k \in 1 .. m : bare(whole(k)).index = whole(k).index
      BY <2>4
    <3> HIDE DEF bare, whole
    <3> QED BY <2>6, <3>1
  <2>9. ToSet(vtx) = {brought(k) : k \in {k \in 1 .. m : asked(k) # {}}}
    <3>1. DOMAIN vtx = DOMAIN kept /\ \A i \in DOMAIN kept : vtx[i] = bare(kept[i])
      OBVIOUS
    <3> HIDE DEF vtx, bare, whole, brought
    <3>2. ASSUME NEW x \in ToSet(vtx) PROVE \E k \in 1 .. m : asked(k) # {} /\ x = brought(k)
      <4>1. PICK i \in DOMAIN kept : x = bare(kept[i])
        BY <3>1, <3>2 DEF ToSet
      <4> QED BY <2>4, <2>6, <4>1
    <3>3. ASSUME NEW k \in 1 .. m, asked(k) # {} PROVE brought(k) \in ToSet(vtx)
      <4>1. PICK i \in DOMAIN kept : kept[i] = whole(k)
        BY <2>7, <3>3
      <4>2. vtx[i] = brought(k) /\ i \in DOMAIN vtx
        BY <2>4, <3>1, <4>1
      <4> QED BY <4>2 DEF ToSet
    <3> QED BY <3>2, <3>3
  <2>10. {brought(k) : k \in {k \in 1 .. m : asked(k) # {}}} =
           {[index |-> k - 1, txid |-> txs[k],
             parts |-> IF request.kind = "range_nullifiers"
                       THEN asked(k) \cap Nullifiers ELSE asked(k)] :
              k \in {k \in DOMAIN txs : asked(k) # {}}}
    BY <1>2, <1>15
  <2>11. DOMAIN vtx = DOMAIN kept
    OBVIOUS
  <2> HIDE DEF vtx, brought
  <2>12. \A x, y \in DOMAIN vtx : x < y => vtx[x].index < vtx[y].index
    BY <1>9, <2>8, <2>11
  <2> QED BY <2>3, <2>9, <2>10, <2>12 DEF asked, held
<1> QED BY <1>14, <1>15 DEF Ranged

(***************************************************************************)
(* filter.rs: a range brings a wallet exactly the data of the pools it     *)
(* asked for, in the blocks' order, for any blocks, requests and frames.   *)
(***************************************************************************)
THEOREM RangesAreProjections == DeliverySpec => []DeliveredIsProjection
<1>1. DeliveryInv /\ Sends(stream) => DeliveredIsProjection
  <2> SUFFICES ASSUME DeliveryInv, Sends(stream), stream.request # None, Ranged(stream.request),
                      NEW i \in DOMAIN FlattenSeq(stream.wire)
               PROVE  LET sent == FlattenSeq(stream.wire)
                          b == stream.fetched[i].hash
                          held(k)    == {part \in PartsOf[TxsOf[b][k]] : ~(k = 1 /\ part = "vin")}
                          asked(k)   == {part \in held(k) : PoolOf(part) \in Wanted(stream.request)}
                          brought(k) == [index |-> k - 1, txid |-> TxsOf[b][k],
                                         parts |-> IF stream.request.kind = "range_nullifiers"
                                                   THEN asked(k) \cap Nullifiers ELSE asked(k)]
                      IN  /\ sent[i].hash = b
                          /\ ToSet(sent[i].vtx) = {brought(k) : k \in {k \in DOMAIN TxsOf[b] : asked(k) # {}}}
                          /\ \A m, n \in DOMAIN sent[i].vtx :
                               m < n => sent[i].vtx[m].index < sent[i].vtx[n].index
    BY DEF DeliveredIsProjection
  <2>1. IsSequence(stream.fetched)
    BY DEF DeliveryInv, FetchInv
  <2>2. /\ Batched(stream.wire, stream.pending, stream.bytes, Messages(stream))
        /\ stream.request \in Requests
        /\ \A j \in DOMAIN stream.fetched : Parsed(stream.fetched[j])
    BY DEF Sends
  <2>3. /\ i \in DOMAIN stream.fetched
        /\ FlattenSeq(stream.wire)[i] = transform(stream.request, stream.fetched[i])
    BY <2>1, <2>2, SentAreMessages
  <2>4. PICK request \in Requests : request = stream.request
    BY <2>2
  <2>5. PICK block : block = stream.fetched[i]
    OBVIOUS
  <2>6. PICK message : message = FlattenSeq(stream.wire)[i]
    OBVIOUS
  <2>7. Ranged(request) /\ Parsed(block) /\ message = transform(request, block)
    BY <2>2, <2>3, <2>4, <2>5, <2>6
  <2>8. message.hash = block.hash
    BY <2>7, TransformKeepsHash
  <2>9. LET b == block.hash
            vtx == message.vtx
            held(k)    == {part \in PartsOf[TxsOf[b][k]] : ~(k = 1 /\ part = "vin")}
            asked(k)   == {part \in held(k) : PoolOf(part) \in Wanted(request)}
            brought(k) == [index |-> k - 1, txid |-> TxsOf[b][k],
                           parts |-> IF request.kind = "range_nullifiers"
                                     THEN asked(k) \cap Nullifiers ELSE asked(k)]
        IN  /\ ToSet(vtx) = {brought(k) : k \in {k \in DOMAIN TxsOf[b] : asked(k) # {}}}
            /\ \A m, n \in DOMAIN vtx : m < n => vtx[m].index < vtx[n].index
    BY <2>7, TransformProjects
  <2> QED BY <2>4, <2>5, <2>6, <2>8, <2>9
<1> QED BY <1>1, DeliveryConsistent, SendingConsistent, PTL

=============================================================================
