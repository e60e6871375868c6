----------------------------- MODULE NodeReads -----------------------------
(***************************************************************************)
(* The two backends behind the NodeRpc trait (node/mod.rs).  The JSON-RPC  *)
(* client asks the node, which answers one request from one chain.  The    *)
(* readstate backend (node/readstate.rs) answers the same call from a      *)
(* number of separate reads of a co-located state, and the best chain may  *)
(* change between two of them.                                             *)
(*                                                                         *)
(* A block is its hash, a note-commitment tree its size, a subtree its     *)
(* root; the state answers by the best chain only.                         *)
(***************************************************************************)
EXTENDS Integers, Sequences, FiniteSets, FiniteSetsExt, SequencesExt, Functions

CONSTANTS
  None,        \* no value
  Block,       \* block hashes
  Chains,      \* the best chains the node may be on, as far as calls look: height -> block
  TxsOf,       \* TxsOf[b]: the txids of block b, in order
  Trees,       \* Trees[b][p]: size of pool p's tree after b, None before its first note
  Subtrees,    \* Subtrees[b][p]: roots of the subtrees of p complete at b
  Activation,  \* Activation[p]: height of the upgrade that brings pool p
  Touching,    \* the transactions that touch the addresses asked for
  Pending,     \* the transactions in the mempool while no block holds them
  U16, U32,    \* 2^16 and 2^32: what the state's indexes and heights count to
  MaxHeight,   \* block::Height::MAX
  Calls,       \* the <<method, argument>> pairs asked for
  MaxMoves     \* how often the node may change its chain

Pool == {"sapling", "orchard", "ironwood"}

MAX_SUBTREE_INDEX == U16 - 1

\* What the methods of the trait are called with: parse_hash_or_height tells a
\* height from a hash.
Id == Nat \cup Block

Argument ==
  [verbose |-> Id, raw |-> Id, hash |-> Id, treestate |-> Id, hashes |-> Seq(Nat),
   txids |-> Nat \X Nat,
   subtrees |-> Pool \X (0 .. MAX_SUBTREE_INDEX) \X (0 .. MAX_SUBTREE_INDEX)]

Takes(method, arg) ==
  \/ method \in {"info", "transaction", "utxos"}
  \/ method \in DOMAIN Argument /\ arg \in Argument[method]

ASSUME ReadsAssumption ==
  /\ None \notin Id /\ Block \cap Nat = {}
  /\ MaxHeight \in Nat /\ U32 \in Nat /\ MaxHeight < U32
  /\ TxsOf \in [Block -> Seq(UNION {Range(TxsOf[b]) : b \in Block})]
  /\ Activation \in [Pool -> Nat]
  /\ MaxMoves \in Nat

\* A block commits to its height.
ASSUME ChainsAssumption ==
  /\ \A c \in Chains :
       /\ c \in [DOMAIN c -> Block]
       /\ \E tip \in DOMAIN c : tip <= MaxHeight /\ DOMAIN c \subseteq 0 .. tip
  /\ \A c, d \in Chains : \A h \in DOMAIN c, k \in DOMAIN d : c[h] = d[k] => h = k

\* A tree of depth 32 has subtrees of depth 16: an index holds each of them.
ASSUME SubtreesAssumption ==
  /\ U16 \in Nat \ {0}
  /\ \A b \in Block, p \in Pool :
       Subtrees[b][p] \in Seq(Range(Subtrees[b][p])) /\ Len(Subtrees[b][p]) <= U16

\* A wallet names any pool, start and limit; the service bounds them (AskNode).
ASSUME CallsAssumption ==
  \A c \in Calls : IF c[1] = "subtrees" THEN c[2] \in STRING \X Nat \X Nat
                                        ELSE Takes(c[1], c[2])

VARIABLES
  node,     \* the best chain
  backend,  \* the configured backend: "rpc" or "readstate"
  call,     \* the call in flight, or the last one with its answer
  moves     \* how often the node may still move

readVars == <<node, backend, call, moves>>

Ok(value) == <<"ok", value>>
Err(code) == <<"error", code>>

Unanswered == << >>

IsOk(answer) == answer # Unanswered /\ answer[1] = "ok"

\* RPC_BLOCK_NOT_FOUND, RPC_MISC_NOT_FOUND, zebrad's code for a bad argument,
\* and the failures that carry no code.
NotFound  == Err("-8")
NoSuchTx  == Err("-5")
BadArg    == Err("-1")
NoAnswer  == Err("none")

Tip(chain) == Max(DOMAIN chain)

\* Height and hash come from one read.
best_tip(chain) == <<Tip(chain), chain[Tip(chain)]>>

HeightIn(chain, b) == CHOOSE h \in DOMAIN chain : chain[h] = b

\* The block a height or hash names on a chain.
BlockAt(chain, id) ==
  IF id \in Block THEN (IF id \in Range(chain) THEN id ELSE None)
                  ELSE (IF id \in DOMAIN chain THEN chain[id] ELSE None)

\* The heights of a chain whose block holds a transaction: one at most.
MinedAt(chain, tx) == {h \in DOMAIN chain : tx \in Range(TxsOf[chain[h]])}

\* The transactions touching the addresses in a span of heights, oldest first.
TouchingIn(chain, low, high) ==
  LET heights == SetToSortSeq({h \in DOMAIN chain : low <= h /\ h <= high}, <)
  IN  SelectSeq(FlattenSeq([i \in DOMAIN heights |-> TxsOf[chain[heights[i]]]]),
                LAMBDA tx : tx \in Touching)

-----------------------------------------------------------------------------
(***************************************************************************)
(* What the node answers from one chain (external: zebrad's JSON-RPC).     *)
(***************************************************************************)
NodeTransaction(chain, tx) ==
  IF MinedAt(chain, tx) # {} THEN Ok(<<tx, Max(MinedAt(chain, tx))>>)
  ELSE IF tx \in Pending THEN Ok(<<tx, 0>>) ELSE NoSuchTx

NodeTxids(chain, start, end) ==
  LET low  == Min({start, Tip(chain)})
      high == IF end = 0 THEN Tip(chain) ELSE Min({end, Tip(chain)})
  IN  IF low > high THEN BadArg ELSE Ok(TouchingIn(chain, low, high))

\* The roots from start on, max of them at most, all of them for 0.
RootsFrom(chain, pool, start, max) ==
  LET roots == Subtrees[chain[Tip(chain)]][pool]
      last  == IF max = 0 THEN Len(roots) ELSE Min({Len(roots), start + max})
  IN  SubSeq(roots, start + 1, last)

\* Both are 16 bits wide: anything wider is "Invalid params" (docs/decisions/0030).
NodeSubtrees(chain, pool, start, max) ==
  IF pool \notin Pool \/ start > MAX_SUBTREE_INDEX \/ max > MAX_SUBTREE_INDEX THEN BadArg
  ELSE Ok(RootsFrom(chain, pool, start, max))

SizesAt(b) == [p \in Pool |-> IF Trees[b][p] = None THEN 0 ELSE Trees[b][p]]

NodeAnswer(chain, method, arg) ==
  LET b == IF method \in {"verbose", "raw", "treestate", "hash"} THEN BlockAt(chain, arg) ELSE None
  IN  CASE method = "info"        -> Ok(best_tip(chain))
        [] method = "verbose"     -> IF b = None THEN NotFound
                                     ELSE Ok([hash |-> b, tx |-> TxsOf[b], trees |-> SizesAt(b)])
        [] method \in {"raw", "hash"} -> IF b = None THEN NotFound ELSE Ok(b)
        [] method = "treestate"   -> IF b = None THEN NotFound
                                     ELSE Ok([hash |-> b, pools |->
                                       [p \in Pool |-> IF HeightIn(chain, b) >= Activation[p]
                                                       THEN Trees[b][p] ELSE None]])
        [] method = "hashes"      -> IF Range(arg) \subseteq DOMAIN chain
                                     THEN Ok([i \in DOMAIN arg |-> chain[arg[i]]]) ELSE NotFound
        [] method = "transaction" -> NodeTransaction(chain, arg)
        [] method = "utxos"       -> Ok(TouchingIn(chain, 0, Tip(chain)))
        [] method = "txids"       -> NodeTxids(chain, arg[1], arg[2])
        [] method = "subtrees"    -> NodeSubtrees(chain, arg[1], arg[2], arg[3])

-----------------------------------------------------------------------------
(***************************************************************************)
(* The JSON-RPC client.                                                    *)
(***************************************************************************)
\* batch_request: results in the order asked, whatever order the replies come
\* in; the last of two wins.  An error reply, an unknown id or a missing reply
\* fails the batch.
batch_request(n, replies) ==
  LET slot(i) == {k \in DOMAIN replies : replies[k].id = i}
      ids     == {replies[k].id : k \in DOMAIN replies}
  IN  IF \E k \in DOMAIN replies : replies[k].result = None THEN NotFound
      ELSE IF ids # 1 .. n THEN NoAnswer
      ELSE Ok([i \in 1 .. n |-> replies[Max(slot(i))].result])

\* Replies to the calls of a batch in any order, some missing, some twice, or
\* one with an id nobody gave out.
Replies(chain, heights) ==
  LET reply(i) == [id |-> i, result |-> BlockAt(chain, heights[i])]
      stray    == [id |-> 0, result |-> chain[Tip(chain)]]
      any      == {reply(i) : i \in DOMAIN heights} \cup {stray}
  IN  UNION {[1 .. k -> any] : k \in 0 .. Len(heights) + 1}

\* raw_request, request and the typed wrappers: one round trip, which a broken
\* transport, an oversized body or an undecodable one turns into an error.
RpcAnswers(chain, method, arg) ==
  {NoAnswer} \cup
  IF method = "hashes" THEN {batch_request(Len(arg), r) : r \in Replies(chain, arg)}
                       ELSE {NodeAnswer(chain, method, arg)}

-----------------------------------------------------------------------------
(***************************************************************************)
(* The readstate backend: a method is a list of reads and an answer put    *)
(* together from what they returned.                                       *)
(***************************************************************************)
WrapsAround(h) == h % U32   \* mutant: an "as u32" cast

state_height(h) == IF h < U32 /\ h <= MaxHeight THEN h ELSE None

\* An id a read can be keyed by: a hash, or a height the state can hold.
Key(id) == IF id \in Block THEN id ELSE state_height(id)

Clamped(h, tip) == IF state_height(h) = None THEN tip ELSE Min({state_height(h), tip})

ReadsOf(method, arg) ==
  CASE method = "info"        -> <<"tip">>
    [] method = "verbose"     -> <<"block", "txids", "sapling", "orchard", "ironwood">>
    [] method = "treestate"   -> <<"block", "sapling", "orchard", "ironwood">>
    [] method \in {"raw", "hash"} -> <<"block">>
    [] method = "hashes"      -> [i \in DOMAIN arg |-> "block"]
    [] method = "transaction" -> <<"mined">>
    [] method = "utxos"       -> <<"utxos">>
    [] method = "txids"       -> <<"tip", "txids_of_addresses">>
    [] method = "subtrees"    -> <<"subtrees">>

\* get_subtrees: a start the index cannot hold matches nothing, a limit it
\* cannot hold is the largest one.
get_subtrees(chain, pool, start, max) ==
  IF start > MAX_SUBTREE_INDEX THEN Ok(<< >>)
  ELSE IF pool \notin Pool THEN BadArg
  ELSE Ok(RootsFrom(chain, pool, start, Min({max, MAX_SUBTREE_INDEX})))

get_address_txids(chain, tip, start, end) ==
  LET low  == Clamped(start, tip)
      high == IF end = 0 THEN tip ELSE Clamped(end, tip)
  IN  IF low > high THEN BadArg ELSE Ok(TouchingIn(chain, low, high))

\* The next read of the state, by the chain it is on at that moment.  A tree
\* read is keyed by the call's own id, not by the block the first one returned.
Read(chain, c) ==
  LET read == ReadsOf(c.method, c.arg)[Len(c.got) + 1]
      id   == IF c.method = "hashes" THEN c.arg[Len(c.got) + 1] ELSE c.arg
      b    == IF read \in {"block", "txids"} \cup Pool THEN BlockAt(chain, Key(id)) ELSE None
  IN  CASE read = "block"    -> IF b = None THEN NotFound ELSE Ok(b)
        [] read = "tip"      -> Ok(best_tip(chain))
        [] read = "txids"    -> Ok(IF b = None THEN << >> ELSE TxsOf[b])
        [] read \in Pool     -> Ok(IF b = None THEN None ELSE Trees[b][read])
        [] read = "mined"    -> Ok(MinedAt(chain, c.arg))
        [] read = "utxos"    -> Ok(TouchingIn(chain, 0, Tip(chain)))
        [] read = "txids_of_addresses" ->
             get_address_txids(chain, c.got[1][1], c.arg[1], c.arg[2])
        [] read = "subtrees" -> get_subtrees(chain, c.arg[1], c.arg[2], c.arg[3])

\* The trees among what was read, the first of them at position first.
TreesRead(got, first) ==
  [sapling |-> got[first], orchard |-> got[first + 1], ironwood |-> got[first + 2]]

tree_sizes(got) ==
  LET trees == TreesRead(got, 3)
  IN  [p \in Pool |-> IF trees[p] = None THEN 0 ELSE trees[p]]

\* get_treestate leaves a pool out below the height of its upgrade.
ActivePools(got, height) ==
  [p \in Pool |-> IF height >= Activation[p] THEN TreesRead(got, 2)[p] ELSE None]

HeightOfBlock(b) == CHOOSE h \in UNION {DOMAIN c : c \in Chains} :
                      \E c \in Chains : h \in DOMAIN c /\ c[h] = b

\* A transaction no block holds is asked for at the node, by now.
Assembled(chain, c) ==
  CASE c.method = "verbose"     -> Ok([hash |-> c.got[1], tx |-> c.got[2], trees |-> tree_sizes(c.got)])
    [] c.method = "treestate"   -> Ok([hash |-> c.got[1],
                                       pools |-> ActivePools(c.got, HeightOfBlock(c.got[1]))])
    [] c.method = "hashes"      -> Ok(c.got)
    [] c.method = "transaction" -> IF c.got[1] # {} THEN Ok(<<c.arg, Max(c.got[1])>>)
                                   ELSE NodeTransaction(chain, c.arg)
    [] OTHER                    -> Ok(Last(c.got))

-----------------------------------------------------------------------------
NoCall == [method |-> "none", arg |-> None, got |-> << >>, answer |-> Unanswered, moved |-> FALSE]

Asking(method, arg) == [NoCall EXCEPT !.method = method, !.arg = arg]

InFlight == call.method # "none" /\ call.answer = Unanswered

\* The reads of the call that are still to be made.
ReadsLeft == Len(ReadsOf(call.method, call.arg)) - Len(call.got)

NodeMoves(chain) ==
  /\ chain # node
  /\ moves > 0
  /\ moves' = moves - 1
  /\ node' = chain
  /\ call' = [call EXCEPT !.moved = TRUE]
  /\ UNCHANGED backend

RpcCall ==
  /\ InFlight
  /\ backend = "rpc"
  /\ \E answer \in RpcAnswers(node, call.method, call.arg) : call' = [call EXCEPT !.answer = answer]
  /\ UNCHANGED <<node, backend, moves>>

\* A failed read ends the call.
StateRead ==
  LET read == Read(node, call)
  IN  /\ InFlight
      /\ backend = "readstate"
      /\ ReadsLeft > 0
      /\ call' = IF IsOk(read) THEN [call EXCEPT !.got = Append(@, read[2])]
                               ELSE [call EXCEPT !.answer = read]
      /\ UNCHANGED <<node, backend, moves>>

StateAnswers ==
  /\ InFlight
  /\ backend = "readstate"
  /\ ReadsLeft = 0
  /\ call' = [call EXCEPT !.answer = Assembled(node, call)]
  /\ UNCHANGED <<node, backend, moves>>

\* The state service fails, or has no tip yet.
StateFails ==
  /\ InFlight
  /\ backend = "readstate"
  /\ call' = [call EXCEPT !.answer = NoAnswer]
  /\ UNCHANGED <<node, backend, moves>>

Answering == RpcCall \/ StateRead \/ StateAnswers \/ StateFails

ReadsInit ==
  /\ node \in Chains
  /\ backend \in {"rpc", "readstate"}
  /\ call = NoCall
  /\ moves = MaxMoves

-----------------------------------------------------------------------------
(***************************************************************************)
(* get_treestate's note that both backends are wire-identical, for every   *)
(* method: while the best chain stays put during a call, the readstate     *)
(* backend answers exactly what the node itself would have answered, at    *)
(* heights beyond their integer width too, and a batch over JSON-RPC what  *)
(* its calls one by one would have.  Of subtrees only because the service  *)
(* bounds start and limit to 16 bits first (get_subtree_roots): beyond     *)
(* them the node answers an error and get_subtrees does not.               *)
(***************************************************************************)
BackendsAgree ==
  call.answer # Unanswered /\ ~call.moved =>
    call.answer \in {NoAnswer, NodeAnswer(node, call.method, call.arg)}
=============================================================================
