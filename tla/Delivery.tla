------------------------------ MODULE Delivery ------------------------------
(***************************************************************************)
(* The way of a block from the node to a wallet: the two calls of          *)
(* fetch::compact_block over either backend, the compact form and the      *)
(* checks it must pass (compact.rs, fetch.rs), the link to the block       *)
(* before it (service/blocks.rs), the pools the wallet asked for           *)
(* (filter.rs) and the frames the messages leave in (service/framing.rs).  *)
(* Every height is a miss here; the cache's part is RangeStream.           *)
(*                                                                         *)
(* A transaction is the set of kinds of data in it, a message the blocks   *)
(* with what is left of their transactions.                                *)
(***************************************************************************)
EXTENDS NodeReads

CONSTANTS
  PrevHash,      \* PrevHash[b]: the hash in b's header
  Script,        \* Script[b]: bytes of the coinbase's scriptSig
  PartsOf,       \* PartsOf[tx]: the kinds of data in transaction tx
  BadRaw,        \* wrong or damaged bytes a node may return for a hash
  Requests,      \* what wallets and the ingestor ask for
  MaxPoolTypes,  \* MAX_POOL_TYPES
  MaxBlockRange, \* MAX_BLOCK_RANGE
  BatchBytes     \* BATCH_BYTES

Part == {"spends", "outputs", "actions", "action_notes",
         "ironwood_actions", "ironwood_notes", "vin", "vout"}

ASSUME DeliveryAssumption ==
  /\ \A b \in Block : \A tx \in Range(TxsOf[b]) : PartsOf[tx] \subseteq Part
  /\ {MaxPoolTypes, MaxBlockRange, BatchBytes} \subseteq Nat \ {0}
  /\ \A r \in Requests : r.from \in Nat /\ r.to \in Nat /\ r.pools \in Seq(STRING)

VARIABLE stream   \* the request being served: its progress, batch and frames; its field
                  \* held is history, the chains the node was on during this fetch

deliveryVars == <<readVars, stream>>

-----------------------------------------------------------------------------
(***************************************************************************)
(* compact.rs: from bytes to the compact form.                             *)
(***************************************************************************)
OP_0  == 0
OP_1  == 81
OP_16 == 96
GENESIS_TARGET_DIFFICULTY == 520617983

LittleEndian(bytes) == FoldRight(LAMBDA byte, high : byte + 256 * high, bytes, 0)

coinbase_height(script) ==
  LET first  == IF script = << >> THEN None ELSE script[1]
      pushed == IF first = None THEN None
                ELSE IF first = OP_0 THEN 0
                ELSE IF first \in OP_1 .. OP_16 THEN first - (OP_1 - 1)
                ELSE IF first > 8 \/ Len(script) < 1 + first THEN None
                ELSE LittleEndian(SubSeq(script, 2, 1 + first))
  IN  IF pushed = GENESIS_TARGET_DIFFICULTY THEN 0 ELSE pushed

\* A coinbase leaves out its null input.
to_compact_tx(index, tx) ==
  [index |-> index, txid |-> tx,
   parts |-> IF index = 0 THEN PartsOf[tx] \ {"vin"} ELSE PartsOf[tx]]

\* The bytes of a block are cut short, run on, declare no transaction, or are
\* whole.
to_compact_block(raw) ==
  LET height == coinbase_height(Script[raw.block])
      txs    == TxsOf[raw.block]
  IN  IF raw.form # "whole" \/ height = None THEN Err("parse")
      ELSE Ok([height |-> height, hash |-> raw.block, prev_hash |-> PrevHash[raw.block],
               vtx    |-> [i \in DOMAIN txs |-> to_compact_tx(i - 1, txs[i])],
               trees  |-> [p \in Pool |-> 0]])

HashUnchecked(height, verbose, raw) ==   \* mutant: bytes not held against the hash
  LET parsed == to_compact_block(raw)
  IN  IF ~IsOk(parsed) THEN parsed
      ELSE IF parsed[2].height # height THEN Err("UnexpectedHeight")
      ELSE Ok([parsed[2] EXCEPT !.trees = verbose.trees])

\* fetch::compact_block, once both answers are in.
checked_block(height, verbose, raw) ==
  LET parsed == to_compact_block(raw)
      txids  == [i \in DOMAIN parsed[2].vtx |-> parsed[2].vtx[i].txid]
  IN  IF ~IsOk(parsed) THEN parsed
      ELSE IF parsed[2].height # height THEN Err("UnexpectedHeight")
      ELSE IF parsed[2].hash # verbose.hash THEN Err("HashMismatch")
      ELSE IF verbose.tx # << >> /\ Len(verbose.tx) # Len(txids) THEN Err("TxCountMismatch")
      ELSE IF verbose.tx # << >> /\ verbose.tx # txids THEN Err("TxidMismatch")
      ELSE Ok([parsed[2] EXCEPT !.trees = verbose.trees])

-----------------------------------------------------------------------------
(***************************************************************************)
(* filter.rs: what a request keeps of a block.                             *)
(***************************************************************************)
validate_pool_types(list) == Len(list) <= MaxPoolTypes /\ "invalid" \notin Range(list)

resolve(list, transparent, shielded) ==
  {p \in Pool : shielded \/ p \in Range(list)} \cup (IF transparent THEN {"transparent"} ELSE {})

from_pool_types(list) == resolve(list, "transparent" \in Range(list), list = << >>)

OnlyWhatIsNamed(list) == resolve(list, FALSE, list = << >>)   \* mutant: no shielded default

from_pool_types_dropping_transparent(list) ==
  resolve(list, FALSE, \A i \in DOMAIN list : list[i] = "transparent")

\* What is cleared of a transaction for each pool not asked for.
Carries == [sapling     |-> {"spends", "outputs"},
            orchard     |-> {"actions", "action_notes"},
            ironwood    |-> {"ironwood_actions", "ironwood_notes"},
            transparent |-> {"vin", "vout"}]

filter_tx_to_pools(tx, pools) ==
  [tx EXCEPT !.parts = @ \ UNION {Carries[p] : p \in DOMAIN Carries \ pools}]

retain(kept, tx) == IF tx.parts = {} THEN kept ELSE Append(kept, tx)

filter_block_to_pools(block, pools) ==
  LET cut == [i \in DOMAIN block.vtx |-> filter_tx_to_pools(block.vtx[i], pools)]
  IN  [block EXCEPT !.vtx = FoldLeft(retain, << >>, cut)]

nullifiers_only(block) ==
  LET bare(tx) ==
        [tx EXCEPT !.parts = @ \ {"outputs", "vin", "vout", "action_notes", "ironwood_notes"}]
  IN  [block EXCEPT !.trees = [p \in Pool |-> 0],
                    !.vtx = [i \in DOMAIN block.vtx |-> bare(block.vtx[i])]]

\* The transform each method hands to the stream; GetBlock hands none.
transform(request, block) ==
  CASE request.kind = "range" -> filter_block_to_pools(block, from_pool_types(request.pools))
    [] request.kind = "range_nullifiers" ->
         nullifiers_only(filter_block_to_pools(block,
                                               from_pool_types_dropping_transparent(request.pools)))
    [] request.kind = "block_nullifiers" -> nullifiers_only(block)
    [] request.kind \in {"block", "ingest"} -> block

-----------------------------------------------------------------------------
(***************************************************************************)
(* framing.rs: messages are held back until they are worth a frame.        *)
(***************************************************************************)
encoded_len(message) ==
  1 + SumFunction([i \in DOMAIN message.vtx |-> 1 + Cardinality(message.vtx[i].parts)])

push(s, message) ==
  LET bytes == s.bytes + encoded_len(message)
  IN  IF bytes >= BatchBytes
      THEN [s EXCEPT !.wire = Append(@, Append(s.pending, message)), !.pending = << >>, !.bytes = 0]
      ELSE [s EXCEPT !.pending = Append(@, message), !.bytes = bytes]

flush(s) ==
  IF s.pending = << >> THEN s
  ELSE [s EXCEPT !.wire = Append(@, s.pending), !.pending = << >>, !.bytes = 0]

-----------------------------------------------------------------------------
(***************************************************************************)
(* Serving a request.                                                      *)
(***************************************************************************)
Ranged(request) == request.kind \in {"range", "range_nullifiers"}

\* validate_block_range; a single block is asked for by its height.
Admitted(request) ==
  CASE Ranged(request) ->
         /\ validate_pool_types(request.pools)
         /\ request.from # 0 /\ request.to # 0
         /\ Max({request.from, request.to}) - Min({request.from, request.to}) + 1 <= MaxBlockRange
    [] request.kind \in {"block", "block_nullifiers"} -> request.from # 0
    [] request.kind = "ingest" -> TRUE

NoStream == [phase |-> "idle", request |-> None, at |-> 0, verbose |-> None, link |-> None,
             pending |-> << >>, bytes |-> 0, wire |-> << >>, fetched |-> << >>, held |-> {}]

Idle == stream.phase \in {"idle", "refused", "done", "failed"} /\ ~InFlight

Accept(request) ==
  /\ Idle
  /\ IF Admitted(request)
     THEN /\ stream' = [NoStream EXCEPT !.phase = "verbose", !.request = request, !.at = request.from,
                                      !.held = {node}]
          /\ call' = Asking("verbose", request.from)
     ELSE /\ stream' = [NoStream EXCEPT !.phase = "refused"]
          /\ call' = NoCall
  /\ UNCHANGED <<node, backend, moves>>

UnboundedSubtrees(pool, start, max) == <<pool, start, max>>   \* mutant: forwarded unchecked

\* What get_subtree_roots asks the node for, None for a request it refuses.
get_subtree_roots(pool, start, max) ==
  IF pool \notin Pool \/ start > MAX_SUBTREE_INDEX THEN None
  ELSE <<pool, start, IF max > MAX_SUBTREE_INDEX THEN 0 ELSE max>>

\* Any other method: one call.
AskNode(c) ==
  LET bounded == get_subtree_roots(c[2][1], c[2][2], c[2][3])
  IN  /\ Idle
      /\ IF c[1] = "subtrees" /\ bounded = None
         THEN /\ stream' = [NoStream EXCEPT !.phase = "refused"]
              /\ call' = NoCall
         ELSE /\ stream' = NoStream
              /\ call' = Asking(c[1], IF c[1] = "subtrees" THEN bounded ELSE c[2])
      /\ UNCHANGED <<node, backend, moves>>

Answered(phase) == stream.phase = phase /\ call.answer # Unanswered

DropsBatch(s) == [s EXCEPT !.phase = "failed", !.pending = << >>]   \* mutant: an error loses the batch

\* The prefix already produced still goes out ahead of the error.
Failed(s) == [flush(s) EXCEPT !.phase = "failed", !.verbose = None, !.held = {}]

Fail == /\ stream' = Failed(stream)
        /\ call' = NoCall
        /\ UNCHANGED <<node, backend, moves>>

GotVerbose ==
  /\ Answered("verbose")
  /\ IsOk(call.answer)
  /\ stream' = [stream EXCEPT !.phase = "raw", !.verbose = call.answer[2]]
  /\ call' = Asking("raw", call.answer[2].hash)
  /\ UNCHANGED <<node, backend, moves>>

CallFails ==
  /\ Answered("verbose") \/ Answered("raw")
  /\ ~IsOk(call.answer)
  /\ Fail

Descending == stream.request.from > stream.request.to

\* ChainLink: ascending the next block points at this one, descending this
\* one pointed at the next.
Connects(block) ==
  stream.link # None => stream.link = (IF Descending THEN block.hash ELSE block.prev_hash)

\* One block further, or the end of the range.
Delivered(block) ==
  LET message == transform(stream.request, block)
      sent    == IF Ranged(stream.request) THEN push(stream, message)
                 ELSE [stream EXCEPT !.wire = <<<<message>>>>]
      next    == [sent EXCEPT !.fetched = Append(@, block),
                              !.link = IF Descending THEN block.prev_hash ELSE block.hash]
  IN  IF stream.at = stream.request.to THEN [flush(next) EXCEPT !.phase = "done", !.verbose = None, !.held = {}]
      ELSE [next EXCEPT !.phase = "verbose", !.verbose = None,
                        !.at = IF Descending THEN @ - 1 ELSE @ + 1, !.held = {node}]

GotRaw(raw) ==
  LET checked == checked_block(stream.at, stream.verbose, raw)
  IN  /\ Answered("raw")
      /\ IsOk(call.answer)
      /\ raw = [block |-> call.answer[2], form |-> "whole"] \/ raw \in BadRaw
      /\ IF IsOk(checked) /\ Connects(checked[2])
         THEN /\ stream' = Delivered(checked[2])
              /\ call' = IF stream'.phase = "done" THEN NoCall ELSE Asking("verbose", stream'.at)
              /\ UNCHANGED <<node, backend, moves>>
         ELSE Fail

-----------------------------------------------------------------------------
Moves ==
  \E chain \in Chains :
    /\ NodeMoves(chain)
    /\ stream' = IF Idle THEN stream ELSE [stream EXCEPT !.held = @ \cup {chain}]

DeliveryInit == ReadsInit /\ stream = NoStream

DeliveryNext ==
  \/ Moves
  \/ Answering /\ UNCHANGED stream
  \/ \E request \in Requests : Accept(request)
  \/ \E c \in Calls : AskNode(c)
  \/ GotVerbose
  \/ CallFails
  \/ \E raw \in [block : Block, form : {"whole"}] \cup BadRaw : GotRaw(raw)

DeliverySpec == DeliveryInit /\ [][DeliveryNext]_deliveryVars

-----------------------------------------------------------------------------
(***************************************************************************)
(* fetch.rs: whichever backend answered, however the chain moved between   *)
(* the reads and whatever bytes came back for a hash, a block that is      *)
(* accepted was the node's block at the height asked for at some moment of *)
(* the fetch, with its own header and txids.                               *)
(***************************************************************************)
FetchedIsTheNodes ==
  [][Len(stream'.fetched) > Len(stream.fetched) =>
       LET got == Last(stream'.fetched)
       IN  /\ got.height = stream.at
           /\ \E c \in stream.held : stream.at \in DOMAIN c /\ c[stream.at] = got.hash
           /\ got.prev_hash = PrevHash[got.hash]
           /\ [k \in DOMAIN got.vtx |-> got.vtx[k].txid] = TxsOf[got.hash]
    ]_deliveryVars

(***************************************************************************)
(* The comment on fetch::compact_block: the tree sizes and the bytes refer *)
(* to the same block even across a reorg.                                  *)
(***************************************************************************)
SizesOfTheBlock ==
  \A i \in DOMAIN stream.fetched : stream.fetched[i].trees = SizesAt(stream.fetched[i].hash)

\* The pools a request asks for, a list that names none meaning the shielded.
Wanted(request) ==
  LET named == Range(request.pools)
                 \ (IF request.kind = "range_nullifiers" THEN {"transparent"} ELSE {})
  IN  IF named = {} THEN Pool ELSE named

PoolOf(part) ==
  CASE part \in {"spends", "outputs"} -> "sapling"
    [] part \in {"actions", "action_notes"} -> "orchard"
    [] part \in {"ironwood_actions", "ironwood_notes"} -> "ironwood"
    [] part \in {"vin", "vout"} -> "transparent"

Nullifiers == {"spends", "actions", "ironwood_actions"}

(***************************************************************************)
(* What a range brings a wallet is, transaction by transaction and in the  *)
(* block's order, the data of the pools it asked for and nothing else; no  *)
(* transaction with such data is missing, also from a nullifiers call that *)
(* then strips it bare, and no block is left out for being empty           *)
(* (filter.rs).                                                            *)
(***************************************************************************)
DeliveredIsProjection ==
  stream.request # None /\ Ranged(stream.request) =>
    LET sent == FlattenSeq(stream.wire)
    IN  \A i \in DOMAIN sent :
          LET b == stream.fetched[i].hash
              held(k)    == {part \in PartsOf[TxsOf[b][k]] : ~(k = 1 /\ part = "vin")}
              asked(k)   == {part \in held(k) : PoolOf(part) \in Wanted(stream.request)}
              brought(k) == [index |-> k - 1, txid |-> TxsOf[b][k],
                             parts |-> IF stream.request.kind = "range_nullifiers"
                                       THEN asked(k) \cap Nullifiers ELSE asked(k)]
          IN  /\ sent[i].hash = b
              /\ ToSet(sent[i].vtx) = {brought(k) : k \in {k \in DOMAIN TxsOf[b] : asked(k) # {}}}
              /\ \A m, n \in DOMAIN sent[i].vtx :
                   m < n => sent[i].vtx[m].index < sent[i].vtx[n].index

FrameBytes(frame) == FoldLeft(LAMBDA n, message : n + encoded_len(message), 0, frame)

(***************************************************************************)
(* framing.rs: every frame but the last is worth sending, and a stream     *)
(* that ends, by an error too, has delivered every message it produced, in *)
(* order.                                                                  *)
(***************************************************************************)
NothingWithheld ==
  stream.request # None /\ Ranged(stream.request) =>
    LET sent == FlattenSeq(stream.wire)
    IN  /\ Len(sent) + Len(stream.pending) = Len(stream.fetched)
        /\ \A i \in DOMAIN sent : sent[i].hash = stream.fetched[i].hash
        /\ \A f \in 1 .. Len(stream.wire) - 1 :
             FrameBytes(stream.wire[f]) >= BatchBytes
        /\ stream.phase \in {"done", "failed"} => stream.pending = << >>
=============================================================================
