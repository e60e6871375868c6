----------------------------- MODULE MCDelivery -----------------------------
(***************************************************************************)
(* Instances of Delivery for TLC: genesis and heights 16 to 18, where the  *)
(* height in a coinbase turns from an opcode into a push, on a main branch *)
(* m, a branch a that leaves it at 17, and main with only 16 and below.    *)
(* Orchard is active from 17, ironwood from 18.                            *)
(***************************************************************************)
EXTENDS Delivery, TLC

CONSTANTS g0, m15, m16, m17, m18, a17, a18   \* block hashes

MCBlock == {g0, m16, m17, m18, a17, a18}

Main == 0 :> g0 @@ 16 :> m16 @@ 17 :> m17 @@ 18 :> m18
Fork == 0 :> g0 @@ 16 :> m16 @@ 17 :> a17 @@ 18 :> a18
MCChains == {Main, Fork, Restrict(Main, {0, 16, 17})}

MCPrevHash ==
  g0 :> None @@ m16 :> m15 @@ m17 :> m16 @@ m18 :> m17 @@ a17 :> m16 @@ a18 :> a17

\* The genesis coinbase pushes the target difficulty.
MCScript ==
  g0 :> <<4, 255, 255, 7, 31, 1>> @@ m16 :> <<96, 0>> @@ m17 :> <<1, 17, 9>> @@
  m18 :> <<1, 18, 9>> @@ a17 :> <<1, 17>> @@ a18 :> <<1, 18>>

\* Transaction u is mined in m17 or, on the other branch, in a18.
MCTxsOf ==
  g0 :> <<"c0">> @@ m16 :> <<"c1", "t">> @@ m17 :> <<"c2", "u">> @@
  m18 :> <<"c3", "v", "w">> @@ a17 :> <<"c4">> @@ a18 :> <<"c5", "u">>

MCPartsOf ==
  LET coinbase == {"vin", "vout"}
  IN  [c \in {"c0", "c1", "c2", "c4", "c5"} |-> coinbase] @@
      "c3" :> coinbase \cup {"actions", "action_notes"} @@
      "t" :> {"vin", "vout", "outputs"} @@
      "u" :> {"spends", "outputs", "vin"} @@
      "v" :> {"outputs"} @@
      "w" :> {"ironwood_actions", "ironwood_notes", "actions", "action_notes"}

Sizes(sapling, orchard, ironwood) == "sapling" :> sapling @@ "orchard" :> orchard @@ "ironwood" :> ironwood

\* The state holds an empty tree for a pool that is not active yet.
MCTrees ==
  g0 :> Sizes(None, None, None) @@ m16 :> Sizes(1, 0, 0) @@ m17 :> Sizes(2, 0, 0) @@
  m18 :> Sizes(3, 2, 1) @@ a17 :> Sizes(1, 0, 0) @@ a18 :> Sizes(2, 0, 0)

MCSubtrees ==
  [b \in MCBlock |-> "sapling" :> (IF b = m18 THEN <<"r0", "r1", "r2", "r3">> ELSE <<"r0", "r1">>) @@
                     "orchard" :> <<"s0">> @@ "ironwood" :> << >>]

MCActivation == "sapling" :> 16 @@ "orchard" :> 17 @@ "ironwood" :> 18

\* Calls at and beyond the widths of heights and indexes.  Every subtree there can
\* be is complete at m18.
MCCalls ==
  {<<"info", None>>, <<"verbose", 48>>, <<"treestate", 16>>, <<"treestate", 17>>, <<"treestate", m18>>,
   <<"hash", 49>>, <<"hashes", <<18, 16>>>>, <<"transaction", "u">>, <<"transaction", "p">>,
   <<"transaction", "q">>, <<"utxos", None>>, <<"txids", <<17, 0>>>>, <<"txids", <<16, 40>>>>,
   <<"txids", <<18, 17>>>>, <<"subtrees", <<"sapling", 1, 1>>>>, <<"subtrees", <<"sapling", 0, 9>>>>,
   <<"subtrees", <<"sapling", 9, 0>>>>, <<"subtrees", <<"sprout", 0, 0>>>>}

MCBadRaw == {[block |-> a17, form |-> "whole"], [block |-> m18, form |-> "trailing"]}

Ask(kind, pools, from, to) == [kind |-> kind, pools |-> pools, from |-> from, to |-> to]

MCRequests ==
  {Ask("range", pools, 16, 18) : pools \in {<< >>, <<"transparent">>, <<"ironwood", "ironwood">>,
                                            <<"transparent", "sapling">>}} \cup
  {Ask("range_nullifiers", pools, 18, 16) : pools \in {<<"transparent">>, <<"orchard", "transparent">>,
                                                       <<"sapling">>}} \cup
  {Ask("range", <<"invalid">>, 16, 17), Ask("range", <<"orchard", "orchard", "orchard">>, 16, 17),
   Ask("range", << >>, 0, 17), Ask("range", << >>, 16, 20), Ask("range", << >>, 18, 19),
   Ask("block", << >>, 17, 17), Ask("block_nullifiers", << >>, 18, 18), Ask("block", << >>, 0, 0),
   Ask("ingest", << >>, 0, 0), Ask("ingest", << >>, 17, 17)}
=============================================================================
