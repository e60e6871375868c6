----------------------------- MODULE MCDarkside -----------------------------
(***************************************************************************)
(* An instance of Darkside for TLC: chains that start at height 5 or 6, a  *)
(* raw block with a transaction besides the synthetic ones, and calls that *)
(* name heights from below the chain to above it.                          *)
(***************************************************************************)
EXTENDS Darkside, TLC

MCTx == {"t1", "t2"}
MCNotes == "t1" :> 1 @@ "t2" :> 2
MCRawBlock == {[height |-> 6, root |-> <<"raw", 6>>, txs |-> <<"t2">>]}
MCHeights == 4 .. 6
MCLimit == "reset" :> 2 @@ "block" :> 3 @@ "tx" :> 2 @@ "apply" :> 2
=============================================================================
