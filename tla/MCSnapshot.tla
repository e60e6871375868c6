----------------------------- MODULE MCSnapshot -----------------------------
(***************************************************************************)
(* Instances of SnapshotServe for TLC: epochs of two heights, of which the *)
(* floor clips the first.  Besides the main branch m, a branch a replaces  *)
(* the whole of epoch 1 and a branch b leaves in the middle of it.         *)
(***************************************************************************)
EXTENDS SnapshotServe, TLC

MCBlock == {"m1", "m2", "m3", "m4", "a2", "a3", "a4", "b3", "b4"}

MCHeightOf ==
  "m1" :> 1 @@ "m2" :> 2 @@ "m3" :> 3 @@ "m4" :> 4 @@
  "a2" :> 2 @@ "a3" :> 3 @@ "a4" :> 4 @@ "b3" :> 3 @@ "b4" :> 4

MCPrevHash ==
  "m1" :> None @@ "m2" :> "m1" @@ "m3" :> "m2" @@ "m4" :> "m3" @@
  "a2" :> "m1" @@ "a3" :> "a2" @@ "a4" :> "a3" @@ "b3" :> "m2" @@ "b4" :> "b3"
=============================================================================
