----------------------------- MODULE MCImport -------------------------------
(***************************************************************************)
(* Instances of SnapshotImport for TLC: epochs of two heights, a main      *)
(* branch m and a branch a that leaves it in the middle of epoch 1.        *)
(***************************************************************************)
EXTENDS SnapshotImport, TLC

MCBlock == {"m0", "m1", "m2", "m3", "m4", "m5", "m6", "a3", "a4", "a5", "a6"}

MCHeightOf ==
  "m0" :> 0 @@ "m1" :> 1 @@ "m2" :> 2 @@ "m3" :> 3 @@ "m4" :> 4 @@ "m5" :> 5 @@ "m6" :> 6 @@
  "a3" :> 3 @@ "a4" :> 4 @@ "a5" :> 5 @@ "a6" :> 6

MCPrevHash ==
  "m0" :> None @@ "m1" :> "m0" @@ "m2" :> "m1" @@ "m3" :> "m2" @@ "m4" :> "m3" @@
  "m5" :> "m4" @@ "m6" :> "m5" @@ "a3" :> "m2" @@ "a4" :> "a3" @@ "a5" :> "a4" @@ "a6" :> "a5"

Main == 0 :> "m0" @@ 1 :> "m1" @@ 2 :> "m2" @@ 3 :> "m3" @@ 4 :> "m4" @@ 5 :> "m5" @@ 6 :> "m6"
Fork == Restrict(Main, 0 .. 2) @@ 3 :> "a3" @@ 4 :> "a4" @@ 5 :> "a5" @@ 6 :> "a6"

\* Both branches, and a node that has not caught up.
MCNodeChains == {Main, Fork, Restrict(Main, 0 .. 4)}

\* Runs that start mid-epoch on either branch, one that starts higher, and two
\* a faulty publisher could hold: spliced from both branches inside an epoch,
\* and with a record that fails its checks.
MCPeerRuns ==
  {Restrict(Main, 1 .. 6), Restrict(Fork, 1 .. 6), Restrict(Main, 3 .. 6),
   [Restrict(Main, 1 .. 6) EXCEPT ![5] = "a5"],
   [Restrict(Main, 1 .. 6) EXCEPT ![3] = Corrupt]}

MCLimit ==
  "node" :> 2 @@ "peer" :> 1 @@ "fault" :> 1 @@ "restart" :> 1 @@ "rollback" :> 1
=============================================================================
