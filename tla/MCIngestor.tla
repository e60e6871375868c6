----------------------------- MODULE MCIngestor -----------------------------
(***************************************************************************)
(* Instances of Ingestor for TLC.  The block tree has a main branch m, a   *)
(* branch a that leaves it at height 2 and a branch b that leaves it at    *)
(* height 1: a shallow reorganisation, and one that reaches the floor.     *)
(***************************************************************************)
EXTENDS Ingestor, TLC

MCBlock == {"m0", "m1", "m2", "m3", "m4", "a2", "a3", "a4", "b1", "b2", "b3"}

MCHeightOf ==
  "m0" :> 0 @@ "m1" :> 1 @@ "m2" :> 2 @@ "m3" :> 3 @@ "m4" :> 4 @@
  "a2" :> 2 @@ "a3" :> 3 @@ "a4" :> 4 @@ "b1" :> 1 @@ "b2" :> 2 @@ "b3" :> 3

MCPrevHash ==
  "m0" :> None @@ "m1" :> "m0" @@ "m2" :> "m1" @@ "m3" :> "m2" @@ "m4" :> "m3" @@
  "a2" :> "m1" @@ "a3" :> "a2" @@ "a4" :> "a3" @@ "b1" :> "m0" @@ "b2" :> "b1" @@ "b3" :> "b2"

Main  == 0 :> "m0" @@ 1 :> "m1" @@ 2 :> "m2" @@ 3 :> "m3" @@ 4 :> "m4"
ForkA == 0 :> "m0" @@ 1 :> "m1" @@ 2 :> "a2" @@ 3 :> "a3" @@ 4 :> "a4"
ForkB == 0 :> "m0" @@ 1 :> "b1" @@ 2 :> "b2" @@ 3 :> "b3"

\* Three full branches, and the main one cut short.
MCChains == {Main, ForkA, ForkB, Restrict(Main, 0 .. 2)}

NoLevers == {}
Levers == {0, 3}

NoReports == {}
Reports == {1, 2, 4}

BoundOf(move, fault, damage, report, restart) ==
  [k \in Occurrence |->
     CASE k = "move" -> move [] k = "fault" -> fault [] k = "damage" -> damage
       [] k = "report" -> report [] k = "restart" -> restart]

\* Each two kinds of event meet in one of the bounds, and two reports in the last.
IngestorBounds ==
  {BoundOf(2, 0, 0, 1, 1), BoundOf(1, 0, 1, 1, 1), BoundOf(2, 1, 1, 0, 0),
   BoundOf(1, 1, 0, 1, 1), BoundOf(1, 0, 0, 2, 0)}

FloorBounds == {BoundOf(1, 0, 0, 0, 1)}
=============================================================================
