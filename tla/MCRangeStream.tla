--------------------------- MODULE MCRangeStream ---------------------------
(***************************************************************************)
(* Instances of RangeStream for TLC, over MCIngestor's block tree.         *)
(***************************************************************************)
EXTENDS RangeStream, MCIngestor

\* Chains long enough that every request below ends at or under the tip.
TwoChains == {Restrict(Main, 0 .. 3), Restrict(ForkA, 0 .. 3)}

BothWays == {<<1, 3>>, <<3, 1>>}

StreamBounds == {BoundOf(1, 1, 1, 0, 0)}
=============================================================================
