---------------------------- MODULE MCNodeCalls ----------------------------
(***************************************************************************)
(* An instance of NodeCalls for TLC: one wallet and one permit of a kind.  *)
(***************************************************************************)
EXTENDS NodeCalls, TLC

OnePermit == "scan" :> 1 @@ "general" :> 1
=============================================================================
