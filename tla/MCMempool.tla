----------------------------- MODULE MCMempool -----------------------------
(***************************************************************************)
(* Instances of Mempool for TLC.                                           *)
(***************************************************************************)
EXTENDS Mempool, TLC

\* B and C extend A, C has more work; the node may be restarted from A.  B mines t1.
\* t2 does not parse; t1 and t3 share the suffix "short".
MCTip == {"A", "B", "C"}
MCNextTips == "A" :> {"B", "C"} @@ "B" :> {"A", "C"} @@ "C" :> {}
MCMined == "A" :> {} @@ "B" :> {"t1"} @@ "C" :> {}
MCTx == {"t1", "t2", "t3"}
MCGarbled == {"t2"}
MCSuffix == {"t1", "short", "33 bytes"}
MCEndsWith == "t1" :> {"t1"} @@ "short" :> {"t1", "t3"} @@ "33 bytes" :> {}
MCTooLong == {"33 bytes"}

Allow(txs, move, arrive, evict, fault, slow, list) ==
  [txs |-> txs, mined |-> MCMined, move |-> move, arrive |-> arrive, evict |-> evict, fault |-> fault,
   slow |-> slow, list |-> list]

\* Either the node misbehaves around the stream, or wallets poll.
MCAllowance ==
  {Allow({"t1", "t2"}, 2, 2, 0, 1, 1, 0), Allow({"t1", "t3"}, 1, 2, 1, 0, 0, 2)}
=============================================================================
