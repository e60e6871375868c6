---------------------------- MODULE MCLifecycle ----------------------------
(***************************************************************************)
(* Instances of Lifecycle for TLC: every command line that differs in at   *)
(* most two flags from one that serves in plaintext, and one scan and two  *)
(* other permits, which abandoned calls fill while two wallets compete.    *)
(***************************************************************************)
EXTENDS Lifecycle, TLC

MCPermits == "scan" :> 1 @@ "general" :> 2

DefaultLimits ==
  [limit \in Limit |-> IF limit = "client_node_concurrency" THEN 2 ELSE 1]

Plain ==
  [darkside |-> FALSE, nocache |-> FALSE, start_height |-> None,
   snapshot_serve |-> FALSE, snapshot_bind |-> None, snapshot_url |-> None,
   snapshot_max_concurrent_downloads |-> 4, snapshot_compression_level |-> 3,
   grpc_web |-> FALSE, grpc_web_allow_origin |-> << >>,
   no_tls |-> TRUE, gen_cert |-> FALSE, tls_cert |-> FALSE, tls_key |-> FALSE,
   backend |-> "rpc", zebra_indexer_url |-> FALSE, donation_address |-> None,
   rpc_url |-> None, rpc_host |-> None, rpc_port |-> None,
   rpc_user |-> None, rpc_password |-> None, zcash_conf |-> None,
   limits |-> DefaultLimits]

Line(key, value) == [key |-> key, value |-> value]

Files ==
  {[name |-> "zcash.conf", text |-> <<Line("rpcuser", "u1"), Line("#", ""), Line("rpcuser", "u2"),
                                      Line("rpcpassword", "p1"), Line("rpcport", "18232")>>],
   [name |-> "zcash.conf", text |-> <<Line("rpcport", "18232"), Line("rpcport", "unparsable"),
                                      Line("rpcbind", "10.0.0.1")>>],
   [name |-> "zcash.conf", text |-> <<Line("rpcuser", "u1"), Line("[section]", "")>>],
   [name |-> "toml", text |-> << >>],
   [name |-> "missing", text |-> << >>]}

\* The values each flag takes in these instances; a file has no name of a flag.
Values(flag) ==
  CASE flag = "start_height" -> {0}
    [] flag = "snapshot_bind" -> {"0.0.0.0:9069"}
    [] flag = "snapshot_url" -> {"https", "http", "ftp", "malformed"}
    [] flag = "snapshot_max_concurrent_downloads" -> {0}
    [] flag = "snapshot_compression_level" -> {-1, 0, 22, 23}
    [] flag = "grpc_web_allow_origin" -> {<<"origin">>, <<"origin", "longer">>, <<"opaque">>}
    [] flag = "backend" -> {"readstate"}
    [] flag = "donation_address" -> {"unified", "undecodable"}
    [] flag = "rpc_url" -> {"http://node"}
    [] flag = "rpc_host" -> {"node"}
    [] flag = "rpc_port" -> {"9"}
    [] flag = "rpc_user" -> {"u"}
    [] flag = "rpc_password" -> {"p"}
    [] flag = "zcash_conf" -> Files
    [] flag = "limits" -> {[DefaultLimits EXCEPT ![limit] = 0] : limit \in Limit}
    [] OTHER -> {~Plain[flag]}

MCCommandLines ==
  {Plain, [Plain EXCEPT !.no_tls = FALSE, !.tls_cert = TRUE, !.tls_key = TRUE],
   [Plain EXCEPT !.backend = "readstate", !.zebra_indexer_url = TRUE, !.darkside = TRUE]} \cup
  UNION {{[Plain EXCEPT ![f] = v, ![g] = x] : v \in Values(f), x \in Values(g)}
           : f \in DOMAIN Plain, g \in DOMAIN Plain}

MCChainNames == {"main", "regtest", ""}
\* One floor for every server with a cache: no property looks at its height.
MCSapling == "main" :> 0
=============================================================================
