--------------------------- MODULE Configuration ---------------------------
(***************************************************************************)
(* From the command line to the resolved configuration (config.rs).  A     *)
(* command line is a record with one field per flag; a flag that takes an  *)
(* optional value has None when it is absent.  Every operator named after  *)
(* a function that can fail returns Refused where the function fails: the  *)
(* order of the checks decides only which message the operator reads.      *)
(***************************************************************************)
EXTENDS Integers, SequencesExt

CONSTANTS None, Refused

MAX_COMPRESSION_LEVEL == 22

Switch == {"darkside", "nocache", "snapshot_serve", "grpc_web", "no_tls", "gen_cert",
           "tls_cert", "tls_key", "zebra_indexer_url"}

Setting == {"start_height", "snapshot_bind", "snapshot_url", "snapshot_max_concurrent_downloads",
            "snapshot_compression_level", "grpc_web_allow_origin", "backend",
            "donation_address", "rpc_url", "rpc_host", "rpc_port", "rpc_user", "rpc_password",
            "zcash_conf", "limits"}

\* The flags that must be above zero for the server to make progress.
Limit == {"max_concurrent_streams", "keepalive_interval_secs", "keepalive_timeout_secs",
          "ingest_window", "ingest_concurrency",
          "client_node_concurrency", "client_scan_concurrency"}

IsCommandLine(cli) ==
  /\ DOMAIN cli = Switch \cup Setting
  /\ \A flag \in Switch : cli[flag] \in BOOLEAN
  /\ cli.limits \in [Limit -> Nat]
  /\ cli.backend \in {"rpc", "readstate"}
  /\ cli.snapshot_max_concurrent_downloads \in Nat
  /\ cli.zcash_conf # None => cli.zcash_conf.text \in Seq([key : STRING, value : STRING])

-----------------------------------------------------------------------------
SnapshotIgnoresCache(cli) ==   \* mutant: the check that --nocache starves it is missing
  IF ~cli.snapshot_serve THEN IF cli.snapshot_bind # None THEN Refused ELSE None
  ELSE IF \/ cli.darkside \/ cli.snapshot_max_concurrent_downloads = 0
          \/ cli.snapshot_compression_level \notin 0 .. MAX_COMPRESSION_LEVEL THEN Refused
  ELSE [max_concurrent_downloads |-> cli.snapshot_max_concurrent_downloads]

\* What this instance publishes, refusing what it could not actually serve.
resolve_snapshot(cli) ==
  IF ~cli.snapshot_serve THEN IF cli.snapshot_bind # None THEN Refused ELSE None
  ELSE IF \/ cli.nocache \/ cli.darkside
          \/ cli.snapshot_max_concurrent_downloads = 0
          \/ cli.snapshot_compression_level \notin 0 .. MAX_COMPRESSION_LEVEL THEN Refused
  ELSE [max_concurrent_downloads |-> cli.snapshot_max_concurrent_downloads]

\* Only an origin that is its own serialisation can match a browser's header.
validate_origin(origin) == origin = "origin"

resolve_grpc_web(cli) ==
  IF ~cli.grpc_web THEN IF cli.grpc_web_allow_origin # << >> THEN Refused ELSE None
  ELSE IF cli.grpc_web_allow_origin = << >> THEN "any"
  ELSE IF \A i \in DOMAIN cli.grpc_web_allow_origin :
            validate_origin(cli.grpc_web_allow_origin[i]) THEN "only"
  ELSE Refused

\* A peer is imported from only into a cache that lasts and that is of a real chain.
resolve_snapshot_url(cli) ==
  IF cli.snapshot_url = None THEN None
  ELSE IF cli.snapshot_url \notin {"http", "https"} \/ cli.nocache \/ cli.darkside THEN Refused
  ELSE cli.snapshot_url

resolve_tls(cli) ==
  IF cli.gen_cert /\ (cli.no_tls \/ cli.tls_cert \/ cli.tls_key) THEN Refused
  ELSE IF cli.no_tls THEN "disabled"
  ELSE IF cli.gen_cert THEN "generated"
  ELSE IF cli.tls_cert /\ cli.tls_key THEN "enabled"
  ELSE Refused

resolve_backend(cli) ==
  IF cli.backend = "rpc" THEN "rpc"
  ELSE IF cli.darkside \/ ~cli.zebra_indexer_url THEN Refused
  ELSE "readstate"

-----------------------------------------------------------------------------
(***************************************************************************)
(* A zcash.conf is [name, text]: name is "toml" for a file of that         *)
(* extension, "missing" for one that cannot be read, and text the sequence *)
(* of its lines, [key, value] or a "[section]" header.  Comments, blanks   *)
(* and unknown keys are lines with another key.                            *)
(***************************************************************************)
ConfKey == {"rpcuser", "rpcpassword", "rpcbind", "rpcport"}

looks_like_toml(text) == \E i \in DOMAIN text : text[i].key = "[section]"

\* The value a line leaves behind: a port that does not parse unsets the port.
Parsed(line) == IF line.key = "rpcport" /\ line.value = "unparsable" THEN None ELSE line.value

\* A later line overrides an earlier one; an unknown key is passed over.
ReadLine(acc, line) ==
  IF line.key \in ConfKey THEN [acc EXCEPT ![line.key] = Parsed(line)] ELSE acc

parse_zcash_conf(conf) ==
  IF conf = None THEN [key \in ConfKey |-> None]
  ELSE IF conf.name \in {"toml", "missing"} \/ looks_like_toml(conf.text) THEN Refused
  ELSE FoldLeft(ReadLine, [key \in ConfKey |-> None], conf.text)

Or(value, fallback) == IF value = None THEN fallback ELSE value

\* Flags before the file, the file before the defaults; a url overrides host and port.
NodeConfig(cli, conf) ==
  [user |-> Or(cli.rpc_user, Or(conf["rpcuser"], "")),
   password |-> Or(cli.rpc_password, Or(conf["rpcpassword"], "")),
   url |-> Or(cli.rpc_url,
              <<Or(cli.rpc_host, Or(conf["rpcbind"], "127.0.0.1")),
                Or(cli.rpc_port, Or(conf["rpcport"], "8232"))>>)]

-----------------------------------------------------------------------------
resolve(cli) ==
  LET snapshot == resolve_snapshot(cli)
      grpc_web == resolve_grpc_web(cli)
      url      == resolve_snapshot_url(cli)
      conf     == parse_zcash_conf(cli.zcash_conf)
      tls      == resolve_tls(cli)
      backend  == resolve_backend(cli)
  IN  IF \/ Refused \in {snapshot, grpc_web, url, conf, tls, backend}
         \/ cli.donation_address = "undecodable"
         \/ \E limit \in Limit : cli.limits[limit] = 0
      THEN Refused
      ELSE [node |-> NodeConfig(cli, conf), start_height |-> cli.start_height,
            tls |-> tls, grpc_web |-> grpc_web,
            snapshot |-> snapshot, snapshot_url |-> url, darkside |-> cli.darkside,
            nocache |-> cli.nocache, limits |-> cli.limits, backend |-> backend]
=============================================================================
