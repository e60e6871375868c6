----------------------------- MODULE Lifecycle -----------------------------
(***************************************************************************)
(* One run of the server, from its command line to its end (main.rs and    *)
(* run in lib.rs): resolve the configuration, reach the node, import a     *)
(* snapshot, spawn the background tasks, serve, and on a stop request      *)
(* drain the requests in flight: those of NodeCalls, and the responses     *)
(* that stream.  What the tasks do is the matter of the other modules.     *)
(***************************************************************************)
EXTENDS NodeCalls, Configuration

CONSTANTS
  CommandLines,   \* the command lines the operator may give
  ChainNames,     \* the names the node may report; "" stands for an unusable one
  Sapling,        \* Sapling[chain]: its activation height, where it is a constant
  BackoffCap,     \* the cap of connect_with_retry
  Signals         \* how many SIGINT or SIGTERM arrive

ASSUME LifecycleAssumption ==
  /\ DOMAIN Sapling \subseteq ChainNames /\ Sapling \in [DOMAIN Sapling -> Nat]
  /\ None \notin Nat \cup {"any", "only"} \cup [max_concurrent_downloads : Nat]
  /\ BackoffCap \in Nat \ {0} /\ Signals \in Nat
  /\ \A cli \in CommandLines :
       /\ IsCommandLine(cli)
       /\ cli.limits["client_scan_concurrency"] \in {0, Permits["scan"]}
       /\ cli.limits["client_node_concurrency"] \in {0, Permits["general"]}

VARIABLES
  phase,
  cli,       \* the command line, until it is resolved
  config,    \* the resolved configuration, until the server is wired
  chain,     \* the chain the node named
  backoff,   \* connect_with_retry's next delay
  tasks,     \* the background tasks, and "response" while a response streams
  wired,     \* what the streamer was built with
  handler,   \* whether tokio's signal handlers are installed
  stop,      \* what the server's shutdown future has to wake up for
  asked,     \* a stop request reached the process
  signals    \* signals yet to come

bootVars == <<cli, config, chain, backoff, wired>>
stopVars == <<handler, stop, asked, signals>>
lifeVars == <<phase, bootVars, tasks, stopVars, callVars>>

Ended == {"refused", "failed", "killed", "exited"}

Goes(from, to) == phase = from /\ phase' = to

\* The process is gone and its tasks with it; the node works on.
ProcessEnds(how) ==
  /\ phase' = how
  /\ tasks' = {}
  /\ req' = [w \in Wallet |-> Idle]
  /\ queue' = [p \in Pools |-> << >>]
  /\ free' = Permits
  /\ orphans' = [p \in Pools |-> 0]
  /\ forgotten' = working
  /\ UNCHANGED <<working, asks>>

-----------------------------------------------------------------------------
\* main: a command line that does not resolve is the end of it.
Resolve ==
  /\ phase = "resolving"
  /\ cli' = None
  /\ \/ /\ resolve(cli) = Refused
        /\ ProcessEnds("refused")
        /\ UNCHANGED config
     \/ /\ resolve(cli) # Refused
        /\ config' = resolve(cli)
        /\ phase' = "starting"
        /\ UNCHANGED <<tasks, callVars>>
  /\ UNCHANGED <<chain, backoff, wired, stopVars>>

\* The data directory, the metrics server (which may fail without harm), and
\* the transport with its TLS.
StartTransport ==
  /\ Goes("starting", IF config.darkside THEN "wiring" ELSE "connecting")
  /\ UNCHANGED <<bootVars, tasks, stopVars, callVars>>

\* connect_with_retry never gives up.
NodeUnreachable ==
  /\ phase = "connecting"
  /\ backoff' = IF 2 * backoff < BackoffCap THEN 2 * backoff ELSE BackoffCap
  /\ UNCHANGED <<phase, cli, config, chain, wired, tasks, stopVars, callVars>>

NodeReached(name) ==
  /\ Goes("connecting", "opening")
  /\ chain' = name
  /\ backoff' = 1
  /\ UNCHANGED <<cli, config, wired, tasks, stopVars, callVars>>

validate_chain_name(name) == name # ""

\* readstate_node: the zebra state of these networks only.
SupportedBy(backend, name) == backend = "readstate" => name \in {"main", "test"}

OpenBackend ==
  /\ Goes("opening", IF config.snapshot_url # None THEN "bootstrapping" ELSE "wiring")
  /\ SupportedBy(config.backend, chain)
  /\ validate_chain_name(chain)
  /\ UNCHANGED <<bootVars, tasks, stopVars, callVars>>

\* bootstrap_from_snapshot: a peer whose url makes no client is passed over.
PeerUnusable ==
  /\ Goes("bootstrapping", "wiring")
  /\ UNCHANGED <<bootVars, tasks, stopVars, callVars>>

\* The import runs beside shutdown_signal, which installs the handlers.
ImportStarts ==
  /\ Goes("bootstrapping", "importing")
  /\ handler' = TRUE
  /\ UNCHANGED <<bootVars, tasks, stop, asked, signals, callVars>>

\* Finished, nothing to import, or failed: each goes on to serve.
ImportEnds ==
  /\ Goes("importing", "wiring")
  /\ UNCHANGED <<bootVars, tasks, stopVars, callVars>>

default_start_height(name) == IF name \in DOMAIN Sapling THEN Sapling[name] ELSE 0

\* The tasks run spawns beside a live server.
LiveTasks(c) ==
  {"mempool"} \cup (IF c.nocache THEN {} ELSE {"ingestor"})
    \cup (IF c.snapshot = None THEN {} ELSE {"digests", "snapshots"})

\* An import raises the floor further (Ingestor).
Wire ==
  /\ Goes("wiring", "binding")
  /\ ~config.darkside
  /\ tasks' = LiveTasks(config)
  /\ wired' = [node   |-> "bulkhead",
               repair |-> ~config.nocache,
               floor  |-> IF config.nocache THEN None
                          ELSE Or(config.start_height, default_start_height(chain))]
  /\ config' = None /\ chain' = None
  /\ UNCHANGED <<cli, backoff, stopVars, callVars>>

\* darkside_components and the auto-shutdown timer: no node, no ingestor.
WireDarkside ==
  /\ Goes("wiring", "binding")
  /\ config.darkside
  /\ tasks' = {"timeout"}
  /\ wired' = [node |-> "mock", repair |-> FALSE, floor |-> None]
  /\ config' = None
  /\ UNCHANGED <<cli, chain, backoff, stopVars, callVars>>

\* bind_grpc, and the first poll of the server's shutdown future.
Bind ==
  /\ Goes("binding", "serving")
  /\ handler' = TRUE
  /\ UNCHANGED <<bootVars, tasks, stop, asked, signals, callVars>>

\* A data directory, certificate, state, cache or port that cannot be used;
\* a chain this build cannot serve.
StartupFails ==
  /\ phase \in {"starting", "opening", "wiring", "binding"}
  /\ ProcessEnds("failed")
  /\ UNCHANGED <<bootVars, stopVars>>

-----------------------------------------------------------------------------
\* Before any shutdown_signal was polled the default disposition holds.
SignalKills ==
  /\ signals > 0 /\ ~handler /\ phase \notin Ended
  /\ signals' = signals - 1
  /\ asked' = TRUE
  /\ ProcessEnds("killed")
  /\ UNCHANGED <<bootVars, handler, stop>>

\* select! drops the import; the epochs it committed stay.
SignalInterruptsImport ==
  /\ signals > 0 /\ phase = "importing"
  /\ signals' = signals - 1
  /\ asked' = TRUE
  /\ ProcessEnds("exited")
  /\ UNCHANGED <<bootVars, handler, stop>>

(***************************************************************************)
(* With the handlers installed and nothing waiting, between the import and *)
(* the server or while draining, a signal is lost once tokio's driver has  *)
(* broadcast it to no one.                                                 *)
(***************************************************************************)
SignalLost ==
  /\ signals > 0 /\ handler /\ phase \in {"wiring", "binding", "draining"}
  /\ signals' = signals - 1
  /\ UNCHANGED <<phase, bootVars, tasks, handler, stop, asked, callVars>>

SignalNoticed ==
  /\ signals > 0 /\ handler /\ phase \in {"wiring", "binding", "serving"}
  /\ signals' = signals - 1
  /\ asked' = TRUE
  /\ stop' = stop \cup {"signal"}
  /\ UNCHANGED <<phase, bootVars, tasks, handler, callVars>>

notify_waiters ==   \* mutant: only a server that already waits is woken
  /\ stop' = IF phase = "serving" THEN stop \cup {"notify"} ELSE stop
  /\ asked' = TRUE

\* A permit is stored for a server that does not wait yet.
notify_one ==
  /\ stop' = stop \cup {"notify"}
  /\ asked' = TRUE

\* The timer starts before the server does.
TimeoutElapses ==
  /\ "timeout" \in tasks
  /\ phase \in {"binding", "serving", "draining"}
  /\ tasks' = tasks \ {"timeout"}
  /\ notify_one
  /\ UNCHANGED <<phase, bootVars, handler, signals, callVars>>

\* The Stop method of the darkside service.
Stop ==
  /\ phase = "serving" /\ wired.node = "mock"
  /\ notify_one
  /\ UNCHANGED <<phase, bootVars, tasks, handler, signals, callVars>>

\* darkside_shutdown and shutdown_signal: the server stops accepting.
BeginDrain ==
  /\ stop # {}
  /\ Goes("serving", "draining")
  /\ stop' = {}
  /\ UNCHANGED <<bootVars, tasks, handler, asked, signals, callVars>>

\* serve_with_incoming_shutdown waits for all of them, however long.
Drained ==
  /\ phase = "draining"
  /\ "response" \notin tasks
  /\ \A w \in Wallet : req[w].phase = "idle"
  /\ ProcessEnds("exited")
  /\ UNCHANGED <<bootVars, stopVars>>

-----------------------------------------------------------------------------
\* What the wallets and their calls do, while the server is there.
Call(A) ==
  /\ phase \in {"serving", "draining"} /\ wired.node = "bulkhead"
  /\ A
  /\ UNCHANGED <<phase, bootVars, tasks, stopVars>>

\* Block ranges and mempool streams, and in darkside mode every request.
ResponseOpens ==
  /\ phase = "serving"
  /\ asks > 0
  /\ asks' = asks - 1
  /\ tasks' = tasks \cup {"response"}
  /\ UNCHANGED <<phase, bootVars, stopVars, req, queue, free, orphans, working, forgotten>>

\* The last of them was read to its end, or its client left.
ResponsesEnd ==
  /\ "response" \in tasks
  /\ tasks' = tasks \ {"response"}
  /\ UNCHANGED <<phase, bootVars, stopVars, callVars>>

WalletStep(w) == (req[w].phase = "idle" => phase = "serving") /\ Call(Step(w))

NodeWorksOn(p) ==
  /\ NodeFinishes(p)
  /\ UNCHANGED <<phase, bootVars, tasks, stopVars>>

\* What the request's own task does next, without its wallet's help.
Serve(w) ==
  \/ Ask(w) /\ ~Streamed(Upcoming(w))
  \/ Admit(w) \/ AdmitOverdue(w) \/ Refuse(w) \/ CallEnds(w)

\* The wallet reads what was sent, and the response is polled for more, or it leaves.
ReadsOrLeaves(w) == req[w].phase = "ready" /\ (Ask(w) \/ ClientCancels(w))

LifeInit ==
  /\ phase = "resolving"
  /\ cli \in CommandLines
  /\ config = None /\ chain = None /\ wired = None
  /\ backoff = 1
  /\ tasks = {}
  /\ handler = FALSE /\ stop = {} /\ asked = FALSE
  /\ signals = Signals
  /\ CallsInit

\* What run does by itself, once it is not waiting for the node or the peer.
RunStep ==
  \/ Resolve \/ StartTransport \/ OpenBackend \/ Wire \/ WireDarkside \/ Bind
  \/ StartupFails \/ BeginDrain \/ Drained

LifeNext ==
  \/ RunStep
  \/ NodeUnreachable
  \/ \E name \in ChainNames : NodeReached(name)
  \/ PeerUnusable \/ ImportStarts \/ ImportEnds
  \/ SignalKills \/ SignalInterruptsImport \/ SignalLost \/ SignalNoticed
  \/ TimeoutElapses \/ Stop
  \/ ResponseOpens \/ ResponsesEnd
  \/ \E w \in Wallet : WalletStep(w)
  \/ \E p \in Pools : Call(OrphanEnds(p)) \/ NodeWorksOn(p)

LifeSpec == LifeInit /\ [][LifeNext]_lifeVars

(***************************************************************************)
(* run and the request tasks are scheduled, and every node call returns    *)
(* within REQUEST_TIMEOUT; the node, the snapshot peer and the operator    *)
(* owe nothing.                                                            *)
(***************************************************************************)
ServerFairness ==
  /\ WF_lifeVars(RunStep)
  /\ \A w \in Wallet : WF_lifeVars(Call(Serve(w)))
  /\ \A p \in Pools : WF_lifeVars(Call(OrphanEnds(p)))

(***************************************************************************)
(* An assumption about the wallets, which nothing in the code enforces:    *)
(* each reads its response to the end or goes away.  A mempool stream ends *)
(* with the next block (Mempool); a connection that is dead is closed by   *)
(* the keepalive; one that is alive and does not read stays open.          *)
(***************************************************************************)
ClientsReadOrLeave ==
  /\ \A w \in Wallet : WF_lifeVars(Call(ReadsOrLeaves(w)))
  /\ WF_lifeVars(ResponsesEnd)

FairLifeSpec == LifeSpec /\ ServerFairness /\ ClientsReadOrLeave

-----------------------------------------------------------------------------
LastLine(text, key) ==
  LET at == {i \in DOMAIN text : text[i].key = key}
  IN  IF at = {} THEN None ELSE Parsed(text[CHOOSE i \in at : \A j \in at : j <= i])

FromFile(c, key) == IF c.zcash_conf = None THEN None ELSE LastLine(c.zcash_conf.text, key)

\* The flag's value, else that of the file's last line that sets it, else the default.
NodeAsAsked(c, node) ==
  /\ node.user = Or(c.rpc_user, Or(FromFile(c, "rpcuser"), ""))
  /\ node.password = Or(c.rpc_password, Or(FromFile(c, "rpcpassword"), ""))
  /\ IF c.rpc_url # None THEN node.url = c.rpc_url
     ELSE node.url = <<Or(c.rpc_host, Or(FromFile(c, "rpcbind"), "127.0.0.1")),
                       Or(c.rpc_port, Or(FromFile(c, "rpcport"), "8232"))>>

\* Every mode is on when its flag was given and only then, with what it needs.
ModesAsAsked(c, cfg) ==
  /\ cfg.darkside = c.darkside /\ cfg.nocache = c.nocache /\ cfg.backend = c.backend
  /\ cfg.start_height = c.start_height /\ cfg.snapshot_url = c.snapshot_url
  /\ cfg.snapshot # None <=> c.snapshot_serve
  /\ cfg.grpc_web # None <=> c.grpc_web
  /\ cfg.tls = "disabled" <=> c.no_tls
  /\ cfg.tls = "generated" <=> c.gen_cert
  /\ cfg.tls = "enabled" => c.tls_cert /\ c.tls_key
  /\ cfg.limits = c.limits /\ \A limit \in Limit : c.limits[limit] > 0

\* The two flags the code refuses to drop: without their switch nothing would use them.
NothingListensInVain(c, cfg) ==
  /\ c.snapshot_bind # None => cfg.snapshot # None
  /\ c.grpc_web_allow_origin # << >> => cfg.grpc_web = "only"

\* A command line is accepted.
AcceptsWhatWasAsked ==
  config = None /\ config' # None =>
    NodeAsAsked(cli, config'.node) /\ ModesAsAsked(cli, config') /\ NothingListensInVain(cli, config')

\* A server is put together from its configuration.
WiresWhatItAdvertises ==
  phase = "wiring" /\ phase' = "binding" =>
    /\ config.snapshot # None => {"ingestor", "digests", "snapshots"} \subseteq tasks'
    /\ config.snapshot_url # None => "ingestor" \in tasks'
    /\ wired'.repair <=> "ingestor" \in tasks'
    /\ wired'.floor # None <=> "ingestor" \in tasks'
    /\ config.darkside => tasks' = {"timeout"}
    /\ wired'.node = IF config.darkside THEN "mock" ELSE "bulkhead"
    /\ config.backend = "readstate" => ~config.darkside

(***************************************************************************)
(* Whatever combination of flags was accepted, the server is the one that  *)
(* was asked for and can do what it advertises.  Every node setting is the *)
(* flag's, else that of the last line of zcash.conf that sets it, else the *)
(* default; every mode is the one its flag names; an address to publish at *)
(* and a list of origins are never dropped (Cli::resolve).  Other flags    *)
(* are, beside one that leaves them no use: --tls-cert and --tls-key under *)
(* --no-tls-very-insecure, --rpc-host and --rpc-port under --rpc-url,      *)
(* --zebra-indexer-url under the rpc backend.  A published or imported     *)
(* cache has an ingestor that keeps it at the tip, a report of a bad entry *)
(* has somebody to repair it, and wallets reach every node but the mock    *)
(* chain through the bulkhead (run).                                       *)
(***************************************************************************)
WiredAsAdvertised == [][AcceptsWhatWasAsked /\ WiresWhatItAdvertises]_lifeVars

(***************************************************************************)
(* A stop request that reaches the process ends it, wherever it finds the  *)
(* server and even when it comes before the server waits for one           *)
(* (notify_one, darkside_shutdown, shutdown_signal), with requests and     *)
(* responses in flight, provided that every client reads or leaves: the    *)
(* drain itself has no end of its own (ClientsReadOrLeave).                *)
(***************************************************************************)
StopEndsProcess == asked ~> phase \in Ended
=============================================================================
