----------------------------- MODULE NodeCalls -----------------------------
(***************************************************************************)
(* The wallet-facing methods' calls to the node, behind the bulkhead       *)
(* (node/bulkhead.rs).  A method makes its calls one after another, some   *)
(* under a deadline for the whole request (service/address.rs and          *)
(* subtrees.rs).  A call takes a permit of its pool and runs in a task of  *)
(* its own, which outlives a caller that cancels or times out.  The node   *)
(* client gives up on a call after REQUEST_TIMEOUT; the node does not.     *)
(***************************************************************************)
EXTENDS Integers, FiniteSets, SequencesExt

CONSTANTS
  Wallet,
  Permits,     \* Permits[p]: --client-scan-concurrency, --client-node-concurrency
  MaxTxids,    \* MAX_TADDRESS_TXIDS
  MaxBatches,  \* getblockhash batches one subtree request can need
  Asks         \* how many requests the wallets make

Pools == {"scan", "general"}

ASSUME CallsAssumption ==
  /\ IsFiniteSet(Wallet)
  /\ Permits \in [Pools -> Nat \ {0}]
  /\ MaxTxids \in Nat /\ MaxBatches \in Nat /\ Asks \in Nat

VARIABLES
  req,        \* req[w]: phase, calls still to make, whether its deadline passed
  queue,      \* queue[p]: the wallets waiting for a permit, in order
  free,       \* free[p]: permits left
  orphans,    \* orphans[p]: tasks that hold a permit and have no caller
  working,    \* working[p]: the calls of each cost the node is working on
  forgotten,  \* forgotten[p]: those of them the node client gave up on
  asks        \* requests left

callVars == <<req, queue, free, orphans, working, forgotten, asks>>

(***************************************************************************)
(* The kinds of call: read stands for the single reads of blocks, chain    *)
(* info, transactions and tree states, scan for balances and unspent       *)
(* outputs; the others are the calls of the two methods that fan out.      *)
(***************************************************************************)
Kind == {"read", "scan", "tip", "txids", "fetch", "subtrees", "hashes"}

\* Calls whose cost at the node the request does not bound (ADR 0036).
Cost(kind) == IF kind \in {"scan", "txids"} THEN "scan" ELSE "general"

\* The pool Bulkhead's NodeRpc methods admit the call into.
Pool(kind) == IF kind \in {"scan", "txids"} THEN "scan" ELSE "general"

FetchesUntimed(kind) == kind \in {"txids", "subtrees", "hashes"}   \* mutant

\* The calls made through with_deadline; the tip is read before any of them.
Timed(kind) == kind \in {"txids", "fetch", "subtrees", "hashes"}

\* The calls made from inside the response: the next one is made when the client
\* has room for what came before.
Streamed(kind) == kind = "fetch"

\* What each method asks the node first, module by module of the service.
ChainCalls == {<<"read">>, <<"read", "read">>}
TransactionCalls == {<<"read">>}
TreeStateCalls == {<<"read">>, <<"read", "read">>}
AddressCalls == {<<"scan">>, <<"txids">>, <<"tip", "txids">>}
SubtreeCalls == {<<"subtrees">>}

Method == ChainCalls \cup TransactionCalls \cup TreeStateCalls
            \cup AddressCalls \cup SubtreeCalls

Idle == [phase |-> "idle", todo |-> << >>, late |-> FALSE]

Set(w, r) == req' = [req EXCEPT ![w] = r]

Upcoming(w) == Head(req[w].todo)

PoolOf(w) == Pool(Upcoming(w))

Taken(f, p) == [f EXCEPT ![p] = @ - 1]
Given(f, p) == [f EXCEPT ![p] = @ + 1]

-----------------------------------------------------------------------------
Begin(w, method) ==
  /\ req[w].phase = "idle"
  /\ asks > 0
  /\ asks' = asks - 1
  /\ Set(w, [Idle EXCEPT !.phase = "ready", !.todo = method])
  /\ UNCHANGED <<queue, free, orphans, working, forgotten>>

\* admit: the call joins the semaphore's queue.
Ask(w) ==
  /\ req[w].phase = "ready"
  /\ Set(w, [req[w] EXCEPT !.phase = "queued"])
  /\ queue' = [queue EXCEPT ![PoolOf(w)] = Append(@, w)]
  /\ UNCHANGED <<free, orphans, working, forgotten, asks>>

\* A permit is there for it: the semaphore serves its waiters in order.
Assigned(w) ==
  /\ req[w].phase = "queued"
  /\ \E i \in 1 .. Len(queue[PoolOf(w)]) : i <= free[PoolOf(w)] /\ queue[PoolOf(w)][i] = w

Overdue(w) == req[w].late /\ Timed(Upcoming(w))

\* A waiter stands in its queue once.
Leaves(w) ==
  \E i \in DOMAIN queue[PoolOf(w)] :
    /\ queue[PoolOf(w)][i] = w
    /\ queue' = [queue EXCEPT ![PoolOf(w)] = RemoveAt(@, i)]

Starts(w) ==
  /\ Assigned(w)
  /\ free' = Taken(free, PoolOf(w))
  /\ working' = Given(working, Cost(Upcoming(w)))
  /\ Leaves(w)

\* hold: the permit moves into the task that makes the call.
Admit(w) ==
  /\ Starts(w)
  /\ ~Overdue(w)
  /\ Set(w, [req[w] EXCEPT !.phase = "calling"])
  /\ UNCHANGED <<orphans, forgotten, asks>>

(***************************************************************************)
(* timeout_at polls the call before it looks at the clock: past the        *)
(* deadline a call that gets its permit is still started, and its caller   *)
(* ends in the same poll.                                                  *)
(***************************************************************************)
AdmitOverdue(w) ==
  /\ Starts(w)
  /\ Overdue(w)
  /\ orphans' = Given(orphans, PoolOf(w))
  /\ Set(w, Idle)
  /\ UNCHANGED <<forgotten, asks>>

\* PERMIT_WAIT, or the request's deadline, ends the wait for a permit.
Refuse(w) ==
  /\ req[w].phase = "queued"
  /\ ~Assigned(w)
  /\ Leaves(w)
  /\ Set(w, Idle)
  /\ UNCHANGED <<free, orphans, working, forgotten, asks>>

\* PERMIT_WAIT is far shorter than the deadline, which starts with the request.
DeadlinePasses(w) ==
  /\ \E i \in DOMAIN req[w].todo : Timed(req[w].todo[i])
  /\ ~req[w].late
  /\ Upcoming(w) = "tip" => req[w].phase = "calling"
  /\ Set(w, [req[w] EXCEPT !.late = TRUE])
  /\ UNCHANGED <<queue, free, orphans, working, forgotten, asks>>

CallerLeaves(w) ==   \* mutant: the permit is the caller's
  /\ req[w].phase = "calling"
  /\ free' = Given(free, PoolOf(w))
  /\ Set(w, Idle)
  /\ UNCHANGED <<queue, orphans, working, forgotten, asks>>

PermitLost(w) ==   \* mutant: nobody gives the permit back
  /\ req[w].phase = "calling"
  /\ Set(w, Idle)
  /\ UNCHANGED <<queue, free, orphans, working, forgotten, asks>>

\* The caller's end leaves the task, its permit and the node's work alone.
Abandon(w) ==
  /\ req[w].phase = "calling"
  /\ orphans' = Given(orphans, PoolOf(w))
  /\ Set(w, Idle)
  /\ UNCHANGED <<queue, free, working, forgotten, asks>>

DeadlineEndsCall(w) == Overdue(w) /\ Abandon(w)

\* The wallet resets its stream or drops the connection.
ClientCancels(w) ==
  \/ Abandon(w)
  \/ /\ req[w].phase = "queued"
     /\ Leaves(w)
     /\ Set(w, Idle)
     /\ UNCHANGED <<free, orphans, working, forgotten, asks>>
  \/ /\ req[w].phase = "ready"
     /\ Set(w, Idle)
     /\ UNCHANGED <<queue, free, orphans, working, forgotten, asks>>

-----------------------------------------------------------------------------
Uncapped(kind) ==   \* mutant: every matching transaction is fetched
  CASE kind = "txids"    -> {[i \in 1 .. n |-> "fetch"] : n \in 0 .. MaxTxids + 1}
    [] kind = "subtrees" -> {[i \in 1 .. n |-> "hashes"] : n \in 0 .. MaxBatches}
    [] OTHER             -> {<< >>}

\* The calls an answer gives rise to.  More matches than the cap end the
\* request before any of them is fetched.
FollowUps(kind) ==
  CASE kind = "txids"    -> {[i \in 1 .. n |-> "fetch"] : n \in 0 .. MaxTxids}
    [] kind = "subtrees" -> {[i \in 1 .. n |-> "hashes"] : n \in 0 .. MaxBatches}
    [] OTHER             -> {<< >>}

\* The task ends and its permit comes back.
Ends(w) == req[w].phase = "calling" /\ free' = Given(free, PoolOf(w))

Answered(w) ==
  /\ Ends(w)
  /\ working' = Taken(working, Cost(Upcoming(w)))
  /\ \E more \in FollowUps(Upcoming(w)) :
       LET todo == Tail(req[w].todo) \o more
       IN  Set(w, IF todo = << >> THEN Idle
                  ELSE [req[w] EXCEPT !.phase = "ready", !.todo = todo])
  /\ UNCHANGED <<queue, orphans, forgotten, asks>>

\* An error of the node, an answer that does not decode or one over the cap.
Fails(w) ==
  /\ Ends(w)
  /\ working' = Taken(working, Cost(Upcoming(w)))
  /\ Set(w, Idle)
  /\ UNCHANGED <<queue, orphans, forgotten, asks>>

\* REQUEST_TIMEOUT: the client closes the request, the node works on.
RequestTimeout(w) ==
  /\ Ends(w)
  /\ forgotten' = Given(forgotten, Cost(Upcoming(w)))
  /\ Set(w, Idle)
  /\ UNCHANGED <<queue, orphans, working, asks>>

OrphanEnds(p) ==
  /\ orphans[p] > 0
  /\ orphans' = Taken(orphans, p)
  /\ free' = Given(free, p)
  /\ \/ working' = Taken(working, p) /\ UNCHANGED forgotten
     \/ forgotten' = Given(forgotten, p) /\ UNCHANGED working
  /\ UNCHANGED <<req, queue, asks>>

\* The node (external) completes a call nobody waits for.
NodeFinishes(p) ==
  /\ forgotten[p] > 0
  /\ forgotten' = Taken(forgotten, p)
  /\ working' = Taken(working, p)
  /\ UNCHANGED <<req, queue, free, orphans, asks>>

-----------------------------------------------------------------------------
CallsInit ==
  /\ req = [w \in Wallet |-> Idle]
  /\ queue = [p \in Pools |-> << >>]
  /\ free = Permits
  /\ orphans = [p \in Pools |-> 0]
  /\ working = [p \in Pools |-> 0]
  /\ forgotten = [p \in Pools |-> 0]
  /\ asks = Asks

CallEnds(w) == Answered(w) \/ Fails(w) \/ RequestTimeout(w)

Step(w) ==
  \/ \E method \in Method : Begin(w, method)
  \/ Ask(w)
  \/ Admit(w)
  \/ AdmitOverdue(w)
  \/ Refuse(w)
  \/ DeadlinePasses(w)
  \/ DeadlineEndsCall(w)
  \/ ClientCancels(w)
  \/ CallEnds(w)

CallsNext ==
  \/ \E w \in Wallet : Step(w)
  \/ \E p \in Pools : OrphanEnds(p) \/ NodeFinishes(p)

CallsSpec == CallsInit /\ [][CallsNext]_callVars

-----------------------------------------------------------------------------
(***************************************************************************)
(* Every variable holds a value of its kind, the queues are the waiting    *)
(* requests, and no request has more transactions to fetch than the cap    *)
(* allows (taddress_transactions).                                         *)
(***************************************************************************)
CallsTypeOK ==
  /\ \A w \in Wallet :
       /\ req[w].phase \in {"idle", "ready", "queued", "calling"}
       /\ req[w].phase = "idle" <=> req[w].todo = << >>
       /\ req[w].todo \in Seq(Kind)
       /\ Cardinality({i \in DOMAIN req[w].todo : req[w].todo[i] = "fetch"}) <= MaxTxids
  /\ \A p \in Pools :
       /\ free[p] \in 0 .. Permits[p]
       /\ orphans[p] \in Nat /\ working[p] \in Nat /\ forgotten[p] \in Nat
       /\ ToSet(queue[p]) = {w \in Wallet : req[w].phase = "queued" /\ PoolOf(w) = p}

(***************************************************************************)
(* Whichever callers cancel, time out or walk away, the permits out of a   *)
(* pool are exactly the calls of its cost that the node client still waits *)
(* for: a caller's end brings no permit back, none is lost or given back   *)
(* twice, and calls of unbounded cost never draw on the general pool       *)
(* (hold).  A call the node client gave up on is not among them, though    *)
(* the node works on it: see PermitUntilAnswered.                          *)
(***************************************************************************)
WorkHoldsPermits ==
  \A p \in Pools : working[p] - forgotten[p] = Permits[p] - free[p]

(***************************************************************************)
(* bulkhead.rs on hold: "The task outlives the caller and holds the permit *)
(* until the node has actually answered", so that the pool bounds node     *)
(* work and not admissions (docs/decisions/0036).  Every call the node     *)
(* works on has a permit.                                                  *)
(***************************************************************************)
PermitUntilAnswered == \A p \in Pools : working[p] <= Permits[p] - free[p]

(***************************************************************************)
(* Once its deadline has passed a request waits for no further node call   *)
(* that the deadline covers, however long its client took to read what     *)
(* came before (with_deadline).  The tip is looked up before any of those, *)
(* outside the deadline, and a call that gets its permit too late is still *)
(* made, with nobody waiting for it (AdmitOverdue).                        *)
(***************************************************************************)
DeadlineStopsCalls ==
  [][\A w \in Wallet :
       req[w].late /\ req[w].phase # "calling" => req'[w].phase # "calling"]_callVars

(***************************************************************************)
(* A pool that every client abandoned while it was full admits calls again *)
(* (hold's task gives the permit back).                                    *)
(***************************************************************************)
PoolRecovers == \A p \in Pools : free[p] = 0 ~> free[p] > 0

=============================================================================
