-------------------------- MODULE NodeCallsProofs --------------------------
(***************************************************************************)
(* The bulkhead for any number of wallets, any pool sizes, caps and number *)
(* of requests, on its own and inside a server that starts, drains and     *)
(* dies.  CallsInv is the inductive invariant: the account of the permits, *)
(* who holds them, who waits for one, and what a request has still to ask. *)
(***************************************************************************)
EXTENDS Lifecycle, SequenceTheorems, FiniteSetTheorems, TLAPS

Counters ==
  /\ free \in [Pools -> Nat]
  /\ orphans \in [Pools -> Int]
  /\ working \in [Pools -> Int]
  /\ forgotten \in [Pools -> Int]

\* The permits out are the calls at the node.
Accounted == Counters /\ WorkHoldsPermits

\* Counting up or down keeps a counter a counter.
LEMMA TakenGiven ==
  ASSUME NEW f \in [Pools -> Int], NEW p \in Pools
  PROVE  Taken(f, p) \in [Pools -> Int] /\ Given(f, p) \in [Pools -> Int]
BY DEF Taken, Given

\* Every call is admitted into the pool of its cost.
LEMMA PoolIsCost ==
  ASSUME NEW w
  PROVE  PoolOf(w) \in Pools /\ Cost(Upcoming(w)) = PoolOf(w)
BY DEF PoolOf, Pool, Cost, Pools

\* A call starts: one permit less, one call more at the node.
LEMMA StartAccounted ==
  ASSUME Accounted, NEW w \in Wallet, Starts(w), forgotten' = forgotten,
         orphans' \in [Pools -> Int]
  PROVE  Accounted'
<1> DEFINE p == PoolOf(w)
<1>1. p \in Pools /\ free' = Taken(free, p) /\ working' = Given(working, p)
  BY PoolIsCost DEF Starts
<1>2. free[p] \in Nat /\ 1 <= free[p]
  <2>1. PICK i \in 1 .. Len(queue[p]) : i <= free[p]
    BY DEF Starts, Assigned
  <2> QED BY <1>1, <2>1 DEF Accounted, Counters
<1> HIDE DEF p
<1>3. free' = [free EXCEPT ![p] = @ - 1] /\ working' = [working EXCEPT ![p] = @ + 1]
  BY <1>1 DEF Taken, Given
<1>4. Counters'
  BY <1>1, <1>2, <1>3 DEF Accounted, Counters
<1>5. ASSUME NEW q \in Pools PROVE working'[q] - forgotten'[q] = Permits[q] - free'[q]
  <2>1. working[q] \in Int /\ forgotten[q] \in Int /\ free[q] \in Nat /\ Permits[q] \in Nat
    BY CallsAssumption DEF Accounted, Counters
  <2>2. working[q] - forgotten[q] = Permits[q] - free[q]
    BY DEF Accounted, WorkHoldsPermits
  <2>3. working'[q] = (IF q = p THEN working[q] + 1 ELSE working[q])
    BY <1>1, <1>3 DEF Accounted, Counters
  <2>4. free'[q] = (IF q = p THEN free[q] - 1 ELSE free[q])
    BY <1>1, <1>3 DEF Accounted, Counters
  <2> QED BY <2>1, <2>2, <2>3, <2>4
<1> QED BY <1>4, <1>5 DEF Accounted, WorkHoldsPermits

\* A call ends: its permit comes back, and the node is done with it or the node
\* client has given it up.
LEMMA EndAccounted ==
  ASSUME Accounted, NEW p \in Pools, free' = Given(free, p), orphans' \in [Pools -> Int],
         \/ working' = Taken(working, p) /\ forgotten' = forgotten
         \/ forgotten' = Given(forgotten, p) /\ working' = working
  PROVE  Accounted'
<1>1. free' = [free EXCEPT ![p] = @ + 1]
  BY DEF Given
<1>2. \/ working' = [working EXCEPT ![p] = @ - 1] /\ forgotten' = forgotten
      \/ forgotten' = [forgotten EXCEPT ![p] = @ + 1] /\ working' = working
  BY DEF Taken, Given
<1>3. Counters'
  <2>1. free' \in [Pools -> Nat]
    BY <1>1 DEF Accounted, Counters
  <2>2. CASE working' = [working EXCEPT ![p] = @ - 1] /\ forgotten' = forgotten
    BY <2>1, <2>2 DEF Accounted, Counters
  <2>3. CASE forgotten' = [forgotten EXCEPT ![p] = @ + 1] /\ working' = working
    BY <2>1, <2>3 DEF Accounted, Counters
  <2> QED BY <1>2, <2>2, <2>3
<1>4. ASSUME NEW q \in Pools PROVE working'[q] - forgotten'[q] = Permits[q] - free'[q]
  <2>1. working[q] \in Int /\ forgotten[q] \in Int /\ free[q] \in Nat /\ Permits[q] \in Nat
    BY CallsAssumption DEF Accounted, Counters
  <2>2. working[q] - forgotten[q] = Permits[q] - free[q]
    BY DEF Accounted, WorkHoldsPermits
  <2>3. free'[q] = (IF q = p THEN free[q] + 1 ELSE free[q])
    BY <1>1 DEF Accounted, Counters
  <2>4. \/ /\ working'[q] = (IF q = p THEN working[q] - 1 ELSE working[q])
           /\ forgotten'[q] = forgotten[q]
        \/ /\ forgotten'[q] = (IF q = p THEN forgotten[q] + 1 ELSE forgotten[q])
           /\ working'[q] = working[q]
    BY <1>2 DEF Accounted, Counters
  <2> QED BY <2>1, <2>2, <2>3, <2>4
<1> QED BY <1>3, <1>4 DEF Accounted, WorkHoldsPermits

\* A step that leaves permits and work alone.
LEMMA IdleAccounted ==
  ASSUME Accounted, free' = free, working' = working, forgotten' = forgotten,
         orphans' \in [Pools -> Int]
  PROVE  Accounted'
BY DEF Accounted, Counters, WorkHoldsPermits

\* A caller leaves its task behind.
LEMMA AbandonAccounted ==
  ASSUME Accounted, NEW w \in Wallet, Abandon(w)
  PROVE  Accounted'
<1>1. orphans' \in [Pools -> Int]
  BY PoolIsCost, TakenGiven DEF Abandon, Accounted, Counters
<1> QED BY <1>1, IdleAccounted DEF Abandon

\* Every step of a request keeps the account.
LEMMA StepAccounted ==
  ASSUME Accounted, NEW w \in Wallet, Step(w)
  PROVE  Accounted'
<1>0. orphans \in [Pools -> Int]
  BY DEF Accounted, Counters
<1>1. ASSUME NEW method \in Method, Begin(w, method) PROVE Accounted'
  BY <1>0, <1>1, IdleAccounted DEF Begin
<1>2. CASE Ask(w) \/ Refuse(w) \/ DeadlinePasses(w)
  BY <1>0, <1>2, IdleAccounted DEF Ask, Refuse, DeadlinePasses
<1>3. CASE Admit(w)
  BY <1>0, <1>3, StartAccounted DEF Admit
<1>4. CASE AdmitOverdue(w)
  <2>1. orphans' \in [Pools -> Int]
    BY <1>0, <1>4, PoolIsCost, TakenGiven DEF AdmitOverdue
  <2> QED BY <1>4, <2>1, StartAccounted DEF AdmitOverdue
<1>5. CASE DeadlineEndsCall(w)
  BY <1>5, AbandonAccounted DEF DeadlineEndsCall
<1>6. CASE ClientCancels(w)
  <2>1. CASE Abandon(w)
    BY <2>1, AbandonAccounted
  <2> QED BY <1>0, <1>6, <2>1, IdleAccounted DEF ClientCancels
<1>7. CASE CallEnds(w)
  <2>1. PoolOf(w) \in Pools /\ free' = Given(free, PoolOf(w)) /\ orphans' = orphans
    BY <1>7, PoolIsCost DEF CallEnds, Answered, Fails, RequestTimeout, Ends
  <2>2. \/ working' = Taken(working, PoolOf(w)) /\ forgotten' = forgotten
        \/ forgotten' = Given(forgotten, PoolOf(w)) /\ working' = working
    BY <1>7, PoolIsCost DEF CallEnds, Answered, Fails, RequestTimeout
  <2> QED BY <1>0, <2>1, <2>2, EndAccounted
<1> QED BY <1>1, <1>2, <1>3, <1>4, <1>5, <1>6, <1>7 DEF Step

\* The node finishes a call nobody waits for.
LEMMA NodeFinishesAccounted ==
  ASSUME Accounted, NEW p \in Pools, NodeFinishes(p)
  PROVE  Accounted'
<1>1. /\ forgotten' = [forgotten EXCEPT ![p] = @ - 1]
      /\ working' = [working EXCEPT ![p] = @ - 1]
      /\ free' = free /\ orphans' = orphans
  BY DEF NodeFinishes, Taken
<1>2. Counters'
  BY <1>1 DEF Accounted, Counters
<1>3. ASSUME NEW q \in Pools PROVE working'[q] - forgotten'[q] = Permits[q] - free'[q]
  <2>1. working[q] \in Int /\ forgotten[q] \in Int
    BY DEF Accounted, Counters
  <2>2. working[q] - forgotten[q] = Permits[q] - free'[q]
    BY <1>1 DEF Accounted, WorkHoldsPermits
  <2>3. \/ working'[q] = working[q] - 1 /\ forgotten'[q] = forgotten[q] - 1
        \/ working'[q] = working[q] /\ forgotten'[q] = forgotten[q]
    BY <1>1 DEF Accounted, Counters
  <2> QED BY <2>1, <2>2, <2>3
<1> QED BY <1>2, <1>3 DEF Accounted, WorkHoldsPermits

\* Every step keeps the account.
LEMMA CallsAccounted ==
  ASSUME Accounted, [CallsNext]_callVars
  PROVE  Accounted'
<1>1. CASE UNCHANGED callVars
  BY <1>1, IdleAccounted DEF callVars, Accounted, Counters
<1>2. ASSUME NEW w \in Wallet, Step(w) PROVE Accounted'
  BY <1>2, StepAccounted
<1>3. ASSUME NEW p \in Pools, OrphanEnds(p) PROVE Accounted'
  <2>1. orphans' \in [Pools -> Int]
    BY <1>3, TakenGiven DEF OrphanEnds, Accounted, Counters
  <2> QED BY <1>3, <2>1, EndAccounted DEF OrphanEnds
<1>4. ASSUME NEW p \in Pools, NodeFinishes(p) PROVE Accounted'
  BY <1>4, NodeFinishesAccounted
<1> QED BY <1>1, <1>2, <1>3, <1>4 DEF CallsNext

-----------------------------------------------------------------------------
(***************************************************************************)
(* What a request has still to ask.                                        *)
(***************************************************************************)
Untimed(todo) == \A i \in 1 .. Len(todo) : ~Timed(todo[i])

\* A deadline governs it: all of it, or all but a tip read first.
Governed(todo) ==
  \A i \in 1 .. Len(todo) : Timed(todo[i]) \/ (i = 1 /\ todo[i] = "tip")

Agenda(todo) ==
  /\ todo \in Seq(Kind)
  /\ \A i \in 1 .. Len(todo) :
       /\ todo[i] = "fetch" => Len(todo) <= MaxTxids
       /\ todo[i] \in {"txids", "subtrees"} => i = Len(todo)
  /\ Untimed(todo) \/ Governed(todo)

\* Past its deadline, a request that is not in a call faces one that would be
\* refused.
Request(r) ==
  /\ r = [phase |-> r.phase, todo |-> r.todo, late |-> r.late]
  /\ r.phase \in {"idle", "ready", "queued", "calling"}
  /\ r.phase = "idle" <=> r.todo = << >>
  /\ r.late \in BOOLEAN
  /\ Agenda(r.todo)
  /\ r.late => Governed(r.todo) /\ r.todo # << >> /\ (r.phase # "calling" => Timed(Head(r.todo)))

Requested == DOMAIN req = Wallet /\ \A w \in Wallet : Request(req[w])

LEMMA IdleRequest == Request(Idle)
<1>1. << >> \in Seq(Kind) /\ Len(<< >>) = 0
  BY EmptySeq
<1> QED BY <1>1 DEF Idle, Request, Agenda, Untimed

\* A step of one request leaves the others alone.
LEMMA OneRequested ==
  ASSUME Requested, NEW w \in Wallet, NEW r, Request(r), Set(w, r)
  PROVE  Requested'
BY DEF Requested, Set

\* What every method starts from is an agenda.
LEMMA MethodAgenda ==
  ASSUME NEW method \in Method
  PROVE  Agenda(method) /\ method # << >>
<1> USE DEF Agenda, Untimed, Governed, Timed, Kind
<1>1. CASE method = <<"read">>
  BY <1>1
<1>2. CASE method = <<"read", "read">>
  BY <1>2
<1>3. CASE method = <<"scan">>
  BY <1>3
<1>4. CASE method = <<"txids">>
  BY <1>4
<1>5. CASE method = <<"tip", "txids">>
  BY <1>5
<1>6. CASE method = <<"subtrees">>
  BY <1>6
<1> QED
  BY <1>1, <1>2, <1>3, <1>4, <1>5, <1>6
     DEF Method, ChainCalls, TransactionCalls, TreeStateCalls, AddressCalls, SubtreeCalls

\* An answer replaces the call that fans out, which is the last one, by its
\* follow-ups, or takes the first call off.
LEMMA NextAgenda ==
  ASSUME NEW todo, Agenda(todo), todo # << >>, NEW more \in FollowUps(Head(todo))
  PROVE  /\ Agenda(Tail(todo) \o more)
         /\ Governed(todo) => \A i \in 1 .. Len(Tail(todo) \o more) : Timed((Tail(todo) \o more)[i])
<1> DEFINE next == Tail(todo) \o more
           n == Len(todo)
<1>1. /\ todo \in Seq(Kind) /\ n \in Nat /\ n # 0 /\ Head(todo) = todo[1] /\ 1 \in 1 .. n
  BY EmptySeq DEF Agenda
<1>2. /\ Tail(todo) \in Seq(Kind) /\ Len(Tail(todo)) = n - 1
      /\ \A i \in 1 .. n - 1 : Tail(todo)[i] = todo[i + 1]
  BY <1>1, HeadTailProperties
<1>3. CASE todo[1] \in {"txids", "subtrees"}
  <2>1. n = 1
    BY <1>1, <1>3 DEF Agenda
  <2>2. PICK kind \in {"fetch", "hashes"}, m \in Nat :
          /\ more = [i \in 1 .. m |-> kind]
          /\ kind = "fetch" => m <= MaxTxids
    <3>1. CASE todo[1] = "txids"
      BY <1>1, <3>1, CallsAssumption DEF FollowUps
    <3>2. CASE todo[1] = "subtrees"
      BY <1>1, <3>2, CallsAssumption DEF FollowUps
    <3> QED BY <1>3, <3>1, <3>2
  <2>3. more \in Seq(Kind) /\ Len(more) = m /\ \A i \in 1 .. m : more[i] = kind
    BY <2>2 DEF Kind
  <2>4. next = more
    <3>1. Tail(todo) = << >>
      <4>1. Len(Tail(todo)) = 0
        BY <1>2, <2>1
      <4> QED BY <1>2, <4>1, EmptySeq
    <3> QED BY <2>3, <3>1, ConcatEmptySeq
  <2> HIDE DEF next
  <2> QED BY <2>2, <2>3, <2>4 DEF Agenda, Governed, Untimed, Timed, next
<1>4. CASE todo[1] \notin {"txids", "subtrees"}
  <2>1. more = << >>
    BY <1>1, <1>4 DEF FollowUps
  <2>2. next = Tail(todo)
    BY <1>2, <2>1, ConcatEmptySeq
  <2> HIDE DEF n
  <2>3. /\ next \in Seq(Kind) /\ Len(next) = n - 1
        /\ \A i \in 1 .. n - 1 : next[i] = todo[i + 1] /\ i + 1 \in 1 .. n /\ i + 1 # 1
    <3>1. \A i \in 1 .. n - 1 : i + 1 \in 1 .. n /\ i + 1 # 1
      BY <1>1
    <3> QED BY <1>2, <2>2, <3>1, Zenon
  <2> HIDE DEF next
  <2>4. \A i \in 1 .. n - 1 :
          /\ next[i] = "fetch" => Len(next) <= MaxTxids
          /\ next[i] \in {"txids", "subtrees"} => i = Len(next)
    <3> SUFFICES ASSUME NEW i \in 1 .. n - 1
                 PROVE  /\ todo[i + 1] = "fetch" => n - 1 <= MaxTxids
                        /\ todo[i + 1] \in {"txids", "subtrees"} => i = n - 1
      BY <2>3
    <3>1. i + 1 \in 1 .. n
      BY <2>3
    <3>2. /\ todo[i + 1] = "fetch" => n <= MaxTxids
          /\ todo[i + 1] \in {"txids", "subtrees"} => i + 1 = n
      BY <3>1 DEF Agenda, n
    <3> QED BY <1>1, <3>1, <3>2, CallsAssumption
  <2>5. Governed(todo) => \A i \in 1 .. n - 1 : Timed(next[i])
    BY <2>3 DEF Governed, n
  <2>6. Untimed(todo) => Untimed(next)
    BY <2>3 DEF Untimed, n
  <2>7. Governed(todo) => Governed(next)
    BY <2>3, <2>5 DEF Governed
  <2>8. Untimed(todo) \/ Governed(todo)
    BY DEF Agenda
  <2>9. Agenda(next)
    BY <2>3, <2>4, <2>6, <2>7, <2>8 DEF Agenda
  <2> QED BY <2>3, <2>5, <2>9 DEF next
<1> QED BY <1>3, <1>4

\* Every step keeps the requests in order.
LEMMA StepRequested ==
  ASSUME Requested, NEW w \in Wallet, Step(w)
  PROVE  Requested'
<1> DEFINE r == req[w]
<1>0. /\ Request(r) /\ r = [phase |-> r.phase, todo |-> r.todo, late |-> r.late]
      /\ Agenda(r.todo)
  BY DEF Requested, Request
<1>1. ASSUME NEW method \in Method, Begin(w, method) PROVE Requested'
  <2> DEFINE q == [Idle EXCEPT !.phase = "ready", !.todo = method]
  <2>1. q = [Idle EXCEPT !.phase = "ready", !.todo = method] /\ Set(w, q)
    BY <1>1 DEF Begin
  <2> HIDE DEF q
  <2>2. /\ q = [phase |-> q.phase, todo |-> q.todo, late |-> q.late]
        /\ q.phase = "ready" /\ q.todo = method /\ q.late = FALSE
    BY <2>1 DEF Idle
  <2>3. Request(q)
    BY <2>2, MethodAgenda DEF Request
  <2> QED BY <2>1, <2>3, OneRequested
<1>2. ASSUME NEW phase_ \in {"queued", "calling"}, r.phase # "idle", r.phase # "calling",
             Set(w, [r EXCEPT !.phase = phase_])
      PROVE  Requested'
  <2> DEFINE q == [r EXCEPT !.phase = phase_]
  <2>1. q = [r EXCEPT !.phase = phase_] /\ Set(w, q)
    BY <1>2
  <2> HIDE DEF q, r
  <2>2. /\ q = [phase |-> q.phase, todo |-> q.todo, late |-> q.late]
        /\ q.phase = phase_ /\ q.todo = r.todo /\ q.late = r.late
    BY <1>0, <2>1
  <2>3. Request(q)
    BY <1>0, <1>2, <2>2 DEF Request
  <2> QED BY <2>1, <2>3, OneRequested
<1>3. ASSUME Set(w, Idle) PROVE Requested'
  BY <1>3, IdleRequest, OneRequested
<1>4. CASE DeadlinePasses(w)
  <2> DEFINE q == [r EXCEPT !.late = TRUE]
  <2>1. q = [r EXCEPT !.late = TRUE] /\ Set(w, q)
    BY <1>4 DEF DeadlinePasses
  <2>2. /\ \E i \in DOMAIN r.todo : Timed(r.todo[i])
        /\ Head(r.todo) = "tip" => r.phase = "calling"
    BY <1>4 DEF DeadlinePasses, Upcoming
  <2> HIDE DEF q, r
  <2>3. /\ q = [phase |-> q.phase, todo |-> q.todo, late |-> q.late]
        /\ q.phase = r.phase /\ q.todo = r.todo /\ q.late = TRUE
    BY <1>0, <2>1
  <2>4. r.todo \in Seq(Kind) /\ DOMAIN r.todo = 1 .. Len(r.todo) /\ r.todo # << >>
    BY <1>0, <2>2, EmptySeq DEF Agenda
  <2>5. Governed(r.todo)
    BY <1>0, <2>2, <2>4 DEF Agenda, Untimed
  <2>6. Head(r.todo) = r.todo[1] /\ 1 \in 1 .. Len(r.todo)
    BY <2>4, EmptySeq
  <2>7. r.phase # "calling" => Timed(Head(r.todo))
    BY <2>2, <2>5, <2>6 DEF Governed
  <2>8. Request(q)
    BY <1>0, <2>3, <2>4, <2>5, <2>7 DEF Request
  <2> QED BY <2>1, <2>8, OneRequested
<1>5. CASE Answered(w)
  <2>1. PICK more \in FollowUps(Head(r.todo)) :
          Set(w, IF Tail(r.todo) \o more = << >> THEN Idle
                 ELSE [r EXCEPT !.phase = "ready", !.todo = Tail(r.todo) \o more])
    BY <1>5 DEF Answered, Upcoming
  <2>2. r.todo # << >>
    BY <1>0, <1>5 DEF Answered, Ends, Request
  <2> DEFINE next == Tail(r.todo) \o more
             q == [r EXCEPT !.phase = "ready", !.todo = next]
  <2>3. /\ Agenda(next)
        /\ Governed(r.todo) => \A i \in 1 .. Len(next) : Timed(next[i])
    BY <1>0, <2>2, NextAgenda
  <2>4. CASE next = << >>
    BY <1>3, <2>1, <2>4
  <2>5. CASE next # << >>
    <3>1. q = [r EXCEPT !.phase = "ready", !.todo = next] /\ Set(w, q)
      BY <2>1, <2>5
    <3> HIDE DEF q, r, next
    <3>2. /\ q = [phase |-> q.phase, todo |-> q.todo, late |-> q.late]
          /\ q.phase = "ready" /\ q.todo = next /\ q.late = r.late
      BY <1>0, <3>1
    <3>3. next \in Seq(Kind) /\ Head(next) = next[1] /\ 1 \in 1 .. Len(next)
      BY <2>3, <2>5, EmptySeq DEF Agenda
    <3>4. r.late => Governed(next) /\ Timed(Head(next))
      BY <1>0, <2>3, <3>3 DEF Request, Governed
    <3>5. Request(q)
      BY <1>0, <2>3, <2>5, <3>2, <3>4 DEF Request
    <3> QED BY <3>1, <3>5, OneRequested
  <2> QED BY <2>4, <2>5
<1>6. CASE Ask(w)
  BY <1>2, <1>6 DEF Ask
<1>7. CASE Admit(w)
  BY <1>2, <1>7 DEF Admit, Starts, Assigned
<1> QED
  BY <1>1, <1>3, <1>4, <1>5, <1>6, <1>7
     DEF Step, AdmitOverdue, Refuse, DeadlineEndsCall, ClientCancels, Abandon, CallEnds, Fails,
         RequestTimeout

-----------------------------------------------------------------------------
(***************************************************************************)
(* Who waits, and who holds a permit.                                      *)
(***************************************************************************)
InPhase(phase_, p) == {w \in Wallet : req[w].phase = phase_ /\ PoolOf(w) = p}

Distinct(s) == \A i, j \in 1 .. Len(s) : s[i] = s[j] => i = j

Queued ==
  /\ queue \in [Pools -> Seq(Wallet)]
  /\ \A p \in Pools : Distinct(queue[p]) /\ ToSet(queue[p]) = InPhase("queued", p)

\* A permit out of a pool is a caller's or an orphaned task's.
Seated ==
  /\ free \in [Pools -> Int]
  /\ orphans \in [Pools -> Nat]
  /\ forgotten \in [Pools -> Nat]
  /\ \A p \in Pools : Permits[p] - free[p] = orphans[p] + Cardinality(InPhase("calling", p))

\* One request's step moves it in or out of a phase, and nobody else.
LEMMA PhaseAfter ==
  ASSUME Requested, NEW w \in Wallet, NEW r, Set(w, r), NEW phase_, NEW p
  PROVE  InPhase(phase_, p)' = (InPhase(phase_, p) \ {w})
                                 \cup (IF r.phase = phase_ /\ Pool(Head(r.todo)) = p THEN {w} ELSE {})
<1>1. \A v \in Wallet : req'[v] = IF v = w THEN r ELSE req[v]
  BY DEF Requested, Set
<1>2. ASSUME NEW v \in Wallet PROVE PoolOf(v)' = Pool(Head(req'[v].todo))
  BY DEF PoolOf, Upcoming
<1>3. ASSUME NEW v \in Wallet PROVE PoolOf(v) = Pool(Head(req[v].todo))
  BY DEF PoolOf, Upcoming
<1> QED BY <1>1, <1>2, <1>3 DEF InPhase

\* Where the one request neither enters nor leaves a phase, it stays as it was.
LEMMA PhaseKept ==
  ASSUME Requested, NEW w \in Wallet, NEW r, Set(w, r), NEW phase_, NEW p,
         (req[w].phase # phase_ /\ r.phase # phase_)
           \/ (r.phase = req[w].phase /\ r.todo = req[w].todo)
  PROVE  InPhase(phase_, p)' = InPhase(phase_, p)
BY PhaseAfter DEF InPhase, PoolOf, Upcoming

\* Taking one waiter out of the queue.
LEMMA RemoveAtFacts ==
  ASSUME NEW s \in Seq(Wallet), Distinct(s), NEW i \in 1 .. Len(s)
  PROVE  /\ RemoveAt(s, i) \in Seq(Wallet)
         /\ Distinct(RemoveAt(s, i))
         /\ ToSet(RemoveAt(s, i)) = ToSet(s) \ {s[i]}
<1> DEFINE a == SubSeq(s, 1, i - 1)
           b == SubSeq(s, i + 1, Len(s))
           n == Len(s)
           t == RemoveAt(s, i)
<1>1. n \in Nat /\ i \in Int /\ 1 <= i /\ i <= n /\ \A j \in 1 .. n : s[j] \in Wallet
  BY LenProperties
<1>2. /\ a \in Seq(Wallet) /\ Len(a) = i - 1
      /\ \A j \in 1 .. i - 1 : a[j] = s[j]
  <2>1. \A j \in 1 .. i - 1 : s[j] \in Wallet
    BY <1>1
  <2>2. /\ a \in Seq(Wallet)
        /\ Len(a) = IF 1 <= i - 1 THEN (i - 1) - 1 + 1 ELSE 0
        /\ \A j \in 1 .. (i - 1) - 1 + 1 : a[j] = s[1 + j - 1]
    BY <1>1, <2>1, SubSeqProperties
  <2> HIDE DEF a
  <2> QED BY <1>1, <2>2
<1>3. /\ b \in Seq(Wallet) /\ Len(b) = n - i
      /\ \A j \in 1 .. n - i : b[j] = s[i + j]
  <2>1. \A j \in i + 1 .. n : s[j] \in Wallet
    BY <1>1
  <2>2. /\ b \in Seq(Wallet)
        /\ Len(b) = IF i + 1 <= n THEN n - (i + 1) + 1 ELSE 0
        /\ \A j \in 1 .. n - (i + 1) + 1 : b[j] = s[(i + 1) + j - 1]
    BY <1>1, <2>1, SubSeqProperties
  <2> HIDE DEF b, n
  <2>3. n - (i + 1) + 1 = n - i /\ \A j \in 1 .. n - i : (i + 1) + j - 1 = i + j
    BY <1>1
  <2>4. Len(b) = n - i
    BY <1>1, <2>2
  <2> QED BY <2>2, <2>3, <2>4
<1>4. t = a \o b
  BY DEF RemoveAt
<1> HIDE DEF a, b, n, t
<1>5. /\ t \in Seq(Wallet) /\ Len(t) = Len(a) + Len(b)
      /\ \A j \in 1 .. Len(a) + Len(b) : t[j] = IF j <= Len(a) THEN a[j] ELSE b[j - Len(a)]
  BY <1>2, <1>3, <1>4, ConcatProperties
<1>6. Len(t) = n - 1
  BY <1>1, <1>2, <1>3, <1>5
<1>7. \A j \in 1 .. n - 1 : t[j] = IF j < i THEN s[j] ELSE s[j + 1]
  <2> SUFFICES ASSUME NEW j \in 1 .. n - 1
               PROVE  t[j] = IF j < i THEN s[j] ELSE s[j + 1]
    OBVIOUS
  <2>1. t[j] = IF j <= i - 1 THEN a[j] ELSE b[j - (i - 1)]
    BY <1>1, <1>2, <1>3, <1>5
  <2>2. CASE j < i
    BY <1>1, <1>2, <2>1, <2>2
  <2>3. CASE ~(j < i)
    <3>1. j - (i - 1) \in 1 .. n - i /\ i + (j - (i - 1)) = j + 1 /\ ~(j <= i - 1)
      BY <1>1, <2>3
    <3>2. b[j - (i - 1)] = s[i + (j - (i - 1))]
      BY <1>3, <3>1
    <3> QED BY <2>1, <2>3, <3>1, <3>2
  <2> QED BY <2>2, <2>3
<1>8. Distinct(t)
  <2> SUFFICES ASSUME NEW j \in 1 .. n - 1, NEW k \in 1 .. n - 1, t[j] = t[k]
               PROVE  j = k
    BY <1>6 DEF Distinct
  <2> DEFINE x == IF j < i THEN j ELSE j + 1
             y == IF k < i THEN k ELSE k + 1
  <2>1. t[j] = s[x] /\ t[k] = s[y] /\ x \in 1 .. n /\ y \in 1 .. n
    BY <1>1, <1>7
  <2>2. x = y
    BY <2>1 DEF Distinct, n
  <2> QED BY <1>1, <2>2
<1>9. ToSet(t) = {t[j] : j \in 1 .. n - 1} /\ ToSet(s) = {s[j] : j \in 1 .. n}
  BY <1>5, <1>6, LenProperties DEF ToSet, n
<1>10. ASSUME NEW j \in 1 .. n - 1 PROVE t[j] \in ToSet(s) \ {s[i]}
  <2> DEFINE x == IF j < i THEN j ELSE j + 1
  <2>1. t[j] = s[x] /\ x \in 1 .. n /\ x # i
    BY <1>1, <1>7
  <2>2. s[x] # s[i]
    BY <1>1, <2>1 DEF Distinct, n
  <2> QED BY <1>9, <2>1, <2>2
<1>11. ASSUME NEW j \in 1 .. n, s[j] # s[i] PROVE s[j] \in ToSet(t)
  <2>1. CASE j < i
    <3>1. j \in 1 .. n - 1 /\ t[j] = s[j]
      BY <1>1, <1>7, <2>1
    <3> QED BY <1>9, <3>1
  <2>2. CASE ~(j < i)
    <3>1. j # i
      BY <1>11
    <3>2. j - 1 \in 1 .. n - 1 /\ ~(j - 1 < i) /\ (j - 1) + 1 = j
      BY <1>1, <2>2, <3>1
    <3>3. t[j - 1] = s[j]
      BY <1>7, <3>2
    <3> QED BY <1>9, <3>2, <3>3
  <2> QED BY <2>1, <2>2
<1>12. ToSet(t) = ToSet(s) \ {s[i]}
  BY <1>9, <1>10, <1>11
<1> QED BY <1>5, <1>8, <1>12 DEF t

\* Joining the queue.
LEMMA AppendFacts ==
  ASSUME NEW s \in Seq(Wallet), Distinct(s), NEW w \in Wallet, w \notin ToSet(s)
  PROVE  /\ Append(s, w) \in Seq(Wallet)
         /\ Distinct(Append(s, w))
         /\ ToSet(Append(s, w)) = ToSet(s) \cup {w}
<1> DEFINE t == Append(s, w)
           n == Len(s)
<1>1. /\ n \in Nat /\ t \in Seq(Wallet) /\ Len(t) = n + 1 /\ t[n + 1] = w
      /\ \A i \in 1 .. n : t[i] = s[i]
  BY AppendProperties, LenProperties
<1>2. /\ \A i \in 1 .. n : s[i] \in ToSet(s)
      /\ ToSet(s) = {s[i] : i \in 1 .. n}
  BY LenProperties DEF ToSet
<1> HIDE DEF t
<1>3. ToSet(t) = {t[i] : i \in 1 .. n + 1}
  BY <1>1, LenProperties DEF ToSet
<1>4. \A i \in 1 .. n : s[i] # w
  BY <1>2
<1>5. \A i, j \in 1 .. n : s[i] = s[j] => i = j
  BY DEF Distinct
<1> HIDE DEF n
<1>6. \A i \in 1 .. n + 1 : i \in 1 .. n \/ i = n + 1
  BY <1>1
<1>7. \A i \in 1 .. n : i \in 1 .. n + 1
  BY <1>1
<1>8. n + 1 \in 1 .. n + 1
  BY <1>1
<1>9. Distinct(t)
  BY <1>1, <1>4, <1>5, <1>6 DEF Distinct
<1>10. ToSet(t) = ToSet(s) \cup {w}
  BY <1>1, <1>2, <1>3, <1>6, <1>7, <1>8
<1> QED BY <1>1, <1>9, <1>10 DEF t

\* A waiter leaves its queue, for a call or for nothing.
LEMMA LeavesQueued ==
  ASSUME Requested, Queued, NEW w \in Wallet, req[w].phase = "queued", Leaves(w),
         NEW r, Set(w, r), r.phase # "queued"
  PROVE  Queued'
<1> DEFINE p == PoolOf(w)
<1>1. p \in Pools
  BY PoolIsCost
<1>2. PICK i \in DOMAIN queue[p] : /\ queue[p][i] = w
                                   /\ queue' = [queue EXCEPT ![p] = RemoveAt(@, i)]
  BY DEF Leaves
<1> HIDE DEF p
<1>3. queue[p] \in Seq(Wallet) /\ Distinct(queue[p]) /\ i \in 1 .. Len(queue[p])
  BY <1>1, <1>2, LenProperties DEF Queued
<1>4. /\ RemoveAt(queue[p], i) \in Seq(Wallet) /\ Distinct(RemoveAt(queue[p], i))
      /\ ToSet(RemoveAt(queue[p], i)) = ToSet(queue[p]) \ {w}
  BY <1>2, <1>3, RemoveAtFacts
<1>5. queue' \in [Pools -> Seq(Wallet)]
  BY <1>1, <1>2, <1>4 DEF Queued
<1>6. ASSUME NEW q \in Pools
      PROVE  Distinct(queue'[q]) /\ ToSet(queue'[q]) = InPhase("queued", q)'
  <2>1. InPhase("queued", q)' = InPhase("queued", q) \ {w}
    BY PhaseAfter
  <2>2. CASE q = p
    <3>1. queue'[q] = RemoveAt(queue[p], i)
      BY <1>1, <1>2, <2>2 DEF Queued
    <3> QED BY <1>1, <1>4, <2>1, <2>2, <3>1 DEF Queued
  <2>3. CASE q # p
    <3>1. queue'[q] = queue[q]
      BY <1>1, <1>2, <2>3 DEF Queued
    <3>2. w \notin InPhase("queued", q)
      BY <2>3 DEF InPhase, p
    <3> QED BY <2>1, <3>1, <3>2 DEF Queued
  <2> QED BY <2>2, <2>3
<1> QED BY <1>5, <1>6 DEF Queued

LEMMA AskQueued ==
  ASSUME Requested, Queued, NEW w \in Wallet, Ask(w)
  PROVE  Queued'
<1> DEFINE p == PoolOf(w)
           r == [req[w] EXCEPT !.phase = "queued"]
<1>1. p \in Pools /\ p = Pool(Head(req[w].todo))
  BY PoolIsCost DEF PoolOf, Upcoming
<1>2. /\ req[w].phase = "ready" /\ Set(w, r)
      /\ queue' = [queue EXCEPT ![p] = Append(@, w)]
  BY DEF Ask
<1>3. r.phase = "queued" /\ r.todo = req[w].todo
  BY DEF Requested, Request
<1> HIDE DEF r, p
<1>4. \A q : w \notin InPhase("queued", q)
  BY <1>2 DEF InPhase
<1>5. /\ Append(queue[p], w) \in Seq(Wallet) /\ Distinct(Append(queue[p], w))
      /\ ToSet(Append(queue[p], w)) = ToSet(queue[p]) \cup {w}
  BY <1>1, <1>4, AppendFacts DEF Queued
<1>6. queue' \in [Pools -> Seq(Wallet)]
  BY <1>1, <1>2, <1>5 DEF Queued
<1>7. ASSUME NEW q \in Pools
      PROVE  Distinct(queue'[q]) /\ ToSet(queue'[q]) = InPhase("queued", q)'
  <2>1. InPhase("queued", q)' = InPhase("queued", q) \cup (IF q = p THEN {w} ELSE {})
    <3>1. InPhase("queued", q)' = (InPhase("queued", q) \ {w})
             \cup (IF r.phase = "queued" /\ Pool(Head(r.todo)) = q THEN {w} ELSE {})
      BY <1>2, PhaseAfter
    <3> QED BY <1>1, <1>3, <1>4, <3>1
  <2>2. queue'[q] = IF q = p THEN Append(queue[p], w) ELSE queue[q]
    BY <1>1, <1>2 DEF Queued
  <2> QED BY <1>1, <1>5, <2>1, <2>2 DEF Queued
<1> QED BY <1>6, <1>7 DEF Queued

LEMMA StepQueued ==
  ASSUME Requested, Queued, NEW w \in Wallet, Step(w)
  PROVE  Queued'
<1>1. ASSUME queue' = queue, NEW r, Set(w, r),
             (req[w].phase # "queued" /\ r.phase # "queued")
               \/ (r.phase = req[w].phase /\ r.todo = req[w].todo)
      PROVE  Queued'
  BY <1>1, PhaseKept DEF Queued
<1>2. Idle.phase # "queued"
  BY DEF Idle
<1>3. req[w] = [phase |-> req[w].phase, todo |-> req[w].todo, late |-> req[w].late]
  BY DEF Requested, Request
<1>4. ASSUME NEW method \in Method, Begin(w, method) PROVE Queued'
  <2>1. [Idle EXCEPT !.phase = "ready", !.todo = method].phase = "ready"
    BY DEF Idle
  <2> QED BY <1>1, <1>4, <2>1 DEF Begin
<1>5. CASE Ask(w)
  BY <1>5, AskQueued
<1>6. CASE Admit(w)
  <2>1. [req[w] EXCEPT !.phase = "calling"].phase = "calling"
    BY <1>3
  <2> QED BY <1>6, <2>1, LeavesQueued DEF Admit, Starts, Assigned
<1>7. CASE AdmitOverdue(w) \/ Refuse(w)
  BY <1>2, <1>7, LeavesQueued DEF AdmitOverdue, Refuse, Starts, Assigned
<1>8. CASE DeadlinePasses(w)
  <2> DEFINE q == [req[w] EXCEPT !.late = TRUE]
  <2>1. q.phase = req[w].phase /\ q.todo = req[w].todo
    BY <1>3
  <2> QED BY <1>1, <1>8, <2>1 DEF DeadlinePasses
<1>9. ASSUME req[w].phase \in {"calling", "ready"}, Set(w, Idle), queue' = queue PROVE Queued'
  BY <1>1, <1>2, <1>9
<1>10. CASE DeadlineEndsCall(w) \/ Fails(w) \/ RequestTimeout(w)
  BY <1>9, <1>10 DEF DeadlineEndsCall, Abandon, Fails, RequestTimeout, Ends
<1>11. CASE ClientCancels(w)
  BY <1>2, <1>9, <1>11, LeavesQueued DEF ClientCancels, Abandon
<1>12. CASE Answered(w)
  <2>1. PICK more \in FollowUps(Upcoming(w)) :
          Set(w, IF Tail(req[w].todo) \o more = << >> THEN Idle
                 ELSE [req[w] EXCEPT !.phase = "ready", !.todo = Tail(req[w].todo) \o more])
    BY <1>12 DEF Answered
  <2> DEFINE next == Tail(req[w].todo) \o more
             r == [req[w] EXCEPT !.phase = "ready", !.todo = next]
  <2>2. req[w].phase = "calling" /\ queue' = queue
    BY <1>12 DEF Answered, Ends
  <2>3. r.phase = "ready"
    BY <1>3
  <2> HIDE DEF r
  <2> QED BY <1>1, <1>9, <2>1, <2>2, <2>3 DEF r
<1> QED
  BY <1>4, <1>5, <1>6, <1>7, <1>8, <1>10, <1>11, <1>12 DEF Step, CallEnds

\* There are only so many wallets.
LEMMA SeatsCount ==
  ASSUME NEW phase_, NEW p
  PROVE  IsFiniteSet(InPhase(phase_, p)) /\ Cardinality(InPhase(phase_, p)) \in Nat
<1>1. IsFiniteSet(InPhase(phase_, p))
  BY CallsAssumption, FS_Subset DEF InPhase
<1> QED BY <1>1, FS_CardinalityType

\* The permits move as the callers do: a call starts with its caller or
\* without one, a caller leaves its task behind, or a call ends.
LEMMA SeatMoves ==
  ASSUME Requested, Seated, NEW w \in Wallet, NEW r, Set(w, r), NEW q \in Pools, q = PoolOf(w),
         forgotten' \in [Pools -> Nat],
         \/ /\ free' = Taken(free, q) /\ orphans' = orphans
            /\ req[w].phase # "calling" /\ r.phase = "calling" /\ r.todo = req[w].todo
         \/ /\ free' = Taken(free, q) /\ orphans' = Given(orphans, q)
            /\ req[w].phase # "calling" /\ r.phase # "calling"
         \/ /\ free' = free /\ orphans' = Given(orphans, q)
            /\ req[w].phase = "calling" /\ r.phase # "calling"
         \/ /\ free' = Given(free, q) /\ orphans' = orphans
            /\ req[w].phase = "calling" /\ r.phase # "calling"
  PROVE  Seated'
<1>0. free \in [Pools -> Int] /\ orphans \in [Pools -> Nat]
  BY DEF Seated
<1>1. /\ Taken(free, q) \in [Pools -> Int] /\ Given(free, q) \in [Pools -> Int]
      /\ Given(orphans, q) \in [Pools -> Nat]
  BY <1>0 DEF Taken, Given
<1>2. \A p \in Pools : /\ Taken(free, q)[p] = IF p = q THEN free[p] - 1 ELSE free[p]
                       /\ Given(free, q)[p] = IF p = q THEN free[p] + 1 ELSE free[p]
                       /\ Given(orphans, q)[p] = IF p = q THEN orphans[p] + 1 ELSE orphans[p]
  BY <1>0 DEF Taken, Given
<1>3. free' \in [Pools -> Int] /\ orphans' \in [Pools -> Nat]
  BY <1>0, <1>1
<1>4. ASSUME NEW p \in Pools
      PROVE  Permits[p] - free'[p] = orphans'[p] + Cardinality(InPhase("calling", p)')
  <2> DEFINE S == InPhase("calling", p)
             T == InPhase("calling", p)'
  <2>1. /\ Permits[p] \in Nat /\ free[p] \in Int /\ orphans[p] \in Nat
        /\ IsFiniteSet(S) /\ Cardinality(S) \in Nat
        /\ Permits[p] - free[p] = orphans[p] + Cardinality(S)
    BY CallsAssumption, SeatsCount DEF Seated
  <2>2. T = (S \ {w}) \cup (IF r.phase = "calling" /\ Pool(Head(r.todo)) = p THEN {w} ELSE {})
    BY PhaseAfter
  <2>3. w \in S <=> req[w].phase = "calling" /\ p = q
    BY DEF InPhase
  <2>4. q = Pool(Head(req[w].todo))
    BY DEF PoolOf, Upcoming
  <2> SUFFICES Permits[p] - free'[p] = orphans'[p] + Cardinality(T)
    OBVIOUS
  <2> HIDE DEF S, T
  <2>5. w \notin S => Cardinality(S \cup {w}) = Cardinality(S) + 1
    BY <2>1, FS_AddElement
  <2>6. w \in S => Cardinality(S \ {w}) = Cardinality(S) - 1
    BY <2>1, FS_RemoveElement
  <2>7. CASE p # q
    <3>1. T = S
      BY <2>2, <2>3, <2>4, <2>7
    <3>2. free'[p] = free[p] /\ orphans'[p] = orphans[p]
      BY <1>2, <2>7
    <3> QED BY <2>1, <3>1, <3>2
  <2>8. CASE /\ p = q /\ free' = Taken(free, q) /\ orphans' = orphans
             /\ req[w].phase # "calling" /\ r.phase = "calling" /\ r.todo = req[w].todo
    <3>1. w \notin S /\ T = S \cup {w}
      BY <2>2, <2>3, <2>4, <2>8
    <3>2. free'[p] = free[p] - 1 /\ orphans'[p] = orphans[p]
      BY <1>2, <2>8
    <3> QED BY <2>1, <2>5, <3>1, <3>2
  <2>9. CASE /\ p = q /\ free' = Taken(free, q) /\ orphans' = Given(orphans, q)
             /\ req[w].phase # "calling" /\ r.phase # "calling"
    <3>1. T = S
      BY <2>2, <2>3, <2>9
    <3>2. free'[p] = free[p] - 1 /\ orphans'[p] = orphans[p] + 1
      BY <1>2, <2>9
    <3> QED BY <2>1, <3>1, <3>2
  <2>10. CASE /\ p = q /\ req[w].phase = "calling" /\ r.phase # "calling"
              /\ \/ free' = free /\ orphans' = Given(orphans, q)
                 \/ free' = Given(free, q) /\ orphans' = orphans
    <3>1. w \in S /\ T = S \ {w}
      BY <2>2, <2>3, <2>10
    <3>2. \/ free'[p] = free[p] /\ orphans'[p] = orphans[p] + 1
          \/ free'[p] = free[p] + 1 /\ orphans'[p] = orphans[p]
      BY <1>2, <2>10
    <3> QED BY <2>1, <2>6, <3>1, <3>2
  <2> QED BY <2>7, <2>8, <2>9, <2>10
<1> QED BY <1>3, <1>4 DEF Seated

LEMMA StepSeated ==
  ASSUME Requested, Seated, NEW w \in Wallet, Step(w)
  PROVE  Seated'
<1> DEFINE q == PoolOf(w)
<1>0. /\ q \in Pools /\ q = PoolOf(w)
      /\ Cost(Upcoming(w)) = q
      /\ orphans \in [Pools -> Nat] /\ forgotten \in [Pools -> Nat]
      /\ req[w] = [phase |-> req[w].phase, todo |-> req[w].todo, late |-> req[w].late]
  BY PoolIsCost DEF Seated, Requested, Request
<1> HIDE DEF q
<1>1. ASSUME UNCHANGED <<free, orphans, forgotten>>, NEW r, Set(w, r),
             (req[w].phase # "calling" /\ r.phase # "calling")
               \/ (r.phase = req[w].phase /\ r.todo = req[w].todo)
      PROVE  Seated'
  <2>1. \A p \in Pools : InPhase("calling", p)' = InPhase("calling", p)
    BY <1>1, PhaseKept
  <2> QED BY <1>1, <2>1 DEF Seated
<1>2. Idle.phase # "calling"
  BY DEF Idle
<1>3. ASSUME NEW method \in Method, Begin(w, method) PROVE Seated'
  <2>1. [Idle EXCEPT !.phase = "ready", !.todo = method].phase = "ready"
    BY DEF Idle
  <2> QED BY <1>1, <1>3, <2>1 DEF Begin
<1>4. CASE Ask(w)
  <2>1. [req[w] EXCEPT !.phase = "queued"].phase = "queued"
    BY <1>0
  <2> QED BY <1>1, <1>4, <2>1 DEF Ask
<1>5. CASE Refuse(w)
  BY <1>1, <1>2, <1>5 DEF Refuse
<1>6. CASE DeadlinePasses(w)
  <2> DEFINE r == [req[w] EXCEPT !.late = TRUE]
  <2>1. r.phase = req[w].phase /\ r.todo = req[w].todo
    BY <1>0
  <2> QED BY <1>1, <1>6, <2>1 DEF DeadlinePasses
<1>7. CASE Admit(w)
  <2> DEFINE r == [req[w] EXCEPT !.phase = "calling"]
  <2>1. r.phase = "calling" /\ r.todo = req[w].todo
    BY <1>0
  <2>2. /\ Set(w, r) /\ req[w].phase = "queued" /\ free' = Taken(free, q)
        /\ orphans' = orphans /\ forgotten' = forgotten
    BY <1>0, <1>7 DEF Admit, Starts, Assigned
  <2> HIDE DEF r
  <2> QED BY <1>0, <2>1, <2>2, SeatMoves
<1>8. CASE AdmitOverdue(w)
  <2>1. /\ Set(w, Idle) /\ req[w].phase = "queued" /\ free' = Taken(free, q)
        /\ orphans' = Given(orphans, q) /\ forgotten' = forgotten
    BY <1>0, <1>8 DEF AdmitOverdue, Starts, Assigned
  <2>2. req[w].phase # "calling"
    BY <2>1
  <2> QED BY <1>0, <1>2, <2>1, <2>2, SeatMoves
<1>9. ASSUME Abandon(w) PROVE Seated'
  <2>1. /\ Set(w, Idle) /\ req[w].phase = "calling" /\ free' = free
        /\ orphans' = Given(orphans, q) /\ forgotten' = forgotten
    BY <1>0, <1>9 DEF Abandon
  <2> QED BY <1>0, <1>2, <2>1, SeatMoves
<1>10. ASSUME NEW r, Set(w, r), r.phase # "calling", Ends(w), orphans' = orphans,
              forgotten' \in {forgotten, Given(forgotten, q)}
       PROVE  Seated'
  <2>1. req[w].phase = "calling" /\ free' = Given(free, q)
    BY <1>0, <1>10 DEF Ends
  <2>2. forgotten' \in [Pools -> Nat]
    <3>1. Given(forgotten, q) \in [Pools -> Nat]
      BY <1>0 DEF Given
    <3> QED BY <1>0, <1>10, <3>1
  <2> QED BY <1>0, <1>10, <2>1, <2>2, SeatMoves
<1>11. CASE Fails(w) \/ RequestTimeout(w)
  BY <1>0, <1>2, <1>10, <1>11 DEF Fails, RequestTimeout
<1>12. CASE Answered(w)
  <2>1. PICK more \in FollowUps(Upcoming(w)) :
          Set(w, IF Tail(req[w].todo) \o more = << >> THEN Idle
                 ELSE [req[w] EXCEPT !.phase = "ready", !.todo = Tail(req[w].todo) \o more])
    BY <1>12 DEF Answered
  <2> DEFINE next == Tail(req[w].todo) \o more
             r == [req[w] EXCEPT !.phase = "ready", !.todo = next]
  <2>2. Ends(w) /\ orphans' = orphans /\ forgotten' = forgotten
    BY <1>12 DEF Answered
  <2>3. r.phase = "ready"
    BY <1>0
  <2> HIDE DEF r
  <2> QED BY <1>2, <1>10, <2>1, <2>2, <2>3 DEF r
<1>13. CASE ClientCancels(w)
  BY <1>1, <1>2, <1>9, <1>13 DEF ClientCancels
<1> QED
  BY <1>3, <1>4, <1>5, <1>6, <1>7, <1>8, <1>9, <1>11, <1>12, <1>13
     DEF Step, CallEnds, DeadlineEndsCall

\* An orphaned task gives its permit back; the node finishes what it was left.
LEMMA TasksSeated ==
  ASSUME Requested, Seated, NEW q \in Pools, OrphanEnds(q) \/ NodeFinishes(q)
  PROVE  Seated'
<1>0. free \in [Pools -> Int] /\ orphans \in [Pools -> Nat] /\ forgotten \in [Pools -> Nat]
  BY DEF Seated
<1>1. \A p \in Pools : InPhase("calling", p)' = InPhase("calling", p)
  BY DEF OrphanEnds, NodeFinishes, InPhase, PoolOf, Upcoming
<1>2. CASE OrphanEnds(q)
  <2>1. /\ orphans[q] > 0 /\ orphans' = [orphans EXCEPT ![q] = @ - 1]
        /\ free' = [free EXCEPT ![q] = @ + 1]
        /\ forgotten' = forgotten \/ forgotten' = [forgotten EXCEPT ![q] = @ + 1]
    BY <1>2 DEF OrphanEnds, Taken, Given
  <2>2. /\ free' \in [Pools -> Int] /\ orphans' \in [Pools -> Nat]
        /\ forgotten' \in [Pools -> Nat]
    BY <1>0, <2>1
  <2>3. ASSUME NEW p \in Pools
        PROVE  Permits[p] - free'[p] = orphans'[p] + Cardinality(InPhase("calling", p))
    <3> DEFINE n == Cardinality(InPhase("calling", p))
    <3>1. /\ n \in Nat /\ Permits[p] \in Nat /\ free[p] \in Int /\ orphans[p] \in Nat
          /\ Permits[p] - free[p] = orphans[p] + n
      BY <1>0, SeatsCount, CallsAssumption DEF Seated
    <3> HIDE DEF n
    <3>2. \/ free'[p] = free[p] + 1 /\ orphans'[p] = orphans[p] - 1
          \/ free'[p] = free[p] /\ orphans'[p] = orphans[p]
      BY <1>0, <2>1
    <3>3. Permits[p] - free'[p] = orphans'[p] + n
      BY <3>1, <3>2
    <3> QED BY <3>3 DEF n
  <2> QED BY <1>1, <2>2, <2>3 DEF Seated
<1>3. CASE NodeFinishes(q)
  <2>1. /\ forgotten[q] > 0 /\ forgotten' = [forgotten EXCEPT ![q] = @ - 1]
        /\ free' = free /\ orphans' = orphans
    BY <1>3 DEF NodeFinishes, Taken
  <2>2. forgotten' \in [Pools -> Nat]
    BY <1>0, <2>1
  <2> QED BY <1>1, <2>1, <2>2 DEF Seated
<1> QED BY <1>2, <1>3

-----------------------------------------------------------------------------
(***************************************************************************)
(* All of it, on its own and inside the process.                           *)
(***************************************************************************)

\* The inductive invariant.
CallsInv == Accounted /\ Requested /\ Queued /\ Seated

\* Nothing asked, nothing held, and nothing at the node that anyone waits for.
Quiet ==
  /\ req = [w \in Wallet |-> Idle]
  /\ queue = [p \in Pools |-> << >>]
  /\ free = Permits
  /\ orphans = [p \in Pools |-> 0]
  /\ forgotten \in [Pools -> Nat]
  /\ working = forgotten

LEMMA QuietInv == Quiet => CallsInv
<1> SUFFICES ASSUME Quiet PROVE CallsInv
  OBVIOUS
<1> USE DEF Quiet
<1>1. Accounted
  BY CallsAssumption DEF Accounted, Counters, WorkHoldsPermits
<1>2. Requested
  BY IdleRequest DEF Requested
<1>3. \A phase_ \in {"queued", "calling"} : \A p \in Pools : InPhase(phase_, p) = {}
  BY DEF InPhase, Idle
<1>4. Queued
  <2>1. << >> \in Seq(Wallet) /\ Len(<< >>) = 0 /\ ToSet(<< >>) = {}
    BY EmptySeq DEF ToSet
  <2>2. Distinct(<< >>)
    BY <2>1 DEF Distinct
  <2>3. \A p \in Pools : queue[p] = << >> /\ InPhase("queued", p) = {}
    BY <1>3
  <2>4. queue \in [Pools -> Seq(Wallet)]
    BY <2>1
  <2> QED BY <2>1, <2>2, <2>3, <2>4 DEF Queued
<1>5. Seated
  <2>1. \A p \in Pools : Cardinality(InPhase("calling", p)) = 0
    BY <1>3, FS_EmptySet
  <2> QED BY <2>1, CallsAssumption DEF Seated
<1> QED BY <1>1, <1>2, <1>4, <1>5 DEF CallsInv

LEMMA InitInv == CallsInit => CallsInv
<1>1. CallsInit => Quiet
  BY DEF CallsInit, Quiet
<1> QED BY <1>1, QuietInv

LEMMA CallsStutter ==
  ASSUME CallsInv, UNCHANGED callVars
  PROVE  CallsInv'
<1>1. UNCHANGED <<req, queue, free, orphans, working, forgotten>>
  BY DEF callVars
<1>2. \A phase_, p : InPhase(phase_, p)' = InPhase(phase_, p)
  BY <1>1 DEF InPhase, PoolOf, Upcoming
<1> QED BY <1>1, <1>2, CallsAccounted DEF CallsInv, Requested, Queued, Seated

LEMMA CallsStep ==
  ASSUME CallsInv, CallsNext
  PROVE  CallsInv'
<1>1. ASSUME NEW w \in Wallet, Step(w) PROVE CallsInv'
  BY <1>1, StepAccounted, StepRequested, StepQueued, StepSeated DEF CallsInv
<1>2. ASSUME NEW p \in Pools, OrphanEnds(p) \/ NodeFinishes(p) PROVE CallsInv'
  <2>1. Accounted'
    BY <1>2, CallsAccounted DEF CallsNext, CallsInv
  <2>2. req' = req /\ queue' = queue
    BY <1>2 DEF OrphanEnds, NodeFinishes
  <2>3. Requested' /\ Queued'
    BY <2>2 DEF CallsInv, Requested, Queued, InPhase, PoolOf, Upcoming
  <2> QED BY <1>2, <2>1, <2>3, TasksSeated DEF CallsInv
<1> QED BY <1>1, <1>2 DEF CallsNext

\* The invariant gives every variable its kind and every request its cap.
LEMMA InvTypes == CallsInv => CallsTypeOK
<1> SUFFICES ASSUME CallsInv PROVE CallsTypeOK
  OBVIOUS
<1>1. ASSUME NEW w \in Wallet
      PROVE  /\ req[w].phase \in {"idle", "ready", "queued", "calling"}
             /\ req[w].phase = "idle" <=> req[w].todo = << >>
             /\ req[w].todo \in Seq(Kind)
             /\ Cardinality({i \in DOMAIN req[w].todo : req[w].todo[i] = "fetch"}) <= MaxTxids
  <2> DEFINE todo == req[w].todo
             F == {i \in DOMAIN todo : todo[i] = "fetch"}
  <2>1. Request(req[w]) /\ Agenda(todo) /\ todo \in Seq(Kind)
    BY DEF CallsInv, Requested, Request, Agenda
  <2>2. DOMAIN todo = 1 .. Len(todo) /\ Len(todo) \in Nat
    BY <2>1, LenProperties
  <2>3. Cardinality(F) <= MaxTxids
    <3>1. CASE F = {}
      BY <3>1, FS_EmptySet, CallsAssumption
    <3>2. CASE F # {}
      <4>1. Len(todo) <= MaxTxids
        BY <2>1, <2>2, <3>2 DEF Agenda
      <4>2. IsFiniteSet(1 .. Len(todo)) /\ Cardinality(1 .. Len(todo)) = Len(todo)
        <5> DEFINE n == Len(todo)
        <5>1. n \in Nat
          BY <2>2
        <5> HIDE DEF n
        <5>2. IsFiniteSet(1 .. n) /\ Cardinality(1 .. n) = IF 1 > n THEN 0 ELSE n - 1 + 1
          BY <5>1, FS_Interval
        <5>3. (IF 1 > n THEN 0 ELSE n - 1 + 1) = n
          BY <5>1
        <5> QED BY <5>2, <5>3 DEF n
      <4>3. F \subseteq 1 .. Len(todo)
        BY <2>2
      <4> HIDE DEF F
      <4>4. Cardinality(F) <= Len(todo) /\ Cardinality(F) \in Nat
        BY <4>2, <4>3, FS_Subset, FS_CardinalityType
      <4> QED BY <2>2, <4>1, <4>4, CallsAssumption
    <3> QED BY <3>1, <3>2
  <2> QED BY <2>1, <2>3 DEF Request
<1>2. ASSUME NEW p \in Pools
      PROVE  /\ free[p] \in 0 .. Permits[p]
             /\ orphans[p] \in Nat /\ working[p] \in Nat /\ forgotten[p] \in Nat
             /\ ToSet(queue[p]) = {w \in Wallet : req[w].phase = "queued" /\ PoolOf(w) = p}
  <2> DEFINE n == Cardinality(InPhase("calling", p))
  <2>1. /\ n \in Nat /\ Permits[p] \in Nat /\ free[p] \in Nat /\ working[p] \in Int
        /\ orphans[p] \in Nat /\ forgotten[p] \in Nat
        /\ Permits[p] - free[p] = orphans[p] + n
        /\ working[p] - forgotten[p] = Permits[p] - free[p]
    BY SeatsCount, CallsAssumption
       DEF CallsInv, Seated, Accounted, Counters, WorkHoldsPermits
  <2> HIDE DEF n
  <2>2. free[p] \in 0 .. Permits[p] /\ working[p] \in Nat
    BY <2>1
  <2> QED BY <2>1, <2>2 DEF CallsInv, Queued, InPhase
<1> QED BY <1>1, <1>2 DEF CallsTypeOK

\* Only a call that is not overdue gets its caller to wait for it.
LEMMA LateStaysOut ==
  ASSUME CallsInv, CallsNext, NEW w \in Wallet, req[w].late, req[w].phase # "calling"
  PROVE  req'[w].phase # "calling"
<1>0. /\ DOMAIN req = Wallet /\ Request(req[w])
      /\ req[w] = [phase |-> req[w].phase, todo |-> req[w].todo, late |-> req[w].late]
      /\ Timed(Upcoming(w)) /\ Idle.phase = "idle"
  BY DEF CallsInv, Requested, Request, Upcoming, Idle
<1>1. ASSUME NEW v \in Wallet, v # w, NEW r, Set(v, r) PROVE req'[w].phase # "calling"
  BY <1>0, <1>1 DEF Set
<1>2. ASSUME NEW r, r.phase # "calling", Set(w, r) PROVE req'[w].phase # "calling"
  BY <1>0, <1>2 DEF Set
<1>3. ASSUME NEW v \in Wallet, Step(v) PROVE req'[w].phase # "calling"
  <2>1. CASE v # w
    <3>1. \E r : Set(v, r)
      BY <1>3
         DEF Step, Begin, Ask, Admit, AdmitOverdue, Refuse, DeadlinePasses, DeadlineEndsCall,
             Abandon, ClientCancels, CallEnds, Answered, Fails, RequestTimeout
    <3> QED BY <1>1, <2>1, <3>1
  <2>2. CASE v = w
    <3>1. ~Admit(w)
      BY <1>0 DEF Admit, Overdue
    <3>2. ~CallEnds(w) /\ ~Abandon(w)
      BY DEF CallEnds, Answered, Fails, RequestTimeout, Ends, Abandon
    <3>3. ~\E method \in Method : Begin(w, method)
      BY <1>0 DEF Begin, Request
    <3>4. CASE Ask(w)
      <4>1. [req[w] EXCEPT !.phase = "queued"].phase = "queued"
        BY <1>0
      <4> QED BY <1>2, <3>4, <4>1 DEF Ask
    <3>5. CASE DeadlinePasses(w)
      BY <3>5 DEF DeadlinePasses
    <3>6. CASE AdmitOverdue(w) \/ Refuse(w) \/ ClientCancels(w)
      BY <1>0, <1>2, <3>2, <3>6 DEF AdmitOverdue, Refuse, ClientCancels
    <3> QED BY <1>3, <2>2, <3>1, <3>2, <3>3, <3>4, <3>5, <3>6 DEF Step, DeadlineEndsCall
  <2> QED BY <2>1, <2>2
<1>4. ASSUME NEW p \in Pools, OrphanEnds(p) \/ NodeFinishes(p) PROVE req'[w].phase # "calling"
  BY <1>4 DEF OrphanEnds, NodeFinishes
<1> QED BY <1>3, <1>4 DEF CallsNext

\* What the process does to the calls: nothing, one of their steps, or the end
\* of them all.
LEMMA LifeStep ==
  ASSUME [LifeNext]_lifeVars
  PROVE  \/ UNCHANGED callVars
         \/ CallsNext
         \/ \E how : ProcessEnds(how)
         \/ ResponseOpens
<1>1. CASE UNCHANGED lifeVars
  BY <1>1 DEF lifeVars
<1>2. CASE RunStep
  BY <1>2
     DEF RunStep, Resolve, StartTransport, OpenBackend, Wire, WireDarkside, Bind, StartupFails,
         BeginDrain, Drained
<1>3. CASE NodeUnreachable \/ PeerUnusable \/ ImportStarts \/ ImportEnds
  BY <1>3 DEF NodeUnreachable, PeerUnusable, ImportStarts, ImportEnds
<1>4. ASSUME NEW name \in ChainNames, NodeReached(name) PROVE UNCHANGED callVars
  BY <1>4 DEF NodeReached
<1>5. CASE SignalKills \/ SignalInterruptsImport \/ SignalLost \/ SignalNoticed
  BY <1>5 DEF SignalKills, SignalInterruptsImport, SignalLost, SignalNoticed
<1>6. CASE TimeoutElapses \/ Stop
  BY <1>6 DEF TimeoutElapses, Stop
<1>7. ASSUME NEW w \in Wallet, WalletStep(w) PROVE CallsNext
  BY <1>7 DEF WalletStep, Call, CallsNext
<1>8. ASSUME NEW p \in Pools, Call(OrphanEnds(p)) \/ NodeWorksOn(p) PROVE CallsNext
  BY <1>8 DEF Call, NodeWorksOn, CallsNext
<1>9. CASE ResponsesEnd
  BY <1>9 DEF ResponsesEnd
<1> QED
  BY <1>1, <1>2, <1>3, <1>4, <1>5, <1>6, <1>7, <1>8, <1>9 DEF LifeNext

\* A response that streams is none of the bulkhead's: it counts as a request.
LEMMA ResponseInv ==
  ASSUME CallsInv, ResponseOpens
  PROVE  CallsInv'
<1>1. UNCHANGED <<req, queue, free, orphans, working, forgotten>>
  BY DEF ResponseOpens
<1>2. \A phase_, p : InPhase(phase_, p)' = InPhase(phase_, p)
  BY <1>1 DEF InPhase, PoolOf, Upcoming
<1>3. Accounted'
  BY <1>1 DEF CallsInv, Accounted, Counters, WorkHoldsPermits
<1> QED BY <1>1, <1>2, <1>3 DEF CallsInv, Requested, Queued, Seated

\* The node's work outlives the process and is nobody's any more.
LEMMA ProcessEndsInv ==
  ASSUME CallsInv, NEW how, ProcessEnds(how)
  PROVE  CallsInv'
<1>1. working \in [Pools -> Nat]
  <2>1. \A p \in Pools : working[p] \in Nat
    BY InvTypes DEF CallsTypeOK
  <2> QED BY <2>1 DEF CallsInv, Accounted, Counters
<1>2. Quiet'
  BY <1>1 DEF ProcessEnds, Quiet
<1> QED BY <1>2, QuietInv, PTL

\* The invariant holds of the bulkhead on its own.
THEOREM CallsConsistent == CallsSpec => []CallsInv
<1>1. CallsInv /\ [CallsNext]_callVars => CallsInv'
  BY CallsStep, CallsStutter
<1> QED BY <1>1, InitInv, PTL DEF CallsSpec

\* However callers cancel, time out and leave, the permits out of a pool are
\* the calls of its cost the node works on and the client still waits for
\* (admit, hold).
THEOREM PermitsAccounted == CallsSpec => []WorkHoldsPermits
<1>1. CallsInv => WorkHoldsPermits
  BY DEF CallsInv, Accounted
<1> QED BY <1>1, CallsConsistent, PTL

\* The invariant holds of the server, whenever it is started, told to stop,
\* drained or killed.
THEOREM ServerConsistent == LifeSpec => []CallsInv
<1>1. LifeInit => CallsInv
  BY InitInv DEF LifeInit
<1>2. CallsInv /\ [LifeNext]_lifeVars => CallsInv'
  BY LifeStep, CallsStep, CallsStutter, ProcessEndsInv, ResponseInv
<1> QED BY <1>1, <1>2, PTL DEF LifeSpec

\* The same account inside a process that drains and dies: what the node still
\* works on for a process that is gone holds no permit of the next.
THEOREM ServerPermitsAccounted == LifeSpec => []WorkHoldsPermits
<1>1. CallsInv => WorkHoldsPermits
  BY DEF CallsInv, Accounted
<1> QED BY <1>1, ServerConsistent, PTL

\* The queues hold exactly the waiting requests, the permits never exceed the
\* pool, and no request fetches more transactions than the cap allows
\* (taddress_transactions).
THEOREM CallsTyped == LifeSpec => []CallsTypeOK
BY InvTypes, ServerConsistent, PTL

\* Once its deadline has passed a request waits for no further node call
\* (with_deadline).
THEOREM DeadlinesStopCalls == LifeSpec => DeadlineStopsCalls
<1>1. CallsInv /\ [LifeNext]_lifeVars =>
        [\A w \in Wallet :
           req[w].late /\ req[w].phase # "calling" => req'[w].phase # "calling"]_callVars
  <2> SUFFICES ASSUME CallsInv, [LifeNext]_lifeVars, NEW w \in Wallet,
                      req[w].late, req[w].phase # "calling", ~UNCHANGED callVars
               PROVE  req'[w].phase # "calling"
    OBVIOUS
  <2>1. ASSUME NEW how, ProcessEnds(how) PROVE req'[w].phase # "calling"
    BY <2>1 DEF ProcessEnds, Idle
  <2>2. ~ResponseOpens \/ req' = req
    BY DEF ResponseOpens
  <2> QED BY <2>1, <2>2, LifeStep, LateStaysOut
<1> QED BY <1>1, ServerConsistent, PTL DEF LifeSpec, DeadlineStopsCalls

-----------------------------------------------------------------------------
(***************************************************************************)
(* config.rs and run: the server that was asked for.                       *)
(***************************************************************************)
LineFold == INSTANCE FoldFacts WITH Op <- ReadLine

\* Reading a zcash.conf line by line leaves each key what the last line that
\* sets it says.
LEMMA FileRead ==
  ASSUME NEW Line, NEW text \in Seq(Line)
  PROVE  FoldLeft(ReadLine, [key \in ConfKey |-> None], text) = [key \in ConfKey |-> LastLine(text, key)]
<1> DEFINE none == [key \in ConfKey |-> None]
           At(i, key) == {j \in 1 .. i : text[j].key = key}
           Highest(s) == IF s = {} THEN None ELSE Parsed(text[CHOOSE j \in s : \A k \in s : k <= j])
           Latest(i, key) == Highest(At(i, key))
<1>1. PICK m \in Nat : m = Len(text) /\ DOMAIN text = 1 .. m
  BY LenProperties
<1>2. FoldLeft(ReadLine, none, text) = LineFold!Folded(none, text)
  BY DEF FoldLeft, MapThenFoldSet, Max, LineFold!Folded, LineFold!Iterates, LineFold!Greatest
<1>3. PICK run : LineFold!Run(run, none, text, m) /\ run[m] = LineFold!Folded(none, text)
  BY <1>1, LineFold!FoldRuns
<1> DEFINE Holds(i) == run[i] = [key \in ConfKey |-> Latest(i, key)]
           I == {i \in Nat : i <= m => Holds(i)}
<1>4. 0 \in I
  <2>1. run[0] = none
    BY <1>3 DEF LineFold!Run
  <2>2. \A key \in ConfKey : Latest(0, key) = None
    <3>1. 1 .. 0 = {}
      OBVIOUS
    <3>2. \A key : At(0, key) = {}
      BY <3>1
    <3> HIDE DEF At
    <3> QED BY <3>2
  <2> HIDE DEF Latest
  <2> QED BY <2>1, <2>2
<1>5. ASSUME NEW i \in Nat, i \in I PROVE i + 1 \in I
  <2> SUFFICES ASSUME i + 1 <= m PROVE Holds(i + 1)
    <3> HIDE DEF Holds
    <3> QED OBVIOUS
  <2>1. i + 1 \in 1 .. m /\ (i + 1) - 1 = i
    OBVIOUS
  <2>2. Holds(i)
    <3> HIDE DEF Holds
    <3> QED BY <1>5, <2>1
  <2>3. PICK line : line = text[i + 1]
    OBVIOUS
  <2>4. run[i + 1] = ReadLine(run[i], line)
    BY <1>3, <2>1, <2>3 DEF LineFold!Run
  <2>5. \A k : k \in 1 .. i + 1 <=> k \in 1 .. i \/ k = i + 1
    OBVIOUS
  <2>6. ASSUME NEW key, key # line.key PROVE Latest(i + 1, key) = Latest(i, key)
    <3>1. \A k : k \in At(i + 1, key) <=> k \in At(i, key)
      BY <2>3, <2>5, <2>6
    <3>2. At(i + 1, key) = At(i, key)
      BY <3>1
    <3> HIDE DEF At, Highest
    <3> QED BY <3>2
  <2>7. ASSUME NEW key, key = line.key PROVE Latest(i + 1, key) = Parsed(line)
    <3>1. i + 1 \in At(i + 1, key)
      BY <2>3, <2>5, <2>7
    <3>2. \A k \in At(i + 1, key) : k \in Int /\ k <= i + 1
      OBVIOUS
    <3> HIDE DEF At
    <3>3. (CHOOSE j \in At(i + 1, key) : \A k \in At(i + 1, key) : k <= j) = i + 1
      <4>1. \A j \in At(i + 1, key) : (\A k \in At(i + 1, key) : k <= j) <=> j = i + 1
        BY <3>1, <3>2
      <4> QED BY <3>1, <4>1
    <3> QED BY <2>3, <3>1, <3>3
  <2> HIDE DEF Latest
  <2>8. CASE line.key \in ConfKey
    <3>1. run[i + 1] = [run[i] EXCEPT ![line.key] = Parsed(line)]
      BY <2>4, <2>8 DEF ReadLine
    <3> QED BY <2>2, <2>6, <2>7, <2>8, <3>1
  <2>9. CASE line.key \notin ConfKey
    <3>1. run[i + 1] = run[i]
      BY <2>4, <2>9 DEF ReadLine
    <3> QED BY <2>2, <2>6, <2>9, <3>1
  <2> QED BY <2>8, <2>9
<1>6. Holds(m)
  <2>1. \A i \in Nat : i \in I
    <3> HIDE DEF I
    <3> QED BY <1>4, <1>5, LineFold!SetInduction
  <2> HIDE DEF Holds
  <2> QED BY <2>1
<1>7. \A key : Latest(m, key) = LastLine(text, key)
  BY <1>1 DEF LastLine
<1> HIDE DEF Latest
<1> QED BY <1>2, <1>3, <1>6, <1>7

\* The settings a zcash.conf that was accepted supplies.
LEMMA FileSettings ==
  ASSUME NEW c \in CommandLines, parse_zcash_conf(c.zcash_conf) # Refused
  PROVE  \A key \in ConfKey : parse_zcash_conf(c.zcash_conf)[key] = FromFile(c, key)
<1>1. CASE c.zcash_conf = None
  BY <1>1 DEF parse_zcash_conf, FromFile
<1>2. CASE c.zcash_conf # None
  <2>1. c.zcash_conf.text \in Seq([key : STRING, value : STRING])
    BY <1>2, LifecycleAssumption DEF IsCommandLine
  <2>2. PICK text : text = c.zcash_conf.text
    OBVIOUS
  <2>3. parse_zcash_conf(c.zcash_conf) = FoldLeft(ReadLine, [key \in ConfKey |-> None], text)
    BY <1>2, <2>2 DEF parse_zcash_conf
  <2>4. parse_zcash_conf(c.zcash_conf) = [key \in ConfKey |-> LastLine(text, key)]
    BY <2>1, <2>2, <2>3, FileRead
  <2> QED BY <1>2, <2>2, <2>4 DEF FromFile
<1> QED BY <1>1, <1>2

\* A configuration that some command line resolved to.
Resolved(c, cfg) == resolve(c) # Refused /\ cfg = resolve(c)

\* What the parts of a resolved configuration are.
LEMMA ResolvedParts ==
  ASSUME NEW c \in CommandLines, NEW cfg, Resolved(c, cfg)
  PROVE  /\ cfg.node = NodeConfig(c, parse_zcash_conf(c.zcash_conf))
         /\ parse_zcash_conf(c.zcash_conf) # Refused
         /\ cfg.tls = resolve_tls(c) /\ cfg.tls # Refused
         /\ cfg.grpc_web = resolve_grpc_web(c) /\ cfg.grpc_web # Refused
         /\ cfg.snapshot = resolve_snapshot(c) /\ cfg.snapshot # Refused
         /\ cfg.snapshot_url = resolve_snapshot_url(c) /\ cfg.snapshot_url # Refused
         /\ cfg.backend = resolve_backend(c) /\ cfg.backend # Refused
         /\ cfg.darkside = c.darkside /\ cfg.nocache = c.nocache
         /\ cfg.start_height = c.start_height
         /\ cfg.limits = c.limits /\ \A limit \in Limit : c.limits[limit] # 0
BY DEF Resolved, resolve

\* The node is the one asked for (NodeConfig in Cli::resolve).
LEMMA ResolvedNode ==
  ASSUME NEW c \in CommandLines, NEW cfg, Resolved(c, cfg)
  PROVE  NodeAsAsked(c, cfg.node)
<1>1. PICK file : file = parse_zcash_conf(c.zcash_conf)
  OBVIOUS
<1>2. \A key \in ConfKey : file[key] = FromFile(c, key)
  BY <1>1, FileSettings, ResolvedParts
<1>3. /\ file["rpcuser"] = FromFile(c, "rpcuser") /\ file["rpcpassword"] = FromFile(c, "rpcpassword")
      /\ file["rpcbind"] = FromFile(c, "rpcbind") /\ file["rpcport"] = FromFile(c, "rpcport")
  BY <1>2 DEF ConfKey
<1>4. cfg.node = NodeConfig(c, file)
  BY <1>1, ResolvedParts
<1>5. PICK user, password, url :
             /\ user = Or(c.rpc_user, Or(file["rpcuser"], ""))
             /\ password = Or(c.rpc_password, Or(file["rpcpassword"], ""))
             /\ url = Or(c.rpc_url, <<Or(c.rpc_host, Or(file["rpcbind"], "127.0.0.1")),
                                      Or(c.rpc_port, Or(file["rpcport"], "8232"))>>)
  OBVIOUS
<1>6. cfg.node.user = user /\ cfg.node.password = password /\ cfg.node.url = url
  <2>1. cfg.node = [user |-> user, password |-> password, url |-> url]
    BY <1>4, <1>5 DEF NodeConfig
  <2> QED BY <2>1
<1>7. \A value, fallback : Or(value, fallback) = IF value = None THEN fallback ELSE value
  BY DEF Or
<1>8. IF c.rpc_url # None THEN cfg.node.url = c.rpc_url
      ELSE cfg.node.url = <<Or(c.rpc_host, Or(file["rpcbind"], "127.0.0.1")),
                            Or(c.rpc_port, Or(file["rpcport"], "8232"))>>
  BY <1>5, <1>6, <1>7
<1> QED BY <1>3, <1>5, <1>6, <1>8 DEF NodeAsAsked

\* The modes are the ones asked for (Cli::resolve and the functions it calls).
LEMMA ResolvedModes ==
  ASSUME NEW c \in CommandLines, NEW cfg, Resolved(c, cfg)
  PROVE  ModesAsAsked(c, cfg) /\ NothingListensInVain(c, cfg)
<1>1. IsCommandLine(c)
  BY LifecycleAssumption
<1>2. /\ c.no_tls \in BOOLEAN /\ c.gen_cert \in BOOLEAN /\ c.tls_cert \in BOOLEAN
      /\ c.tls_key \in BOOLEAN /\ c.snapshot_serve \in BOOLEAN /\ c.grpc_web \in BOOLEAN
  BY <1>1 DEF IsCommandLine, Switch
<1>3. /\ cfg.tls = "disabled" <=> c.no_tls
      /\ cfg.tls = "generated" <=> c.gen_cert
      /\ cfg.tls = "enabled" => c.tls_cert /\ c.tls_key
  <2>1. cfg.tls = resolve_tls(c) /\ cfg.tls # Refused
    BY ResolvedParts
  <2>2. CASE c.no_tls
    <3>1. ~c.gen_cert /\ cfg.tls = "disabled"
      BY <1>2, <2>1, <2>2 DEF resolve_tls
    <3> QED BY <1>2, <2>2, <3>1
  <2>3. CASE ~c.no_tls /\ c.gen_cert
    <3>1. cfg.tls = "generated"
      BY <2>1, <2>3 DEF resolve_tls
    <3> QED BY <1>2, <2>3, <3>1
  <2>4. CASE ~c.no_tls /\ ~c.gen_cert
    <3>1. cfg.tls = "enabled" /\ c.tls_cert /\ c.tls_key
      BY <2>1, <2>4 DEF resolve_tls
    <3> QED BY <1>2, <2>4, <3>1
  <2> QED BY <1>2, <2>2, <2>3, <2>4
<1>4. /\ cfg.snapshot # None <=> c.snapshot_serve
      /\ c.snapshot_bind # None => cfg.snapshot # None
  <2>1. cfg.snapshot = resolve_snapshot(c) /\ cfg.snapshot # Refused
    BY ResolvedParts
  <2>2. [max_concurrent_downloads |-> c.snapshot_max_concurrent_downloads] # None
    BY <1>1, LifecycleAssumption DEF IsCommandLine
  <2> QED BY <1>2, <2>1, <2>2 DEF resolve_snapshot
<1>5. /\ cfg.grpc_web # None <=> c.grpc_web
      /\ c.grpc_web_allow_origin # << >> => cfg.grpc_web = "only"
  <2>1. cfg.grpc_web = resolve_grpc_web(c) /\ cfg.grpc_web # Refused
    BY ResolvedParts
  <2>2. None # "any" /\ None # "only"
    BY LifecycleAssumption
  <2> QED BY <1>2, <2>1, <2>2 DEF resolve_grpc_web
<1>6. cfg.backend = c.backend
  <2>1. cfg.backend = resolve_backend(c) /\ cfg.backend # Refused
    BY ResolvedParts
  <2>2. c.backend \in {"rpc", "readstate"}
    BY <1>1 DEF IsCommandLine
  <2> QED BY <2>1, <2>2 DEF resolve_backend
<1>7. cfg.snapshot_url = c.snapshot_url
  <2>1. cfg.snapshot_url = resolve_snapshot_url(c) /\ cfg.snapshot_url # Refused
    BY ResolvedParts
  <2> QED BY <2>1 DEF resolve_snapshot_url
<1>8. cfg.limits = c.limits /\ \A limit \in Limit : c.limits[limit] > 0
  <2>1. cfg.limits = c.limits /\ \A limit \in Limit : c.limits[limit] # 0
    BY ResolvedParts
  <2>2. c.limits \in [Limit -> Nat]
    BY <1>1 DEF IsCommandLine
  <2> QED BY <2>1, <2>2
<1>9. cfg.darkside = c.darkside /\ cfg.nocache = c.nocache /\ cfg.start_height = c.start_height
  BY ResolvedParts
<1> QED
  BY <1>3, <1>4, <1>5, <1>6, <1>7, <1>8, <1>9 DEF ModesAsAsked, NothingListensInVain

\* What a resolved configuration lets be wired together (resolve_snapshot,
\* validate_snapshot_url, the backend's checks).
LEMMA ResolvedServable ==
  ASSUME NEW c \in CommandLines, NEW cfg, Resolved(c, cfg)
  PROVE  /\ cfg.darkside \in BOOLEAN /\ cfg.nocache \in BOOLEAN
         /\ cfg.snapshot # None => ~cfg.nocache /\ ~cfg.darkside
         /\ cfg.snapshot_url # None => ~cfg.nocache /\ ~cfg.darkside
         /\ cfg.backend = "readstate" => ~cfg.darkside
<1>1. IsCommandLine(c)
  BY LifecycleAssumption
<1>2. c.darkside \in BOOLEAN /\ c.nocache \in BOOLEAN /\ c.snapshot_serve \in BOOLEAN
  BY <1>1 DEF IsCommandLine, Switch
<1>3. cfg.darkside = c.darkside /\ cfg.nocache = c.nocache
  BY ResolvedParts
<1>4. cfg.snapshot # None => ~c.nocache /\ ~c.darkside
  <2>1. cfg.snapshot = resolve_snapshot(c) /\ cfg.snapshot # Refused
    BY ResolvedParts
  <2> QED BY <1>2, <2>1 DEF resolve_snapshot
<1>5. cfg.snapshot_url # None => ~c.nocache /\ ~c.darkside
  <2>1. cfg.snapshot_url = resolve_snapshot_url(c) /\ cfg.snapshot_url # Refused
    BY ResolvedParts
  <2> QED BY <1>2, <2>1 DEF resolve_snapshot_url
<1>6. cfg.backend = "readstate" => ~c.darkside
  <2>1. cfg.backend = resolve_backend(c) /\ cfg.backend # Refused
    BY ResolvedParts
  <2> QED BY <1>2, <2>1 DEF resolve_backend
<1> QED BY <1>2, <1>3, <1>4, <1>5, <1>6

(***************************************************************************)
(* The command line is one of the operator's until it is resolved, and     *)
(* until the server is wired its configuration is what one resolved to.    *)
(***************************************************************************)
Configured ==
  /\ phase = "resolving" => cli \in CommandLines
  /\ phase \in {"starting", "connecting", "opening", "bootstrapping", "importing", "wiring"} =>
       \E c \in CommandLines : Resolved(c, config)

\* Past the resolution, a step either leaves the configuration alone, without
\* going back, or wires the server with it, or ends in the process's end.
LEMMA BootStep ==
  ASSUME [LifeNext]_lifeVars
  PROVE  \/ Resolve
         \/ Wire \/ WireDarkside
         \/ /\ config' = config
            /\ phase' # phase =>
                 \/ phase' \in Ended
                 \/ phase' \in {"binding", "serving", "draining"} /\ phase # "wiring"
                 \/ /\ phase \in {"starting", "connecting", "opening", "bootstrapping", "importing"}
                    /\ phase' # "resolving" /\ phase' # "binding"
            /\ phase' = phase => cli' = cli
<1>1. CASE UNCHANGED lifeVars
  BY <1>1 DEF lifeVars, bootVars
<1>2. CASE RunStep
  <2>1. CASE StartTransport \/ OpenBackend
    BY <2>1 DEF StartTransport, OpenBackend, Goes, bootVars
  <2>2. CASE Bind \/ BeginDrain
    BY <2>2 DEF Bind, BeginDrain, Goes, bootVars
  <2>3. CASE StartupFails \/ Drained
    BY <2>3 DEF StartupFails, Drained, ProcessEnds, Ended, bootVars
  <2> QED BY <1>2, <2>1, <2>2, <2>3 DEF RunStep
<1>3. CASE NodeUnreachable \/ PeerUnusable \/ ImportStarts \/ ImportEnds
  BY <1>3 DEF NodeUnreachable, PeerUnusable, ImportStarts, ImportEnds, Goes, bootVars
<1>4. CASE \E name \in ChainNames : NodeReached(name)
  BY <1>4 DEF NodeReached, Goes
<1>5. CASE SignalKills \/ SignalInterruptsImport
  BY <1>5 DEF SignalKills, SignalInterruptsImport, ProcessEnds, Ended, bootVars
<1>6. CASE SignalLost \/ SignalNoticed \/ TimeoutElapses \/ Stop \/ ResponseOpens \/ ResponsesEnd
  BY <1>6 DEF SignalLost, SignalNoticed, TimeoutElapses, Stop, ResponseOpens, ResponsesEnd, bootVars
<1>7. ASSUME NEW w \in Wallet, WalletStep(w) PROVE UNCHANGED <<phase, bootVars>>
  BY <1>7 DEF WalletStep, Call
<1>8. ASSUME NEW p \in Pools, Call(OrphanEnds(p)) \/ NodeWorksOn(p) PROVE UNCHANGED <<phase, bootVars>>
  BY <1>8 DEF Call, NodeWorksOn
<1>9. UNCHANGED <<phase, bootVars>> => config' = config /\ phase' = phase /\ cli' = cli
  BY DEF bootVars
<1> QED BY <1>1, <1>2, <1>3, <1>4, <1>5, <1>6, <1>7, <1>8, <1>9 DEF LifeNext

LEMMA ConfiguredStays ==
  ASSUME Configured, [LifeNext]_lifeVars
  PROVE  Configured'
<1>1. CASE Resolve
  BY <1>1 DEF Resolve, Configured, Resolved, ProcessEnds
<1>2. CASE Wire \/ WireDarkside
  BY <1>2 DEF Wire, WireDarkside, Goes, Configured
<1>3. CASE /\ config' = config
           /\ phase' # phase =>
                \/ phase' \in Ended
                \/ phase' \in {"binding", "serving", "draining"} /\ phase # "wiring"
                \/ /\ phase \in {"starting", "connecting", "opening", "bootstrapping", "importing"}
                   /\ phase' # "resolving" /\ phase' # "binding"
           /\ phase' = phase => cli' = cli
  BY <1>3 DEF Configured, Ended
<1> QED BY <1>1, <1>2, <1>3, BootStep

\* Every server is started from a configuration some command line resolves to.
THEOREM ConfigurationResolved == LifeSpec => []Configured
<1>1. LifeInit => Configured
  BY DEF LifeInit, Configured
<1>2. Configured /\ [LifeNext]_lifeVars => Configured'
  BY ConfiguredStays
<1> QED BY <1>1, <1>2, PTL DEF LifeSpec

\* Only the resolution gives the process its configuration.
LEMMA Accepts ==
  ASSUME Configured, [LifeNext]_lifeVars, config = None, config' # None
  PROVE  cli \in CommandLines /\ Resolved(cli, config')
<1>1. Resolve
  BY BootStep DEF Wire, WireDarkside
<1> QED BY <1>1 DEF Resolve, Configured, Resolved

\* Only the wiring binds from a wired server.
LEMMA Wires ==
  ASSUME Configured, [LifeNext]_lifeVars, phase = "wiring", phase' = "binding"
  PROVE  /\ Wire \/ WireDarkside
         /\ \E c \in CommandLines : Resolved(c, config)
<1>1. Wire \/ WireDarkside
  BY BootStep DEF Resolve, Ended
<1> QED BY <1>1 DEF Configured

\* A server is wired with what its configuration advertises (run).
LEMMA WiredWhole ==
  ASSUME NEW c \in CommandLines, Resolved(c, config), Wire \/ WireDarkside
  PROVE  /\ config.snapshot # None => {"ingestor", "digests", "snapshots"} \subseteq tasks'
         /\ config.snapshot_url # None => "ingestor" \in tasks'
         /\ wired'.repair <=> "ingestor" \in tasks'
         /\ wired'.floor # None <=> "ingestor" \in tasks'
         /\ config.darkside => tasks' = {"timeout"}
         /\ wired'.node = IF config.darkside THEN "mock" ELSE "bulkhead"
         /\ config.backend = "readstate" => ~config.darkside
<1>1. /\ config.darkside \in BOOLEAN /\ config.nocache \in BOOLEAN
      /\ config.snapshot # None => ~config.nocache /\ ~config.darkside
      /\ config.snapshot_url # None => ~config.nocache /\ ~config.darkside
      /\ config.backend = "readstate" => ~config.darkside
  BY ResolvedServable
<1>2. CASE Wire
  <2>1. /\ ~config.darkside /\ tasks' = LiveTasks(config)
        /\ wired'.node = "bulkhead" /\ wired'.repair = ~config.nocache
        /\ wired'.floor = IF config.nocache THEN None
                          ELSE Or(config.start_height, default_start_height(chain))
    BY <1>2 DEF Wire
  <2>2. "ingestor" \in tasks' <=> ~config.nocache
    BY <1>1, <2>1 DEF LiveTasks
  <2>3. config.snapshot # None => {"ingestor", "digests", "snapshots"} \subseteq tasks'
    BY <1>1, <2>1, <2>2 DEF LiveTasks
  <2>4. default_start_height(chain) # None
    <3>1. default_start_height(chain) \in Nat
      BY LifecycleAssumption DEF default_start_height
    <3> QED BY <3>1, LifecycleAssumption
  <2>5. Or(config.start_height, default_start_height(chain)) # None
    BY <2>4 DEF Or
  <2> QED BY <1>1, <2>1, <2>2, <2>3, <2>5
<1>3. CASE WireDarkside
  <2>1. /\ config.darkside /\ tasks' = {"timeout"}
        /\ wired'.node = "mock" /\ wired'.repair = FALSE /\ wired'.floor = None
    BY <1>3 DEF WireDarkside
  <2> QED BY <1>1, <2>1
<1> QED BY <1>2, <1>3

(***************************************************************************)
(* Whatever flags and whatever zcash.conf were accepted, of any length,    *)
(* the server's node settings, modes and limits are those asked for, what  *)
(* it publishes, imports and repairs has the tasks it depends on, and      *)
(* every node but the mock is behind the bulkhead (Cli::resolve,           *)
(* parse_zcash_conf, run). Which flags are dropped beside others is said   *)
(* at WiredAsAdvertised.                                                   *)
(***************************************************************************)
THEOREM ServerAsAdvertised == LifeSpec => WiredAsAdvertised
<1>1. Configured /\ [LifeNext]_lifeVars => AcceptsWhatWasAsked
  BY Accepts, ResolvedNode, ResolvedModes DEF AcceptsWhatWasAsked
<1>2. Configured /\ [LifeNext]_lifeVars => WiresWhatItAdvertises
  BY Wires, WiredWhole DEF WiresWhatItAdvertises
<1> QED BY <1>1, <1>2, ConfigurationResolved, PTL DEF LifeSpec, WiredAsAdvertised
=============================================================================
