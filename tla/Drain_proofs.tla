---------------------------- MODULE Drain_proofs ----------------------------
(***************************************************************************)
(* A drained tunnel stays empty, for every value of the constants in which *)
(* at most one running instance takes untagged routes.                     *)
(*                                                                         *)
(* DrainedStaysEmpty is not inductive: a tunnel counted empty by a Records *)
(* under way is not in the gauge yet, and an adoption writes a tag on an   *)
(* id whose tunnel it read some steps ago.  DrainInv covers the first,     *)
(* ExistingTunnel the second: such a route is where the list had it, or    *)
(* where its own instance retargets the name to.                           *)
(***************************************************************************)
EXTENDS Ownership_proofs

Drained(i, t) == Retired(i, t) => ~\E h \in OnTunnel(t): routes[h].tag = i

ExistingTunnel(p) ==
    \A h \in Host:
        req[p].existing[h] # NoRoute /\ req[p].existing[h].tag = Untagged
        /\ HasId(h, req[p].existing[h].id)
        => routes[h].tunnel \in {req[p].existing[h].tunnel, resolve[InstanceOf[p]][h]}

DrainInv ==
    /\ \A i \in Instance: \A t \in mem[i].emptyTunnels: Drained(i, t)
    /\ \A p \in Worker: \A t \in req[p].emptyTunnels: Drained(InstanceOf[p], t)
    /\ \A p \in Worker: ExistingTunnel(p)

(* What a step may add to the tunnels a worker, or a gauge, has at 0. *)
CountStep(p) ==
    \A t \in req'[p].emptyTunnels:
        \/ t \in req[p].emptyTunnels
        \/ UNCHANGED account /\ Drained(InstanceOf[p], t)

GaugeStep(i) ==
    \A t \in mem'[i].emptyTunnels:
        \/ t \in mem[i].emptyTunnels
        \/ UNCHANGED account /\ Drained(i, t)
        \/ \E p \in Worker: InstanceOf[p] = i /\ t \in req[p].emptyTunnels

-----------------------------------------------------------------------------
(* No write puts the tag of i on a route of a tunnel i has retired. *)
LEMMA UpdateDrains ==
    ASSUME TypeInv, OwnInv, NEW p \in Worker, NEW h \in Host, UpdateRoute(p, h),
           UpdateCalled(p, h), NEW i \in Instance, NEW t, Drained(i, t)
    PROVE  Drained(i, t)'
<1> SUFFICES ASSUME Retired(i, t), NEW g \in Host, g \in OnTunnel(t)', routes'[g].tag = i
             PROVE  FALSE
  BY DEF Drained, Retired, OnTunnel
<1> DEFINE r == req[p].index[h]
<1>1. HasId(g, r.id)
  BY DEF Drained, UpdateRoute, PatchHostnameRoute, OnTunnel, Routed
<1>2. Claimable(InstanceOf[p], r.tag) /\ InstanceOf[p] \in Instance
  BY <1>1, IndexedRoute, WorkerType DEF UpdateCalled
<1>3. routes'[g] = [id |-> r.id, tunnel |-> resolve[InstanceOf[p]][h], tag |-> r.tag]
  BY <1>1 DEF UpdateRoute, PatchHostnameRoute
<1>4. InstanceOf[p] = i
  BY <1>2, <1>3, UntaggedAssumption DEF Claimable, Instance
<1> QED
  BY <1>3, <1>4 DEF OnTunnel, Retired

LEMMA AdoptDrains ==
    ASSUME TypeInv, OwnInv, NEW p \in Worker, ExistingTunnel(p), NEW h \in Host, AdoptRoute(p, h),
           AdoptCalled(p, h), NEW i \in Instance, NEW t, Drained(i, t)
    PROVE  Drained(i, t)'
<1> SUFFICES ASSUME Retired(i, t), NEW g \in Host, g \in OnTunnel(t)', routes'[g].tag = i
             PROVE  FALSE
  BY DEF Drained, Retired, OnTunnel
<1> DEFINE r == req[p].existing[h]
<1>1. HasId(g, r.id)
  BY DEF Drained, AdoptRoute, PatchHostnameRouteComment, OnTunnel, Routed
<1>2. g = h /\ r # NoRoute /\ InstanceOf[p] \in Instance
  BY <1>1, IndexedRoute, WorkerType DEF AdoptRoute, Adopting
<1>3. routes[g] \in Route
  BY <1>1 DEF HasId, Routed, TypeInv, TypeOK, RouteIndex
<1>4. routes'[g] = [routes[g] EXCEPT !.tag = InstanceOf[p]]
  BY <1>1 DEF AdoptRoute, PatchHostnameRouteComment
<1>5. routes'[g].tag = InstanceOf[p] /\ routes'[g].tunnel = routes[g].tunnel
  BY <1>3, <1>4 DEF Route
<1>6. routes[g].tunnel = resolve[InstanceOf[p]][h]
  BY <1>1, <1>2 DEF ExistingTunnel, AdoptCalled
<1> QED
  BY <1>5, <1>6 DEF OnTunnel, Retired

LEMMA CreateDrains ==
    ASSUME TypeInv, NEW g \in Host, NEW h \in Host, NEW tag \in Tag, NEW u \in Tunnel,
           CreateHostnameRoute(g, u, tag), NEW i \in Instance, tag = i => u = resolve[i][h],
           NEW t, Drained(i, t)
    PROVE  Drained(i, t)'
<1> SUFFICES ASSUME Retired(i, t), NEW k \in Host, k \in OnTunnel(t)', routes'[k].tag = i
             PROVE  FALSE
  BY DEF Drained, Retired, OnTunnel
<1>1. k = g
  BY DEF CreateHostnameRoute, Drained, OnTunnel, Routed, TypeInv, TypeOK, RouteIndex
<1>2. routes'[g] = [id |-> nextId, tunnel |-> u, tag |-> tag]
  BY DEF CreateHostnameRoute, TypeInv, TypeOK, RouteIndex
<1> QED
  BY <1>1, <1>2 DEF OnTunnel, Retired

LEMMA DeleteDrains ==
    ASSUME NEW id, DeleteHostnameRoute(id), NEW i, NEW t, Drained(i, t)
    PROVE  Drained(i, t)'
BY DEF DeleteHostnameRoute, Drained, OnTunnel, Routed, Retired

LEMMA DrainNext ==
    ASSUME TypeInv, OwnInv, DrainInv, [Next]_vars, NEW i \in Instance, NEW t, Drained(i, t)
    PROVE  Drained(i, t)'
<1>1. CASE UNCHANGED account
  BY <1>1 DEF account, Drained, Retired, OnTunnel, Routed
<1>2. ASSUME NEW p \in Worker, NEW h \in Host,
             \/ DeleteRoute(p, h) \/ UpdateRoute(p, h) \/ AdoptRoute(p, h)
             \/ CreateRoute(p, h) \/ CreateFails(p, h)
      PROVE  Drained(i, t)'
  <2>1. CASE DeleteRoute(p, h)
    BY <1>1, <2>1, DeleteDrains DEF DeleteRoute
  <2>2. CASE UpdateRoute(p, h)
    BY <1>1, <2>2, UpdateDrains DEF UpdateRoute
  <2>3. CASE AdoptRoute(p, h)
    BY <1>1, <2>3, AdoptDrains DEF AdoptRoute, DrainInv
  <2>4. CASE CreateRoute(p, h) \/ CreateFails(p, h)
    <3>1. h \in req[p].creates
      BY <2>4 DEF CreateRoute, CreateFails, CreateCalled, Creating
    <3> QED
      BY <1>1, <2>4, <3>1, CreateDrains, CallType DEF CreateRoute, CreateFails
  <2> QED
    BY <1>2, <2>1, <2>2, <2>3, <2>4
<1>3. ASSUME NEW h \in Host, OtherDeletes(h) PROVE Drained(i, t)'
  BY <1>3, DeleteDrains DEF OtherDeletes, DeleteUntagged
<1>4. ASSUME NEW h \in Host, NEW u \in Tunnel, OtherCreates(h, u) PROVE Drained(i, t)'
  BY <1>4, CreateDrains, UntaggedAssumption DEF OtherCreates, CreateUntagged, Tag, Instance
<1> QED
  BY <1>1, <1>2, <1>3, <1>4, OtherSteps

-----------------------------------------------------------------------------
(* A route moves to the tunnel of its name, and only by a claimant. *)
Moves(h) ==
    Routed(h) /\ Routed(h)' /\ routes'[h].id = routes[h].id =>
        \/ routes'[h].tunnel = routes[h].tunnel
        \/ \E q \in Worker: /\ Claimable(InstanceOf[q], routes[h].tag)
                            /\ routes'[h].tunnel = resolve[InstanceOf[q]][h]

LEMMA UpdateMoves ==
    ASSUME TypeInv, OwnInv, NEW p \in Worker, NEW g \in Host, UpdateRoute(p, g),
           UpdateCalled(p, g), NEW h \in Host
    PROVE  Moves(h)
<1> DEFINE r == req[p].index[g]
<1>1. CASE HasId(h, r.id)
  <2>1. h = g /\ Claimable(InstanceOf[p], routes[h].tag)
    BY <1>1, IndexedRoute DEF UpdateCalled
  <2>2. routes'[h] = [id |-> r.id, tunnel |-> resolve[InstanceOf[p]][g], tag |-> r.tag]
    BY <1>1 DEF UpdateRoute, PatchHostnameRoute
  <2> QED
    BY <2>1, <2>2 DEF Moves
<1>2. CASE ~HasId(h, r.id)
  BY <1>2 DEF UpdateRoute, PatchHostnameRoute, Moves
<1> QED
  BY <1>1, <1>2

LEMMA AdoptMoves ==
    ASSUME TypeInv, NEW p \in Worker, NEW g \in Host, AdoptRoute(p, g), AdoptCalled(p, g),
           NEW h \in Host
    PROVE  Moves(h)
<1>1. Routed(h) => routes[h] \in Route
  BY DEF Routed, TypeInv, TypeOK, RouteIndex
<1>2. routes'[h] \in {routes[h], [routes[h] EXCEPT !.tag = InstanceOf[p]]}
  BY DEF AdoptRoute, PatchHostnameRouteComment
<1> QED
  BY <1>1, <1>2 DEF Moves, Route

LEMMA OtherMoves ==
    ASSUME TypeInv, NEW h \in Host,
           \/ \E id: DeleteHostnameRoute(id)
           \/ \E g \in Host: \E t, tag: CreateHostnameRoute(g, t, tag)
           \/ UNCHANGED account
    PROVE  Moves(h)
BY DEF DeleteHostnameRoute, CreateHostnameRoute, account, Moves, Routed, TypeInv, TypeOK,
       RouteIndex

LEMMA MovesNext == ASSUME TypeInv, OwnInv, [Next]_vars, NEW h \in Host PROVE Moves(h)
<1>1. ASSUME NEW p \in Worker, NEW g \in Host,
             \/ DeleteRoute(p, g) \/ UpdateRoute(p, g) \/ AdoptRoute(p, g)
             \/ CreateRoute(p, g) \/ CreateFails(p, g)
      PROVE  Moves(h)
  <2>1. CASE DeleteRoute(p, g)
    BY <2>1, OtherMoves DEF DeleteRoute
  <2>2. CASE UpdateRoute(p, g)
    BY <2>2, OtherMoves, UpdateMoves DEF UpdateRoute
  <2>3. CASE AdoptRoute(p, g)
    BY <2>3, OtherMoves, AdoptMoves DEF AdoptRoute
  <2>4. CASE CreateRoute(p, g) \/ CreateFails(p, g)
    BY <2>4, OtherMoves, CallType DEF CreateRoute, CreateFails
  <2> QED
    BY <1>1, <2>1, <2>2, <2>3, <2>4
<1>2. ASSUME NEW g \in Host, OtherDeletes(g) \/ \E t \in Tunnel: OtherCreates(g, t)
      PROVE  Moves(h)
  BY <1>2, OtherMoves DEF OtherDeletes, OtherCreates, DeleteUntagged, CreateUntagged
<1> QED
  BY <1>1, <1>2, OtherSteps, OtherMoves

LEMMA ExistingTunnelNext ==
    ASSUME SoleTaker, TypeInv, OwnInv, [Next]_vars, NEW p \in Worker, ExistingTunnel(p)
    PROVE  ExistingTunnel(p)'
<1> SUFFICES ASSUME NEW h \in Host, req'[p].existing[h] # NoRoute,
                    req'[p].existing[h].tag = Untagged, HasId(h, req[p].existing[h].id)'
             PROVE  routes'[h].tunnel \in {req'[p].existing[h].tunnel, resolve[InstanceOf[p]][h]}
  BY DEF ExistingTunnel
<1> DEFINE i == InstanceOf[p]
           r == req[p].existing[h]
<1>1. IndexStep(p) /\ AccountStep /\ Moves(h)
  BY IndexNext, AccountNext, MovesNext
<1>2. CASE UNCHANGED account /\ req'[p].existing = FullListing(p)
  BY <1>2 DEF FullListing, AddTo, account, ExistingTunnel, HasId, Routed
<1>3. CASE req'[p].existing = req[p].existing
  <2>1. i \in Instance /\ r # NoRoute /\ r.id \in Nat /\ r.id < nextId
    BY <1>3, WorkerType, CallType DEF OwnInv, ExistingHolds
  <2>2. HasId(h, r.id)
    BY <1>1, <1>3, <2>1, IdKept
  <2>3. Claimable(i, routes[h].tag)
    BY <1>3, <2>1, <2>2, IndexedRoute
  <2>4. \A q \in Worker: Claimable(InstanceOf[q], routes[h].tag) => InstanceOf[q] = i
    BY <2>1, <2>3, OneClaimant, WorkerType
  <2> QED
    BY <1>1, <1>3, <2>1, <2>2, <2>4 DEF ExistingTunnel, Moves, HasId, Routed
<1> QED
  BY <1>1, <1>2, <1>3 DEF IndexStep, NoRoutes

-----------------------------------------------------------------------------
LEMMA Counted ==
    ASSUME NEW p \in Worker, NEW t \in EmptySoFar(p)
    PROVE  t \in req[p].emptyTunnels \/ Drained(InstanceOf[p], t)
BY DEF EmptySoFar, Drained, manageable

(* The count of q stays, or goes with its request. *)
SameCount(p, q) ==
    \/ req'[q].emptyTunnels = req[q].emptyTunnels
    \/ q = p /\ req'[q].emptyTunnels = {}

LEMMA RecordsCount ==
    ASSUME TypeInv, NEW p \in Worker, NEW q \in Worker,
           \/ StartRecords(p) \/ ListForRecords(p) \/ CompleteRecords(p)
           \/ AdjustEndpoints(p) \/ ReconcileWrite(p)
           \/ PruneLoad(p) \/ PruneGet(p) \/ PruneWrite(p) \/ PruneFails(p)
    PROVE  CountStep(q)
<1>1. req \in [Worker -> Request]
  BY DEF TypeInv, TypeOK
<1>2. CASE ListForRecords(p)
  <2>1. UNCHANGED account /\ req'[q].emptyTunnels \in {req[q].emptyTunnels, EmptySoFar(q)}
    BY <1>1, <1>2 DEF ListForRecords, Request
  <2> QED
    BY <2>1, Counted DEF CountStep
<1>3. CASE \/ StartRecords(p) \/ CompleteRecords(p) \/ AdjustEndpoints(p) \/ ReconcileWrite(p)
           \/ PruneLoad(p) \/ PruneGet(p) \/ PruneWrite(p) \/ PruneFails(p)
  <2>1. SameCount(p, q)
    <3>1. CASE StartRecords(p) \/ CompleteRecords(p) \/ ReconcileWrite(p)
      BY <1>1, <3>1 DEF StartRecords, CompleteRecords, ReconcileWrite, Finish, NoRequest, Request,
                        SameCount
    <3>2. CASE AdjustEndpoints(p)
      <4> DEFINE i       == InstanceOf[p]
                 present == IF i \in CoreDNS
                            THEN (Adjusted(p) \cap mem[i].recordsHosts) \ Wildcard ELSE {}
                 adds    == Answerable(p, present)
                 next    == AfterReconcile(i)
                 skipped == present \ adds
                 now     == fragment[i]
      <4>1. \/ Finish(p)
            \/ req' = [req EXCEPT ![p].pc = next]
            \/ req' = [req EXCEPT ![p].pc = "reconcile", ![p].adds = adds,
                                  ![p].skipped = skipped, ![p].snapshot = now]
        BY <3>2 DEF AdjustEndpoints
      <4> HIDE DEF adds, next, skipped, now
      <4>2. CASE Finish(p)
        BY <1>1, <4>2 DEF Finish, NoRequest, SameCount
      <4>3. CASE ~Finish(p)
        BY <1>1, <4>1, <4>3 DEF Request, SameCount
      <4> QED
        BY <4>2, <4>3
    <3>3. CASE PruneLoad(p) \/ PruneGet(p)
      BY <1>1, <3>3 DEF PruneLoad, PruneGet, Request, SameCount
    <3>4. CASE PruneWrite(p) \/ PruneFails(p)
      BY <1>1, <3>4 DEF PruneWrite, PruneFails, EndPrune, Request, SameCount
    <3> QED
      BY <1>3, <3>1, <3>2, <3>3, <3>4
  <2> QED
    BY <2>1 DEF CountStep, SameCount
<1> QED
  BY <1>2, <1>3

LEMMA ApplyCount ==
    ASSUME TypeInv, NEW p \in Worker, NEW q \in Worker,
           \/ Plan(p) \/ ListOwned(p) \/ ListForAdoption(p) \/ ApplyCoreDNS(p) \/ StageWrite(p)
           \/ \E h \in Host: Classified(p, h, routes) \/ Classified(p, h, NoRoutes)
           \/ \E h \in Host: CreateRefused(p, h)
           \/ \E h \in Host: Deleted(p, h) \/ Updated(p, h) \/ Created(p, h)
           \/ Finish(p) \/ Abandon(p)
    PROVE  CountStep(q)
<1>1. req \in [Worker -> Request]
  BY DEF TypeInv, TypeOK
<1>2. SameCount(p, q)
  <2>1. CASE Plan(p)
    <3>1. CASE q = p /\ Finish(p)
      BY <1>1, <3>1 DEF Finish, NoRequest, SameCount
    <3>2. CASE q # p
      BY <1>1, <2>1, <3>2 DEF Plan, Finish, SameCount
    <3>3. CASE q = p /\ ~Finish(p)
      <4> DEFINE i       == InstanceOf[p]
                 current == {h \in domainFilter[i]: req[p].index[h] # NoRoute}
                 cre     == Adjusted(p) \ current
                 upd     == {h \in Adjusted(p) \cap current:
                                req[p].index[h].tunnel # resolve[i][h]}
                 del     == IF i \in PolicySync THEN current \ Adjusted(p) ELSE {}
                 next    == IF NeedsIndex(del, upd) THEN "index"
                            ELSE IF NeedsAdoption(i, cre) THEN "adoption" ELSE "coredns"
                 r       == [req[p] EXCEPT !.pc = next, !.index = NoRoutes, !.deletes = del,
                                           !.updates = upd, !.creates = cre]
      <4>1. req[p] \in Request
        BY <1>1
      <4>2. r.emptyTunnels = req[p].emptyTunnels
        <5> HIDE DEF cre, upd, del, next
        <5> QED
          BY <4>1 DEF Request
      <4>3. req' = [req EXCEPT ![p] = r]
        BY <2>1, <3>3 DEF Plan
      <4> HIDE DEF r
      <4> QED
        BY <1>1, <3>3, <4>2, <4>3 DEF SameCount
    <3> QED
      BY <3>1, <3>2, <3>3
  <2>2. CASE ListOwned(p) \/ ListForAdoption(p)
    BY <1>1, <2>2 DEF ListOwned, ListForAdoption, Request, SameCount
  <2>3. CASE ApplyCoreDNS(p) \/ StageWrite(p)
    BY <1>1, <2>3 DEF ApplyCoreDNS, StageWrite, Request, SameCount
  <2>4. CASE \/ \E h \in Host: Classified(p, h, routes) \/ Classified(p, h, NoRoutes)
             \/ \E h \in Host: CreateRefused(p, h)
    BY <1>1, <2>4 DEF Classified, CreateRefused, Created, Request, SameCount
  <2>5. CASE \/ \E h \in Host: Deleted(p, h) \/ Updated(p, h) \/ Created(p, h)
             \/ Finish(p) \/ Abandon(p)
    BY <1>1, <2>5 DEF Deleted, Updated, Created, Finish, NoRequest, Abandon, Request, SameCount
  <2> QED
    BY <2>1, <2>2, <2>3, <2>4, <2>5
<1> QED
  BY <1>2 DEF CountStep, SameCount

LEMMA CountNext == ASSUME TypeInv, [Next]_vars, NEW q \in Worker PROVE CountStep(q)
<1>1. ASSUME NEW p \in Worker, StartRecords(p) \/ Progress(p) \/ Failure(p)
      PROVE  CountStep(q)
  <2>1. ASSUME NEW h \in Host,
               \/ DeleteRoute(p, h) \/ UpdateRoute(p, h) \/ AdoptRoute(p, h) \/ SkipCreate(p, h)
               \/ CreateRoute(p, h) \/ CallFails(p, h) \/ CreateFails(p, h)
        PROVE  Deleted(p, h) \/ Updated(p, h) \/ Created(p, h)
    BY <2>1 DEF DeleteRoute, UpdateRoute, AdoptRoute, SkipCreate, CreateRoute, CallFails,
                CreateFails
  <2>2. ASSUME NEW h \in Host, ListAccount(p, h) \/ ListAccountFails(p, h)
        PROVE  Classified(p, h, routes) \/ Classified(p, h, NoRoutes)
    BY <2>2 DEF ListAccount, ListAccountFails
  <2>3. Unattended(p) \/ EndApply(p) \/ ListFails(p) \/ AdjustFails(p) \/ FragmentFails(p)
        => Finish(p)
    BY DEF Unattended, EndApply, ListFails, AdjustFails, FragmentFails
  <2> QED
    BY <1>1, <2>1, <2>2, <2>3, RecordsCount, ApplyCount DEF Progress, Mutate, Failure
<1>2. ASSUME NEW i \in Running, Crash(i) PROVE CountStep(q)
  BY <1>2 DEF Crash, NoRequest, CountStep
<1>3. CASE Environment \/ UNCHANGED vars
  BY <1>3 DEF Environment, ChangeService, OtherCreates, OtherDeletes, vars, CountStep
<1> QED
  BY <1>1, <1>2, <1>3 DEF Next

LEMMA GaugeNext == ASSUME TypeInv, [Next]_vars, NEW i \in Instance PROVE GaugeStep(i)
<1>1. mem \in [Instance -> Memory]
  BY DEF TypeInv, TypeOK
<1>2. ASSUME NEW p \in Worker, CompleteRecords(p) PROVE GaugeStep(i)
  <2>1. /\ UNCHANGED account
        /\ \/ mem'[i] = mem[i]
           \/ i = InstanceOf[p] /\ mem'[i].emptyTunnels = EmptySoFar(p)
    BY <1>1, <1>2, WorkerType DEF CompleteRecords
  <2> QED
    BY <2>1, Counted DEF GaugeStep
<1>3. ASSUME NEW p \in Worker, StartRecords(p) \/ Progress(p) \/ Failure(p), ~CompleteRecords(p)
      PROVE  GaugeStep(i)
  <2>1. mem'[i].emptyTunnels = mem[i].emptyTunnels
    <3>1. CASE StartRecords(p) \/ AdjustFails(p) \/ \E h \in Host: ListAccountFails(p, h)
      <4>1. CASE StartRecords(p)
        BY <1>1, <4>1 DEF StartRecords, Memory
      <4>2. CASE AdjustFails(p)
        BY <1>1, <4>2 DEF AdjustFails, Memory
      <4>3. ASSUME NEW h \in Host, ListAccountFails(p, h)
            PROVE  mem'[i].emptyTunnels = mem[i].emptyTunnels
        BY <1>1, <4>3 DEF ListAccountFails, Classified, SetPending, Memory
      <4> QED
        BY <3>1, <4>1, <4>2, <4>3
    <3>2. CASE Failure(p) /\ ~AdjustFails(p) /\ ~\E h \in Host: ListAccountFails(p, h)
      BY <1>1, <3>2 DEF Failure, ListFails, FragmentFails, PruneFails, Abandon, CallFails,
                        CreateFails
    <3>3. CASE Mutate(p)
      <4>1. ASSUME NEW h \in Host, CreateRoute(p, h) \/ CreateRefused(p, h) \/ ListAccount(p, h)
            PROVE  mem'[i].emptyTunnels = mem[i].emptyTunnels
        BY <1>1, <4>1 DEF CreateRoute, CreateRefused, ListAccount, Classified, SetPending, Memory
      <4>2. ASSUME NEW h \in Host,
                   DeleteRoute(p, h) \/ UpdateRoute(p, h) \/ AdoptRoute(p, h) \/ SkipCreate(p, h)
            PROVE  mem'[i].emptyTunnels = mem[i].emptyTunnels
        BY <4>2 DEF DeleteRoute, UpdateRoute, AdoptRoute, SkipCreate
      <4> QED
        BY <3>3, <4>1, <4>2 DEF Mutate
    <3>4. CASE AdjustEndpoints(p)
      BY <1>1, <3>4 DEF AdjustEndpoints, Memory
    <3>5. CASE Progress(p) /\ ~Mutate(p) /\ ~AdjustEndpoints(p)
      BY <1>3, <3>5
      DEF Progress, ListForRecords, ReconcileWrite, PruneLoad, PruneGet, PruneWrite, Plan,
          Unattended, ListOwned, ListForAdoption, ApplyCoreDNS, StageWrite, EndApply
    <3> QED
      BY <1>3, <3>1, <3>2, <3>3, <3>4, <3>5
  <2> QED
    BY <2>1 DEF GaugeStep
<1>4. ASSUME NEW j \in Running, Crash(j) PROVE GaugeStep(i)
  BY <1>1, <1>4 DEF Crash, StartMemory, GaugeStep
<1>5. CASE Environment \/ UNCHANGED vars
  BY <1>5 DEF Environment, ChangeService, OtherCreates, OtherDeletes, vars, GaugeStep
<1> QED
  BY <1>2, <1>3, <1>4, <1>5 DEF Next

LEMMA DrainInvNext ==
    ASSUME SoleTaker, TypeInv, OwnInv, DrainInv, [Next]_vars PROVE DrainInv'
<1>1. ASSUME NEW i \in Instance, NEW t \in mem'[i].emptyTunnels PROVE Drained(i, t)'
  BY <1>1, GaugeNext, DrainNext DEF GaugeStep, DrainInv
<1>2. ASSUME NEW p \in Worker, NEW t \in req'[p].emptyTunnels PROVE Drained(InstanceOf[p], t)'
  BY <1>2, CountNext, DrainNext, WorkerType DEF CountStep, DrainInv
<1>3. ASSUME NEW p \in Worker PROVE ExistingTunnel(p)'
  BY <1>3, ExistingTunnelNext DEF DrainInv
<1> QED
  BY <1>1, <1>2, <1>3 DEF DrainInv

LEMMA DrainInvInit == Init => DrainInv
BY DEF Init, DrainInv, StartMemory, NoRequest, NoRoutes, ExistingTunnel

(* Whatever lists, retargets, adoptions, restarts and the writes of others
   fall in between: once the gauge reads 0 for a tunnel that no hostname of
   the instance resolves to, the instance has no route on it, and gets none
   as long as the process runs. *)
THEOREM DrainsStayEmpty == Spec => []DrainedStaysEmpty
<1>1. CASE ~SoleTaker
  <2>1. DrainedStaysEmpty
    BY <1>1 DEF DrainedStaysEmpty
  <2> QED
    BY <2>1, PTL
<1>2. CASE SoleTaker
  <2>1. TypeInv /\ OwnInv /\ [Next]_vars => OwnInv'
    BY <1>2, OwnInvNext
  <2>2. TypeInv /\ OwnInv /\ DrainInv /\ [Next]_vars => DrainInv'
    BY <1>2, DrainInvNext
  <2>3. DrainInv => DrainedStaysEmpty
    BY InstanceAssumption DEF DrainInv, Drained, DrainedStaysEmpty, Running
  <2> QED
    BY <2>1, <2>2, <2>3, InitType, NextType, OwnInvInit, DrainInvInit, PTL DEF Spec
<1> QED
  BY <1>1, <1>2
=============================================================================
