-------------------------- MODULE Ownership_proofs --------------------------
(***************************************************************************)
(* Nobody takes another owner's route, for every value of the constants in *)
(* which at most one running instance takes untagged routes (SoleTaker).   *)
(*                                                                         *)
(* An instance acts on ids it read some steps ago.  The invariant behind   *)
(* the theorem, StaleIndexHolds, says what such an id may still name.  Its *)
(* heart is OneClaimant: two instances that may both claim a route, by its *)
(* tag or because it has none, are the same instance.                      *)
(***************************************************************************)
EXTENDS Provider_proofs

OwnInv ==
    /\ FreshIds
    /\ \A p \in Worker:
          /\ IndexHolds(p)
          /\ ExistingHolds(p)
          /\ req[p].pc = "adoption" => InstanceOf[p] \in AdoptUntagged

(* What a step may do to the route of h. *)
Evolves(h) ==
    \/ routes'[h] = NoRoute
    \/ routes'[h] = routes[h]
    \/ /\ Routed(h) /\ Routed(h)' /\ routes'[h].id = routes[h].id
       /\ \E i \in Instance: Claimable(i, routes[h].tag) /\ Claimable(i, routes'[h].tag)
    \/ /\ ~Routed(h) /\ Routed(h)' /\ routes'[h].id = nextId /\ nextId' = nextId + 1
       /\ \A g \in Host \ {h}: routes'[g] = routes[g]

AccountStep == nextId' \in {nextId, nextId + 1} /\ \A h \in Host: Evolves(h)

(* What a step may do to the indexes of worker p. *)
IndexStep(p) ==
    /\ \/ req'[p].index \in {req[p].index, NoRoutes}
       \/ UNCHANGED account /\ req'[p].index = OwnedListing(p)
    /\ \/ req'[p].existing \in {req[p].existing, NoRoutes}
       \/ /\ UNCHANGED account
          /\ req'[p].existing = FullListing(p)
          /\ req[p].pc = "adoption"
    /\ req'[p].pc = "adoption" =>
          req[p].pc = "adoption" \/ InstanceOf[p] \in AdoptUntagged

-----------------------------------------------------------------------------
LEMMA OneClaimant ==
    ASSUME SoleTaker, NEW i \in Instance, NEW j \in Instance, NEW tag,
           Claimable(i, tag), Claimable(j, tag)
    PROVE  i = j
BY UntaggedAssumption DEF SoleTaker, Claimable, Instance

LEMMA FreshIdsStep ==
    ASSUME TypeInv, TypeInv', FreshIds, AccountStep PROVE FreshIds'
<1>1. \A h \in Host: Routed(h) => routes[h].id \in Nat
  BY DEF TypeInv, TypeOK, RouteIndex, Route, Routed
<1>2. nextId \in Nat
  BY DEF TypeInv, TypeOK
<1>3. ASSUME NEW h \in Host, Routed(h)' PROVE routes'[h].id < nextId'
  BY <1>1, <1>2, <1>3 DEF FreshIds, AccountStep, Evolves, Routed
<1>4. ASSUME NEW g \in Host, NEW h \in Host, Routed(g)', HasId(h, routes[g].id)' PROVE g = h
  BY <1>1, <1>2, <1>4 DEF FreshIds, AccountStep, Evolves, Routed, HasId
<1> QED
  BY <1>3, <1>4 DEF FreshIds

(* A route that had the id before the step and still has it. *)
LEMMA IdKept ==
    ASSUME TypeInv, AccountStep, NEW id \in Nat, id < nextId, NEW g \in Host, HasId(g, id)'
    PROVE  /\ HasId(g, id)
           /\ \/ routes'[g] = routes[g]
              \/ \E i \in Instance: Claimable(i, routes[g].tag) /\ Claimable(i, routes'[g].tag)
BY DEF TypeInv, TypeOK, AccountStep, Evolves, HasId, Routed

LEMMA IndexHoldsStep ==
    ASSUME SoleTaker, TypeInv, OwnInv, AccountStep, NEW p \in Worker, IndexStep(p)
    PROVE  IndexHolds(p)'
<1> DEFINE i == InstanceOf[p]
<1>1. i \in Instance /\ i \in Running /\ req[p] \in Request
  BY WorkerType DEF Running
<1>2. ASSUME NEW h \in Host, req'[p].index[h] # NoRoute, req'[p].index = req[p].index
      PROVE  /\ req'[p].index[h].id < nextId'
             /\ Claimable(i, req'[p].index[h].tag)
             /\ \A g \in Host: HasId(g, req[p].index[h].id)' =>
                   g = h /\ Claimable(i, routes'[g].tag)
  <2> DEFINE r == req[p].index[h]
  <2>1. r.id \in Nat /\ r.id < nextId /\ Claimable(i, r.tag)
    BY <1>1, <1>2 DEF OwnInv, IndexHolds, Request, RouteIndex, Route
  <2>2. ASSUME NEW g \in Host, NEW id, id = r.id, HasId(g, id)'
        PROVE  g = h /\ Claimable(i, routes'[g].tag)
    <3>1. /\ HasId(g, id)
          /\ \/ routes'[g] = routes[g]
             \/ \E j \in Instance: Claimable(j, routes[g].tag) /\ Claimable(j, routes'[g].tag)
      BY <2>1, <2>2, IdKept
    <3>2. g = h /\ Claimable(i, routes[g].tag)
      BY <1>2, <2>2, <3>1 DEF OwnInv, IndexHolds
    <3> QED
      BY <1>1, <3>1, <3>2, OneClaimant
  <2>3. \A g \in Host: HasId(g, req[p].index[h].id)' => g = h /\ Claimable(i, routes'[g].tag)
    BY <1>2, <2>2 DEF HasId, Routed
  <2> QED
    BY <1>2, <2>1, <2>3 DEF AccountStep, TypeInv, TypeOK
<1>3. ASSUME NEW h \in Host, OwnedListing(p)[h] # req[p].index[h]
      PROVE  /\ Routed(h) /\ OwnedListing(p)[h] = routes[h]
             /\ routes[h].id < nextId
             /\ Claimable(i, routes[h].tag)
             /\ \A g \in Host: HasId(g, routes[h].id) => g = h
  <2>1. /\ h \in OnTunnel(NextTunnel(p)) /\ manageable(i, routes[h])
        /\ OwnedListing(p)[h] = routes[h]
    BY <1>3 DEF OwnedListing, AddTo
  <2>2. Routed(h)
    BY <2>1 DEF OnTunnel
  <2>3. Claimable(i, routes[h].tag)
    BY <1>1, <2>1 DEF manageable, Claimable, TakesUntagged
  <2> QED
    BY <2>1, <2>2, <2>3 DEF OwnInv, FreshIds
<1>4. CASE req'[p].index = req[p].index
  BY <1>2, <1>4 DEF IndexHolds
<1>5. CASE req'[p].index = NoRoutes
  BY <1>5 DEF IndexHolds, NoRoutes
<1>6. CASE UNCHANGED account /\ req'[p].index = OwnedListing(p)
  <2>1. /\ routes' = routes /\ nextId' = nextId /\ \A g, id: HasId(g, id)' <=> HasId(g, id)
    BY <1>6 DEF account, HasId, Routed
  <2>2. ASSUME NEW h \in Host, OwnedListing(p)[h] # NoRoute,
               OwnedListing(p)[h] = req[p].index[h]
        PROVE  /\ OwnedListing(p)[h].id < nextId
               /\ Claimable(i, OwnedListing(p)[h].tag)
               /\ \A g \in Host: HasId(g, OwnedListing(p)[h].id) =>
                     g = h /\ Claimable(i, routes[g].tag)
    BY <2>2 DEF OwnInv, IndexHolds
  <2>3. ASSUME NEW h \in Host, OwnedListing(p)[h] # NoRoute
        PROVE  /\ OwnedListing(p)[h].id < nextId
               /\ Claimable(i, OwnedListing(p)[h].tag)
               /\ \A g \in Host: HasId(g, OwnedListing(p)[h].id) =>
                     g = h /\ Claimable(i, routes[g].tag)
    <3>1. CASE OwnedListing(p)[h] = req[p].index[h]
      BY <2>2, <2>3, <3>1
    <3>2. CASE OwnedListing(p)[h] # req[p].index[h]
      BY <1>3, <3>2
    <3> QED
      BY <3>1, <3>2
  <2> QED
    BY <1>6, <2>1, <2>3 DEF IndexHolds
<1> QED
  BY <1>4, <1>5, <1>6 DEF IndexStep

LEMMA ExistingHoldsStep ==
    ASSUME SoleTaker, TypeInv, OwnInv, AccountStep, NEW p \in Worker, IndexStep(p)
    PROVE  ExistingHolds(p)'
<1> DEFINE i == InstanceOf[p]
<1>1. i \in Instance /\ i \in Running /\ req[p] \in Request
  BY WorkerType DEF Running
<1>2. ASSUME NEW h \in Host, req'[p].existing[h] # NoRoute,
             req'[p].existing = req[p].existing
      PROVE  /\ req'[p].existing[h].id < nextId'
             /\ i \in TakesUntagged
             /\ \A g \in Host: HasId(g, req[p].existing[h].id)' =>
                   /\ g = h
                   /\ req[p].existing[h].tag = Untagged => Claimable(i, routes'[g].tag)
  <2> DEFINE r == req[p].existing[h]
  <2>1. r.id \in Nat /\ r.id < nextId /\ i \in TakesUntagged
    BY <1>1, <1>2 DEF OwnInv, ExistingHolds, Request, RouteIndex, Route
  <2>2. ASSUME NEW g \in Host, NEW id, id = r.id, HasId(g, id)'
        PROVE  g = h /\ (r.tag = Untagged => Claimable(i, routes'[g].tag))
    <3>1. /\ HasId(g, id)
          /\ \/ routes'[g] = routes[g]
             \/ \E j \in Instance: Claimable(j, routes[g].tag) /\ Claimable(j, routes'[g].tag)
      BY <2>1, <2>2, IdKept
    <3>2. g = h /\ (r.tag = Untagged => Claimable(i, routes[g].tag))
      BY <1>2, <2>2, <3>1 DEF OwnInv, ExistingHolds
    <3> QED
      BY <1>1, <3>1, <3>2, OneClaimant
  <2>3. \A g \in Host: HasId(g, req[p].existing[h].id)' =>
           g = h /\ (r.tag = Untagged => Claimable(i, routes'[g].tag))
    BY <1>2, <2>2 DEF HasId, Routed
  <2> QED
    BY <1>2, <2>1, <2>3 DEF AccountStep, TypeInv, TypeOK
<1>3. CASE req'[p].existing = req[p].existing
  BY <1>2, <1>3 DEF ExistingHolds
<1>4. CASE req'[p].existing = NoRoutes
  BY <1>4 DEF ExistingHolds, NoRoutes
<1>5. CASE /\ UNCHANGED account /\ req'[p].existing = FullListing(p)
           /\ req[p].pc = "adoption"
  <2>1. /\ routes' = routes /\ nextId' = nextId /\ \A g, id: HasId(g, id)' <=> HasId(g, id)
    BY <1>5 DEF account, HasId, Routed
  <2>2. i \in TakesUntagged
    BY <1>1, <1>5 DEF OwnInv, TakesUntagged
  <2>3. ASSUME NEW h \in Host, FullListing(p)[h] # NoRoute
        PROVE  /\ FullListing(p)[h].id < nextId
               /\ \A g \in Host: HasId(g, FullListing(p)[h].id) =>
                     /\ g = h
                     /\ FullListing(p)[h].tag = Untagged => Claimable(i, routes[g].tag)
    <3>1. CASE FullListing(p)[h] = req[p].existing[h]
      BY <2>3, <3>1 DEF OwnInv, ExistingHolds
    <3>2. CASE FullListing(p)[h] # req[p].existing[h]
      <4>1. h \in OnTunnel(NextTunnel(p)) /\ FullListing(p)[h] = routes[h]
        BY <3>2 DEF FullListing, AddTo
      <4>2. Routed(h)
        BY <4>1 DEF OnTunnel
      <4>3. routes[h].id < nextId /\ \A g \in Host: HasId(g, routes[h].id) => g = h
        BY <4>2 DEF OwnInv, FreshIds
      <4> QED
        BY <2>2, <4>1, <4>3 DEF Claimable
    <3> QED
      BY <3>1, <3>2
  <2> QED
    BY <1>5, <2>1, <2>2, <2>3 DEF ExistingHolds
<1> QED
  BY <1>3, <1>4, <1>5 DEF IndexStep

(* The invariant survives any step that changes the account and the indexes
   in these ways only. *)
LEMMA OwnInvStep ==
    ASSUME SoleTaker, TypeInv, TypeInv', OwnInv, AccountStep, \A p \in Worker: IndexStep(p)
    PROVE  OwnInv'
<1>1. FreshIds'
  BY FreshIdsStep DEF OwnInv
<1>2. ASSUME NEW p \in Worker
      PROVE  /\ IndexHolds(p)' /\ ExistingHolds(p)'
             /\ req'[p].pc = "adoption" => InstanceOf[p] \in AdoptUntagged
  BY <1>2, IndexHoldsStep, ExistingHoldsStep DEF IndexStep, OwnInv
<1> QED
  BY <1>1, <1>2 DEF OwnInv

-----------------------------------------------------------------------------
(* Every step changes the indexes in these ways only. *)

LEMMA RecordsIndexes ==
    ASSUME TypeInv, NEW p \in Worker, NEW q \in Worker,
           \/ StartRecords(p) \/ ListForRecords(p) \/ CompleteRecords(p)
           \/ AdjustEndpoints(p) \/ ReconcileWrite(p)
           \/ PruneLoad(p) \/ PruneGet(p) \/ PruneWrite(p) \/ PruneFails(p)
    PROVE  IndexStep(q)
<1>1. req \in [Worker -> Request]
  BY DEF TypeInv, TypeOK
<1>2. CASE StartRecords(p)
  BY <1>1, <1>2 DEF StartRecords, IndexStep, Request
<1>3. CASE ListForRecords(p)
  BY <1>1, <1>3 DEF ListForRecords, IndexStep, Request, account
<1>8. CASE CompleteRecords(p)
  BY <1>1, <1>8 DEF CompleteRecords, IndexStep, Request, account
<1>4. CASE AdjustEndpoints(p)
  <2> DEFINE i       == InstanceOf[p]
             present == IF i \in CoreDNS THEN (Adjusted(p) \cap mem[i].recordsHosts) \ Wildcard ELSE {}
             adds    == Answerable(p, present)
             next    == AfterReconcile(i)
  <2>1. CASE req' = [req EXCEPT ![p].pc = "reconcile", ![p].adds = adds,
                                ![p].skipped = present \ adds, ![p].snapshot = fragment[i]]
    <3> HIDE DEF adds, present
    <3> QED
      BY <1>1, <2>1 DEF IndexStep, Request
  <2>2. CASE req' = [req EXCEPT ![p].pc = next]
    <3>1. next # "adoption"
      BY DEF AfterReconcile
    <3> QED
      BY <1>1, <2>2, <3>1 DEF IndexStep, Request
  <2>3. CASE req' = [req EXCEPT ![p] = NoRequest]
    BY <1>1, <2>3 DEF NoRequest, IndexStep, Request
  <2> QED
    BY <1>4, <2>1, <2>2, <2>3 DEF AdjustEndpoints, Finish
<1>5. CASE ReconcileWrite(p)
  <2> DEFINE next == AfterReconcile(InstanceOf[p])
  <2>1. next # "adoption"
    BY DEF AfterReconcile
  <2>2. CASE req' = [req EXCEPT ![p].pc = next, ![p].adds = {}, ![p].snapshot = NoRewrites]
    <3> HIDE DEF next
    <3> QED
      BY <1>1, <2>1, <2>2 DEF IndexStep, Request
  <2>3. CASE req' = [req EXCEPT ![p] = NoRequest]
    BY <1>1, <2>3 DEF NoRequest, IndexStep, Request
  <2> QED
    BY <1>5, <2>2, <2>3 DEF ReconcileWrite, Finish
<1>6. CASE PruneLoad(p) \/ PruneGet(p)
  BY <1>1, <1>6 DEF PruneLoad, PruneGet, IndexStep, Request
<1>7. CASE EndPrune(p)
  BY <1>1, <1>7 DEF EndPrune, IndexStep, Request
<1> QED
  BY <1>2, <1>3, <1>4, <1>5, <1>6, <1>7, <1>8 DEF PruneWrite, PruneFails

LEMMA ApplyIndexes ==
    ASSUME TypeInv, NEW p \in Worker, NEW q \in Worker,
           \/ Plan(p) \/ ListOwned(p) \/ ListForAdoption(p) \/ ApplyCoreDNS(p) \/ StageWrite(p)
           \/ \E h \in Host: Classified(p, h, routes) \/ Classified(p, h, NoRoutes)
           \/ \E h \in Host: CreateRefused(p, h)
           \/ \E h \in Host: Deleted(p, h) \/ Updated(p, h) \/ Created(p, h)
           \/ Finish(p) \/ Abandon(p)
    PROVE  IndexStep(q)
<1>1. req \in [Worker -> Request]
  BY DEF TypeInv, TypeOK
<1>2. CASE Plan(p)
  <2>1. CASE Finish(p)
    BY <1>1, <2>1 DEF Finish, NoRequest, IndexStep, Request
  <2>2. CASE ~Finish(p)
    <3> DEFINE i       == InstanceOf[p]
               current == {h \in domainFilter[i]: req[p].index[h] # NoRoute}
               cre     == Adjusted(p) \ current
               upd     == {h \in Adjusted(p) \cap current: req[p].index[h].tunnel # resolve[i][h]}
               del     == IF i \in PolicySync THEN current \ Adjusted(p) ELSE {}
               next    == IF NeedsIndex(del, upd) THEN "index"
                          ELSE IF NeedsAdoption(i, cre) THEN "adoption" ELSE "coredns"
               r       == [req[p] EXCEPT !.pc = next, !.index = NoRoutes, !.deletes = del,
                                         !.updates = upd, !.creates = cre]
    <3>1. next = "adoption" => i \in AdoptUntagged
      BY DEF NeedsAdoption
    <3>2. req[p] \in Request
      BY <1>1
    <3>3. r.index = NoRoutes /\ r.existing = req[p].existing /\ r.pc = next
      <4> HIDE DEF cre, upd, del, next
      <4> QED
        BY <3>2 DEF Request
    <3>4. req' = [req EXCEPT ![p] = r]
      BY <1>2, <2>2 DEF Plan
    <3> HIDE DEF r, next
    <3> QED
      BY <1>1, <3>1, <3>3, <3>4 DEF IndexStep
  <2> QED
    BY <2>1, <2>2
<1>3. CASE ListOwned(p)
  <2> DEFINE ix == OwnedListing(p)
             at == AfterIndex(p)
  <2>1. at = "adoption" => InstanceOf[p] \in AdoptUntagged
    BY DEF AfterIndex, NeedsAdoption
  <2>2. \/ req' = [req EXCEPT ![p].index = ix, ![p].pos = 1, ![p].pc = at]
        \/ req' = [req EXCEPT ![p].index = ix, ![p].pos = @ + 1]
    BY <1>3 DEF ListOwned
  <2>3. req[p].pc = "index" /\ UNCHANGED account
    BY <1>3 DEF ListOwned
  <2> HIDE DEF ix, at
  <2>4. /\ \A g \in Worker \ {p}: req'[g] = req[g]
        /\ req'[p].existing = req[p].existing
        /\ req'[p].index = ix
        /\ req'[p].pc \in {req[p].pc, at}
    BY <1>1, <2>2 DEF Request
  <2> QED
    BY <1>1, <2>1, <2>3, <2>4 DEF IndexStep, account, ix
<1>4. CASE ListForAdoption(p)
  BY <1>1, <1>4 DEF ListForAdoption, IndexStep, Request, account
<1>5. CASE ApplyCoreDNS(p) \/ StageWrite(p)
  <2>1. CASE StageWrite(p)
    BY <1>1, <2>1 DEF StageWrite, IndexStep, Request
  <2>2. CASE ApplyCoreDNS(p)
    <3> DEFINE i       == InstanceOf[p]
               adds    == Answerable(p, req[p].creates)
               skip    == IF i \in CoreDNS THEN req[p].creates \ adds ELSE {}
               now     == fragment[i]
               removes == req[p].deletes
    <3>1. \/ req' = [req EXCEPT ![p].pc = "stage", ![p].skipped = skip, ![p].adds = adds,
                                ![p].removes = removes, ![p].snapshot = now]
          \/ req' = [req EXCEPT ![p].pc = "mutate", ![p].skipped = skip]
      BY <2>2 DEF ApplyCoreDNS
    <3> HIDE DEF adds, skip, now, removes
    <3>2. /\ \A g \in Worker \ {p}: req'[g] = req[g]
          /\ req'[p].existing = req[p].existing
          /\ req'[p].index = req[p].index
          /\ req'[p].pc \in {"stage", "mutate"}
      BY <1>1, <3>1 DEF Request
    <3> QED
      BY <1>1, <3>2 DEF IndexStep
  <2> QED
    BY <1>5, <2>1, <2>2
<1>6. ASSUME NEW h \in Host, NEW list, Classified(p, h, list) PROVE IndexStep(q)
  <2> DEFINE r == [req[p] EXCEPT !.pc = "mutate", !.conflict = {}, !.listed = TRUE,
                                 !.holders = list, !.creates = @ \ {h}]
  <2>1. req[p] \in Request
    BY <1>1
  <2>2. r.index = req[p].index /\ r.existing = req[p].existing /\ r.pc = "mutate"
    BY <2>1 DEF Request
  <2>3. req' = [req EXCEPT ![p] = r]
    BY <1>6 DEF Classified
  <2> HIDE DEF r
  <2> QED
    BY <1>1, <2>2, <2>3 DEF IndexStep
<1>7. ASSUME NEW h \in Host, Deleted(p, h) \/ Updated(p, h) \/ Created(p, h)
      PROVE  IndexStep(q)
  <2>1. CASE Deleted(p, h)
    BY <1>1, <2>1 DEF Deleted, IndexStep, Request
  <2>2. CASE Updated(p, h)
    BY <1>1, <2>2 DEF Updated, IndexStep, Request
  <2>3. CASE Created(p, h)
    BY <1>1, <2>3 DEF Created, IndexStep, Request
  <2> QED
    BY <1>7, <2>1, <2>2, <2>3
<1>8. ASSUME NEW h \in Host, CreateRefused(p, h) PROVE IndexStep(q)
  <2>1. CASE Created(p, h)
    BY <1>7, <2>1
  <2>2. CASE req' = [req EXCEPT ![p].pc = "classify", ![p].conflict = {h}]
    BY <1>1, <2>2 DEF IndexStep, Request
  <2> QED
    BY <1>8, <2>1, <2>2 DEF CreateRefused
<1>9. CASE Finish(p) \/ Abandon(p)
  BY <1>1, <1>9 DEF Finish, NoRequest, Abandon, IndexStep, Request
<1> QED
  BY <1>2, <1>3, <1>4, <1>5, <1>6, <1>7, <1>8, <1>9

LEMMA IndexNext ==
    ASSUME TypeInv, [Next]_vars, NEW q \in Worker PROVE IndexStep(q)
<1>1. ASSUME NEW p \in Worker, StartRecords(p) \/ Progress(p) \/ Failure(p)
      PROVE  IndexStep(q)
  <2>1. ASSUME NEW h \in Host,
               \/ DeleteRoute(p, h) \/ UpdateRoute(p, h) \/ AdoptRoute(p, h) \/ SkipCreate(p, h)
               \/ CreateRoute(p, h) \/ CallFails(p, h) \/ CreateFails(p, h)
        PROVE  Deleted(p, h) \/ Updated(p, h) \/ Created(p, h)
    BY <2>1 DEF DeleteRoute, UpdateRoute, AdoptRoute, SkipCreate, CreateRoute, CallFails,
                CreateFails
  <2>2. ASSUME NEW h \in Host, ListAccount(p, h) \/ ListAccountFails(p, h)
        PROVE  Classified(p, h, routes) \/ Classified(p, h, NoRoutes)
    BY <2>2 DEF ListAccount, ListAccountFails
  <2>3. Unattended(p) \/ EndApply(p) \/ ListFails(p) \/ AdjustFails(p) \/ FragmentFails(p)
        => Finish(p)
    BY DEF Unattended, EndApply, ListFails, AdjustFails, FragmentFails
  <2> QED
    BY <1>1, <2>1, <2>2, <2>3, RecordsIndexes, ApplyIndexes DEF Progress, Mutate, Failure
<1>2. ASSUME NEW i \in Running, Crash(i) PROVE IndexStep(q)
  BY <1>2 DEF Crash, NoRequest, IndexStep
<1>3. CASE Environment
  BY <1>3 DEF Environment, ChangeService, OtherCreates, OtherDeletes, IndexStep
<1>4. CASE UNCHANGED vars
  BY <1>4 DEF vars, IndexStep
<1> QED
  BY <1>1, <1>2, <1>3, <1>4 DEF Next

-----------------------------------------------------------------------------
(* The steps that change a route, and how. *)

LEMMA OtherSteps ==
    ASSUME [Next]_vars
    PROVE  \/ UNCHANGED account
           \/ \E p \in Worker, h \in Host:
                 \/ DeleteRoute(p, h) \/ UpdateRoute(p, h) \/ AdoptRoute(p, h)
                 \/ CreateRoute(p, h) \/ CreateFails(p, h)
           \/ \E h \in Host: OtherDeletes(h) \/ \E t \in Tunnel: OtherCreates(h, t)
<1>1. ASSUME NEW p \in Worker, StartRecords(p) \/ Progress(p) \/ Failure(p)
      PROVE  \/ UNCHANGED account
             \/ \E h \in Host:
                   \/ DeleteRoute(p, h) \/ UpdateRoute(p, h) \/ AdoptRoute(p, h)
                   \/ CreateRoute(p, h) \/ CreateFails(p, h)
  <2>1. StartRecords(p) \/ Failure(p) => UNCHANGED account \/ \E h \in Host: CreateFails(p, h)
    BY DEF StartRecords, Failure, ListFails, AdjustFails, FragmentFails, PruneFails, Abandon,
           CallFails, ListAccountFails
  <2>2. Mutate(p) => \/ UNCHANGED account
                     \/ \E h \in Host: \/ DeleteRoute(p, h) \/ UpdateRoute(p, h)
                                       \/ AdoptRoute(p, h) \/ CreateRoute(p, h)
    BY DEF Mutate, SkipCreate, CreateRefused, ListAccount
  <2>3. Progress(p) => UNCHANGED account \/ Mutate(p)
    BY DEF Progress, ListForRecords, CompleteRecords, AdjustEndpoints, ReconcileWrite,
           PruneLoad, PruneGet, PruneWrite, Plan, Unattended, ListOwned, ListForAdoption,
           ApplyCoreDNS, StageWrite, EndApply
  <2> QED
    BY <1>1, <2>1, <2>2, <2>3
<1>2. ASSUME NEW i \in Running, Crash(i) PROVE UNCHANGED account
  BY <1>2 DEF Crash
<1>3. CASE Environment
  BY <1>3 DEF Environment, ChangeService
<1>4. CASE UNCHANGED vars
  BY <1>4 DEF vars, account
<1> QED
  BY <1>1, <1>2, <1>3, <1>4 DEF Next

(* An id of the index, or of the existing routes, names one route. *)
LEMMA IndexedRoute ==
    ASSUME OwnInv, NEW p \in Worker, NEW h \in Host, NEW g \in Host
    PROVE  /\ req[p].index[h] # NoRoute /\ HasId(g, req[p].index[h].id) =>
                  /\ g = h
                  /\ Claimable(InstanceOf[p], routes[g].tag)
                  /\ Claimable(InstanceOf[p], req[p].index[h].tag)
           /\ req[p].existing[h] # NoRoute /\ HasId(g, req[p].existing[h].id) =>
                  /\ g = h
                  /\ req[p].existing[h].tag = Untagged => Claimable(InstanceOf[p], routes[g].tag)
BY DEF OwnInv, IndexHolds, ExistingHolds

LEMMA DeleteStep ==
    ASSUME TypeInv, NEW id, DeleteHostnameRoute(id) PROVE AccountStep
BY DEF DeleteHostnameRoute, AccountStep, Evolves, TypeInv, TypeOK

LEMMA CreateStep ==
    ASSUME TypeInv, NEW h \in Host, NEW t, NEW tag, CreateHostnameRoute(h, t, tag)
    PROVE  AccountStep
<1>1. routes \in [Host -> Route \cup {NoRoute}]
  BY DEF TypeInv, TypeOK, RouteIndex
<1>2. \A g \in Host \ {h}: routes'[g] = routes[g]
  BY <1>1 DEF CreateHostnameRoute
<1>3. routes'[h] = NoRoute \/ (~Routed(h) /\ Routed(h)' /\ routes'[h].id = nextId)
  BY <1>1 DEF CreateHostnameRoute, Routed
<1> QED
  BY <1>2, <1>3 DEF CreateHostnameRoute, AccountStep, Evolves

LEMMA UpdateStep ==
    ASSUME TypeInv, OwnInv, NEW p \in Worker, NEW h \in Host, UpdateRoute(p, h),
           UpdateCalled(p, h)
    PROVE  AccountStep
<1> DEFINE r == req[p].index[h]
<1>1. InstanceOf[p] \in Instance
  BY WorkerType
<1>2. ASSUME NEW g \in Host, HasId(g, r.id) PROVE Evolves(g)
  <2>1. Claimable(InstanceOf[p], routes[g].tag) /\ Claimable(InstanceOf[p], r.tag)
    BY <1>2, IndexedRoute DEF UpdateCalled
  <2>2. routes'[g] = [id |-> r.id, tunnel |-> resolve[InstanceOf[p]][h], tag |-> r.tag]
    BY <1>2 DEF UpdateRoute, PatchHostnameRoute
  <2> QED
    BY <1>1, <1>2, <2>1, <2>2 DEF Evolves, HasId, Routed
<1>3. ASSUME NEW g \in Host, ~HasId(g, r.id) PROVE Evolves(g)
  BY <1>3 DEF UpdateRoute, PatchHostnameRoute, Evolves
<1> QED
  BY <1>2, <1>3 DEF AccountStep, UpdateRoute, PatchHostnameRoute

LEMMA AdoptStep ==
    ASSUME TypeInv, OwnInv, NEW p \in Worker, NEW h \in Host, AdoptRoute(p, h), AdoptCalled(p, h)
    PROVE  AccountStep
<1> DEFINE r == req[p].existing[h]
<1>1. InstanceOf[p] \in Instance
  BY WorkerType
<1>2. ASSUME NEW g \in Host, HasId(g, r.id) PROVE Evolves(g)
  <2>1. Claimable(InstanceOf[p], routes[g].tag) /\ Claimable(InstanceOf[p], InstanceOf[p])
    BY <1>2, IndexedRoute DEF AdoptRoute, Adopting, AdoptCalled, Claimable
  <2>2. routes'[g] = [routes[g] EXCEPT !.tag = InstanceOf[p]]
    BY <1>2 DEF AdoptRoute, PatchHostnameRouteComment
  <2>3. routes[g] \in Route
    BY <1>2 DEF HasId, Routed, TypeInv, TypeOK, RouteIndex
  <2>4. routes'[g].id = routes[g].id /\ routes'[g].tag = InstanceOf[p]
    BY <2>2, <2>3 DEF Route
  <2> QED
    BY <1>1, <1>2, <2>1, <2>4 DEF Evolves, HasId, Routed
<1>3. ASSUME NEW g \in Host, ~HasId(g, r.id) PROVE Evolves(g)
  BY <1>3 DEF AdoptRoute, PatchHostnameRouteComment, Evolves
<1> QED
  BY <1>2, <1>3 DEF AccountStep, AdoptRoute, PatchHostnameRouteComment

LEMMA AccountNext == ASSUME TypeInv, OwnInv, [Next]_vars PROVE AccountStep
<1>1. CASE UNCHANGED account
  BY <1>1 DEF account, AccountStep, Evolves
<1>2. ASSUME NEW p \in Worker, NEW h \in Host,
             \/ DeleteRoute(p, h) \/ UpdateRoute(p, h) \/ AdoptRoute(p, h)
             \/ CreateRoute(p, h) \/ CreateFails(p, h)
      PROVE  AccountStep
  <2>1. CASE DeleteRoute(p, h)
    BY <1>1, <2>1, DeleteStep DEF DeleteRoute
  <2>2. CASE UpdateRoute(p, h)
    BY <1>1, <2>2, UpdateStep DEF UpdateRoute
  <2>3. CASE AdoptRoute(p, h)
    BY <1>1, <2>3, AdoptStep DEF AdoptRoute
  <2>4. CASE CreateRoute(p, h) \/ CreateFails(p, h)
    BY <1>1, <2>4, CreateStep, CallType DEF CreateRoute, CreateFails
  <2> QED
    BY <1>2, <2>1, <2>2, <2>3, <2>4
<1>3. ASSUME NEW h \in Host, OtherDeletes(h) \/ \E t \in Tunnel: OtherCreates(h, t)
      PROVE  AccountStep
  BY <1>3, DeleteStep, CreateStep DEF OtherDeletes, OtherCreates, DeleteUntagged, CreateUntagged
<1> QED
  BY <1>1, <1>2, <1>3, OtherSteps

LEMMA OwnInvInit == Init => OwnInv
<1> SUFFICES ASSUME Init PROVE OwnInv
  OBVIOUS
<1>1. FreshIds
  BY InitialAssumption DEF Init, FreshIds, HasId, Routed
<1>2. ASSUME NEW p \in Worker
      PROVE  /\ IndexHolds(p) /\ ExistingHolds(p)
             /\ req[p].pc = "adoption" => InstanceOf[p] \in AdoptUntagged
  BY DEF Init, NoRequest, NoRoutes, IndexHolds, ExistingHolds
<1> QED
  BY <1>1, <1>2 DEF OwnInv

LEMMA OwnInvNext ==
    ASSUME SoleTaker PROVE TypeInv /\ OwnInv /\ [Next]_vars => OwnInv'
BY NextType, AccountNext, IndexNext, OwnInvStep

-----------------------------------------------------------------------------
(* However old the index is that a delete, a retarget or an adoption uses, an
   id it holds is gone or still is the route of that hostname, with this
   instance's tag or still none (ownedRouteIndex, adoptionIndex). *)
THEOREM StaleIndexIsSafe == Spec => []StaleIndexHolds
<1>1. CASE ~SoleTaker
  <2>1. StaleIndexHolds
    BY <1>1 DEF StaleIndexHolds
  <2> QED
    BY <2>1, PTL
<1>2. CASE SoleTaker
  <2>1. TypeInv /\ OwnInv /\ [Next]_vars => OwnInv'
    BY <1>2, OwnInvNext
  <2>2. OwnInv => StaleIndexHolds
    BY DEF OwnInv, StaleIndexHolds
  <2> QED
    BY <2>1, <2>2, InitType, NextType, OwnInvInit, PTL DEF Spec
<1> QED
  BY <1>1, <1>2

-----------------------------------------------------------------------------
LEMMA DeleteConsent ==
    ASSUME TypeInv, OwnInv, NEW p \in Worker, NEW g \in Host, DeleteRoute(p, g), DeleteCalled(p, g),
           NEW h \in Host
    PROVE  Consented(h)
<1> SUFFICES ASSUME Routed(h), routes[h].tag # Untagged, routes'[h] # routes[h]
             PROVE  InstanceOf[p] = routes[h].tag /\ Acted(p, h)
  BY DEF Consented
<1>1. req[p] \in Request /\ Sound(p, req[p]) /\ req \in [Worker -> Request]
  BY WorkerType DEF TypeInv, TypeOK
<1>2. HasId(h, req[p].index[g].id)
  BY DEF DeleteRoute, DeleteHostnameRoute
<1>3. h = g /\ InstanceOf[p] = routes[h].tag
  BY <1>2, IndexedRoute DEF DeleteCalled, Claimable
<1>4. req'[p].deletes = req[p].deletes \ {h} /\ req'[p].updates = req[p].updates
  BY <1>1, <1>3 DEF DeleteRoute, Deleted, Request
<1> QED
  BY <1>1, <1>3, <1>4 DEF Acted, DeleteRoute, Deleting, Sound

LEMMA UpdateConsent ==
    ASSUME TypeInv, OwnInv, NEW p \in Worker, NEW g \in Host, UpdateRoute(p, g), UpdateCalled(p, g),
           NEW h \in Host
    PROVE  Consented(h)
<1> SUFFICES ASSUME Routed(h), routes[h].tag # Untagged, routes'[h] # routes[h]
             PROVE  InstanceOf[p] = routes[h].tag /\ Acted(p, h)
  BY DEF Consented
<1>1. req[p] \in Request /\ req \in [Worker -> Request]
  BY WorkerType DEF TypeInv, TypeOK
<1>2. HasId(h, req[p].index[g].id)
  BY DEF UpdateRoute, PatchHostnameRoute
<1>3. h = g /\ InstanceOf[p] = routes[h].tag
  BY <1>2, IndexedRoute DEF UpdateCalled, Claimable
<1>4. req'[p].deletes = req[p].deletes /\ req'[p].updates = req[p].updates \ {h}
  BY <1>1, <1>3 DEF UpdateRoute, Updated, Request
<1> QED
  BY <1>3, <1>4 DEF Acted, UpdateRoute, Updating

(* An adoption leaves a tagged route as it is: the tag it writes is there. *)
LEMMA AdoptConsent ==
    ASSUME TypeInv, OwnInv, NEW p \in Worker, NEW g \in Host, AdoptRoute(p, g), AdoptCalled(p, g),
           NEW h \in Host
    PROVE  Consented(h)
<1> SUFFICES ASSUME Routed(h), routes[h].tag # Untagged PROVE routes'[h] = routes[h]
  BY DEF Consented
<1>1. CASE HasId(h, req[p].existing[g].id)
  <2>1. routes[h].tag = InstanceOf[p]
    BY <1>1, IndexedRoute DEF AdoptRoute, Adopting, AdoptCalled, Claimable
  <2>2. routes[h] \in Route
    BY DEF Routed, TypeInv, TypeOK, RouteIndex
  <2>3. routes'[h] = [routes[h] EXCEPT !.tag = InstanceOf[p]]
    BY <1>1 DEF AdoptRoute, PatchHostnameRouteComment
  <2> QED
    BY <2>1, <2>2, <2>3 DEF Route
<1>2. CASE ~HasId(h, req[p].existing[g].id)
  BY <1>2 DEF AdoptRoute, PatchHostnameRouteComment
<1> QED
  BY <1>1, <1>2

LEMMA CreateConsent ==
    ASSUME TypeInv, NEW g, NEW t, NEW tag, CreateHostnameRoute(g, t, tag), NEW h \in Host
    PROVE  Consented(h)
BY DEF CreateHostnameRoute, Consented, Routed, TypeInv, TypeOK, RouteIndex

LEMMA OtherDeletesConsent ==
    ASSUME TypeInv, OwnInv, NEW g \in Host, OtherDeletes(g), NEW h \in Host
    PROVE  Consented(h)
<1> SUFFICES ASSUME Routed(h), routes'[h] # routes[h] PROVE routes[h].tag = Untagged
  BY DEF Consented
<1>1. Routed(g) /\ routes[g].tag = Untagged /\ HasId(h, routes[g].id)
  BY DEF OtherDeletes, DeleteUntagged, DeleteHostnameRoute
<1> QED
  BY <1>1 DEF OwnInv, FreshIds

LEMMA ConsentNext ==
    ASSUME TypeInv, OwnInv, [Next]_vars PROVE \A h \in Host: Consented(h)
<1> TAKE h \in Host
<1>1. CASE UNCHANGED account
  BY <1>1 DEF account, Consented
<1>2. ASSUME NEW p \in Worker, NEW g \in Host,
             \/ DeleteRoute(p, g) \/ UpdateRoute(p, g) \/ AdoptRoute(p, g)
             \/ CreateRoute(p, g) \/ CreateFails(p, g)
      PROVE  Consented(h)
  <2>1. CASE DeleteRoute(p, g)
    BY <1>1, <2>1, DeleteConsent DEF DeleteRoute
  <2>2. CASE UpdateRoute(p, g)
    BY <1>1, <2>2, UpdateConsent DEF UpdateRoute
  <2>3. CASE AdoptRoute(p, g)
    BY <1>1, <2>3, AdoptConsent DEF AdoptRoute
  <2>4. CASE CreateRoute(p, g) \/ CreateFails(p, g)
    BY <1>1, <2>4, CreateConsent DEF CreateRoute, CreateFails
  <2> QED
    BY <1>2, <2>1, <2>2, <2>3, <2>4
<1>3. ASSUME NEW g \in Host, OtherDeletes(g) \/ \E t \in Tunnel: OtherCreates(g, t)
      PROVE  Consented(h)
  BY <1>3, OtherDeletesConsent, CreateConsent DEF OtherCreates, CreateUntagged
<1> QED
  BY <1>1, <1>2, <1>3, OtherSteps

(* Where at most one running instance adopts or runs without strict ownership,
   a route with an owner's tag changes or goes only by that owner's own planned
   delete or retarget of the hostname, under every interleaving of cycles,
   crashes, failures and other writers (manageable, adopt).  Without the
   premise it is false: MCProvider_adoptrace. *)
THEOREM OwnersConsent == SoleTaker => (Spec => OwnerConsents)
<1> SUFFICES ASSUME SoleTaker PROVE Spec => OwnerConsents
  OBVIOUS
<1>1. TypeInv /\ OwnInv /\ [Next]_vars => OwnInv'
  BY OwnInvNext
<1>2. TypeInv /\ OwnInv /\ [Next]_vars => [\A h \in Host: Consented(h)]_vars
  BY ConsentNext
<1> QED
  BY <1>1, <1>2, InitType, NextType, OwnInvInit, PTL DEF Spec, OwnerConsents

-----------------------------------------------------------------------------
(***************************************************************************)
(* Provider implements RouteClaims under the same premise.                 *)
(*                                                                         *)
(* The abstract state is a function of the routes and of the plans.  A     *)
(* step that leaves the account alone is a decision of one instance or a   *)
(* stutter; a call is one abstract action, because the id it names is the  *)
(* id of the host it is meant for (OwnInv, IndexedRoute).                  *)
(***************************************************************************)

(* Only the requests of one instance change in a step. *)
ReqStep(o) == \A q \in Worker: InstanceOf[q] # o => req'[q] = req[q]

(* Only the request of p changes, and its deletes do not. *)
SameDeletes(p) ==
    /\ \A q \in Worker \ {p}: req'[q] = req[q]
    /\ req'[p].deletes = req[p].deletes

-----------------------------------------------------------------------------
LEMMA RecordsReq ==
    ASSUME TypeInv, NEW p \in Worker, NEW q \in Worker \ {p},
           \/ StartRecords(p) \/ ListForRecords(p) \/ CompleteRecords(p)
           \/ AdjustEndpoints(p) \/ ReconcileWrite(p)
           \/ PruneLoad(p) \/ PruneGet(p) \/ PruneWrite(p)
    PROVE  req'[q] = req[q]
BY DEF TypeInv, TypeOK, StartRecords, ListForRecords, CompleteRecords, AdjustEndpoints,
       ReconcileWrite, PruneLoad, PruneGet, PruneWrite, EndPrune, Finish

LEMMA ApplyReq ==
    ASSUME TypeInv, NEW p \in Worker, NEW q \in Worker \ {p},
           \/ Plan(p) \/ Unattended(p) \/ ListOwned(p) \/ ListForAdoption(p)
           \/ ApplyCoreDNS(p) \/ StageWrite(p) \/ Mutate(p) \/ EndApply(p)
    PROVE  req'[q] = req[q]
<1>1. CASE Plan(p) \/ Unattended(p) \/ ListOwned(p) \/ ListForAdoption(p)
           \/ ApplyCoreDNS(p) \/ StageWrite(p) \/ EndApply(p)
  BY <1>1 DEF TypeInv, TypeOK, Plan, Unattended, ListOwned, ListForAdoption, ApplyCoreDNS,
              StageWrite, EndApply, Finish
<1>2. CASE Mutate(p)
  BY <1>2 DEF TypeInv, TypeOK, Mutate, DeleteRoute, UpdateRoute, AdoptRoute, SkipCreate,
              CreateRoute, CreateRefused, ListAccount, Classified, Deleted, Updated, Created
<1> QED
  BY <1>1, <1>2

LEMMA FailureReq ==
    ASSUME TypeInv, NEW p \in Worker, NEW q \in Worker \ {p}, Failure(p)
    PROVE  req'[q] = req[q]
BY DEF TypeInv, TypeOK, Failure, ListFails, AdjustFails, FragmentFails, PruneFails, Abandon,
       CallFails, CreateFails, ListAccountFails, Classified, Deleted, Updated, Created, EndPrune,
       Finish

LEMMA ReqNext ==
    ASSUME TypeInv, [Next]_vars PROVE UNCHANGED req \/ \E o \in Instance: ReqStep(o)
<1>1. ASSUME NEW p \in Worker, StartRecords(p) \/ Progress(p) \/ Failure(p)
      PROVE  \E o \in Instance: ReqStep(o)
  <2>1. \A q \in Worker \ {p}: req'[q] = req[q]
    BY <1>1, RecordsReq, ApplyReq, FailureReq DEF Progress
  <2> QED
    BY <2>1, WorkerType DEF ReqStep
<1>2. ASSUME NEW i \in Running, Crash(i) PROVE \E o \in Instance: ReqStep(o)
  BY <1>2, InstanceAssumption DEF Crash, ReqStep, Running
<1>3. CASE Environment \/ UNCHANGED vars
  BY <1>3 DEF Environment, ChangeService, OtherCreates, OtherDeletes, vars
<1> QED
  BY <1>1, <1>2, <1>3 DEF Next

-----------------------------------------------------------------------------
(* What a step does to the decisions. *)
LEMMA DecideStep ==
    ASSUME TypeInv, TypeInv', NEW o \in Instance, ReqStep(o), claim' = claim
    PROVE  Claims!Decide(o)
<1>1. \A i \in Instance \ {o}: giving'[i] = giving[i]
  BY DEF ReqStep, giving
<1>2. giving'[o] \in SUBSET Host
  BY DEF giving, TypeInv, TypeOK, Request
<1>3. giving' = [giving EXCEPT ![o] = giving'[o]]
  BY <1>1 DEF giving
<1> QED
  BY <1>2, <1>3 DEF Claims!Decide, Instance

LEMMA SameGiving == ASSUME NEW p \in Worker, SameDeletes(p) PROVE giving' = giving
BY DEF SameDeletes, giving

LEMMA LessGiving ==
    ASSUME TypeInv, NEW p \in Worker, NEW h \in Host, Deleted(p, h)
    PROVE  giving' \in {giving, [giving EXCEPT ![InstanceOf[p]] = @ \ {h}]}
<1> DEFINE o == InstanceOf[p]
           peers == {q \in Worker: InstanceOf[q] = o}
<1>1. /\ \A q \in Worker \ {p}: req'[q] = req[q]
      /\ req'[p].deletes = req[p].deletes \ {h}
  BY WorkerType DEF Deleted, Request, TypeInv, TypeOK
<1>2. \A i \in Instance \ {o}: giving'[i] = giving[i]
  BY <1>1 DEF giving
<1>3. /\ giving[o] = UNION {req[q].deletes : q \in peers}
      /\ giving'[o] = UNION {req'[q].deletes : q \in peers}
  BY WorkerType DEF giving
<1>4. giving'[o] \in {giving[o], giving[o] \ {h}}
  <2>1. CASE \E q \in peers \ {p}: h \in req[q].deletes
    BY <1>1, <1>3, <2>1
  <2>2. CASE ~\E q \in peers \ {p}: h \in req[q].deletes
    BY <1>1, <1>3, <2>2
  <2> QED
    BY <2>1, <2>2
<1> QED
  BY <1>2, <1>4, WorkerType DEF giving

(* The claims when the route of one host changes. *)
LEMMA OneClaim ==
    ASSUME NEW h \in Host, \A g \in Host \ {h}: routes'[g] = routes[g]
    PROVE  claim' = [claim EXCEPT ![h] = IF Routed(h)' THEN routes'[h].tag ELSE NoRoute]
BY DEF claim, Routed

LEMMA ClaimOf ==
    ASSUME NEW h \in Host
    PROVE  claim[h] = IF Routed(h) THEN routes[h].tag ELSE NoRoute
BY DEF claim

-----------------------------------------------------------------------------
(* A call to Cloudflare is one abstract action. *)
ClaimStep == Claims!Next \/ UNCHANGED <<claim, giving>>

LEMMA SameAccount ==
    ASSUME TypeInv, TypeInv', [Next]_vars, UNCHANGED routes PROVE ClaimStep
<1>1. claim' = claim
  BY DEF claim, Routed
<1>2. UNCHANGED req => giving' = giving
  BY DEF giving
<1> QED
  BY <1>1, <1>2, ReqNext, DecideStep DEF ClaimStep, Claims!Next, Instance

LEMMA DeleteClaim ==
    ASSUME TypeInv, OwnInv, NEW p \in Worker, NEW h \in Host, DeleteRoute(p, h),
           DeleteCalled(p, h), HasId(h, req[p].index[h].id)
    PROVE  Claims!Release(InstanceOf[p], h)
<1> DEFINE o == InstanceOf[p]
<1>1. Claimable(o, routes[h].tag)
  BY IndexedRoute DEF DeleteCalled
<1>2. claim[h] \in {o, Untagged}
  BY <1>1, ClaimOf DEF Claimable, HasId
<1>3. \A g \in Host \ {h}: routes'[g] = routes[g]
  BY IndexedRoute DEF DeleteRoute, DeleteCalled, DeleteHostnameRoute
<1>4. claim' = [claim EXCEPT ![h] = NoRoute]
  BY <1>3, OneClaim DEF DeleteRoute, DeleteHostnameRoute, Routed
<1>5. h \in giving[o]
  BY WorkerType DEF giving, DeleteRoute, Deleting
<1> QED
  BY <1>2, <1>4, <1>5, LessGiving DEF Claims!Release, DeleteRoute

(* A call that leaves a route of h tagged, by its owner or its taker. *)
LEMMA TagClaim ==
    ASSUME NEW p \in Worker, NEW h \in Host, SameDeletes(p),
           Routed(h), Claimable(InstanceOf[p], routes[h].tag),
           Routed(h)', Claimable(InstanceOf[p], routes'[h].tag),
           \A g \in Host \ {h}: routes'[g] = routes[g]
    PROVE  \/ Claims!Claim(InstanceOf[p], h)
           \/ Claims!Unmark(InstanceOf[p], h)
           \/ UNCHANGED <<claim, giving>>
<1> DEFINE o == InstanceOf[p]
<1>1. claim[h] \in {o, Untagged} /\ routes'[h].tag \in {o, Untagged}
  BY ClaimOf DEF Claimable
<1>2. claim' = [claim EXCEPT ![h] = routes'[h].tag]
  BY OneClaim
<1>3. giving' = giving
  BY SameGiving
<1>4. routes'[h].tag = claim[h] => claim' = claim
  BY <1>2 DEF claim
<1> QED
  BY <1>1, <1>2, <1>3, <1>4 DEF Claims!Claim, Claims!Unmark

LEMMA UpdateClaim ==
    ASSUME TypeInv, OwnInv, NEW p \in Worker, NEW h \in Host, UpdateRoute(p, h),
           UpdateCalled(p, h), HasId(h, req[p].index[h].id)
    PROVE  ClaimStep
<1> DEFINE r == req[p].index[h]
<1>1. Claimable(InstanceOf[p], routes[h].tag) /\ Claimable(InstanceOf[p], r.tag)
  BY IndexedRoute DEF UpdateCalled
<1>2. \A g \in Host \ {h}: routes'[g] = routes[g]
  BY IndexedRoute DEF UpdateRoute, UpdateCalled, PatchHostnameRoute
<1>3. routes'[h] = [id |-> r.id, tunnel |-> resolve[InstanceOf[p]][h], tag |-> r.tag]
  BY DEF UpdateRoute, PatchHostnameRoute
<1>4. SameDeletes(p)
  BY WorkerType DEF UpdateRoute, Updated, SameDeletes, TypeInv, TypeOK, Request
<1>5. routes'[h] # NoRoute
  BY <1>3, CallType, NoRouteAssumption DEF UpdateRoute, Updating, UpdateCalled, Route
<1> QED
  BY <1>1, <1>2, <1>3, <1>4, <1>5, TagClaim, WorkerType
  DEF ClaimStep, Claims!Next, HasId, Routed, Instance

LEMMA AdoptClaim ==
    ASSUME TypeInv, OwnInv, NEW p \in Worker, NEW h \in Host, AdoptRoute(p, h),
           AdoptCalled(p, h), HasId(h, req[p].existing[h].id)
    PROVE  ClaimStep
<1>1. Claimable(InstanceOf[p], routes[h].tag)
  BY IndexedRoute DEF AdoptRoute, Adopting, AdoptCalled
<1>2. \A g \in Host \ {h}: routes'[g] = routes[g]
  BY IndexedRoute DEF AdoptRoute, Adopting, PatchHostnameRouteComment
<1>3. routes'[h] = [routes[h] EXCEPT !.tag = InstanceOf[p]]
  BY DEF AdoptRoute, PatchHostnameRouteComment
<1>4. SameDeletes(p)
  BY WorkerType DEF AdoptRoute, Created, SameDeletes, TypeInv, TypeOK, Request
<1>5. routes[h] \in Route /\ InstanceOf[p] \in Owner
  BY WorkerType DEF HasId, Routed, TypeInv, TypeOK, RouteIndex, Instance
<1>6. routes'[h].tag = InstanceOf[p] /\ routes'[h] \in Route
  BY <1>3, <1>5 DEF Route, Tag
<1> QED
  BY <1>1, <1>2, <1>4, <1>6, NoRouteAssumption, TagClaim, WorkerType
  DEF ClaimStep, Claims!Next, HasId, Routed, Instance, Claimable

LEMMA CreateClaim ==
    ASSUME TypeInv, NEW p \in Worker, NEW h \in Host, Created(p, h),
           CreateHostnameRoute(Stored[h], resolve[InstanceOf[p]][h], InstanceOf[p])
    PROVE  ClaimStep
<1> DEFINE s == Stored[h]
           o == InstanceOf[p]
<1>1. s \in Host /\ o \in Owner
  BY WorkerType, InstanceAssumption DEF Instance
<1>2. SameDeletes(p)
  BY WorkerType DEF Created, SameDeletes, TypeInv, TypeOK, Request
<1>3. \A g \in Host \ {s}: routes'[g] = routes[g]
  BY DEF CreateHostnameRoute, TypeInv, TypeOK, RouteIndex
<1>4. claim[s] = NoRoute
  BY <1>1, ClaimOf DEF CreateHostnameRoute
<1>5. routes'[s] = [id |-> nextId, tunnel |-> resolve[o][h], tag |-> o]
  BY <1>1 DEF CreateHostnameRoute, TypeInv, TypeOK, RouteIndex
<1>6. claim' = [claim EXCEPT ![s] = IF Routed(s)' THEN o ELSE NoRoute]
  BY <1>1, <1>3, <1>5, OneClaim
<1>7. giving' = giving
  BY <1>2, SameGiving
<1>8. CASE Routed(s)'
  BY <1>1, <1>4, <1>6, <1>7, <1>8 DEF ClaimStep, Claims!Next, Claims!Claim
<1>9. CASE ~Routed(s)'
  <2>1. claim' = claim
    BY <1>4, <1>6, <1>9 DEF claim
  <2> QED
    BY <2>1, <1>7 DEF ClaimStep
<1> QED
  BY <1>8, <1>9

LEMMA CallClaim ==
    ASSUME TypeInv, TypeInv', OwnInv, [Next]_vars, NEW p \in Worker, NEW h \in Host,
           \/ DeleteRoute(p, h) \/ UpdateRoute(p, h) \/ AdoptRoute(p, h)
           \/ CreateRoute(p, h) \/ CreateFails(p, h)
    PROVE  ClaimStep
<1>1. CASE UNCHANGED routes
  BY <1>1, SameAccount
<1>2. CASE DeleteRoute(p, h) /\ ~UNCHANGED routes
  <2>1. DeleteCalled(p, h) /\ \E g \in Host: HasId(g, req[p].index[h].id)
    BY <1>2 DEF DeleteRoute, DeleteHostnameRoute, account, TypeInv, TypeOK, RouteIndex
  <2>2. HasId(h, req[p].index[h].id)
    BY <2>1, IndexedRoute DEF DeleteCalled
  <2> QED
    BY <1>2, <2>1, <2>2, DeleteClaim, WorkerType DEF ClaimStep, Claims!Next, Instance
<1>3. CASE UpdateRoute(p, h) /\ ~UNCHANGED routes
  <2>1. UpdateCalled(p, h) /\ \E g \in Host: HasId(g, req[p].index[h].id)
    BY <1>3 DEF UpdateRoute, PatchHostnameRoute, account, TypeInv, TypeOK, RouteIndex
  <2>2. HasId(h, req[p].index[h].id)
    BY <2>1, IndexedRoute DEF UpdateCalled
  <2> QED
    BY <1>3, <2>1, <2>2, UpdateClaim
<1>4. CASE AdoptRoute(p, h) /\ ~UNCHANGED routes
  <2>1. AdoptCalled(p, h) /\ \E g \in Host: HasId(g, req[p].existing[h].id)
    BY <1>4 DEF AdoptRoute, PatchHostnameRouteComment, account, TypeInv, TypeOK, RouteIndex
  <2>2. HasId(h, req[p].existing[h].id)
    BY <1>4, <2>1, IndexedRoute DEF AdoptRoute, Adopting
  <2> QED
    BY <1>4, <2>1, <2>2, AdoptClaim
<1>5. CASE (CreateRoute(p, h) \/ CreateFails(p, h)) /\ ~UNCHANGED routes
  BY <1>5, CreateClaim DEF CreateRoute, CreateFails, account
<1> QED
  BY <1>1, <1>2, <1>3, <1>4, <1>5

LEMMA OtherClaim ==
    ASSUME TypeInv, OwnInv, NEW h \in Host,
           OtherDeletes(h) \/ \E t \in Tunnel: OtherCreates(h, t)
    PROVE  ClaimStep
<1>1. giving' = giving
  BY DEF OtherDeletes, OtherCreates, giving
<1>2. CASE OtherDeletes(h)
  <2>1. \A g \in Host \ {h}: routes'[g] = routes[g]
    BY <1>2 DEF OtherDeletes, DeleteUntagged, DeleteHostnameRoute, OwnInv, FreshIds
  <2>2. claim[h] = Untagged /\ ~Routed(h)'
    BY <1>2, ClaimOf DEF OtherDeletes, DeleteUntagged, DeleteHostnameRoute, HasId, Routed
  <2> QED
    BY <1>1, <2>1, <2>2, OneClaim DEF ClaimStep, Claims!Next, Claims!Vacate
<1>3. ASSUME NEW t \in Tunnel, OtherCreates(h, t) PROVE ClaimStep
  <2>1. \A g \in Host \ {h}: routes'[g] = routes[g]
    BY <1>3 DEF OtherCreates, CreateUntagged, CreateHostnameRoute, TypeInv, TypeOK, RouteIndex
  <2>2. routes'[h] = [id |-> nextId, tunnel |-> t, tag |-> Untagged]
    BY <1>3 DEF OtherCreates, CreateUntagged, CreateHostnameRoute, TypeInv, TypeOK, RouteIndex
  <2>3. routes'[h] # NoRoute /\ routes'[h].tag = Untagged
    BY <2>2, NoRouteAssumption DEF Route, Tag, TypeInv, TypeOK
  <2>4. claim[h] = NoRoute
    BY <1>3, ClaimOf DEF OtherCreates, CreateUntagged, CreateHostnameRoute
  <2> QED
    BY <1>1, <2>1, <2>3, <2>4, OneClaim DEF ClaimStep, Claims!Next, Claims!Occupy, Routed
<1> QED
  BY <1>2, <1>3

LEMMA ClaimNext ==
    ASSUME TypeInv, TypeInv', OwnInv, [Next]_vars PROVE ClaimStep
<1>1. UNCHANGED account => UNCHANGED routes
  BY DEF account
<1> QED
  BY <1>1, OtherSteps, SameAccount, CallClaim, OtherClaim

LEMMA ClaimInit == Init => Claims!Init
<1> SUFFICES ASSUME Init PROVE Claims!Init
  OBVIOUS
<1>1. TypeInv
  BY InitType
<1>2. claim \in [Host -> Owner \cup {Untagged, NoRoute}]
  BY <1>1 DEF claim, Routed, TypeInv, TypeOK, RouteIndex, Route, Tag
<1>3. giving = [i \in Instance |-> {}]
  BY DEF giving, Init, NoRequest
<1> QED
  BY <1>2, <1>3 DEF Claims!Init, Instance

(* However the cycles of the instances, their faults and their restarts fall,
   the account they share behaves as RouteClaims: the create that is refused
   while a name is held, the comment that says who holds it, and the delete
   its own owner planned are enough to hand a name from one to another. *)
THEOREM ClaimsKept == SoleTaker => (Spec => KeepsClaims)
<1> SUFFICES ASSUME SoleTaker PROVE Spec => KeepsClaims
  OBVIOUS
<1>1. TypeInv /\ OwnInv /\ [Next]_vars => OwnInv'
  BY OwnInvNext
<1>2. TypeInv /\ TypeInv' /\ OwnInv /\ [Next]_vars => [Claims!Next]_(Claims!vars)
  BY ClaimNext DEF ClaimStep, Claims!vars
<1> QED
  BY <1>1, <1>2, ClaimInit, InitType, NextType, OwnInvInit, PTL DEF Spec, KeepsClaims, Claims!Spec
=============================================================================
