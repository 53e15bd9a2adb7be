--------------------------- MODULE Rewrites_proofs ---------------------------
(***************************************************************************)
(* Two theorems about the rewrites, for every value of the constants in    *)
(* which an instance serves one request at a time.                         *)
(*                                                                         *)
(* The rewrite comes before the route, if at most one instance takes       *)
(* untagged routes.  applyCoreDNS stages the rewrites some calls before    *)
(* the routes are made, so the invariant follows the creates a request     *)
(* still has to make: while it writes the fragment they are among what it  *)
(* writes (Staged), and once it has, their rewrites are there (Answered).  *)
(* With a second request of the same instance this fails: its fragment     *)
(* write, computed from an older read, may come in between.  A retarget    *)
(* must be ruled out as well: it writes a comment back, and it could tag a *)
(* route only if the route had lost the tag since it was listed (TagKept). *)
(*                                                                         *)
(* Only stale rewrites go, if all instances are strict.  What a prune      *)
(* decides by is several calls old when it writes; PruneReady says what of *)
(* it still holds at each step.  A non-strict instance would gain a route  *)
(* when another writer creates one untagged, after its own routes were     *)
(* read.                                                                   *)
(***************************************************************************)
EXTENDS Ownership_proofs

OneRequest == \A p, q \in Worker: InstanceOf[p] = InstanceOf[q] => p = q

Applying == {"mutate", "classify"}

(* The creates that are not skipped. *)
ToCreate(p) == req[p].creates \ req[p].skipped

Staged(p) ==
    req[p].pc = "stage" => ToCreate(p) \subseteq req[p].adds \ Wildcard

Answered(p) ==
    req[p].pc \in Applying =>
        \A h \in ToCreate(p): h \notin Wildcard /\ fragment[InstanceOf[p]][h] # NoRewrite

TagKept(p) ==
    \A h \in Host:
        /\ req[p].index[h] # NoRoute
        /\ req[p].index[h].tag = InstanceOf[p]
        /\ HasId(h, req[p].index[h].id)
        => routes[h].tag = InstanceOf[p]

RewriteInv ==
    \A p \in Worker:
        /\ InstanceOf[p] \in CoreDNS \ DryRun => Staged(p) /\ Answered(p)
        /\ TagKept(p)

(* What a step may do to a request that applies its plan. *)
PlanStep(p) ==
    /\ req'[p].pc = "stage" =>
          \/ ApplyCoreDNS(p)
          \/ req[p].pc = "stage" /\ req'[p] = [req[p] EXCEPT !.live = req'[p].live]
    /\ req'[p].pc \in Applying =>
          \/ ApplyCoreDNS(p)
          \/ StageWrite(p)
          \/ /\ req[p].pc \in Applying
             /\ req'[p].creates \subseteq req[p].creates
             /\ req'[p].skipped = req[p].skipped

-----------------------------------------------------------------------------
(* Requests *)

LEMMA RecordsPlans ==
    ASSUME TypeInv, NEW p \in Worker, NEW q \in Worker,
           \/ StartRecords(p) \/ ListForRecords(p) \/ CompleteRecords(p)
           \/ AdjustEndpoints(p) \/ ReconcileWrite(p)
           \/ PruneLoad(p) \/ PruneGet(p) \/ PruneWrite(p) \/ PruneFails(p)
    PROVE  PlanStep(q)
<1>1. req \in [Worker -> Request]
  BY DEF TypeInv, TypeOK
<1>2. CASE q # p
  <2>1. req'[q] = req[q]
    BY <1>1, <1>2 DEF StartRecords, ListForRecords, CompleteRecords, AdjustEndpoints, ReconcileWrite,
                      Finish, PruneLoad, PruneGet, PruneWrite, PruneFails, EndPrune
  <2> QED
    BY <1>1, <2>1 DEF PlanStep, Request
<1>3. CASE q = p
  <2>1. req'[p].pc \notin Applying \cup {"stage"}
    <3>1. CASE StartRecords(p) \/ CompleteRecords(p)
      BY <1>1, <3>1 DEF StartRecords, CompleteRecords, Request, Applying
    <3>2. CASE ListForRecords(p)
      BY <1>1, <3>2 DEF ListForRecords, Request, Applying
    <3>3. CASE AdjustEndpoints(p)
      BY <1>1, <3>3 DEF AdjustEndpoints, AfterReconcile, Finish, NoRequest, Request, Applying
    <3>4. CASE ReconcileWrite(p)
      BY <1>1, <3>4 DEF ReconcileWrite, AfterReconcile, Finish, NoRequest, Request, Applying
    <3>5. CASE PruneLoad(p) \/ PruneGet(p)
      BY <1>1, <3>5 DEF PruneLoad, PruneGet, Request, Applying
    <3>6. CASE PruneWrite(p) \/ PruneFails(p)
      BY <1>1, <3>6 DEF PruneWrite, PruneFails, EndPrune, Request, Applying
    <3> QED
      BY <3>1, <3>2, <3>3, <3>4, <3>5, <3>6
  <2> QED
    BY <1>3, <2>1 DEF PlanStep
<1> QED
  BY <1>2, <1>3

LEMMA ApplyPlans ==
    ASSUME TypeInv, NEW p \in Worker, NEW q \in Worker,
           \/ Plan(p) \/ ListOwned(p) \/ ListForAdoption(p) \/ ApplyCoreDNS(p) \/ StageWrite(p)
           \/ \E h \in Host: ListAccount(p, h) \/ ListAccountFails(p, h)
           \/ \E h \in Host: CreateRefused(p, h)
           \/ \E h \in Host: /\ Deleting(p, h) \/ Updating(p, h) \/ Creating(p, h)
                             /\ Deleted(p, h) \/ Updated(p, h) \/ Created(p, h)
           \/ Finish(p) \/ Abandon(p)
    PROVE  PlanStep(q)
<1>1. req \in [Worker -> Request] /\ req[p] \in Request /\ req[q] \in Request
  BY DEF TypeInv, TypeOK
<1>2. CASE q # p
  <2>1. req'[q] = req[q]
    BY <1>1, <1>2 DEF Plan, ListOwned, ListForAdoption, ApplyCoreDNS, StageWrite, ListAccount,
                      ListAccountFails, Classified, CreateRefused, Deleted, Updated, Created, Finish, Abandon
  <2> QED
    BY <1>1, <2>1 DEF PlanStep, Request
<1>3. CASE q = p
  <2>1. CASE Plan(p)
    <3>1. CASE Finish(p)
      BY <1>1, <1>3, <3>1 DEF Finish, NoRequest, PlanStep, Applying
    <3>2. CASE ~Finish(p)
      <4> DEFINE i       == InstanceOf[p]
                 current == {h \in domainFilter[i]: req[p].index[h] # NoRoute}
                 cre     == Adjusted(p) \ current
                 upd     == {h \in Adjusted(p) \cap current:
                                req[p].index[h].tunnel # resolve[i][h]}
                 del     == IF i \in PolicySync THEN current \ Adjusted(p) ELSE {}
                 next    == IF NeedsIndex(del, upd) THEN "index"
                            ELSE IF NeedsAdoption(i, cre) THEN "adoption" ELSE "coredns"
                 r       == [req[p] EXCEPT !.pc = next, !.index = NoRoutes, !.deletes = del,
                                           !.updates = upd, !.creates = cre]
      <4>1. r.pc \in {"index", "adoption", "coredns"}
        <5>1. next \in {"index", "adoption", "coredns"}
          OBVIOUS
        <5> HIDE DEF cre, upd, del, next
        <5> QED
          BY <1>1, <5>1 DEF Request
      <4>2. req' = [req EXCEPT ![p] = r]
        BY <2>1, <3>2 DEF Plan
      <4> HIDE DEF r
      <4> QED
        BY <1>1, <1>3, <4>1, <4>2 DEF PlanStep, Applying
    <3> QED
      BY <3>1, <3>2
  <2>2. CASE ListOwned(p)
    <3> DEFINE ix == OwnedListing(p)
               at == AfterIndex(p)
    <3>1. at \in {"adoption", "coredns"}
      BY DEF AfterIndex
    <3>2. \/ req' = [req EXCEPT ![p].index = ix, ![p].pos = 1, ![p].pc = at]
          \/ req' = [req EXCEPT ![p].index = ix, ![p].pos = @ + 1]
      BY <2>2 DEF ListOwned
    <3>3. req[p].pc = "index"
      BY <2>2 DEF ListOwned
    <3> HIDE DEF ix, at
    <3>4. req'[p].pc \in {"index", "adoption", "coredns"}
      BY <1>1, <3>1, <3>2, <3>3 DEF Request
    <3> QED
      BY <1>3, <3>4 DEF PlanStep, Applying
  <2>3. CASE ListForAdoption(p)
    <3>1. req'[p].pc \in {"adoption", "coredns"}
      BY <1>1, <2>3 DEF ListForAdoption, Request
    <3> QED
      BY <1>3, <3>1 DEF PlanStep, Applying
  <2>4. CASE ApplyCoreDNS(p)
    BY <1>3, <2>4 DEF PlanStep
  <2>5. CASE StageWrite(p)
    <3>1. req'[p].pc = "mutate"
      BY <1>1, <2>5 DEF StageWrite, Request
    <3> QED
      BY <1>3, <2>5, <3>1 DEF PlanStep, Applying
  <2>6. ASSUME NEW h \in Host, NEW list, Classified(p, h, list), req[p].pc = "classify"
        PROVE  PlanStep(p)
    <3> DEFINE r == [req[p] EXCEPT !.pc = "mutate", !.conflict = {}, !.listed = TRUE,
                                   !.holders = list, !.creates = @ \ {h}]
    <3>1. r.pc = "mutate" /\ r.creates = req[p].creates \ {h} /\ r.skipped = req[p].skipped
      BY <1>1 DEF Request
    <3>2. req' = [req EXCEPT ![p] = r]
      BY <2>6 DEF Classified
    <3> HIDE DEF r
    <3> QED
      BY <1>1, <2>6, <3>1, <3>2 DEF PlanStep, Applying
  <2>7. ASSUME NEW h \in Host, Deleting(p, h) \/ Updating(p, h) \/ Creating(p, h),
               Deleted(p, h) \/ Updated(p, h) \/ Created(p, h)
        PROVE  PlanStep(p)
    <3>1. req[p].pc = "mutate"
      BY <2>7 DEF Deleting, Updating, Creating
    <3>2. /\ req'[p].pc = "mutate" /\ req'[p].skipped = req[p].skipped
          /\ req'[p].creates \subseteq req[p].creates
      BY <1>1, <2>7, <3>1 DEF Deleted, Updated, Created, Request
    <3> QED
      BY <3>1, <3>2 DEF PlanStep, Applying
  <2>8. ASSUME NEW h \in Host, CreateRefused(p, h) PROVE PlanStep(p)
    <3>1. Creating(p, h) /\ req[p].pc = "mutate"
      BY <2>8 DEF CreateRefused, CreateCalled, Creating
    <3>2. CASE Created(p, h)
      BY <2>7, <3>1, <3>2
    <3>3. CASE req' = [req EXCEPT ![p].pc = "classify", ![p].conflict = {h}]
      BY <1>1, <3>1, <3>3 DEF PlanStep, Applying, Request
    <3> QED
      BY <2>8, <3>2, <3>3 DEF CreateRefused
  <2>9. CASE Finish(p)
    BY <1>1, <1>3, <2>9 DEF Finish, NoRequest, PlanStep, Applying
  <2>10. CASE Abandon(p)
    <3>1. req'[p] = [req[p] EXCEPT !.live = FALSE]
      BY <1>1, <2>10 DEF Abandon
    <3>2. /\ req'[p].pc = req[p].pc /\ req'[p].creates = req[p].creates
          /\ req'[p].skipped = req[p].skipped /\ req'[p].live = FALSE
      BY <1>1, <3>1 DEF Request
    <3> QED
      BY <1>3, <3>1, <3>2 DEF PlanStep
  <2>11. ASSUME NEW h \in Host, ListAccount(p, h) \/ ListAccountFails(p, h) PROVE PlanStep(p)
    BY <2>6, <2>11 DEF ListAccount, ListAccountFails
  <2> QED
    BY <1>3, <2>1, <2>2, <2>3, <2>4, <2>5, <2>7, <2>8, <2>9, <2>10, <2>11
<1> QED
  BY <1>2, <1>3

LEMMA PlanNext == ASSUME TypeInv, [Next]_vars, NEW q \in Worker PROVE PlanStep(q)
<1>0. req \in [Worker -> Request] /\ req[q] \in Request
  BY DEF TypeInv, TypeOK
<1>1. ASSUME NEW p \in Worker, StartRecords(p) \/ Progress(p) \/ Failure(p)
      PROVE  PlanStep(q)
  <2>1. ASSUME NEW h \in Host,
               \/ DeleteRoute(p, h) \/ UpdateRoute(p, h) \/ AdoptRoute(p, h) \/ SkipCreate(p, h)
               \/ CreateRoute(p, h) \/ CallFails(p, h) \/ CreateFails(p, h)
        PROVE  /\ Deleting(p, h) \/ Updating(p, h) \/ Creating(p, h)
               /\ Deleted(p, h) \/ Updated(p, h) \/ Created(p, h)
    BY <2>1 DEF DeleteRoute, UpdateRoute, AdoptRoute, SkipCreate, CreateRoute, CallFails,
                CreateFails, CreateCalled, Adopting
  <2>2. Unattended(p) \/ EndApply(p) \/ ListFails(p) \/ AdjustFails(p) \/ FragmentFails(p)
        => Finish(p)
    BY DEF Unattended, EndApply, ListFails, AdjustFails, FragmentFails
  <2> QED
    BY <1>1, <2>1, <2>2, RecordsPlans, ApplyPlans DEF Progress, Mutate, Failure
<1>2. CASE req'[q] = req[q]
  BY <1>0, <1>2 DEF PlanStep, Request
<1>3. ASSUME NEW i \in Running, Crash(i) PROVE PlanStep(q)
  <2>1. req'[q] = NoRequest \/ req'[q] = req[q]
    BY <1>3 DEF Crash
  <2> QED
    BY <1>2, <2>1 DEF NoRequest, PlanStep, Applying
<1>4. CASE Environment \/ UNCHANGED vars
  BY <1>2, <1>4 DEF Environment, ChangeService, OtherCreates, OtherDeletes, vars
<1> QED
  BY <1>1, <1>3, <1>4 DEF Next

-----------------------------------------------------------------------------
(* A fragment is written by its own instance's requests, and never by one
   that goes on to apply its plan, but for the write that stages it. *)
LEMMA FragmentNext ==
    ASSUME TypeInv, [Next]_vars, NEW i \in Instance
    PROVE  \/ fragment'[i] = fragment[i]
           \/ \E p \in Worker: /\ InstanceOf[p] = i
                               /\ StageWrite(p) \/ req'[p].pc \notin Applying
<1>0. req \in [Worker -> Request] /\ fragment \in [Instance -> Rewrites]
  BY DEF TypeInv, TypeOK
<1>1. ASSUME NEW p \in Worker, WriteFragment(p)
      PROVE  fragment'[i] = fragment[i] \/ InstanceOf[p] = i
  BY <1>0, <1>1 DEF WriteFragment
<1>2. ASSUME NEW p \in Worker, StartRecords(p) \/ Progress(p) \/ Failure(p)
      PROVE  \/ fragment' = fragment
             \/ WriteFragment(p) /\ (StageWrite(p) \/ req'[p].pc \notin Applying)
  <2>1. CASE ReconcileWrite(p)
    BY <1>0, <2>1 DEF ReconcileWrite, AfterReconcile, Finish, NoRequest, Request, Applying
  <2>2. CASE PruneWrite(p) \/ PruneFails(p)
    BY <1>0, <2>2 DEF PruneWrite, PruneFails, EndPrune, Request, Applying
  <2>3. CASE FragmentFails(p)
    BY <1>0, <2>3 DEF FragmentFails, Finish, NoRequest, Applying
  <2>4. CASE StageWrite(p)
    BY <2>4 DEF StageWrite
  <2>5. CASE StartRecords(p) \/ Mutate(p)
    BY <2>5 DEF StartRecords, Mutate, DeleteRoute, UpdateRoute, AdoptRoute, SkipCreate, CreateRoute,
                CreateRefused, ListAccount
  <2>6. CASE /\ Progress(p)
             /\ ~ReconcileWrite(p) /\ ~PruneWrite(p) /\ ~StageWrite(p) /\ ~Mutate(p)
    BY <2>6 DEF Progress, ListForRecords, CompleteRecords, AdjustEndpoints, PruneLoad, PruneGet, Plan,
                Unattended, ListOwned, ListForAdoption, ApplyCoreDNS, EndApply
  <2>7. CASE Failure(p) /\ ~PruneFails(p) /\ ~FragmentFails(p)
    BY <2>7 DEF Failure, ListFails, AdjustFails, Abandon, CallFails, CreateFails, ListAccountFails
  <2> QED
    BY <1>2, <2>1, <2>2, <2>3, <2>4, <2>5, <2>6, <2>7
<1>3. CASE (\E j \in Running: Crash(j)) \/ Environment \/ UNCHANGED vars
  BY <1>3 DEF Crash, Environment, ChangeService, OtherCreates, OtherDeletes, vars
<1> QED
  BY <1>1, <1>2, <1>3 DEF Next

LEMMA StagedNext ==
    ASSUME TypeInv, [Next]_vars, NEW p \in Worker, InstanceOf[p] \in CoreDNS, Staged(p)
    PROVE  Staged(p)'
<1> SUFFICES ASSUME req'[p].pc = "stage", NEW h \in ToCreate(p)'
             PROVE  h \in req'[p].adds /\ h \notin Wildcard
  BY DEF Staged, Wildcard
<1>0. req \in [Worker -> Request] /\ req[p] \in Request
  BY DEF TypeInv, TypeOK
<1>1. CASE ApplyCoreDNS(p)
  <2> DEFINE i       == InstanceOf[p]
             adds    == Answerable(p, req[p].creates)
             skip    == IF i \in CoreDNS THEN req[p].creates \ adds ELSE {}
             now     == fragment[i]
             removes == req[p].deletes
  <2>1. \/ req' = [req EXCEPT ![p].pc = "stage", ![p].skipped = skip, ![p].adds = adds,
                              ![p].removes = removes, ![p].snapshot = now]
        \/ req' = [req EXCEPT ![p].pc = "mutate", ![p].skipped = skip]
    BY <1>1 DEF ApplyCoreDNS
  <2>2. skip = req[p].creates \ adds /\ adds \cap Wildcard = {}
    BY DEF Answerable
  <2> HIDE DEF adds, skip, now, removes
  <2>3. req'[p].creates = req[p].creates /\ req'[p].skipped = skip /\ req'[p].adds = adds
    BY <1>0, <2>1 DEF Request
  <2> QED
    BY <2>2, <2>3 DEF ToCreate
<1>2. CASE req[p].pc = "stage" /\ req'[p] = [req[p] EXCEPT !.live = req'[p].live]
  <2>1. /\ req'[p].creates = req[p].creates /\ req'[p].skipped = req[p].skipped
        /\ req'[p].adds = req[p].adds
    <3> DEFINE live == req'[p].live
    <3>1. req'[p] = [req[p] EXCEPT !.live = live]
      BY <1>2
    <3> HIDE DEF live
    <3> QED
      BY <1>0, <3>1 DEF Request
  <2> QED
    BY <1>2, <2>1 DEF Staged, ToCreate
<1> QED
  BY <1>1, <1>2, PlanNext DEF PlanStep

LEMMA AnsweredNext ==
    ASSUME OneRequest, TypeInv, [Next]_vars, NEW p \in Worker, InstanceOf[p] \in CoreDNS \ DryRun,
           Staged(p), Answered(p)
    PROVE  Answered(p)'
<1> DEFINE i == InstanceOf[p]
<1> SUFFICES ASSUME req'[p].pc \in Applying, NEW h \in ToCreate(p)'
             PROVE  h \notin Wildcard /\ fragment'[i][h] # NoRewrite
  BY DEF Answered, Applying, Wildcard
<1>0. /\ req \in [Worker -> Request] /\ req[p] \in Request
      /\ fragment \in [Instance -> Rewrites] /\ i \in Instance /\ Sound(p, req[p])
  BY WorkerType DEF TypeInv, TypeOK
<1>1. CASE ApplyCoreDNS(p)
  <2> DEFINE adds    == Answerable(p, req[p].creates)
             skip    == IF i \in CoreDNS THEN req[p].creates \ adds ELSE {}
             after   == Apply(fragment[i], req[p].wanted, adds, req[p].deletes)
             now     == fragment[i]
             removes == req[p].deletes
  <2>1. \/ req' = [req EXCEPT ![p].pc = "stage", ![p].skipped = skip, ![p].adds = adds,
                              ![p].removes = removes, ![p].snapshot = now]
        \/ after = fragment[i] /\ req' = [req EXCEPT ![p].pc = "mutate", ![p].skipped = skip]
    BY <1>1 DEF ApplyCoreDNS
  <2>2. /\ skip = req[p].creates \ adds
        /\ \A g \in adds: g \in Host /\ g \notin Wildcard /\ after[g] \in Resource
    BY <1>0 DEF Answerable, Apply, Request
  <2>3. fragment' = fragment
    BY <1>1 DEF ApplyCoreDNS
  <2> HIDE DEF adds, skip, now, removes, after
  <2>4. after = fragment[i] /\ req'[p].creates = req[p].creates /\ req'[p].skipped = skip
    BY <1>0, <2>1 DEF Request, Applying
  <2> QED
    BY <2>2, <2>3, <2>4, NoneAssumption DEF ToCreate
<1>2. CASE StageWrite(p)
  <2>1. req'[p].creates = req[p].creates /\ req'[p].skipped = req[p].skipped
    BY <1>0, <1>2 DEF StageWrite, Request
  <2>2. h \in req[p].adds /\ h \notin Wildcard
    BY <1>2, <2>1 DEF StageWrite, Staged, ToCreate
  <2>3. h \in Host /\ req[p].wanted[h] \in Resource
    BY <1>0, <2>2 DEF Sound, Request
  <2>4. fragment'[i] = Apply(req[p].snapshot, req[p].wanted, req[p].adds, req[p].removes)
    BY <1>0, <1>2 DEF StageWrite, WriteFragment
  <2>5. fragment'[i][h] = req[p].wanted[h]
    BY <2>2, <2>3, <2>4 DEF Apply
  <2> QED
    BY <2>2, <2>3, <2>5, NoneAssumption
<1>3. CASE /\ ~StageWrite(p)
           /\ req[p].pc \in Applying
           /\ req'[p].creates \subseteq req[p].creates
           /\ req'[p].skipped = req[p].skipped
  <2>1. fragment'[i] = fragment[i]
    BY <1>0, <1>3, FragmentNext DEF OneRequest
  <2> QED
    BY <1>3, <2>1 DEF Answered, ToCreate
<1> QED
  BY <1>1, <1>2, <1>3, PlanNext DEF PlanStep

-----------------------------------------------------------------------------
(* A route keeps the tag of an instance as long as no index of that instance
   says that it has none. *)
LEMMA TagStays ==
    ASSUME SoleTaker, OneRequest, TypeInv, OwnInv, [Next]_vars, NEW p \in Worker, NEW h \in Host,
           req[p].index[h] # NoRoute, req[p].index[h].tag = InstanceOf[p],
           HasId(h, req[p].index[h].id), routes[h].tag = InstanceOf[p], Routed(h)',
           routes'[h].id = routes[h].id
    PROVE  routes'[h].tag = InstanceOf[p]
<1> DEFINE i == InstanceOf[p]
<1>0. /\ routes \in [Host -> Route \cup {NoRoute}] /\ routes[h] \in Route
      /\ i \in Instance /\ \A q \in Worker: InstanceOf[q] \in Instance
  BY WorkerType DEF TypeInv, TypeOK, RouteIndex, HasId, Routed
<1>1. CASE UNCHANGED account
  BY <1>1 DEF account
<1>2. ASSUME NEW id, DeleteHostnameRoute(id) PROVE routes'[h].tag = i
  BY <1>2 DEF DeleteHostnameRoute, Routed
<1>3. ASSUME NEW g \in Host, NEW t, NEW tag, CreateHostnameRoute(g, t, tag)
      PROVE  routes'[h].tag = i
  BY <1>0, <1>3 DEF CreateHostnameRoute, HasId, Routed
<1>4. ASSUME NEW q \in Worker, NEW g \in Host, UpdateRoute(q, g), UpdateCalled(q, g)
      PROVE  routes'[h].tag = i
  <2> DEFINE r == req[q].index[g]
  <2>1. CASE HasId(h, r.id)
    <3>1. h = g /\ Claimable(InstanceOf[q], routes[h].tag)
      BY <1>4, <2>1, IndexedRoute DEF UpdateCalled
    <3>2. InstanceOf[q] = i
      BY <1>0, <3>1, UntaggedAssumption DEF Claimable, Instance
    <3>3. q = p
      BY <3>2 DEF OneRequest
    <3>4. routes'[h] = [id |-> r.id, tunnel |-> resolve[InstanceOf[q]][g], tag |-> r.tag]
      BY <1>4, <2>1 DEF UpdateRoute, PatchHostnameRoute
    <3> QED
      BY <3>1, <3>3, <3>4
  <2>2. CASE ~HasId(h, r.id)
    BY <1>4, <2>2 DEF UpdateRoute, PatchHostnameRoute
  <2> QED
    BY <2>1, <2>2
<1>5. ASSUME NEW q \in Worker, NEW g \in Host, AdoptRoute(q, g), AdoptCalled(q, g)
      PROVE  routes'[h].tag = i
  <2> DEFINE r == req[q].existing[g]
  <2>1. CASE HasId(h, r.id)
    <3>1. Claimable(InstanceOf[q], routes[h].tag)
      BY <1>5, <2>1, IndexedRoute DEF AdoptRoute, Adopting, AdoptCalled
    <3>2. InstanceOf[q] = i
      BY <1>0, <3>1, UntaggedAssumption DEF Claimable, Instance
    <3>3. routes'[h] = [routes[h] EXCEPT !.tag = InstanceOf[q]]
      BY <1>5, <2>1 DEF AdoptRoute, PatchHostnameRouteComment
    <3> QED
      BY <1>0, <3>2, <3>3 DEF Route
  <2>2. CASE ~HasId(h, r.id)
    BY <1>5, <2>2 DEF AdoptRoute, PatchHostnameRouteComment
  <2> QED
    BY <2>1, <2>2
<1>6. ASSUME NEW q \in Worker, NEW g \in Host,
             \/ DeleteRoute(q, g) \/ UpdateRoute(q, g) \/ AdoptRoute(q, g)
             \/ CreateRoute(q, g) \/ CreateFails(q, g)
      PROVE  routes'[h].tag = i
  <2>1. CASE DeleteRoute(q, g)
    BY <1>1, <1>2, <2>1 DEF DeleteRoute
  <2>2. CASE UpdateRoute(q, g)
    BY <1>1, <1>4, <2>2 DEF UpdateRoute
  <2>3. CASE AdoptRoute(q, g)
    BY <1>1, <1>5, <2>3 DEF AdoptRoute
  <2>4. CASE CreateRoute(q, g) \/ CreateFails(q, g)
    BY <1>1, <1>3, <2>4, CallType DEF CreateRoute, CreateFails
  <2> QED
    BY <1>6, <2>1, <2>2, <2>3, <2>4
<1>7. ASSUME NEW g \in Host, OtherDeletes(g) \/ \E t \in Tunnel: OtherCreates(g, t)
      PROVE  routes'[h].tag = i
  BY <1>2, <1>3, <1>7 DEF OtherDeletes, OtherCreates, DeleteUntagged, CreateUntagged
<1> QED
  BY <1>1, <1>6, <1>7, OtherSteps

LEMMA TagKeptNext ==
    ASSUME SoleTaker, OneRequest, TypeInv, OwnInv, [Next]_vars, NEW p \in Worker, TagKept(p)
    PROVE  TagKept(p)'
<1> DEFINE i == InstanceOf[p]
<1> SUFFICES ASSUME NEW h \in Host, req'[p].index[h] # NoRoute, req'[p].index[h].tag = i,
                    Routed(h)', routes'[h].id = req'[p].index[h].id
             PROVE  routes'[h].tag = i
  BY DEF TagKept, HasId, Routed
<1>1. IndexStep(p) /\ AccountStep
  BY IndexNext, AccountNext
<1>2. CASE UNCHANGED account /\ req'[p].index = OwnedListing(p)
  <2>1. routes' = routes /\ Routed(h)
    BY <1>2 DEF account, Routed
  <2>2. req'[p].index[h] \in {routes[h], req[p].index[h]}
    BY <1>2 DEF OwnedListing, AddTo
  <2> QED
    BY <2>1, <2>2 DEF TagKept, HasId
<1>3. CASE req'[p].index = req[p].index
  <2>1. req[p].index[h].id \in Nat /\ req[p].index[h].id < nextId
    BY <1>3, CallType DEF OwnInv, IndexHolds
  <2>2. HasId(h, req[p].index[h].id)'
    BY <1>3 DEF HasId, Routed
  <2>3. ASSUME NEW id, id = req[p].index[h].id PROVE HasId(h, id)
    <3>1. HasId(h, id)'
      BY <1>3, <2>3 DEF HasId, Routed
    <3> QED
      BY <1>1, <2>1, <2>3, <3>1, IdKept
  <2>4. HasId(h, req[p].index[h].id)
    BY <2>3
  <2>5. routes[h].tag = i
    BY <1>3, <2>4 DEF TagKept
  <2>6. routes'[h].id = routes[h].id
    BY <1>3, <2>4 DEF HasId
  <2> QED
    BY <1>3, <2>4, <2>5, <2>6, TagStays
<1>4. CASE req'[p].index = NoRoutes
  BY <1>4 DEF NoRoutes
<1> QED
  BY <1>1, <1>2, <1>3, <1>4 DEF IndexStep

LEMMA RewriteInvNext ==
    ASSUME SoleTaker, OneRequest PROVE TypeInv /\ OwnInv /\ RewriteInv /\ [Next]_vars => RewriteInv'
BY StagedNext, AnsweredNext, TagKeptNext DEF RewriteInv

LEMMA RewriteInvInit == Init => RewriteInv
BY DEF Init, RewriteInv, NoRequest, NoRoutes, Staged, Answered, TagKept, Applying

-----------------------------------------------------------------------------
(* h becomes a route of i in this step, with its rewrite in place. *)
Prepared(i, h) ==
    /\ routes'[h] # NoRoute /\ routes'[h].tag = i
    /\ Routed(h) => routes[h].tag # i
    => fragment[i][h] # NoRewrite

LEMMA PreparedNext ==
    ASSUME TypeInv, OwnInv, RewriteInv, [Next]_vars, NEW i \in CoreDNS, NEW h \in Host
    PROVE  Prepared(i, h)
<1>0. /\ i \in Instance /\ i # Untagged
      /\ routes \in [Host -> Route \cup {NoRoute}]
      /\ \A q \in Worker: InstanceOf[q] \in Instance
  BY OptionAssumption, UntaggedAssumption, WorkerType DEF TypeInv, TypeOK, RouteIndex, Instance
<1>1. CASE UNCHANGED account
  BY <1>1 DEF account, Prepared, Routed
<1>2. ASSUME NEW id, DeleteHostnameRoute(id) PROVE Prepared(i, h)
  BY <1>2 DEF DeleteHostnameRoute, Prepared, Routed
<1>3. ASSUME NEW q \in Worker, NEW g \in Host, CreateCalled(q, g),
             CreateHostnameRoute(Stored[g], resolve[InstanceOf[q]][g], InstanceOf[q])
      PROVE  Prepared(i, h)
  <2>1. CASE h = Stored[g] /\ InstanceOf[q] = i
    <3>1. i \notin DryRun /\ req[q].pc \in Applying /\ g \in ToCreate(q)
      BY <1>3, <2>1 DEF CreateCalled, Creating, ToCreate, Applying
    <3>2. g \notin Wildcard /\ fragment[i][g] # NoRewrite
      BY <2>1, <3>1 DEF RewriteInv, Answered
    <3>3. g = h
      BY <2>1, <3>2 DEF Wildcard
    <3> QED
      BY <3>2, <3>3 DEF Prepared
  <2>2. CASE h # Stored[g]
    BY <1>0, <1>3, <2>2 DEF CreateHostnameRoute, Prepared, Routed
  <2>3. CASE h = Stored[g] /\ InstanceOf[q] # i
    BY <1>0, <1>3, <2>3 DEF CreateHostnameRoute, Prepared, Routed
  <2> QED
    BY <2>1, <2>2, <2>3
<1>4. ASSUME NEW q \in Worker, NEW g \in Host, UpdateRoute(q, g), UpdateCalled(q, g)
      PROVE  Prepared(i, h)
  <2> DEFINE r == req[q].index[g]
  <2>1. CASE HasId(h, r.id) /\ r.tag = i
    <3>1. h = g /\ Claimable(InstanceOf[q], r.tag)
      BY <1>4, <2>1, IndexedRoute DEF UpdateCalled
    <3>2. InstanceOf[q] = i
      BY <1>0, <2>1, <3>1 DEF Claimable
    <3>3. routes[h].tag = i
      BY <1>4, <2>1, <3>1, <3>2 DEF RewriteInv, TagKept, UpdateCalled
    <3> QED
      BY <2>1, <3>3 DEF Prepared, HasId
  <2>2. CASE HasId(h, r.id) /\ r.tag # i
    BY <1>4, <2>2 DEF UpdateRoute, PatchHostnameRoute, Prepared
  <2>3. CASE ~HasId(h, r.id)
    BY <1>4, <2>3 DEF UpdateRoute, PatchHostnameRoute, Prepared, Routed
  <2> QED
    BY <2>1, <2>2, <2>3
<1>5. ASSUME NEW q \in Worker, NEW g \in Host, AdoptRoute(q, g), AdoptCalled(q, g)
      PROVE  Prepared(i, h)
  <2> DEFINE r == req[q].existing[g]
  <2>1. CASE HasId(h, r.id) /\ InstanceOf[q] = i
    <3>1. h = g
      BY <1>5, <2>1, IndexedRoute DEF AdoptRoute, Adopting
    <3>2. i \notin DryRun /\ req[q].pc \in Applying /\ g \in ToCreate(q)
      BY <1>5, <2>1 DEF AdoptRoute, Adopting, AdoptCalled, Creating, ToCreate, Applying
    <3>3. fragment[i][g] # NoRewrite
      BY <2>1, <3>2 DEF RewriteInv, Answered
    <3> QED
      BY <3>1, <3>3 DEF Prepared
  <2>2. CASE HasId(h, r.id) /\ InstanceOf[q] # i
    <3>1. routes[h] \in Route
      BY <1>0, <2>2 DEF HasId, Routed
    <3>2. routes'[h] = [routes[h] EXCEPT !.tag = InstanceOf[q]]
      BY <1>5, <2>2 DEF AdoptRoute, PatchHostnameRouteComment
    <3>3. routes'[h].tag = InstanceOf[q]
      BY <3>1, <3>2 DEF Route
    <3> QED
      BY <2>2, <3>3 DEF Prepared
  <2>3. CASE ~HasId(h, r.id)
    BY <1>5, <2>3 DEF AdoptRoute, PatchHostnameRouteComment, Prepared, Routed
  <2> QED
    BY <2>1, <2>2, <2>3
<1>6. ASSUME NEW q \in Worker, NEW g \in Host,
             \/ DeleteRoute(q, g) \/ UpdateRoute(q, g) \/ AdoptRoute(q, g)
             \/ CreateRoute(q, g) \/ CreateFails(q, g)
      PROVE  Prepared(i, h)
  <2>1. CASE DeleteRoute(q, g)
    BY <1>1, <1>2, <2>1 DEF DeleteRoute
  <2>2. CASE UpdateRoute(q, g)
    BY <1>1, <1>4, <2>2 DEF UpdateRoute
  <2>3. CASE AdoptRoute(q, g)
    BY <1>1, <1>5, <2>3 DEF AdoptRoute
  <2>4. CASE CreateRoute(q, g) \/ CreateFails(q, g)
    BY <1>1, <1>3, <2>4 DEF CreateRoute, CreateFails
  <2> QED
    BY <1>6, <2>1, <2>2, <2>3, <2>4
<1>7. ASSUME NEW g \in Host, OtherDeletes(g) PROVE Prepared(i, h)
  BY <1>2, <1>7 DEF OtherDeletes, DeleteUntagged
<1>8. ASSUME NEW g \in Host, NEW t \in Tunnel, OtherCreates(g, t) PROVE Prepared(i, h)
  <2>1. CASE h = g
    BY <1>0, <1>8, <2>1 DEF OtherCreates, CreateUntagged, CreateHostnameRoute, Prepared, Routed
  <2>2. CASE h # g
    BY <1>0, <1>8, <2>2 DEF OtherCreates, CreateUntagged, CreateHostnameRoute, Prepared, Routed
  <2> QED
    BY <2>1, <2>2
<1> QED
  BY <1>1, <1>6, <1>7, <1>8, OtherSteps

(* With one request at a time and one taker of untagged routes, no instance
   with CoreDNS on ever gives a hostname a route, by a create, an adoption or
   a retarget, whose rewrite is not in its ConfigMap: for any options, any
   number of instances and whatever fails. *)
THEOREM RewritesComeFirst == OneRequest /\ SoleTaker => (Spec => RewriteBeforeRoute)
<1> SUFFICES ASSUME OneRequest, SoleTaker PROVE Spec => RewriteBeforeRoute
  OBVIOUS
<1>1. TypeInv /\ OwnInv /\ [Next]_vars => OwnInv'
  BY OwnInvNext
<1>2. TypeInv /\ OwnInv /\ RewriteInv /\ [Next]_vars => RewriteInv'
  BY RewriteInvNext
<1>3. TypeInv /\ OwnInv /\ RewriteInv /\ [Next]_vars => [\A i \in CoreDNS, h \in Host: Prepared(i, h)]_vars
  BY PreparedNext
<1>4. [\A i \in CoreDNS, h \in Host: Prepared(i, h)]_vars <=>
        [\A i \in CoreDNS, h \in Host:
            /\ routes'[h] # NoRoute /\ routes'[h].tag = i
            /\ Routed(h) => routes[h].tag # i
            => fragment[i][h] # NoRewrite]_vars
  BY DEF Prepared
<1> QED
  BY <1>1, <1>2, <1>3, <1>4, InitType, NextType, OwnInvInit, RewriteInvInit, PTL
  DEF Spec, RewriteBeforeRoute

-----------------------------------------------------------------------------
(* The rewrites that go.  A prune acts on what one complete Records saw, some
   calls earlier: no route of the instance may come to be on a tunnel it lists
   in between. *)
Strict == Running \subseteq OwnershipStrict

(* The tunnels counted so far have shown every route of the instance. *)
Counted(p) ==
    req[p].pc \in {"idle", "records"} =>
        \A h \in Host, k \in 1..(req[p].pos - 1):
            Holds(InstanceOf[p], h) /\ routes[h].tunnel = tunnels[InstanceOf[p]][k]
            => req[p].index[h] # NoRoute

(* A complete Records still covers every route of the instance. *)
Known(p) ==
    req[p].pc \in {"adjust", "reconcile", "prune"} /\ mem[InstanceOf[p]].recordsOK =>
        \A h \in Host: Holds(InstanceOf[p], h) => h \in mem[InstanceOf[p]].ownedHosts

Unneeded(p, h) ==
    /\ h \notin Adjusted(p)
    /\ ~Holds(InstanceOf[p], h)
    /\ h \in domainFilter[InstanceOf[p]]
    /\ resolve[InstanceOf[p]][h] # NoTunnel

(* What a request removes: what nothing needs, or what its plan deletes. *)
Removed(p) ==
    CASE req[p].pc \in {"pruneGet", "pruneWrite"} -> \A h \in req[p].removes: Unneeded(p, h)
      [] req[p].pc = "stage"                      -> req[p].removes = req[p].deletes
      [] OTHER                                    -> req[p].removes = {}

(* A write starts from the fragment as it is. *)
Fresh(p) ==
    req[p].pc \in {"reconcile", "pruneWrite", "stage"} =>
        req[p].snapshot = fragment[InstanceOf[p]]

PruneReady(p) == Counted(p) /\ Known(p) /\ Removed(p) /\ Fresh(p)

PruneInv == \A p \in Worker: PruneReady(p)

(* What i holds after the step it held before, on the same tunnel. *)
NothingGained(i) ==
    \A h \in Host: Holds(i, h)' => Holds(i, h) /\ routes'[h].tunnel = routes[h].tunnel

(* A list for Records or for a plan keeps what its instance can claim. *)
ListedOwn ==
    \A p \in Worker, h \in Host:
        req[p].index[h] # NoRoute => Claimable(InstanceOf[p], req[p].index[h].tag)

LEMMA ListedOwnNext == TypeInv /\ ListedOwn /\ [Next]_vars => ListedOwn'
<1> SUFFICES ASSUME TypeInv, ListedOwn, [Next]_vars, NEW p \in Worker, NEW h \in Host,
                    req'[p].index[h] # NoRoute
             PROVE  Claimable(InstanceOf[p], req'[p].index[h].tag)
  BY DEF ListedOwn
<1>1. IndexStep(p)
  BY IndexNext
<1>2. CASE req'[p].index \in {req[p].index, NoRoutes}
  BY <1>2 DEF ListedOwn, NoRoutes
<1>3. CASE req'[p].index = OwnedListing(p)
  <2> DEFINE i == InstanceOf[p]
  <2>1. CASE OwnedListing(p)[h] # req[p].index[h]
    <3>1. manageable(i, routes[h]) /\ OwnedListing(p)[h] = routes[h]
      BY <2>1 DEF OwnedListing, AddTo
    <3>2. i \in Running
      BY WorkerType DEF Running
    <3> QED
      BY <1>3, <3>1, <3>2 DEF manageable, Claimable, TakesUntagged
  <2>2. CASE OwnedListing(p)[h] = req[p].index[h]
    BY <1>3, <2>2 DEF ListedOwn
  <2> QED
    BY <2>1, <2>2
<1> QED
  BY <1>1, <1>2, <1>3 DEF IndexStep

LEMMA ListedOwnInit == Init => ListedOwn
BY DEF Init, NoRequest, NoRoutes, ListedOwn

LEMMA GainStep ==
    ASSUME TypeInv, ListedOwn, [Next]_vars, NEW i \in Running, i \in OwnershipStrict,
           \A q \in Worker: InstanceOf[q] = i => req[q].pc # "mutate"
    PROVE  NothingGained(i)
<1> SUFFICES ASSUME NEW h \in Host, Routed(h)', routes'[h].tag = i
             PROVE  Routed(h) /\ routes[h].tag = i /\ routes'[h].tunnel = routes[h].tunnel
  BY UntaggedAssumption DEF NothingGained, Holds, manageable, Lists, Instance
<1>0. /\ i \in Instance /\ i # Untagged
      /\ routes \in [Host -> Route \cup {NoRoute}]
      /\ \A q \in Worker: InstanceOf[q] \in Instance
  BY UntaggedAssumption, WorkerType DEF TypeInv, TypeOK, RouteIndex, Running, Instance
<1> DEFINE Kept == Routed(h) /\ routes[h].tag = i /\ routes'[h].tunnel = routes[h].tunnel
<1>1. CASE routes'[h] = routes[h]
  BY <1>1 DEF Routed
<1>2. ASSUME NEW id, DeleteHostnameRoute(id) PROVE Kept
  BY <1>1, <1>2 DEF DeleteHostnameRoute, Routed
<1>3. ASSUME NEW g \in Host, NEW t, NEW tag, tag # i, CreateHostnameRoute(g, t, tag) PROVE Kept
  <2>1. CASE h = g
    BY <1>0, <1>3, <2>1 DEF CreateHostnameRoute, Routed
  <2>2. CASE h # g
    BY <1>0, <1>1, <1>3, <2>2 DEF CreateHostnameRoute, Routed
  <2> QED
    BY <2>1, <2>2
<1>4. ASSUME NEW q \in Worker, NEW g \in Host, UpdateRoute(q, g), UpdateCalled(q, g) PROVE Kept
  <2> DEFINE r == req[q].index[g]
  <2>1. CASE HasId(h, r.id)
    <3>1. Claimable(InstanceOf[q], r.tag)
      BY <1>4 DEF ListedOwn, UpdateCalled
    <3>2. routes'[h].tag = r.tag
      BY <1>4, <2>1 DEF UpdateRoute, PatchHostnameRoute
    <3>3. InstanceOf[q] = i
      BY <1>0, <3>1, <3>2 DEF Claimable
    <3> QED
      BY <1>4, <3>3 DEF UpdateRoute, Updating
  <2>2. CASE ~HasId(h, r.id)
    BY <1>1, <1>4, <2>2 DEF UpdateRoute, PatchHostnameRoute
  <2> QED
    BY <2>1, <2>2
<1>5. ASSUME NEW q \in Worker, NEW g \in Host, AdoptRoute(q, g), AdoptCalled(q, g) PROVE Kept
  <2> DEFINE r == req[q].existing[g]
  <2>1. InstanceOf[q] # i
    BY <1>5 DEF AdoptRoute, Adopting, Creating
  <2>2. CASE HasId(h, r.id)
    <3>1. routes[h] \in Route
      BY <1>0, <2>2 DEF HasId, Routed
    <3>2. routes'[h] = [routes[h] EXCEPT !.tag = InstanceOf[q]]
      BY <1>5, <2>2 DEF AdoptRoute, PatchHostnameRouteComment
    <3>3. routes'[h].tag = InstanceOf[q]
      BY <3>1, <3>2 DEF Route
    <3> QED
      BY <2>1, <3>3
  <2>3. CASE ~HasId(h, r.id)
    BY <1>1, <1>5, <2>3 DEF AdoptRoute, PatchHostnameRouteComment
  <2> QED
    BY <2>2, <2>3
<1>6. CASE UNCHANGED account
  BY <1>1, <1>6 DEF account
<1>7. ASSUME NEW q \in Worker, NEW g \in Host,
             \/ DeleteRoute(q, g) \/ UpdateRoute(q, g) \/ AdoptRoute(q, g)
             \/ CreateRoute(q, g) \/ CreateFails(q, g)
      PROVE  Kept
  <2>1. CASE DeleteRoute(q, g)
    BY <1>2, <1>6, <2>1 DEF DeleteRoute
  <2>2. CASE UpdateRoute(q, g)
    BY <1>4, <1>6, <2>2 DEF UpdateRoute
  <2>3. CASE AdoptRoute(q, g)
    BY <1>5, <1>6, <2>3 DEF AdoptRoute
  <2>4. CASE CreateRoute(q, g) \/ CreateFails(q, g)
    <3>1. InstanceOf[q] # i
      BY <2>4 DEF CreateRoute, CreateFails, CreateCalled, Creating
    <3> QED
      BY <1>3, <1>6, <2>4, <3>1, CallType DEF CreateRoute, CreateFails
  <2> QED
    BY <1>7, <2>1, <2>2, <2>3, <2>4
<1>8. ASSUME NEW g \in Host, OtherDeletes(g) \/ \E t \in Tunnel: OtherCreates(g, t) PROVE Kept
  BY <1>0, <1>2, <1>3, <1>8 DEF OtherDeletes, OtherCreates, DeleteUntagged, CreateUntagged
<1> QED
  BY <1>6, <1>7, <1>8, OtherSteps

(* A request no step of its own touches, but that ExternalDNS may leave. *)
Untouched(p) ==
    /\ req'[p].pc = req[p].pc /\ req'[p].pos = req[p].pos
    /\ req'[p].index = req[p].index /\ req'[p].wanted = req[p].wanted
    /\ req'[p].deletes = req[p].deletes /\ req'[p].removes = req[p].removes
    /\ req'[p].snapshot = req[p].snapshot

LEMMA UntouchedReady ==
    ASSUME NEW p \in Worker, PruneReady(p), Untouched(p), NothingGained(InstanceOf[p]),
           fragment'[InstanceOf[p]] = fragment[InstanceOf[p]],
           mem'[InstanceOf[p]].recordsOK =>
               /\ mem[InstanceOf[p]].recordsOK
               /\ mem'[InstanceOf[p]].ownedHosts = mem[InstanceOf[p]].ownedHosts
    PROVE  PruneReady(p)'
<1> DEFINE i == InstanceOf[p]
<1>1. \A h \in Host: Holds(i, h)' => Holds(i, h) /\ routes'[h].tunnel = routes[h].tunnel
  BY DEF NothingGained
<1>2. Counted(p)'
  BY <1>1 DEF PruneReady, Counted, Untouched
<1>3. Known(p)'
  BY <1>1 DEF PruneReady, Known, Untouched
<1>4. Removed(p)'
  <2>1. Adjusted(p)' = Adjusted(p)
    BY DEF Adjusted, Untouched
  <2>2. ASSUME NEW h, Unneeded(p, h) PROVE Unneeded(p, h)'
    <3>1. h \in Host
      BY <2>2, OptionAssumption, InstanceAssumption DEF Unneeded, Instance
    <3> QED
      BY <1>1, <2>1, <2>2, <3>1 DEF Unneeded
  <2> QED
    BY <2>2 DEF PruneReady, Removed, Untouched
<1>5. Fresh(p)'
  BY DEF PruneReady, Fresh, Untouched
<1> QED
  BY <1>2, <1>3, <1>4, <1>5 DEF PruneReady

LEMMA QuietReady ==
    ASSUME NEW p \in Worker, req'[p].removes = {},
           req'[p].pc \in {"plan", "index", "adoption", "coredns", "mutate", "classify"}
    PROVE  PruneReady(p)'
BY DEF PruneReady, Counted, Known, Removed, Fresh

LEMMA EndReady == ASSUME TypeInv, NEW p \in Worker, Finish(p) PROVE PruneReady(p)'
<1>1. req'[p] = NoRequest
  BY DEF Finish, TypeInv, TypeOK
<1>2. req'[p].pos = 1 /\ req'[p].removes = {} /\ req'[p].pc = "idle"
  BY <1>1 DEF NoRequest
<1>3. Counted(p)'
  BY <1>2 DEF Counted
<1> QED
  BY <1>2, <1>3 DEF PruneReady, Known, Removed, Fresh

-----------------------------------------------------------------------------
(* Records sees every route of the instance. *)
LEMMA ListedHeld ==
    ASSUME TypeInv, NEW p \in Worker, InstanceOf[p] \in OwnershipStrict, Counted(p),
           req[p].pc = "records", NEW h \in Host, NEW k \in 1..req[p].pos,
           Holds(InstanceOf[p], h), routes[h].tunnel = tunnels[InstanceOf[p]][k]
    PROVE  OwnedListing(p)[h] # NoRoute
<1>1. req[p].pos \in Nat
  BY WorkerType DEF Request
<1>2. CASE k = req[p].pos
  BY <1>2 DEF OwnedListing, AddTo, NextTunnel, OnTunnel, Holds, Routed
<1>3. CASE k # req[p].pos
  <2>1. k \in 1..(req[p].pos - 1)
    BY <1>1, <1>3
  <2> QED
    BY <2>1 DEF Counted, OwnedListing, AddTo, OnTunnel, Routed
<1> QED
  BY <1>2, <1>3

LEMMA RecordsReady ==
    ASSUME TypeInv, NEW p \in Worker, InstanceOf[p] \in OwnershipStrict, PruneReady(p),
           StartRecords(p) \/ ListForRecords(p) \/ CompleteRecords(p)
    PROVE  PruneReady(p)'
<1> DEFINE i  == InstanceOf[p]
           ix == OwnedListing(p)
<1>0. /\ req \in [Worker -> Request] /\ req[p] \in Request /\ mem \in [Instance -> Memory]
      /\ i \in Instance /\ req[p].pos \in Nat
  BY WorkerType DEF TypeInv, TypeOK, Request
<1>1. routes' = routes /\ \A h: Holds(i, h)' = Holds(i, h)
  BY DEF StartRecords, ListForRecords, CompleteRecords, account, Holds, Routed
<1>2. CASE StartRecords(p)
  <2>1. /\ req'[p].pc = "records" /\ req[p].pc = "idle" /\ req'[p].pos = req[p].pos
        /\ req'[p].index = req[p].index /\ req'[p].removes = req[p].removes
    BY <1>0, <1>2 DEF StartRecords, Request
  <2> QED
    BY <1>1, <2>1 DEF PruneReady, Counted, Known, Removed, Fresh
<1>3. CASE ListForRecords(p)
  <2> DEFINE none == EmptySoFar(p)
  <2>1. req' = [req EXCEPT ![p].index = ix, ![p].pos = @ + 1, ![p].emptyTunnels = none]
    BY <1>3 DEF ListForRecords
  <2>2. req[p].pc = "records"
    BY <1>3 DEF ListForRecords
  <2>3. \A h \in Host, k \in 1..req[p].pos:
           Holds(i, h) /\ routes[h].tunnel = tunnels[i][k] => ix[h] # NoRoute
    BY <2>2, ListedHeld DEF PruneReady
  <2> HIDE DEF ix, none
  <2>4. /\ req'[p].pc = "records" /\ req'[p].pos = req[p].pos + 1 /\ req'[p].index = ix
        /\ req'[p].removes = req[p].removes
    BY <1>0, <2>1, <2>2 DEF Request
  <2>5. req'[p].pos - 1 = req[p].pos
    BY <1>0, <2>4
  <2>6. Counted(p)'
    BY <1>1, <2>3, <2>4, <2>5 DEF Counted
  <2> QED
    BY <2>2, <2>4, <2>6 DEF PruneReady, Known, Removed, Fresh
<1>4. CASE CompleteRecords(p)
  <2> DEFINE owned == {h \in Host: ix[h] # NoRoute}
             shown == owned \cap domainFilter[i]
             kept  == retainPending(mem[i].pending, Host \ shown)
             none  == EmptySoFar(p)
             want  == desired[i]
  <2>1. /\ req' = [req EXCEPT ![p].pc = "adjust", ![p].pos = 1, ![p].index = ix,
                              ![p].wanted = want, ![p].emptyTunnels = {}]
        /\ mem' = [mem EXCEPT ![i] =
                      [recordsHosts |-> shown, ownedHosts |-> owned, recordsOK |-> TRUE,
                       pending |-> kept, emptyTunnels |-> none]]
        /\ req[p].pc = "records" /\ LastTunnel(p)
    BY <1>4 DEF CompleteRecords
  <2>2. \A h \in Host: Holds(i, h) => h \in owned
    <3> SUFFICES ASSUME NEW h \in Host, Holds(i, h) PROVE ix[h] # NoRoute
      OBVIOUS
    <3>1. PICK k \in 1..Len(tunnels[i]): tunnels[i][k] = routes[h].tunnel
      BY DEF Holds, Lists
    <3>2. k \in 1..req[p].pos
      BY <2>1, <3>1 DEF LastTunnel
    <3> QED
      BY <2>1, <3>1, <3>2, ListedHeld DEF PruneReady
  <2> HIDE DEF ix, owned, shown, kept, none, want
  <2>3. req'[p].pc = "adjust" /\ req'[p].removes = req[p].removes /\ mem'[i].ownedHosts = owned
    BY <1>0, <2>1 DEF Request
  <2> QED
    BY <1>1, <2>1, <2>2, <2>3 DEF PruneReady, Counted, Known, Removed, Fresh
<1> QED
  BY <1>2, <1>3, <1>4

LEMMA AdjustReady ==
    ASSUME TypeInv, NEW p \in Worker, PruneReady(p), AdjustEndpoints(p) \/ ReconcileWrite(p)
    PROVE  PruneReady(p)'
<1> DEFINE i    == InstanceOf[p]
           next == AfterReconcile(i)
<1>0. /\ req \in [Worker -> Request] /\ req[p] \in Request /\ mem \in [Instance -> Memory]
      /\ i \in Instance
  BY WorkerType DEF TypeInv, TypeOK
<1>1. /\ \A h: Holds(i, h)' = Holds(i, h)
      /\ mem'[i].recordsOK = mem[i].recordsOK /\ mem'[i].ownedHosts = mem[i].ownedHosts
  <2>1. \A h: Holds(i, h)' = Holds(i, h)
    BY DEF AdjustEndpoints, ReconcileWrite, account, Holds, Routed
  <2>2. mem' = mem \/ \E v: mem' = [mem EXCEPT ![i].pending = v]
    BY DEF AdjustEndpoints, ReconcileWrite
  <2> QED
    BY <1>0, <2>1, <2>2 DEF Memory
<1>2. req[p].pc \in {"adjust", "reconcile"} /\ next \in {"prune", "plan"}
  BY DEF AdjustEndpoints, ReconcileWrite, AfterReconcile
<1>3. CASE Finish(p)
  BY <1>3, EndReady
<1>4. CASE req'[p].pc \in {"prune", "plan"} /\ req'[p].removes = req[p].removes
  BY <1>1, <1>2, <1>4 DEF PruneReady, Counted, Known, Removed, Fresh
<1>5. CASE AdjustEndpoints(p) /\ ~Finish(p)
  <2> DEFINE present == IF i \in CoreDNS THEN (Adjusted(p) \cap mem[i].recordsHosts) \ Wildcard
                        ELSE {}
             staged  == Answerable(p, present)
             left    == present \ staged
             rw      == fragment[i]
  <2>1. CASE req' = [req EXCEPT ![p].pc = next]
    <3> HIDE DEF next
    <3>1. req'[p].pc \in {"prune", "plan"} /\ req'[p].removes = req[p].removes
      BY <1>0, <1>2, <2>1 DEF Request
    <3> QED
      BY <1>4, <3>1
  <2>2. ASSUME NEW adds, NEW skip, NEW now, now = fragment[i],
               req' = [req EXCEPT ![p].pc = "reconcile", ![p].adds = adds, ![p].skipped = skip,
                                  ![p].snapshot = now]
        PROVE  PruneReady(p)'
    <3>1. /\ req'[p].pc = "reconcile" /\ req'[p].removes = req[p].removes
          /\ req'[p].snapshot = fragment[i]
      BY <1>0, <2>2 DEF Request
    <3>2. req[p].pc = "adjust" /\ fragment' = fragment
      BY <1>5 DEF AdjustEndpoints
    <3> QED
      BY <1>1, <3>1, <3>2 DEF PruneReady, Counted, Known, Removed, Fresh
  <2>3. \/ req' = [req EXCEPT ![p].pc = next]
        \/ req' = [req EXCEPT ![p].pc = "reconcile", ![p].adds = staged, ![p].skipped = left,
                              ![p].snapshot = rw]
    BY <1>5 DEF AdjustEndpoints
  <2>4. rw = fragment[i]
    OBVIOUS
  <2> HIDE DEF present, staged, left, rw, next
  <2> QED
    BY <2>1, <2>2, <2>3, <2>4
<1>6. CASE ReconcileWrite(p) /\ ~Finish(p)
  <2>1. req' = [req EXCEPT ![p].pc = next, ![p].adds = {}, ![p].snapshot = NoRewrites]
    BY <1>6 DEF ReconcileWrite
  <2> HIDE DEF next
  <2>2. req'[p].pc \in {"prune", "plan"} /\ req'[p].removes = req[p].removes
    BY <1>0, <1>2, <2>1 DEF Request
  <2> QED
    BY <1>4, <2>2
<1> QED
  BY <1>3, <1>5, <1>6

LEMMA PruneStepReady ==
    ASSUME TypeInv, NEW p \in Worker, InstanceOf[p] \in OwnershipStrict, PruneReady(p),
           PruneLoad(p) \/ PruneGet(p) \/ PruneWrite(p) \/ PruneFails(p)
    PROVE  PruneReady(p)'
<1> DEFINE i == InstanceOf[p]
<1>0. req \in [Worker -> Request] /\ req[p] \in Request
  BY WorkerType DEF TypeInv, TypeOK
<1>1. (\A h: Holds(i, h)' = Holds(i, h)) /\ mem' = mem
  BY DEF PruneLoad, PruneGet, PruneWrite, PruneFails, account, Holds, Routed
<1>2. CASE PruneLoad(p)
  <2> DEFINE stale == Prunable(p)
  <2>1. CASE req' = [req EXCEPT ![p].pc = "plan"]
    <3>1. req'[p].pc = "plan" /\ req'[p].removes = {}
      BY <1>0, <1>2, <2>1 DEF PruneLoad, Request, PruneReady, Removed
    <3> QED
      BY <3>1, QuietReady
  <2>2. CASE req' = [req EXCEPT ![p].pc = "pruneGet", ![p].removes = stale]
    <3>1. \A h \in stale: Unneeded(p, h)
      BY <1>2, OptionAssumption, InstanceAssumption
      DEF PruneLoad, Prunable, PruneReady, Known, Unneeded, Instance, Holds, Routed
    <3> HIDE DEF stale
    <3>2. /\ req'[p].pc = "pruneGet" /\ req'[p].removes = stale
          /\ req'[p].wanted = req[p].wanted
      BY <1>0, <2>2 DEF Request
    <3>3. \A h: Unneeded(p, h)' = Unneeded(p, h)
      BY <1>1, <3>2 DEF Unneeded, Adjusted
    <3> QED
      BY <3>1, <3>2, <3>3 DEF PruneReady, Counted, Known, Removed, Fresh
  <2> QED
    BY <1>2, <2>1, <2>2 DEF PruneLoad
<1>3. CASE PruneGet(p)
  <2> DEFINE now == fragment[i]
  <2>1. CASE req' = [req EXCEPT ![p].pc = "plan", ![p].removes = {}]
    <3>1. req'[p].pc = "plan" /\ req'[p].removes = {}
      BY <1>0, <2>1 DEF Request
    <3> QED
      BY <3>1, QuietReady
  <2>2. CASE req' = [req EXCEPT ![p].pc = "pruneWrite", ![p].snapshot = now]
    <3>1. now = fragment'[i] /\ req[p].pc = "pruneGet"
      BY <1>3 DEF PruneGet
    <3> HIDE DEF now
    <3>2. /\ req'[p].pc = "pruneWrite" /\ req'[p].snapshot = now
          /\ req'[p].removes = req[p].removes /\ req'[p].wanted = req[p].wanted
      BY <1>0, <2>2 DEF Request
    <3>3. \A h: Unneeded(p, h)' = Unneeded(p, h)
      BY <1>1, <3>2 DEF Unneeded, Adjusted
    <3> QED
      BY <3>1, <3>2, <3>3 DEF PruneReady, Counted, Known, Removed, Fresh
  <2> QED
    BY <1>3, <2>1, <2>2 DEF PruneGet
<1>4. CASE PruneWrite(p) \/ PruneFails(p)
  <2>1. req'[p].pc = "plan" /\ req'[p].removes = {}
    BY <1>0, <1>4 DEF PruneWrite, PruneFails, EndPrune, Request
  <2> QED
    BY <2>1, QuietReady
<1> QED
  BY <1>2, <1>3, <1>4

LEMMA StageReady ==
    ASSUME TypeInv, NEW p \in Worker, PruneReady(p), ApplyCoreDNS(p) \/ StageWrite(p)
    PROVE  PruneReady(p)'
<1> DEFINE i       == InstanceOf[p]
           adds    == Answerable(p, req[p].creates)
           skip    == IF i \in CoreDNS THEN req[p].creates \ adds ELSE {}
           now     == fragment[i]
           removes == req[p].deletes
<1>0. req \in [Worker -> Request] /\ req[p] \in Request
  BY WorkerType DEF TypeInv, TypeOK
<1>1. CASE StageWrite(p)
  <2>1. req'[p].pc = "mutate" /\ req'[p].removes = {}
    BY <1>0, <1>1 DEF StageWrite, Request
  <2> QED
    BY <2>1, QuietReady
<1>2. CASE ApplyCoreDNS(p)
  <2>1. /\ \/ req' = [req EXCEPT ![p].pc = "stage", ![p].skipped = skip, ![p].adds = adds,
                                 ![p].removes = removes, ![p].snapshot = now]
           \/ req' = [req EXCEPT ![p].pc = "mutate", ![p].skipped = skip]
        /\ req[p].pc = "coredns" /\ fragment'[i] = now
    BY <1>2 DEF ApplyCoreDNS
  <2>2. req[p].removes = {} /\ removes = req[p].deletes
    BY <2>1 DEF PruneReady, Removed
  <2> HIDE DEF adds, skip, now, removes
  <2>3. \/ /\ req'[p].pc = "stage" /\ req'[p].deletes = removes /\ req'[p].removes = removes
           /\ req'[p].snapshot = now
        \/ req'[p].pc = "mutate" /\ req'[p].removes = {}
    <3>1. CASE req' = [req EXCEPT ![p].pc = "stage", ![p].skipped = skip, ![p].adds = adds,
                                  ![p].removes = removes, ![p].snapshot = now]
      BY <1>0, <2>2, <3>1 DEF Request
    <3>2. CASE req' = [req EXCEPT ![p].pc = "mutate", ![p].skipped = skip]
      BY <1>0, <2>2, <3>2 DEF Request
    <3> QED
      BY <2>1, <3>1, <3>2
  <2>4. CASE req'[p].pc = "stage" /\ req'[p].deletes = removes /\ req'[p].removes = removes
             /\ req'[p].snapshot = now
    BY <2>1, <2>4 DEF PruneReady, Counted, Known, Removed, Fresh
  <2> QED
    BY <2>3, <2>4, QuietReady
<1> QED
  BY <1>1, <1>2

(* The rest of a request writes no fragment and starts none. *)
LEMMA PlanReady ==
    ASSUME TypeInv, NEW p \in Worker, PruneReady(p),
           \/ Plan(p) \/ ListOwned(p) \/ ListForAdoption(p)
           \/ \E h \in Host: Classified(p, h, routes) /\ req[p].pc = "classify"
           \/ \E h \in Host: Classified(p, h, NoRoutes) /\ req[p].pc = "classify"
           \/ \E h \in Host: CreateRefused(p, h)
           \/ \E h \in Host: /\ Deleting(p, h) \/ Updating(p, h) \/ Creating(p, h)
                             /\ Deleted(p, h) \/ Updated(p, h) \/ Created(p, h)
    PROVE  PruneReady(p)'
<1>0. req \in [Worker -> Request] /\ req[p] \in Request
  BY WorkerType DEF TypeInv, TypeOK
<1> SUFFICES \/ Finish(p)
             \/ /\ req[p].pc \in {"plan", "index", "adoption", "coredns", "mutate", "classify"}
                /\ req'[p].pc \in {"plan", "index", "adoption", "coredns", "mutate", "classify"}
                /\ req'[p].removes = req[p].removes
  BY QuietReady, EndReady DEF PruneReady, Removed
<1>1. CASE Plan(p) /\ ~Finish(p)
  <2> DEFINE i       == InstanceOf[p]
             current == {h \in domainFilter[i]: req[p].index[h] # NoRoute}
             cre     == Adjusted(p) \ current
             upd     == {h \in Adjusted(p) \cap current: req[p].index[h].tunnel # resolve[i][h]}
             del     == IF i \in PolicySync THEN current \ Adjusted(p) ELSE {}
             next    == IF NeedsIndex(del, upd) THEN "index"
                        ELSE IF NeedsAdoption(i, cre) THEN "adoption" ELSE "coredns"
  <2>1. /\ req' = [req EXCEPT ![p].pc = next, ![p].index = NoRoutes, ![p].deletes = del,
                              ![p].updates = upd, ![p].creates = cre]
        /\ req[p].pc = "plan"
    BY <1>1 DEF Plan
  <2>2. next \in {"index", "adoption", "coredns"}
    OBVIOUS
  <2> HIDE DEF cre, upd, del, next
  <2> QED
    BY <1>0, <2>1, <2>2 DEF Request
<1>2. CASE ListOwned(p)
  <2> DEFINE ix == OwnedListing(p)
             at == AfterIndex(p)
  <2>1. at \in {"adoption", "coredns"}
    BY DEF AfterIndex
  <2>2. /\ \/ req' = [req EXCEPT ![p].index = ix, ![p].pos = 1, ![p].pc = at]
           \/ req' = [req EXCEPT ![p].index = ix, ![p].pos = @ + 1]
        /\ req[p].pc = "index"
    BY <1>2 DEF ListOwned
  <2> HIDE DEF ix, at
  <2> QED
    BY <1>0, <2>1, <2>2 DEF Request
<1>3. CASE ListForAdoption(p)
  BY <1>0, <1>3 DEF ListForAdoption, Request
<1>4. ASSUME NEW h \in Host, NEW list, Classified(p, h, list), req[p].pc = "classify"
      PROVE  /\ req'[p].pc = "mutate" /\ req'[p].removes = req[p].removes
  <2>1. req' = [req EXCEPT ![p].pc = "mutate", ![p].conflict = {}, ![p].listed = TRUE,
                           ![p].holders = list, ![p].creates = @ \ {h}]
    BY <1>4 DEF Classified
  <2> QED
    BY <1>0, <2>1 DEF Request
<1>5. ASSUME NEW h \in Host, Deleting(p, h) \/ Updating(p, h) \/ Creating(p, h),
             Deleted(p, h) \/ Updated(p, h) \/ Created(p, h)
      PROVE  /\ req[p].pc = "mutate" /\ req'[p].pc = "mutate"
             /\ req'[p].removes = req[p].removes
  BY <1>0, <1>5 DEF Deleting, Updating, Creating, Deleted, Updated, Created, Request
<1>6. ASSUME NEW h \in Host, CreateRefused(p, h)
      PROVE  /\ req[p].pc = "mutate" /\ req'[p].pc \in {"mutate", "classify"}
             /\ req'[p].removes = req[p].removes
  <2>1. Creating(p, h) /\ req[p].pc = "mutate"
    BY <1>6 DEF CreateRefused, CreateCalled, Creating
  <2>2. CASE req' = [req EXCEPT ![p].pc = "classify", ![p].conflict = {h}]
    BY <1>0, <2>1, <2>2 DEF Request
  <2> QED
    BY <1>5, <1>6, <2>1, <2>2 DEF CreateRefused
<1> QED
  BY <1>1, <1>2, <1>3, <1>4, <1>5, <1>6

LEMMA OwnStepReady ==
    ASSUME TypeInv, NEW p \in Worker, InstanceOf[p] \in OwnershipStrict, PruneReady(p),
           StartRecords(p) \/ Progress(p) \/ Failure(p)
    PROVE  PruneReady(p)'
<1>1. ASSUME NEW h \in Host,
             \/ DeleteRoute(p, h) \/ UpdateRoute(p, h) \/ AdoptRoute(p, h) \/ SkipCreate(p, h)
             \/ CreateRoute(p, h) \/ CallFails(p, h) \/ CreateFails(p, h)
      PROVE  /\ Deleting(p, h) \/ Updating(p, h) \/ Creating(p, h)
             /\ Deleted(p, h) \/ Updated(p, h) \/ Created(p, h)
  BY <1>1 DEF DeleteRoute, UpdateRoute, AdoptRoute, SkipCreate, CreateRoute, CallFails,
              CreateFails, CreateCalled, Adopting
<1>2. Unattended(p) \/ EndApply(p) \/ ListFails(p) \/ AdjustFails(p) \/ FragmentFails(p)
      => Finish(p)
  BY DEF Unattended, EndApply, ListFails, AdjustFails, FragmentFails
<1>3. ASSUME NEW h \in Host, ListAccount(p, h) \/ ListAccountFails(p, h)
      PROVE  /\ Classified(p, h, routes) \/ Classified(p, h, NoRoutes)
             /\ req[p].pc = "classify"
  BY <1>3 DEF ListAccount, ListAccountFails
<1>4. CASE Abandon(p)
  <2>1. req'[p] = [req[p] EXCEPT !.live = FALSE] /\ req[p] \in Request
    BY <1>4, WorkerType DEF Abandon, TypeInv, TypeOK
  <2>2. Untouched(p)
    BY <2>1 DEF Untouched, Request
  <2>3. /\ NothingGained(InstanceOf[p])
        /\ fragment' = fragment /\ mem' = mem
    BY <1>4 DEF Abandon, account, NothingGained, Holds, Routed
  <2> QED
    BY <2>2, <2>3, UntouchedReady
<1>5. CASE StartRecords(p) \/ (Progress(p) /\ ~Mutate(p))
  BY <1>2, <1>5, RecordsReady, AdjustReady, PruneStepReady, StageReady, PlanReady, EndReady
  DEF Progress
<1>6. CASE Mutate(p)
  BY <1>1, <1>3, <1>6, PlanReady DEF Mutate
<1>7. CASE Failure(p) /\ ~Abandon(p)
  BY <1>1, <1>2, <1>3, <1>7, PruneStepReady, PlanReady, EndReady DEF Failure
<1> QED
  BY <1>4, <1>5, <1>6, <1>7

(* A request changes its own state, its instance's memory and its instance's
   fragment, besides the account. *)
LEMMA LocalStep ==
    ASSUME TypeInv, NEW q \in Worker, StartRecords(q) \/ Progress(q) \/ Failure(q),
           NEW p \in Worker, InstanceOf[p] # InstanceOf[q]
    PROVE  /\ req'[p] = req[p] /\ mem'[InstanceOf[p]] = mem[InstanceOf[p]]
           /\ fragment'[InstanceOf[p]] = fragment[InstanceOf[p]]
<1>1. /\ req \in [Worker -> Request] /\ mem \in [Instance -> Memory]
      /\ fragment \in [Instance -> Rewrites] /\ InstanceOf[p] \in Instance
  BY WorkerType DEF TypeInv, TypeOK
<1> DEFINE Local == /\ req'[p] = req[p] /\ mem'[InstanceOf[p]] = mem[InstanceOf[p]]
                    /\ fragment'[InstanceOf[p]] = fragment[InstanceOf[p]]
<1>2. CASE StartRecords(q) \/ ListForRecords(q) \/ CompleteRecords(q) \/ AdjustEndpoints(q)
  BY <1>1, <1>2 DEF StartRecords, ListForRecords, CompleteRecords, AdjustEndpoints, Finish
<1>3. CASE ReconcileWrite(q) \/ PruneLoad(q) \/ PruneGet(q) \/ PruneWrite(q) \/ StageWrite(q)
  BY <1>1, <1>3 DEF ReconcileWrite, PruneLoad, PruneGet, PruneWrite, StageWrite, EndPrune, Finish,
                    WriteFragment
<1>4. CASE Plan(q) \/ Unattended(q) \/ ListOwned(q) \/ ListForAdoption(q) \/ ApplyCoreDNS(q) \/ EndApply(q)
  BY <1>1, <1>4 DEF Plan, Unattended, ListOwned, ListForAdoption, ApplyCoreDNS, EndApply, Finish
<1>5. ASSUME NEW h \in Host,
             \/ DeleteRoute(q, h) \/ UpdateRoute(q, h) \/ AdoptRoute(q, h) \/ SkipCreate(q, h)
             \/ CreateRoute(q, h) \/ CallFails(q, h) \/ CreateFails(q, h)
      PROVE  Local
  BY <1>1, <1>5 DEF DeleteRoute, UpdateRoute, AdoptRoute, SkipCreate, CreateRoute, CallFails,
                    CreateFails, Deleted, Updated, Created
<1>6. ASSUME NEW h \in Host, CreateRefused(q, h) \/ ListAccount(q, h) \/ ListAccountFails(q, h)
      PROVE  Local
  BY <1>1, <1>6 DEF CreateRefused, ListAccount, ListAccountFails, Classified, SetPending, Created
<1>7. CASE \/ ListFails(q) \/ AdjustFails(q) \/ FragmentFails(q) \/ PruneFails(q) \/ Abandon(q)
  BY <1>1, <1>7 DEF ListFails, AdjustFails, FragmentFails, PruneFails, Abandon, EndPrune, Finish,
                    WriteFragment
<1> QED
  BY <1>2, <1>3, <1>4, <1>5, <1>6, <1>7 DEF Progress, Mutate, Failure

LEMMA PruneInvNext ==
    ASSUME OneRequest, Strict PROVE TypeInv /\ ListedOwn /\ PruneInv /\ [Next]_vars => PruneInv'
<1> SUFFICES ASSUME TypeInv, ListedOwn, PruneInv, [Next]_vars, NEW p \in Worker
             PROVE  PruneReady(p)'
  BY DEF PruneInv
<1> DEFINE i == InstanceOf[p]
<1>0. /\ i \in Running /\ i \in OwnershipStrict /\ PruneReady(p)
      /\ req \in [Worker -> Request] /\ req[p] \in Request /\ mem \in [Instance -> Memory]
      /\ i \in Instance
  BY WorkerType DEF PruneInv, Strict, Running, TypeInv, TypeOK
<1>1. ASSUME req'[p] = req[p], fragment'[i] = fragment[i],
             mem'[i] = mem[i] \/ mem'[i] = StartMemory
      PROVE  PruneReady(p)'
  <2>1. CASE req[p].pc = "mutate"
    BY <1>0, <1>1, <2>1, QuietReady DEF PruneReady, Removed
  <2>2. CASE req[p].pc # "mutate"
    <3>1. NothingGained(i)
      BY <1>0, <2>2, GainStep DEF OneRequest
    <3>2. Untouched(p)
      BY <1>1 DEF Untouched
    <3>3. mem'[i].recordsOK => mem[i].recordsOK /\ mem'[i].ownedHosts = mem[i].ownedHosts
      BY <1>1 DEF StartMemory
    <3> QED
      BY <1>0, <1>1, <3>1, <3>2, <3>3, UntouchedReady
  <2> QED
    BY <2>1, <2>2
<1>2. ASSUME NEW q \in Worker, StartRecords(q) \/ Progress(q) \/ Failure(q)
      PROVE  PruneReady(p)'
  <2>1. CASE q = p
    BY <1>0, <1>2, <2>1, OwnStepReady
  <2>2. CASE q # p
    BY <1>1, <1>2, <2>2, LocalStep DEF OneRequest
  <2> QED
    BY <2>1, <2>2
<1>3. ASSUME NEW j \in Running, Crash(j) PROVE PruneReady(p)'
  <2>1. /\ fragment' = fragment /\ (mem'[i] = mem[i] \/ mem'[i] = StartMemory)
        /\ (req'[p] = req[p] \/ req'[p] = NoRequest)
    BY <1>0, <1>3 DEF Crash
  <2>2. CASE req'[p] = NoRequest
    <3>1. req'[p].pos = 1 /\ req'[p].removes = {} /\ req'[p].pc = "idle"
      BY <2>2 DEF NoRequest
    <3> QED
      BY <3>1 DEF PruneReady, Counted, Known, Removed, Fresh
  <2> QED
    BY <1>1, <2>1, <2>2
<1>4. CASE Environment \/ UNCHANGED vars
  BY <1>1, <1>4 DEF Environment, ChangeService, OtherCreates, OtherDeletes, vars
<1> QED
  BY <1>2, <1>3, <1>4 DEF Next

LEMMA PruneInvInit == Init => PruneInv
BY DEF Init, PruneInv, PruneReady, NoRequest, Counted, Known, Removed, Fresh

-----------------------------------------------------------------------------
(* The rewrite of h goes from i's fragment in this step, as it may. *)
GoesStale(i, h) ==
    fragment[i][h] # NoRewrite /\ fragment'[i][h] = NoRewrite =>
        \E p \in Worker:
            /\ InstanceOf[p] = i
            /\ \/ h \in req[p].deletes
               \/ /\ req[p].pc = "pruneWrite"
                  /\ h \notin Adjusted(p)
                  /\ ~Holds(i, h)
                  /\ h \in domainFilter[i]
                  /\ resolve[i][h] # NoTunnel

LEMMA WriteStale ==
    ASSUME TypeInv, PruneInv, NEW p \in Worker, WriteFragment(p),
           req[p].pc \in {"reconcile", "pruneWrite", "stage"}, NEW i \in Instance, NEW h \in Host
    PROVE  GoesStale(i, h)
<1> SUFFICES ASSUME fragment[i][h] # NoRewrite, fragment'[i][h] = NoRewrite
             PROVE  /\ InstanceOf[p] = i
                    /\ \/ h \in req[p].deletes
                       \/ req[p].pc = "pruneWrite" /\ Unneeded(p, h)
  BY DEF GoesStale, Unneeded
<1>1. fragment \in [Instance -> Rewrites] /\ req[p] \in Request /\ Sound(p, req[p])
  BY WorkerType DEF TypeInv, TypeOK
<1>2. /\ InstanceOf[p] = i
      /\ fragment'[i] = Apply(req[p].snapshot, req[p].wanted, req[p].adds, req[p].removes)
  BY <1>1 DEF WriteFragment
<1>3. req[p].snapshot = fragment[i] /\ Removed(p)
  BY <1>2 DEF PruneInv, PruneReady, Fresh
<1>4. h \notin req[p].adds
  BY <1>1, <1>2, NoneAssumption DEF Apply, Sound
<1>5. h \in req[p].removes
  BY <1>2, <1>3, <1>4 DEF Apply
<1> QED
  BY <1>2, <1>3, <1>5 DEF Removed

LEMMA StaleNext ==
    ASSUME TypeInv, PruneInv, [Next]_vars, NEW i \in Instance, NEW h \in Host
    PROVE  GoesStale(i, h)
<1>1. CASE fragment' = fragment
  BY <1>1 DEF GoesStale
<1>2. ASSUME NEW p \in Worker, StartRecords(p) \/ Progress(p) \/ Failure(p)
      PROVE  fragment' = fragment \/ GoesStale(i, h)
  <2>1. CASE ReconcileWrite(p) \/ PruneWrite(p) \/ StageWrite(p)
    BY <2>1, WriteStale DEF ReconcileWrite, PruneWrite, StageWrite
  <2>2. CASE PruneFails(p) \/ FragmentFails(p)
    BY <2>2, WriteStale DEF PruneFails, FragmentFails
  <2>3. CASE StartRecords(p) \/ Mutate(p)
    BY <2>3 DEF StartRecords, Mutate, DeleteRoute, UpdateRoute, AdoptRoute, SkipCreate, CreateRoute,
                CreateRefused, ListAccount
  <2>4. CASE /\ Progress(p)
             /\ ~ReconcileWrite(p) /\ ~PruneWrite(p) /\ ~StageWrite(p) /\ ~Mutate(p)
    BY <2>4 DEF Progress, ListForRecords, CompleteRecords, AdjustEndpoints, PruneLoad, PruneGet, Plan,
                Unattended, ListOwned, ListForAdoption, ApplyCoreDNS, EndApply
  <2>5. CASE Failure(p) /\ ~PruneFails(p) /\ ~FragmentFails(p)
    BY <2>5 DEF Failure, ListFails, AdjustFails, Abandon, CallFails, CreateFails, ListAccountFails
  <2> QED
    BY <1>2, <2>1, <2>2, <2>3, <2>4, <2>5
<1>3. CASE (\E j \in Running: Crash(j)) \/ Environment \/ UNCHANGED vars
  BY <1>1, <1>3 DEF Crash, Environment, ChangeService, OtherCreates, OtherDeletes, vars
<1> QED
  BY <1>1, <1>2, <1>3 DEF Next

(* A prune or a plan removes only stale rewrites (pruneCoreDNS): with one
   request of an instance at a time and all instances strict, the four guards
   of a prune still hold when the write happens, several calls after they
   were decided, whatever other instances, writers and faults do meanwhile. *)
THEOREM StaleRewritesGo == OneRequest /\ Strict => (Spec => OnlyStaleRewritesGo)
<1> SUFFICES ASSUME OneRequest, Strict PROVE Spec => OnlyStaleRewritesGo
  OBVIOUS
<1>1. TypeInv /\ ListedOwn /\ [Next]_vars => ListedOwn'
  BY ListedOwnNext
<1>2. TypeInv /\ ListedOwn /\ PruneInv /\ [Next]_vars => PruneInv'
  BY PruneInvNext
<1>3. TypeInv /\ PruneInv /\ [Next]_vars => [\A i \in Instance, h \in Host: GoesStale(i, h)]_vars
  BY StaleNext
<1>4. [\A i \in Instance, h \in Host: GoesStale(i, h)]_vars <=>
        [\A i \in Instance, h \in Host:
            fragment[i][h] # NoRewrite /\ fragment'[i][h] = NoRewrite =>
                \E p \in Worker:
                    /\ InstanceOf[p] = i
                    /\ \/ h \in req[p].deletes
                       \/ /\ req[p].pc = "pruneWrite"
                          /\ h \notin Adjusted(p)
                          /\ ~Holds(i, h)
                          /\ h \in domainFilter[i]
                          /\ resolve[i][h] # NoTunnel]_vars
  BY DEF GoesStale
<1> QED
  BY <1>1, <1>2, <1>3, <1>4, InitType, NextType, ListedOwnInit, PruneInvInit, PTL
  DEF Spec, OnlyStaleRewritesGo
=============================================================================
