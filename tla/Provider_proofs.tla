--------------------------- MODULE Provider_proofs ---------------------------
(***************************************************************************)
(* Type correctness of Provider, sound plans, and a dry run that writes    *)
(* nothing, for every value of the constants.                              *)
(*                                                                         *)
(* TypeOK is not inductive: a create or a retarget keeps routes typed only *)
(* if the plan holds no host without a tunnel, and a write keeps fragment  *)
(* typed only if every added host has a label.  TypeInv adds both, and that *)
(* a list in progress is inside the tunnels it goes through.               *)
(***************************************************************************)
EXTENDS Provider, TLAPS

TypeInv == TypeOK /\ PlanSound

(* What one request must satisfy for TypeInv. *)
Sound(p, r) ==
    /\ r \in Request
    /\ r.pos \in 1..Len(tunnels[InstanceOf[p]])
    /\ \A h \in r.updates \cup r.creates: resolve[InstanceOf[p]][h] # NoTunnel
    /\ r.deletes \cap r.updates = {}
    /\ \A h \in r.adds: r.wanted[h] \in Resource
    /\ r.adds = {} \/ r.pc \in {"reconcile", "stage"}

-----------------------------------------------------------------------------
(* The request of no cycle is sound. *)
LEMMA NoRequestSound == ASSUME NEW p \in Worker PROVE Sound(p, NoRequest)
<1>1. Len(tunnels[InstanceOf[p]]) \in Nat /\ Len(tunnels[InstanceOf[p]]) > 0
  BY InstanceAssumption
<1> QED
  BY <1>1 DEF Sound, NoRequest, Request, PC, NoRoutes, NoRewrites, RouteIndex, Rewrites, Want

LEMMA WorkerType ==
    ASSUME TypeInv, NEW p \in Worker
    PROVE  /\ InstanceOf[p] \in Instance
           /\ req[p] \in Request
           /\ Sound(p, req[p])
           /\ mem[InstanceOf[p]] \in Memory
           /\ fragment[InstanceOf[p]] \in Rewrites
           /\ desired[InstanceOf[p]] \in [Host -> Want]
BY InstanceAssumption DEF TypeInv, TypeOK, PlanSound, Sound

LEMMA FirstTunnel == ASSUME NEW p \in Worker PROVE 1 \in 1..Len(tunnels[InstanceOf[p]])
<1>1. Len(tunnels[InstanceOf[p]]) \in Nat /\ Len(tunnels[InstanceOf[p]]) > 0
  BY InstanceAssumption
<1> QED
  BY <1>1

(* A step that gives one worker another sound request, and leaves the rest
   typed, keeps TypeInv. *)
LEMMA OneStep ==
    ASSUME TypeInv, NEW p \in Worker, NEW r, Sound(p, r), req' = [req EXCEPT ![p] = r],
           routes' \in RouteIndex, nextId' \in Nat, fragment' \in [Instance -> Rewrites],
           mem' \in [Instance -> Memory], UNCHANGED desired, UNCHANGED bounds \/ Fault
    PROVE  TypeInv'
<1>1. req \in [Worker -> Request] /\ req' \in [Worker -> Request]
  BY DEF TypeInv, TypeOK, Sound
<1>2. ASSUME NEW q \in Worker PROVE Sound(q, req'[q])
  BY <1>1, <1>2 DEF TypeInv, PlanSound, Sound
<1>3. PlanSound'
  BY <1>1, <1>2 DEF PlanSound, Sound
<1>4. changes' \in 0..MaxChanges /\ faults' \in 0..MaxFaults
  BY BoundAssumption DEF TypeInv, TypeOK, bounds, Fault
<1> QED
  BY <1>1, <1>3, <1>4 DEF TypeInv, TypeOK

(* The end of a request, whatever was written before it. *)
LEMMA FinishStep ==
    ASSUME TypeInv, NEW p \in Worker, Finish(p),
           routes' \in RouteIndex, nextId' \in Nat, fragment' \in [Instance -> Rewrites],
           mem' \in [Instance -> Memory], UNCHANGED desired, UNCHANGED bounds \/ Fault
    PROVE  TypeInv'
BY NoRequestSound, OneStep DEF Finish

(* A list of one tunnel adds routes to an index. *)
LEMMA ListingType ==
    ASSUME TypeInv, NEW p \in Worker
    PROVE  OwnedListing(p) \in RouteIndex /\ FullListing(p) \in RouteIndex
BY WorkerType DEF TypeInv, TypeOK, OwnedListing, FullListing, AddTo, Request, RouteIndex

(* A write of the staged additions yields rewrites. *)
LEMMA WriteType ==
    ASSUME TypeInv, NEW p \in Worker, WriteFragment(p) \/ UNCHANGED fragment
    PROVE  fragment' \in [Instance -> Rewrites]
<1>1. Apply(req[p].snapshot, req[p].wanted, req[p].adds, req[p].removes) \in Rewrites
  BY WorkerType DEF Sound, Request, Apply, Rewrites
<1> QED
  BY <1>1, WorkerType DEF WriteFragment, TypeInv, TypeOK

LEMMA PendingType ==
    ASSUME TypeInv, NEW p \in Worker, NEW v \in Pending,
           mem' = [mem EXCEPT ![InstanceOf[p]].pending = v]
    PROVE  mem' \in [Instance -> Memory]
BY WorkerType DEF TypeInv, TypeOK, Memory

LEMMA RetainType ==
    ASSUME TypeInv, NEW p \in Worker, NEW keep
    PROVE  retainPending(mem[InstanceOf[p]].pending, keep) \in Pending
BY WorkerType DEF Memory, Pending, retainPending

LEMMA ReasonType ==
    ASSUME TypeInv, NEW p \in Worker, NEW h \in Host, NEW v \in Reasons \cup {NotPending}
    PROVE  [mem[InstanceOf[p]].pending EXCEPT ![h] = v] \in Pending
BY WorkerType DEF Memory, Pending

LEMMA EmptySoFarType ==
    ASSUME TypeInv, NEW p \in Worker PROVE EmptySoFar(p) \subseteq Tunnel
<1>1. req[p].emptyTunnels \subseteq Tunnel
  BY WorkerType DEF Request
<1>2. CASE \E h \in OnTunnel(NextTunnel(p)): manageable(InstanceOf[p], routes[h])
  BY <1>1, <1>2 DEF EmptySoFar
<1>3. CASE ~\E h \in OnTunnel(NextTunnel(p)): manageable(InstanceOf[p], routes[h])
  <2>1. NextTunnel(p) \in Tunnel
    BY WorkerType, InstanceAssumption DEF NextTunnel, Sound
  <2> QED
    BY <1>1, <1>3, <2>1 DEF EmptySoFar
<1> QED
  BY <1>2, <1>3

LEMMA AdjustedType ==
    ASSUME TypeInv, NEW p \in Worker
    PROVE  /\ Adjusted(p) \subseteq Host
           /\ \A h \in Adjusted(p): resolve[InstanceOf[p]][h] # NoTunnel
           /\ \A hs: Answerable(p, hs) \subseteq hs
           /\ \A hs: \A h \in Answerable(p, hs): req[p].wanted[h] \in Resource
BY WorkerType, InstanceAssumption DEF Adjusted, Answerable

LEMMA InitType == Init => TypeInv
<1>1. \A p \in Worker: 1 \in 1..Len(tunnels[InstanceOf[p]])
  BY FirstTunnel
<1> QED
  BY <1>1, InitialAssumption, BoundAssumption
   DEF Init, TypeInv, TypeOK, PlanSound, NoRequest, Request, PC, NoRoutes, NoRewrites,
       RouteIndex, Rewrites, Want, StartMemory, Memory, Pending, Reasons

-----------------------------------------------------------------------------
(* Every step keeps TypeInv: one lemma per action, or per group that writes
   the same things. *)

LEMMA StartRecordsType ==
    ASSUME TypeInv, NEW p \in Worker, StartRecords(p) PROVE TypeInv'
<1> DEFINE r == [req[p] EXCEPT !.pc = "records", !.live = TRUE]
<1>1. req[p] \in Request /\ Sound(p, req[p])
  BY WorkerType
<1>2. r \in Request
  BY <1>1 DEF Request, PC
<1>3. Sound(p, r)
  BY <1>1, <1>2 DEF Sound, Request, StartRecords
<1>4. mem' \in [Instance -> Memory]
  BY WorkerType DEF StartRecords, TypeInv, TypeOK, Memory
<1> QED
  BY <1>3, <1>4, OneStep DEF StartRecords, TypeInv, TypeOK, account

(* The next tunnel of a listing that goes on. *)
LEMMA NextTunnelSound ==
    ASSUME TypeInv, NEW p \in Worker, ~LastTunnel(p)
    PROVE  /\ Sound(p, [req[p] EXCEPT !.index = OwnedListing(p), !.pos = @ + 1])
           /\ Sound(p, [req[p] EXCEPT !.index = OwnedListing(p), !.pos = @ + 1,
                                      !.emptyTunnels = EmptySoFar(p)])
           /\ Sound(p, [req[p] EXCEPT !.existing = FullListing(p), !.pos = @ + 1])
<1>1. req[p] \in Request /\ Sound(p, req[p])
  BY WorkerType
<1>2. req[p].pos + 1 \in Nat /\ req[p].pos + 1 \in 1..Len(tunnels[InstanceOf[p]])
  <2>1. Len(tunnels[InstanceOf[p]]) \in Nat
    BY InstanceAssumption
  <2> QED
    BY <1>1, <2>1 DEF Request, LastTunnel, Sound
<1>3. /\ OwnedListing(p) \in RouteIndex /\ FullListing(p) \in RouteIndex
      /\ EmptySoFar(p) \subseteq Tunnel
  BY ListingType, EmptySoFarType
<1>6. [req[p] EXCEPT !.index = OwnedListing(p), !.pos = @ + 1,
                     !.emptyTunnels = EmptySoFar(p)] \in Request
  BY <1>1, <1>2, <1>3 DEF Request
<1>4. [req[p] EXCEPT !.index = OwnedListing(p), !.pos = @ + 1] \in Request
  BY <1>1, <1>2, <1>3 DEF Request
<1>5. [req[p] EXCEPT !.existing = FullListing(p), !.pos = @ + 1] \in Request
  BY <1>1, <1>2, <1>3 DEF Request
<1> QED
  BY <1>1, <1>2, <1>4, <1>5, <1>6 DEF Sound, Request

LEMMA ListForRecordsType ==
    ASSUME TypeInv, NEW p \in Worker, ListForRecords(p) PROVE TypeInv'
BY NextTunnelSound, OneStep DEF ListForRecords, TypeInv, TypeOK, account

LEMMA CompleteRecordsType ==
    ASSUME TypeInv, NEW p \in Worker, CompleteRecords(p) PROVE TypeInv'
<1> DEFINE i     == InstanceOf[p]
           r     == [req[p] EXCEPT !.pc = "adjust", !.pos = 1, !.index = OwnedListing(p),
                                   !.wanted = desired[i], !.emptyTunnels = {}]
           owned == {h \in Host: OwnedListing(p)[h] # NoRoute}
           shown == owned \cap domainFilter[i]
           m     == [recordsHosts |-> shown, ownedHosts |-> owned, recordsOK |-> TRUE,
                     pending |-> retainPending(mem[i].pending, Host \ shown),
                     emptyTunnels |-> EmptySoFar(p)]
<1>1. req[p] \in Request /\ Sound(p, req[p]) /\ req[p].adds = {}
      /\ OwnedListing(p) \in RouteIndex /\ desired[i] \in [Host -> Want]
      /\ EmptySoFar(p) \subseteq Tunnel
  BY WorkerType, ListingType, EmptySoFarType DEF Sound, CompleteRecords
<1>2. r \in Request
  BY <1>1 DEF Request, PC
<1>3. Sound(p, r)
  BY <1>1, <1>2, FirstTunnel DEF Sound, Request
<1>4. m \in Memory
  <2>1. retainPending(mem[i].pending, Host \ shown) \in Pending
    BY RetainType
  <2>2. owned \subseteq Host /\ shown \subseteq Host
    OBVIOUS
  <2> HIDE DEF owned, shown
  <2> QED
    BY <1>1, <2>1, <2>2 DEF Memory
<1>5. req' = [req EXCEPT ![p] = r] /\ mem' = [mem EXCEPT ![i] = m]
  BY DEF CompleteRecords
<1>6. mem' \in [Instance -> Memory]
  BY <1>4, <1>5, WorkerType DEF TypeInv, TypeOK
<1> QED
  BY <1>3, <1>5, <1>6, OneStep DEF CompleteRecords, TypeInv, TypeOK, account

LEMMA AdjustEndpointsType ==
    ASSUME TypeInv, NEW p \in Worker, AdjustEndpoints(p) PROVE TypeInv'
<1> DEFINE i       == InstanceOf[p]
           present == IF i \in CoreDNS THEN (Adjusted(p) \cap mem[i].recordsHosts) \ Wildcard
                      ELSE {}
           adds    == Answerable(p, present)
           v       == retainPending(mem[i].pending, Adjusted(p))
<1>1. req[p] \in Request /\ Sound(p, req[p]) /\ fragment[i] \in Rewrites
  BY WorkerType
<1>2. mem' \in [Instance -> Memory]
  <2>1. v \in Pending /\ mem' = [mem EXCEPT ![i].pending = v]
    BY RetainType DEF AdjustEndpoints
  <2> QED
    BY <2>1, PendingType
<1>3. CASE req' = [req EXCEPT ![p].pc = "reconcile", ![p].adds = adds,
                              ![p].skipped = present \ adds, ![p].snapshot = fragment[i]]
  <2>1. present \in SUBSET Host /\ adds \in SUBSET Host
        /\ \A h \in adds: req[p].wanted[h] \in Resource
    BY AdjustedType
  <2> HIDE DEF present, adds
  <2> DEFINE r == [req[p] EXCEPT !.pc = "reconcile", !.adds = adds,
                                 !.skipped = present \ adds, !.snapshot = fragment[i]]
  <2>2. r \in Request
    BY <1>1, <2>1 DEF Request, PC
  <2>3. Sound(p, r)
    BY <1>1, <2>1, <2>2 DEF Sound, Request
  <2> QED
    BY <1>2, <1>3, <2>3, OneStep DEF AdjustEndpoints, TypeInv, TypeOK, account
<1>4. CASE req' = [req EXCEPT ![p].pc = AfterReconcile(i)]
  <2>1. [req[p] EXCEPT !.pc = AfterReconcile(i)] \in Request
    BY <1>1 DEF Request, PC, AfterReconcile
  <2>2. Sound(p, [req[p] EXCEPT !.pc = AfterReconcile(i)])
    BY <1>1, <2>1 DEF Sound, Request, AdjustEndpoints
  <2> QED
    BY <1>2, <1>4, <2>2, OneStep DEF AdjustEndpoints, TypeInv, TypeOK, account
<1>5. CASE Finish(p)
  BY <1>2, <1>5, FinishStep DEF AdjustEndpoints, TypeInv, TypeOK, account
<1> QED
  BY <1>3, <1>4, <1>5 DEF AdjustEndpoints

LEMMA ReconcileWriteType ==
    ASSUME TypeInv, NEW p \in Worker, ReconcileWrite(p) PROVE TypeInv'
<1> DEFINE next == AfterReconcile(InstanceOf[p])
           r    == [req[p] EXCEPT !.pc = next, !.adds = {}, !.snapshot = NoRewrites]
<1>1. req[p] \in Request /\ Sound(p, req[p])
  BY WorkerType
<1>2. fragment' \in [Instance -> Rewrites]
  BY WriteType DEF ReconcileWrite
<1>3. next \in PC /\ NoRewrites \in Rewrites
  BY DEF PC, AfterReconcile, NoRewrites, Rewrites
<1>4. r \in Request
  BY <1>1, <1>3 DEF Request
<1>5. Sound(p, r)
  BY <1>1, <1>4 DEF Sound, Request
<1>6. CASE Finish(p)
  BY <1>2, <1>6, FinishStep DEF ReconcileWrite, TypeInv, TypeOK, account
<1>7. CASE req' = [req EXCEPT ![p] = r]
  BY <1>2, <1>5, <1>7, OneStep DEF ReconcileWrite, TypeInv, TypeOK, account
<1> QED
  BY <1>6, <1>7 DEF ReconcileWrite

LEMMA PruneType ==
    ASSUME TypeInv, NEW p \in Worker, PruneLoad(p) \/ PruneGet(p) PROVE TypeInv'
<1> DEFINE now == fragment[InstanceOf[p]]
           r1  == [req[p] EXCEPT !.pc = "plan"]
           r2  == [req[p] EXCEPT !.pc = "plan", !.removes = {}]
           r3  == [req[p] EXCEPT !.pc = "pruneGet", !.removes = Prunable(p)]
           r4  == [req[p] EXCEPT !.pc = "pruneWrite", !.snapshot = now]
<1>1. req[p] \in Request /\ Sound(p, req[p]) /\ req[p].adds = {}
      /\ Prunable(p) \in SUBSET Host /\ now \in Rewrites
  BY WorkerType, InstanceAssumption DEF Sound, PruneLoad, PruneGet, Prunable
<1>2. r1 \in Request /\ r2 \in Request /\ r3 \in Request /\ r4 \in Request
  BY <1>1 DEF Request, PC
<1>3. Sound(p, r1) /\ Sound(p, r2) /\ Sound(p, r3) /\ Sound(p, r4)
  BY <1>1, <1>2 DEF Sound, Request
<1>4. \E r \in {r1, r2, r3, r4}: req' = [req EXCEPT ![p] = r]
  BY DEF PruneLoad, PruneGet
<1> HIDE DEF r1, r2, r3, r4
<1> QED
  BY <1>3, <1>4, OneStep DEF PruneLoad, PruneGet, TypeInv, TypeOK, account

(* A prune ends, by its write or by a failure before or after it. *)
LEMMA EndPruneType ==
    ASSUME TypeInv, NEW p \in Worker, PruneWrite(p) \/ PruneFails(p) PROVE TypeInv'
<1> DEFINE r == [req[p] EXCEPT !.pc = "plan", !.removes = {}, !.snapshot = NoRewrites]
<1>1. req[p] \in Request /\ Sound(p, req[p]) /\ req[p].adds = {}
  BY WorkerType DEF Sound, PruneWrite, PruneFails
<1>2. fragment' \in [Instance -> Rewrites]
  BY WriteType DEF PruneWrite, PruneFails
<1>3. r \in Request
  BY <1>1 DEF Request, PC, NoRewrites, Rewrites
<1>4. Sound(p, r)
  BY <1>1, <1>3 DEF Sound, Request
<1> QED
  BY <1>2, <1>4, OneStep
     DEF PruneWrite, PruneFails, EndPrune, TypeInv, TypeOK, account, bounds

LEMMA PlanType ==
    ASSUME TypeInv, NEW p \in Worker, Plan(p) PROVE TypeInv'
<1> DEFINE i       == InstanceOf[p]
           current == {h \in domainFilter[i]: req[p].index[h] # NoRoute}
           cre     == Adjusted(p) \ current
           upd     == {h \in Adjusted(p) \cap current: req[p].index[h].tunnel # resolve[i][h]}
           del     == IF i \in PolicySync THEN current \ Adjusted(p) ELSE {}
           next    == IF NeedsIndex(del, upd) THEN "index"
                      ELSE IF NeedsAdoption(i, cre) THEN "adoption" ELSE "coredns"
           r       == [req[p] EXCEPT !.pc = next, !.index = NoRoutes,
                                     !.deletes = del, !.updates = upd, !.creates = cre]
<1>1. CASE Finish(p)
  BY <1>1, FinishStep DEF Plan, TypeInv, TypeOK, account
<1>2. CASE req' = [req EXCEPT ![p] = r]
  <2>1. req[p] \in Request /\ Sound(p, req[p]) /\ req[p].adds = {}
    BY WorkerType DEF Sound, Plan
  <2>2. /\ del \in SUBSET Host /\ upd \in SUBSET Host /\ cre \in SUBSET Host
        /\ del \cap upd = {}
        /\ \A h \in upd \cup cre: resolve[i][h] # NoTunnel
    BY AdjustedType, WorkerType, InstanceAssumption
  <2>3. next \in PC /\ NoRoutes \in RouteIndex
    BY DEF PC, NoRoutes, RouteIndex
  <2>4. Sound(p, r)
    <3> HIDE DEF del, upd, cre, next
    <3>1. r \in Request
      BY <2>1, <2>2, <2>3 DEF Request
    <3> QED
      BY <2>1, <2>2, <3>1 DEF Sound, Request
  <2> HIDE DEF r
  <2> QED
    BY <1>2, <2>4, OneStep DEF Plan, TypeInv, TypeOK, account
<1> QED
  BY <1>1, <1>2 DEF Plan

(* The two indexes of ApplyChanges. *)
LEMMA IndexType ==
    ASSUME TypeInv, NEW p \in Worker, ListOwned(p) \/ ListForAdoption(p) PROVE TypeInv'
<1> DEFINE r1 == [req[p] EXCEPT !.index = OwnedListing(p), !.pos = 1, !.pc = AfterIndex(p)]
           r2 == [req[p] EXCEPT !.existing = FullListing(p), !.pos = 1, !.pc = "coredns"]
<1>1. req[p] \in Request /\ Sound(p, req[p]) /\ req[p].adds = {}
      /\ OwnedListing(p) \in RouteIndex /\ FullListing(p) \in RouteIndex
  BY WorkerType, ListingType DEF Sound, ListOwned, ListForAdoption
<1>2. AfterIndex(p) \in PC
  BY DEF AfterIndex, PC
<1>3. r1 \in Request /\ r2 \in Request
  BY <1>1, <1>2 DEF Request, PC
<1>4. Sound(p, r1) /\ Sound(p, r2)
  BY <1>1, <1>3, FirstTunnel DEF Sound, Request
<1>5. CASE ListOwned(p)
  BY <1>4, <1>5, NextTunnelSound, OneStep DEF ListOwned, TypeInv, TypeOK, account
<1>6. CASE ListForAdoption(p)
  BY <1>4, <1>6, NextTunnelSound, OneStep DEF ListForAdoption, TypeInv, TypeOK, account
<1> QED
  BY <1>5, <1>6

(* What a call does to the account keeps it typed. *)
LEMMA AccountType ==
    ASSUME routes \in RouteIndex, nextId \in Nat,
           \/ \E h \in Host, t \in Tunnel, tag \in Tag: CreateHostnameRoute(h, t, tag)
           \/ \E id \in Nat: DeleteHostnameRoute(id)
           \/ \E id \in Nat, t \in Tunnel, tag \in Tag: PatchHostnameRoute(id, t, tag)
           \/ \E id \in Nat, tag \in Tag: PatchHostnameRouteComment(id, tag)
           \/ UNCHANGED account
    PROVE  routes' \in RouteIndex /\ nextId' \in Nat
<1>1. CASE \E h \in Host, t \in Tunnel, tag \in Tag: CreateHostnameRoute(h, t, tag)
  BY <1>1 DEF CreateHostnameRoute, RouteIndex, Route
<1>2. CASE \E id \in Nat: DeleteHostnameRoute(id)
  BY <1>2 DEF DeleteHostnameRoute, RouteIndex
<1>3. CASE \E id \in Nat, t \in Tunnel, tag \in Tag: PatchHostnameRoute(id, t, tag)
  BY <1>3 DEF PatchHostnameRoute, RouteIndex, Route
<1>4. CASE \E id \in Nat, tag \in Tag: PatchHostnameRouteComment(id, tag)
  BY <1>4 DEF PatchHostnameRouteComment, RouteIndex, Route, HasId, Routed
<1>5. CASE UNCHANGED account
  BY <1>5 DEF account
<1> QED
  BY <1>1, <1>2, <1>3, <1>4, <1>5

LEMMA ApplyCoreDNSType ==
    ASSUME TypeInv, NEW p \in Worker, ApplyCoreDNS(p) PROVE TypeInv'
<1> DEFINE i    == InstanceOf[p]
           adds == Answerable(p, req[p].creates)
           skip == IF i \in CoreDNS THEN req[p].creates \ adds ELSE {}
           now  == fragment[i]
           r1   == [req[p] EXCEPT !.pc = "stage", !.skipped = skip, !.adds = adds,
                                  !.removes = req[p].deletes, !.snapshot = now]
           r2   == [req[p] EXCEPT !.pc = "mutate", !.skipped = skip]
<1>1. req[p] \in Request /\ Sound(p, req[p]) /\ req[p].adds = {} /\ now \in Rewrites
  BY WorkerType DEF Sound, ApplyCoreDNS
<1>2. /\ adds \in SUBSET Host /\ skip \in SUBSET Host /\ req[p].deletes \in SUBSET Host
      /\ \A h \in adds: req[p].wanted[h] \in Resource
  BY <1>1, AdjustedType DEF Request
<1>3. Sound(p, r1) /\ Sound(p, r2)
  <2> HIDE DEF adds, skip, now
  <2>1. r1 \in Request
    BY <1>1, <1>2 DEF Request, PC
  <2>2. r2 \in Request
    BY <1>1, <1>2 DEF Request, PC
  <2> QED
    BY <1>1, <1>2, <2>1, <2>2 DEF Sound, Request
<1>4. req' = [req EXCEPT ![p] = r1] \/ req' = [req EXCEPT ![p] = r2]
  BY DEF ApplyCoreDNS
<1> HIDE DEF r1, r2
<1> QED
  BY <1>3, <1>4, OneStep DEF ApplyCoreDNS, TypeInv, TypeOK, account

LEMMA StageWriteType ==
    ASSUME TypeInv, NEW p \in Worker, StageWrite(p) PROVE TypeInv'
<1> DEFINE r == [req[p] EXCEPT !.pc = "mutate", !.adds = {}, !.removes = {},
                               !.snapshot = NoRewrites]
<1>1. req[p] \in Request /\ Sound(p, req[p])
  BY WorkerType
<1>2. r \in Request
  BY <1>1 DEF Request, PC, NoRewrites, Rewrites
<1>3. Sound(p, r)
  BY <1>1, <1>2 DEF Sound, Request
<1>4. fragment' \in [Instance -> Rewrites]
  BY WriteType DEF StageWrite
<1> QED
  BY <1>3, <1>4, OneStep DEF StageWrite, TypeInv, TypeOK, account

(* A host leaves the plan when its turn is over. *)
LEMMA TurnOver ==
    ASSUME TypeInv, NEW p \in Worker, NEW h, Deleted(p, h) \/ Updated(p, h) \/ Created(p, h),
           routes' \in RouteIndex, nextId' \in Nat, mem' \in [Instance -> Memory],
           UNCHANGED <<desired, fragment>>, UNCHANGED bounds \/ Fault
    PROVE  TypeInv'
<1> DEFINE r1 == [req[p] EXCEPT !.deletes = @ \ {h}]
           r2 == [req[p] EXCEPT !.updates = @ \ {h}]
           r3 == [req[p] EXCEPT !.creates = @ \ {h}]
<1>1. req[p] \in Request /\ Sound(p, req[p])
  BY WorkerType
<1>2. r1 \in Request /\ r2 \in Request /\ r3 \in Request
  BY <1>1 DEF Request
<1>3. Sound(p, r1) /\ Sound(p, r2) /\ Sound(p, r3)
  BY <1>1, <1>2 DEF Sound, Request
<1>4. \E r \in {r1, r2, r3}: req' = [req EXCEPT ![p] = r]
  BY DEF Deleted, Updated, Created
<1> HIDE DEF r1, r2, r3
<1> QED
  BY <1>3, <1>4, OneStep DEF TypeInv, TypeOK

(* The tunnel and the tags the calls of a batch send. *)
LEMMA CallType ==
    ASSUME TypeInv, NEW p \in Worker, NEW h \in Host
    PROVE  /\ InstanceOf[p] \in Tag
           /\ h \in req[p].updates \cup req[p].creates => resolve[InstanceOf[p]][h] \in Tunnel
           /\ req[p].index[h] # NoRoute =>
                  req[p].index[h].id \in Nat /\ req[p].index[h].tag \in Tag
           /\ req[p].existing[h] # NoRoute => req[p].existing[h].id \in Nat
           /\ Stored[h] \in Host
BY WorkerType, InstanceAssumption DEF Sound, Request, RouteIndex, Route, Tag, Instance

LEMMA DeleteRouteType ==
    ASSUME TypeInv, NEW p \in Worker, NEW h \in Host, DeleteRoute(p, h) PROVE TypeInv'
<1>1. routes' \in RouteIndex /\ nextId' \in Nat
  BY AccountType, CallType DEF DeleteRoute, DeleteCalled, TypeInv, TypeOK
<1> QED
  BY <1>1, TurnOver DEF DeleteRoute, TypeInv, TypeOK

LEMMA UpdateRouteType ==
    ASSUME TypeInv, NEW p \in Worker, NEW h \in Host, UpdateRoute(p, h) PROVE TypeInv'
<1>1. routes' \in RouteIndex /\ nextId' \in Nat
  BY AccountType, CallType DEF UpdateRoute, Updating, UpdateCalled, TypeInv, TypeOK
<1> QED
  BY <1>1, TurnOver DEF UpdateRoute, TypeInv, TypeOK

LEMMA AdoptRouteType ==
    ASSUME TypeInv, NEW p \in Worker, NEW h \in Host, AdoptRoute(p, h) PROVE TypeInv'
<1>1. routes' \in RouteIndex /\ nextId' \in Nat
  BY AccountType, CallType DEF AdoptRoute, Adopting, TypeInv, TypeOK
<1> QED
  BY <1>1, TurnOver DEF AdoptRoute, TypeInv, TypeOK

LEMMA SkipCreateType ==
    ASSUME TypeInv, NEW p \in Worker, NEW h \in Host, SkipCreate(p, h) PROVE TypeInv'
BY TurnOver DEF SkipCreate, TypeInv, TypeOK, account

LEMMA PendingReasonType ==
    ASSUME TypeInv, NEW p \in Worker, NEW h \in Host, NEW v \in Reasons \cup {NotPending},
           mem' = [mem EXCEPT ![InstanceOf[p]].pending[h] = v]
    PROVE  mem' \in [Instance -> Memory]
<1> DEFINE w == [mem[InstanceOf[p]].pending EXCEPT ![h] = v]
<1>1. w \in Pending
  BY ReasonType
<1>2. mem' = [mem EXCEPT ![InstanceOf[p]].pending = w]
  OBVIOUS
<1> HIDE DEF w
<1> QED
  BY <1>1, <1>2, PendingType

LEMMA CreateRouteType ==
    ASSUME TypeInv, NEW p \in Worker, NEW h \in Host, CreateRoute(p, h) PROVE TypeInv'
<1>1. routes' \in RouteIndex /\ nextId' \in Nat
  BY AccountType, CallType DEF CreateRoute, CreateCalled, Creating, TypeInv, TypeOK
<1>2. mem' \in [Instance -> Memory]
  BY PendingReasonType DEF CreateRoute
<1> QED
  BY <1>1, <1>2, TurnOver DEF CreateRoute, TypeInv, TypeOK

LEMMA SetPendingType ==
    ASSUME TypeInv, NEW p \in Worker, NEW h \in Host, NEW list, SetPending(p, h, list)
    PROVE  mem' \in [Instance -> Memory]
<1>1. Reason(InstanceOf[p], h, list[h]) \in Reasons
  BY DEF Reason, Reasons
<1> QED
  BY <1>1, PendingReasonType DEF SetPending

LEMMA CreateRefusedType ==
    ASSUME TypeInv, NEW p \in Worker, NEW h \in Host, CreateRefused(p, h) PROVE TypeInv'
<1> DEFINE r == [req[p] EXCEPT !.pc = "classify", !.conflict = {h}]
<1>1. req[p] \in Request /\ Sound(p, req[p]) /\ req[p].adds = {}
  BY WorkerType DEF Sound, CreateRefused, CreateCalled, Creating
<1>2. r \in Request
  BY <1>1 DEF Request, PC
<1>3. Sound(p, r)
  BY <1>1, <1>2 DEF Sound, Request
<1>4. CASE SetPending(p, h, req[p].holders) /\ Created(p, h)
  BY <1>4, SetPendingType, TurnOver DEF CreateRefused, TypeInv, TypeOK, account
<1>5. CASE req' = [req EXCEPT ![p] = r] /\ UNCHANGED mem
  BY <1>3, <1>5, OneStep DEF CreateRefused, TypeInv, TypeOK, account
<1> QED
  BY <1>4, <1>5 DEF CreateRefused

LEMMA ClassifyType ==
    ASSUME TypeInv, NEW p \in Worker, NEW h \in Host,
           ListAccount(p, h) \/ ListAccountFails(p, h)
    PROVE  TypeInv'
<1>1. PICK list \in {routes, NoRoutes}: Classified(p, h, list)
  BY DEF ListAccount, ListAccountFails
<1> DEFINE r == [req[p] EXCEPT !.pc = "mutate", !.conflict = {}, !.listed = TRUE,
                               !.holders = list, !.creates = @ \ {h}]
<1>2. req[p] \in Request /\ Sound(p, req[p]) /\ req[p].adds = {} /\ list \in RouteIndex
  BY WorkerType
     DEF Sound, ListAccount, ListAccountFails, NoRoutes, RouteIndex, TypeInv, TypeOK
<1>3. req[p].creates \ {h} \in SUBSET Host
  BY <1>2 DEF Request
<1>4. r \in Request
  BY <1>2, <1>3 DEF Request, PC
<1>5. Sound(p, r)
  BY <1>2, <1>4 DEF Sound, Request
<1>6. mem' \in [Instance -> Memory] /\ req' = [req EXCEPT ![p] = r]
  BY <1>1, SetPendingType DEF Classified
<1> HIDE DEF r
<1> QED
  BY <1>5, <1>6, OneStep DEF ListAccount, ListAccountFails, TypeInv, TypeOK, account

(* The steps that end a request and write nothing. *)
LEMMA EndType ==
    ASSUME TypeInv, NEW p \in Worker, Unattended(p) \/ EndApply(p) \/ ListFails(p)
    PROVE  TypeInv'
BY FinishStep DEF Unattended, EndApply, ListFails, TypeInv, TypeOK, account, bounds

LEMMA AdjustFailsType ==
    ASSUME TypeInv, NEW p \in Worker, AdjustFails(p) PROVE TypeInv'
<1>1. mem' \in [Instance -> Memory]
  BY RetainType, PendingType DEF AdjustFails
<1> QED
  BY <1>1, FinishStep DEF AdjustFails, TypeInv, TypeOK, account

LEMMA FragmentFailsType ==
    ASSUME TypeInv, NEW p \in Worker, FragmentFails(p) PROVE TypeInv'
<1>1. fragment' \in [Instance -> Rewrites]
  BY WriteType DEF FragmentFails
<1> QED
  BY <1>1, FinishStep DEF FragmentFails, TypeInv, TypeOK, account

LEMMA CallFailsType ==
    ASSUME TypeInv, NEW p \in Worker, NEW h \in Host, CallFails(p, h) PROVE TypeInv'
BY TurnOver DEF CallFails, TypeInv, TypeOK, account

LEMMA CreateFailsType ==
    ASSUME TypeInv, NEW p \in Worker, NEW h \in Host, CreateFails(p, h) PROVE TypeInv'
<1>1. routes' \in RouteIndex /\ nextId' \in Nat
  BY AccountType, CallType DEF CreateFails, CreateCalled, Creating, TypeInv, TypeOK
<1> QED
  BY <1>1, TurnOver DEF CreateFails, TypeInv, TypeOK

LEMMA AbandonType ==
    ASSUME TypeInv, NEW p \in Worker, Abandon(p) PROVE TypeInv'
<1> DEFINE r == [req[p] EXCEPT !.live = FALSE]
<1>1. req[p] \in Request /\ Sound(p, req[p])
  BY WorkerType
<1>2. r \in Request
  BY <1>1 DEF Request
<1>3. Sound(p, r)
  BY <1>1, <1>2 DEF Sound, Request
<1> QED
  BY <1>3, OneStep DEF Abandon, TypeInv, TypeOK, account

LEMMA CrashType ==
    ASSUME TypeInv, NEW i \in Instance, Crash(i) PROVE TypeInv'
<1>1. \A p \in Worker: Sound(p, req[p]) /\ Sound(p, NoRequest)
  BY WorkerType, NoRequestSound
<1>2. \A p \in Worker: req'[p] = req[p] \/ req'[p] = NoRequest
  BY DEF Crash
<1>3. req' \in [Worker -> Request] /\ PlanSound'
  BY <1>1, <1>2 DEF Crash, Sound, PlanSound
<1>4. StartMemory \in Memory
  BY DEF StartMemory, Memory, Pending
<1>5. mem' \in [Instance -> Memory]
  BY <1>4 DEF Crash, TypeInv, TypeOK
<1>6. faults' \in 0..MaxFaults /\ changes' = changes
  BY BoundAssumption DEF Crash, Fault, TypeInv, TypeOK
<1> QED
  BY <1>3, <1>5, <1>6 DEF Crash, TypeInv, TypeOK, account

LEMMA EnvironmentType == ASSUME TypeInv, Environment PROVE TypeInv'
<1>1. UNCHANGED <<fragment, mem, req, faults>> /\ changes' \in 0..MaxChanges
  BY BoundAssumption
     DEF Environment, ChangeService, OtherCreates, OtherDeletes, Change, TypeInv, TypeOK
<1>2. routes' \in RouteIndex /\ nextId' \in Nat
  BY AccountType
     DEF Environment, ChangeService, OtherCreates, OtherDeletes, CreateUntagged,
         DeleteUntagged, Routed, RouteIndex, Route, TypeInv, TypeOK, Tag
<1>3. desired' \in [Instance -> [Host -> Want]]
  <2>1. ASSUME NEW i \in Running, NEW h \in Host, NEW want \in Want, ChangeService(i, h, want)
        PROVE  desired' \in [Instance -> [Host -> Want]]
    <3>1. i \in Instance /\ desired \in [Instance -> [Host -> Want]]
      BY InstanceAssumption DEF Running, TypeInv, TypeOK
    <3>2. desired' = [desired EXCEPT ![i] = [desired[i] EXCEPT ![h] = want]]
      BY <2>1 DEF ChangeService
    <3>3. [desired[i] EXCEPT ![h] = want] \in [Host -> Want]
      BY <3>1
    <3> QED
      BY <3>1, <3>2, <3>3
  <2> QED
    BY <2>1 DEF Environment, OtherCreates, OtherDeletes, TypeInv, TypeOK
<1> QED
  BY <1>1, <1>2, <1>3 DEF TypeInv, TypeOK, PlanSound

LEMMA StutterType == ASSUME TypeInv, UNCHANGED vars PROVE TypeInv'
BY DEF TypeInv, TypeOK, PlanSound, vars

LEMMA NextType == TypeInv /\ [Next]_vars => TypeInv'
<1> SUFFICES ASSUME TypeInv, [Next]_vars PROVE TypeInv'
  OBVIOUS
<1>1. ASSUME NEW p \in Worker, StartRecords(p) PROVE TypeInv'
  BY <1>1, StartRecordsType
<1>2. ASSUME NEW p \in Worker, Progress(p) PROVE TypeInv'
  <2>1. ASSUME NEW h \in Host,
               \/ DeleteRoute(p, h) \/ UpdateRoute(p, h) \/ AdoptRoute(p, h) \/ SkipCreate(p, h)
               \/ CreateRoute(p, h) \/ CreateRefused(p, h) \/ ListAccount(p, h)
        PROVE  TypeInv'
    BY <2>1, DeleteRouteType, UpdateRouteType, AdoptRouteType, SkipCreateType,
       CreateRouteType, CreateRefusedType, ClassifyType
  <2> QED
    BY <1>2, <2>1, ListForRecordsType, CompleteRecordsType, AdjustEndpointsType,
       ReconcileWriteType, PruneType, EndPruneType, PlanType, EndType, IndexType,
       ApplyCoreDNSType, StageWriteType
       DEF Progress, Mutate
<1>3. ASSUME NEW p \in Worker, Failure(p) PROVE TypeInv'
  BY <1>3, EndType, AdjustFailsType, FragmentFailsType, EndPruneType, AbandonType,
     CallFailsType, CreateFailsType, ClassifyType
     DEF Failure
<1>4. ASSUME NEW i \in Running, Crash(i) PROVE TypeInv'
  BY <1>4, CrashType, InstanceAssumption DEF Running
<1> QED
  BY <1>1, <1>2, <1>3, <1>4, EnvironmentType, StutterType DEF Next

(* Every variable keeps its shape in every run of every instance of Provider:
   no rewrite to nothing and no route to no tunnel is ever written. *)
THEOREM TypeCorrect == Spec => []TypeOK
<1>1. TypeInv => TypeOK
  BY DEF TypeInv
<1> QED
  BY <1>1, InitType, NextType, PTL DEF Spec

(* No plan has a host without a tunnel, or one to delete and to update, and
   none stages a rewrite to no Service, whatever the options. *)
THEOREM PlansAreSound == Spec => []PlanSound
<1>1. TypeInv => PlanSound
  BY DEF TypeInv
<1> QED
  BY <1>1, InitType, NextType, PTL DEF Spec

-----------------------------------------------------------------------------
(* Dry run.  The property looks at single steps; what makes it true is that a
   request of a dry run never reaches a step that writes, and has nothing
   pending to forget. *)

(* The steps of a request after a decision to write, or to explain a write
   that was refused. *)
Writing == {"reconcile", "pruneGet", "pruneWrite", "stage", "classify"}

DryInv ==
    \A p \in Worker: InstanceOf[p] \in DryRun =>
        /\ req[p].pc \notin Writing
        /\ \A h \in Host: mem[InstanceOf[p]].pending[h] = NotPending

(* A step of p leaves the other requests and the other memories alone. *)
OwnStep(p) ==
    /\ \A q \in Worker \ {p}: req'[q] = req[q]
    /\ \A i \in Instance \ {InstanceOf[p]}: mem'[i] = mem[i]

(* It neither writes nor is about to, and marks nothing. *)
Quiet(p) ==
    /\ UNCHANGED <<account, fragment>>
    /\ req'[p].pc \notin Writing
    /\ mem'[InstanceOf[p]].pending = mem[InstanceOf[p]].pending

LEMMA InitDry == Init => DryInv
BY InstanceAssumption DEF Init, DryInv, Writing, NoRequest, StartMemory

(* Filtering what is pending keeps nothing pending. *)
LEMMA RetainNothing ==
    ASSUME TypeInv, DryInv, NEW p \in Worker, InstanceOf[p] \in DryRun, NEW keep
    PROVE  retainPending(mem[InstanceOf[p]].pending, keep) = mem[InstanceOf[p]].pending
<1>1. mem[InstanceOf[p]].pending \in Pending
  BY WorkerType DEF Memory
<1> QED
  BY <1>1 DEF DryInv, retainPending, Pending

(* Every step of a request is its own. *)
LEMMA StepsAreLocal ==
    ASSUME TypeInv, NEW p \in Worker, StartRecords(p) \/ Progress(p) \/ Failure(p)
    PROVE  OwnStep(p)
<1> USE DEF OwnStep
<1>1. req \in [Worker -> Request] /\ mem \in [Instance -> Memory]
  BY DEF TypeInv, TypeOK
<1>2. CASE StartRecords(p)
  BY <1>1, <1>2 DEF StartRecords
<1>3. CASE ListForRecords(p) \/ CompleteRecords(p) \/ AdjustEndpoints(p)
  BY <1>1, <1>3 DEF ListForRecords, CompleteRecords, AdjustEndpoints, Finish
<1>4. CASE ReconcileWrite(p) \/ PruneLoad(p) \/ PruneGet(p) \/ PruneWrite(p)
  BY <1>1, <1>4 DEF ReconcileWrite, PruneLoad, PruneGet, PruneWrite, EndPrune, Finish
<1>5. CASE Plan(p) \/ Unattended(p) \/ ListOwned(p) \/ ListForAdoption(p)
  BY <1>1, <1>5 DEF Plan, Unattended, ListOwned, ListForAdoption, Finish
<1>6. CASE ApplyCoreDNS(p) \/ StageWrite(p) \/ EndApply(p)
  BY <1>1, <1>6 DEF ApplyCoreDNS, StageWrite, EndApply, Finish
<1>7. CASE Mutate(p)
  <2>1. PICK h \in Host:
            \/ DeleteRoute(p, h) \/ UpdateRoute(p, h) \/ AdoptRoute(p, h) \/ SkipCreate(p, h)
            \/ CreateRoute(p, h) \/ CreateRefused(p, h) \/ ListAccount(p, h)
    BY <1>7 DEF Mutate
  <2>2. CASE DeleteRoute(p, h) \/ UpdateRoute(p, h) \/ AdoptRoute(p, h) \/ SkipCreate(p, h)
    BY <1>1, <2>2 DEF DeleteRoute, UpdateRoute, AdoptRoute, SkipCreate, Deleted, Updated, Created
  <2>3. CASE CreateRoute(p, h) \/ CreateRefused(p, h) \/ ListAccount(p, h)
    BY <1>1, <2>3
       DEF CreateRoute, CreateRefused, ListAccount, Classified, SetPending, Created
  <2> QED
    BY <2>1, <2>2, <2>3
<1>8. CASE Failure(p)
  <2>1. CASE ListFails(p) \/ AdjustFails(p) \/ FragmentFails(p) \/ PruneFails(p) \/ Abandon(p)
    BY <1>1, <2>1 DEF ListFails, AdjustFails, FragmentFails, PruneFails, Abandon, Finish, EndPrune
  <2>2. ASSUME NEW h \in Host, CallFails(p, h) \/ CreateFails(p, h) PROVE OwnStep(p)
    BY <1>1, <2>2 DEF CallFails, CreateFails, Deleted, Updated, Created
  <2>3. ASSUME NEW h \in Host, ListAccountFails(p, h) PROVE OwnStep(p)
    BY <1>1, <2>3 DEF ListAccountFails, Classified, SetPending
  <2> QED
    BY <1>8, <2>1, <2>2, <2>3 DEF Failure
<1> QED
  BY <1>2, <1>3, <1>4, <1>5, <1>6, <1>7, <1>8 DEF Progress

(* In a dry run each of them is quiet: the gates of AdjustEndpoints,
   PruneLoad and ApplyCoreDNS, and the one at each call. *)
LEMMA DryStepsAreQuiet ==
    ASSUME TypeInv, DryInv, NEW p \in Worker, InstanceOf[p] \in DryRun,
           StartRecords(p) \/ Progress(p) \/ Failure(p)
    PROVE  Quiet(p)
<1> USE DEF Quiet
<1>1. req \in [Worker -> Request] /\ mem \in [Instance -> Memory] /\ InstanceOf[p] \in Instance
  BY WorkerType DEF TypeInv, TypeOK
<1>2. req[p].pc \notin Writing
  BY DEF DryInv
<1>9. NoRequest.pc \notin Writing
  BY DEF NoRequest, Writing
<1>3. CASE StartRecords(p)
  BY <1>1, <1>3 DEF StartRecords, Writing, Request, Memory
<1>4. CASE ListForRecords(p) \/ Unattended(p) \/ EndApply(p)
  BY <1>1, <1>2, <1>4, <1>9 DEF ListForRecords, Unattended, EndApply, Finish, Request
<1>5. CASE CompleteRecords(p)
  <2>1. UNCHANGED <<account, fragment>>
    BY <1>5 DEF CompleteRecords
  <2>2. req'[p].pc = "adjust"
    BY <1>1, <1>5 DEF CompleteRecords, Request
  <2>3. \E keep: mem'[InstanceOf[p]].pending = retainPending(mem[InstanceOf[p]].pending, keep)
    BY <1>1, <1>5 DEF CompleteRecords
  <2> QED
    BY <2>1, <2>2, <2>3, RetainNothing DEF Writing
<1>6. CASE AdjustEndpoints(p)
  <2>1. UNCHANGED <<account, fragment>>
    BY <1>6 DEF AdjustEndpoints
  <2>2. mem'[InstanceOf[p]].pending = mem[InstanceOf[p]].pending
    <3>1. mem' = [mem EXCEPT ![InstanceOf[p]].pending =
                     retainPending(mem[InstanceOf[p]].pending, Adjusted(p))]
      BY <1>6 DEF AdjustEndpoints
    <3>2. mem[InstanceOf[p]] \in Memory
      BY <1>1
    <3>3. mem'[InstanceOf[p]].pending = retainPending(mem[InstanceOf[p]].pending, Adjusted(p))
      BY <1>1, <3>1, <3>2 DEF Memory
    <3> QED
      BY <3>3, RetainNothing
  <2>3. Finish(p) \/ req' = [req EXCEPT ![p].pc = AfterReconcile(InstanceOf[p])]
    BY <1>6 DEF AdjustEndpoints
  <2>4. AfterReconcile(InstanceOf[p]) \notin Writing
    BY DEF AfterReconcile, Writing
  <2>5. req'[p].pc \notin Writing
    BY <1>1, <1>9, <2>3, <2>4 DEF Finish, Request
  <2> QED
    BY <2>1, <2>2, <2>5
<1>7. CASE PruneLoad(p)
  BY <1>1, <1>7 DEF PruneLoad, Writing, Request
<1>14. CASE Plan(p)
  <2> DEFINE i       == InstanceOf[p]
             current == {h \in domainFilter[i]: req[p].index[h] # NoRoute}
             cre     == Adjusted(p) \ current
             upd     == {h \in Adjusted(p) \cap current: req[p].index[h].tunnel # resolve[i][h]}
             del     == IF i \in PolicySync THEN current \ Adjusted(p) ELSE {}
             next    == IF NeedsIndex(del, upd) THEN "index"
                        ELSE IF NeedsAdoption(i, cre) THEN "adoption" ELSE "coredns"
             r       == [req[p] EXCEPT !.pc = next, !.index = NoRoutes,
                                       !.deletes = del, !.updates = upd, !.creates = cre]
  <2>1. Finish(p) \/ req' = [req EXCEPT ![p] = r]
    BY <1>14 DEF Plan
  <2>2. next \notin Writing
    BY DEF Writing
  <2>3. r.pc = next
    <3> HIDE DEF next, del, upd, cre
    <3> QED
      BY <1>1 DEF Request
  <2>4. req'[p].pc \notin Writing
    <3> HIDE DEF r, next
    <3> QED
      BY <1>1, <1>9, <2>1, <2>2, <2>3 DEF Finish
  <2> QED
    BY <1>14, <2>4 DEF Plan
<1>8. CASE ListOwned(p) \/ ListForAdoption(p)
  BY <1>1, <1>2, <1>8 DEF ListOwned, ListForAdoption, AfterIndex, Writing, Request
<1>10. CASE ApplyCoreDNS(p)
  BY <1>1, <1>10 DEF ApplyCoreDNS, Writing, Request
<1>11. CASE ReconcileWrite(p) \/ PruneGet(p) \/ PruneWrite(p) \/ StageWrite(p)
  BY <1>2, <1>11 DEF ReconcileWrite, PruneGet, PruneWrite, StageWrite, Writing
<1>12. CASE Mutate(p)
  <2>1. PICK h \in Host:
            \/ DeleteRoute(p, h) \/ UpdateRoute(p, h) \/ AdoptRoute(p, h) \/ SkipCreate(p, h)
            \/ CreateRoute(p, h) \/ CreateRefused(p, h) \/ ListAccount(p, h)
    BY <1>12 DEF Mutate
  <2>2. CASE DeleteRoute(p, h)
    BY <1>1, <1>2, <2>2 DEF DeleteRoute, DeleteCalled, Deleted, Request
  <2>3. CASE UpdateRoute(p, h)
    BY <1>1, <1>2, <2>3 DEF UpdateRoute, UpdateCalled, Updated, Request
  <2>4. CASE AdoptRoute(p, h) \/ SkipCreate(p, h)
    BY <1>1, <1>2, <2>4 DEF AdoptRoute, AdoptCalled, SkipCreate, Created, Request
  <2>5. CASE CreateRoute(p, h) \/ CreateRefused(p, h) \/ ListAccount(p, h)
    BY <1>2, <2>5 DEF CreateRoute, CreateRefused, CreateCalled, ListAccount, Writing
  <2> QED
    BY <2>1, <2>2, <2>3, <2>4, <2>5
<1>13. CASE Failure(p)
  <2>1. CASE ListFails(p) \/ AdjustFails(p) \/ FragmentFails(p)
    BY <1>1, <1>2, <1>9, <2>1 DEF ListFails, AdjustFails, FragmentFails, Finish, Writing
  <2>2. CASE PruneFails(p) \/ Abandon(p)
    BY <1>1, <1>2, <2>2 DEF PruneFails, EndPrune, Abandon, Writing, Request
  <2>3. ASSUME NEW h \in Host, CallFails(p, h) \/ CreateFails(p, h) \/ ListAccountFails(p, h)
        PROVE  Quiet(p)
    BY <1>1, <1>2, <2>3
       DEF CallFails, DeleteCalled, UpdateCalled, AdoptCalled, CreateFails, CreateCalled,
           ListAccountFails, Writing
  <2> QED
    BY <1>13, <2>1, <2>2, <2>3 DEF Failure
<1> QED
  BY <1>3, <1>4, <1>5, <1>6, <1>7, <1>8, <1>10, <1>11, <1>12, <1>13, <1>14
     DEF Progress

(* A restart forgets what is pending, which in a dry run is nothing. *)
LEMMA CrashIsQuiet ==
    ASSUME TypeInv, DryInv, NEW i \in Running, Crash(i)
    PROVE  /\ UNCHANGED <<account, fragment>>
           /\ \A p \in Worker: req'[p].pc = req[p].pc \/ req'[p].pc = "idle"
           /\ \A j \in Instance: j \in Running \cap DryRun \/ j # i
                                 => mem'[j].pending = mem[j].pending
<1>1. mem \in [Instance -> Memory] /\ i \in Instance
  BY InstanceAssumption DEF TypeInv, TypeOK, Running
<1>2. \A p \in Worker: req'[p].pc = req[p].pc \/ req'[p].pc = "idle"
  BY DEF Crash, NoRequest
<1>3. ASSUME i \in DryRun PROVE mem[i].pending = [h \in Host |-> NotPending]
  <2>1. mem[i].pending \in Pending
    BY <1>1 DEF Memory
  <2> QED
    BY <1>3, <2>1 DEF DryInv, Pending, Running
<1>4. mem' = [mem EXCEPT ![i] = StartMemory] /\ UNCHANGED <<account, fragment>>
  BY DEF Crash
<1>5. mem'[i].pending = [h \in Host |-> NotPending]
  BY <1>1, <1>4 DEF StartMemory
<1> QED
  BY <1>1, <1>2, <1>3, <1>4, <1>5

(* What others do touches no request and no memory. *)
LEMMA OthersAreQuiet ==
    ASSUME Environment
    PROVE  UNCHANGED <<fragment, mem, req>> /\ changes' = changes + 1
BY DEF Environment, ChangeService, OtherCreates, OtherDeletes, Change

LEMMA NextDry == TypeInv /\ DryInv /\ [Next]_vars => DryInv'
<1> SUFFICES ASSUME TypeInv, DryInv, [Next]_vars PROVE DryInv'
  OBVIOUS
<1>1. ASSUME NEW p \in Worker, StartRecords(p) \/ Progress(p) \/ Failure(p) PROVE DryInv'
  <2> SUFFICES ASSUME NEW q \in Worker, InstanceOf[q] \in DryRun
               PROVE  /\ req'[q].pc \notin Writing
                      /\ mem'[InstanceOf[q]].pending = mem[InstanceOf[q]].pending
    BY DEF DryInv
  <2>1. InstanceOf[q] \in Instance
    BY WorkerType
  <2>2. OwnStep(p) /\ (InstanceOf[p] \in DryRun => Quiet(p))
    BY <1>1, StepsAreLocal, DryStepsAreQuiet
  <2> QED
    BY <2>1, <2>2 DEF OwnStep, Quiet, DryInv
<1>2. ASSUME NEW i \in Running, Crash(i) PROVE DryInv'
  <2>1. \A q \in Worker: InstanceOf[q] \in Running \cap Instance
    BY WorkerType DEF Running
  <2> QED
    BY <1>2, <2>1, CrashIsQuiet DEF DryInv, Writing
<1>3. CASE Environment
  BY <1>3, OthersAreQuiet DEF DryInv
<1>4. CASE UNCHANGED vars
  BY <1>4 DEF DryInv, vars
<1> QED
  BY <1>1, <1>2, <1>3, <1>4 DEF Next

(* With every instance in dry run, no step but another writer's changes a
   route or a fragment, and none marks a hostname pending (ApplyChanges). *)
THEOREM DryRunsWriteNothing == Spec => DryRunWritesNothing
<1> DEFINE Kept == Running \subseteq DryRun /\ changes' = changes =>
                       /\ UNCHANGED <<account, fragment>>
                       /\ \A i \in Running: mem[i]'.pending = mem[i].pending
<1>1. ASSUME TypeInv, DryInv, [Next]_vars PROVE [Kept]_vars
  <2> SUFFICES ASSUME Next, Running \subseteq DryRun, changes' = changes
               PROVE  /\ UNCHANGED <<account, fragment>>
                      /\ \A i \in Running: mem[i]'.pending = mem[i].pending
    BY <1>1
  <2>1. \A i \in Running: i \in Instance
    BY InstanceAssumption DEF Running
  <2>2. ASSUME NEW p \in Worker, StartRecords(p) \/ Progress(p) \/ Failure(p)
        PROVE  /\ UNCHANGED <<account, fragment>>
               /\ \A i \in Running: mem[i]'.pending = mem[i].pending
    <3>1. OwnStep(p) /\ Quiet(p)
      BY <1>1, <2>2, StepsAreLocal, DryStepsAreQuiet DEF Running
    <3> QED
      BY <2>1, <3>1 DEF OwnStep, Quiet
  <2>3. ASSUME NEW i \in Running, Crash(i)
        PROVE  /\ UNCHANGED <<account, fragment>>
               /\ \A j \in Running: mem[j]'.pending = mem[j].pending
    BY <1>1, <2>1, <2>3, CrashIsQuiet
  <2>4. ~Environment
    <3>1. changes \in Nat
      BY <1>1, BoundAssumption DEF TypeInv, TypeOK
    <3> QED
      BY <3>1, OthersAreQuiet
  <2> QED
    BY <2>2, <2>3, <2>4 DEF Next
<1>2. Spec => [](TypeInv /\ DryInv)
  BY InitType, InitDry, NextType, NextDry, PTL DEF Spec
<1> QED
  BY <1>1, <1>2, PTL DEF Spec, DryRunWritesNothing
=============================================================================
