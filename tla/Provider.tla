------------------------------ MODULE Provider ------------------------------
(***************************************************************************)
(* The reconcile cycles of the webhook provider                            *)
(* (internal/provider/provider.go), for any number of instances that share *)
(* one Cloudflare account.                                                 *)
(*                                                                         *)
(* One cycle is what ExternalDNS drives: Records, AdjustEndpoints, the     *)
(* plan, ApplyChanges.  Every call to Cloudflare and every read and write  *)
(* of the ConfigMap is a step of its own, so other cycles, other           *)
(* instances, Service changes, crashes and failures fall between any two   *)
(* of them; the code between two calls belongs to the step it follows or   *)
(* precedes.                                                               *)
(*                                                                         *)
(* A worker is a webhook request chain in flight.  ExternalDNS waits for   *)
(* its answers one at a time, but when its container restarts the request  *)
(* it was waiting for runs on in the webhook, unattended, while the next   *)
(* cycle starts: an instance with two workers has that overlap.            *)
(***************************************************************************)
EXTENDS HostnameRoutes, Sequences, FiniteSets

CONSTANTS
    Worker,         \* webhook request chains
    InstanceOf,     \* the instance (its OWNER_ID) each worker belongs to
    Resource,       \* "resource" labels that name a Service
    NoLabel,        \* no "resource" label, or one that names no Service
    Unwanted,       \* no Service asks for the hostname
    NoRewrite,      \* the fragment has no rewrite for the hostname
    NotPending,
    NoTunnel,       \* the resolver has no tunnel for the hostname
    resolve,        \* the tunnel of each hostname, per instance
    tunnels,        \* the tunnels each instance lists, in order
    domainFilter,   \* the hostnames inside each instance's domain filter
    Stored,         \* the name Cloudflare stores a hostname under
    OwnershipStrict, DryRun, AdoptUntagged, CoreDNS, CoreDNSPrune, PolicySync,
                    \* the instances that have each option on
    InitialRoutes,  \* the accounts the system may start in
    InitialDesired, \* the Service annotations it may start with
    InitialFragment,\* what earlier runs left in the ConfigMaps
    FirstId,        \* above every id of the initial routes
    MaxChanges,     \* bound: Service changes and writes by others
    MaxFaults       \* bound: failures, crashes and ExternalDNS restarts

Instance == Owner

Running == {InstanceOf[p] : p \in Worker}   \* the others only left their tags

Wildcard == {h \in Host: Stored[h] # h}

Want     == Resource \cup {NoLabel, Unwanted}
Rewrites == [Host -> Resource \cup {NoRewrite}]
Reasons  == {"self", "other", "untagged", "unknown"}
Pending  == [Host -> Reasons \cup {NotPending}]

ASSUME InstanceAssumption ==
    /\ InstanceOf \in [Worker -> Instance]
    /\ resolve \in [Instance -> [Host -> Tunnel \cup {NoTunnel}]]
    /\ tunnels \in [Instance -> Seq(Tunnel)]
    /\ \A i \in Instance: Len(tunnels[i]) > 0
    /\ domainFilter \in [Instance -> SUBSET Host]
    /\ Stored \in [Host -> Host]
ASSUME OptionAssumption ==
    {OwnershipStrict, DryRun, AdoptUntagged, CoreDNS, CoreDNSPrune, PolicySync}
        \subseteq SUBSET Instance
ASSUME NoneAssumption ==
    /\ {NoLabel, Unwanted, NoRewrite} \cap Resource = {}
    /\ NoLabel # Unwanted
    /\ NoTunnel \notin Tunnel
    /\ NotPending \notin Reasons
ASSUME BoundAssumption == MaxChanges \in Nat /\ MaxFaults \in Nat
ASSUME InitialAssumption ==
    /\ FirstId \in Nat
    /\ InitialDesired \subseteq [Instance -> [Host -> Want]]
    /\ InitialFragment \in [Instance -> Rewrites]
    /\ \A rs \in InitialRoutes:
          /\ rs \in RouteIndex
          /\ \A h \in Host: rs[h] # NoRoute => rs[h].id < FirstId
          /\ \A g, h \in Host: rs[g] # NoRoute /\ rs[h] # NoRoute /\ rs[g].id = rs[h].id => g = h

VARIABLES
    desired,    \* what the Services of each cluster ask for: the resource label
    fragment,   \* the CoreDNS rewrites in each cluster's ConfigMap key
    mem,        \* the memory of each instance's webhook
    req,        \* the request each worker is serving
    changes,    \* changes made so far
    faults      \* faults so far

account == <<routes, nextId>>
bounds  == <<changes, faults>>
vars    == <<routes, nextId, desired, fragment, mem, req, changes, faults>>

Memory ==
    [recordsHosts: SUBSET Host,     \* what the last complete Records exposed
     ownedHosts:   SUBSET Host,     \* what it could manage, before the domain filter
     recordsOK:    BOOLEAN,         \* the last Records was complete
     pending:      Pending,
     emptyTunnels: SUBSET Tunnel]   \* the tunnels whose gauge routes_by_tunnel reads 0

PC == {"idle", "records", "adjust", "reconcile", "prune", "pruneGet", "pruneWrite",
       "plan", "index", "adoption", "coredns", "stage", "mutate", "classify"}

Request ==
    [pc:       PC,
     live:     BOOLEAN,         \* ExternalDNS waits for the answer
     pos:      Nat,             \* the tunnel to list next
     emptyTunnels: SUBSET Tunnel, \* the tunnels Records has counted no route on
     index:    RouteIndex,      \* what Records, then ownedRouteIndex, listed
     existing: RouteIndex,      \* what adoptionIndex listed
     wanted:   [Host -> Want],  \* the endpoints ExternalDNS read
     deletes:  SUBSET Host,     \* the plan, less what is done
     updates:  SUBSET Host,
     creates:  SUBSET Host,
     skipped:  SUBSET Host,     \* what applyCoreDNS could not answer
     adds:     SUBSET Host,     \* the fragment write in progress
     removes:  SUBSET Host,
     snapshot: Rewrites,        \* the fragment that write is computed from
     holders:  RouteIndex,      \* the account list that explains conflicts
     listed:   BOOLEAN,         \* it was made in this ApplyChanges
     conflict: SUBSET Host]     \* the refused create being classified

NoRewrites == [h \in Host |-> NoRewrite]

StartMemory ==
    [recordsHosts |-> {}, ownedHosts |-> {}, recordsOK |-> FALSE,
     pending |-> [h \in Host |-> NotPending], emptyTunnels |-> {}]

NoRequest ==
    [pc |-> "idle", live |-> FALSE, pos |-> 1, emptyTunnels |-> {}, index |-> NoRoutes,
     existing |-> NoRoutes, wanted |-> [h \in Host |-> Unwanted],
     deletes |-> {}, updates |-> {}, creates |-> {},
     skipped |-> {}, adds |-> {}, removes |-> {}, snapshot |-> NoRewrites,
     holders |-> NoRoutes, listed |-> FALSE, conflict |-> {}]

(* Every variable keeps its shape: no fragment ever holds a rewrite to nothing
   and no route ever goes to no tunnel. *)
TypeOK ==
    /\ routes \in RouteIndex
    /\ nextId \in Nat
    /\ desired \in [Instance -> [Host -> Want]]
    /\ fragment \in [Instance -> Rewrites]
    /\ mem \in [Instance -> Memory]
    /\ req \in [Worker -> Request]
    /\ changes \in 0..MaxChanges
    /\ faults \in 0..MaxFaults

Init ==
    /\ routes \in InitialRoutes
    /\ nextId = FirstId
    /\ desired \in InitialDesired
    /\ fragment = InitialFragment
    /\ mem = [i \in Instance |-> StartMemory]
    /\ req = [p \in Worker |-> NoRequest]
    /\ changes = 0
    /\ faults = 0

-----------------------------------------------------------------------------
(* Ownership and the endpoints ExternalDNS works with. *)

(* Mutation of manageable: any owner's tag will do. *)
manageable_AnyOwner(i, r) == r.tag # Untagged \/ i \notin OwnershipStrict

(* A route with this owner's tag; with no tag, only when not strict. *)
manageable(i, r) == r.tag = i \/ (r.tag = Untagged /\ i \notin OwnershipStrict)

(* Mutation of Adjusted: a host with no tunnel is let through. *)
Adjusted_NoTunnelToo(p) == {h \in domainFilter[InstanceOf[p]]: req[p].wanted[h] # Unwanted}

(* The desired hostnames AdjustEndpoints lets through. *)
Adjusted(p) ==
    LET i == InstanceOf[p]
    IN  {h \in domainFilter[i]: req[p].wanted[h] # Unwanted /\ resolve[i][h] # NoTunnel}

(* Mutation of Answerable: an endpoint without a usable label counts. *)
Answerable_AnyLabel(p, hs) == {h \in hs \ Wildcard: req[p].wanted[h] # Unwanted}

(* The hostnames of hs an exact rewrite to a Service can answer. *)
Answerable(p, hs) == {h \in hs \ Wildcard: req[p].wanted[h] \in Resource}

(* Fragment.Apply on the rewrites rw: removals, then additions. *)
Apply(rw, wanted, adds, removes) ==
    [h \in Host |-> IF h \in adds THEN wanted[h]
                    ELSE IF h \in removes THEN NoRewrite ELSE rw[h]]

(* Mutation of retainPending: nothing is dropped. *)
retainPending_KeepAll(pending, keep) == pending

retainPending(pending, keep) ==
    [h \in Host |-> IF h \in keep THEN pending[h] ELSE NotPending]

Finish(p) == req' = [req EXCEPT ![p] = NoRequest]

(* An index with what the list of the tunnel at req[p].pos adds to it. *)
NextTunnel(p) == tunnels[InstanceOf[p]][req[p].pos]
AddTo(ix, hs) == [h \in Host |-> IF h \in hs THEN routes[h] ELSE ix[h]]

(* Mutation of FullListing: filtered by ownership, like the delete index. *)
FullListing_OwnedOnly(p) ==
    AddTo(req[p].existing, {h \in OnTunnel(NextTunnel(p)): manageable(InstanceOf[p], routes[h])})

OwnedListing(p) ==
    AddTo(req[p].index, {h \in OnTunnel(NextTunnel(p)): manageable(InstanceOf[p], routes[h])})
FullListing(p) == AddTo(req[p].existing, OnTunnel(NextTunnel(p)))

(* Mutation of EmptySoFar: only the routes inside the domain filter count. *)
EmptySoFar_InFilter(p) ==
    LET i == InstanceOf[p]
        t == NextTunnel(p)
    IN  IF \E h \in OnTunnel(t) \cap domainFilter[i]: manageable(i, routes[h])
        THEN req[p].emptyTunnels \ {t} ELSE req[p].emptyTunnels \cup {t}

(* Mutation of EmptySoFar: only the routes on their right tunnel count. *)
EmptySoFar_InPlace(p) ==
    LET i == InstanceOf[p]
        t == NextTunnel(p)
    IN  IF \E h \in OnTunnel(t): manageable(i, routes[h]) /\ resolve[i][h] = t
        THEN req[p].emptyTunnels \ {t} ELSE req[p].emptyTunnels \cup {t}

(* perTunnel of Records: whether it counts 0 on the tunnel listed now. *)
EmptySoFar(p) ==
    LET i == InstanceOf[p]
        t == NextTunnel(p)
    IN  IF \E h \in OnTunnel(t): manageable(i, routes[h])
        THEN req[p].emptyTunnels \ {t} ELSE req[p].emptyTunnels \cup {t}

LastTunnel(p) == req[p].pos = Len(tunnels[InstanceOf[p]])

-----------------------------------------------------------------------------
(* Records *)

(* ExternalDNS starts a cycle when no earlier one is waiting for an answer. *)
StartRecords(p) ==
    LET i == InstanceOf[p]
    IN  /\ req[p].pc = "idle"
        /\ \A q \in Worker: InstanceOf[q] = i => ~req[q].live
        /\ req' = [req EXCEPT ![p].pc = "records", ![p].live = TRUE]
        /\ mem' = [mem EXCEPT ![i].recordsOK = FALSE]
        /\ UNCHANGED <<account, desired, fragment, bounds>>

ListForRecords(p) ==
    /\ req[p].pc = "records"
    /\ ~LastTunnel(p)
    /\ req' = [req EXCEPT ![p].index = OwnedListing(p), ![p].pos = @ + 1,
                          ![p].emptyTunnels = EmptySoFar(p)]
    /\ UNCHANGED <<account, desired, fragment, mem, bounds>>

(* The last list: the snapshot becomes complete, and ExternalDNS reads the
   Services next. *)
CompleteRecords(p) ==
    LET i     == InstanceOf[p]
        found == OwnedListing(p)
        owned == {h \in Host: found[h] # NoRoute}
        shown == owned \cap domainFilter[i]
    IN  /\ req[p].pc = "records"
        /\ LastTunnel(p)
        /\ mem' = [mem EXCEPT ![i] =
                      [recordsHosts |-> shown, ownedHosts |-> owned, recordsOK |-> TRUE,
                       pending |-> retainPending(mem[i].pending, Host \ shown),
                       emptyTunnels |-> EmptySoFar(p)]]
        /\ req' = [req EXCEPT ![p].pc = "adjust", ![p].pos = 1, ![p].index = found,
                              ![p].wanted = desired[i], ![p].emptyTunnels = {}]
        /\ UNCHANGED <<account, desired, fragment, bounds>>

-----------------------------------------------------------------------------
(* AdjustEndpoints *)

AfterReconcile(i) == IF i \in CoreDNS \cap CoreDNSPrune THEN "prune" ELSE "plan"

(* Mutation of AdjustEndpoints: existing routes are not reconciled. *)
AdjustEndpoints_PlanOnly(p) ==
    LET i == InstanceOf[p]
    IN  /\ req[p].pc = "adjust"
        /\ req[p].live
        /\ mem' = [mem EXCEPT ![i].pending = retainPending(@, Adjusted(p))]
        /\ req' = [req EXCEPT ![p].pc = AfterReconcile(i)]
        /\ UNCHANGED <<account, desired, fragment, bounds>>

(* Up to reconcileExistingCoreDNS's read of the fragment.  A host of an
   existing route that cannot be answered fails the whole call, after the
   write for the others. *)
AdjustEndpoints(p) ==
    LET i       == InstanceOf[p]
        present == IF i \in CoreDNS THEN (Adjusted(p) \cap mem[i].recordsHosts) \ Wildcard ELSE {}
        adds    == Answerable(p, present)
        after   == Apply(fragment[i], req[p].wanted, adds, {})
    IN  /\ req[p].pc = "adjust"
        /\ req[p].live
        /\ mem' = [mem EXCEPT ![i].pending = retainPending(@, Adjusted(p))]
        /\ \/ /\ i \notin DryRun
              /\ after # fragment[i]
              /\ req' = [req EXCEPT ![p].pc = "reconcile", ![p].adds = adds,
                                    ![p].skipped = present \ adds,
                                    ![p].snapshot = fragment[i]]
           \/ /\ i \in DryRun \/ after = fragment[i]
              /\ IF present = adds
                 THEN req' = [req EXCEPT ![p].pc = AfterReconcile(i)]
                 ELSE Finish(p)
        /\ UNCHANGED <<account, desired, fragment, bounds>>

WriteFragment(p) ==
    fragment' = [fragment EXCEPT ![InstanceOf[p]] =
                    Apply(req[p].snapshot, req[p].wanted, req[p].adds, req[p].removes)]

ReconcileWrite(p) ==
    /\ req[p].pc = "reconcile"
    /\ WriteFragment(p)
    /\ IF req[p].skipped = {}
       THEN req' = [req EXCEPT ![p].pc = AfterReconcile(InstanceOf[p]), ![p].adds = {},
                               ![p].snapshot = NoRewrites]
       ELSE Finish(p)
    /\ UNCHANGED <<account, desired, mem, bounds>>

(* Mutations of Prunable: before a complete Records; of any hostname. *)
Prunable_AnyTime(p) ==
    LET i == InstanceOf[p]
    IN  {h \in domainFilter[i] \ mem[i].ownedHosts:
            fragment[i][h] # NoRewrite /\ h \notin Adjusted(p) /\ resolve[i][h] # NoTunnel}

Prunable_AnyName(p) ==
    LET i == InstanceOf[p]
    IN  {h \in Host \ mem[i].ownedHosts:
            mem[i].recordsOK /\ fragment[i][h] # NoRewrite /\ h \notin Adjusted(p)}

(* What pruneCoreDNS finds stale in the fragment it loads. *)
Prunable(p) ==
    LET i == InstanceOf[p]
    IN  {h \in domainFilter[i]:
            /\ mem[i].recordsOK
            /\ fragment[i][h] # NoRewrite
            /\ h \notin mem[i].ownedHosts
            /\ h \notin Adjusted(p)
            /\ resolve[i][h] # NoTunnel}

PruneLoad(p) ==
    /\ req[p].pc = "prune"
    /\ IF Prunable(p) = {} \/ InstanceOf[p] \in DryRun
       THEN req' = [req EXCEPT ![p].pc = "plan"]
       ELSE req' = [req EXCEPT ![p].pc = "pruneGet", ![p].removes = Prunable(p)]
    /\ UNCHANGED <<account, desired, fragment, mem, bounds>>

(* Apply reads the fragment again, and writes only a change. *)
PruneGet(p) ==
    LET now == fragment[InstanceOf[p]]
    IN  /\ req[p].pc = "pruneGet"
        /\ IF \E h \in req[p].removes: now[h] # NoRewrite
           THEN req' = [req EXCEPT ![p].pc = "pruneWrite", ![p].snapshot = now]
           ELSE req' = [req EXCEPT ![p].pc = "plan", ![p].removes = {}]
        /\ UNCHANGED <<account, desired, fragment, mem, bounds>>

EndPrune(p) ==
    req' = [req EXCEPT ![p].pc = "plan", ![p].removes = {}, ![p].snapshot = NoRewrites]

PruneWrite(p) ==
    /\ req[p].pc = "pruneWrite"
    /\ WriteFragment(p)
    /\ EndPrune(p)
    /\ UNCHANGED <<account, desired, mem, bounds>>

-----------------------------------------------------------------------------
(* ExternalDNS plans from Records and the adjusted endpoints. *)

(* Mutation of NeedsIndex: the index is built for updates only. *)
NeedsIndex_UpdatesOnly(del, upd) == upd # {}

NeedsIndex(del, upd) == del \cup upd # {}
NeedsAdoption(i, cre) == i \in AdoptUntagged /\ cre # {}

AfterIndex(p) ==
    IF NeedsAdoption(InstanceOf[p], req[p].creates) THEN "adoption" ELSE "coredns"

Plan(p) ==
    LET i       == InstanceOf[p]
        current == {h \in domainFilter[i]: req[p].index[h] # NoRoute}
        cre     == Adjusted(p) \ current
        upd     == {h \in Adjusted(p) \cap current: req[p].index[h].tunnel # resolve[i][h]}
        del     == IF i \in PolicySync THEN current \ Adjusted(p) ELSE {}
    IN  /\ req[p].pc = "plan"
        /\ req[p].live
        /\ IF cre \cup upd \cup del = {}
           THEN Finish(p)
           ELSE req' = [req EXCEPT ![p].pc = IF NeedsIndex(del, upd) THEN "index"
                                             ELSE IF NeedsAdoption(i, cre) THEN "adoption"
                                             ELSE "coredns",
                                   ![p].index = NoRoutes,
                                   ![p].deletes = del, ![p].updates = upd, ![p].creates = cre]
        /\ UNCHANGED <<account, desired, fragment, mem, bounds>>

(* ExternalDNS is gone: no next request follows the one that ended. *)
Unattended(p) ==
    /\ req[p].pc \in {"adjust", "plan"}
    /\ ~req[p].live
    /\ Finish(p)
    /\ UNCHANGED <<account, desired, fragment, mem, bounds>>

-----------------------------------------------------------------------------
(* ApplyChanges: the indexes, then the fragment, then the routes. *)

(* ownedRouteIndex, one tunnel *)
ListOwned(p) ==
    /\ req[p].pc = "index"
    /\ req' = IF LastTunnel(p)
              THEN [req EXCEPT ![p].index = OwnedListing(p), ![p].pos = 1,
                               ![p].pc = AfterIndex(p)]
              ELSE [req EXCEPT ![p].index = OwnedListing(p), ![p].pos = @ + 1]
    /\ UNCHANGED <<account, desired, fragment, mem, bounds>>

(* adoptionIndex, one tunnel *)
ListForAdoption(p) ==
    /\ req[p].pc = "adoption"
    /\ req' = IF LastTunnel(p)
              THEN [req EXCEPT ![p].existing = FullListing(p), ![p].pos = 1,
                               ![p].pc = "coredns"]
              ELSE [req EXCEPT ![p].existing = FullListing(p), ![p].pos = @ + 1]
    /\ UNCHANGED <<account, desired, fragment, mem, bounds>>

(* Mutation of ApplyCoreDNS: a host that cannot be answered is not skipped. *)
ApplyCoreDNS_NoSkip(p) ==
    LET i     == InstanceOf[p]
        adds  == Answerable(p, req[p].creates)
        after == Apply(fragment[i], req[p].wanted, adds, req[p].deletes)
    IN  /\ req[p].pc = "coredns"
        /\ IF i \in CoreDNS \ DryRun /\ after # fragment[i]
           THEN req' = [req EXCEPT ![p].pc = "stage", ![p].adds = adds,
                                   ![p].removes = req[p].deletes, ![p].snapshot = fragment[i]]
           ELSE req' = [req EXCEPT ![p].pc = "mutate"]
        /\ UNCHANGED <<account, desired, fragment, mem, bounds>>

(* Up to applyCoreDNS's read of the fragment. *)
ApplyCoreDNS(p) ==
    LET i     == InstanceOf[p]
        adds  == Answerable(p, req[p].creates)
        after == Apply(fragment[i], req[p].wanted, adds, req[p].deletes)
        skip  == IF i \in CoreDNS THEN req[p].creates \ adds ELSE {}
    IN  /\ req[p].pc = "coredns"
        /\ IF i \in CoreDNS \ DryRun /\ after # fragment[i]
           THEN req' = [req EXCEPT ![p].pc = "stage", ![p].skipped = skip, ![p].adds = adds,
                                   ![p].removes = req[p].deletes, ![p].snapshot = fragment[i]]
           ELSE req' = [req EXCEPT ![p].pc = "mutate", ![p].skipped = skip]
        /\ UNCHANGED <<account, desired, fragment, mem, bounds>>

StageWrite(p) ==
    /\ req[p].pc = "stage"
    /\ WriteFragment(p)
    /\ req' = [req EXCEPT ![p].pc = "mutate", ![p].adds = {}, ![p].removes = {},
                          ![p].snapshot = NoRewrites]
    /\ UNCHANGED <<account, desired, mem, bounds>>

(* The host whose turn it is: deletes, then updates, then creates. *)
Deleting(p, h) == req[p].pc = "mutate" /\ h \in req[p].deletes
Updating(p, h) == req[p].pc = "mutate" /\ req[p].deletes = {} /\ h \in req[p].updates
Creating(p, h) ==
    req[p].pc = "mutate" /\ req[p].deletes = {} /\ req[p].updates = {} /\ h \in req[p].creates

Deleted(p, h) == req' = [req EXCEPT ![p].deletes = @ \ {h}]
Updated(p, h) == req' = [req EXCEPT ![p].updates = @ \ {h}]
Created(p, h) == req' = [req EXCEPT ![p].creates = @ \ {h}]

(* The index has a route to delete, and dry run does not suppress the call. *)
DeleteCalled(p, h) == req[p].index[h] # NoRoute /\ InstanceOf[p] \notin DryRun

DeleteRoute(p, h) ==
    /\ Deleting(p, h)
    /\ IF DeleteCalled(p, h) THEN DeleteHostnameRoute(req[p].index[h].id)
                             ELSE UNCHANGED account
    /\ Deleted(p, h)
    /\ UNCHANGED <<desired, fragment, mem, bounds>>

(* Mutations of UpdateCalled: in dry run too; when nothing is to be moved. *)
UpdateCalled_DryRunToo(p, h) ==
    req[p].index[h] # NoRoute /\ req[p].index[h].tunnel # resolve[InstanceOf[p]][h]

UpdateCalled_SameTunnel(p, h) ==
    /\ req[p].index[h] # NoRoute
    /\ req[p].index[h].tunnel = resolve[InstanceOf[p]][h]
    /\ InstanceOf[p] \notin DryRun

UpdateCalled(p, h) ==
    /\ req[p].index[h] # NoRoute
    /\ req[p].index[h].tunnel # resolve[InstanceOf[p]][h]
    /\ InstanceOf[p] \notin DryRun

(* The retarget sends back the comment the index holds. *)
UpdateRoute(p, h) ==
    LET r == req[p].index[h]
    IN  /\ Updating(p, h)
        /\ IF UpdateCalled(p, h)
           THEN PatchHostnameRoute(r.id, resolve[InstanceOf[p]][h], r.tag)
           ELSE UNCHANGED account
        /\ Updated(p, h)
        /\ UNCHANGED <<desired, fragment, mem, bounds>>

Adopting(p, h) == Creating(p, h) /\ h \notin req[p].skipped /\ req[p].existing[h] # NoRoute

(* Mutation of AdoptCalled: whoever tagged the route. *)
AdoptCalled_AnyTag(p, h) ==
    req[p].existing[h].tunnel = resolve[InstanceOf[p]][h] /\ InstanceOf[p] \notin DryRun

(* On the wanted tunnel and with no owner's tag, as the index has it. *)
AdoptCalled(p, h) ==
    /\ req[p].existing[h].tunnel = resolve[InstanceOf[p]][h]
    /\ req[p].existing[h].tag = Untagged
    /\ InstanceOf[p] \notin DryRun

AdoptRoute(p, h) ==
    /\ Adopting(p, h)
    /\ IF AdoptCalled(p, h)
       THEN PatchHostnameRouteComment(req[p].existing[h].id, InstanceOf[p])
       ELSE UNCHANGED account
    /\ Created(p, h)
    /\ UNCHANGED <<desired, fragment, mem, bounds>>

SkipCreate(p, h) ==
    /\ Creating(p, h)
    /\ \/ h \in req[p].skipped
       \/ req[p].existing[h] = NoRoute /\ InstanceOf[p] \in DryRun
    /\ Created(p, h)
    /\ UNCHANGED <<account, desired, fragment, mem, bounds>>

CreateCalled(p, h) ==
    /\ Creating(p, h)
    /\ h \notin req[p].skipped
    /\ req[p].existing[h] = NoRoute
    /\ InstanceOf[p] \notin DryRun

CreateRoute(p, h) ==
    LET i == InstanceOf[p]
    IN  /\ CreateCalled(p, h)
        /\ CreateHostnameRoute(Stored[h], resolve[i][h], i)
        /\ mem' = [mem EXCEPT ![i].pending[h] = NotPending]
        /\ Created(p, h)
        /\ UNCHANGED <<desired, fragment, bounds>>

(* classifyConflict *)
Reason(i, h, r) ==
    CASE r = NoRoute                             -> "unknown"
      [] r # NoRoute /\ r.tag = i                -> "self"
      [] r # NoRoute /\ r.tag \in Instance \ {i} -> "other"
      [] OTHER                                   -> "untagged"

SetPending(p, h, account_list) ==
    mem' = [mem EXCEPT ![InstanceOf[p]].pending[h] = Reason(InstanceOf[p], h, account_list[h])]

(* 409: the name is held.  The account is listed once in an ApplyChanges. *)
CreateRefused(p, h) ==
    /\ CreateCalled(p, h)
    /\ Routed(Stored[h])
    /\ \/ /\ req[p].listed
          /\ SetPending(p, h, req[p].holders)
          /\ Created(p, h)
       \/ /\ ~req[p].listed
          /\ req' = [req EXCEPT ![p].pc = "classify", ![p].conflict = {h}]
          /\ UNCHANGED mem
    /\ UNCHANGED <<account, desired, fragment, bounds>>

Classified(p, h, account_list) ==
    /\ SetPending(p, h, account_list)
    /\ req' = [req EXCEPT ![p].pc = "mutate", ![p].conflict = {}, ![p].listed = TRUE,
                          ![p].holders = account_list, ![p].creates = @ \ {h}]

ListAccount(p, h) ==
    /\ req[p].pc = "classify"
    /\ h \in req[p].conflict
    /\ Classified(p, h, routes)
    /\ UNCHANGED <<account, desired, fragment, bounds>>

EndApply(p) ==
    /\ req[p].pc = "mutate"
    /\ req[p].deletes \cup req[p].updates \cup req[p].creates = {}
    /\ Finish(p)
    /\ UNCHANGED <<account, desired, fragment, mem, bounds>>

-----------------------------------------------------------------------------
(* What goes wrong.  A call that fails after it took effect is the same as
   one that succeeds, except where the two differ below. *)

Fault == faults < MaxFaults /\ faults' = faults + 1 /\ UNCHANGED changes

(* A list fails: the request fails, and with it the cycle. *)
ListFails(p) ==
    /\ Fault
    /\ req[p].pc \in {"records", "index", "adoption"}
    /\ Finish(p)
    /\ UNCHANGED <<account, desired, fragment, mem>>

(* reconcileExistingCoreDNS cannot read the fragment. *)
AdjustFails(p) ==
    LET i == InstanceOf[p]
    IN  /\ Fault
        /\ req[p].pc = "adjust"
        /\ req[p].live
        /\ i \in CoreDNS \ DryRun
        /\ Answerable(p, Adjusted(p) \cap mem[i].recordsHosts) # {}
        /\ mem' = [mem EXCEPT ![i].pending = retainPending(@, Adjusted(p))]
        /\ Finish(p)
        /\ UNCHANGED <<account, desired, fragment>>

(* applyCoreDNS cannot read the fragment, or a write is answered with an
   error, whether or not the ConfigMap took it: the cycle ends. *)
FragmentFails(p) ==
    LET i == InstanceOf[p]
    IN  /\ Fault
        /\ \/ /\ req[p].pc = "coredns"
              /\ i \in CoreDNS \ DryRun
              /\ req[p].deletes \cup Answerable(p, req[p].creates) # {}
              /\ UNCHANGED fragment
           \/ /\ req[p].pc \in {"reconcile", "stage"}
              /\ WriteFragment(p) \/ UNCHANGED fragment
        /\ Finish(p)
        /\ UNCHANGED <<account, desired, mem>>

(* A failed prune is logged and the endpoints are returned all the same. *)
PruneFails(p) ==
    /\ Fault
    /\ \/ /\ req[p].pc \in {"prune", "pruneGet"}
          /\ UNCHANGED fragment
       \/ /\ req[p].pc = "pruneWrite"
          /\ WriteFragment(p) \/ UNCHANGED fragment
    /\ EndPrune(p)
    /\ UNCHANGED <<account, desired, mem>>

(* A delete, retarget or adoption that does not take effect: the host is
   reported and the batch goes on. *)
CallFails(p, h) ==
    /\ Fault
    /\ \/ Deleting(p, h) /\ DeleteCalled(p, h) /\ Deleted(p, h)
       \/ Updating(p, h) /\ UpdateCalled(p, h) /\ Updated(p, h)
       \/ Adopting(p, h) /\ AdoptCalled(p, h) /\ Created(p, h)
    /\ UNCHANGED <<account, desired, fragment, mem>>

(* A create answered with another error, or whose answer is lost. *)
CreateFails(p, h) ==
    /\ Fault
    /\ CreateCalled(p, h)
    /\ \/ CreateHostnameRoute(Stored[h], resolve[InstanceOf[p]][h], InstanceOf[p])
       \/ UNCHANGED account
    /\ Created(p, h)
    /\ UNCHANGED <<desired, fragment, mem>>

(* The account list fails: the reason is unknown, and stays so for the call. *)
ListAccountFails(p, h) ==
    /\ Fault
    /\ req[p].pc = "classify"
    /\ h \in req[p].conflict
    /\ Classified(p, h, NoRoutes)
    /\ UNCHANGED <<account, desired, fragment>>

(* The webhook container restarts: its memory and its requests are gone.
   Between two requests ExternalDNS does not notice, and goes on with the
   records and endpoints it holds. *)
Crash(i) ==
    /\ Fault
    /\ req' = [p \in Worker |-> IF InstanceOf[p] = i /\ req[p].pc \notin {"adjust", "plan"}
                                 THEN NoRequest ELSE req[p]]
    /\ mem' = [mem EXCEPT ![i] = StartMemory]
    /\ UNCHANGED <<account, desired, fragment>>

(* The external-dns container restarts: its request runs on, unattended. *)
Abandon(p) ==
    /\ Fault
    /\ req[p].live
    /\ req' = [req EXCEPT ![p].live = FALSE]
    /\ UNCHANGED <<account, desired, fragment, mem>>

-----------------------------------------------------------------------------
(* What others do. *)

Change == changes < MaxChanges /\ changes' = changes + 1 /\ UNCHANGED faults

(* A Service annotation is added, removed or moved to another Service. *)
ChangeService(i, h, want) ==
    /\ Change
    /\ desired[i][h] # want
    /\ desired' = [desired EXCEPT ![i][h] = want]
    /\ UNCHANGED <<account, fragment, mem, req>>

OtherCreates(h, t) ==
    /\ Change
    /\ CreateUntagged(h, t)
    /\ UNCHANGED <<desired, fragment, mem, req>>

OtherDeletes(h) ==
    /\ Change
    /\ DeleteUntagged(h)
    /\ UNCHANGED <<desired, fragment, mem, req>>

-----------------------------------------------------------------------------

Mutate(p) == \E h \in Host:
    \/ DeleteRoute(p, h)
    \/ UpdateRoute(p, h)
    \/ AdoptRoute(p, h)
    \/ SkipCreate(p, h)
    \/ CreateRoute(p, h)
    \/ CreateRefused(p, h)
    \/ ListAccount(p, h)

(* The steps of a request that nothing fails. *)
Progress(p) ==
    \/ ListForRecords(p)
    \/ CompleteRecords(p)
    \/ AdjustEndpoints(p)
    \/ ReconcileWrite(p)
    \/ PruneLoad(p)
    \/ PruneGet(p)
    \/ PruneWrite(p)
    \/ Plan(p)
    \/ Unattended(p)
    \/ ListOwned(p)
    \/ ListForAdoption(p)
    \/ ApplyCoreDNS(p)
    \/ StageWrite(p)
    \/ Mutate(p)
    \/ EndApply(p)

Failure(p) ==
    \/ ListFails(p)
    \/ AdjustFails(p)
    \/ FragmentFails(p)
    \/ PruneFails(p)
    \/ Abandon(p)
    \/ \E h \in Host: CallFails(p, h) \/ CreateFails(p, h) \/ ListAccountFails(p, h)

Environment ==
    \/ \E i \in Running, h \in Host, want \in Want: ChangeService(i, h, want)
    \/ \E h \in Host, t \in Tunnel: OtherCreates(h, t)
    \/ \E h \in Host: OtherDeletes(h)

Next ==
    \/ \E p \in Worker: StartRecords(p) \/ Progress(p) \/ Failure(p)
    \/ \E i \in Running: Crash(i)
    \/ Environment

Spec == Init /\ [][Next]_vars

(* A request in flight is served, and ExternalDNS starts the next cycle. *)
Fairness ==
    /\ \A p \in Worker: WF_vars(Progress(p))
    /\ \A i \in Running: WF_vars(\E p \in Worker: InstanceOf[p] = i /\ StartRecords(p))

FairSpec == Spec /\ Fairness

-----------------------------------------------------------------------------
(* Properties *)

(* A list never runs past its last tunnel, every host of a plan has a tunnel
   to go to, no host is both deleted and updated, and the rewrites of a write
   under way all point at a Service: the branches of applyUpdates and
   applyCreates for a host with no tunnel are dead, whatever the mapping, the
   filter and the labels are. *)
PlanSound ==
    \A p \in Worker:
        /\ req[p].pos \in 1..Len(tunnels[InstanceOf[p]])
        /\ \A h \in req[p].updates \cup req[p].creates: resolve[InstanceOf[p]][h] # NoTunnel
        /\ req[p].deletes \cap req[p].updates = {}
        /\ \A h \in req[p].adds: req[p].wanted[h] \in Resource
        /\ req[p].adds = {} \/ req[p].pc \in {"reconcile", "stage"}

(* The instances that may come to manage a route nobody tagged. *)
TakesUntagged == {i \in Running: i \in AdoptUntagged \/ i \notin OwnershipStrict}
SoleTaker     == \A i, j \in TakesUntagged: i = j

(* i's tag, or no tag while it is i that takes untagged routes. *)
Claimable(i, tag) == tag = i \/ (tag = Untagged /\ i \in TakesUntagged)

(* No id is live twice, and the next one is new. *)
FreshIds ==
    /\ \A h \in Host: Routed(h) => routes[h].id < nextId
    /\ \A g, h \in Host: Routed(g) /\ HasId(h, routes[g].id) => g = h

IndexHolds(p) ==
    \A h \in Host: req[p].index[h] # NoRoute =>
        /\ req[p].index[h].id < nextId
        /\ Claimable(InstanceOf[p], req[p].index[h].tag)
        /\ \A g \in Host: HasId(g, req[p].index[h].id) =>
              g = h /\ Claimable(InstanceOf[p], routes[g].tag)

ExistingHolds(p) ==
    \A h \in Host: req[p].existing[h] # NoRoute =>
        /\ req[p].existing[h].id < nextId
        /\ InstanceOf[p] \in TakesUntagged
        /\ \A g \in Host: HasId(g, req[p].existing[h].id) =>
              /\ g = h
              /\ req[p].existing[h].tag = Untagged => Claimable(InstanceOf[p], routes[g].tag)

(* However old an index is when a delete, a retarget or an adoption uses it,
   an id it holds is gone or still is the route of that hostname, with this
   instance's tag or still none (ownedRouteIndex, adoptionIndex): no other
   writer has re-tagged it in between.  Two instances that both take untagged
   routes break this, see MCProvider_adoptrace. *)
StaleIndexHolds ==
    SoleTaker => FreshIds /\ \A p \in Worker: IndexHolds(p) /\ ExistingHolds(p)

(* Where no hostname of i is to go: what TUNNEL_DRAIN may name. *)
Retired(i, t) == \A h \in Host: resolve[i][h] # t

(* Once the gauge routes_by_tunnel reads 0 for a tunnel that is being drained,
   no route with this instance's tag is on it, and none comes back while the
   process runs, in whatever order lists, retargets, adoptions and the writes
   of others fall: the tunnel can be removed from the configuration
   (SetRoutesByTunnel, "a draining tunnel reading 0 is the signal"). *)
DrainedStaysEmpty ==
    SoleTaker =>
        \A i \in Running: \A t \in mem[i].emptyTunnels:
            Retired(i, t) => ~\E h \in OnTunnel(t): routes[h].tag = i

-----------------------------------------------------------------------------
(* The promise to the other instances: the tag of a route is the claim on its
   name, the deletes of a plan are what its owner gives up. *)

claim  == [h \in Host |-> IF Routed(h) THEN routes[h].tag ELSE NoRoute]
giving == [i \in Instance |-> UNION {req[p].deletes : p \in {q \in Worker: InstanceOf[q] = i}}]

Claims == INSTANCE RouteClaims WITH Name <- Host, Unmarked <- Untagged, Free <- NoRoute

(* Whatever faults, restarts and stale lists come between, an owner's claim on
   a name ends only by the delete its own plan holds, and another owner's
   claim begins only on a name nobody has a claim on: the create that is
   refused, the comment and the planned delete implement RouteClaims. *)
KeepsClaims == Claims!Spec

-----------------------------------------------------------------------------

Wants(i, h) == desired[i][h] # Unwanted /\ h \in domainFilter[i] /\ resolve[i][h] # NoTunnel

Lists(i, t) == \E k \in 1..Len(tunnels[i]): tunnels[i][k] = t

(* Records of i reports the route of h, if h is inside the domain filter. *)
Holds(i, h) == Routed(h) /\ manageable(i, routes[h]) /\ Lists(i, routes[h].tunnel)

(* The worker has just deleted or retargeted h for its plan, or tried to. *)
Acted(p, h) ==
    /\ h \in req[p].deletes \cup req[p].updates
    /\ h \notin (req[p].deletes \cup req[p].updates)'

Consented(h) ==
    Routed(h) /\ routes[h].tag # Untagged /\ routes'[h] # routes[h] =>
        \E p \in Worker: InstanceOf[p] = routes[h].tag /\ Acted(p, h)

(* A route with an owner's tag changes or goes only by a delete or a retarget
   its owner planned for that hostname: however stale an index is, nobody
   deletes, moves or re-tags another owner's route (manageable, adopt). *)
OwnerConsents == [][\A h \in Host: Consented(h)]_vars

(* A rewrite leaves the fragment only with the planned delete of its route,
   or by a prune that meets all four of its guards on the state it finds: no
   live route of this instance carries the name, the endpoints of this cycle
   do not ask for it, and the name is in the filter and the tunnel map. *)
OnlyStaleRewritesGo ==
    [][\A i \in Instance, h \in Host:
          fragment[i][h] # NoRewrite /\ fragment'[i][h] = NoRewrite =>
              \E p \in Worker:
                  /\ InstanceOf[p] = i
                  /\ \/ h \in req[p].deletes
                     \/ /\ req[p].pc = "pruneWrite"
                        /\ h \notin Adjusted(p)
                        /\ ~Holds(i, h)
                        /\ h \in domainFilter[i]
                        /\ resolve[i][h] # NoTunnel]_vars

(* Under upsert-only, which never deletes, the rewrite of a live route of the
   instance stays (docs/multi-tunnel-lifecycle.md, section 6, first guard). *)
RoutedKeepsRewrite ==
    [][\A i \in Instance \ PolicySync, h \in Host:
          Holds(i, h) /\ fragment[i][h] # NoRewrite => fragment'[i][h] # NoRewrite]_vars

(* A dry run writes nothing, anywhere, and marks nothing pending: what it
   would do is only logged (ApplyChanges, "the gate sits at each mutating
   call"). *)
DryRunWritesNothing ==
    [][Running \subseteq DryRun /\ changes' = changes =>
          UNCHANGED <<account, fragment>> /\ \A i \in Running: mem[i]'.pending = mem[i].pending]_vars

(* With CoreDNS on, no instance gives a hostname a route before its rewrite
   is in the ConfigMap, by a create or by an adoption (applyCoreDNS, "BEFORE
   any Cloudflare mutation"): no fault leaves a route with no answer. *)
RewriteBeforeRoute ==
    [][\A i \in CoreDNS, h \in Host:
          /\ routes'[h] # NoRoute /\ routes'[h].tag = i
          /\ Routed(h) => routes[h].tag # i
          => fragment[i][h] # NoRewrite]_vars

(* A host of an existing route with no usable label fails every
   AdjustEndpoints of its instance; what follows is about clusters where
   the Services end up without one. *)
Labelled == <>[](\A i \in CoreDNS, h \in Host: desired[i][h] # NoLabel)

Served(i, h) ==
    /\ Holds(i, h)
    /\ routes[h].tunnel = resolve[i][h]
    /\ i \in CoreDNS => fragment[i][h] = desired[i][h]

(* Another writer has the name and neither releases it nor lets i adopt it. *)
KeptByAnother(i, h) ==
    /\ Routed(h)
    /\ ~Holds(i, h)
    /\ \A j \in (PolicySync \cap Running) \ DryRun:
          routes[h].tag = j /\ Holds(j, h) /\ h \in domainFilter[j] => Wants(j, h)
    /\ ~(i \in AdoptUntagged /\ routes[h].tag = Untagged /\ routes[h].tunnel = resolve[i][h])

(* Once changes and faults stop, every wanted hostname has both its legs, on
   the tunnel the resolver picks and with the Service that asks for it,
   unless another writer keeps the name: failures, crashes, handoffs, swaps
   and retargets all converge (applyCoreDNS, "any failure leaves the plan
   able to re-issue the whole change"). *)
EventuallyServed ==
    Labelled => <>[](\A i \in Running \ DryRun, h \in Host \ Wildcard:
                        Wants(i, h) => Served(i, h) \/ KeptByAnother(i, h))

(* Once changes and faults stop, nothing unwanted is left: under sync no
   route, and with prune no rewrite that neither a route nor a Service
   accounts for (pruneCoreDNS, "nothing owns or wants"). *)
EventuallyClean ==
    Labelled => <>[](\A i \in Running \ DryRun: \A h \in domainFilter[i]:
                        /\ i \in PolicySync /\ Holds(i, h) => Wants(i, h)
                        /\ /\ i \in CoreDNS \cap CoreDNSPrune
                           /\ resolve[i][h] # NoTunnel
                           /\ fragment[i][h] # NoRewrite
                           => Holds(i, h) \/ Wants(i, h))

(* Once changes and faults stop, a host is pending only while it is wanted
   and another writer keeps its name, and without adoption it is pending
   whenever that is so: the gauge neither sticks nor misses (provider.go,
   "pending bookkeeping"). *)
EventuallyPending ==
    Labelled => <>[](\A i \in Running \ DryRun, h \in Host \ Wildcard:
                        LET waiting == Wants(i, h) /\ KeptByAnother(i, h)
                        IN  /\ mem[i].pending[h] # NotPending => waiting
                            /\ waiting => mem[i].pending[h] # NotPending \/ i \in AdoptUntagged)

(* A wanted hostname with a usable label, whose name nobody else keeps, gets
   both its legs whatever the labels of the other hostnames are
   (provider_test.go, "One endpoint with no resource label must not stop
   another host from getting both legs"). *)
OneHostFailsAlone ==
    <>[](\A i \in CoreDNS \ DryRun, h \in Host \ Wildcard:
            Wants(i, h) /\ desired[i][h] \in Resource => Served(i, h) \/ KeptByAnother(i, h))
=============================================================================
