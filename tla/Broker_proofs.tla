---------------------------- MODULE Broker_proofs ----------------------------
(***************************************************************************)
(* The broker keeps its clients apart, for every policy and every number   *)
(* of requests in flight.                                                  *)
(*                                                                         *)
(* A patch or a delete acts on what a look-up found earlier.  It is safe   *)
(* because parsePolicy gives a tunnel to one client: whoever could move or *)
(* rename the route in between is that same client (Evolves, KnownKept).   *)
(***************************************************************************)
EXTENDS Broker, TLAPS

(* What a handler has checked before it waits. *)
Checked(p) ==
    /\ req[p].pc = "idle" => req[p].known = NoRoutes
    /\ req[p].pc # "idle" => Serves(req[p].client)
    /\ req[p].pc = "list" => req[p].todo \subseteq policy[req[p].client].tunnels
    /\ req[p].pc = "create" => CreateAllowed(req[p].client, req[p].body)
    /\ req[p].pc = "patch" => PatchAllowed(req[p].client, req[p].body)
    /\ \A h \in Host: req[p].known[h] # NoRoute => req[p].known[h].id < nextId

BrokerInv == TypeOK /\ FreshIds /\ \A p \in Slot: Checked(p) /\ KnownOwn(p)

(* c moves the live route of g to h, or changes it in place. *)
Moves(c, g, h) ==
    /\ Serves(c)
    /\ Routed(g)
    /\ routes'[h].id = routes[g].id
    /\ routes[g].tunnel \in policy[c].tunnels
    /\ routes'[h].tunnel \in policy[c].tunnels
    /\ h \in policy[c].hosts

(* What a step may do to the route of h. *)
Evolves(h) ==
    \/ routes'[h] = NoRoute
    \/ routes'[h] = routes[h]
    \/ routes'[h] # NoRoute /\ routes'[h].id = nextId
    \/ \E c \in Client, g \in Host: Moves(c, g, h)

AccountStep ==
    /\ nextId' \in {nextId, nextId + 1}
    /\ \A h \in Host: Evolves(h)
    /\ UNCHANGED policy

-----------------------------------------------------------------------------
LEMMA OneHolder ==
    ASSUME NEW c, NEW d, NEW t, Serves(c), Serves(d),
           t \in policy[c].tunnels, t \in policy[d].tunnels
    PROVE  c = d
BY DEF Serves, parsePolicy

LEMMA PolicyType ==
    ASSUME TypeOK, NEW c, Serves(c) PROVE c \in Client /\ policy[c] \in ClientPolicy
BY DocumentAssumption DEF TypeOK, Serves

LEMMA NoRequestType == NoRequest \in Request
BY FieldAssumption DEF NoRequest, NoBody, Request, Body, NoRoutes, RouteIndex

(* A route a request has read stays its client's through a step of anyone. *)
LEMMA KnownKept ==
    ASSUME BrokerInv, AccountStep, NEW p \in Slot, req'[p] = req[p] PROVE KnownOwn(p)'
<1> SUFFICES ASSUME NEW g \in Host, NEW h \in Host,
                    req[p].known[g] # NoRoute, HasId(h, req[p].known[g].id)'
             PROVE  /\ routes'[h].tunnel \in policy[req[p].client].tunnels
                    /\ req[p].pc \in {"patch", "delete"} => h \in policy[req[p].client].hosts
  BY DEF KnownOwn, AccountStep, HasId, Routed
<1> DEFINE id == req[p].known[g].id
<1>1. id < nextId /\ id \in Nat /\ nextId \in Nat
  BY DEF BrokerInv, TypeOK, Checked, Request, RouteIndex, Route
<1>2. req[p].pc # "idle" /\ Serves(req[p].client)
  BY DEF BrokerInv, Checked, NoRoutes
<1>3. routes'[h] # NoRoute /\ routes'[h].id = id
  BY DEF HasId, Routed
<1>4. CASE routes'[h] = routes[h]
  BY <1>3, <1>4 DEF BrokerInv, KnownOwn, HasId, Routed
<1>5. CASE \E c \in Client, k \in Host: Moves(c, k, h)
  <2>1. PICK c \in Client, k \in Host: Moves(c, k, h)
    BY <1>5
  <2>2. routes[k].tunnel \in policy[req[p].client].tunnels
    BY <2>1, <1>3 DEF Moves, BrokerInv, KnownOwn, HasId
  <2>3. c = req[p].client
    BY <2>1, <2>2, <1>2, OneHolder DEF Moves
  <2> QED
    BY <2>1, <2>3 DEF Moves
<1> QED
  BY <1>1, <1>3, <1>4, <1>5 DEF AccountStep, Evolves

-----------------------------------------------------------------------------
LEMMA InitInv == Init => BrokerInv
<1> SUFFICES ASSUME Init PROVE BrokerInv
  OBVIOUS
<1>1. TypeOK
  BY NoRequestType, StartAssumption DEF Init, TypeOK
<1>2. FreshIds
  BY StartAssumption DEF Init, FreshIds, HasId, Routed
<1>3. ASSUME NEW p \in Slot PROVE Checked(p) /\ KnownOwn(p)
  BY DEF Init, Checked, KnownOwn, NoRequest, NoRoutes
<1> QED
  BY <1>1, <1>2, <1>3 DEF BrokerInv

(* A step of p that only changes its request. *)
LEMMA RequestStep ==
    ASSUME BrokerInv, NEW p \in Slot, NEW r \in Request, req' = [req EXCEPT ![p] = r],
           UNCHANGED <<account, policy, changes>>, Checked(p)', KnownOwn(p)'
    PROVE  BrokerInv'
<1>1. TypeOK'
  BY DEF BrokerInv, TypeOK, account
<1>2. FreshIds'
  BY DEF BrokerInv, FreshIds, account, Routed, HasId
<1>3. ASSUME NEW q \in Slot, q # p PROVE Checked(q)' /\ KnownOwn(q)'
  <2>1. req'[q] = req[q]
    BY <1>3 DEF BrokerInv, TypeOK
  <2> QED
    BY <2>1 DEF BrokerInv, Checked, KnownOwn, account, HasId, Routed, Serves,
                CreateAllowed, PatchAllowed, tunnelAllowed, hostnameAllowed, commentAllowed
<1> QED
  BY <1>1, <1>2, <1>3 DEF BrokerInv

LEMMA RespondInv ==
    ASSUME BrokerInv, NEW p \in Slot, Respond(p), UNCHANGED <<account, policy, changes>>
    PROVE  BrokerInv'
<1>1. req'[p] = NoRequest
  BY DEF BrokerInv, TypeOK, Respond
<1>2. Checked(p)' /\ KnownOwn(p)'
  BY <1>1 DEF Checked, KnownOwn, NoRequest, NoRoutes
<1> QED
  BY <1>2, NoRequestType, RequestStep DEF Respond

LEMMA StartListInv ==
    ASSUME BrokerInv, NEW p \in Slot, NEW c \in Client, Serves(c), NEW t \in Tunnel \cup {Absent},
           StartList(p, c, t)
    PROVE  BrokerInv'
<1> DEFINE r == [NoRequest EXCEPT !.pc = "list", !.client = c,
                                  !.todo = IF t = Absent THEN policy[c].tunnels ELSE {t}]
<1>1. r \in Request
  BY NoRequestType, PolicyType DEF NoRequest, Request, ClientPolicy, BrokerInv
<1>2. req' = [req EXCEPT ![p] = r] /\ UNCHANGED <<account, policy, changes>> /\ req'[p] = r
  BY DEF StartList, Serve, BrokerInv, TypeOK
<1>3. r.pc = "list" /\ r.client = c /\ r.known = NoRoutes /\ r.todo \subseteq policy[c].tunnels
  BY DEF NoRequest, StartList, tunnelAllowed
<1>4. Checked(p)' /\ KnownOwn(p)'
  <2> HIDE DEF r
  <2> QED
    BY <1>2, <1>3 DEF Checked, KnownOwn, NoRoutes, Serves
<1> QED
  BY <1>1, <1>2, <1>4, RequestStep

LEMMA ListTunnelInv ==
    ASSUME BrokerInv, NEW p \in Slot, NEW t \in Tunnel, ListTunnel(p, t)
    PROVE  BrokerInv'
<1> DEFINE ix == [h \in Host |-> IF h \in OnTunnel(t) THEN routes[h] ELSE req[p].known[h]]
           r  == [req[p] EXCEPT !.todo = @ \ {t}, !.known = ix]
<1>1. req[p] \in Request /\ ix \in RouteIndex
  BY DEF BrokerInv, TypeOK, Request, RouteIndex
<1>2. r \in Request
  BY <1>1 DEF Request
<1>3. req' = [req EXCEPT ![p] = r] /\ req'[p] = r
  BY DEF ListTunnel, BrokerInv, TypeOK
<1>4. UNCHANGED <<account, policy, changes>>
  BY DEF ListTunnel
<1>5. req[p].pc = "list" /\ Serves(req[p].client) /\ t \in policy[req[p].client].tunnels
  BY DEF ListTunnel, BrokerInv, Checked
<1>6. r.pc = "list" /\ r.client = req[p].client /\ r.known = ix /\ r.todo \subseteq req[p].todo
  BY <1>1, <1>5 DEF Request
<1>7. ASSUME NEW g \in Host, ix[g] # NoRoute PROVE ix[g].id < nextId
  BY <1>7 DEF BrokerInv, FreshIds, Checked, OnTunnel
<1>8. Checked(p)'
  BY <1>3, <1>4, <1>5, <1>6, <1>7 DEF Checked, Serves, account, BrokerInv
<1>9. ASSUME NEW g \in Host, NEW h \in Host, ix[g] # NoRoute, HasId(h, ix[g].id)
      PROVE  routes[h].tunnel \in policy[req[p].client].tunnels
  <2>1. CASE g \in OnTunnel(t)
    <3>1. g = h
      BY <1>9, <2>1 DEF BrokerInv, FreshIds, OnTunnel
    <3> QED
      BY <3>1, <2>1, <1>5 DEF OnTunnel
  <2>2. CASE g \notin OnTunnel(t)
    BY <1>9, <2>2 DEF BrokerInv, KnownOwn
  <2> QED
    BY <2>1, <2>2
<1>10. KnownOwn(p)'
  <2> HIDE DEF ix, r
  <2> QED
    BY <1>3, <1>4, <1>6, <1>9 DEF KnownOwn, HasId, Routed, account
<1> QED
  BY <1>2, <1>3, <1>4, <1>8, <1>10, RequestStep

LEMMA StartCreateInv ==
    ASSUME BrokerInv, NEW p \in Slot, NEW c \in Client, Serves(c), NEW body \in Body,
           StartCreate(p, c, body)
    PROVE  BrokerInv'
<1> DEFINE r == [NoRequest EXCEPT !.pc = "create", !.client = c, !.body = body]
<1>1. r \in Request
  BY NoRequestType DEF NoRequest, Request
<1>2. req' = [req EXCEPT ![p] = r] /\ UNCHANGED <<account, policy, changes>> /\ req'[p] = r
  BY DEF StartCreate, Serve, BrokerInv, TypeOK
<1>3. CreateAllowed(c, body)
  BY DEF StartCreate
<1>4. r.pc = "create" /\ r.client = c /\ r.known = NoRoutes /\ r.body = body
  BY DEF NoRequest
<1>5. Checked(p)' /\ KnownOwn(p)'
  <2> HIDE DEF r
  <2> QED
    BY <1>2, <1>3, <1>4 DEF Checked, KnownOwn, NoRoutes, Serves, CreateAllowed,
                            tunnelAllowed, hostnameAllowed, commentAllowed
<1> QED
  BY <1>1, <1>2, <1>5, RequestStep

LEMMA LookUpInv ==
    ASSUME BrokerInv, NEW p \in Slot, NEW c \in Client, Serves(c), NEW h \in Host,
           NEW pc \in {"patch", "delete"}, NEW body \in Body,
           pc = "patch" => PatchAllowed(c, body), LookUp(p, c, h, pc, body)
    PROVE  BrokerInv'
<1> DEFINE ix == [NoRoutes EXCEPT ![h] = routes[h]]
           r  == [NoRequest EXCEPT !.pc = pc, !.client = c, !.body = body, !.known = ix]
<1>1. ix \in RouteIndex /\ (\A g \in Host: ix[g] # NoRoute => g = h) /\ ix[h] = routes[h]
  BY DEF BrokerInv, TypeOK, RouteIndex, NoRoutes
<1>2. r \in Request
  BY <1>1, NoRequestType DEF NoRequest, Request
<1>3. req' = [req EXCEPT ![p] = r] /\ UNCHANGED <<account, policy, changes>> /\ req'[p] = r
  BY DEF LookUp, Serve, BrokerInv, TypeOK
<1>4. r.pc = pc /\ r.client = c /\ r.body = body /\ r.known = ix
  BY DEF NoRequest
<1>5. routes[h].id < nextId
  BY DEF LookUp, ownRoute, BrokerInv, FreshIds
<1>6. Checked(p)'
  BY <1>1, <1>3, <1>4, <1>5 DEF Checked, Serves, PatchAllowed, account,
                    tunnelAllowed, hostnameAllowed, commentAllowed
<1>7. KnownOwn(p)'
  BY <1>1, <1>3, <1>4 DEF KnownOwn, LookUp, ownRoute, tunnelAllowed, BrokerInv, FreshIds,
                    HasId, Routed, account
<1> QED
  BY <1>2, <1>3, <1>6, <1>7, RequestStep

-----------------------------------------------------------------------------
(* A step that changes the account ends the request of p, or is another
   writer's. *)
LEMMA AccountInv ==
    ASSUME BrokerInv, TypeOK', FreshIds', AccountStep,
           \A p \in Slot: req'[p] \in {req[p], NoRequest}
    PROVE  BrokerInv'
<1>1. ASSUME NEW p \in Slot PROVE Checked(p)' /\ KnownOwn(p)'
  <2>1. CASE req'[p] = NoRequest
    BY <2>1 DEF Checked, KnownOwn, NoRequest, NoRoutes
  <2>2. CASE req'[p] = req[p]
    <3>1. \A h \in Host: req[p].known[h] # NoRoute => req[p].known[h].id < nextId'
      BY DEF BrokerInv, TypeOK, Checked, AccountStep, Request, RouteIndex, Route
    <3>2. Checked(p)'
      BY <2>2, <3>1 DEF BrokerInv, Checked, AccountStep, Serves, CreateAllowed, PatchAllowed,
                        tunnelAllowed, hostnameAllowed, commentAllowed
    <3> QED
      BY <2>2, <3>2, KnownKept
  <2> QED
    BY <2>1, <2>2
<1> QED
  BY <1>1 DEF BrokerInv

(* A route at a free name, with the next id. *)
LEMMA CreateStep ==
    ASSUME BrokerInv, NEW h \in Host, NEW t \in Tunnel, NEW tag \in Tag,
           CreateHostnameRoute(h, t, tag), UNCHANGED policy
    PROVE  AccountStep /\ FreshIds' /\ routes' \in RouteIndex /\ nextId' \in Nat
<1> DEFINE r == [id |-> nextId, tunnel |-> t, tag |-> tag]
<1>1. r \in Route /\ routes \in RouteIndex /\ nextId \in Nat
  BY DEF BrokerInv, TypeOK, Route
<1>2. routes' = [routes EXCEPT ![h] = r] /\ nextId' = nextId + 1 /\ r # NoRoute
  BY <1>1, NoRouteAssumption DEF CreateHostnameRoute
<1>3. \A g \in Host: routes'[g] = IF g = h THEN r ELSE routes[g]
  BY <1>1, <1>2 DEF RouteIndex
<1>4. AccountStep
  BY <1>1, <1>2, <1>3 DEF AccountStep, Evolves
<1>5. \A g \in Host: Routed(g) => routes[g].id \in Nat /\ routes[g].id < nextId
  BY <1>1 DEF BrokerInv, FreshIds, Routed, RouteIndex, Route
<1>6. FreshIds'
  BY <1>1, <1>2, <1>3, <1>5 DEF BrokerInv, FreshIds, Routed, HasId
<1> QED
  BY <1>1, <1>2, <1>4, <1>6 DEF RouteIndex

LEMMA DeleteStep ==
    ASSUME BrokerInv, NEW id, DeleteHostnameRoute(id), UNCHANGED policy
    PROVE  AccountStep /\ FreshIds' /\ routes' \in RouteIndex /\ nextId' \in Nat
<1>1. \A h \in Host: routes'[h] \in {routes[h], NoRoute}
  BY DEF DeleteHostnameRoute
<1>2. AccountStep
  BY <1>1 DEF AccountStep, Evolves, DeleteHostnameRoute
<1>3. FreshIds'
  BY <1>1 DEF BrokerInv, FreshIds, Routed, HasId, DeleteHostnameRoute
<1> QED
  BY <1>2, <1>3 DEF BrokerInv, TypeOK, RouteIndex, DeleteHostnameRoute

(* A body leaves a route with a tag: its own, or the one it finds. *)
LEMMA TagsOfType ==
    ASSUME NEW tag \in Tag \cup {Absent, Null}, NEW kept \in Tag
    PROVE  TagsOf(tag, kept) \subseteq Tag
BY FieldAssumption DEF TagsOf, Tag

LEMMA SendCreateInv ==
    ASSUME BrokerInv, NEW p \in Slot, SendCreate(p) PROVE BrokerInv'
<1> DEFINE body == req[p].body
<1>1. Serves(req[p].client) /\ CreateAllowed(req[p].client, body) /\ body \in Body
  BY DEF SendCreate, BrokerInv, Checked, TypeOK, Request
<1>2. Stored[body.hostname] \in Host
  BY <1>1, FieldAssumption DEF CreateAllowed, hostnameAllowed
<1>3. body.tunnel \in Tunnel
  BY <1>1, PolicyType DEF CreateAllowed, tunnelAllowed, ClientPolicy, BrokerInv
<1>4. TagsOf(body.tag, Untagged) \subseteq Tag
  BY <1>1, TagsOfType DEF Tag, Body
<1>5. req' \in [Slot -> Request] /\ \A q \in Slot: req'[q] \in {req[q], NoRequest}
  BY NoRequestType DEF SendCreate, Respond, BrokerInv, TypeOK
<1>6. CASE Routed(Stored[body.hostname])
  BY <1>6, RespondInv DEF SendCreate
<1>7. CASE ~Routed(Stored[body.hostname])
  <2>1. AccountStep /\ FreshIds' /\ routes' \in RouteIndex /\ nextId' \in Nat
    BY <1>2, <1>3, <1>4, <1>7, CreateStep DEF SendCreate
  <2>2. TypeOK'
    BY <2>1, <1>5 DEF TypeOK, BrokerInv, SendCreate
  <2> QED
    BY <2>1, <2>2, <1>5, AccountInv
<1> QED
  BY <1>6, <1>7

(* What a patch does: the route of h goes to the name, still its client's. *)
LEMMA PatchedRoute ==
    ASSUME BrokerInv, NEW p \in Slot, NEW g \in Host, NEW h \in Host, SendPatch(p, g, h)
    PROVE  \E name \in Host, r \in Route:
              /\ r.id = routes[h].id
              /\ r.tag \in TagsOf(req[p].body.tag, routes[h].tag)
              /\ routes[h].tunnel \in policy[req[p].client].tunnels
              /\ r.tunnel \in policy[req[p].client].tunnels
              /\ h \in policy[req[p].client].hosts
              /\ name \in policy[req[p].client].hosts
              /\ name = h \/ ~Routed(name)
              /\ routes' = [k \in Host |-> IF k = name THEN r ELSE IF k = h THEN NoRoute ELSE routes[k]]
<1> PICK tag \in TagsOf(req[p].body.tag, routes[h].tag): Patched(h, req[p].body, tag)
  BY DEF SendPatch
<1> DEFINE body == req[p].body
           c    == req[p].client
           name == IF body.hostname = Absent THEN h ELSE Stored[body.hostname]
           r    == [id     |-> routes[h].id,
                    tunnel |-> IF body.tunnel = Absent THEN routes[h].tunnel ELSE body.tunnel,
                    tag    |-> tag]
<1>1. Serves(c) /\ PatchAllowed(c, body) /\ body \in Body
  BY DEF SendPatch, BrokerInv, Checked, TypeOK, Request
<1>2. policy[c] \in ClientPolicy
  BY <1>1, PolicyType DEF BrokerInv
<1>3. routes[h].tunnel \in policy[c].tunnels /\ h \in policy[c].hosts
  BY DEF SendPatch, BrokerInv, KnownOwn
<1>4. routes[h] \in Route
  BY DEF SendPatch, HasId, Routed, BrokerInv, TypeOK, RouteIndex
<1>5. name \in Host /\ name \in policy[c].hosts
  BY <1>1, <1>3, FieldAssumption DEF PatchAllowed, hostnameAllowed
<1>6. r.tunnel \in policy[c].tunnels
  BY <1>1, <1>3 DEF PatchAllowed, tunnelAllowed
<1>7. r.tunnel \in Tunnel
  BY <1>2, <1>6 DEF ClientPolicy
<1>8. tag \in Tag
  BY <1>1, <1>4, TagsOfType DEF Body, Route
<1>9. r \in Route
  BY <1>4, <1>7, <1>8 DEF Route
<1>10. /\ name = h \/ ~Routed(name)
       /\ routes' = [k \in Host |-> IF k = name THEN r ELSE IF k = h THEN NoRoute ELSE routes[k]]
  BY DEF Patched
<1> QED
  BY <1>3, <1>5, <1>6, <1>9, <1>10

LEMMA SendPatchInv ==
    ASSUME BrokerInv, NEW p \in Slot, NEW g \in Host, NEW h \in Host, SendPatch(p, g, h)
    PROVE  BrokerInv'
<1> DEFINE c == req[p].client
<1>1. PICK name \in Host, r \in Route:
              /\ r.id = routes[h].id
              /\ r.tag \in TagsOf(req[p].body.tag, routes[h].tag)
              /\ routes[h].tunnel \in policy[c].tunnels
              /\ r.tunnel \in policy[c].tunnels
              /\ h \in policy[c].hosts
              /\ name \in policy[c].hosts
              /\ name = h \/ ~Routed(name)
              /\ routes' = [k \in Host |-> IF k = name THEN r ELSE IF k = h THEN NoRoute ELSE routes[k]]
  BY PatchedRoute
<1>2. Serves(c) /\ c \in Client
  BY PolicyType DEF SendPatch, BrokerInv, Checked
<1>3. Routed(h) /\ r # NoRoute
  BY NoRouteAssumption DEF SendPatch, HasId
<1>4. nextId' = nextId /\ policy' = policy /\ changes' = changes
  BY DEF SendPatch, Patched
<1>5. Moves(c, h, name)
  BY <1>1, <1>2, <1>3 DEF Moves
<1>6. \A k \in Host: Evolves(k)
  BY <1>1, <1>2, <1>5 DEF Evolves
<1>7. AccountStep
  BY <1>4, <1>6 DEF AccountStep
<1>8. FreshIds'
  <2>1. \A k \in Host: routes'[k] # NoRoute =>
           \/ k = name /\ routes'[k].id = routes[h].id
           \/ k # name /\ k # h /\ routes'[k] = routes[k]
    BY <1>1
  <2> QED
    BY <2>1, <1>1, <1>3, <1>4 DEF BrokerInv, FreshIds, Routed, HasId
<1>9. req' \in [Slot -> Request] /\ \A q \in Slot: req'[q] \in {req[q], NoRequest}
  BY NoRequestType DEF SendPatch, Respond, BrokerInv, TypeOK
<1>10. TypeOK'
  BY <1>1, <1>4, <1>9 DEF TypeOK, BrokerInv, RouteIndex
<1> QED
  BY <1>7, <1>8, <1>9, <1>10, AccountInv

LEMMA SendDeleteInv ==
    ASSUME BrokerInv, NEW p \in Slot, NEW g \in Host, SendDelete(p, g) PROVE BrokerInv'
<1>1. AccountStep /\ FreshIds' /\ routes' \in RouteIndex /\ nextId' \in Nat
  BY DeleteStep DEF SendDelete
<1>2. req' \in [Slot -> Request] /\ \A q \in Slot: req'[q] \in {req[q], NoRequest}
  BY NoRequestType DEF SendDelete, Respond, BrokerInv, TypeOK
<1>3. TypeOK'
  BY <1>1, <1>2 DEF TypeOK, BrokerInv, SendDelete
<1> QED
  BY <1>1, <1>2, <1>3, AccountInv

LEMMA OthersInv ==
    ASSUME BrokerInv, NEW h \in Host,
           OtherDeletes(h) \/ \E t \in Tunnel: OtherCreates(h, t)
    PROVE  BrokerInv'
<1>1. AccountStep /\ FreshIds' /\ routes' \in RouteIndex /\ nextId' \in Nat
  <2>1. CASE OtherDeletes(h)
    BY <2>1, DeleteStep DEF OtherDeletes, DeleteUntagged, Change
  <2>2. ASSUME NEW t \in Tunnel, OtherCreates(h, t)
        PROVE  AccountStep /\ FreshIds' /\ routes' \in RouteIndex /\ nextId' \in Nat
    <3>1. Stored[h] \in Host /\ Untagged \in Tag
      BY FieldAssumption DEF Tag
    <3> QED
      BY <2>2, <3>1, CreateStep DEF OtherCreates, CreateUntagged, Change
  <2> QED
    BY <2>1, <2>2
<1>2. Change
  BY DEF OtherDeletes, OtherCreates
<1>3. changes' \in 0..MaxChanges
  BY <1>2, StartAssumption DEF Change, BrokerInv, TypeOK
<1>4. TypeOK'
  BY <1>1, <1>2, <1>3 DEF TypeOK, BrokerInv, Change
<1> QED
  BY <1>1, <1>2, <1>4, AccountInv DEF Change

LEMMA NextInv == BrokerInv /\ [Next]_vars => BrokerInv'
<1> SUFFICES ASSUME BrokerInv, [Next]_vars PROVE BrokerInv'
  OBVIOUS
<1>1. ASSUME NEW p \in Slot, NEW c \in Client, Arrive(p, c) PROVE BrokerInv'
  <2>1. Serves(c)
    BY <1>1 DEF Arrive
  <2>2. CASE \E t \in Tunnel \cup {Absent}: StartList(p, c, t)
    BY <2>1, <2>2, StartListInv
  <2>3. CASE \E body \in Body: StartCreate(p, c, body)
    BY <2>1, <2>3, StartCreateInv
  <2>4. ASSUME NEW h \in Host, NEW body \in PatchBodies, StartPatch(p, c, h, body) PROVE BrokerInv'
    <3>1. body \in Body
      BY FieldAssumption
    <3> QED
      BY <2>1, <2>4, <3>1, LookUpInv DEF StartPatch
  <2>5. ASSUME NEW h \in Host, StartDelete(p, c, h) PROVE BrokerInv'
    <3>1. NoBody \in Body
      BY DEF NoBody, Body
    <3> QED
      BY <2>1, <2>5, <3>1, LookUpInv DEF StartDelete
  <2> QED
    BY <1>1, <2>2, <2>3, <2>4, <2>5 DEF Arrive
<1>2. ASSUME NEW p \in Slot, Proceed(p) PROVE BrokerInv'
  <2>1. CASE \E t \in Tunnel: ListTunnel(p, t)
    BY <2>1, ListTunnelInv
  <2>2. CASE AnswerList(p)
    BY <2>2, RespondInv DEF AnswerList
  <2>3. CASE SendCreate(p)
    BY <2>3, SendCreateInv
  <2>4. CASE \E g, h \in Host: SendPatch(p, g, h)
    BY <2>4, SendPatchInv
  <2>5. CASE \E g \in Host: SendDelete(p, g)
    BY <2>5, SendDeleteInv
  <2>6. CASE SendFails(p)
    BY <2>6, RespondInv DEF SendFails
  <2> QED
    BY <1>2, <2>1, <2>2, <2>3, <2>4, <2>5, <2>6 DEF Proceed
<1>3. CASE \E h \in Host: OtherDeletes(h) \/ \E t \in Tunnel: OtherCreates(h, t)
  BY <1>3, OthersInv
<1>4. CASE UNCHANGED vars
  <2>1. AccountStep /\ \A p \in Slot: req'[p] \in {req[p], NoRequest}
    BY <1>4 DEF vars, AccountStep, Evolves
  <2>2. TypeOK' /\ FreshIds'
    BY <1>4 DEF vars, BrokerInv, TypeOK, FreshIds, HasId, Routed
  <2> QED
    BY <2>1, <2>2, AccountInv
<1> QED
  BY <1>1, <1>2, <1>3, <1>4 DEF Next

-----------------------------------------------------------------------------
(* Every variable keeps its type: no route gets a tag or a tunnel that its
   request did not have (pick, TagsOf). *)
THEOREM BrokerTypeCorrect == Spec => []TypeOK
<1>1. BrokerInv => TypeOK
  BY DEF BrokerInv
<1> QED
  BY <1>1, InitInv, NextInv, PTL DEF Spec

(* However long a request waits after its look-up or between its lists, a
   route it has read is gone or still is its own client's (ownRoute, list). *)
THEOREM KnownIsOwn == Spec => []KnownStaysOwn
<1>1. BrokerInv => KnownStaysOwn
  BY DEF BrokerInv, KnownStaysOwn
<1> QED
  BY <1>1, InitInv, NextInv, PTL DEF Spec

(* A call upstream is made for a client, on what that client holds. *)
LEMMA CreateApart ==
    ASSUME BrokerInv, NEW p \in Slot, SendCreate(p), NEW h \in Host PROVE Apart(h)
<1> SUFFICES ASSUME routes'[h] # routes[h] PROVE Apart(h)
  BY DEF Apart
<1> DEFINE body == req[p].body
           c    == req[p].client
<1>1. req[p].pc = "create" /\ req'[p] = NoRequest /\ req'[p] # req[p]
  BY DEF SendCreate, Respond, BrokerInv, TypeOK, NoRequest
<1>2. Serves(c) /\ CreateAllowed(c, body)
  BY <1>1 DEF BrokerInv, Checked
<1>3. PICK tag \in TagsOf(body.tag, Untagged):
          ~Routed(Stored[body.hostname]) /\ CreateHostnameRoute(Stored[body.hostname], body.tunnel, tag)
  BY DEF SendCreate, account
<1>4. /\ h = Stored[body.hostname] /\ routes[h] = NoRoute
      /\ routes'[h].tunnel = body.tunnel
  BY <1>3 DEF CreateHostnameRoute, Routed, BrokerInv, TypeOK, RouteIndex
<1>5. h \in policy[c].hosts /\ body.tunnel \in policy[c].tunnels
  BY <1>2, <1>4 DEF CreateAllowed, hostnameAllowed, tunnelAllowed
<1>6. HeldBy(routes'[h], c)
  BY <1>2, <1>4, <1>5 DEF HeldBy, Serves
<1>7. ASSUME NEW d \in Client, HeldBy(routes[h], d) \/ HeldBy(routes'[h], d) PROVE d = c
  BY <1>2, <1>4, <1>5, <1>7, OneHolder DEF HeldBy, Serves
<1> QED
  BY <1>1, <1>4, <1>5, <1>6, <1>7 DEF Apart

LEMMA PatchApart ==
    ASSUME BrokerInv, NEW p \in Slot, NEW g \in Host, NEW k \in Host, SendPatch(p, g, k),
           NEW h \in Host
    PROVE  Apart(h)
<1> SUFFICES ASSUME routes'[h] # routes[h] PROVE Apart(h)
  BY DEF Apart
<1> DEFINE c == req[p].client
<1>1. req[p].pc = "patch" /\ req'[p] = NoRequest /\ req'[p] # req[p]
  BY DEF SendPatch, Respond, BrokerInv, TypeOK, NoRequest
<1>2. Serves(c)
  BY <1>1 DEF BrokerInv, Checked
<1>3. PICK name \in Host, r \in Route:
              /\ r.id = routes[k].id
              /\ r.tag \in TagsOf(req[p].body.tag, routes[k].tag)
              /\ routes[k].tunnel \in policy[c].tunnels
              /\ r.tunnel \in policy[c].tunnels
              /\ k \in policy[c].hosts
              /\ name \in policy[c].hosts
              /\ name = k \/ ~Routed(name)
              /\ routes' = [x \in Host |-> IF x = name THEN r ELSE IF x = k THEN NoRoute ELSE routes[x]]
  BY PatchedRoute
<1>4. h \in policy[c].hosts /\ h \in {name, k}
  BY <1>3
<1>5. /\ routes[h] # NoRoute => routes[h].tunnel \in policy[c].tunnels
      /\ routes'[h] # NoRoute => routes'[h].tunnel \in policy[c].tunnels
  BY <1>3, <1>4 DEF Routed
<1>6. ASSUME NEW q \in {routes[h], routes'[h]} \ {NoRoute} PROVE HeldBy(q, c)
  BY <1>2, <1>5 DEF HeldBy, Serves
<1>7. ASSUME NEW d \in Client, HeldBy(routes[h], d) \/ HeldBy(routes'[h], d) PROVE d = c
  BY <1>2, <1>5, <1>7, OneHolder DEF HeldBy, Serves
<1> QED
  BY <1>1, <1>4, <1>6, <1>7 DEF Apart

LEMMA DeleteApart ==
    ASSUME BrokerInv, NEW p \in Slot, NEW g \in Host, SendDelete(p, g), NEW h \in Host
    PROVE  Apart(h)
<1> SUFFICES ASSUME routes'[h] # routes[h] PROVE Apart(h)
  BY DEF Apart
<1> DEFINE c == req[p].client
<1>1. req[p].pc = "delete" /\ req'[p] = NoRequest /\ req'[p] # req[p]
  BY DEF SendDelete, Respond, BrokerInv, TypeOK, NoRequest
<1>2. Serves(c)
  BY <1>1 DEF BrokerInv, Checked
<1>3. routes'[h] = NoRoute /\ HasId(h, req[p].known[g].id) /\ req[p].known[g] # NoRoute
  BY DEF SendDelete, DeleteHostnameRoute
<1>4. routes[h].tunnel \in policy[c].tunnels /\ h \in policy[c].hosts
  BY <1>1, <1>3 DEF BrokerInv, KnownOwn
<1>5. HeldBy(routes[h], c)
  BY <1>2, <1>3, <1>4 DEF HeldBy, Serves, HasId, Routed
<1>6. ASSUME NEW d \in Client, HeldBy(routes[h], d) \/ HeldBy(routes'[h], d) PROVE d = c
  BY <1>2, <1>3, <1>4, <1>6, OneHolder DEF HeldBy, Serves
<1> QED
  BY <1>1, <1>3, <1>4, <1>5, <1>6 DEF Apart

LEMMA ApartNext == BrokerInv /\ [Next]_vars => [\A h \in Host: Apart(h)]_vars
<1> SUFFICES ASSUME BrokerInv, Next, NEW h \in Host PROVE Apart(h)
  BY DEF BrokerInv
<1>1. CASE UNCHANGED account \/ changes' # changes
  BY <1>1 DEF Apart, account
<1>2. ASSUME NEW p \in Slot, Proceed(p), ~UNCHANGED account PROVE Apart(h)
  BY <1>2, CreateApart, PatchApart, DeleteApart DEF Proceed, ListTunnel, AnswerList, SendFails
<1>3. ASSUME NEW p \in Slot, NEW c \in Client, Arrive(p, c) PROVE UNCHANGED account
  BY <1>3 DEF Arrive, StartList, StartCreate, StartPatch, StartDelete, LookUp, Serve
<1>4. ASSUME Change PROVE changes' # changes
  BY <1>4 DEF Change, BrokerInv, TypeOK
<1> QED
  BY <1>1, <1>2, <1>3, <1>4 DEF Next, OtherCreates, OtherDeletes

(* A route on a client's tunnel is created, changed and deleted by that
   client's requests only, under a hostname the client may manage, whatever
   policy document was deployed (parsePolicy, ownRoute, create, patch). *)
THEOREM ClientsApart == Spec => ClientsKeepApart
<1> QED
  BY InitInv, NextInv, ApartNext, PTL DEF Spec, ClientsKeepApart

(* The tag a step writes on the route of h is its client's to write. *)
OwnTag(h) ==
    routes'[h] # NoRoute /\ Retagged(h) /\ changes' = changes =>
        \E p \in Slot: req'[p] # req[p] /\ MayTag(p, h)

(* A route that stays as it was, or goes, gets no new tag. *)
LEMMA SameTag ==
    ASSUME NEW h \in Host, routes'[h] \in {routes[h], NoRoute} PROVE OwnTag(h)
BY DEF OwnTag, Retagged, HasId, Routed

LEMMA CreateTag ==
    ASSUME BrokerInv, NEW p \in Slot, SendCreate(p), NEW h \in Host PROVE OwnTag(h)
<1> SUFFICES ASSUME routes'[h] # routes[h] PROVE OwnTag(h)
  BY SameTag
<1> DEFINE body == req[p].body
           c    == req[p].client
<1>1. req[p].pc = "create" /\ req'[p] = NoRequest /\ req'[p] # req[p]
  BY DEF SendCreate, Respond, BrokerInv, TypeOK, NoRequest
<1>2. commentAllowed(c, body.tag, TRUE)
  BY <1>1 DEF BrokerInv, Checked, CreateAllowed
<1>3. PICK tag \in TagsOf(body.tag, Untagged):
          CreateHostnameRoute(Stored[body.hostname], body.tunnel, tag)
  BY DEF SendCreate, account
<1>4. routes'[h].tag = tag
  BY <1>3 DEF CreateHostnameRoute, BrokerInv, TypeOK, RouteIndex
<1>5. policy[c].owner \in {NoOwner, tag}
  BY <1>2, <1>3 DEF commentAllowed, TagsOf
<1> QED
  BY <1>1, <1>4, <1>5 DEF OwnTag, MayTag

LEMMA PatchTag ==
    ASSUME BrokerInv, NEW p \in Slot, NEW g \in Host, NEW k \in Host, SendPatch(p, g, k),
           NEW h \in Host
    PROVE  OwnTag(h)
<1> SUFFICES ASSUME routes'[h] # routes[h], routes'[h] # NoRoute, Retagged(h) PROVE OwnTag(h)
  BY SameTag DEF OwnTag
<1> DEFINE body == req[p].body
           c    == req[p].client
<1>1. req[p].pc = "patch" /\ req'[p] = NoRequest /\ req'[p] # req[p] /\ Routed(k)
  BY DEF SendPatch, Respond, BrokerInv, TypeOK, NoRequest, HasId
<1>2. commentAllowed(c, body.tag, FALSE)
  BY <1>1 DEF BrokerInv, Checked, PatchAllowed
<1>3. routes'[h].id = routes[k].id /\ routes'[h].tag \in TagsOf(body.tag, routes[k].tag)
  BY PatchedRoute
<1>4. routes'[h].tag # routes[k].tag
  BY <1>1, <1>3 DEF Retagged, HasId
<1>5. CASE body.tag = Null
  <2>1. routes'[h].tag = Untagged
    BY <1>3, <1>4, <1>5, FieldAssumption DEF TagsOf
  <2> QED
    BY <1>1, <1>5, <2>1 DEF OwnTag, MayTag
<1>6. CASE body.tag # Null
  <2>1. body.tag # Absent /\ routes'[h].tag = body.tag
    BY <1>3, <1>4, <1>6 DEF TagsOf
  <2>2. policy[c].owner \in {NoOwner, routes'[h].tag}
    BY <1>2, <1>6, <2>1 DEF commentAllowed
  <2> QED
    BY <1>1, <2>2 DEF OwnTag, MayTag
<1> QED
  BY <1>5, <1>6

LEMMA OwnTagNext == BrokerInv /\ [Next]_vars => [\A h \in Host: OwnTag(h)]_vars
<1> SUFFICES ASSUME BrokerInv, Next, NEW h \in Host PROVE OwnTag(h)
  OBVIOUS
<1>1. CASE UNCHANGED account
  BY <1>1, SameTag DEF account
<1>2. ASSUME changes' # changes PROVE OwnTag(h)
  BY <1>2 DEF OwnTag
<1>3. ASSUME NEW p \in Slot, NEW g \in Host, SendDelete(p, g) PROVE OwnTag(h)
  BY <1>3, SameTag DEF SendDelete, DeleteHostnameRoute
<1>4. ASSUME NEW p \in Slot, Proceed(p), ~UNCHANGED account PROVE OwnTag(h)
  BY <1>3, <1>4, CreateTag, PatchTag DEF Proceed, ListTunnel, AnswerList, SendFails
<1>5. ASSUME NEW p \in Slot, NEW c \in Client, Arrive(p, c) PROVE UNCHANGED account
  BY <1>5 DEF Arrive, StartList, StartCreate, StartPatch, StartDelete, LookUp, Serve
<1>6. ASSUME Change PROVE changes' # changes
  BY <1>6 DEF Change, BrokerInv, TypeOK
<1> QED
  BY <1>1, <1>2, <1>4, <1>5, <1>6 DEF Next, OtherCreates, OtherDeletes

(* A client with an owner writes no other owner's tag and creates no untagged
   route, by no mix of creates, renames and patches; the one way to take a tag
   off is a PATCH whose comment is null (commentAllowed, pick). *)
THEOREM OwnTagsOnly == Spec => OwnTagOnly
<1>1. [\A h \in Host: OwnTag(h)]_vars =>
         [\A h \in Host: routes'[h] # NoRoute /\ Retagged(h) /\ changes' = changes =>
             \E p \in Slot: req'[p] # req[p] /\ MayTag(p, h)]_vars
  BY DEF OwnTag
<1> QED
  BY <1>1, InitInv, NextInv, OwnTagNext, PTL DEF Spec, OwnTagOnly
=============================================================================
