------------------------------- MODULE Broker -------------------------------
(***************************************************************************)
(* The route broker (broker/src/handler.ts, policy.ts): a Worker between   *)
(* the instances and Cloudflare that narrows the account's API to the      *)
(* tunnels and hostname suffixes of each client.  It keeps no state but    *)
(* the policy.  A patch or a delete looks the route up first and acts by   *)
(* id in a second call, with requests of every client and other writers of *)
(* the account in between.                                                 *)
(*                                                                         *)
(* A refused request changes nothing and has no action here.  A response   *)
(* is modelled where it carries routes: the list.                          *)
(***************************************************************************)
EXTENDS HostnameRoutes, FiniteSets

CONSTANTS
    Client,         \* client ids of the Access service tokens
    Slot,           \* requests the Worker has in flight
    Stored,         \* the name Cloudflare stores a hostname under
    NoClient,
    NoOwner,        \* a policy entry with no "owner"
    Absent,         \* a field the request body or the query does not have
    Null,           \* a comment that is there and is null
    Documents,      \* the policies an operator may deploy
    PatchBodies,    \* the bodies a client may send with a PATCH
    InitialRoutes,
    FirstId,        \* above every id of the initial routes
    MaxId,          \* bound: a create starts only below this id
    MaxChanges      \* bound: writes by others

ClientPolicy == [owner: Owner \cup {NoOwner}, tunnels: SUBSET Tunnel, hosts: SUBSET Host]

Body == [hostname: Host \cup {Absent}, tunnel: Tunnel \cup {Absent}, tag: Tag \cup {Absent, Null}]

NoBody == [hostname |-> Absent, tunnel |-> Absent, tag |-> Absent]

ASSUME FieldAssumption ==
    /\ Absent \notin Host \cup Tunnel \cup Tag
    /\ Null \notin Tag \cup {Absent}
    /\ NoOwner \notin Tag
    /\ NoClient \notin Client
    /\ Stored \in [Host -> Host]
    /\ PatchBodies \subseteq Body
ASSUME DocumentAssumption == \A d \in Documents: DOMAIN d \subseteq Client /\ d \in [DOMAIN d -> ClientPolicy]
ASSUME StartAssumption ==
    /\ FirstId \in Nat
    /\ MaxId \in Nat
    /\ MaxChanges \in Nat
    /\ \A rs \in InitialRoutes:
          /\ rs \in RouteIndex
          /\ \A h \in Host: rs[h] # NoRoute => rs[h].id < FirstId
          /\ \A g, h \in Host: rs[g] # NoRoute /\ rs[h] # NoRoute /\ rs[g].id = rs[h].id => g = h

VARIABLES
    policy,     \* the document deployed
    req,        \* the request in each slot
    changes     \* writes by others so far

account == <<routes, nextId>>
vars    == <<routes, nextId, policy, req, changes>>

Request ==
    [pc:     {"idle", "list", "create", "patch", "delete"},
     client: Client \cup {NoClient},
     body:   Body,
     todo:   SUBSET Tunnel,     \* tunnels still to list
     known:  RouteIndex]        \* the route looked up, or the routes listed

NoRequest ==
    [pc |-> "idle", client |-> NoClient, body |-> NoBody, todo |-> {}, known |-> NoRoutes]

(* Every variable keeps its shape: no route gets a tag or a tunnel that the
   request body did not have. *)
TypeOK ==
    /\ routes \in RouteIndex
    /\ nextId \in Nat
    /\ policy \in Documents
    /\ req \in [Slot -> Request]
    /\ changes \in 0..MaxChanges

Init ==
    /\ routes \in InitialRoutes
    /\ nextId = FirstId
    /\ policy \in Documents
    /\ req = [p \in Slot |-> NoRequest]
    /\ changes = 0

-----------------------------------------------------------------------------
(* The policy *)

(* Mutation of parsePolicy: a tunnel may be assigned to two clients. *)
parsePolicy_SharedTunnels(doc) ==
    /\ DOMAIN doc # {}
    /\ \A c \in DOMAIN doc: doc[c].tunnels # {}

(* A document that is accepted; with any other the Worker answers 500. *)
parsePolicy(doc) ==
    /\ DOMAIN doc # {}
    /\ \A c \in DOMAIN doc: doc[c].tunnels # {}
    /\ \A c, d \in DOMAIN doc: c # d => doc[c].tunnels \cap doc[d].tunnels = {}

Serves(c) == parsePolicy(policy) /\ c \in DOMAIN policy

tunnelAllowed(c, t) == t \in policy[c].tunnels

(* By the stored form, which has no wildcard label. *)
hostnameAllowed(c, h) == h \in Host /\ Stored[h] \in policy[c].hosts

commentAllowed(c, tag, required) ==
    IF tag \in {Absent, Null} THEN ~(required /\ policy[c].owner # NoOwner)
                             ELSE policy[c].owner \in {NoOwner, tag}

(* The routes of the account that are the client's own. *)
ownRoute(c, h) == Routed(h) /\ tunnelAllowed(c, routes[h].tunnel) /\ h \in policy[c].hosts

CreateAllowed(c, body) ==
    /\ tunnelAllowed(c, body.tunnel)
    /\ hostnameAllowed(c, body.hostname)
    /\ commentAllowed(c, body.tag, TRUE)

(* Mutations of PatchAllowed: to any tunnel; with any comment. *)
PatchAllowed_AnyTunnel(c, body) ==
    /\ body.hostname = Absent \/ hostnameAllowed(c, body.hostname)
    /\ commentAllowed(c, body.tag, FALSE)

PatchAllowed_AnyComment(c, body) ==
    /\ body.tunnel = Absent \/ tunnelAllowed(c, body.tunnel)
    /\ body.hostname = Absent \/ hostnameAllowed(c, body.hostname)

PatchAllowed(c, body) ==
    /\ body.tunnel = Absent \/ tunnelAllowed(c, body.tunnel)
    /\ body.hostname = Absent \/ hostnameAllowed(c, body.hostname)
    /\ commentAllowed(c, body.tag, FALSE)

-----------------------------------------------------------------------------
(* The handlers *)

Serve(p, request) ==
    /\ req[p].pc = "idle"
    /\ req' = [req EXCEPT ![p] = request]
    /\ UNCHANGED <<account, policy, changes>>

Respond(p) == req' = [req EXCEPT ![p] = NoRequest]

(* list: one tunnel by name, or all of the client's. *)
StartList(p, c, t) ==
    /\ t = Absent \/ tunnelAllowed(c, t)
    /\ Serve(p, [NoRequest EXCEPT !.pc = "list", !.client = c,
                                  !.todo = IF t = Absent THEN policy[c].tunnels ELSE {t}])

ListTunnel(p, t) ==
    /\ req[p].pc = "list"
    /\ t \in req[p].todo
    /\ req' = [req EXCEPT ![p].todo = @ \ {t},
                          ![p].known = [h \in Host |-> IF h \in OnTunnel(t) THEN routes[h] ELSE @[h]]]
    /\ UNCHANGED <<account, policy, changes>>

AnswerList(p) ==
    /\ req[p].pc = "list"
    /\ req[p].todo = {}
    /\ Respond(p)
    /\ UNCHANGED <<account, policy, changes>>

StartCreate(p, c, body) ==
    /\ nextId < MaxId
    /\ CreateAllowed(c, body)
    /\ Serve(p, [NoRequest EXCEPT !.pc = "create", !.client = c, !.body = body])

(* Mutation of TagsOf: a field that is not there is sent all the same. *)
TagsOf_Missing(tag, kept) == {tag}

(* The tags a body may leave a route with.  A missing comment is not sent; a
   null one is, and whether Cloudflare clears the comment then or keeps it is
   not recorded anywhere in the repository. *)
TagsOf(tag, kept) ==
    CASE tag = Absent -> {kept}
      [] tag = Null   -> {kept, Untagged}
      [] OTHER        -> {tag}

(* The refusal of a name that is held passes through. *)
SendCreate(p) ==
    LET body == req[p].body
    IN  /\ req[p].pc = "create"
        /\ IF Routed(Stored[body.hostname])
           THEN UNCHANGED account
           ELSE \E tag \in TagsOf(body.tag, Untagged):
                   CreateHostnameRoute(Stored[body.hostname], body.tunnel, tag)
        /\ Respond(p)
        /\ UNCHANGED <<policy, changes>>

(* The look-up by id, up to the call upstream; h is where the id lives. *)
LookUp(p, c, h, pc, body) ==
    /\ ownRoute(c, h)
    /\ Serve(p, [NoRequest EXCEPT !.pc = pc, !.client = c, !.body = body,
                                  !.known = [NoRoutes EXCEPT ![h] = routes[h]]])

StartPatch(p, c, h, body) == PatchAllowed(c, body) /\ LookUp(p, c, h, "patch", body)
StartDelete(p, c, h)      == LookUp(p, c, h, "delete", NoBody)

(* Cloudflare's PATCH of the live route of h, whose tag it leaves at tag: a
   name that is held refuses a rename. *)
Patched(h, body, tag) ==
    LET name == IF body.hostname = Absent THEN h ELSE Stored[body.hostname]
        r    == [id     |-> routes[h].id,
                 tunnel |-> IF body.tunnel = Absent THEN routes[h].tunnel ELSE body.tunnel,
                 tag    |-> tag]
    IN  /\ name = h \/ ~Routed(name)
        /\ routes' = [g \in Host |-> IF g = name THEN r ELSE IF g = h THEN NoRoute ELSE routes[g]]
        /\ UNCHANGED nextId

(* The id found for g, wherever it lives now. *)
SendPatch(p, g, h) ==
    /\ req[p].pc = "patch"
    /\ req[p].known[g] # NoRoute
    /\ HasId(h, req[p].known[g].id)
    /\ \E tag \in TagsOf(req[p].body.tag, routes[h].tag): Patched(h, req[p].body, tag)
    /\ Respond(p)
    /\ UNCHANGED <<policy, changes>>

SendDelete(p, g) ==
    /\ req[p].pc = "delete"
    /\ req[p].known[g] # NoRoute
    /\ DeleteHostnameRoute(req[p].known[g].id)
    /\ Respond(p)
    /\ UNCHANGED <<policy, changes>>

(* An upstream call that fails without effect: its error passes through. *)
SendFails(p) ==
    /\ req[p].pc # "idle"
    /\ Respond(p)
    /\ UNCHANGED <<account, policy, changes>>

-----------------------------------------------------------------------------
(* Writers that do not go through the broker. *)

Change == changes < MaxChanges /\ changes' = changes + 1 /\ UNCHANGED <<policy, req>>

OtherCreates(h, t) == Change /\ CreateUntagged(Stored[h], t)
OtherDeletes(h)    == Change /\ DeleteUntagged(h)

-----------------------------------------------------------------------------

(* handle: a request of a client the policy names. *)
Arrive(p, c) ==
    /\ Serves(c)
    /\ \/ \E t \in Tunnel \cup {Absent}: StartList(p, c, t)
       \/ \E body \in Body: StartCreate(p, c, body)
       \/ \E h \in Host, body \in PatchBodies: StartPatch(p, c, h, body)
       \/ \E h \in Host: StartDelete(p, c, h)

Proceed(p) ==
    \/ \E t \in Tunnel: ListTunnel(p, t)
    \/ AnswerList(p)
    \/ SendCreate(p)
    \/ \E g, h \in Host: SendPatch(p, g, h)
    \/ \E g \in Host: SendDelete(p, g)
    \/ SendFails(p)

Next ==
    \/ \E p \in Slot: (\E c \in Client: Arrive(p, c)) \/ Proceed(p)
    \/ \E h \in Host, t \in Tunnel: OtherCreates(h, t)
    \/ \E h \in Host: OtherDeletes(h)

Spec == Init /\ [][Next]_vars

-----------------------------------------------------------------------------
(* Properties *)

(* No id is live twice, and the next one is new. *)
FreshIds ==
    /\ \A h \in Host: Routed(h) => routes[h].id < nextId
    /\ \A g, h \in Host: Routed(g) /\ HasId(h, routes[g].id) => g = h

KnownOwn(p) ==
    \A g, h \in Host: req[p].known[g] # NoRoute /\ HasId(h, req[p].known[g].id) =>
        /\ routes[h].tunnel \in policy[req[p].client].tunnels
        /\ req[p].pc \in {"patch", "delete"} => h \in policy[req[p].client].hosts

(* However long a request waits between its look-up and its second call, or
   between two of its lists, a route it has read is gone or still is its own
   client's: what ownRoute and list have checked stays true, since only that
   client's requests can move or rename the route meanwhile. *)
KnownStaysOwn == \A p \in Slot: KnownOwn(p)

(* A client the policy gives the tunnel of r to. *)
HeldBy(r, c) == r # NoRoute /\ c \in DOMAIN policy /\ r.tunnel \in policy[c].tunnels

Apart(h) ==
    routes'[h] # routes[h] /\ changes' = changes =>
        \E p \in Slot:
            /\ req'[p] # req[p]
            /\ \A r \in {routes[h], routes'[h]} \ {NoRoute}: HeldBy(r, req[p].client)
            /\ \A c \in Client: HeldBy(routes[h], c) \/ HeldBy(routes'[h], c) => c = req[p].client
            /\ h \in policy[req[p].client].hosts

(* A route on a client's tunnel is created, changed and deleted by that
   client's requests only, under a hostname the client may manage, whatever
   document was deployed (docs/multi-tunnel-lifecycle.md, section 7, "What
   the broker enforces"). *)
ClientsKeepApart == [][\A h \in Host: Apart(h)]_vars

(* The tag of a route is new: the id did not have it before this step. *)
Retagged(h) == ~\E g \in Host: HasId(g, routes'[h].id) /\ routes[g].tag = routes'[h].tag

(* The client of p may leave h with the tag it has now. *)
MayTag(p, h) ==
    LET owner == policy[req[p].client].owner
    IN  \/ owner = NoOwner
        \/ routes'[h].tag = owner
        \/ req[p].pc = "patch" /\ req[p].body.tag = Null /\ routes'[h].tag = Untagged

(* A client with an owner writes no other owner's tag, by no mix of creates,
   renames and patches, and creates no untagged route: what policy.ts promises
   of "owner" ("a client cannot create a route that claims to belong to
   someone else").  It can take a tag off in one way only, a PATCH whose
   comment is null, which commentAllowed takes for a missing one. *)
OwnTagOnly ==
    [][\A h \in Host: routes'[h] # NoRoute /\ Retagged(h) /\ changes' = changes =>
          \E p \in Slot: req'[p] # req[p] /\ MayTag(p, h)]_vars
=============================================================================
