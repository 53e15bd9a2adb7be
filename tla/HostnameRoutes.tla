--------------------------- MODULE HostnameRoutes ---------------------------
(***************************************************************************)
(* The Cloudflare account the instances share: its hostname routes, as     *)
(* the provider's client (internal/cloudflare/client.go) uses them.  The   *)
(* service itself is not in the repository; what it does is what the live  *)
(* measurements in docs/multi-tunnel-lifecycle.md, section 8, record.      *)
(*                                                                         *)
(*   - a name has at most one live route in the whole account, whatever    *)
(*     the tunnel: a second create is refused (409, code 1108);            *)
(*   - a deleted route frees its name at once, and a new route gets a new  *)
(*     id, so an id that was read once never comes to mean another route;  *)
(*   - PATCH and DELETE name a route by id and do nothing but answer an    *)
(*     error when the id is gone;                                          *)
(*   - the comment is the only record of the owner: tag abstracts it.      *)
(***************************************************************************)
EXTENDS Naturals

CONSTANTS
    Host,       \* hostnames, in lower case
    Tunnel,     \* tunnels of the account
    Owner,      \* OWNER_IDs that may appear in a tag
    Untagged,   \* a comment with no owner tag
    NoRoute     \* the hostname is not routed

ASSUME UntaggedAssumption == Untagged \notin Owner

VARIABLES
    routes,     \* the live route of each hostname
    nextId      \* the id the next route gets

Tag == Owner \cup {Untagged}

Route == [id: Nat, tunnel: Tunnel, tag: Tag]

ASSUME NoRouteAssumption == NoRoute \notin Route

(* What a listing yields: the live route found for each hostname, if any. *)
RouteIndex == [Host -> Route \cup {NoRoute}]

NoRoutes == [h \in Host |-> NoRoute]

-----------------------------------------------------------------------------

Routed(h) == routes[h] # NoRoute

HasId(h, id) == Routed(h) /\ routes[h].id = id

OnTunnel(t) == {h \in Host: Routed(h) /\ routes[h].tunnel = t}

(* POST: only a free name can be routed. *)
CreateHostnameRoute(h, t, tag) ==
    /\ ~Routed(h)
    /\ routes' = [routes EXCEPT ![h] = [id |-> nextId, tunnel |-> t, tag |-> tag]]
    /\ nextId' = nextId + 1

(* DELETE by id. *)
DeleteHostnameRoute(id) ==
    /\ routes' = [h \in Host |-> IF HasId(h, id) THEN NoRoute ELSE routes[h]]
    /\ UNCHANGED nextId

(* PATCH of the whole route by id: the tunnel and the comment. *)
PatchHostnameRoute(id, t, tag) ==
    /\ routes' = [h \in Host |-> IF HasId(h, id)
                                 THEN [id |-> id, tunnel |-> t, tag |-> tag]
                                 ELSE routes[h]]
    /\ UNCHANGED nextId

(* PATCH of the comment alone: the tunnel keeps its current value. *)
PatchHostnameRouteComment(id, tag) ==
    /\ routes' = [h \in Host |-> IF HasId(h, id)
                                 THEN [routes[h] EXCEPT !.tag = tag]
                                 ELSE routes[h]]
    /\ UNCHANGED nextId

-----------------------------------------------------------------------------
(* Another writer of the account, with no owner tag: Terraform or a person. *)

CreateUntagged(h, t) == CreateHostnameRoute(h, t, Untagged)

DeleteUntagged(h) ==
    /\ Routed(h)
    /\ routes[h].tag = Untagged
    /\ DeleteHostnameRoute(routes[h].id)
=============================================================================
