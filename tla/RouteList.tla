------------------------------ MODULE RouteList ------------------------------
(***************************************************************************)
(* A list of hostname routes is read in pages, while others write.         *)
(*                                                                         *)
(* ListHostnameRoutes (internal/cloudflare/client.go) and list of the      *)
(* broker (broker/src/handler.ts) ask for page 1, 2, ... of a tunnel, or   *)
(* of the account, by offset, until a page reaches the total it reports.   *)
(* Each page is one step: routes may come, go and move between two pages.  *)
(* Provider.tla takes such a list as one step; this module says what it    *)
(* abstracts from.                                                         *)
(*                                                                         *)
(* The service keeps its routes in some fixed order, and a new route can   *)
(* get any free place in it (nothing in the repository says which).        *)
(***************************************************************************)
EXTENDS Integers, Sequences, FiniteSets

CONSTANTS
    Host, Tunnel, Owner,
    Place,          \* the places of the service's order
    Untagged,       \* a comment with no owner tag
    taker,          \* the one owner that takes untagged routes (SoleTaker)
    Account,        \* the blank tunnel id: every route of the account
    Lister,         \* who lists
    scopes,         \* the tunnels each lister asks for, in order
    Capped,         \* the listers that stop after PageCap pages: the broker
    PerPage,        \* 100 in the code
    PageCap,        \* MAX_UPSTREAM_PAGES
    InitialBooks,   \* the accounts the system may start in
    MaxChanges,     \* bound: writes by others
    MaxFaults       \* bound: failed calls

Tag   == Owner \cup {Untagged}
Scope == Tunnel \cup {Account}
Route == [id: Nat, host: Host, tunnel: Tunnel, tag: Tag, place: Place]

(* A route as it stood on a page: each lister's at and page number it. *)
Row   == [at: Nat, page: Nat, route: Route]

ASSUME ListerAssumption ==
    /\ scopes \in [Lister -> Seq(Scope)]
    /\ \A l \in Lister: Len(scopes[l]) > 0
    /\ Capped \subseteq Lister
ASSUME PageAssumption == PerPage \in Nat \ {0} /\ PageCap \in Nat \ {0}
ASSUME BoundAssumption == MaxChanges \in Nat /\ MaxFaults \in Nat
ASSUME PlaceAssumption == Place \subseteq Nat
ASSUME NameAssumption == taker \in Owner /\ Untagged \notin Owner /\ Account \notin Tunnel
ASSUME BookAssumption ==
    \A b \in InitialBooks:
        /\ b \in SUBSET Route /\ IsFiniteSet(b)
        /\ \A r \in b: r.id \in 1..Cardinality(b)
        /\ \A q, r \in b: q.id = r.id \/ q.host = r.host \/ q.place = r.place => q = r

VARIABLES
    book,       \* the live routes of the account
    nextId,     \* the id the next route gets
    list,       \* where each lister is, and what it has read
    owed,       \* history: the ids a list owes its caller
    left,       \* history: the routes that left the pages a list had read
    changes, faults

account == <<book, nextId>>
bounds  == <<changes, faults>>

Reading ==
    [at:     Nat,           \* the tunnel it is at
     page:   Nat,           \* the page it asks for next
     read:   SUBSET Row,
     beyond: Nat,           \* history: the routes the cap kept from it
     state:  {"reading", "done", "failed"}]

Unread == [at |-> 1, page |-> 1, read |-> {}, beyond |-> 0, state |-> "reading"]

ListInit ==
    /\ book \in InitialBooks
    /\ nextId = 1 + Cardinality(book)
    /\ list = [l \in Lister |-> Unread]
    /\ owed = [l \in Lister |-> {}]
    /\ left = [l \in Lister |-> 0]
    /\ changes = 0
    /\ faults = 0

Ids(routes)    == {r.id : r \in routes}
Places(routes) == {r.place : r \in routes}
Shown(rows)    == {e.route : e \in rows}

-----------------------------------------------------------------------------
(* Reading *)

Within(s, routes) == {r \in routes: s = Account \/ r.tunnel = s}

CurrentScope(l) == scopes[l][list[l].at]
InScope(l)      == Within(CurrentScope(l), book)

(* The number p has in a list of the routes. *)
Number(p, routes) == Cardinality({n \in Places(routes): n <= p})

(* The routes of the pages before the one l asks for next. *)
Behind(l) ==
    {r \in InScope(l): Number(r.place, InScope(l)) <= (list[l].page - 1) * PerPage}

PageOf(l) ==
    {r \in InScope(l) \ Behind(l): Number(r.place, InScope(l)) <= list[l].page * PerPage}

Rows(l) == [at: {list[l].at}, page: {list[l].page}, route: PageOf(l)]

(* Mutation of ReachesTotal: the total is compared with the next page's end. *)
ReachesTotal_NextPage(l) == (list[l].page + 1) * PerPage >= Cardinality(InScope(l))

(* The total is the one this page reports. *)
ReachesTotal(l) == list[l].page * PerPage >= Cardinality(InScope(l))

(* The routes of the pages after the one l asks for next. *)
Beyond(l) == {r \in InScope(l): Number(r.place, InScope(l)) > list[l].page * PerPage}

AtCap(l)      == l \in Capped /\ list[l].page = PageCap
LastTunnel(l) == list[l].at = Len(scopes[l])

(* A list owes what is in the tunnel at its first page and stays. *)
Owe(l) ==
    owed' = [owed EXCEPT ![l] = @ \cup IF list[l].page = 1 THEN Ids(InScope(l)) ELSE {}]

ReadPage(l) ==
    /\ list[l].state = "reading"
    /\ ~ReachesTotal(l) /\ ~AtCap(l)
    /\ list' = [list EXCEPT ![l].page = @ + 1, ![l].read = @ \cup Rows(l)]
    /\ Owe(l)
    /\ UNCHANGED <<account, left, bounds>>

ReadLastPage(l) ==
    /\ list[l].state = "reading"
    /\ ReachesTotal(l) \/ AtCap(l)
    /\ list' = [list EXCEPT ![l] =
                  [at     |-> @.at + 1,
                   page   |-> 1,
                   read   |-> @.read \cup Rows(l),
                   beyond |-> @.beyond + IF ReachesTotal(l) THEN 0 ELSE Cardinality(Beyond(l)),
                   state  |-> IF LastTunnel(l) THEN "done" ELSE "reading"]]
    /\ Owe(l)
    /\ UNCHANGED <<account, left, bounds>>

(* A page that fails, or cannot be decoded, fails the whole list. *)
ReadFails(l) ==
    /\ faults < MaxFaults
    /\ list[l].state = "reading"
    /\ list' = [list EXCEPT ![l].state = "failed"]
    /\ faults' = faults + 1
    /\ UNCHANGED <<account, owed, left, changes>>

-----------------------------------------------------------------------------
(* Writing: the account becomes b.  What leaves a tunnel that is being read
   is owed no more; if it was on a page already read, the pages after it
   move up by one. *)

Leaving(l, b, routes) ==
    IF list[l].state = "reading" THEN Ids(routes) \ Ids(Within(CurrentScope(l), b)) ELSE {}

Rewrite(b) ==
    /\ book' = b
    /\ owed' = [l \in Lister |-> owed[l] \ Leaving(l, b, InScope(l))]
    /\ left' = [l \in Lister |-> left[l] + Cardinality(Leaving(l, b, Behind(l)))]

(* POST, when the name is free *)
Adds(h, t, tag) ==
    /\ \A r \in book: r.host # h
    /\ \E p \in Place \ Places(book):
          Rewrite(book \cup {[id |-> nextId, host |-> h, tunnel |-> t, tag |-> tag, place |-> p]})
    /\ nextId' = nextId + 1

(* DELETE *)
Removes(id) ==
    /\ \E r \in book: r.id = id /\ Rewrite(book \ {r})
    /\ UNCHANGED nextId

(* PATCH: a retarget keeps the id, the place and the tag. *)
Moves(id, t) ==
    /\ \E r \in book:
          /\ r.id = id /\ r.tunnel # t
          /\ Rewrite((book \ {r}) \cup {[r EXCEPT !.tunnel = t]})
    /\ UNCHANGED nextId

(* PATCH of the comment: the instance that takes untagged routes adopts one,
   or sends back the comment from before it did; no other tag ever changes
   (Provider: ClaimsKept). *)
Retags(id, tag) ==
    /\ \E r \in book:
          /\ r.id = id
          /\ {r.tag, tag} = {Untagged, taker}
          /\ Rewrite((book \ {r}) \cup {[r EXCEPT !.tag = tag]})
    /\ UNCHANGED nextId

(* Any other writer. *)
Write ==
    /\ changes < MaxChanges
    /\ changes' = changes + 1
    /\ \/ \E h \in Host, t \in Tunnel, tag \in Tag: Adds(h, t, tag)
       \/ \E id \in Ids(book): Removes(id)
       \/ \E id \in Ids(book), t \in Tunnel: Moves(id, t)
       \/ \E id \in Ids(book), tag \in Tag: Retags(id, tag)
    /\ UNCHANGED <<list, faults>>

-----------------------------------------------------------------------------
(* Properties *)

ListTypeOK ==
    /\ book \in SUBSET Route
    /\ nextId \in Nat
    /\ list \in [Lister -> Reading]
    /\ owed \in [Lister -> SUBSET Nat]
    /\ left \in [Lister -> Nat]
    /\ changes \in 0..MaxChanges
    /\ faults \in 0..MaxFaults

(* A list hides at most one route that stayed where it was for every route
   that left a page already read (ListHostnameRoutes, "paginating fully"):
   with no such departure it is complete, whatever is added, moved in or
   re-tagged between two pages.  A list the cap has cut hides besides no more
   than lay beyond the cap when it gave the tunnel up, and nothing of the
   tunnels it reads after that one. *)
SkipsBounded ==
    \A l \in Lister: list[l].state = "done" =>
        Cardinality(owed[l] \ Ids(Shown(list[l].read))) <= left[l] + list[l].beyond
=============================================================================
