---------------------------- MODULE Prune_proofs ----------------------------
(***************************************************************************)
(* What paged lists hide and what the prune command deletes, for every     *)
(* account, every page size, any number of listers and writers.            *)
(*                                                                         *)
(* A list asks by offset, so all that matters of a page boundary is how    *)
(* many routes come before it.  A write moves each number by one at most   *)
(* (the lemmas on Number), and only a route that leaves the pages already  *)
(* read lets one unread route slip behind the boundary (Missed).           *)
(***************************************************************************)
EXTENDS PruneCommand, FiniteSetTheorems, TLAPS

-----------------------------------------------------------------------------
(* The invariant *)

(* Ids, names and places are nobody else's, and ids are not used again. *)
BookInv ==
    /\ IsFiniteSet(book)
    /\ \A r \in book: r.id < nextId
    /\ \A q, r \in book: q.id = r.id \/ q.host = r.host \/ q.place = r.place => q = r

(* The ids l can still read in the tunnel it is at. *)
Waiting(l) == IF list[l].page = 1 THEN {} ELSE Ids(InScope(l) \ Behind(l))

(* The ids l owes, has not read, and will not read where it is. *)
Missed(l) == owed[l] \ (Ids(Shown(list[l].read)) \cup Waiting(l))

Skips(l) ==
    /\ list[l].state = "reading" => list[l].at \in 1..Len(scopes[l])
    /\ list[l].page # 0
    /\ list[l].state = "done" => list[l].at = Len(scopes[l]) + 1 /\ list[l].page = 1
    /\ list[l].beyond # 0 => l \in Capped
    /\ list[l].state = "failed" => faults # 0
    /\ \A id \in owed[l]: id < nextId
    /\ list[l].state # "failed" => Cardinality(Missed(l)) <= left[l] + list[l].beyond

ListInv == BookInv /\ \A l \in Lister: Skips(l)

rows == list[prune].read

(* What became of a route the command has listed. *)
Traced(e) ==
    /\ e.route.id < nextId
    /\ \A r \in book: r.id = e.route.id =>
          /\ r.host = e.route.host
          /\ r.id \notin writers => r = e.route
          /\ e.route.tag = owner =>
                r.tag = owner \/ (r.tag = Untagged /\ r.id \in writers /\ owner = taker)

(* A route nobody else wrote to is owed once its tunnel is being read. *)
Passed(k) == k < list[prune].at \/ (k = list[prune].at /\ list[prune].page # 1)
Owing ==
    list[prune].state # "failed" =>
        \A r \in book, k \in 1..Len(scopes[prune]):
            r.id \notin writers /\ scopes[prune][k] \in {Account, r.tunnel} /\ Passed(k) =>
                r.id \in owed[prune]

Gone == \E id \in Ids(Shown(rows)) \cap writers: id \notin Ids(book)

Listing ==
    command.pc = "list" =>
        /\ command.found = {} /\ ~command.expired /\ command.failures = 0
        /\ command.status = "none"
        /\ \A e \in rows: e.route.id \in Ids(book) \cup writers

Deleting ==
    command.pc = "delete" =>
        /\ command.apply /\ command.status = "none" /\ list[prune].state = "done"
        /\ \A e \in command.found: e.route.id \in Ids(book) \cup writers

Exited ==
    command.pc = "exit" =>
        /\ command.found = {} /\ list[prune].state # "reading"
        /\ command.status = "pruneOK" => command.failures = 0 /\ list[prune].state = "done"
        /\ command.status = "pruneFailed" /\ faults = 0 => Gone

(* Of what the command is to delete, all that is left is found still. *)
Owns(e) == e \in rows /\ Matches(e.route)
Remaining ==
    command.apply /\ command.pc # "list" /\ command.failures = 0
      /\ command.status # "pruneFailed" =>
        \A e \in rows: Matches(e.route) /\ e.route.id \in Ids(book) =>
            \E f \in command.found: f.route.id = e.route.id

CommandInv ==
    /\ \A e \in rows: Traced(e)
    /\ \A e \in command.found: Owns(e)
    /\ command.expired => faults # 0
    /\ command.failures # 0 /\ faults = 0 => Gone
    /\ Owing /\ Listing /\ Deleting /\ Exited /\ Remaining

PruneInv == TypeOK /\ ListInv /\ CommandInv

-----------------------------------------------------------------------------
(* Numbers *)

LEMMA PlacesFinite ==
    ASSUME NEW R \in SUBSET Route, IsFiniteSet(R)
    PROVE  /\ Places(R) \in SUBSET Nat /\ IsFiniteSet(Places(R))
           /\ Cardinality(Places(R)) \in Nat /\ Cardinality(R) \in Nat
           /\ Cardinality(Places(R)) <= Cardinality(R)
<1> DEFINE f == [r \in R |-> r.place]
<1>1. f \in Surjection(R, Places(R))
  BY DEF Surjection, Places
<1>2. Places(R) \in SUBSET Nat
  BY PlaceAssumption DEF Places, Route
<1> QED
  BY <1>1, <1>2, FS_Surjection, FS_CardinalityType

LEMMA NumberType ==
    ASSUME NEW R \in SUBSET Route, IsFiniteSet(R), NEW p
    PROVE  /\ Number(p, R) \in Nat /\ Number(p, R) <= Cardinality(R)
           /\ IsFiniteSet({n \in Places(R): n <= p})
           /\ Cardinality(R) \in Nat
<1>1. {n \in Places(R): n <= p} \in SUBSET Places(R)
  OBVIOUS
<1> QED
  BY <1>1, PlacesFinite, FS_Subset, FS_CardinalityType DEF Number

(* A route with places before it has a number greater than theirs. *)
LEMMA NumberOrder ==
    ASSUME NEW R \in SUBSET Route, IsFiniteSet(R), NEW q \in R
    PROVE  /\ Number(q.place, R) # 0
           /\ \A p \in Nat: p < q.place => Number(p, R) < Number(q.place, R)
<1>0. q.place \in Places(R) /\ q.place \in Nat /\ Places(R) \in SUBSET Nat
  BY PlacesFinite DEF Places
<1>1. q.place \in {n \in Places(R): n <= q.place}
  BY <1>0
<1>2. Number(q.place, R) # 0
  BY <1>1, NumberType, FS_EmptySet DEF Number
<1>3. ASSUME NEW p \in Nat, p < q.place PROVE Number(p, R) < Number(q.place, R)
  <2> DEFINE A == {n \in Places(R): n <= p}
             B == {n \in Places(R): n <= q.place}
  <2>1. A \in SUBSET B /\ q.place \in B /\ q.place \notin A
    BY <1>0, <1>3
  <2>2. Cardinality(A) <= Cardinality(B) /\ (Cardinality(A) = Cardinality(B) => B = A)
    BY <2>1, NumberType, FS_Subset
  <2>3. Number(p, R) <= Number(q.place, R) /\ Number(p, R) # Number(q.place, R)
    BY <2>1, <2>2 DEF Number
  <2>4. Number(p, R) \in Nat /\ Number(q.place, R) \in Nat
    BY NumberType
  <2> QED
    BY <2>3, <2>4
<1> QED
  BY <1>2, <1>3

LEMMA NumberGrows ==
    ASSUME NEW R \in SUBSET Route, NEW S \in SUBSET Route, IsFiniteSet(S),
           Places(R) \subseteq Places(S), NEW p
    PROVE  Number(p, R) <= Number(p, S)
<1>1. {n \in Places(R): n <= p} \in SUBSET {n \in Places(S): n <= p}
  OBVIOUS
<1> QED
  BY <1>1, NumberType, FS_Subset DEF Number

LEMMA NumberShrinks ==
    ASSUME NEW R \in SUBSET Route, NEW S \in SUBSET Route, IsFiniteSet(R),
           NEW n \in Places(R), Places(S) = Places(R) \ {n}, NEW p \in Nat
    PROVE  Number(p, S) = IF n <= p THEN Number(p, R) - 1 ELSE Number(p, R)
<1> DEFINE A == {m \in Places(R): m <= p}
           B == {m \in Places(S): m <= p}
<1>1. B = A \ {n} /\ (n \in A <=> n <= p)
  OBVIOUS
<1>2. IsFiniteSet(A)
  BY NumberType
<1> HIDE DEF A, B
<1>3. Cardinality(B) = IF n \in A THEN Cardinality(A) - 1 ELSE Cardinality(A)
  BY <1>1, <1>2, FS_RemoveElement
<1> QED
  BY <1>1, <1>3 DEF Number, A, B

-----------------------------------------------------------------------------
(* Page boundaries *)

(* The ids a boundary leaves for the pages after it. *)
After(R, o) == Ids({r \in R: ~(Number(r.place, R) <= o)})

(* When every route of R keeps its place in S, none slips behind. *)
LEMMA AfterKept ==
    ASSUME NEW R \in SUBSET Route, NEW S \in SUBSET Route, IsFiniteSet(R), IsFiniteSet(S),
           \A r \in R: \E q \in S: q.id = r.id /\ q.place = r.place, NEW o \in Nat
    PROVE  After(R, o) \subseteq After(S, o)
<1>1. Places(R) \subseteq Places(S)
  BY DEF Places
<1>2. ASSUME NEW r \in R, ~(Number(r.place, R) <= o)
      PROVE  \E q \in S: q.id = r.id /\ ~(Number(q.place, S) <= o)
  <2>1. PICK q \in S: q.id = r.id /\ q.place = r.place
    OBVIOUS
  <2>2. Number(r.place, R) <= Number(r.place, S)
    BY <1>1, NumberGrows
  <2>3. Number(r.place, R) \in Nat /\ Number(r.place, S) \in Nat
    BY NumberType
  <2> QED
    BY <1>2, <2>1, <2>2, <2>3
<1> QED
  BY <1>2 DEF After, Ids

(* When the route r goes, none slips behind if r was after the boundary, and
   one at most if r was before it. *)
LEMMA AfterLost ==
    ASSUME NEW R \in SUBSET Route, IsFiniteSet(R), \A p, q \in R: p.place = q.place => p = q,
           NEW r \in R, NEW o \in Nat
    PROVE  \E id \in Nat:
              \A q \in R: ~(Number(q.place, R) <= o) =>
                  q = r \/ q.id \in After(R \ {r}, o)
                        \/ (Number(r.place, R) <= o /\ q.id = id)
<1> DEFINE S == R \ {r}
<1>0. /\ S \in SUBSET Route
      /\ \A q \in R: q.place \in Nat /\ q.id \in Nat /\ Number(q.place, R) \in Nat
  BY NumberType, PlaceAssumption DEF Route
<1>1. r.place \in Places(R) /\ Places(S) = Places(R) \ {r.place}
  BY DEF Places
<1>2. \A q \in R: Number(q.place, S) =
          IF r.place <= q.place THEN Number(q.place, R) - 1 ELSE Number(q.place, R)
  <2> HIDE DEF S
  <2>1. ASSUME NEW n \in Places(R), n = r.place, NEW p \in Nat
        PROVE  Number(p, S) = IF n <= p THEN Number(p, R) - 1 ELSE Number(p, R)
    BY <1>0, <1>1, <2>1, NumberShrinks
  <2> QED
    BY <1>0, <1>1, <2>1
<1>3. \A p, q \in R: p.place < q.place => Number(p.place, R) < Number(q.place, R)
  BY <1>0, NumberOrder
<1>4. \A q \in S: ~(Number(q.place, S) <= o) => q.id \in After(S, o)
  BY DEF After, Ids
<1> HIDE DEF S
<1>5. ASSUME NEW q \in R, q # r, ~(Number(q.place, R) <= o), q.id \notin After(S, o)
      PROVE  Number(r.place, R) <= o /\ Number(q.place, R) = o + 1
  <2>1. q \in S
    BY <1>5 DEF S
  <2>2. Number(q.place, S) <= o
    BY <1>4, <1>5, <2>1
  <2>3. r.place <= q.place /\ r.place # q.place /\ Number(q.place, R) - 1 <= o
    BY <1>0, <1>2, <1>5, <2>2
  <2>4. Number(r.place, R) < Number(q.place, R)
    BY <1>0, <1>3, <2>3
  <2> QED
    BY <1>0, <1>5, <2>3, <2>4
<1>6. \A p, q \in R: Number(p.place, R) = o + 1 /\ Number(q.place, R) = o + 1 => p = q
  <2> SUFFICES ASSUME NEW p \in R, NEW q \in R, Number(p.place, R) = o + 1,
                      Number(q.place, R) = o + 1
               PROVE  p.place = q.place
    OBVIOUS
  <2>1. ~(p.place < q.place) /\ ~(q.place < p.place)
    BY <1>3
  <2> QED
    BY <1>0, <2>1
<1>7. CASE \E q \in R: Number(q.place, R) = o + 1
  <2>1. PICK q \in R: Number(q.place, R) = o + 1
    BY <1>7
  <2>2. \A p \in R: ~(Number(p.place, R) <= o) =>
            p = r \/ p.id \in After(S, o) \/ (Number(r.place, R) <= o /\ p.id = q.id)
    BY <1>5, <1>6, <2>1
  <2> QED
    BY <1>0, <2>1, <2>2 DEF S
<1>8. CASE ~\E q \in R: Number(q.place, R) = o + 1
  <2>1. \A p \in R: ~(Number(p.place, R) <= o) => p = r \/ p.id \in After(S, o)
    BY <1>5, <1>8
  <2> QED
    BY <1>0, <2>1 DEF S
<1> QED
  BY <1>7, <1>8

-----------------------------------------------------------------------------
(* What a write does to the account *)

Added(r) ==
    /\ r \in Route /\ r.id = nextId
    /\ \A q \in book: q.host # r.host /\ q.place # r.place
    /\ Rewrite(book \cup {r})
    /\ nextId' = nextId + 1

Removed(r) ==
    /\ r \in book
    /\ Rewrite(book \ {r})
    /\ UNCHANGED nextId

Changed(r, q) ==
    /\ r \in book
    /\ q \in Route /\ q.id = r.id /\ q.host = r.host /\ q.place = r.place
    /\ q.tag = r.tag \/ {r.tag, q.tag} = {Untagged, taker}
    /\ Rewrite((book \ {r}) \cup {q})
    /\ UNCHANGED nextId

AccountWrite ==
    \/ \E r: Added(r) \/ Removed(r)
    \/ \E r, q: Changed(r, q)

LEMMA WriteShape ==
    ASSUME TypeOK, Write PROVE AccountWrite
<1>0. book \in SUBSET Route /\ nextId \in Nat
  BY DEF TypeOK, ListTypeOK
<1>1. ASSUME NEW h \in Host, NEW t \in Tunnel, NEW tag \in Tag, Adds(h, t, tag)
      PROVE  \E r: Added(r)
  <2>1. PICK p \in Place \ Places(book):
            Rewrite(book \cup {[id |-> nextId, host |-> h, tunnel |-> t, tag |-> tag, place |-> p]})
    BY <1>1 DEF Adds
  <2> DEFINE r == [id |-> nextId, host |-> h, tunnel |-> t, tag |-> tag, place |-> p]
  <2>2. r \in Route /\ r.id = nextId /\ r.host = h /\ r.place = p
    BY <1>0, <2>1 DEF Route
  <2>3. \A q \in book: q.host # r.host /\ q.place # r.place
    BY <1>1, <2>1, <2>2 DEF Adds, Places
  <2>4. Rewrite(book \cup {r}) /\ nextId' = nextId + 1
    BY <1>1, <2>1 DEF Adds
  <2> HIDE DEF r
  <2> QED
    BY <2>2, <2>3, <2>4 DEF Added
<1>2. ASSUME NEW id, Removes(id) PROVE \E r: Removed(r)
  BY <1>2 DEF Removes, Removed
<1>3. ASSUME NEW id, NEW t \in Tunnel, Moves(id, t) PROVE \E r, q: Changed(r, q)
  <2>1. PICK r \in book: r.id = id /\ Rewrite((book \ {r}) \cup {[r EXCEPT !.tunnel = t]})
    BY <1>3 DEF Moves
  <2> DEFINE q == [r EXCEPT !.tunnel = t]
  <2>2. q \in Route /\ q.id = r.id /\ q.host = r.host /\ q.place = r.place /\ q.tag = r.tag
    BY <1>0 DEF Route
  <2>3. Rewrite((book \ {r}) \cup {q}) /\ UNCHANGED nextId
    BY <1>3, <2>1 DEF Moves
  <2> HIDE DEF q
  <2> QED
    BY <2>2, <2>3 DEF Changed
<1>4. ASSUME NEW id, NEW tag \in Tag, Retags(id, tag) PROVE \E r, q: Changed(r, q)
  <2>1. PICK r \in book: /\ r.id = id /\ {r.tag, tag} = {Untagged, taker}
                         /\ Rewrite((book \ {r}) \cup {[r EXCEPT !.tag = tag]})
    BY <1>4 DEF Retags
  <2> DEFINE q == [r EXCEPT !.tag = tag]
  <2>2. q \in Route /\ q.id = r.id /\ q.host = r.host /\ q.place = r.place /\ q.tag = tag
    BY <1>0 DEF Route
  <2>3. Rewrite((book \ {r}) \cup {q}) /\ UNCHANGED nextId
    BY <1>4, <2>1 DEF Retags
  <2> HIDE DEF q
  <2> QED
    BY <2>1, <2>2, <2>3 DEF Changed
<1> QED
  BY <1>1, <1>2, <1>3, <1>4 DEF Write, AccountWrite

(* A step writes to the account, once, or leaves it and what lists owe. *)
LEMMA BookNext ==
    ASSUME TypeOK, BookInv, AccountWrite \/ UNCHANGED account
    PROVE  /\ BookInv' /\ book' \in SUBSET Route /\ nextId' \in Nat /\ nextId <= nextId'
           /\ \A r \in book': r \in book \/ r.id = nextId \/ \E q \in book: q.id = r.id
<1>0. book \in SUBSET Route /\ nextId \in Nat
  BY DEF TypeOK, ListTypeOK
<1>1. CASE UNCHANGED account
  BY <1>0, <1>1 DEF account, BookInv
<1>2. ASSUME NEW r, Added(r)
      PROVE  /\ BookInv' /\ book' \in SUBSET Route /\ nextId' \in Nat /\ nextId <= nextId'
             /\ \A q \in book': q \in book \/ q.id = nextId
  <2>1. book' = book \cup {r} /\ nextId' = nextId + 1 /\ r \in Route /\ r.id = nextId
    BY <1>2 DEF Added, Rewrite
  <2>2. IsFiniteSet(book')
    BY <2>1, FS_AddElement DEF BookInv
  <2>3. \A q \in book: q.host # r.host /\ q.place # r.place /\ q.id \in Nat /\ q.id < nextId
    BY <1>0, <1>2 DEF Added, BookInv, Route
  <2>4. \A q \in book': q.id < nextId'
    BY <1>0, <2>1, <2>3
  <2>5. \A p, q \in book': p.id = q.id \/ p.host = q.host \/ p.place = q.place => p = q
    BY <1>0, <2>1, <2>3 DEF BookInv
  <2> QED
    BY <1>0, <2>1, <2>2, <2>4, <2>5 DEF BookInv
<1>3. ASSUME NEW r, Removed(r)
      PROVE  BookInv' /\ book' \in SUBSET book /\ nextId' = nextId
  <2>1. book' = book \ {r} /\ nextId' = nextId
    BY <1>3 DEF Removed, Rewrite
  <2> QED
    BY <2>1, FS_RemoveElement DEF BookInv
<1>4. ASSUME NEW r, NEW q, Changed(r, q)
      PROVE  /\ BookInv' /\ book' \in SUBSET Route /\ nextId' = nextId
             /\ \A p \in book': p \in book \/ (r \in book /\ r.id = p.id)
  <2>1. /\ book' = (book \ {r}) \cup {q} /\ nextId' = nextId
        /\ r \in book /\ q \in Route /\ q.id = r.id /\ q.host = r.host /\ q.place = r.place
    BY <1>4 DEF Changed, Rewrite
  <2>2. IsFiniteSet(book')
    BY <2>1, FS_RemoveElement, FS_AddElement DEF BookInv
  <2>3. \A p \in book': p.id < nextId'
    BY <2>1 DEF BookInv
  <2>4. \A o, p \in book': o.id = p.id \/ o.host = p.host \/ o.place = p.place => o = p
    BY <2>1 DEF BookInv
  <2> QED
    BY <1>0, <2>1, <2>2, <2>3, <2>4 DEF BookInv
<1> QED
  BY <1>0, <1>1, <1>2, <1>3, <1>4 DEF AccountWrite

-----------------------------------------------------------------------------
(* What a list hides *)

(* The number of the last route before the page l asks for. *)
Boundary(l) == (list[l].page - 1) * PerPage

LEMMA ListerType ==
    ASSUME TypeOK, NEW l \in Lister
    PROVE  /\ list[l] \in Reading /\ owed[l] \in SUBSET Nat /\ left[l] \in Nat
           /\ list \in [Lister -> Reading] /\ book \in SUBSET Route /\ nextId \in Nat
           /\ faults \in Nat /\ list[l].beyond \in Nat
           /\ list[l].page # 0 => Boundary(l) \in Nat
BY PageAssumption, BoundAssumption DEF TypeOK, ListTypeOK, Reading, Boundary

LEMMA WaitingAfter ==
    ASSUME NEW l \in Lister, list[l].page # 1 PROVE Waiting(l) = After(InScope(l), Boundary(l))
BY DEF Waiting, Behind, After, Ids, Boundary

LEMMA MissedFinite ==
    ASSUME TypeOK, NEW l \in Lister, Skips(l)
    PROVE  IsFiniteSet(Missed(l)) /\ Cardinality(Missed(l)) \in Nat
<1>1. \A id \in Missed(l): id \in Nat /\ id <= nextId
  BY ListerType DEF Skips, Missed
<1> QED
  BY <1>1, ListerType, FS_BoundedSetOfNaturals, FS_CardinalityType

(* A set with at most one element that the other has not. *)
LEMMA OneMore ==
    ASSUME NEW A, NEW B, NEW x, IsFiniteSet(B), A \subseteq B \cup {x}
    PROVE  IsFiniteSet(A) /\ Cardinality(A) \in Nat /\ Cardinality(A) <= Cardinality(B) + 1
<1>0. Cardinality(B) \in Nat
  BY FS_CardinalityType
<1>1. IsFiniteSet(B \cup {x}) /\ Cardinality(B \cup {x}) <= Cardinality(B) + 1
  BY <1>0, FS_AddElement
<1>2. /\ IsFiniteSet(A) /\ Cardinality(A) <= Cardinality(B \cup {x})
      /\ Cardinality(A) \in Nat /\ Cardinality(B) \in Nat /\ Cardinality(B \cup {x}) \in Nat
  BY <1>1, FS_Subset, FS_CardinalityType
<1> QED
  BY <1>1, <1>2

(* What a write does to the routes l is reading. *)
LEMMA ScopeWrite ==
    ASSUME TypeOK, BookInv, AccountWrite, NEW s
    PROVE  LET R == Within(s, book)
               S == Within(s, book')
           IN  \/ \A r \in R: \E q \in S: q.id = r.id /\ q.place = r.place
               \/ \E r \in R: S = R \ {r}
<1> DEFINE R == Within(s, book)
           S == Within(s, book')
<1>1. ASSUME NEW r, Added(r) PROVE R \subseteq S
  BY <1>1 DEF Added, Rewrite, Within
<1>2. ASSUME NEW r, Removed(r) PROVE R \subseteq S \/ (r \in R /\ S = R \ {r})
  BY <1>2 DEF Removed, Rewrite, Within
<1>3. ASSUME NEW r, NEW q, Changed(r, q), ~\E p \in R: S = R \ {p}
      PROVE  \A p \in R: \E o \in S: o.id = p.id /\ o.place = p.place
  <2>1. /\ book' = (book \ {r}) \cup {q} /\ r \in book
        /\ q.id = r.id /\ q.place = r.place
    BY <1>3 DEF Changed, Rewrite
  <2>2. \A p \in R: p # r => p \in S
    BY <2>1 DEF Within
  <2>3. r \in R => q \in S
    <3> SUFFICES ASSUME r \in R, q \notin S PROVE FALSE
      OBVIOUS
    <3>1. q \notin R
      BY <2>1 DEF Within
    <3>2. S = R \ {r}
      BY <2>1 DEF Within
    <3> QED
      BY <1>3, <3>2
  <2> QED
    BY <2>1, <2>2, <2>3
<1> QED
  BY <1>1, <1>2, <1>3 DEF AccountWrite

LEMMA OwedNext ==
    ASSUME AccountWrite, NEW l \in Lister
    PROVE  /\ owed'[l] = owed[l] \ Leaving(l, book', InScope(l))
           /\ left'[l] = left[l] + Cardinality(Leaving(l, book', Behind(l)))
<1>1. PICK b: Rewrite(b)
  BY DEF AccountWrite, Added, Removed, Changed
<1> QED
  BY <1>1 DEF Rewrite

LEMMA LeavingFinite ==
    ASSUME TypeOK, BookInv, NEW l \in Lister, NEW b
    PROVE  /\ IsFiniteSet(Leaving(l, b, Behind(l)))
           /\ Cardinality(Leaving(l, b, Behind(l))) \in Nat
<1> DEFINE passed == Leaving(l, b, Behind(l))
<1>0. book \in SUBSET Route /\ nextId \in Nat
  BY ListerType
<1>1. \A r \in InScope(l): r.id \in Nat /\ r.id <= nextId
  BY <1>0 DEF InScope, Within, BookInv, Route
<1>2. \A id \in passed: \E r \in InScope(l): id = r.id
  BY DEF Leaving, Ids, Behind
<1>3. passed \in SUBSET Nat /\ \A id \in passed: id <= nextId
  BY <1>1, <1>2
<1> QED
  BY <1>0, <1>3, FS_BoundedSetOfNaturals, FS_CardinalityType

(* A write adds to what l misses only as it adds to what left its pages. *)
LEMMA SkipsWrite ==
    ASSUME TypeOK, BookInv, AccountWrite, NEW l \in Lister, Skips(l), list'[l] = list[l],
           faults' \in {faults, faults + 1}
    PROVE  Skips(l)'
<1> DEFINE s == CurrentScope(l)
           R == InScope(l)
           S == Within(s, book')
           o == Boundary(l)
           gone == Leaving(l, book', R)
           passed == Leaving(l, book', Behind(l))
<1>0. /\ list[l] \in Reading /\ owed[l] \in SUBSET Nat /\ left[l] \in Nat
      /\ book \in SUBSET Route /\ nextId \in Nat /\ faults \in Nat /\ list[l].beyond \in Nat
      /\ IsFiniteSet(Missed(l)) /\ Cardinality(Missed(l)) \in Nat
  BY ListerType, MissedFinite
<1>1. owed'[l] = owed[l] \ gone /\ left'[l] = left[l] + Cardinality(passed)
  BY OwedNext
<1>2. Cardinality(passed) \in Nat
  BY LeavingFinite
<1>3. left'[l] \in Nat /\ left[l] <= left'[l]
  BY <1>0, <1>1, <1>2
<1>4. nextId' \in Nat /\ nextId <= nextId' /\ BookInv'
  BY BookNext
<1>5. faults' # 0 \/ faults = 0
  BY <1>0
<1> HIDE DEF passed, gone
<1>6. Cardinality(Missed(l)') <= left'[l] + list[l].beyond \/ list[l].state = "failed"
          => Skips(l)'
  <2>1. \A id \in owed'[l]: id < nextId'
    BY <1>0, <1>1, <1>4 DEF Skips
  <2> QED
    BY <1>5, <2>1 DEF Skips
<1>7. ASSUME Missed(l)' \subseteq Missed(l) PROVE Skips(l)'
  <2>1. Cardinality(Missed(l)') \in Nat /\ Cardinality(Missed(l)') <= Cardinality(Missed(l))
    BY <1>0, <1>7, FS_Subset, FS_CardinalityType
  <2>2. Cardinality(Missed(l)) <= left[l] + list[l].beyond \/ list[l].state = "failed"
    BY DEF Skips
  <2> QED
    BY <1>0, <1>3, <1>6, <2>1, <2>2
<1>8. CASE list[l].state # "reading" \/ list[l].page = 1
  <2>1. CASE list[l].state = "failed"
    BY <1>6, <2>1
  <2>2. CASE list[l].state # "failed"
    <3>1. list[l].page = 1
      BY <1>0, <1>8, <2>2 DEF Skips, Reading
    <3>2. Waiting(l) = {} /\ Waiting(l)' = {}
      BY <3>1 DEF Waiting
    <3>3. Missed(l)' \subseteq Missed(l)
      BY <1>1, <3>2 DEF Missed
    <3> QED
      BY <1>7, <3>3
  <2> QED
    BY <2>1, <2>2
<1>9. CASE list[l].state = "reading" /\ list[l].page # 1
  <2>0. InScope(l)' = S /\ Boundary(l)' = o /\ R = Within(s, book)
    BY DEF InScope, CurrentScope, Boundary
  <2>1. /\ Waiting(l) = After(R, o) /\ Waiting(l)' = After(S, o)
        /\ o \in Nat
    <3>1. Waiting(l)' = After(InScope(l)', Boundary(l)')
      BY <1>9 DEF Waiting, Behind, After, Ids, Boundary
    <3> QED
      BY <1>9, <2>0, <3>1, WaitingAfter, ListerType DEF Skips
  <2>2. /\ R \in SUBSET Route /\ S \in SUBSET Route /\ IsFiniteSet(R) /\ IsFiniteSet(S)
        /\ \A p, q \in R: p.place = q.place \/ p.id = q.id => p = q
    <3>1. book' \in SUBSET Route /\ IsFiniteSet(book) /\ IsFiniteSet(book')
      BY <1>4, BookNext DEF BookInv
    <3>2. R \in SUBSET book /\ S \in SUBSET book'
      BY DEF InScope, Within
    <3> QED
      BY <1>0, <3>1, <3>2, FS_Subset DEF BookInv
  <2>3. gone = Ids(R) \ Ids(S) /\ passed = Ids(Behind(l)) \ Ids(S)
    BY <1>9 DEF Leaving, gone, passed
  <2> HIDE DEF R, S, o
  <2>4. CASE \A r \in R: \E q \in S: q.id = r.id /\ q.place = r.place
    <3>1. After(R, o) \subseteq After(S, o)
      BY <2>1, <2>2, <2>4, AfterKept
    <3>2. Missed(l)' \subseteq Missed(l)
      BY <1>1, <2>1, <3>1 DEF Missed
    <3> QED
      BY <1>7, <3>2
  <2>5. ASSUME NEW r \in R, S = R \ {r} PROVE Skips(l)'
    <3>1. r.id \in Ids(R) \ Ids(S) /\ gone = {r.id}
      BY <2>2, <2>3, <2>5 DEF Ids
    <3>2. PICK id: \A q \in R: ~(Number(q.place, R) <= o) =>
              q = r \/ q.id \in After(S, o) \/ (Number(r.place, R) <= o /\ q.id = id)
      <4>1. \A p, q \in R: p.place = q.place => p = q
        BY <2>2
      <4>2. \E id \in Nat: \A q \in R: ~(Number(q.place, R) <= o) =>
                q = r \/ q.id \in After(R \ {r}, o) \/ (Number(r.place, R) <= o /\ q.id = id)
        BY <2>1, <2>2, <4>1, AfterLost
      <4> QED
        BY <2>5, <4>2
    <3>3. ASSUME NEW x \in Missed(l)', x \notin Missed(l)
          PROVE  Number(r.place, R) <= o /\ x = id
      <4>1. x \in owed[l] /\ x # r.id /\ x \in After(R, o) /\ x \notin After(S, o)
        BY <1>1, <2>1, <3>1, <3>3 DEF Missed
      <4>2. PICK q \in R: ~(Number(q.place, R) <= o) /\ q.id = x
        BY <4>1 DEF After, Ids
      <4> QED
        BY <3>2, <4>1, <4>2
    <3>4. CASE ~(Number(r.place, R) <= o)
      BY <1>7, <3>3, <3>4
    <3>5. CASE Number(r.place, R) <= o
      <4>1. r \in Behind(l) /\ Behind(l) \subseteq R
        BY <3>5 DEF Behind, R, o, Boundary
      <4>2. passed = {r.id}
        BY <2>3, <3>1, <4>1 DEF Ids
      <4>3. left'[l] = left[l] + 1
        BY <1>1, <4>2, FS_Singleton
      <4>4. Missed(l)' \subseteq Missed(l) \cup {id}
        BY <3>3
      <4>5. Cardinality(Missed(l)') \in Nat /\ Cardinality(Missed(l)') <= Cardinality(Missed(l)) + 1
        BY <1>0, <4>4, OneMore
      <4>6. Cardinality(Missed(l)) <= left[l] + list[l].beyond \/ list[l].state = "failed"
        BY DEF Skips
      <4> QED
        BY <1>0, <1>6, <4>3, <4>5, <4>6
    <3> QED
      BY <3>4, <3>5
  <2>6. \/ \A r \in R: \E q \in S: q.id = r.id /\ q.place = r.place
        \/ \E r \in R: S = R \ {r}
    BY ScopeWrite DEF R, S, InScope
  <2> QED
    BY <2>4, <2>5, <2>6
<1> QED
  BY <1>8, <1>9

(* What is read with one page more, up to the end of that page, is not missed. *)
LEMMA PageSplit ==
    ASSUME TypeOK, BookInv, NEW l \in Lister, Skips(l)
    PROVE  LET o == list[l].page * PerPage
           IN  /\ o \in Nat
               /\ Ids(InScope(l) \ Behind(l)) \subseteq Ids(PageOf(l)) \cup After(InScope(l), o)
               /\ list[l].page = 1 => Behind(l) = {}
               /\ ReachesTotal(l) => After(InScope(l), o) = {}
<1> DEFINE o == list[l].page * PerPage
           R == InScope(l)
<1>0. list[l].page \in Nat /\ PerPage \in Nat /\ o \in Nat
  BY ListerType, PageAssumption DEF Reading
<1>1. R \in SUBSET Route /\ IsFiniteSet(R)
  <2>1. R \in SUBSET book /\ book \in SUBSET Route /\ IsFiniteSet(book)
    BY ListerType DEF BookInv, InScope, Within
  <2> QED
    BY <2>1, FS_Subset
<1>2. Ids(R \ Behind(l)) \subseteq Ids(PageOf(l)) \cup After(R, o)
  BY DEF PageOf, After, Ids
<1>3. ASSUME list[l].page = 1 PROVE Behind(l) = {}
  <2>1. Boundary(l) = 0
    BY <1>0, <1>3 DEF Boundary
  <2>2. \A r \in R: Number(r.place, R) \in Nat /\ Number(r.place, R) # 0
    BY <1>1, NumberType, NumberOrder
  <2>3. \A r \in R: ~(Number(r.place, R) <= 0)
    BY <2>2
  <2> QED
    BY <2>1, <2>3 DEF Behind, Boundary
<1>4. ASSUME ReachesTotal(l) PROVE After(R, o) = {}
  <2>1. \A r \in R: /\ Number(r.place, R) \in Nat /\ Cardinality(R) \in Nat
                   /\ Number(r.place, R) <= Cardinality(R)
    BY <1>1, NumberType
  <2>2. Cardinality(R) <= o \/ R = {}
    BY <1>0, <1>4, <2>1 DEF ReachesTotal
  <2>3. \A r \in R: Number(r.place, R) <= o
    BY <1>0, <2>1, <2>2
  <2> QED
    BY <2>3 DEF After, Ids
<1> QED
  BY <1>0, <1>2, <1>3, <1>4

(* The ids past the end of a page are no more than the routes there. *)
LEMMA BeyondFacts ==
    ASSUME TypeOK, BookInv, NEW l \in Lister
    PROVE  LET A == After(InScope(l), list[l].page * PerPage)
           IN  /\ IsFiniteSet(A) /\ Cardinality(A) \in Nat
               /\ Cardinality(Beyond(l)) \in Nat /\ Cardinality(A) <= Cardinality(Beyond(l))
<1> DEFINE R == InScope(l)
           o == list[l].page * PerPage
           f == [r \in Beyond(l) |-> r.id]
<1>1. R \in SUBSET Route /\ IsFiniteSet(R) /\ o \in Nat
  <2>1. R \in SUBSET book /\ book \in SUBSET Route /\ IsFiniteSet(book)
    BY ListerType DEF BookInv, InScope, Within
  <2> QED
    BY <2>1, FS_Subset, ListerType, PageAssumption DEF Reading
<1>2. \A r \in R: Number(r.place, R) \in Nat
  BY <1>1, NumberType
<1>3. Beyond(l) = {r \in R: ~(Number(r.place, R) <= o)} /\ IsFiniteSet(Beyond(l))
  <2>1. Beyond(l) = {r \in R: ~(Number(r.place, R) <= o)}
    BY <1>1, <1>2 DEF Beyond
  <2> QED
    BY <1>1, <2>1, FS_Subset
<1>4. After(R, o) = Ids(Beyond(l))
  BY <1>3 DEF After
<1>5. f \in Surjection(Beyond(l), After(R, o))
  BY <1>4 DEF Surjection, Ids
<1> QED
  BY <1>3, <1>5, FS_Surjection, FS_CardinalityType

(* A set inside two others has no more elements than both. *)
LEMMA AtMostBoth ==
    ASSUME NEW A, NEW B, NEW C, IsFiniteSet(B), IsFiniteSet(C), A \subseteq B \cup C
    PROVE  Cardinality(A) \in Nat /\ Cardinality(A) <= Cardinality(B) + Cardinality(C)
<1>1. /\ IsFiniteSet(B \cup C) /\ IsFiniteSet(B \cap C)
      /\ Cardinality(B \cup C) = Cardinality(B) + Cardinality(C) - Cardinality(B \cap C)
  BY FS_Union, FS_Intersection
<1>2. /\ Cardinality(B) \in Nat /\ Cardinality(C) \in Nat /\ Cardinality(B \cap C) \in Nat
      /\ Cardinality(B \cup C) \in Nat
  BY <1>1, FS_CardinalityType
<1>3. /\ IsFiniteSet(A) /\ Cardinality(A) <= Cardinality(B \cup C)
  BY <1>1, FS_Subset
<1>4. Cardinality(A) \in Nat
  BY <1>3, FS_CardinalityType
<1> QED
  BY <1>1, <1>2, <1>3, <1>4

(* A page read leaves nothing behind that was not missed before, but for what
   a cap cuts off. *)
LEMMA SkipsRead ==
    ASSUME TypeOK, BookInv, NEW l \in Lister, Skips(l), ReadPage(l) \/ ReadLastPage(l)
    PROVE  Skips(l)'
<1> DEFINE o == list[l].page * PerPage
           p == list[l].page
<1>0. /\ list[l] \in Reading /\ p \in Nat /\ p # 0 /\ list[l].at \in Nat
      /\ owed[l] \in SUBSET Nat /\ left[l] \in Nat /\ nextId \in Nat /\ PerPage \in Nat
      /\ list[l].beyond \in Nat
      /\ IsFiniteSet(Missed(l)) /\ Cardinality(Missed(l)) \in Nat
  BY ListerType, MissedFinite, PageAssumption DEF Reading, Skips
<1>1. /\ book' = book /\ nextId' = nextId /\ left' = left /\ faults' = faults
      /\ owed'[l] = owed[l] \cup IF p = 1 THEN Ids(InScope(l)) ELSE {}
      /\ list[l].state = "reading"
  BY ListerType DEF ReadPage, ReadLastPage, Owe, account, bounds, TypeOK, ListTypeOK
<1>2. \A id \in owed'[l]: id < nextId'
  <2>1. \A id \in Ids(InScope(l)): id < nextId
    BY DEF Ids, InScope, Within, BookInv
  <2> QED
    BY <1>1, <2>1 DEF Skips
<1>3. Ids(Shown(list[l].read)) \cup Ids(PageOf(l)) \subseteq Ids(Shown(list'[l].read))
  <2>1. list'[l].read = list[l].read \cup Rows(l)
    BY ListerType DEF ReadPage, ReadLastPage, Reading
  <2>2. PageOf(l) \subseteq Shown(Rows(l))
    <3> SUFFICES ASSUME NEW r \in PageOf(l) PROVE \E e \in Rows(l): e.route = r
      BY DEF Shown
    <3>1. [at |-> list[l].at, page |-> p, route |-> r] \in Rows(l)
      BY DEF Rows
    <3> QED
      BY <3>1
  <2> QED
    BY <2>1, <2>2 DEF Shown, Ids
<1>4. Missed(l)' \subseteq Missed(l) \cup After(InScope(l), o)
  <2> SUFFICES ASSUME NEW x \in Missed(l)', x \notin After(InScope(l), o) PROVE x \in Missed(l)
    OBVIOUS
  <2>1. x \in owed'[l] /\ x \notin Ids(Shown(list[l].read)) /\ x \notin Ids(PageOf(l))
    BY <1>3 DEF Missed
  <2>2. x \notin Ids(InScope(l) \ Behind(l))
    BY <2>1, PageSplit
  <2>3. x \in owed[l]
    <3>1. CASE p = 1
      <4>1. InScope(l) \ Behind(l) = InScope(l)
        BY <3>1, PageSplit
      <4> QED
        BY <1>1, <2>1, <2>2, <4>1
    <3>2. CASE p # 1
      BY <1>1, <2>1, <3>2
    <3> QED
      BY <3>1, <3>2
  <2> QED
    BY <2>1, <2>2, <2>3 DEF Missed, Waiting
<1>5. ASSUME After(InScope(l), o) \subseteq Waiting(l)' PROVE Missed(l)' \subseteq Missed(l)
  <2>1. Missed(l)' \cap Waiting(l)' = {}
    BY DEF Missed
  <2> QED
    BY <1>4, <1>5, <2>1
<1>6. ASSUME Missed(l)' \subseteq Missed(l)
      PROVE  Cardinality(Missed(l)') <= left'[l] + list[l].beyond
  <2>1. Cardinality(Missed(l)') \in Nat /\ Cardinality(Missed(l)') <= Cardinality(Missed(l))
    BY <1>0, <1>6, FS_Subset, FS_CardinalityType
  <2>2. Cardinality(Missed(l)) <= left[l] + list[l].beyond
    BY <1>1 DEF Skips
  <2> QED
    BY <1>0, <1>1, <2>1, <2>2
<1>7. CASE ReadPage(l)
  <2>1. /\ list'[l].page = p + 1 /\ list'[l].at = list[l].at /\ list'[l].state = "reading"
        /\ list'[l].beyond = list[l].beyond
    BY <1>1, <1>7, ListerType DEF ReadPage, Reading
  <2>2. InScope(l)' = InScope(l) /\ p + 1 # 1 /\ p + 1 # 0
    BY <1>0, <1>1, <2>1 DEF InScope, CurrentScope
  <2>3. Boundary(l)' = o
    BY <1>0, <2>1 DEF Boundary
  <2>4. Waiting(l)' = After(InScope(l), o)
    <3>1. Waiting(l)' = After(InScope(l)', Boundary(l)')
      BY <2>1, <2>2 DEF Waiting, Behind, After, Ids, Boundary
    <3> QED
      BY <2>2, <2>3, <3>1
  <2>5. Missed(l)' \subseteq Missed(l)
    BY <1>5, <2>4
  <2>6. list'[l].at \in 1..Len(scopes[l])
    BY <1>1, <2>1 DEF Skips
  <2> QED
    BY <1>1, <1>2, <1>6, <2>1, <2>2, <2>5, <2>6 DEF Skips
<1>8. CASE ReadLastPage(l)
  <2> DEFINE more == IF ReachesTotal(l) THEN 0 ELSE Cardinality(Beyond(l))
  <2>1. /\ list'[l].page = 1 /\ list'[l].at = list[l].at + 1
        /\ list'[l].beyond = list[l].beyond + more
        /\ list'[l].state = IF LastTunnel(l) THEN "done" ELSE "reading"
    BY <1>8, ListerType DEF ReadLastPage, Reading
  <2>2. list'[l].beyond # 0 => l \in Capped
    BY <1>0, <1>8, <2>1 DEF ReadLastPage, AtCap, Skips, Reading
  <2>3. /\ list[l].at \in 1..Len(scopes[l]) /\ Len(scopes[l]) \in Nat
    BY <1>1, ListerAssumption DEF Skips
  <2>4. /\ list'[l].state = "reading" => list'[l].at \in 1..Len(scopes[l])
        /\ list'[l].state = "done" => list'[l].at = Len(scopes[l]) + 1
    BY <1>0, <2>1, <2>3 DEF LastTunnel
  <2>5. Cardinality(Missed(l)') <= left'[l] + list'[l].beyond
    <3>1. CASE ReachesTotal(l)
      <4>1. Missed(l)' \subseteq Missed(l)
        BY <1>5, <3>1, PageSplit
      <4>2. list'[l].beyond = list[l].beyond
        BY <1>0, <2>1, <3>1 DEF Reading
      <4> QED
        BY <1>6, <4>1, <4>2
    <3>2. CASE ~ReachesTotal(l)
      <4>1. /\ IsFiniteSet(After(InScope(l), o)) /\ Cardinality(After(InScope(l), o)) \in Nat
            /\ Cardinality(Beyond(l)) \in Nat
            /\ Cardinality(After(InScope(l), o)) <= Cardinality(Beyond(l))
        BY BeyondFacts
      <4>2. Missed(l)' \subseteq Missed(l) \cup After(InScope(l), o)
        BY <1>4
      <4>3. /\ Cardinality(Missed(l)') \in Nat
            /\ Cardinality(Missed(l)') <= Cardinality(Missed(l)) + Cardinality(After(InScope(l), o))
        BY <1>0, <4>1, <4>2, AtMostBoth
      <4>4. Cardinality(Missed(l)) <= left[l] + list[l].beyond
        BY <1>1 DEF Skips
      <4>5. list'[l].beyond = list[l].beyond + Cardinality(Beyond(l)) /\ list[l].beyond \in Nat
        BY <1>0, <2>1, <3>2 DEF Reading
      <4> QED
        BY <1>0, <1>1, <4>1, <4>3, <4>4, <4>5
    <3> QED
      BY <3>1, <3>2
  <2> QED
    BY <1>2, <2>1, <2>2, <2>4, <2>5 DEF Skips
<1> QED
  BY <1>7, <1>8

(* A lister to which nothing happens, in an account that stays as it is. *)
LEMMA SkipsKept ==
    ASSUME TypeOK, NEW l \in Lister, Skips(l), UNCHANGED account,
           list'[l] = list[l], owed'[l] = owed[l], left'[l] = left[l],
           faults' \in {faults, faults + 1}
    PROVE  Skips(l)'
<1>1. faults \in Nat /\ Missed(l)' = Missed(l)
  BY ListerType DEF Missed, Waiting, InScope, Behind, CurrentScope, account
<1>2. faults # 0 => faults' # 0
  BY <1>1
<1> QED
  BY <1>1, <1>2 DEF Skips, account

-----------------------------------------------------------------------------
(* The steps keep the types *)

LEMMA AccountType ==
    ASSUME TypeOK, BookInv, AccountWrite
    PROVE  /\ book' \in SUBSET Route /\ nextId' \in Nat
           /\ owed' \in [Lister -> SUBSET Nat] /\ left' \in [Lister -> Nat]
<1>1. book' \in SUBSET Route /\ nextId' \in Nat
  BY BookNext
<1>2. owed \in [Lister -> SUBSET Nat] /\ left \in [Lister -> Nat]
  BY DEF TypeOK, ListTypeOK
<1>3. PICK b: Rewrite(b)
  BY DEF AccountWrite, Added, Removed, Changed
<1>4. \A l \in Lister: Cardinality(Leaving(l, b, Behind(l))) \in Nat
  BY LeavingFinite
<1>5. owed' \in [Lister -> SUBSET Nat]
  BY <1>2, <1>3 DEF Rewrite
<1>6. left' \in [Lister -> Nat]
  BY <1>2, <1>3, <1>4 DEF Rewrite
<1> QED
  BY <1>1, <1>5, <1>6

(* A delete by the command is a write like another's. *)
LEMMA RemovesShape ==
    ASSUME NEW id, Removes(id) PROVE AccountWrite /\ \E r \in book: r.id = id /\ Removed(r)
BY DEF Removes, Removed, AccountWrite

LEMMA ReadType ==
    ASSUME TypeOK, BookInv, NEW l \in Lister, Read(l)
    PROVE  TypeOK'
<1>0. /\ list \in [Lister -> Reading] /\ owed \in [Lister -> SUBSET Nat]
      /\ list[l] \in Reading /\ faults \in 0..MaxFaults /\ book \in SUBSET Route
  BY DEF TypeOK, ListTypeOK
<1>1. Rows(l) \in SUBSET Row /\ Ids(InScope(l)) \in SUBSET Nat
  <2>1. InScope(l) \in SUBSET Route /\ PageOf(l) \in SUBSET Route
    BY <1>0 DEF InScope, Within, PageOf
  <2> QED
    BY <1>0, <2>1 DEF Rows, Row, Reading, Ids, Route
<1>2. UNCHANGED <<account, left, changes, command, writers>>
  BY DEF Read, ReadPage, ReadLastPage, ReadFails, bounds, account
<1>3. CASE ReadPage(l)
  <2> DEFINE v == [list[l] EXCEPT !.page = @ + 1, !.read = @ \cup Rows(l)]
  <2>0. v \in Reading
    <3>1. list[l].page + 1 \in Nat /\ list[l].read \cup Rows(l) \in SUBSET Row
      BY <1>0, <1>1 DEF Reading
    <3> QED
      BY <1>0, <3>1 DEF Reading
  <2>1. list' \in [Lister -> Reading]
    <3>1. list' = [m \in Lister |-> IF m = l THEN v ELSE list[m]]
      BY <1>0, <1>3 DEF ReadPage
    <3> HIDE DEF v
    <3> QED
      BY <1>0, <2>0, <3>1
  <2>2. owed' \in [Lister -> SUBSET Nat] /\ faults' = faults
    BY <1>0, <1>1, <1>3 DEF ReadPage, Owe, bounds
  <2> QED
    BY <1>2, <2>1, <2>2 DEF TypeOK, ListTypeOK, account
<1>4. CASE ReadLastPage(l)
  <2> DEFINE more == IF ReachesTotal(l) THEN 0 ELSE Cardinality(Beyond(l))
             v    == [at     |-> list[l].at + 1,
                      page   |-> 1,
                      read   |-> list[l].read \cup Rows(l),
                      beyond |-> list[l].beyond + more,
                      state  |-> IF LastTunnel(l) THEN "done" ELSE "reading"]
  <2>0. v \in Reading
    <3>1. Cardinality(Beyond(l)) \in Nat
      BY BeyondFacts
    <3>2. list[l].beyond + more \in Nat
      BY <1>0, <3>1 DEF Reading
    <3> HIDE DEF more
    <3>3. list[l].at + 1 \in Nat /\ list[l].read \cup Rows(l) \in SUBSET Row
      BY <1>0, <1>1 DEF Reading
    <3> QED
      BY <3>2, <3>3 DEF Reading
  <2>1. list' \in [Lister -> Reading]
    <3>1. list' = [list EXCEPT ![l] = v]
      BY <1>4 DEF ReadLastPage
    <3> HIDE DEF v
    <3> QED
      BY <1>0, <2>0, <3>1
  <2>2. owed' \in [Lister -> SUBSET Nat] /\ faults' = faults
    BY <1>0, <1>1, <1>4 DEF ReadLastPage, Owe, bounds
  <2> QED
    BY <1>2, <2>1, <2>2 DEF TypeOK, ListTypeOK, account
<1>5. CASE ReadFails(l)
  <2>1. list' \in [Lister -> Reading] /\ owed' = owed
    BY <1>0, <1>5 DEF ReadFails, Reading
  <2>2. faults' \in 0..MaxFaults
    BY <1>0, <1>5, BoundAssumption DEF ReadFails
  <2> QED
    BY <1>2, <2>1, <2>2 DEF TypeOK, ListTypeOK, account
<1> QED
  BY <1>3, <1>4, <1>5 DEF Read

(* Found takes one row of each id the filter keeps. *)
LEMMA FoundOnce ==
    ASSUME NEW R
    PROVE  /\ \A e \in Found(R): e \in R /\ Matches(e.route)
           /\ \A e, f \in Found(R): e.route.id = f.route.id => e = f
           /\ \A e \in R: Matches(e.route) => \E f \in Found(R): f.route.id = e.route.id
<1> DEFINE hits == {e \in R: Matches(e.route)}
           row(id) == CHOOSE e \in hits: e.route.id = id
<1>1. Found(R) = {row(id) : id \in Ids(Shown(hits))}
  BY DEF Found
<1>2. ASSUME NEW id \in Ids(Shown(hits)) PROVE row(id) \in hits /\ row(id).route.id = id
  <2>1. \E e \in hits: e.route.id = id
    BY DEF Ids, Shown
  <2> QED
    BY <2>1
<1>3. \A e \in hits: e.route.id \in Ids(Shown(hits))
  BY DEF Ids, Shown
<1> HIDE DEF row
<1>4. \A e \in Found(R): e \in hits /\ e = row(e.route.id)
  BY <1>1, <1>2
<1> QED
  BY <1>1, <1>2, <1>3, <1>4

LEMMA TriedType ==
    ASSUME TypeOK, NEW e, NEW failed \in BOOLEAN, Tried(e, failed)
    PROVE  /\ command' \in Command
           /\ \A f, g \in command'.found: f.route.id = g.route.id => f = g
           /\ command'.found = command.found \ {e} /\ command'.pc = "delete"
           /\ command'.apply = command.apply /\ command'.expired = command.expired
           /\ command'.status = command.status
           /\ command'.failures = command.failures + (IF failed THEN 1 ELSE 0)
<1>1. command \in Command
  BY DEF TypeOK
<1>2. /\ command'.found = command.found \ {e} /\ command'.pc = "delete"
      /\ command'.apply = command.apply /\ command'.expired = command.expired
      /\ command'.status = command.status
      /\ command'.failures = command.failures + (IF failed THEN 1 ELSE 0)
  BY <1>1 DEF Tried, Command
<1>3. command' \in Command
  <2> DEFINE n == command.failures + (IF failed THEN 1 ELSE 0)
  <2>1. n \in Nat /\ command.found \ {e} \in SUBSET Row
    BY <1>1 DEF Command
  <2>2. command' = [command EXCEPT !.found = command.found \ {e}, !.failures = n]
    BY DEF Tried
  <2> HIDE DEF n
  <2> QED
    BY <1>1, <2>1, <2>2 DEF Command
<1> QED
  BY <1>2, <1>3 DEF TypeOK

LEMMA CommandType ==
    ASSUME TypeOK, BookInv,
           \/ EndList \/ Expire \/ Finish
           \/ \E e \in command.found: Delete(e) \/ DeleteRefused(e) \/ DeleteFails(e)
    PROVE  TypeOK'
<1>0. /\ book \in SUBSET Route /\ nextId \in Nat /\ list \in [Lister -> Reading]
      /\ owed \in [Lister -> SUBSET Nat] /\ left \in [Lister -> Nat]
      /\ changes \in 0..MaxChanges /\ faults \in 0..MaxFaults
      /\ command \in Command /\ writers \in SUBSET Nat
      /\ \A e, f \in command.found: e.route.id = f.route.id => e = f
  BY DEF TypeOK, ListTypeOK
<1>1. ASSUME UNCHANGED <<account, owed, left, others>>, faults' \in 0..MaxFaults, command' \in Command,
             \A e, f \in command'.found: e.route.id = f.route.id => e = f
      PROVE  TypeOK'
  BY <1>0, <1>1 DEF TypeOK, ListTypeOK, account, others
<1>2. CASE EndList
  <2>1. \A e \in Found(rows): e \in rows
    BY FoundOnce
  <2>2. Found(rows) \in SUBSET Row
    BY <1>0, <2>1, PruneAssumption DEF Reading, rows
  <2>3. command' \in Command /\ command'.found \in {command.found, Found(rows)}
    BY <1>0, <1>2, <2>2 DEF EndList, Command, rows
  <2> QED
    BY <1>0, <1>1, <1>2, <2>3, FoundOnce DEF EndList
<1>3. CASE Expire
  <2>1. command' \in Command /\ command'.found = command.found
    BY <1>0, <1>3 DEF Expire, Command
  <2>2. faults' \in 0..MaxFaults
    BY <1>0, <1>3, BoundAssumption DEF Expire
  <2> QED
    BY <1>0, <1>1, <1>3, <2>1, <2>2 DEF Expire
<1>4. CASE Finish
  <2>1. command' \in Command /\ command'.found = command.found
    BY <1>0, <1>4 DEF Finish, Command
  <2> QED
    BY <1>0, <1>1, <1>4, <2>1 DEF Finish
<1>5. ASSUME NEW e \in command.found, Delete(e) PROVE TypeOK'
  <2>1. command' \in Command /\ \A f, g \in command'.found: f.route.id = g.route.id => f = g
    BY <1>5, TriedType DEF Delete
  <2>2. /\ book' \in SUBSET Route /\ nextId' \in Nat
        /\ owed' \in [Lister -> SUBSET Nat] /\ left' \in [Lister -> Nat]
    BY <1>5, RemovesShape, AccountType DEF Delete
  <2> QED
    BY <1>0, <1>5, <2>1, <2>2 DEF Delete, TypeOK, ListTypeOK, others
<1>6. ASSUME NEW e \in command.found, DeleteRefused(e) PROVE TypeOK'
  <2>1. command' \in Command /\ \A f, g \in command'.found: f.route.id = g.route.id => f = g
    BY <1>6, TriedType DEF DeleteRefused
  <2> QED
    BY <1>0, <1>1, <1>6, <2>1 DEF DeleteRefused
<1>7. ASSUME NEW e \in command.found, DeleteFails(e) PROVE TypeOK'
  <2>1. command' \in Command /\ \A f, g \in command'.found: f.route.id = g.route.id => f = g
    BY <1>7, TriedType DEF DeleteFails
  <2>2. faults' \in 0..MaxFaults
    BY <1>0, <1>7, BoundAssumption DEF DeleteFails
  <2>3. CASE UNCHANGED <<account, owed, left>>
    BY <1>1, <1>7, <2>1, <2>2, <2>3 DEF DeleteFails
  <2>4. CASE Removes(e.route.id)
    <3>1. /\ book' \in SUBSET Route /\ nextId' \in Nat
          /\ owed' \in [Lister -> SUBSET Nat] /\ left' \in [Lister -> Nat]
      BY <2>4, RemovesShape, AccountType
    <3> QED
      BY <1>0, <1>7, <2>1, <2>2, <3>1 DEF DeleteFails, TypeOK, ListTypeOK, others
  <2> QED
    BY <1>7, <2>3, <2>4 DEF DeleteFails
<1> QED
  BY <1>2, <1>3, <1>4, <1>5, <1>6, <1>7

LEMMA OthersType ==
    ASSUME TypeOK, BookInv, Others PROVE TypeOK'
<1>1. /\ book' \in SUBSET Route /\ nextId' \in Nat
      /\ owed' \in [Lister -> SUBSET Nat] /\ left' \in [Lister -> Nat]
  BY WriteShape, AccountType DEF Others
<1>2. changes' \in 0..MaxChanges
  BY BoundAssumption DEF Others, Write, TypeOK, ListTypeOK
<1>3. writers' \in SUBSET Nat
  <2>1. \A r \in book \cup book': r.id \in Nat
    BY <1>1 DEF TypeOK, ListTypeOK, Route
  <2> QED
    BY <2>1 DEF Others, TypeOK
<1> QED
  BY <1>1, <1>2, <1>3 DEF Others, Write, TypeOK, ListTypeOK

LEMMA TypeNext ==
    ASSUME TypeOK, BookInv, [Next]_vars PROVE TypeOK'
<1>1. CASE UNCHANGED vars
  BY <1>1 DEF vars, TypeOK, ListTypeOK
<1> QED
  BY <1>1, ReadType, CommandType, OthersType DEF Next

-----------------------------------------------------------------------------
(* The steps keep the invariant *)

LEMMA ListNext ==
    ASSUME TypeOK, ListInv, [Next]_vars PROVE ListInv'
<1>0. BookInv /\ (\A l \in Lister: Skips(l)) /\ faults \in Nat /\ list \in [Lister -> Reading]
  BY BoundAssumption DEF ListInv, TypeOK, ListTypeOK
<1>1. ASSUME UNCHANGED <<account, list, owed, left>>, faults' \in {faults, faults + 1} PROVE ListInv'
  <2>1. BookInv'
    BY <1>0, <1>1, BookNext
  <2>2. ASSUME NEW l \in Lister PROVE Skips(l)'
    <3>1. UNCHANGED account /\ list'[l] = list[l] /\ owed'[l] = owed[l] /\ left'[l] = left[l]
      BY <1>1
    <3> QED
      BY <1>0, <1>1, <3>1, SkipsKept
  <2> QED
    BY <2>1, <2>2 DEF ListInv
<1>2. ASSUME AccountWrite, UNCHANGED list, faults' \in {faults, faults + 1} PROVE ListInv'
  <2>1. BookInv'
    BY <1>0, <1>2, BookNext
  <2>2. ASSUME NEW l \in Lister PROVE Skips(l)'
    BY <1>0, <1>2, SkipsWrite
  <2> QED
    BY <2>1, <2>2 DEF ListInv
<1>3. ASSUME NEW l \in Lister, Read(l) PROVE ListInv'
  <2>1. UNCHANGED <<account, left>>
    BY <1>3 DEF Read, ReadPage, ReadLastPage, ReadFails, account
  <2>2. BookInv'
    BY <1>0, <2>1, BookNext
  <2>3. ASSUME NEW m \in Lister, m # l PROVE Skips(m)'
    <3>1. list'[m] = list[m] /\ owed'[m] = owed[m] /\ left'[m] = left[m]
      BY <1>3, <2>1, <2>3, ListerType DEF Read, ReadPage, ReadLastPage, ReadFails, Owe, TypeOK, ListTypeOK
    <3>2. faults' \in {faults, faults + 1}
      BY <1>3 DEF Read, ReadPage, ReadLastPage, ReadFails, bounds
    <3> QED
      BY <1>0, <2>1, <3>1, <3>2, SkipsKept
  <2>4. Skips(l)'
    <3>1. CASE ReadPage(l) \/ ReadLastPage(l)
      BY <1>0, <3>1, SkipsRead
    <3>2. CASE ReadFails(l)
      <4>1. /\ list'[l] = [list[l] EXCEPT !.state = "failed"] /\ list[l] \in Reading
            /\ owed' = owed /\ nextId' = nextId /\ faults' = faults + 1
        BY <1>0, <3>2 DEF ReadFails, account
      <4>2. /\ list'[l].state = "failed" /\ list'[l].page = list[l].page
            /\ list'[l].beyond = list[l].beyond
        BY <4>1 DEF Reading
      <4>3. faults' # 0 /\ Skips(l)
        BY <1>0, <4>1
      <4> QED
        BY <4>1, <4>2, <4>3 DEF Skips
    <3> QED
      BY <1>3, <3>1, <3>2 DEF Read
  <2> QED
    BY <2>2, <2>3, <2>4 DEF ListInv
<1>4. CASE UNCHANGED vars
  BY <1>1, <1>4 DEF vars, account
<1>5. CASE EndList \/ Expire \/ Finish
  BY <1>1, <1>5 DEF EndList, Expire, Finish, others, account
<1>6. ASSUME NEW e \in command.found, Delete(e) \/ DeleteRefused(e) \/ DeleteFails(e) PROVE ListInv'
  BY <1>1, <1>2, <1>6, RemovesShape DEF Delete, DeleteRefused, DeleteFails, others, account
<1>7. CASE Others
  BY <1>2, <1>7, WriteShape DEF Others, Write
<1> QED
  BY <1>3, <1>4, <1>5, <1>6, <1>7 DEF Next

(* No id comes back. *)
LEMMA IdsGone ==
    ASSUME TypeOK, BookInv, AccountWrite \/ UNCHANGED account, NEW id, id < nextId, id \in Nat
    PROVE  id \in Ids(book') => id \in Ids(book)
BY BookNext DEF Ids, TypeOK, ListTypeOK

LEMMA GoneKept ==
    ASSUME TypeOK, BookInv, AccountWrite \/ UNCHANGED account, \A e \in rows: Traced(e),
           rows \subseteq rows', writers \subseteq writers', Gone
    PROVE  Gone'
<1>1. PICK e \in rows: e.route.id \in writers /\ e.route.id \notin Ids(book)
  BY DEF Gone, Ids, Shown
<1>2. e.route.id \in Nat /\ e.route.id < nextId
  BY <1>1 DEF TypeOK, Traced
<1>3. e.route.id \notin Ids(book')
  BY <1>1, <1>2, IdsGone
<1> QED
  BY <1>1, <1>3 DEF Gone, Ids, Shown

LEMMA CommandRead ==
    ASSUME PruneInv, NEW l \in Lister, Read(l) PROVE CommandInv'
<1>0. /\ TypeOK /\ BookInv /\ CommandInv /\ list \in [Lister -> Reading] /\ prune \in Lister
      /\ owed \in [Lister -> SUBSET Nat] /\ \A m \in Lister: Skips(m)
      /\ command \in Command /\ faults \in Nat
  BY PruneAssumption, BoundAssumption DEF PruneInv, ListInv, TypeOK, ListTypeOK
<1>1. /\ UNCHANGED <<account, book, nextId, left, command, writers>>
      /\ faults' \in {faults, faults + 1}
      /\ list[l].state = "reading"
  BY DEF Read, ReadPage, ReadLastPage, ReadFails, account, bounds
<1>2. rows \subseteq rows' /\ \A e \in rows': e \in rows \/ (l = prune /\ e.route \in book)
  <2>1. CASE l # prune
    BY <1>0, <2>1 DEF Read, ReadPage, ReadLastPage, ReadFails, rows
  <2>2. CASE l = prune
    <3>1. rows' \in {rows, rows \cup Rows(l)}
      BY <1>0, <2>2 DEF Read, ReadPage, ReadLastPage, ReadFails, rows, Reading
    <3>2. \A e \in Rows(l): e.route \in book
      BY DEF Rows, PageOf, InScope, Within
    <3> QED
      BY <2>2, <3>1, <3>2
  <2> QED
    BY <2>1, <2>2
<1>3. \A e \in rows': Traced(e)'
  <2> SUFFICES ASSUME NEW e \in rows' PROVE Traced(e)'
    OBVIOUS
  <2>1. CASE e \in rows
    BY <1>0, <1>1, <2>1 DEF CommandInv, Traced
  <2>2. CASE e.route \in book
    <3>1. \A r \in book: r.id = e.route.id => r = e.route
      BY <1>0, <2>2 DEF BookInv
    <3>2. e.route.id < nextId
      BY <1>0, <2>2 DEF BookInv
    <3> QED
      BY <1>1, <3>1, <3>2 DEF Traced
  <2> QED
    BY <1>2, <2>1, <2>2
<1>4. Gone => Gone'
  BY <1>0, <1>1, <1>2, GoneKept DEF CommandInv
<1>5. faults' = 0 => faults = 0
  BY <1>0, <1>1
<1>6. l = prune => command.pc = "list"
  BY <1>0, <1>1 DEF CommandInv, Deleting, Exited, Command
<1>7. (\A e \in command'.found: Owns(e)') /\ Remaining'
  <2>1. command.pc # "list" => rows' = rows
    BY <1>2, <1>6
  <2>2. Remaining'
    BY <1>0, <1>1, <2>1 DEF CommandInv, Remaining
  <2> QED
    BY <1>0, <1>1, <1>2, <2>2 DEF CommandInv, Owns
<1>8. Listing' /\ Deleting' /\ Exited'
  <2>1. Listing'
    <3>1. \A r \in book: r.id \in Ids(book)
      BY DEF Ids
    <3> QED
      BY <1>0, <1>1, <1>2, <3>1 DEF CommandInv, Listing
  <2>2. command.pc # "list" => list'[prune] = list[prune]
    BY <1>0, <1>6 DEF Read, ReadPage, ReadLastPage, ReadFails
  <2>3. Deleting'
    BY <1>0, <1>1, <2>2 DEF CommandInv, Deleting
  <2>4. Exited'
    BY <1>0, <1>1, <1>4, <1>5, <2>2 DEF CommandInv, Exited
  <2> QED
    BY <2>1, <2>3, <2>4
<1>9. Owing'
  <2>1. CASE l # prune
    <3>1. list'[prune] = list[prune] /\ owed'[prune] = owed[prune]
      BY <1>0, <2>1 DEF Read, ReadPage, ReadLastPage, ReadFails, Owe
    <3> QED
      BY <1>0, <1>1, <3>1 DEF CommandInv, Owing, Passed
  <2>2. CASE l = prune /\ ReadFails(l)
    BY <1>0, <2>2 DEF ReadFails, Owing, Reading
  <2>3. CASE l = prune /\ (ReadPage(l) \/ ReadLastPage(l))
    <3> DEFINE at == list[prune].at
               page == list[prune].page
    <3>1. /\ owed'[prune] = owed[prune] \cup IF page = 1 THEN Ids(InScope(prune)) ELSE {}
          /\ at \in Nat /\ page \in Nat
      BY <1>0, <2>3 DEF ReadPage, ReadLastPage, Owe, Reading
    <3>2. \/ list'[prune].at = at
          \/ list'[prune].at = at + 1 /\ list'[prune].page = 1
      BY <1>0, <2>3 DEF ReadPage, ReadLastPage, Reading
    <3> SUFFICES ASSUME NEW r \in book, NEW k \in 1..Len(scopes[prune]), r.id \notin writers,
                        scopes[prune][k] \in {Account, r.tunnel}, Passed(k)'
                 PROVE  r.id \in owed'[prune]
      BY <1>1 DEF Owing
    <3>3. Passed(k) \/ (k = at /\ page = 1)
      <4>1. k < list'[prune].at \/ (k = list'[prune].at /\ list'[prune].page # 1)
        BY DEF Passed
      <4>2. k <= at
        BY <3>1, <3>2, <4>1
      <4> QED
        BY <3>1, <4>2 DEF Passed
    <3>4. CASE Passed(k)
      <4>1. list[prune].state # "failed"
        BY <1>1, <2>3
      <4> QED
        BY <1>0, <3>1, <3>4, <4>1 DEF CommandInv, Owing
    <3>5. CASE k = at /\ page = 1
      <4>1. r \in InScope(prune)
        BY <3>5 DEF InScope, Within, CurrentScope
      <4> QED
        BY <3>1, <3>5, <4>1 DEF Ids
    <3> QED
      BY <3>3, <3>4, <3>5
  <2> QED
    BY <2>1, <2>2, <2>3 DEF Read
<1>10. /\ command'.expired => faults' # 0
       /\ command'.failures # 0 /\ faults' = 0 => Gone'
  BY <1>0, <1>1, <1>4, <1>5 DEF CommandInv
<1> QED
  BY <1>3, <1>7, <1>8, <1>9, <1>10 DEF CommandInv

(* What others do to a route the command has listed is known by its id. *)
LEMMA TracedOthers ==
    ASSUME PruneInv, Others, NEW e, Traced(e), e.route.id \in Nat
    PROVE  Traced(e)'
<1>0. /\ TypeOK /\ BookInv /\ book \in SUBSET Route /\ nextId \in Nat
      /\ AccountWrite /\ writers \subseteq writers'
      /\ \A r \in (book \ book') \cup (book' \ book): r.id \in writers'
  BY WriteShape DEF PruneInv, ListInv, TypeOK, ListTypeOK, Others
<1>1. nextId' \in Nat /\ e.route.id < nextId'
  BY <1>0, BookNext DEF Traced
<1>2. ASSUME NEW r \in book, r.id = e.route.id
      PROVE  /\ r.host = e.route.host
             /\ r.id \notin writers' => r = e.route
             /\ e.route.tag = owner =>
                   r.tag = owner \/ (r.tag = Untagged /\ r.id \in writers' /\ owner = taker)
  BY <1>0, <1>2 DEF Traced
<1>3. ASSUME NEW r \in book', r \notin book, r.id = e.route.id
      PROVE  /\ r.host = e.route.host /\ r.id \in writers'
             /\ e.route.tag = owner =>
                   r.tag = owner \/ (r.tag = Untagged /\ owner = taker)
  <2>1. r.id \in writers'
    BY <1>0, <1>3
  <2>2. PICK p, q: Changed(p, q) /\ r = q
    <3>1. ASSUME NEW q, Added(q) PROVE FALSE
      <4>1. r = q /\ q.id = nextId
        BY <1>3, <3>1 DEF Added, Rewrite
      <4> QED
        BY <1>0, <1>3, <4>1 DEF Traced
    <3>2. ASSUME NEW q, Removed(q) PROVE FALSE
      BY <1>3, <3>2 DEF Removed, Rewrite
    <3>3. ASSUME NEW p, NEW q, Changed(p, q) PROVE r = q
      BY <1>3, <3>3 DEF Changed, Rewrite
    <3> QED
      BY <1>0, <3>1, <3>2, <3>3 DEF AccountWrite
  <2>3. /\ p \in book /\ p.id = e.route.id /\ r.host = p.host
        /\ r.tag = p.tag \/ {p.tag, r.tag} = {Untagged, taker}
    BY <1>3, <2>2 DEF Changed
  <2>4. r.host = e.route.host
    BY <2>3 DEF Traced
  <2>5. ASSUME e.route.tag = owner PROVE r.tag = owner \/ (r.tag = Untagged /\ owner = taker)
    <3>1. p.tag = owner \/ (p.tag = Untagged /\ owner = taker)
      BY <2>3, <2>5 DEF Traced
    <3>2. owner # Untagged
      BY PruneAssumption, NameAssumption
    <3> QED
      BY <2>3, <3>1, <3>2
  <2> QED
    BY <2>1, <2>4, <2>5
<1>4. ASSUME NEW r \in book', r.id = e.route.id
      PROVE  /\ r.host = e.route.host
             /\ r.id \notin writers' => r = e.route
             /\ e.route.tag = owner =>
                   r.tag = owner \/ (r.tag = Untagged /\ r.id \in writers' /\ owner = taker)
  <2>1. CASE r \in book
    BY <1>2, <1>4, <2>1
  <2>2. CASE r \notin book
    BY <1>3, <1>4, <2>2
  <2> QED
    BY <2>1, <2>2
<1> QED
  BY <1>1, <1>4 DEF Traced

LEMMA CommandOthers ==
    ASSUME PruneInv, Others PROVE CommandInv'
<1>0. /\ TypeOK /\ BookInv /\ CommandInv /\ prune \in Lister /\ command \in Command
      /\ nextId \in Nat /\ list \in [Lister -> Reading] /\ rows \in SUBSET Row
      /\ command.found \in SUBSET Row /\ owed[prune] \in SUBSET Nat
  BY PruneAssumption DEF PruneInv, ListInv, TypeOK, ListTypeOK, Reading, rows, Command
<1>1. /\ UNCHANGED <<list, faults, command>> /\ rows' = rows
      /\ AccountWrite /\ writers \subseteq writers'
      /\ \A r \in (book \ book') \cup (book' \ book): r.id \in writers'
  BY <1>0, WriteShape DEF Others, Write, rows
<1>2. \A e \in rows: e.route.id \in Nat /\ e.route.id < nextId
  BY <1>0 DEF CommandInv, Traced, Row, Route
<1>3. \A e \in rows': Traced(e)'
  BY <1>0, <1>1, <1>2, TracedOthers DEF CommandInv
<1>4. Gone => Gone'
  BY <1>0, <1>1, GoneKept DEF CommandInv
<1>5. \A e \in rows: e.route.id \in Ids(book) \cup writers => e.route.id \in Ids(book') \cup writers'
  BY <1>1 DEF Ids
<1>6. Listing' /\ Deleting' /\ Exited'
  <2>1. Listing'
    BY <1>0, <1>1, <1>5 DEF CommandInv, Listing
  <2>2. Deleting'
    BY <1>0, <1>1, <1>5 DEF CommandInv, Deleting, Owns
  <2>3. Exited'
    BY <1>0, <1>1, <1>4 DEF CommandInv, Exited
  <2> QED
    BY <2>1, <2>2, <2>3
<1>7. Owing'
  <2> SUFFICES ASSUME list[prune].state # "failed", NEW r \in book', NEW k \in 1..Len(scopes[prune]),
                      r.id \notin writers', scopes[prune][k] \in {Account, r.tunnel}, Passed(k)
               PROVE  r.id \in owed'[prune]
    BY <1>1 DEF Owing, Passed
  <2>1. r \in book /\ r.id \notin writers
    BY <1>1
  <2>2. r.id \in owed[prune]
    BY <1>0, <2>1 DEF CommandInv, Owing
  <2>3. r.id \notin Leaving(prune, book', InScope(prune))
    <3>1. \A q \in InScope(prune): q.id = r.id => q = r
      BY <1>0, <2>1 DEF BookInv, InScope, Within
    <3>2. r \in InScope(prune) => r \in Within(CurrentScope(prune), book')
      BY DEF InScope, Within
    <3> QED
      BY <3>1, <3>2 DEF Leaving, Ids
  <2>4. owed'[prune] = owed[prune] \ Leaving(prune, book', InScope(prune))
    BY <1>0, <1>1, OwedNext
  <2> QED
    BY <2>2, <2>3, <2>4
<1>8. Remaining'
  BY <1>0, <1>1, <1>2, IdsGone DEF CommandInv, Remaining
<1>9. /\ \A e \in command'.found: Owns(e)'
      /\ command'.expired => faults' # 0
      /\ command'.failures # 0 /\ faults' = 0 => Gone'
  BY <1>0, <1>1, <1>4 DEF CommandInv, Owns
<1> QED
  BY <1>3, <1>6, <1>7, <1>8, <1>9 DEF CommandInv

(* The list is over: what matches is found, and each id of it once. *)
LEMMA CommandEndList ==
    ASSUME PruneInv, EndList PROVE CommandInv'
<1>0. /\ TypeOK /\ BookInv /\ CommandInv /\ prune \in Lister /\ command \in Command
      /\ Skips(prune) /\ list[prune].state \in {"done", "failed"}
  BY PruneAssumption DEF PruneInv, ListInv, TypeOK, ListTypeOK, Reading, EndList
<1>1. UNCHANGED <<book, nextId, list, owed, left, faults, changes, writers>> /\ rows' = rows
  BY DEF EndList, account, others, rows
<1>2. /\ command.found = {} /\ ~command.expired /\ command.failures = 0
      /\ \A e \in rows: e.route.id \in Ids(book) \cup writers
  BY <1>0 DEF CommandInv, Listing, EndList
<1>3. /\ command'.expired = command.expired /\ command'.failures = command.failures
      /\ command'.apply = command.apply
      /\ \/ /\ list[prune].state = "failed"
            /\ command'.pc = "exit" /\ command'.status = "pruneFailed" /\ command'.found = {}
         \/ /\ list[prune].state = "done"
            /\ Found(rows) = {} \/ ~command.apply
            /\ command'.pc = "exit" /\ command'.status = "pruneOK" /\ command'.found = {}
         \/ /\ list[prune].state = "done" /\ command.apply
            /\ command'.pc = "delete" /\ command'.status = command.status
            /\ command'.found = Found(rows)
  BY <1>0, <1>2 DEF EndList, Command, rows
<1>4. /\ \A e \in Found(rows): Owns(e)
      /\ \A e \in rows: Matches(e.route) => \E f \in Found(rows): f.route.id = e.route.id
  BY FoundOnce DEF Owns
<1>5. Owing' /\ \A e \in rows': Traced(e)'
  BY <1>0, <1>1 DEF CommandInv, Owing, Passed, Traced
<1>6. \A e \in command'.found: Owns(e)'
  BY <1>1, <1>3, <1>4 DEF Owns
<1>7. Listing' /\ Deleting' /\ Exited'
  <2>1. Listing'
    BY <1>3 DEF Listing
  <2>2. Deleting'
    <3>1. command.status = "none"
      BY <1>0 DEF CommandInv, Listing, EndList
    <3> QED
      BY <1>1, <1>2, <1>3, <1>4, <3>1 DEF Deleting, Owns
  <2>3. Exited'
    <3>1. list[prune].state = "failed" => faults # 0
      BY <1>0 DEF Skips
    <3> QED
      BY <1>1, <1>2, <1>3, <3>1 DEF Exited
  <2> QED
    BY <2>1, <2>2, <2>3
<1>8. Remaining'
  BY <1>1, <1>3, <1>4 DEF Remaining
<1>9. ~command'.expired /\ command'.failures = 0
  BY <1>2, <1>3
<1> QED
  BY <1>5, <1>6, <1>7, <1>8, <1>9 DEF CommandInv

(* One delete that took the route from the account. *)
LEMMA CommandRemoves ==
    ASSUME PruneInv, NEW e \in command.found, NEW failed \in BOOLEAN,
           Tried(e, failed), Removes(e.route.id), UNCHANGED others,
           faults' \in {faults, faults + 1}, failed => faults' # 0
    PROVE  CommandInv'
<1>0. /\ TypeOK /\ BookInv /\ CommandInv /\ prune \in Lister /\ command \in Command
      /\ nextId \in Nat /\ faults \in Nat /\ command.found \in SUBSET Row
      /\ \A f, g \in command.found: f.route.id = g.route.id => f = g
      /\ command.pc = "delete"
  BY PruneAssumption, BoundAssumption DEF PruneInv, ListInv, TypeOK, ListTypeOK, Command, Tried
<1>1. PICK r \in book: r.id = e.route.id /\ Removed(r)
  BY RemovesShape
<1>2. /\ book' = book \ {r} /\ nextId' = nextId /\ UNCHANGED <<list, writers>> /\ rows' = rows
      /\ AccountWrite
  BY <1>1, RemovesShape DEF Removed, Rewrite, others, rows
<1>3. /\ command'.found = command.found \ {e} /\ command'.pc = "delete"
      /\ command'.apply = command.apply /\ command'.expired = command.expired
      /\ command'.status = command.status
      /\ command'.failures = command.failures + (IF failed THEN 1 ELSE 0)
  BY <1>0, TriedType
<1>4. /\ command.apply /\ command.status = "none" /\ list[prune].state = "done"
      /\ \A f \in command.found: f.route.id \in Ids(book) \cup writers
  BY <1>0 DEF CommandInv, Deleting
<1>5. \A q \in book: q.id = e.route.id => q = r
  BY <1>0, <1>1 DEF BookInv
<1>6. \A id: id # e.route.id => (id \in Ids(book) <=> id \in Ids(book'))
  BY <1>1, <1>2 DEF Ids
<1>7. \A f \in rows': Traced(f)'
  BY <1>0, <1>2 DEF CommandInv, Traced
<1>8. /\ \A f \in command'.found: Owns(f)'
      /\ command'.expired => faults' # 0
  BY <1>0, <1>2, <1>3 DEF CommandInv, Owns
<1>9. command'.failures # 0 /\ faults' = 0 => Gone'
  <2> SUFFICES ASSUME command'.failures # 0, faults' = 0 PROVE Gone'
    OBVIOUS
  <2>1. ~failed /\ faults = 0 /\ command'.failures = command.failures
    BY <1>0, <1>3 DEF Command
  <2> QED
    BY <1>0, <1>2, <2>1, GoneKept DEF CommandInv
<1>10. Owing'
  <2>1. owed'[prune] = owed[prune]
    <3>1. Leaving(prune, book', InScope(prune)) = {}
      BY <1>4 DEF Leaving
    <3>2. owed' = [l \in Lister |-> owed[l] \ Leaving(l, book', InScope(l))]
      BY <1>1 DEF Removed, Rewrite
    <3> QED
      BY <1>0, <3>1, <3>2 DEF TypeOK, ListTypeOK
  <2> QED
    BY <1>0, <1>2, <2>1 DEF CommandInv, Owing, Passed
<1>11. Listing' /\ Exited'
  BY <1>3 DEF Listing, Exited
<1>12. Deleting'
  <2>1. \A f \in command'.found: f.route.id # e.route.id
    BY <1>0, <1>3
  <2> QED
    BY <1>2, <1>3, <1>4, <1>6, <2>1 DEF Deleting
<1>13. Remaining'
  <2> SUFFICES ASSUME command'.failures = 0,
                      NEW f \in rows, Matches(f.route), f.route.id \in Ids(book')
               PROVE  \E g \in command'.found: g.route.id = f.route.id
    BY <1>2, <1>3 DEF Remaining
  <2>1. command.failures = 0
    BY <1>0, <1>3 DEF Command
  <2>2. f.route.id # e.route.id
    BY <1>2, <1>5 DEF Ids
  <2>3. PICK g \in command.found: g.route.id = f.route.id
    BY <1>0, <1>4, <1>6, <2>1, <2>2 DEF CommandInv, Remaining
  <2> QED
    BY <1>3, <2>2, <2>3
<1> QED
  BY <1>7, <1>8, <1>9, <1>10, <1>11, <1>12, <1>13 DEF CommandInv

(* The steps of the command that leave the account as it is. *)
LEMMA CommandKeeps ==
    ASSUME PruneInv, UNCHANGED <<account, owed, others>>, command' \in Command,
           command.pc = "delete", command'.found \subseteq command.found,
           command'.apply = command.apply,
           faults' \in {faults, faults + 1},
           command'.expired => command.expired \/ faults' # 0,
           command'.failures # 0 /\ faults' = 0 => Gone,
           \/ command'.pc = "delete" /\ command'.status = "none"
           \/ /\ command'.pc = "exit" /\ command.found = {} /\ command'.failures = command.failures
              /\ command'.status = IF command'.failures # 0 THEN "pruneFailed" ELSE "pruneOK",
           command'.failures = 0 => command.failures = 0 /\ command'.found = command.found
    PROVE  CommandInv'
<1>0. /\ TypeOK /\ BookInv /\ CommandInv /\ faults \in Nat /\ nextId \in Nat
  BY BoundAssumption DEF PruneInv, ListInv, TypeOK, ListTypeOK
<1>1. UNCHANGED <<book, nextId, list, owed, writers>> /\ rows' = rows
  BY DEF account, others, rows
<1>2. /\ command.apply /\ command.status = "none" /\ list[prune].state = "done"
      /\ \A f \in command.found: f.route.id \in Ids(book) \cup writers
  BY <1>0 DEF CommandInv, Deleting
<1>3. Gone' = Gone
  BY <1>1 DEF Gone
<1>4. Owing' /\ \A e \in rows': Traced(e)'
  BY <1>0, <1>1 DEF CommandInv, Owing, Passed, Traced
<1>5. /\ \A f \in command'.found: Owns(f)'
      /\ command'.expired => faults' # 0
      /\ command'.failures # 0 /\ faults' = 0 => Gone'
  <2>1. faults' = 0 => faults = 0
    BY <1>0
  <2> QED
    BY <1>0, <1>1, <1>3, <2>1 DEF CommandInv, Owns
<1>6. Listing' /\ Deleting'
  BY <1>1, <1>2 DEF Listing, Deleting
<1>7. Exited'
  BY <1>1, <1>2, <1>3 DEF Exited
<1>8. Remaining'
  BY <1>0, <1>1, <1>2 DEF CommandInv, Remaining
<1> QED
  BY <1>4, <1>5, <1>6, <1>7, <1>8 DEF CommandInv

LEMMA CommandTries ==
    ASSUME PruneInv, NEW e \in command.found, Delete(e) \/ DeleteRefused(e) \/ DeleteFails(e)
    PROVE  CommandInv'
<1>0. /\ TypeOK /\ CommandInv /\ faults \in Nat /\ command \in Command
  BY BoundAssumption DEF PruneInv, TypeOK, ListTypeOK
<1>1. CASE Delete(e)
  BY <1>1, CommandRemoves DEF Delete
<1>2. CASE DeleteFails(e) /\ Removes(e.route.id)
  <2>1. faults' = faults + 1 /\ faults' # 0
    BY <1>0, <1>2 DEF DeleteFails
  <2> QED
    BY <1>2, <2>1, CommandRemoves DEF DeleteFails
<1>3. ASSUME Tried(e, TRUE), UNCHANGED <<account, owed, others>>, faults' \in {faults, faults + 1},
             faults' = 0 => Gone
      PROVE  CommandInv'
  <2>1. /\ command' \in Command /\ command'.pc = "delete"
        /\ command'.found \subseteq command.found
        /\ command'.apply = command.apply /\ command'.expired = command.expired
        /\ command'.status = command.status /\ command'.failures = command.failures + 1
    BY <1>0, <1>3, TriedType
  <2>2. command'.failures # 0
    BY <1>0, <2>1 DEF Command
  <2>3. command.pc = "delete" /\ command.status = "none"
    BY <1>0, <1>3 DEF CommandInv, Deleting, Tried
  <2> QED
    BY <1>3, <2>1, <2>2, <2>3, CommandKeeps
<1>4. CASE DeleteRefused(e)
  <2>1. UNCHANGED <<account, owed, faults, others>> /\ Tried(e, TRUE)
    BY <1>4 DEF DeleteRefused
  <2>2. ASSUME faults = 0 PROVE Gone
    <3>1. e.route.id \notin Ids(book)
      BY <1>0, <1>4, <2>2 DEF DeleteRefused, CommandInv
    <3>2. e \in rows /\ e.route.id \in writers
      BY <1>0, <2>1, <3>1 DEF CommandInv, Deleting, Owns, Tried
    <3> QED
      BY <3>1, <3>2 DEF Gone, Ids, Shown
  <2> QED
    BY <1>3, <2>1, <2>2
<1>5. CASE DeleteFails(e) /\ UNCHANGED <<account, owed, left>>
  <2>1. faults' = faults + 1 /\ faults' # 0
    BY <1>0, <1>5 DEF DeleteFails
  <2> QED
    BY <1>3, <1>5, <2>1 DEF DeleteFails
<1> QED
  BY <1>1, <1>2, <1>4, <1>5 DEF DeleteFails

LEMMA CommandEnds ==
    ASSUME PruneInv, Expire \/ Finish PROVE CommandInv'
<1>0. TypeOK /\ CommandInv /\ faults \in Nat /\ command \in Command
  BY BoundAssumption DEF PruneInv, TypeOK, ListTypeOK
<1>1. command.pc = "delete" /\ command.status = "none"
  BY <1>0 DEF CommandInv, Deleting, Expire, Finish
<1>2. CASE Expire
  <2>1. /\ command' \in Command /\ command'.pc = "delete" /\ command'.status = "none"
        /\ command'.found = command.found /\ command'.apply = command.apply
        /\ command'.failures = command.failures
    BY <1>0, <1>1, <1>2 DEF Expire, Command
  <2>2. faults' = faults + 1 /\ faults' # 0
    BY <1>0, <1>2 DEF Expire
  <2> QED
    BY <1>1, <1>2, <2>1, <2>2, CommandKeeps DEF Expire
<1>3. CASE Finish
  <2>1. /\ command' \in Command /\ command'.pc = "exit"
        /\ command'.found = command.found /\ command.found = {}
        /\ command'.apply = command.apply /\ command'.expired = command.expired
        /\ command'.failures = command.failures
        /\ command'.status = IF command.failures > 0 THEN "pruneFailed" ELSE "pruneOK"
    BY <1>0, <1>3 DEF Finish, Command
  <2>2. command.failures > 0 <=> command.failures # 0
    BY <1>0 DEF Command
  <2>3. command.failures # 0 /\ faults = 0 => Gone
    BY <1>0 DEF CommandInv
  <2> QED
    BY <1>1, <1>3, <2>1, <2>2, <2>3, CommandKeeps DEF Finish
<1> QED
  BY <1>2, <1>3

LEMMA PruneInit == Init => PruneInv
<1> SUFFICES ASSUME Init PROVE PruneInv
  OBVIOUS
<1>1. /\ book \in SUBSET Route /\ IsFiniteSet(book) /\ Cardinality(book) \in Nat
      /\ \A r \in book: r.id \in 1..Cardinality(book)
      /\ \A q, r \in book: q.id = r.id \/ q.host = r.host \/ q.place = r.place => q = r
  <2>1. book \in InitialBooks
    BY DEF Init, ListInit
  <2> QED
    BY <2>1, BookAssumption, FS_CardinalityType
<1>2. /\ nextId = 1 + Cardinality(book) /\ writers = {} /\ changes = 0 /\ faults = 0
      /\ list = [l \in Lister |-> Unread]
      /\ owed = [l \in Lister |-> {}] /\ left = [l \in Lister |-> 0]
  BY DEF Init, ListInit
<1>3. /\ command \in Command /\ command.pc = "list" /\ command.found = {}
      /\ ~command.expired /\ command.failures = 0 /\ command.status = "none"
  BY DEF Init, Command
<1>4. Unread \in Reading
  BY DEF Unread, Reading
<1>5. TypeOK
  BY <1>1, <1>2, <1>3, <1>4, BoundAssumption DEF TypeOK, ListTypeOK
<1>6. BookInv
  BY <1>1, <1>2 DEF BookInv
<1>7. ASSUME NEW l \in Lister PROVE Skips(l)
  <2>1. /\ list[l].at = 1 /\ list[l].page = 1 /\ list[l].state = "reading" /\ list[l].beyond = 0
        /\ owed[l] = {} /\ left[l] = 0
    BY <1>2 DEF Unread
  <2>2. 1 \in 1..Len(scopes[l])
    BY ListerAssumption
  <2>3. Cardinality(Missed(l)) = 0
    <3>1. Missed(l) = {}
      BY <2>1 DEF Missed
    <3> QED
      BY <3>1, FS_EmptySet
  <2> QED
    BY <2>1, <2>2, <2>3 DEF Skips
<1>8. CommandInv
  <2>1. rows = {} /\ list[prune].at = 1 /\ list[prune].page = 1
    BY <1>2, PruneAssumption DEF rows, Unread
  <2>2. \A k \in 1..Len(scopes[prune]): ~Passed(k)
    BY <2>1 DEF Passed
  <2> QED
    BY <1>2, <1>3, <2>1, <2>2 DEF CommandInv, Owing, Listing, Deleting, Exited, Remaining
<1> QED
  BY <1>5, <1>6, <1>7, <1>8 DEF PruneInv, ListInv

LEMMA PruneNext ==
    ASSUME PruneInv, [Next]_vars PROVE PruneInv'
<1>1. TypeOK' /\ ListInv'
  BY TypeNext, ListNext DEF PruneInv, ListInv
<1>2. CASE UNCHANGED vars
  <2>1. CommandInv' = CommandInv
    BY <1>2 DEF vars, CommandInv, rows, Traced, Owns, Owing, Passed, Listing, Deleting, Exited, Remaining, Gone
  <2> QED
    BY <1>1, <2>1 DEF PruneInv
<1>3. CASE Next
  BY <1>1, <1>3, CommandRead, CommandEndList, CommandTries, CommandEnds, CommandOthers
     DEF Next, PruneInv
<1> QED
  BY <1>2, <1>3

(* The account, what the lists hide and what the command knows, always. *)
THEOREM PruneInvariant == Spec => []PruneInv
<1>1. PruneInv /\ [Next]_vars => PruneInv'
  BY PruneNext
<1> QED
  BY PruneInit, <1>1, PTL DEF Spec

-----------------------------------------------------------------------------
(* The properties *)

(* The command's state, its list and the account keep their types, and it
   never holds one id twice among the routes it is to delete (Found). *)
THEOREM PruneTypeCorrect == Spec => []TypeOK
<1>1. PruneInv => TypeOK
  BY DEF PruneInv
<1> QED
  BY PruneInvariant, <1>1, PTL

(* A list hides at most one route that stayed where it was for every route
   that left the pages it had read, and no more than lay beyond the cap of a
   tunnel the cap has cut (ListHostnameRoutes, list of handler.ts). *)
THEOREM SkipsAreBounded == Spec => []SkipsBounded
<1>1. ASSUME PruneInv PROVE SkipsBounded
  <2> SUFFICES ASSUME NEW l \in Lister, list[l].state = "done"
               PROVE  Cardinality(owed[l] \ Ids(Shown(list[l].read))) <= left[l] + list[l].beyond
    BY DEF SkipsBounded
  <2>1. Skips(l)
    BY <1>1 DEF PruneInv, ListInv
  <2>2. Missed(l) = owed[l] \ Ids(Shown(list[l].read))
    BY <2>1 DEF Skips, Missed, Waiting
  <2> QED
    BY <2>1, <2>2 DEF Skips
<1> QED
  BY PruneInvariant, <1>1, PTL

(* Status 0 means the owner's routes are gone, but for as many as routes left
   the pages of the list while it read them, and those others wrote to
   (runPrune). *)
THEOREM PruneCompletes == Spec => []PruneComplete
<1>1. ASSUME PruneInv PROVE PruneComplete
  <2> DEFINE X == {r \in book: Matches(r) /\ InScopes(r) /\ r.id \notin writers}
             missed == owed[prune] \ Ids(Shown(rows))
  <2> SUFFICES ASSUME command.apply, command.status = "pruneOK"
               PROVE  Cardinality(X) <= left[prune]
    BY DEF PruneComplete
  <2>0. /\ TypeOK /\ BookInv /\ CommandInv /\ Skips(prune) /\ prune \in Lister /\ prune \notin Capped
        /\ command \in Command
    BY <1>1, PruneAssumption DEF PruneInv, ListInv, TypeOK
  <2>1. command.pc = "exit"
    BY <2>0 DEF CommandInv, Listing, Deleting, Command
  <2>2. command.found = {} /\ command.failures = 0 /\ list[prune].state = "done"
    BY <2>0, <2>1 DEF CommandInv, Exited
  <2>3. Missed(prune) = missed /\ Cardinality(missed) <= left[prune]
    <3>1. Missed(prune) = missed
      BY <2>0, <2>2 DEF Skips, Missed, Waiting, rows
    <3>2. list[prune].beyond = 0 /\ left[prune] \in Nat
      BY <2>0, ListerType DEF Skips
    <3>3. Cardinality(Missed(prune)) <= left[prune] + list[prune].beyond
      BY <2>0, <2>2 DEF Skips
    <3> QED
      BY <3>1, <3>2, <3>3
  <2>4. IsFiniteSet(missed) /\ Cardinality(missed) \in Nat /\ left[prune] \in Nat
    BY <2>0, <2>3, MissedFinite, ListerType
  <2>5. ASSUME NEW r \in X PROVE r.id \in missed
    <3>1. r.id \in owed[prune]
      <4>1. PICK k \in 1..Len(scopes[prune]): scopes[prune][k] \in {Account, r.tunnel}
        BY DEF InScopes
      <4>2. Passed(k)
        <5>1. list[prune].at = Len(scopes[prune]) + 1 /\ Len(scopes[prune]) \in Nat
          BY <2>0, <2>2, ListerAssumption DEF Skips
        <5> QED
          BY <5>1 DEF Passed
      <4>3. r.id \notin writers /\ r \in book /\ list[prune].state # "failed"
        BY <2>2
      <4> QED
        BY <2>0, <4>1, <4>2, <4>3 DEF CommandInv, Owing
    <3>2. ASSUME r.id \in Ids(Shown(rows)) PROVE FALSE
      <4>1. PICK e \in rows: e.route.id = r.id
        BY <3>2 DEF Ids, Shown
      <4>2. r = e.route
        BY <2>0, <4>1 DEF CommandInv, Traced
      <4>3. Matches(e.route) /\ e.route.id \in Ids(book)
        BY <4>2 DEF Ids
      <4> QED
        BY <2>0, <2>1, <2>2, <4>1, <4>3 DEF CommandInv, Remaining
    <3> QED
      BY <3>1, <3>2
  <2>6. \A q, r \in X: q.id = r.id => q = r
    BY <2>0 DEF BookInv
  <2> DEFINE f == [r \in X |-> r.id]
  <2>7. f \in Injection(X, missed)
    BY <2>5, <2>6 DEF Injection, IsInjective
  <2>8. Cardinality(X) <= Cardinality(missed) /\ Cardinality(X) \in Nat
    BY <2>4, <2>7, FS_Injection, FS_CardinalityType
  <2> QED
    BY <2>3, <2>4, <2>8
<1> QED
  BY PruneInvariant, <1>1, PTL

(* The command fails only if a call failed or somebody else deleted a route
   it had listed (pruneRoutes counts each failed delete once). *)
THEOREM FailuresAreExplained == Spec => []FailureExplained
<1>1. ASSUME PruneInv PROVE FailureExplained
  <2> SUFFICES ASSUME command.status = "pruneFailed", faults = 0 PROVE Gone
    BY DEF FailureExplained, Gone, rows
  <2>1. CommandInv /\ command \in Command
    BY <1>1 DEF PruneInv, TypeOK
  <2> QED
    BY <2>1 DEF CommandInv, Listing, Deleting, Exited, Command
<1> QED
  BY PruneInvariant, <1>1, PTL

(* Every route the command deletes, it had listed, inside the filter, with
   the owner's tag; a tag it lost since, it lost by its owner's own write
   (cmd/webhook/prune.go, "It only ever touches routes carrying exactly that
   owner's tag"). *)
THEOREM OthersAreSpared == Spec => PruneSparesOthers
<1> DEFINE A == \A r \in book \ book': changes' = changes =>
                  /\ command.apply
                  /\ r.id \in Ids(Shown(list[prune].read))
                  /\ r.host \in domainFilter
                  /\ r.tag = owner \/ (r.tag = Untagged /\ r.id \in writers)
<1>1. ASSUME PruneInv, [Next]_vars PROVE [A]_vars
  <2>0. /\ TypeOK /\ CommandInv /\ changes \in Nat
    BY <1>1, BoundAssumption DEF PruneInv, TypeOK, ListTypeOK
  <2>1. ASSUME NEW e \in command.found, command.pc = "delete", Removes(e.route.id) PROVE A
    <3> SUFFICES ASSUME NEW r \in book \ book'
                 PROVE  /\ command.apply /\ r.id \in Ids(Shown(rows)) /\ r.host \in domainFilter
                        /\ r.tag = owner \/ (r.tag = Untagged /\ r.id \in writers)
      BY DEF rows
    <3>1. r.id = e.route.id
      BY <2>1 DEF Removes, Rewrite
    <3>2. e \in rows /\ Matches(e.route) /\ Traced(e) /\ command.apply
      BY <2>0, <2>1 DEF CommandInv, Owns, Deleting
    <3>3. r.host = e.route.host
      BY <3>1, <3>2 DEF Traced
    <3>4. r.tag = owner \/ (r.tag = Untagged /\ r.id \in writers)
      BY <3>1, <3>2 DEF Traced, Matches
    <3> QED
      BY <3>1, <3>2, <3>3, <3>4 DEF Matches, Ids, Shown
  <2>2. CASE Others
    <3>1. changes' = changes + 1
      BY <2>2 DEF Others, Write
    <3> QED
      BY <2>0, <3>1
  <2>3. ASSUME book' = book PROVE A
    BY <2>3
  <2>4. CASE UNCHANGED vars \/ EndList \/ Expire \/ Finish \/ \E l \in Lister: Read(l)
    BY <2>3, <2>4 DEF vars, EndList, Expire, Finish, Read, ReadPage, ReadLastPage, ReadFails, account
  <2>5. ASSUME NEW e \in command.found, Delete(e) \/ DeleteRefused(e) \/ DeleteFails(e) PROVE A
    BY <2>1, <2>3, <2>5 DEF Delete, DeleteRefused, DeleteFails, Tried, account
  <2> QED
    BY <1>1, <2>2, <2>4, <2>5 DEF Next
<1>2. Spec => [][A]_vars
  BY PruneInvariant, <1>1, PTL DEF Spec
<1> QED
  BY <1>2 DEF PruneSparesOthers
=============================================================================
