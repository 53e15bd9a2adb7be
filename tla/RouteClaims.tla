----------------------------- MODULE RouteClaims -----------------------------
(***************************************************************************)
(* What instances that share an account promise one another, whatever      *)
(* their cycles look like inside (docs/multi-tunnel-lifecycle.md, section  *)
(* 9: "the 409 is the mutex, the comment is the ownership record, and an   *)
(* owner's own delete is consent").                                        *)
(*                                                                         *)
(* A name is free, taken with no owner's mark, or claimed by one owner.    *)
(* It passes from one owner to another only through a release that its     *)
(* holder had decided on.                                                  *)
(***************************************************************************)
CONSTANTS
    Name,
    Owner,
    Unmarked,   \* a name somebody took without an owner's mark
    Free

VARIABLES
    claim,      \* the owner of each name
    giving      \* the names each owner has decided to give up

vars == <<claim, giving>>

Init ==
    /\ claim \in [Name -> Owner \cup {Unmarked, Free}]
    /\ giving = [o \in Owner |-> {}]

(* An owner makes, finishes or forgets a plan. *)
Decide(o) ==
    /\ \E names \in SUBSET Name: giving' = [giving EXCEPT ![o] = names]
    /\ UNCHANGED claim

(* Nobody's name becomes o's. *)
Claim(o, n) ==
    /\ claim[n] \in {Free, Unmarked}
    /\ claim' = [claim EXCEPT ![n] = o]
    /\ UNCHANGED giving

(* o gives a name up, as it had decided; another of its plans may still
   name it. *)
Release(o, n) ==
    /\ n \in giving[o]
    /\ claim[n] \in {o, Unmarked}
    /\ claim' = [claim EXCEPT ![n] = Free]
    /\ giving' \in {giving, [giving EXCEPT ![o] = @ \ {n}]}

(* o rewrites its route from what it knew before it marked it. *)
Unmark(o, n) ==
    /\ claim[n] = o
    /\ claim' = [claim EXCEPT ![n] = Unmarked]
    /\ UNCHANGED giving

(* Somebody outside takes a free name, or frees one it took. *)
Occupy(n) ==
    /\ claim[n] = Free
    /\ claim' = [claim EXCEPT ![n] = Unmarked]
    /\ UNCHANGED giving

Vacate(n) ==
    /\ claim[n] = Unmarked
    /\ claim' = [claim EXCEPT ![n] = Free]
    /\ UNCHANGED giving

Next ==
    \/ \E o \in Owner: Decide(o)
    \/ \E o \in Owner, n \in Name: Claim(o, n) \/ Release(o, n) \/ Unmark(o, n)
    \/ \E n \in Name: Occupy(n) \/ Vacate(n)

Spec == Init /\ [][Next]_vars
=============================================================================
