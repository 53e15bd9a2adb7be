------------------------------ MODULE MCBroker ------------------------------
(***************************************************************************)
(* Broker for TLC: c1 has two tunnels, c2 one; the name h2 is under the    *)
(* suffixes of both, wild is a wildcard stored as h1, which is c1's alone. *)
(* The operator deploys a good policy, one that gives t1 to both clients,  *)
(* or one where c2 has no owner and c1 is not named.                       *)
(***************************************************************************)
EXTENDS Broker, TLC

CONSTANTS c1, c2, p1, p2, h1, h2, wild, t1, t2, t3, o1, o2

StoredName == [h \in Host |-> IF h = wild THEN h1 ELSE h]

First  == [owner |-> o1, tunnels |-> {t1, t2}, hosts |-> {h1, h2}]
Second == [owner |-> o2, tunnels |-> {t3}, hosts |-> {h2}]

Policies ==
    {(c1 :> First) @@ (c2 :> Second),
     (c1 :> First) @@ (c2 :> [Second EXCEPT !.tunnels = {t1, t3}]),
     c2 :> [Second EXCEPT !.owner = NoOwner]}

B(h, t, tag) == [hostname |-> h, tunnel |-> t, tag |-> tag]

(* An adoption, a rename alone, a null comment, a retarget to every tunnel. *)
Patches ==
    {B(Absent, Absent, o2), B(wild, Absent, Absent), B(h2, Absent, Null),
     B(h1, t2, o1), B(h2, t3, o1)}

Start ==
    {[NoRoutes EXCEPT ![h1] = [id |-> 0, tunnel |-> t1, tag |-> o1],
                      ![h2] = [id |-> 1, tunnel |-> t3, tag |-> tag]] : tag \in {o2, Untagged}}

SlotSymmetry == Permutations(Slot)
=============================================================================
