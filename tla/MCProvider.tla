----------------------------- MODULE MCProvider -----------------------------
(***************************************************************************)
(* Instances of Provider for TLC.  Each cfg picks one scenario: who runs,  *)
(* with which options, from which account, and what may change or fail.    *)
(***************************************************************************)
EXTENDS Provider

CONSTANTS
    i1, i2,             \* instances
    w1, w2,             \* workers
    h1, h2, h3,         \* hostnames
    t1, t2,             \* tunnels
    s1, s2              \* resource labels

(* No wildcard: every hostname is stored as it is. *)
SameName == [h \in Host |-> h]

EmptyFragment == [i \in Instance |-> NoRewrites]

R(id, t, tag) == [id |-> id, tunnel |-> t, tag |-> tag]

-----------------------------------------------------------------------------
(* One instance on t1, draining t2.  h1 starts on the draining tunnel with
   the owner's tag; h2 is free, or another writer has it on t1. *)

SoloOf      == [p \in Worker |-> i1]
SoloResolve == [i \in Instance |-> [h \in Host |-> t1]]
SoloTunnels == [i \in Instance |-> <<t1, t2>>]
AllFilter   == [i \in Instance |-> Host]

SoloRoutes ==
    {[NoRoutes EXCEPT ![h1] = R(0, t2, i1), ![h2] = r] :
         r \in {NoRoute, R(1, t1, Untagged), R(1, t1, i2)}}

OverlapRoutes ==
    {[NoRoutes EXCEPT ![h1] = R(0, t2, i1), ![h2] = r] : r \in {NoRoute, R(1, t1, i2)}}

SoloDesired == {[i \in Instance |-> [h \in Host |-> IF h = h1 THEN s1 ELSE Unwanted]]}

-----------------------------------------------------------------------------
(* Two instances.  i1 is on t1; i2 is on t2 and drains t1, which it takes over
   from i1.  i1 holds h1 and wants h2, i2 holds h2 and wants h1 (a swap), or
   i2 wants what i1 is giving up (a handoff). *)

PairOf      == [p \in Worker |-> IF p = w1 THEN i1 ELSE i2]
PairResolve == [i \in Instance |-> [h \in Host |-> IF i = i1 THEN t1 ELSE t2]]
PairTunnels == [i \in Instance |-> IF i = i1 THEN <<t1>> ELSE <<t2, t1>>]

PairRoutes ==
    {[NoRoutes EXCEPT ![h1] = R(0, t1, i1), ![h2] = R(1, t2, i2)],
     [NoRoutes EXCEPT ![h1] = R(0, t1, i1)]}

PairDesired ==
    {[i \in Instance |-> [h \in Host |-> IF i = i1 THEN IF h = h2 THEN s1 ELSE Unwanted
                                                   ELSE IF h = h1 THEN s1 ELSE Unwanted]]}

-----------------------------------------------------------------------------
(* One instance that claims the routes Terraform made, with upsert-only.
   h1 is on its tunnel or on the draining one, with no tag or another
   owner's; h2 has left the tunnel map but its route and its rewrite may
   remain; h3 is outside the domain filter, and its route may be stranded on
   the draining tunnel. *)

MigrateResolve == [i \in Instance |-> [h \in Host |-> IF h = h2 THEN NoTunnel ELSE t1]]
MigrateFilter  == [i \in Instance |-> Host \ {h3}]

MigrateRoutes ==
    {[NoRoutes EXCEPT ![h1] = R(0, t, tag), ![h2] = r, ![h3] = stranded] :
         t \in {t1, t2}, tag \in {Untagged, i2}, r \in {NoRoute, R(1, t1, i1)},
         stranded \in {NoRoute, R(2, t2, i1)}}

MigrateDesired == {[i \in Instance |-> [h \in Host |-> IF h = h1 THEN s1 ELSE Unwanted]]}
MigrateFragment ==
    [i \in Instance |-> [h \in Host |-> IF i = i1 /\ h # h1 THEN s1 ELSE NoRewrite]]

-----------------------------------------------------------------------------
(* Two instances that adopt, on one tunnel, and want the same hostname. *)

SharedTunnels == [i \in Instance |-> <<t1>>]
SharedRoutes  == {[NoRoutes EXCEPT ![h1] = R(0, t1, Untagged)]}
SharedDesired == {[i \in Instance |-> [h \in Host |-> s1]]}

-----------------------------------------------------------------------------
(* One instance with a labelled host and one whose endpoint has no label. *)

MixedRoutes  == {[NoRoutes EXCEPT ![h1] = R(0, t1, i1)]}
MixedDesired == {[i \in Instance |-> [h \in Host |-> IF h = h1 THEN NoLabel ELSE s1]]}
=============================================================================
