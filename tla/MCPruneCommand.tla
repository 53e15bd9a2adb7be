--------------------------- MODULE MCPruneCommand ---------------------------
(***************************************************************************)
(* The prune command for owner a, on the whole account, beside a broker's  *)
(* list of two tunnels; three routes, in pages of two.  The broker stops   *)
(* after one page: its list of t1 is cut unless a route goes.              *)
(***************************************************************************)
EXTENDS PruneCommand

CONSTANTS a, b, h1, h2, h3, h4, t1, t2, broker

R(id, h, t, tag, p) == [id |-> id, host |-> h, tunnel |-> t, tag |-> tag, place |-> p]

Books ==
    {{R(1, h1, t1, a, 2), R(2, h2, t1, a, 4), R(3, h3, t1, b, 6)}}

Scopes ==
    [l \in Lister |-> IF l = broker THEN <<t2, t1>> ELSE <<Account>>]

Filter == {h1, h2, h3}
=============================================================================
