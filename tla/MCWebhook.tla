----------------------------- MODULE MCWebhook -----------------------------
(***************************************************************************)
(* Model checking of Webhook, over two sets of environments: the tunnel    *)
(* settings with everything else in order, and the client and fragment     *)
(* settings with one tunnel.  The first hold every TUNNEL_MAP of up to     *)
(* three pieces, some in a second spelling, malformed or blank, with every *)
(* TUNNEL_DRAIN of up to two.  "offices" and "private" have the same       *)
(* length: the sort's tie.                                                 *)
(***************************************************************************)
EXTENDS Webhook

CONSTANTS t1, t2, t3, a, apps, private, offices, plain, dotted, h1, h2, s1, s2

DomainDef == {<<private>>, <<apps, private>>, <<offices>>}
LengthDef ==
    [d \in DomainDef |-> CASE d = <<private>> -> 7 [] d = <<apps, private>> -> 12
                           [] d = <<offices>> -> 7]
AlphabeticalDef ==
    [d \in DomainDef |-> CASE d = <<private>> -> 3 [] d = <<apps, private>> -> 1
                           [] d = <<offices>> -> 2]
HostnameDef ==
    {<<a, apps, private>>, <<a, private>>, <<apps, private>>, <<private>>, <<a, offices>>, <<a>>}

RankDef == [h \in {h1, h2} |-> IF h = h1 THEN 1 ELSE 2]

NoDomainDef == <<>>

P(kind, d, sp, t) == [kind |-> kind, key |-> [domain |-> d, spelling |-> sp], tunnelID |-> t]

Pieces ==
    {P("pair", d, plain, t) : d \in DomainDef, t \in {t1, t2}}
          \cup {P("pair", d, dotted, t) : d \in {<<private>>, <<apps, private>>}, t \in {t1, t2}}
          \cup {P("pair", NoDomainDef, plain, t1), P("blank", NoDomainDef, plain, t1),
                P("malformed", NoDomainDef, plain, t1)}

Maps == UNION {[1..n -> Pieces] : n \in 0..3}

Drains == UNION {[1..n -> {t1, t3, NoTunnel}] : n \in 0..2}

Ordinary ==
    [accountID |-> "set", tunnelID |-> t1, tunnelMap |-> <<>>, tunnelDrain |-> <<>>,
     configMap |-> "unset", cluster |-> TRUE, backend |-> "cloudflare", token |-> TRUE,
     brokerURL |-> "unset", brokerToken |-> FALSE]

SettingsDef ==
    {[Ordinary EXCEPT !.tunnelID = t, !.tunnelMap = m, !.tunnelDrain = d] :
        t \in {NoTunnel, t2}, m \in Maps, d \in Drains}
    \cup {[Ordinary EXCEPT !.accountID = i, !.backend = b, !.token = k, !.brokerURL = u,
                           !.brokerToken = c] :
        i \in {"unset", "blank", "set"}, b \in {"cloudflare", "broker", "other"}, k \in BOOLEAN,
        u \in {"unset", "invalid", "http", "loopback", "https"}, c \in BOOLEAN}
    \cup {[Ordinary EXCEPT !.configMap = f, !.cluster = c] :
        f \in {"malformed", "named"}, c \in BOOLEAN}

L(h, sp, s) == [host |-> h, spelling |-> sp, target |-> s]

EditedKeysDef ==
    {<<L(h1, Upper, s1), L(h1, Lower, s2)>>,
     <<L(h2, Lower, s1), Unknown, L(h1, Upper, s2), L(h2, Upper, s2)>>,
     <<Unknown>>}
=============================================================================
