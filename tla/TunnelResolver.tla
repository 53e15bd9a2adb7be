--------------------------- MODULE TunnelResolver ---------------------------
(***************************************************************************)
(* The tunnel selector of the provider (internal/provider/tunnel.go): a    *)
(* map from a hostname to the Cloudflare Tunnel that should carry it, and  *)
(* the list of the tunnels the provider reads.                             *)
(*                                                                         *)
(* A name is a sequence of labels, the most specific first, so that        *)
(* <<a, apps, private>> is "a.apps.private".  A key of TUNNEL_MAP is a     *)
(* name in one of several spellings, which differ in case or in a leading  *)
(* dot: the keys are distinct in the parsed map and the resolver's entries *)
(* are not.  Length and Alphabetical are what the code's sort compares:    *)
(* the characters of a domain and its lexical rank.  A resolver is a       *)
(* record with the fields of the Go struct.                                *)
(***************************************************************************)
EXTENDS Integers, Sequences, FiniteSets

CONSTANTS
    Label,          \* the labels of names
    Domain,         \* the names that may be keys of TUNNEL_MAP
    Spelling,       \* how a key may be written
    NoDomain,       \* the name of the key "."
    TunnelId,       \* tunnel ids
    NoTunnel,       \* the empty tunnel id: "" in the code
    Length,         \* characters of each domain
    Alphabetical    \* lexical rank of each domain

ASSUME TunnelAssumption   == NoTunnel \notin TunnelId
ASSUME DomainAssumption   == Domain \subseteq Seq(Label)
ASSUME LengthAssumption   == Length \in [Domain -> Nat]
(* A domain has more characters than one it ends with. *)
ASSUME SuffixAssumption ==
    \A d, e \in Domain: (\E k \in 2..Len(e): d = SubSeq(e, k, Len(e))) => Length[d] < Length[e]
ASSUME AlphabetAssumption ==
    /\ Alphabetical \in [Domain -> Nat]
    /\ \A d, e \in Domain: Alphabetical[d] = Alphabetical[e] => d = e

Key == [domain: Domain \cup {NoDomain}, spelling: Spelling]

Entry == [domain: Domain, tunnelID: TunnelId]

Resolver == [entries: Seq(Entry), fallback: TunnelId \cup {NoTunnel}, drain: Seq(TunnelId)]

-----------------------------------------------------------------------------

(* h == e.domain, or h ends with "." followed by it. *)
Covers(h, d) == \E k \in 1..Len(h): d = SubSeq(h, k, Len(h))

(* Mutation of Precedes: no tie-break. *)
Precedes_LengthOnly(d, e) == Length[d] > Length[e]

(* The order of the entries: longest domain first, ties in lexical order. *)
Precedes(d, e) ==
    \/ Length[d] > Length[e]
    \/ Length[d] = Length[e] /\ Alphabetical[d] < Alphabetical[e]

newSingleTunnelResolver(tid) == [entries |-> <<>>, fallback |-> tid, drain |-> <<>>]

(* Mutation of newMapTunnelResolver: the entries in the map's order. *)
newMapTunnelResolver_Unsorted(m) ==
    IF DOMAIN m = {} \/ \E key \in DOMAIN m: key.domain = NoDomain THEN {}
    ELSE {[entries  |-> [n \in DOMAIN o |-> [domain |-> o[n].domain, tunnelID |-> m[o[n]]]],
           fallback |-> NoTunnel, drain |-> <<>>] :
             o \in {f \in [1..Cardinality(DOMAIN m) -> DOMAIN m] :
                       \A j, k \in DOMAIN f: j < k => f[j] # f[k]}}

(* The resolvers the map may become: none when it is refused, and one for
   each order of two keys that spell one domain, which the sort leaves in the
   order Go ranges over the map. *)
newMapTunnelResolver(m) ==
    IF DOMAIN m = {} \/ \E key \in DOMAIN m: key.domain = NoDomain THEN {}
    ELSE {[entries  |-> [n \in DOMAIN o |-> [domain |-> o[n].domain, tunnelID |-> m[o[n]]]],
           fallback |-> NoTunnel, drain |-> <<>>] :
             o \in {f \in [1..Cardinality(DOMAIN m) -> DOMAIN m] :
                       \A j, k \in DOMAIN f:
                          j < k => f[j] # f[k] /\ ~Precedes(f[k].domain, f[j].domain)}}

(* Mutation of resolve: the last entry that covers the name. *)
resolve_LastMatch(r, h) ==
    LET hits == {k \in 1..Len(r.entries): Covers(h, r.entries[k].domain)}
    IN  IF r.fallback # NoTunnel THEN r.fallback
        ELSE IF hits = {} THEN NoTunnel
        ELSE r.entries[CHOOSE k \in hits: \A j \in hits: k >= j].tunnelID

(* The first entry that covers the name, NoTunnel when there is none. *)
resolve(r, h) ==
    LET hits == {k \in 1..Len(r.entries): Covers(h, r.entries[k].domain)}
    IN  IF r.fallback # NoTunnel THEN r.fallback
        ELSE IF hits = {} THEN NoTunnel
        ELSE r.entries[CHOOSE k \in hits: \A j \in hits: k <= j].tunnelID

(* The elements of s at some of its places, in their order. *)
Picked(s, places) ==
    LET nth(n) == CHOOSE k \in places: Cardinality({j \in places: j <= k}) = n
    IN  [n \in 1..Cardinality(places) |-> s[nth(n)]]

(* Mutation of FirstOccurrences: repeats are kept. *)
FirstOccurrences_Repeats(s) == Picked(s, {k \in 1..Len(s): s[k] # NoTunnel})

(* s without the blank ids and without the repeats of an earlier id. *)
FirstOccurrences(s) ==
    Picked(s, {k \in 1..Len(s): s[k] # NoTunnel /\ \A j \in 1..(k - 1): s[j] # s[k]})

configured(r) ==
    IF r.fallback # NoTunnel THEN <<r.fallback>>
    ELSE FirstOccurrences([k \in 1..Len(r.entries) |-> r.entries[k].tunnelID])

(* Mutation of DrainRefused: only the first configured tunnel is looked at. *)
DrainRefused_FirstOnly(r, ids) == \E k \in 1..Len(ids): ids[k] = configured(r)[1]

(* A tunnel that is configured and draining at once is refused. *)
DrainRefused(r, ids) ==
    \E k \in 1..Len(ids), j \in 1..Len(configured(r)): ids[k] = configured(r)[j]

setDrain(r, ids) == [r EXCEPT !.drain = FirstOccurrences(ids)]

tunnels(r) == configured(r) \o r.drain
=============================================================================
