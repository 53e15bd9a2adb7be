------------------------------ MODULE Fragment ------------------------------
(***************************************************************************)
(* The text of the ConfigMap key (internal/coredns/fragment.go): what      *)
(* Load reads out of it and Apply writes into it.  Provider models the     *)
(* rewrites the key means, and Apply as a read and a write apart; here the *)
(* key is its lines, and it may hold what an older version or a hand left. *)
(*                                                                         *)
(* A line is a directive for one host in some spelling (case), or anything *)
(* else.  Rank is the lexical rank of a host, which render sorts by.       *)
(***************************************************************************)
EXTENDS Integers, Sequences, FiniteSets

CONSTANTS
    Host,       \* hostnames, in lower case
    Target,     \* cluster-local names
    NoRewrite,  \* no directive for the host
    Lower,      \* the spelling of a host in lower case
    Upper,      \* any other spelling of it
    Header,     \* the comment at the top of a rendered key
    Unknown,    \* any other line that is no rewrite of one host
    Rank        \* lexical rank of each host

ASSUME RewriteAssumption == NoRewrite \notin Target
ASSUME RankAssumption ==
    /\ IsFiniteSet(Host)
    /\ Rank \in [Host -> 1..Cardinality(Host)]
    /\ \A g, h \in Host: Rank[g] = Rank[h] => g = h

Rewrites == [Host -> Target \cup {NoRewrite}]

Directive == [host: Host, spelling: {Lower, Upper}, target: Target]

Line == Directive \cup {Header, Unknown}

ASSUME LineAssumption == {Header, Unknown} \cap Directive = {}

-----------------------------------------------------------------------------
(* The places of the lines of the text that rewrite the host. *)
LinesFor(text, h) ==
    {k \in DOMAIN text: text[k] \notin {Header, Unknown} /\ text[k].host = h}

(* The last line for a host wins, in whatever case it is written; a line
   that is no rewrite is dropped. *)
parseRewrites(text) ==
    [h \in Host |-> IF LinesFor(text, h) = {} THEN NoRewrite
                    ELSE text[CHOOSE k \in LinesFor(text, h):
                                 \A j \in LinesFor(text, h): j <= k].target]

(* Mutation of render: a rewrite of the highest rank is left out. *)
render_DropsLast(rewrites) ==
    LET hosts == {h \in Host: rewrites[h] # NoRewrite /\ Rank[h] < Cardinality(Host)}
        at(n) == CHOOSE h \in hosts: Cardinality({g \in hosts: Rank[g] <= Rank[h]}) = n
    IN  <<Header>> \o [n \in 1..Cardinality(hosts) |->
            [host |-> at(n), spelling |-> Lower, target |-> rewrites[at(n)]]]

(* The header, then a line for each host in lexical order. *)
render(rewrites) ==
    LET hosts == {h \in Host: rewrites[h] # NoRewrite}
        at(n) == CHOOSE h \in hosts: Cardinality({g \in hosts: Rank[g] <= Rank[h]}) = n
    IN  <<Header>> \o [n \in 1..Cardinality(hosts) |->
            [host |-> at(n), spelling |-> Lower, target |-> rewrites[at(n)]]]

(* Removals, then additions. *)
Desired(current, add, remove) ==
    [h \in Host |-> IF add[h] # NoRewrite THEN add[h]
                    ELSE IF h \in remove THEN NoRewrite ELSE current[h]]

(* Mutation of ApplyText: the key is always written. *)
ApplyText_AlwaysWrites(text, add, remove) ==
    render(Desired(parseRewrites(text), add, remove))

(* The key after Apply: as it was when the rewrites are the same. *)
ApplyText(text, add, remove) ==
    LET current == parseRewrites(text)
        desired == Desired(current, add, remove)
    IN  IF desired = current THEN text ELSE render(desired)
=============================================================================
