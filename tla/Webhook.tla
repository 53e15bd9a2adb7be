------------------------------- MODULE Webhook -------------------------------
(***************************************************************************)
(* One pod's webhook process (cmd/webhook/main.go and backend.go): it      *)
(* starts from the settings in its environment or exits, and the kubelet   *)
(* starts it again.  While it serves, its provider has the resolver, the   *)
(* client and the fragment writer the start made, which Provider takes as  *)
(* its constants, and writes the ConfigMap key.                            *)
(*                                                                         *)
(* The environment does not change under a process: another environment is *)
(* another initial state.  A value is what the start tells apart about it. *)
(***************************************************************************)
EXTENDS TunnelResolver, Fragment

CONSTANTS
    Settings,   \* the environments considered
    Hostname,   \* hostnames, as sequences of labels
    EditedKeys  \* what an older version or a hand may leave in the key

(* What stands between two commas of TUNNEL_MAP, trimmed. *)
Piece == [kind: {"pair", "blank", "malformed"}, key: Key, tunnelID: TunnelId]

Setting ==
    [accountID:   {"unset", "blank", "set"},
     tunnelID:    TunnelId \cup {NoTunnel},
     tunnelMap:   Seq(Piece),
     tunnelDrain: Seq(TunnelId \cup {NoTunnel}),
     configMap:   {"unset", "malformed", "named"},
     cluster:     BOOLEAN,          \* a Kubernetes client can be made
     backend:     {"cloudflare", "broker", "other"},
     token:       BOOLEAN,          \* CF_API_TOKEN
     brokerURL:   {"unset", "invalid", "http", "loopback", "https"},
     brokerToken: BOOLEAN]          \* BROKER_CLIENT_ID and BROKER_CLIENT_SECRET

ASSUME SettingsAssumption == Settings \subseteq Setting
ASSUME HostnameAssumption == Hostname \subseteq Seq(Label)
ASSUME EditedKeysAssumption == EditedKeys \subseteq Seq(Line)

VARIABLES
    settings,   \* the environment
    status,     \* "down", "serving", or "refused": the start exited
    process,    \* what the start made
    earlier,    \* the resolver of the process before it: history
    key         \* the lines of the ConfigMap key, none when it is missing

vars == <<settings, status, process, earlier, key>>

Client == [baseURL: {"cloudflare", "loopback", "http", "https"}, token: BOOLEAN, headers: BOOLEAN]

NoResolver == newSingleTunnelResolver(NoTunnel)

NoProcess ==
    [resolver |-> NoResolver, coredns |-> FALSE,
     client |-> [baseURL |-> "cloudflare", token |-> FALSE, headers |-> FALSE]]

(* A process never serves without a tunnel, lists the blank id of a
   malformed TUNNEL_DRAIN, or keeps what a refused start had made. *)
TypeOK ==
    /\ settings \in Setting
    /\ status \in {"down", "serving", "refused"}
    /\ process \in [resolver: Resolver, coredns: BOOLEAN, client: Client]
    /\ (status = "serving") = (process.resolver # NoResolver)
    /\ earlier \in Resolver
    /\ key \in Seq(Line)

Init ==
    /\ settings \in Settings
    /\ status = "down"
    /\ process = NoProcess
    /\ earlier = NoResolver
    /\ key = <<>>
-----------------------------------------------------------------------------
Pairs(pieces) == {k \in DOMAIN pieces: pieces[k].kind = "pair"}

Malformed(pieces) == \E k \in DOMAIN pieces: pieces[k].kind = "malformed"

(* Mutation of parseTunnelMap: the first pair of a key wins. *)
parseTunnelMap_FirstWins(pieces) ==
    [d \in {pieces[k].key : k \in Pairs(pieces)} |->
        pieces[CHOOSE k \in Pairs(pieces):
                  pieces[k].key = d /\ \A j \in Pairs(pieces): pieces[j].key = d => k <= j].tunnelID]

(* A map with a malformed pair is an error as a whole.  The last pair of a
   key wins, a blank piece is skipped, and a map of blanks is empty. *)
parseTunnelMap(pieces) ==
    [d \in {pieces[k].key : k \in Pairs(pieces)} |->
        pieces[CHOOSE k \in Pairs(pieces):
                  pieces[k].key = d /\ \A j \in Pairs(pieces): pieces[j].key = d => j <= k].tunnelID]

(* TUNNEL_DRAIN as splitCSV cuts it. *)
splitCSV(ids) == Picked(ids, {k \in 1..Len(ids): ids[k] # NoTunnel})

(* No ConfigMap, or one that is named in full and that a client reaches. *)
buildFragment(s) == s.configMap = "unset" \/ (s.configMap = "named" /\ s.cluster)

checkBrokerURL(url) == url \in {"https", "loopback"}

(* Cloudflare with the account token, the broker with an Access service
   token and no account token, or no client. *)
newRouteClient(s) ==
    IF s.accountID # "set" THEN {}
    ELSE IF s.backend = "cloudflare" /\ s.token
         THEN {[baseURL |-> "cloudflare", token |-> TRUE, headers |-> FALSE]}
    ELSE IF s.backend = "broker" /\ ~s.token /\ s.brokerToken /\ checkBrokerURL(s.brokerURL)
         THEN {[baseURL |-> s.brokerURL, token |-> FALSE, headers |-> TRUE]}
    ELSE {}

(* Mutation of NewResolver: neither of the two need be set. *)
NewResolver_Unchecked(s) ==
    IF DOMAIN parseTunnelMap(s.tunnelMap) # {}
    THEN newMapTunnelResolver(parseTunnelMap(s.tunnelMap))
    ELSE {newSingleTunnelResolver(s.tunnelID)}

(* TUNNEL_MAP comes before CF_TUNNEL_ID. *)
NewResolver(s) ==
    IF DOMAIN parseTunnelMap(s.tunnelMap) # {}
    THEN newMapTunnelResolver(parseTunnelMap(s.tunnelMap))
    ELSE IF s.tunnelID # NoTunnel THEN {newSingleTunnelResolver(s.tunnelID)} ELSE {}

(* The resolvers cfprovider.New may end with: none when the drain list names
   a configured tunnel. *)
New(s) ==
    {setDrain(r, splitCSV(s.tunnelDrain)) :
        r \in {q \in NewResolver(s): ~DrainRefused(q, splitCSV(s.tunnelDrain))}}

(* The processes main may become; none when it exits.  The order of the
   checks decides only which error is logged. *)
main(s) ==
    IF s.accountID = "unset" \/ Malformed(s.tunnelMap) \/ ~buildFragment(s) THEN {}
    ELSE {[resolver |-> r, coredns |-> s.configMap = "named", client |-> c] :
             r \in New(s), c \in newRouteClient(s)}

Start ==
    /\ status = "down"
    /\ IF main(settings) = {} THEN status' = "refused" /\ UNCHANGED process
       ELSE status' = "serving" /\ process' \in main(settings)
    /\ UNCHANGED <<settings, earlier, key>>

(* The process ends, and the kubelet will start another. *)
Stop ==
    /\ status # "down"
    /\ status' = "down"
    /\ process' = NoProcess
    /\ earlier' = IF status = "serving" THEN process.resolver ELSE earlier
    /\ UNCHANGED <<settings, key>>

(* The provider changes some rewrites of the key. *)
ApplyFragment(add, remove) ==
    /\ status = "serving" /\ process.coredns
    /\ key' = ApplyText(key, add, remove)
    /\ UNCHANGED <<settings, status, process, earlier>>

(* An older version of the webhook, or a person, has written the key. *)
EditKey ==
    /\ settings.configMap = "named"
    /\ key' \in EditedKeys
    /\ UNCHANGED <<settings, status, process, earlier>>

Next ==
    \/ Start \/ Stop \/ EditKey
    \/ \E add \in Rewrites, remove \in SUBSET Host: ApplyFragment(add, remove)

Spec == Init /\ [][Next]_vars
-----------------------------------------------------------------------------
Elements(s) == {s[k] : k \in DOMAIN s}

(* The pair of the most specific domain that covers the name decides,
   wherever it stands in TUNNEL_MAP and however its domain is written; of
   two pairs with the very same key the last (tunnel.go:53, "more specific
   domains take precedence regardless of map order"; README: "Supersedes
   CF_TUNNEL_ID"). *)
MostSpecificWins ==
    status = "serving" /\ Pairs(settings.tunnelMap) # {} =>
        \A h \in Hostname:
            LET pieces   == settings.tunnelMap
                covering == {k \in Pairs(pieces): Covers(h, pieces[k].key.domain)}
            IN  IF covering = {} THEN resolve(process.resolver, h) = NoTunnel
                ELSE \E k \in covering:
                        /\ resolve(process.resolver, h) = pieces[k].tunnelID
                        /\ \A j \in covering:
                              /\ Len(pieces[j].key.domain) <= Len(pieces[k].key.domain)
                              /\ pieces[j].key = pieces[k].key => j <= k

(* No hostname resolves to a tunnel of TUNNEL_DRAIN, so nothing is created on
   a tunnel that is being retired (tunnel.go:30). *)
DrainNeverResolved ==
    \A h \in Hostname: resolve(process.resolver, h) \notin Elements(process.resolver.drain)

(* What Provider assumes of its tunnels: a tunnel a hostname resolves to is
   listed, once, and so is every tunnel of TUNNEL_DRAIN (tunnel.go:138). *)
EveryTargetListedOnce ==
    status = "serving" =>
        LET ts == tunnels(process.resolver)
        IN  /\ \A h \in Hostname: resolve(process.resolver, h) \in Elements(ts) \cup {NoTunnel}
            /\ Elements(settings.tunnelDrain) \ {NoTunnel} \subseteq Elements(ts)
            /\ \A j, k \in DOMAIN ts: ts[j] = ts[k] => j = k
            /\ ts # <<>>

(* TUNNEL_MAP names one domain in two spellings. *)
TwoSpellings ==
    \E j, k \in Pairs(settings.tunnelMap):
        /\ settings.tunnelMap[j].key # settings.tunnelMap[k].key
        /\ settings.tunnelMap[j].key.domain = settings.tunnelMap[k].key.domain

(* The most specific domain that covers h is one of them: TUNNEL_MAP gives it
   two tunnels, in two spellings. *)
SpeltTwice(h) ==
    LET pieces   == settings.tunnelMap
        covering == {k \in Pairs(pieces): Covers(h, pieces[k].key.domain)}
    IN  \E j, k \in covering:
            /\ pieces[j].key # pieces[k].key
            /\ pieces[j].key.domain = pieces[k].key.domain
            /\ pieces[j].tunnelID # pieces[k].tunnelID
            /\ \A i \in covering: Len(pieces[i].key.domain) <= Len(pieces[k].key.domain)

(* A restart in the same environment makes the very resolver it made before
   (tunnel.go:70, "tie-break lexically for deterministic ordering"), unless
   some domain has two spellings; and then it moves no hostname to another
   tunnel but those such a domain decides. *)
RestartAgrees ==
    status = "serving" /\ earlier # NoResolver =>
        /\ TwoSpellings \/ process.resolver = earlier
        /\ \A h \in Hostname: SpeltTwice(h) \/ resolve(process.resolver, h) = resolve(earlier, h)

(* Whatever the key holds, Apply makes its rewrites those asked for and
   keeps the others; a second Apply of the same change writes nothing; and a
   write changes what CoreDNS answers (fragment.go:151 "idempotent", :175). *)
ApplyHolds ==
    settings.configMap = "named" =>
        \A add \in Rewrites, remove \in SUBSET Host:
            LET after == ApplyText(key, add, remove)
            IN  /\ \A h \in Host:
                      parseRewrites(after)[h] =
                          IF add[h] # NoRewrite THEN add[h]
                          ELSE IF h \in remove THEN NoRewrite ELSE parseRewrites(key)[h]
                /\ ApplyText(after, add, remove) = after
                /\ after # key => parseRewrites(after) # parseRewrites(key)
=============================================================================
