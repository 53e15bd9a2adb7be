------------------------------ MODULE JwksCache ------------------------------
(***************************************************************************)
(* The Access signing keys one isolate of the route broker caches          *)
(* (broker/src/access.ts): cachedJwks, and the two look-ups of             *)
(* verifyAccessJwt around it.  Requests are concurrent: each await of a    *)
(* fetch lets the others run, nothing shares a fetch in flight, and        *)
(* answers complete in any order.                                          *)
(*                                                                         *)
(* Access, and the clock, are external.  Access publishes and withdraws    *)
(* keys as it likes.  A token is its key id: a token that is forged,       *)
(* expired or for another audience is refused whatever the cache holds     *)
(* and changes nothing, so only tokens the other checks let through are    *)
(* requests here.                                                          *)
(***************************************************************************)
EXTENDS Integers

CONSTANTS
    Kid,            \* key ids
    Request,        \* slots for requests in flight
    NoKeys,         \* cached === undefined
    ttlMs,          \* age at which the cache is stale
    minRefreshMs,   \* age below which a forced refresh is not honoured
    Latency,        \* longest time an answer of Access is under way
    InitialKeys,    \* the keys Access publishes at first
    MaxTime,        \* bound: the clock stops here
    MaxFaults       \* bound: fetches that fail

ASSUME TimesAreNat == {ttlMs, minRefreshMs, Latency, MaxTime, MaxFaults} \subseteq Nat
ASSUME KeysAreKids == InitialKeys \subseteq Kid /\ NoKeys \notin SUBSET Kid

VARIABLES
    now,        \* the clock
    published,  \* the keys Access publishes
    changed,    \* when each key was last published or withdrawn
    cached,     \* the keys the isolate caches, or NoKeys
    fetchedAt,  \* when they were stored
    taken,      \* when Access gave them: history, read by no action
    requests,   \* the requests
    faults      \* fetches that failed

vars == <<now, published, changed, cached, fetchedAt, taken, requests, faults>>

access == <<published, changed>>
cache  == <<cached, fetchedAt, taken>>

(* look: about to ask the provider for the keys.  asked: the provider's fetch
   has not reached Access.  answered: its answer is under way. *)
Pc == {"idle", "look", "asked", "answered", "accepted", "refused", "failed"}

RequestState ==
    [pc:     Pc,
     kid:    Kid,
     forced: BOOLEAN,       \* forceRefresh of the look-up in progress
     keys:   SUBSET Kid,    \* the body of the answer
     taken:  Nat,           \* when Access gave it
     kept:   BOOLEAN]       \* the fetch was refused and the old keys served

Idle(k) == [pc |-> "idle", kid |-> k, forced |-> FALSE, keys |-> {}, taken |-> 0, kept |-> FALSE]

(* Every variable keeps its shape: in particular the keys a request reads
   are never the missing cache (access.ts:136, the check before the return). *)
TypeOK ==
    /\ now \in Nat /\ fetchedAt \in Nat /\ taken \in Nat /\ faults \in Nat
    /\ published \subseteq Kid
    /\ changed \in [Kid -> Nat]
    /\ cached \in (SUBSET Kid) \cup {NoKeys}
    /\ requests \in [Request -> RequestState]

Init ==
    /\ now = 0 /\ fetchedAt = 0 /\ taken = 0 /\ faults = 0
    /\ published = InitialKeys
    /\ changed = [k \in Kid |-> 0]
    /\ cached = NoKeys
    /\ \E k \in Kid: requests = [r \in Request |-> Idle(k)]
-----------------------------------------------------------------------------
(* Mutations of Refresh: a forced refresh is not looked at; the cache never
   goes stale. *)
Refresh_Unforced(forced) == cached = NoKeys \/ now - fetchedAt > ttlMs
Refresh_NeverStale(forced) == cached = NoKeys \/ (forced /\ now - fetchedAt > minRefreshMs)

(* Whether a look-up fetches the keys. *)
Refresh(forced) ==
    \/ cached = NoKeys
    \/ now - fetchedAt > ttlMs
    \/ forced /\ now - fetchedAt > minRefreshMs

(* verifyAccessJwt looks the key up in what the provider returned: not
   found, it asks once more, and forces that. *)
LookUp(r, keys, kept) ==
    LET pc == IF requests[r].kid \in keys THEN "accepted"
              ELSE IF requests[r].forced THEN "refused" ELSE "look"
    IN  requests' = [requests EXCEPT ![r] = [Idle(requests[r].kid) EXCEPT !.pc = pc,
                                                 !.kept = kept, !.forced = pc # "accepted"]]

(* A request arrives in a free slot. *)
Arrive(r, k) ==
    /\ requests[r].pc \in {"idle", "accepted", "refused", "failed"}
    /\ requests' = [requests EXCEPT ![r] = [Idle(k) EXCEPT !.pc = "look"]]
    /\ UNCHANGED <<now, access, cache, faults>>

(* The provider returns the cache. *)
ReadCache(r) ==
    /\ requests[r].pc = "look"
    /\ ~Refresh(requests[r].forced)
    /\ LookUp(r, cached, FALSE)
    /\ UNCHANGED <<now, access, cache, faults>>

(* The provider fetches. *)
Ask(r) ==
    /\ requests[r].pc = "look"
    /\ Refresh(requests[r].forced)
    /\ requests' = [requests EXCEPT ![r].pc = "asked"]
    /\ UNCHANGED <<now, access, cache, faults>>

(* Access answers with the keys of the moment. *)
Answer(r) ==
    /\ requests[r].pc = "asked"
    /\ requests' = [requests EXCEPT ![r].pc = "answered", ![r].keys = published,
                                    ![r].taken = now]
    /\ UNCHANGED <<now, access, cache, faults>>

(* The answer arrives and is stored, over whatever was stored meanwhile. *)
Store(r) ==
    /\ requests[r].pc = "answered"
    /\ cached' = requests[r].keys
    /\ fetchedAt' = now
    /\ taken' = requests[r].taken
    /\ LookUp(r, requests[r].keys, FALSE)
    /\ UNCHANGED <<now, access, faults>>

(* Mutation of KeepOld: a refused fetch counts as a fetch. *)
KeepOld_Fetched(r) ==
    /\ fetchedAt' = now
    /\ UNCHANGED <<cached, taken>>

(* !res.ok with a cache: nothing is stored. *)
KeepOld(r) == UNCHANGED cache

(* Access answers with an error status.  The last good keys are served, the
   ones another request has stored meanwhile included. *)
FetchRefused(r) ==
    /\ faults < MaxFaults
    /\ requests[r].pc = "asked"
    /\ IF cached = NoKeys THEN requests' = [requests EXCEPT ![r].pc = "failed"]
       ELSE LookUp(r, cached, TRUE)
    /\ KeepOld(r)
    /\ faults' = faults + 1
    /\ UNCHANGED <<now, access>>

(* The fetch or its body throws: the request fails, with keys in the cache
   or without. *)
FetchThrows(r) ==
    /\ faults < MaxFaults
    /\ requests[r].pc \in {"asked", "answered"}
    /\ requests' = [requests EXCEPT ![r] = [Idle(requests[r].kid) EXCEPT !.pc = "failed"]]
    /\ faults' = faults + 1
    /\ UNCHANGED <<now, access, cache>>
-----------------------------------------------------------------------------
(* Access publishes or withdraws a key. *)
Rotate(k) ==
    /\ published' = IF k \in published THEN published \ {k} ELSE published \cup {k}
    /\ changed' = [changed EXCEPT ![k] = now]
    /\ UNCHANGED <<now, cache, requests, faults>>

(* Time passes while every request waits for the network, and no answer is
   under way for longer than Latency. *)
Tick ==
    /\ now < MaxTime
    /\ \A r \in Request:
          /\ requests[r].pc # "look"
          /\ requests[r].pc = "answered" => now - requests[r].taken < Latency
    /\ now' = now + 1
    /\ UNCHANGED <<access, cache, requests, faults>>

Next ==
    \/ Tick
    \/ \E k \in Kid: Rotate(k)
    \/ \E r \in Request:
          \/ \E k \in Kid: Arrive(r, k)
          \/ ReadCache(r) \/ Ask(r) \/ Answer(r) \/ Store(r)
          \/ FetchRefused(r) \/ FetchThrows(r)

Spec == Init /\ [][Next]_vars
-----------------------------------------------------------------------------
(* The request ends in the verdict by this step. *)
Gets(r, verdict) == requests[r].pc # verdict /\ requests'[r].pc = verdict

(* A token whose key Access publishes is refused only while the key is new:
   the once-a-minute limit of forced refreshes, and an older answer that
   overwrites a newer one, cost it minRefreshMs and one answer's delay, no
   more, unless Access itself refused the fetch (access.ts:135). *)
NewKeyAccepted ==
    [][\A r \in Request:
          Gets(r, "refused") /\ ~requests'[r].kept =>
             \/ requests[r].kid \notin published
             \/ changed[requests[r].kid] + minRefreshMs + Latency >= now]_vars

(* A token whose key was withdrawn is accepted only for ttlMs and one
   answer's delay, whatever the order the answers are stored in, unless
   Access refused the fetch and the last good keys are served (access.ts:134). *)
WithdrawnKeyRefused ==
    [][\A r \in Request:
          Gets(r, "accepted") /\ ~requests'[r].kept =>
             \/ requests[r].kid \in published
             \/ changed[requests[r].kid] + ttlMs + Latency >= now]_vars
=============================================================================
