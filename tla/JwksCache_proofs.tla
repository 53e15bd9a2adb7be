--------------------------- MODULE JwksCache_proofs ---------------------------
(***************************************************************************)
(* Proofs about JwksCache, for every set of keys and requests and every    *)
(* ttlMs, minRefreshMs and Latency.                                        *)
(*                                                                         *)
(* The keys a request reads are a copy Access gave at some time.  What     *)
(* relates the copy to the keys of the moment is KeysInv: where the two    *)
(* differ on a key, the key changed after the copy was taken; a stored     *)
(* copy was at most Latency old when it was stored, and so is one that is  *)
(* under way.  A verdict that differs from the keys of the moment is then  *)
(* explained by a change no older than the copy, and the age the code      *)
(* checks bounds the age of the copy.                                      *)
(***************************************************************************)
EXTENDS JwksCache, TLAPS

(* The copy taken at t is the keys of the moment but for later changes. *)
CopyOf(keys, t) ==
    /\ t <= now
    /\ \A k \in Kid: (k \in keys) # (k \in published) => changed[k] >= t

CachedCopy ==
    cached # NoKeys =>
        CopyOf(cached, taken) /\ fetchedAt <= now /\ fetchedAt <= taken + Latency

AnswerCopy ==
    \A r \in Request:
        requests[r].pc = "answered" =>
            CopyOf(requests[r].keys, requests[r].taken) /\ now <= requests[r].taken + Latency

KeysInv == TypeOK /\ CachedCopy /\ AnswerCopy

-----------------------------------------------------------------------------
LEMMA InitKeys == Init => KeysInv
<1> SUFFICES ASSUME Init PROVE KeysInv
    OBVIOUS
<1> USE TimesAreNat, KeysAreKids
<1>1. PICK k0 \in Kid: requests = [r \in Request |-> Idle(k0)]
    BY DEF Init
<1>2. TypeOK
    BY <1>1 DEF Init, TypeOK, Idle, RequestState, Pc
<1>3. \A r \in Request: requests[r].pc = "idle"
    BY <1>1 DEF Idle
<1>4. QED
    BY <1>2, <1>3 DEF Init, KeysInv, CachedCopy, AnswerCopy

(* A look-up leaves the request with the shape of a request, and never with
   an answer under way. *)
LEMMA LookUpShape ==
    ASSUME TypeOK, NEW r \in Request, NEW keys, NEW kept \in BOOLEAN, LookUp(r, keys, kept)
    PROVE  /\ requests' \in [Request -> RequestState]
           /\ requests'[r].pc \in {"accepted", "refused", "look"}
           /\ requests'[r].kept = kept
           /\ requests'[r].pc = "accepted" => requests[r].kid \in keys
           /\ requests'[r].pc = "refused" => requests[r].forced /\ requests[r].kid \notin keys
           /\ \A q \in Request \ {r}: requests'[q] = requests[q]
<1> DEFINE pc == IF requests[r].kid \in keys THEN "accepted"
                 ELSE IF requests[r].forced THEN "refused" ELSE "look"
           new == [Idle(requests[r].kid) EXCEPT !.pc = pc, !.kept = kept, !.forced = pc # "accepted"]
<1>1. pc \in {"accepted", "refused", "look"}
    OBVIOUS
<1>2. requests[r].kid \in Kid
    BY DEF TypeOK, RequestState
<1>3. new \in RequestState /\ new.pc = pc /\ new.kept = kept
    BY <1>1, <1>2 DEF Idle, RequestState, Pc
<1>4. requests' = [requests EXCEPT ![r] = new]
    BY DEF LookUp
<1>5. /\ requests' \in [Request -> RequestState]
      /\ requests'[r] = new
      /\ \A q \in Request \ {r}: requests'[q] = requests[q]
    BY <1>3, <1>4 DEF TypeOK
<1>6. pc = "accepted" => requests[r].kid \in keys
    OBVIOUS
<1>7. pc = "refused" => requests[r].forced /\ requests[r].kid \notin keys
    OBVIOUS
<1>8. QED
    BY <1>1, <1>3, <1>5, <1>6, <1>7

(* A step of one request that touches neither Access nor the cache, and
   leaves that request with no answer under way. *)
LEMMA RequestStep ==
    ASSUME KeysInv, NEW r \in Request,
           requests' \in [Request -> RequestState],
           requests'[r].pc # "answered",
           \A q \in Request \ {r}: requests'[q] = requests[q],
           faults' \in Nat,
           UNCHANGED <<now, access, cache>>
    PROVE  KeysInv'
<1>1. TypeOK'
    BY DEF KeysInv, TypeOK, access, cache
<1>2. CachedCopy'
    BY DEF KeysInv, CachedCopy, CopyOf, access, cache
<1>3. AnswerCopy'
  <2> SUFFICES ASSUME NEW q \in Request, requests'[q].pc = "answered"
               PROVE  (CopyOf(requests[q].keys, requests[q].taken) /\ now <= requests[q].taken + Latency)'
      BY DEF AnswerCopy
  <2>1. requests'[q] = requests[q]
      OBVIOUS
  <2> QED
      BY <2>1 DEF KeysInv, AnswerCopy, CopyOf, access
<1> QED
    BY <1>1, <1>2, <1>3 DEF KeysInv

LEMMA NextKeys == KeysInv /\ [Next]_vars => KeysInv'
<1> SUFFICES ASSUME KeysInv, [Next]_vars PROVE KeysInv'
    OBVIOUS
<1> USE TimesAreNat, KeysAreKids
<1>0. TypeOK
    BY DEF KeysInv
<1>1. CASE Tick
  <2>1. now' = now + 1 /\ UNCHANGED <<access, cache, requests, faults>>
      BY <1>1 DEF Tick
  <2>2. TypeOK'
      BY <1>0, <2>1 DEF TypeOK, access, cache
  <2>3. now \in Nat /\ fetchedAt \in Nat /\ taken \in Nat /\ Latency \in Nat
      BY <1>0 DEF TypeOK
  <2>4. CachedCopy'
      BY <2>1, <2>3 DEF KeysInv, CachedCopy, CopyOf, access, cache
  <2>5. ASSUME NEW r \in Request, requests[r].pc = "answered"
        PROVE  requests[r].taken \in Nat /\ now - requests[r].taken < Latency
      BY <1>0, <1>1, <2>5 DEF Tick, TypeOK, RequestState
  <2>6. AnswerCopy'
      BY <2>1, <2>3, <2>5 DEF KeysInv, AnswerCopy, CopyOf, access
  <2> QED
      BY <2>2, <2>4, <2>6 DEF KeysInv
<1>2. ASSUME NEW k \in Kid, Rotate(k) PROVE KeysInv'
  <2>1. /\ published' = IF k \in published THEN published \ {k} ELSE published \cup {k}
        /\ changed' = [changed EXCEPT ![k] = now]
        /\ UNCHANGED <<now, cache, requests, faults>>
      BY <1>2 DEF Rotate
  <2>2. TypeOK'
      BY <1>0, <2>1 DEF TypeOK, cache
  <2>3. ASSUME NEW keys, NEW t \in Nat, CopyOf(keys, t)
        PROVE  /\ t <= now'
               /\ \A l \in Kid: (l \in keys) # (l \in published') => changed'[l] >= t
      BY <1>0, <2>1, <2>3 DEF CopyOf, TypeOK
  <2>4. CachedCopy'
      BY <1>0, <2>1, <2>3 DEF KeysInv, CachedCopy, CopyOf, cache, TypeOK
  <2>5. AnswerCopy'
    <3> SUFFICES ASSUME NEW r \in Request, requests'[r].pc = "answered"
                 PROVE  (CopyOf(requests[r].keys, requests[r].taken) /\ now <= requests[r].taken + Latency)'
        BY DEF AnswerCopy
    <3>1. requests' = requests /\ now' = now /\ requests[r].taken \in Nat
        BY <1>0, <2>1 DEF TypeOK, RequestState
    <3>2. CopyOf(requests[r].keys, requests[r].taken) /\ now <= requests[r].taken + Latency
        BY <3>1 DEF KeysInv, AnswerCopy
    <3> QED
        BY <2>3, <3>1, <3>2 DEF CopyOf
  <2> QED
      BY <2>2, <2>4, <2>5 DEF KeysInv
<1>3. ASSUME NEW r \in Request, NEW k \in Kid, Arrive(r, k) PROVE KeysInv'
  <2>1. [Idle(k) EXCEPT !.pc = "look"] \in RequestState
      BY DEF Idle, RequestState, Pc
  <2>2. /\ requests' = [requests EXCEPT ![r] = [Idle(k) EXCEPT !.pc = "look"]]
        /\ UNCHANGED <<now, access, cache, faults>>
      BY <1>3 DEF Arrive
  <2>3. /\ requests' \in [Request -> RequestState]
        /\ requests'[r].pc # "answered"
        /\ \A q \in Request \ {r}: requests'[q] = requests[q]
      BY <1>0, <2>1, <2>2 DEF TypeOK, Idle
  <2> QED
      BY <1>0, <2>2, <2>3, RequestStep DEF TypeOK
<1>4. ASSUME NEW r \in Request, ReadCache(r) PROVE KeysInv'
  <2>1. LookUp(r, cached, FALSE) /\ UNCHANGED <<now, access, cache, faults>>
      BY <1>4 DEF ReadCache
  <2> QED
      BY <1>0, <2>1, LookUpShape, RequestStep DEF TypeOK
<1>5. ASSUME NEW r \in Request, Ask(r) PROVE KeysInv'
  <2>1. /\ requests' = [requests EXCEPT ![r].pc = "asked"]
        /\ UNCHANGED <<now, access, cache, faults>>
      BY <1>5 DEF Ask
  <2>2. /\ requests' \in [Request -> RequestState]
        /\ requests'[r].pc # "answered"
        /\ \A q \in Request \ {r}: requests'[q] = requests[q]
      BY <1>0, <2>1 DEF TypeOK, RequestState, Pc
  <2> QED
      BY <1>0, <2>1, <2>2, RequestStep DEF TypeOK
<1>6. ASSUME NEW r \in Request, Answer(r) PROVE KeysInv'
  <2>1. /\ requests' = [requests EXCEPT ![r].pc = "answered", ![r].keys = published,
                                        ![r].taken = now]
        /\ UNCHANGED <<now, access, cache, faults>>
      BY <1>6 DEF Answer
  <2>2. TypeOK'
    <3> DEFINE new == [requests[r] EXCEPT !.pc = "answered", !.keys = published, !.taken = now]
    <3>1. new \in RequestState
        BY <1>0 DEF TypeOK, RequestState, Pc
    <3>2. requests' = [requests EXCEPT ![r] = new]
        BY <1>0, <2>1 DEF TypeOK, RequestState
    <3>3. requests' \in [Request -> RequestState]
        BY <1>0, <3>1, <3>2 DEF TypeOK
    <3> QED
        BY <1>0, <2>1, <3>3 DEF TypeOK, access, cache
  <2>3. CachedCopy'
      BY <2>1 DEF KeysInv, CachedCopy, CopyOf, access, cache
  <2>4. now \in Nat /\ Latency \in Nat
      BY <1>0 DEF TypeOK
  <2>5. /\ requests'[r].keys = published /\ requests'[r].taken = now
        /\ \A q \in Request \ {r}: requests'[q] = requests[q]
      BY <1>0, <2>1 DEF TypeOK, RequestState
  <2>6. AnswerCopy'
    <3> SUFFICES ASSUME NEW q \in Request, requests'[q].pc = "answered"
                 PROVE  (CopyOf(requests[q].keys, requests[q].taken) /\ now <= requests[q].taken + Latency)'
        BY DEF AnswerCopy
    <3>1. CASE q = r
      <4>1. now' = now /\ published' = published
          BY <2>1 DEF access
      <4> QED
          BY <2>4, <2>5, <3>1, <4>1 DEF CopyOf
    <3>2. CASE q # r
        BY <2>1, <2>5, <3>2 DEF KeysInv, AnswerCopy, CopyOf, access
    <3> QED
        BY <3>1, <3>2
  <2> QED
      BY <2>2, <2>3, <2>6 DEF KeysInv
<1>7. ASSUME NEW r \in Request, Store(r) PROVE KeysInv'
  <2>1. /\ requests[r].pc = "answered"
        /\ cached' = requests[r].keys /\ fetchedAt' = now /\ taken' = requests[r].taken
        /\ LookUp(r, requests[r].keys, FALSE)
        /\ UNCHANGED <<now, access, faults>>
      BY <1>7 DEF Store
  <2>2. /\ requests' \in [Request -> RequestState]
        /\ requests'[r].pc # "answered"
        /\ \A q \in Request \ {r}: requests'[q] = requests[q]
      BY <1>0, <2>1, LookUpShape
  <2>3. requests[r].keys \in SUBSET Kid /\ requests[r].taken \in Nat
      BY <1>0 DEF TypeOK, RequestState
  <2>4. TypeOK'
      BY <1>0, <2>1, <2>2, <2>3 DEF TypeOK, access
  <2>5. CachedCopy'
      BY <1>0, <2>1, <2>3 DEF KeysInv, AnswerCopy, CachedCopy, CopyOf, access, TypeOK
  <2>6. AnswerCopy'
    <3> SUFFICES ASSUME NEW q \in Request, requests'[q].pc = "answered"
                 PROVE  (CopyOf(requests[q].keys, requests[q].taken) /\ now <= requests[q].taken + Latency)'
        BY DEF AnswerCopy
    <3>1. requests'[q] = requests[q]
        BY <2>2
    <3> QED
        BY <2>1, <3>1 DEF KeysInv, AnswerCopy, CopyOf, access
  <2> QED
      BY <2>4, <2>5, <2>6 DEF KeysInv
<1>8. ASSUME NEW r \in Request, FetchRefused(r) PROVE KeysInv'
  <2>1. faults' = faults + 1 /\ UNCHANGED <<now, access, cache>>
      BY <1>8 DEF FetchRefused, KeepOld, cache
  <2>2. CASE requests' = [requests EXCEPT ![r].pc = "failed"]
    <3>1. /\ requests' \in [Request -> RequestState]
          /\ requests'[r].pc # "answered"
          /\ \A q \in Request \ {r}: requests'[q] = requests[q]
        BY <1>0, <2>2 DEF TypeOK, RequestState, Pc
    <3> QED
        BY <1>0, <2>1, <3>1, RequestStep DEF TypeOK
  <2>3. CASE LookUp(r, cached, TRUE)
    <3>1. /\ requests' \in [Request -> RequestState]
          /\ requests'[r].pc # "answered"
          /\ \A q \in Request \ {r}: requests'[q] = requests[q]
        BY <1>0, <2>3, LookUpShape
    <3> QED
        BY <1>0, <2>1, <3>1, RequestStep DEF TypeOK
  <2> QED
      BY <1>8, <2>2, <2>3 DEF FetchRefused
<1>9. ASSUME NEW r \in Request, FetchThrows(r) PROVE KeysInv'
  <2>1. /\ requests' = [requests EXCEPT ![r] = [Idle(requests[r].kid) EXCEPT !.pc = "failed"]]
        /\ faults' = faults + 1 /\ UNCHANGED <<now, access, cache>>
      BY <1>9 DEF FetchThrows
  <2>2. [Idle(requests[r].kid) EXCEPT !.pc = "failed"] \in RequestState
      BY <1>0 DEF TypeOK, Idle, RequestState, Pc
  <2>3. /\ requests' \in [Request -> RequestState]
        /\ requests'[r].pc # "answered"
        /\ \A q \in Request \ {r}: requests'[q] = requests[q]
      BY <1>0, <2>1, <2>2 DEF TypeOK, Idle
  <2> QED
      BY <1>0, <2>1, <2>3, RequestStep DEF TypeOK
<1>10. CASE UNCHANGED vars
    BY <1>10 DEF KeysInv, TypeOK, CachedCopy, AnswerCopy, CopyOf, vars
<1> QED
    BY <1>1, <1>2, <1>3, <1>4, <1>5, <1>6, <1>7, <1>8, <1>9, <1>10 DEF Next
-----------------------------------------------------------------------------
(* A verdict by a request that did not serve kept keys was made on a copy
   of the keys of the moment.  The copy is at most Latency old, or the age
   of the cache let it be read. *)
LEMMA VerdictCopy ==
    ASSUME KeysInv, [Next]_vars, NEW r \in Request, NEW v \in {"accepted", "refused"},
           Gets(r, v), ~requests'[r].kept
    PROVE  \E keys \in SUBSET Kid, t \in Nat:
              /\ CopyOf(keys, t)
              /\ v = "accepted" => requests[r].kid \in keys
              /\ v = "refused" => requests[r].kid \notin keys
              /\ t + ttlMs + Latency >= now
              /\ v = "refused" => t + minRefreshMs + Latency >= now
<1> USE TimesAreNat, KeysAreKids
<1>0. TypeOK /\ requests[r].pc # v /\ requests'[r].pc = v
    BY DEF KeysInv, Gets
<1>1. ASSUME ReadCache(r)
      PROVE  /\ cached # NoKeys /\ cached \in SUBSET Kid /\ CopyOf(cached, taken)
             /\ v = "accepted" => requests[r].kid \in cached
             /\ v = "refused" => requests[r].kid \notin cached
             /\ taken + ttlMs + Latency >= now
             /\ v = "refused" => taken + minRefreshMs + Latency >= now
  <2>1. ~Refresh(requests[r].forced) /\ LookUp(r, cached, FALSE)
      BY <1>1 DEF ReadCache
  <2>2. cached # NoKeys /\ ~(now - fetchedAt > ttlMs)
      BY <2>1 DEF Refresh
  <2>3. CopyOf(cached, taken) /\ fetchedAt <= taken + Latency
      BY <2>2 DEF KeysInv, CachedCopy
  <2>4. now \in Nat /\ fetchedAt \in Nat /\ taken \in Nat
      BY <1>0 DEF TypeOK
  <2>5. v = "refused" => requests[r].forced /\ requests[r].kid \notin cached
      BY <1>0, <2>1, LookUpShape
  <2>6. v = "accepted" => requests[r].kid \in cached
      BY <1>0, <2>1, LookUpShape
  <2>7. v = "refused" => ~(now - fetchedAt > minRefreshMs)
      BY <2>1, <2>5 DEF Refresh
  <2>8. cached \in SUBSET Kid
      BY <1>0, <2>2 DEF TypeOK
  <2>9. ttlMs \in Nat /\ minRefreshMs \in Nat /\ Latency \in Nat
      OBVIOUS
  <2>10. taken + ttlMs + Latency >= now
      BY <2>2, <2>3, <2>4, <2>9
  <2>11. v = "refused" => taken + minRefreshMs + Latency >= now
      BY <2>3, <2>4, <2>7, <2>9
  <2> QED
      BY <2>2, <2>3, <2>5, <2>6, <2>8, <2>10, <2>11
<1>2. ASSUME Store(r)
      PROVE  /\ requests[r].keys \in SUBSET Kid /\ requests[r].taken \in Nat
             /\ CopyOf(requests[r].keys, requests[r].taken)
             /\ v = "accepted" => requests[r].kid \in requests[r].keys
             /\ v = "refused" => requests[r].kid \notin requests[r].keys
             /\ now <= requests[r].taken + Latency
  <2>1. requests[r].pc = "answered" /\ LookUp(r, requests[r].keys, FALSE)
      BY <1>2 DEF Store
  <2>2. CopyOf(requests[r].keys, requests[r].taken) /\ now <= requests[r].taken + Latency
      BY <2>1 DEF KeysInv, AnswerCopy
  <2>3. requests[r].keys \in SUBSET Kid /\ requests[r].taken \in Nat
      BY <1>0 DEF TypeOK, RequestState
  <2> QED
      BY <1>0, <2>1, <2>2, <2>3, LookUpShape
<1>3. ReadCache(r) \/ Store(r)
  <2>1. ~UNCHANGED requests
      BY <1>0
  <2>2. ASSUME NEW q \in Request, q # r,
               \/ \E k \in Kid: Arrive(q, k)
               \/ ReadCache(q) \/ Ask(q) \/ Answer(q) \/ Store(q) \/ FetchRefused(q) \/ FetchThrows(q)
        PROVE  requests'[r] = requests[r]
    <3>1. CASE \E k \in Kid: Arrive(q, k)
        BY <1>0, <2>2, <3>1 DEF Arrive, TypeOK
    <3>2. CASE ReadCache(q)
        BY <1>0, <2>2, <3>2, LookUpShape DEF ReadCache
    <3>3. CASE Ask(q) \/ Answer(q) \/ FetchThrows(q)
        BY <1>0, <2>2, <3>3 DEF Ask, Answer, FetchThrows, TypeOK
    <3>4. CASE Store(q)
        BY <1>0, <2>2, <3>4, LookUpShape DEF Store
    <3>5. CASE FetchRefused(q)
        BY <1>0, <2>2, <3>5, LookUpShape DEF FetchRefused, TypeOK
    <3> QED
        BY <2>2, <3>1, <3>2, <3>3, <3>4, <3>5
  <2>3. ~\E k \in Kid: Arrive(r, k)
      BY <1>0 DEF Arrive, TypeOK, Idle
  <2>4. ~(Ask(r) \/ Answer(r) \/ FetchThrows(r))
      BY <1>0 DEF Ask, Answer, FetchThrows, TypeOK, RequestState, Idle
  <2>5. ~FetchRefused(r)
    <3>1. ~LookUp(r, cached, TRUE)
        BY <1>0, LookUpShape
    <3>2. requests' # [requests EXCEPT ![r].pc = "failed"]
        BY <1>0 DEF TypeOK, RequestState
    <3> QED
        BY <3>1, <3>2 DEF FetchRefused
  <2>6. ~Tick /\ ~(\E k \in Kid: Rotate(k)) /\ ~UNCHANGED vars
      BY <2>1 DEF Tick, Rotate, vars
  <2> QED
      BY <1>0, <2>2, <2>3, <2>4, <2>5, <2>6 DEF Next
<1>4. CASE ReadCache(r)
  <2>1. taken \in Nat
      BY <1>0 DEF TypeOK
  <2> QED
      BY <1>1, <1>4, <2>1
<1>5. CASE Store(r)
  <2>1. now \in Nat
      BY <1>0 DEF TypeOK
  <2>2. /\ requests[r].taken + ttlMs + Latency >= now
        /\ requests[r].taken + minRefreshMs + Latency >= now
      BY <1>2, <1>5, <2>1
  <2> QED
      BY <1>2, <1>5, <2>2
<1> QED
    BY <1>3, <1>4, <1>5

(* Every variable keeps its shape, for every number of keys and requests. *)
THEOREM JwksTypeCorrect == Spec => []TypeOK
<1>1. KeysInv => TypeOK
    BY DEF KeysInv
<1> QED
    BY InitKeys, NextKeys, <1>1, PTL DEF Spec

(* A published key is refused only while it is new (access.ts:135): for
   every number of requests in flight and every order of their answers. *)
THEOREM NewKeysAccepted == Spec => NewKeyAccepted
<1>1. ASSUME KeysInv, [Next]_vars, NEW r \in Request,
             Gets(r, "refused"), ~requests'[r].kept, requests[r].kid \in published
      PROVE  changed[requests[r].kid] + minRefreshMs + Latency >= now
  <2>1. PICK keys \in SUBSET Kid, t \in Nat:
            /\ CopyOf(keys, t) /\ requests[r].kid \notin keys
            /\ t + minRefreshMs + Latency >= now
      BY <1>1, VerdictCopy
  <2>2. requests[r].kid \in Kid /\ changed \in [Kid -> Nat] /\ now \in Nat
      BY <1>1 DEF KeysInv, TypeOK, RequestState
  <2>3. changed[requests[r].kid] >= t
      BY <1>1, <2>1, <2>2 DEF CopyOf
  <2> QED
      BY <2>1, <2>2, <2>3, TimesAreNat
<1>2. KeysInv /\ [Next]_vars =>
         [\A r \in Request:
             Gets(r, "refused") /\ ~requests'[r].kept =>
                \/ requests[r].kid \notin published
                \/ changed[requests[r].kid] + minRefreshMs + Latency >= now]_vars
    BY <1>1
<1> QED
    BY InitKeys, NextKeys, <1>2, PTL DEF Spec, NewKeyAccepted

(* A withdrawn key is accepted only for ttlMs and one answer's delay
   (access.ts:134), whatever older answers overwrite newer ones. *)
THEOREM WithdrawnKeysRefused == Spec => WithdrawnKeyRefused
<1>1. ASSUME KeysInv, [Next]_vars, NEW r \in Request,
             Gets(r, "accepted"), ~requests'[r].kept, requests[r].kid \notin published
      PROVE  changed[requests[r].kid] + ttlMs + Latency >= now
  <2>1. PICK keys \in SUBSET Kid, t \in Nat:
            /\ CopyOf(keys, t) /\ requests[r].kid \in keys
            /\ t + ttlMs + Latency >= now
      BY <1>1, VerdictCopy
  <2>2. requests[r].kid \in Kid /\ changed \in [Kid -> Nat] /\ now \in Nat
      BY <1>1 DEF KeysInv, TypeOK, RequestState
  <2>3. changed[requests[r].kid] >= t
      BY <1>1, <2>1, <2>2 DEF CopyOf
  <2> QED
      BY <2>1, <2>2, <2>3, TimesAreNat
<1>2. KeysInv /\ [Next]_vars =>
         [\A r \in Request:
             Gets(r, "accepted") /\ ~requests'[r].kept =>
                \/ requests[r].kid \in published
                \/ changed[requests[r].kid] + ttlMs + Latency >= now]_vars
    BY <1>1
<1> QED
    BY InitKeys, NextKeys, <1>2, PTL DEF Spec, WithdrawnKeyRefused
=============================================================================
