--------------------------- MODULE Webhook_proofs ----------------------------
(***************************************************************************)
(* What a serving webhook's resolver is, that a restart makes the same     *)
(* resolver, and what Apply does to a ConfigMap key: for every             *)
(* environment, whatever the length of TUNNEL_MAP, TUNNEL_DRAIN and the    *)
(* key.                                                                    *)
(*                                                                         *)
(* The process of a pod is always one that main makes of the pod's         *)
(* settings (StartedInv), so each property is a fact about main.  The work *)
(* is in counting.  Picked numbers the places it is given, and a numbering *)
(* of a finite set that is one-to-one misses no number (FS_Injection); an  *)
(* entry of a sorted sequence is at the place its predecessors number, so  *)
(* the sorted order is one only (Sorted), and so are the lines of a key    *)
(* that is rendered (ParseRender).                                         *)
(***************************************************************************)
EXTENDS Webhook, FiniteSetTheorems, TLAPS

-----------------------------------------------------------------------------
(* Numbers *)

(* A set of numbers that is not empty has a least one. *)
LEMMA LeastNumber ==
    ASSUME NEW S \in SUBSET Nat, S # {}
    PROVE  \E m \in S: \A k \in S: m <= k
<1>1. PICK m \in S: \A k \in S: ~(<<k, m>> \in OpToRel(<, Nat))
  BY WFMin, NatLessThanWellFounded, Zenon
<1>2. \A k \in S: ~(k < m)
  BY <1>1 DEF OpToRel
<1> QED
  BY <1>2

(* A set of numbers up to n that is not empty has a greatest one. *)
LEMMA GreatestNumber ==
    ASSUME NEW n \in Nat, NEW S \in SUBSET (1..n), S # {}
    PROVE  \E m \in S: \A k \in S: k <= m
<1> DEFINE T == {n - k : k \in S}
<1>1. T \in SUBSET Nat /\ T # {}
  <2>1. \A k \in S: n - k \in Nat
    OBVIOUS
  <2>2. T \in SUBSET Nat
    BY <2>1
  <2>3. PICK k \in S: TRUE
    OBVIOUS
  <2>4. n - k \in T
    OBVIOUS
  <2> QED
    BY <2>2, <2>4
<1>2. PICK x \in T: \A y \in T: x <= y
  BY <1>1, LeastNumber
<1>3. PICK m \in S: x = n - m
  OBVIOUS
<1>4. ASSUME NEW k \in S PROVE k <= m
  <2>1. n - m <= n - k
    BY <1>2, <1>3
  <2> QED
    BY <2>1
<1> QED
  BY <1>4

(* The number of each element of P, when R ranks them. *)
Numbers(P, R) == [k \in P |-> Cardinality({j \in P: R[j] <= R[k]})]

(* Ranks that differ number the elements of a finite set, and miss no number. *)
LEMMA Numbering ==
    ASSUME NEW P, NEW R \in [P -> Nat], IsFiniteSet(P), \A j, k \in P: R[j] = R[k] => j = k
    PROVE  Numbers(P, R) \in Bijection(P, 1..Cardinality(P))
<1> DEFINE UpTo(k) == {j \in P: R[j] <= R[k]}
           number == Numbers(P, R)
<1>0. number = [k \in P |-> Cardinality(UpTo(k))]
  BY DEF Numbers
<1>1. Cardinality(P) \in Nat
  BY FS_CardinalityType
<1>2. \A k \in P: IsFiniteSet(UpTo(k)) /\ Cardinality(UpTo(k)) \in 1..Cardinality(P)
  <2> TAKE k \in P
  <2>1. IsFiniteSet(UpTo(k)) /\ Cardinality(UpTo(k)) <= Cardinality(P)
    BY <1>1, FS_Subset
  <2>2. k \in UpTo(k)
    OBVIOUS
  <2>3. Cardinality(UpTo(k)) # 0
    BY <2>1, <2>2, FS_EmptySet
  <2> QED
    BY <2>1, <2>3, <1>1, FS_CardinalityType
<1>3. \A j, k \in P: R[j] < R[k] => Cardinality(UpTo(j)) # Cardinality(UpTo(k))
  <2> SUFFICES ASSUME NEW j \in P, NEW k \in P, R[j] < R[k],
                      Cardinality(UpTo(j)) = Cardinality(UpTo(k))
               PROVE  FALSE
    OBVIOUS
  <2>1. UpTo(j) \in SUBSET UpTo(k)
    <3> SUFFICES ASSUME NEW i \in P, R[i] <= R[j] PROVE R[i] <= R[k]
      OBVIOUS
    <3> QED
      OBVIOUS
  <2>2. UpTo(k) = UpTo(j)
    BY <2>1, <1>2, FS_Subset
  <2>3. k \in UpTo(j)
    BY <2>2
  <2> QED
    BY <2>3
<1> HIDE DEF number
<1>4. \A j, k \in P: number[j] = number[k] => j = k
  <2> SUFFICES ASSUME NEW j \in P, NEW k \in P, number[j] = number[k] PROVE R[j] = R[k]
    OBVIOUS
  <2>1. Cardinality(UpTo(j)) = Cardinality(UpTo(k))
    BY <1>0
  <2>2. ~(R[j] < R[k]) /\ ~(R[k] < R[j]) /\ R[j] \in Nat /\ R[k] \in Nat
    BY <1>3, <2>1
  <2> QED
    BY <2>2
<1>5. number \in [P -> 1..Cardinality(P)]
  BY <1>0, <1>2
<1>6. number \in Injection(P, 1..Cardinality(P))
  BY <1>4, <1>5 DEF Injection, IsInjective
<1>7. IsFiniteSet(1..Cardinality(P)) /\ Cardinality(1..Cardinality(P)) = Cardinality(P)
  BY <1>1, FS_Interval
<1>8. number \in Surjection(P, 1..Cardinality(P))
  BY <1>6, <1>7, FS_Injection
<1> QED
  BY <1>6, <1>8 DEF Bijection, number

(* What Picked picks: the elements at the places, each place once. *)
LEMMA PickedPlaces ==
    ASSUME NEW s, NEW n \in Nat, NEW P \in SUBSET (1..n)
    PROVE  /\ Cardinality(P) \in Nat
           /\ \A m \in 1..Cardinality(P): \E k \in P: Picked(s, P)[m] = s[k]
           /\ \A k \in P: \E m \in 1..Cardinality(P): Picked(s, P)[m] = s[k]
           /\ (\A j, k \in P: s[j] = s[k] => j = k) =>
                \A l, m \in 1..Cardinality(P): Picked(s, P)[l] = Picked(s, P)[m] => l = m
           /\ P # {} => Cardinality(P) # 0
<1> DEFINE number(k) == Cardinality({j \in P: j <= k})
           nth(m) == CHOOSE k \in P: number(k) = m
<1>1. IsFiniteSet(P) /\ Cardinality(P) \in Nat
  <2>1. IsFiniteSet(1..n)
    BY FS_Interval
  <2> QED
    BY <2>1, FS_Subset, FS_CardinalityType
<1>2. PICK R \in [P -> Nat]: \A k \in P: R[k] = k
  <2> DEFINE id == [k \in P |-> k]
  <2>1. id \in [P -> Nat] /\ \A k \in P: id[k] = k
    OBVIOUS
  <2> QED
    BY <2>1
<1>3. \A k \in P: {j \in P: R[j] <= R[k]} = {j \in P: j <= k}
  BY <1>2
<1>4. /\ Numbers(P, R) \in [P -> 1..Cardinality(P)]
      /\ \A j, k \in P: Numbers(P, R)[j] = Numbers(P, R)[k] => j = k
      /\ \A m \in 1..Cardinality(P): \E k \in P: Numbers(P, R)[k] = m
  <2>1. \A j, k \in P: R[j] = R[k] => j = k
    BY <1>2
  <2>2. Numbers(P, R) \in Bijection(P, 1..Cardinality(P))
    BY <1>1, <2>1, Numbering, Zenon
  <2> QED
    BY <2>2 DEF Bijection, Injection, IsInjective, Surjection
<1>5. \A k \in P: number(k) = Numbers(P, R)[k]
  BY <1>3 DEF Numbers
<1>6. \A m \in 1..Cardinality(P): Picked(s, P)[m] = s[nth(m)]
  BY DEF Picked
<1> HIDE DEF number
<1>10. \A m \in 1..Cardinality(P): nth(m) \in P /\ number(nth(m)) = m
  <2> TAKE m \in 1..Cardinality(P)
  <2>1. \E k \in P: number(k) = m
    BY <1>4, <1>5
  <2> QED
    BY <2>1
<1>11. \A k \in P: number(k) \in 1..Cardinality(P) /\ nth(number(k)) = k
  BY <1>4, <1>5, <1>10
<1> HIDE DEF nth
<1>13. \A m \in 1..Cardinality(P): \E k \in P: Picked(s, P)[m] = s[k]
  BY <1>6, <1>10
<1>14. \A k \in P: \E m \in 1..Cardinality(P): Picked(s, P)[m] = s[k]
  BY <1>6, <1>11
<1>15. ASSUME \A j, k \in P: s[j] = s[k] => j = k,
              NEW l \in 1..Cardinality(P), NEW m \in 1..Cardinality(P),
              Picked(s, P)[l] = Picked(s, P)[m]
       PROVE  l = m
  <2>0. s[nth(l)] = s[nth(m)]
    BY <1>6, <1>15
  <2>1. nth(l) = nth(m)
    BY <1>10, <1>15, <2>0
  <2> QED
    BY <2>1, <1>10
<1>16. P # {} => Cardinality(P) # 0
  BY <1>1, FS_EmptySet
<1> QED
  BY <1>1, <1>13, <1>14, <1>15, <1>16

(* A list of ids without its blanks and repeats. *)
LEMMA FirstOccurrencesFacts ==
    ASSUME NEW s \in Seq(TunnelId \cup {NoTunnel})
    PROVE  /\ FirstOccurrences(s) \in Seq(TunnelId)
           /\ Elements(FirstOccurrences(s)) = Elements(s) \ {NoTunnel}
           /\ \A j, k \in DOMAIN FirstOccurrences(s):
                 FirstOccurrences(s)[j] = FirstOccurrences(s)[k] => j = k
<1> DEFINE P == {k \in 1..Len(s): s[k] # NoTunnel /\ \A j \in 1..(k - 1): s[j] # s[k]}
           f == FirstOccurrences(s)
<1>1. f = Picked(s, P)
  BY DEF FirstOccurrences
<1>2. P \in SUBSET (1..Len(s)) /\ Len(s) \in Nat /\ DOMAIN s = 1..Len(s)
  OBVIOUS
<1>3. DOMAIN f = 1..Cardinality(P)
  BY <1>1 DEF Picked
<1>4. \A k \in P: s[k] \in TunnelId
  BY <1>2
<1>5. \A j, k \in P: s[j] = s[k] => j = k
  <2> SUFFICES ASSUME NEW j \in P, NEW k \in P, j < k PROVE s[j] # s[k]
    BY <1>2
  <2> QED
    BY <1>2
<1>6. ASSUME NEW k \in 1..Len(s), s[k] # NoTunnel
      PROVE  \E j \in P: s[j] = s[k]
  <2> DEFINE S == {j \in 1..Len(s): s[j] = s[k]}
  <2>1. S \in SUBSET Nat /\ S # {}
    BY <1>2
  <2>2. PICK m \in S: \A j \in S: m <= j
    BY <2>1, LeastNumber, Zenon
  <2>3. \A j \in 1..(m - 1): j \in 1..Len(s) /\ ~(m <= j)
    BY <2>2, <1>2
  <2>4. m \in P
    BY <2>2, <2>3, <1>6
  <2> QED
    BY <2>4
<1> HIDE DEF P
<1>7. /\ Cardinality(P) \in Nat
      /\ \A m \in 1..Cardinality(P): \E k \in P: f[m] = s[k]
      /\ \A k \in P: \E m \in 1..Cardinality(P): f[m] = s[k]
      /\ \A l, m \in 1..Cardinality(P): f[l] = f[m] => l = m
  <2>1. /\ Cardinality(P) \in Nat
        /\ \A m \in 1..Cardinality(P): \E k \in P: Picked(s, P)[m] = s[k]
        /\ \A k \in P: \E m \in 1..Cardinality(P): Picked(s, P)[m] = s[k]
        /\ (\A j, k \in P: s[j] = s[k] => j = k) =>
             \A l, m \in 1..Cardinality(P): Picked(s, P)[l] = Picked(s, P)[m] => l = m
    BY <1>2, PickedPlaces, Zenon
  <2> QED
    BY <1>1, <1>5, <2>1
<1>8. f = [m \in 1..Cardinality(P) |-> f[m]]
  BY <1>1 DEF Picked
<1> HIDE DEF f
<1>9. f \in [1..Cardinality(P) -> TunnelId]
  BY <1>4, <1>7, <1>8
<1>10. f \in Seq(TunnelId)
  BY <1>7, <1>9
<1>11. \A k \in P: s[k] # NoTunnel /\ k \in DOMAIN s
  BY <1>2 DEF P
<1>12. Elements(f) = Elements(s) \ {NoTunnel}
  <2>1. \A x \in Elements(f): \E k \in P: x = s[k]
    BY <1>3, <1>7 DEF Elements
  <2>2. Elements(f) \subseteq Elements(s) \ {NoTunnel}
    BY <2>1, <1>11 DEF Elements
  <2>3. ASSUME NEW x \in Elements(s) \ {NoTunnel} PROVE x \in Elements(f)
    <3>1. PICK k \in 1..Len(s): s[k] = x
      BY <1>2, <2>3 DEF Elements
    <3>2. PICK j \in P: s[j] = x
      BY <1>6, <2>3, <3>1
    <3> QED
      BY <1>3, <1>7, <3>2 DEF Elements
  <2> QED
    BY <2>2, <2>3
<1> QED
  BY <1>3, <1>7, <1>10, <1>12 DEF f

(* TUNNEL_DRAIN as the start reads it. *)
LEMMA SplitFacts ==
    ASSUME NEW s \in Seq(TunnelId \cup {NoTunnel})
    PROVE  splitCSV(s) \in Seq(TunnelId) /\ Elements(splitCSV(s)) = Elements(s) \ {NoTunnel}
<1> DEFINE P == {k \in 1..Len(s): s[k] # NoTunnel}
           f == splitCSV(s)
<1>1. f = Picked(s, P)
  BY DEF splitCSV
<1>2. P \in SUBSET (1..Len(s)) /\ Len(s) \in Nat /\ DOMAIN s = 1..Len(s)
  OBVIOUS
<1>3. \A k \in P: s[k] \in TunnelId
  BY <1>2
<1>4. /\ Cardinality(P) \in Nat
      /\ \A m \in 1..Cardinality(P): \E k \in P: f[m] = s[k]
      /\ \A k \in P: \E m \in 1..Cardinality(P): f[m] = s[k]
  <2>1. /\ Cardinality(P) \in Nat
        /\ \A m \in 1..Cardinality(P): \E k \in P: Picked(s, P)[m] = s[k]
        /\ \A k \in P: \E m \in 1..Cardinality(P): Picked(s, P)[m] = s[k]
    BY <1>2, PickedPlaces, Zenon
  <2> QED
    BY <1>1, <2>1
<1>5. f = [m \in 1..Cardinality(P) |-> f[m]]
  BY <1>1 DEF Picked
<1>6. \A k: k \in P <=> k \in DOMAIN s /\ s[k] # NoTunnel
  BY <1>2
<1> HIDE DEF f, P
<1>7. f \in Seq(TunnelId)
  <2>1. ASSUME NEW m \in 1..Cardinality(P) PROVE f[m] \in TunnelId
    BY <1>3, <1>4, <2>1
  <2>2. f \in [1..Cardinality(P) -> TunnelId]
    BY <1>5, <2>1
  <2> QED
    BY <1>4, <2>2
<1>8. DOMAIN f = 1..Cardinality(P)
  BY <1>5
<1>9. Elements(f) = Elements(s) \ {NoTunnel}
  <2>1. \A x \in Elements(f): \E k \in P: x = s[k]
    BY <1>4, <1>8 DEF Elements
  <2>2. Elements(f) \subseteq Elements(s) \ {NoTunnel}
    BY <2>1, <1>6 DEF Elements
  <2>3. ASSUME NEW x \in Elements(s) \ {NoTunnel} PROVE x \in Elements(f)
    <3>1. PICK k \in P: s[k] = x
      BY <1>6, <2>3 DEF Elements
    <3> QED
      BY <1>4, <1>8, <3>1 DEF Elements
  <2> QED
    BY <2>2, <2>3
<1> QED
  BY <1>7, <1>9 DEF f

-----------------------------------------------------------------------------
(* Resolvers *)

(* What a resolver configures: each tunnel once, every target of a hostname,
   and at least one tunnel when it has a fallback or an entry. *)
LEMMA ConfiguredFacts ==
    ASSUME NEW q \in Resolver
    PROVE  /\ configured(q) \in Seq(TunnelId)
           /\ \A j, k \in DOMAIN configured(q): configured(q)[j] = configured(q)[k] => j = k
           /\ \A h: resolve(q, h) \in Elements(configured(q)) \cup {NoTunnel}
           /\ q.fallback # NoTunnel \/ q.entries # <<>> => configured(q) # <<>>
<1>1. CASE q.fallback # NoTunnel
  <2>1. configured(q) = <<q.fallback>> /\ q.fallback \in TunnelId
    BY <1>1 DEF configured, Resolver
  <2>2. \A h: resolve(q, h) = q.fallback
    BY <1>1 DEF resolve
  <2>3. q.fallback \in Elements(configured(q))
    BY <2>1 DEF Elements
  <2> QED
    BY <2>1, <2>2, <2>3
<1>2. CASE q.fallback = NoTunnel
  <2> DEFINE ids == [k \in 1..Len(q.entries) |-> q.entries[k].tunnelID]
  <2>1. q.entries \in Seq(Entry) /\ Len(q.entries) \in Nat /\ DOMAIN q.entries = 1..Len(q.entries)
    BY DEF Resolver
  <2>2. \A k \in 1..Len(q.entries): q.entries[k].tunnelID \in TunnelId
    <3>1. \A k \in 1..Len(q.entries): q.entries[k] \in Entry
      BY <2>1
    <3> QED
      BY <3>1 DEF Entry
  <2>3. ids \in Seq(TunnelId \cup {NoTunnel}) /\ DOMAIN ids = 1..Len(q.entries)
    BY <2>1, <2>2
  <2>4. configured(q) = FirstOccurrences(ids)
    BY <1>2 DEF configured
  <2>5. /\ configured(q) \in Seq(TunnelId)
        /\ Elements(configured(q)) = Elements(ids) \ {NoTunnel}
        /\ \A j, k \in DOMAIN configured(q): configured(q)[j] = configured(q)[k] => j = k
    BY <2>3, <2>4, FirstOccurrencesFacts, Zenon
  <2>6. \A k \in 1..Len(q.entries): q.entries[k].tunnelID \in Elements(configured(q))
    <3> TAKE k \in 1..Len(q.entries)
    <3>1. ids[k] \in Elements(ids) /\ ids[k] = q.entries[k].tunnelID
      BY <2>3 DEF Elements
    <3> QED
      BY <2>2, <2>5, <3>1, TunnelAssumption
  <2>7. ASSUME NEW h PROVE resolve(q, h) \in Elements(configured(q)) \cup {NoTunnel}
    <3> DEFINE hits == {k \in 1..Len(q.entries): Covers(h, q.entries[k].domain)}
               first == CHOOSE k \in hits: \A j \in hits: k <= j
    <3>1. CASE hits = {}
      BY <1>2, <3>1 DEF resolve
    <3>2. CASE hits # {}
      <4>1. hits \in SUBSET Nat
        OBVIOUS
      <4>2. \E k \in hits: \A j \in hits: k <= j
        BY <3>2, <4>1, LeastNumber, Zenon
      <4>3. first \in hits
        BY <4>2, Zenon
      <4>4. resolve(q, h) = q.entries[first].tunnelID
        BY <1>2, <3>2 DEF resolve
      <4> HIDE DEF first
      <4> QED
        BY <2>6, <4>3, <4>4
    <3> QED
      BY <3>1, <3>2
  <2>8. q.entries # <<>> => configured(q) # <<>>
    <3> SUFFICES ASSUME q.entries # <<>> PROVE configured(q) # <<>>
      OBVIOUS
    <3>1. 1 \in 1..Len(q.entries)
      BY <2>1
    <3>2. \E x: x \in Elements(configured(q))
      BY <2>6, <3>1
    <3>3. DOMAIN configured(q) # {}
      BY <3>2 DEF Elements
    <3> QED
      BY <3>3, <2>5
  <2> QED
    BY <1>2, <2>5, <2>7, <2>8
<1> QED
  BY <1>1, <1>2

(* The parsed map gives each key it has a tunnel, and has finitely many. *)
LEMMA MapFacts ==
    ASSUME NEW pieces \in Seq(Piece)
    PROVE  /\ parseTunnelMap(pieces) \in [DOMAIN parseTunnelMap(pieces) -> TunnelId]
           /\ DOMAIN parseTunnelMap(pieces) \subseteq Key
           /\ IsFiniteSet(DOMAIN parseTunnelMap(pieces))
           /\ \A k \in Pairs(pieces): pieces[k].key \in DOMAIN parseTunnelMap(pieces)
           /\ \A d \in DOMAIN parseTunnelMap(pieces): \E k \in Pairs(pieces):
                 /\ pieces[k].key = d
                 /\ parseTunnelMap(pieces)[d] = pieces[k].tunnelID
                 /\ \A j \in Pairs(pieces): pieces[j].key = d => j <= k
<1> DEFINE keys == {pieces[k].key : k \in Pairs(pieces)}
           last(d) == CHOOSE k \in Pairs(pieces):
                         pieces[k].key = d /\ \A j \in Pairs(pieces): pieces[j].key = d => j <= k
           m == parseTunnelMap(pieces)
           n == Len(pieces)
<1>1. n \in Nat /\ Pairs(pieces) \in SUBSET (1..n) /\ \A k \in 1..n: pieces[k] \in Piece
  BY DEF Pairs
<1>2. m = [d \in keys |-> pieces[last(d)].tunnelID] /\ DOMAIN m = keys
  BY DEF parseTunnelMap
<1>3. ASSUME NEW d \in keys
      PROVE  /\ last(d) \in Pairs(pieces)
             /\ pieces[last(d)].key = d
             /\ \A j \in Pairs(pieces): pieces[j].key = d => j <= last(d)
  <2> DEFINE S == {k \in Pairs(pieces): pieces[k].key = d}
  <2>1. S \in SUBSET (1..n) /\ S # {}
    BY <1>1, <1>3
  <2>2. \E k \in S: \A j \in S: j <= k
    BY <1>1, <2>1, GreatestNumber
  <2> QED
    BY <2>2
<1>4. keys \subseteq Key
  BY <1>1 DEF Piece
<1>5. IsFiniteSet(keys)
  <2> DEFINE f == [k \in Pairs(pieces) |-> pieces[k].key]
  <2>1. IsFiniteSet(1..n)
    BY <1>1, FS_Interval
  <2>2. IsFiniteSet(Pairs(pieces))
    BY <1>1, <2>1, FS_Subset
  <2>3. f \in Surjection(Pairs(pieces), keys)
    BY DEF Surjection
  <2> QED
    BY <2>2, <2>3, FS_Surjection
<1>6. \A d \in keys: pieces[last(d)].tunnelID \in TunnelId
  BY <1>1, <1>3 DEF Piece
<1>7. \A k \in Pairs(pieces): pieces[k].key \in keys
  OBVIOUS
<1> HIDE DEF m, keys, last
<1>8. m \in [keys -> TunnelId]
  BY <1>2, <1>6
<1>9. \A d \in keys: m[d] = pieces[last(d)].tunnelID
  BY <1>2
<1> QED
  BY <1>2, <1>3, <1>4, <1>5, <1>7, <1>8, <1>9 DEF m

(* What New starts from: a resolver with a tunnel and no drain list. *)
LEMMA MadeFacts ==
    ASSUME NEW s \in Setting, NEW q \in NewResolver(s)
    PROVE  q \in Resolver /\ q.drain = <<>> /\ (q.fallback # NoTunnel \/ q.entries # <<>>)
<1> DEFINE m == parseTunnelMap(s.tunnelMap)
<1>1. /\ m \in [DOMAIN m -> TunnelId]
      /\ DOMAIN m \subseteq Key
      /\ IsFiniteSet(DOMAIN m)
  BY MapFacts DEF Setting
<1>2. CASE DOMAIN m = {}
  <2>1. q = newSingleTunnelResolver(s.tunnelID) /\ s.tunnelID \in TunnelId
    BY <1>2 DEF NewResolver, Setting
  <2>2. q.entries \in Seq(Entry) /\ q.drain \in Seq(TunnelId)
    BY <2>1 DEF newSingleTunnelResolver
  <2> QED
    BY <2>1, <2>2, TunnelAssumption DEF newSingleTunnelResolver, Resolver
<1>3. CASE DOMAIN m # {}
  <2> DEFINE size == Cardinality(DOMAIN m)
             entries(o) == [n \in DOMAIN o |-> [domain |-> o[n].domain, tunnelID |-> m[o[n]]]]
  <2>1. q \in newMapTunnelResolver(m)
    BY <1>3 DEF NewResolver
  <2>2. size \in Nat /\ size # 0
    BY <1>1, <1>3, FS_CardinalityType, FS_EmptySet
  <2>3. \A d \in DOMAIN m: d.domain # NoDomain
    BY <2>1 DEF newMapTunnelResolver
  <2>4. PICK o \in [1..size -> DOMAIN m]:
           q = [entries |-> entries(o), fallback |-> NoTunnel, drain |-> <<>>]
    BY <1>3, <2>1 DEF newMapTunnelResolver
  <2>5. \A n \in 1..size: o[n].domain \in Domain /\ m[o[n]] \in TunnelId
    BY <1>1, <2>3 DEF Key
  <2>6. entries(o) \in [1..size -> Entry]
    BY <2>5 DEF Entry
  <2> HIDE DEF entries, size
  <2>7. entries(o) \in Seq(Entry)
    BY <2>2, <2>6
  <2>8. 1 \in DOMAIN entries(o)
    BY <2>2, <2>6
  <2>9. entries(o) # <<>>
    BY <2>8
  <2>10. q.entries = entries(o) /\ q.fallback = NoTunnel /\ q.drain = <<>>
    BY <2>4
  <2>11. q \in Resolver
    BY <2>4, <2>7 DEF Resolver
  <2> QED
    BY <2>9, <2>10, <2>11
<1> QED
  BY <1>2, <1>3

(* The resolver of a process: the drain list has none of the configured
   tunnels, and what it has is TUNNEL_DRAIN, each tunnel once. *)
LEMMA StartedFacts ==
    ASSUME NEW s \in Setting, NEW r \in New(s)
    PROVE  /\ r \in Resolver
           /\ configured(r) # <<>>
           /\ Elements(r.drain) = Elements(s.tunnelDrain) \ {NoTunnel}
           /\ \A j, k \in DOMAIN r.drain: r.drain[j] = r.drain[k] => j = k
           /\ Elements(configured(r)) \cap Elements(r.drain) = {}
<1> DEFINE ids == splitCSV(s.tunnelDrain)
<1>1. PICK q \in NewResolver(s): ~DrainRefused(q, ids) /\ r = setDrain(q, ids)
  BY DEF New
<1>2. q \in Resolver /\ q.drain = <<>> /\ (q.fallback # NoTunnel \/ q.entries # <<>>)
  BY MadeFacts
<1>3. ids \in Seq(TunnelId) /\ Elements(ids) = Elements(s.tunnelDrain) \ {NoTunnel}
  BY SplitFacts DEF Setting
<1>4. NoTunnel \notin Elements(ids) /\ ids \in Seq(TunnelId \cup {NoTunnel})
  BY <1>3
<1>5. /\ FirstOccurrences(ids) \in Seq(TunnelId)
      /\ Elements(FirstOccurrences(ids)) = Elements(ids) \ {NoTunnel}
      /\ \A j, k \in DOMAIN FirstOccurrences(ids):
            FirstOccurrences(ids)[j] = FirstOccurrences(ids)[k] => j = k
  BY <1>4, FirstOccurrencesFacts, Zenon
<1>6. r = [entries |-> q.entries, fallback |-> q.fallback, drain |-> FirstOccurrences(ids)]
  BY <1>1, <1>2 DEF setDrain, Resolver
<1>7. r \in Resolver
  BY <1>2, <1>5, <1>6 DEF Resolver
<1>8. configured(r) = configured(q)
  BY <1>6 DEF configured
<1>9. configured(q) \in Seq(TunnelId) /\ configured(q) # <<>>
  BY <1>2, ConfiguredFacts
<1>10. Elements(configured(q)) \cap Elements(ids) = {}
  BY <1>1, <1>3, <1>9 DEF DrainRefused, Elements
<1> QED
  BY <1>3, <1>4, <1>5, <1>6, <1>7, <1>8, <1>9, <1>10

(* Of two names that cover a hostname, the one with more labels is written
   with more characters. *)
LEMMA LongerDomain ==
    ASSUME NEW h \in Seq(Label), NEW d \in Domain, NEW e \in Domain,
           Covers(h, d), Covers(h, e), Len(d) < Len(e)
    PROVE  Length[d] < Length[e]
<1>1. PICK k \in 1..Len(h): d = SubSeq(h, k, Len(h))
  BY DEF Covers
<1>2. PICK j \in 1..Len(h): e = SubSeq(h, j, Len(h))
  BY DEF Covers
<1>3. Len(d) = Len(h) - k + 1 /\ Len(e) = Len(h) - j + 1 /\ Len(h) \in Nat
  BY <1>1, <1>2
<1>4. j < k
  BY <1>3
<1>5. k - j + 1 \in 2..Len(e)
  BY <1>3, <1>4
<1>6. d = SubSeq(e, k - j + 1, Len(e))
  <2> DEFINE f == SubSeq(e, k - j + 1, Len(e))
  <2>1. e \in Seq(Label) /\ d \in Seq(Label)
    BY DomainAssumption
  <2>2. f \in Seq(Label) /\ Len(f) = Len(e) - (k - j + 1) + 1
    BY <2>1, <1>5
  <2>3. Len(f) = Len(d)
    BY <2>2, <1>3
  <2>4. \A n \in 1..Len(d): d[n] = h[k + n - 1]
    BY <1>1, <1>3
  <2>5. \A n \in 1..Len(f): f[n] = e[(k - j + 1) + n - 1]
    BY <2>1, <2>2, <1>5
  <2>6. \A n \in 1..Len(e): e[n] = h[j + n - 1]
    BY <1>2, <1>3
  <2>7. \A n \in 1..Len(d): d[n] = f[n]
    <3> TAKE n \in 1..Len(d)
    <3>1. f[n] = e[(k - j) + n]
      BY <2>3, <2>5, <1>3
    <3>2. (k - j) + n \in 1..Len(e)
      BY <1>3, <1>4
    <3>3. e[(k - j) + n] = h[j + ((k - j) + n) - 1]
      BY <2>6, <3>2
    <3>4. j + ((k - j) + n) - 1 = k + n - 1
      OBVIOUS
    <3> QED
      BY <2>4, <3>1, <3>3, <3>4
  <2> HIDE DEF f
  <2>8. d \in [1..Len(d) -> Label] /\ f \in [1..Len(f) -> Label]
    BY <2>1, <2>2
  <2>9. f \in [1..Len(d) -> Label]
    BY <2>3, <2>8
  <2>10. d = f
    BY <2>7, <2>8, <2>9
  <2> QED
    BY <2>10 DEF f
<1> QED
  BY <1>5, <1>6, SuffixAssumption

(* The entry that decides: a pair of TUNNEL_MAP, of the most labels among
   those that cover the name, and the last with its key; none decides only
   when no pair covers the name. *)
LEMMA MostSpecificEntry ==
    ASSUME NEW s \in Setting, NEW q \in newMapTunnelResolver(parseTunnelMap(s.tunnelMap)),
           NEW h \in Seq(Label)
    PROVE  LET pieces   == s.tunnelMap
               covering == {k \in Pairs(pieces): Covers(h, pieces[k].key.domain)}
           IN  IF covering = {} THEN resolve(q, h) = NoTunnel
               ELSE \E k \in covering:
                       /\ resolve(q, h) = pieces[k].tunnelID
                       /\ \A j \in covering:
                             /\ Len(pieces[j].key.domain) <= Len(pieces[k].key.domain)
                             /\ pieces[j].key = pieces[k].key => j <= k
<1> DEFINE pieces   == s.tunnelMap
           covering == {k \in Pairs(pieces): Covers(h, pieces[k].key.domain)}
           m        == parseTunnelMap(pieces)
           size     == Cardinality(DOMAIN m)
           hits     == {n \in 1..Len(q.entries): Covers(h, q.entries[n].domain)}
           first    == CHOOSE n \in hits: \A j \in hits: n <= j
<1>1. /\ m \in [DOMAIN m -> TunnelId]
      /\ DOMAIN m \subseteq Key
      /\ IsFiniteSet(DOMAIN m)
      /\ \A k \in Pairs(pieces): pieces[k].key \in DOMAIN m
      /\ \A d \in DOMAIN m: \E k \in Pairs(pieces):
            /\ pieces[k].key = d
            /\ m[d] = pieces[k].tunnelID
            /\ \A j \in Pairs(pieces): pieces[j].key = d => j <= k
  BY MapFacts DEF Setting
<1>2. size \in Nat
  BY <1>1, FS_CardinalityType
<1>3. \A d \in DOMAIN m: d.domain # NoDomain
  BY DEF newMapTunnelResolver
<1>4. PICK o \in [1..size -> DOMAIN m]:
         /\ \A j, k \in DOMAIN o:
               j < k => o[j] # o[k] /\ ~Precedes(o[k].domain, o[j].domain)
         /\ q = [entries  |-> [n \in DOMAIN o |-> [domain |-> o[n].domain, tunnelID |-> m[o[n]]]],
                 fallback |-> NoTunnel, drain |-> <<>>]
  BY DEF newMapTunnelResolver
<1>5. /\ DOMAIN o = 1..size
      /\ q.fallback = NoTunnel
      /\ q.entries = [n \in 1..size |-> [domain |-> o[n].domain, tunnelID |-> m[o[n]]]]
  BY <1>4
<1>6. Len(q.entries) = size
  BY <1>2, <1>5
<1>7. \A n \in 1..size: /\ q.entries[n].domain = o[n].domain
                        /\ q.entries[n].tunnelID = m[o[n]]
                        /\ o[n].domain \in Domain
  BY <1>1, <1>3, <1>5 DEF Key
<1>8. \A d \in DOMAIN m: \E n \in 1..size: o[n] = d
  <2>1. o \in Injection(1..size, DOMAIN m)
    <3>1. \A j, k \in 1..size: o[j] = o[k] => j = k
      BY <1>2, <1>4, <1>5
    <3> QED
      BY <3>1, <1>4 DEF Injection, IsInjective
  <2>2. Cardinality(1..size) = size
    BY <1>2, FS_Interval
  <2>3. o \in Surjection(1..size, DOMAIN m)
    BY <1>1, <2>1, <2>2, FS_Injection
  <2> QED
    BY <2>3 DEF Surjection
<1>9. resolve(q, h) = IF hits = {} THEN NoTunnel ELSE q.entries[first].tunnelID
  BY <1>5 DEF resolve
<1>10. \A j \in covering: \E n \in hits: o[n] = pieces[j].key
  BY <1>1, <1>6, <1>7, <1>8
<1>11. CASE hits = {}
  <2>1. covering = {}
    BY <1>10, <1>11
  <2> QED
    BY <1>9, <1>11, <2>1
<1>12. CASE hits # {}
  <2>1. \E n \in hits: \A j \in hits: n <= j
    <3>1. hits \in SUBSET Nat
      OBVIOUS
    <3> QED
      BY <1>12, <3>1, LeastNumber, Zenon
  <2>2. first \in hits /\ \A j \in hits: first <= j
    BY <2>1, Zenon
  <2>0. hits \in SUBSET (1..size)
    BY <1>6
  <2> HIDE DEF first
  <2>3. PICK k \in Pairs(pieces):
           /\ pieces[k].key = o[first]
           /\ m[o[first]] = pieces[k].tunnelID
           /\ \A j \in Pairs(pieces): pieces[j].key = o[first] => j <= k
    BY <1>1, <1>4, <2>0, <2>2
  <2>4. k \in covering
    BY <1>7, <2>0, <2>2, <2>3
  <2>5. resolve(q, h) = pieces[k].tunnelID
    BY <1>7, <1>9, <1>12, <2>0, <2>2, <2>3
  <2>6. ASSUME NEW j \in covering
        PROVE  Len(pieces[j].key.domain) <= Len(pieces[k].key.domain)
    <3>1. PICK n \in hits: o[n] = pieces[j].key
      BY <1>10
    <3> DEFINE d == o[first].domain
               e == o[n].domain
    <3>2. d \in Domain /\ e \in Domain /\ Covers(h, d) /\ Covers(h, e)
      BY <1>7, <2>0, <2>2, <3>1
    <3>3. Len(d) \in Nat /\ Len(e) \in Nat
      BY <3>2, DomainAssumption
    <3>4. ~(Len(d) < Len(e))
      <4> SUFFICES ASSUME Len(d) < Len(e) PROVE FALSE
        OBVIOUS
      <4>1. Length[d] < Length[e]
        BY <3>2, LongerDomain
      <4>2. Precedes(e, d)
        BY <4>1, <3>2, LengthAssumption DEF Precedes
      <4>3. first < n
        <5>1. first # n
          BY <4>1, <3>2, LengthAssumption
        <5> QED
          BY <2>0, <2>2, <5>1
      <4> QED
        BY <1>4, <1>5, <2>0, <2>2, <4>2, <4>3
    <3>5. Len(e) <= Len(d)
      BY <3>3, <3>4
    <3> QED
      BY <2>3, <3>1, <3>5
  <2>7. \A j \in covering: pieces[j].key = pieces[k].key => j <= k
    BY <2>3
  <2> HIDE DEF covering
  <2> QED
    BY <2>4, <2>5, <2>6, <2>7 DEF covering
<1> QED
  BY <1>11, <1>12

(* The keys of a map in an order the sort may leave them in. *)
Sorted(D, o) ==
    /\ o \in [1..Cardinality(D) -> D]
    /\ \A j, k \in DOMAIN o: j < k => o[j] # o[k] /\ ~Precedes(o[k].domain, o[j].domain)

(* Of two domains that differ, one precedes the other. *)
LEMMA PrecedesTotal ==
    ASSUME NEW d \in Domain, NEW e \in Domain, d # e
    PROVE  (Precedes(d, e) \/ Precedes(e, d)) /\ ~(Precedes(d, e) /\ Precedes(e, d))
<1>1. /\ Length[d] \in Nat /\ Length[e] \in Nat
      /\ Alphabetical[d] \in Nat /\ Alphabetical[e] \in Nat /\ Alphabetical[d] # Alphabetical[e]
  BY LengthAssumption, AlphabetAssumption
<1> QED
  BY <1>1 DEF Precedes

(* A key's place in a sorted order is the number of keys that precede it. *)
LEMMA SortedPlace ==
    ASSUME NEW D, NEW o, IsFiniteSet(D), Sorted(D, o),
           \A d \in D: d.domain \in Domain,
           \A d, e \in D: d.domain = e.domain => d = e,
           NEW k \in 1..Cardinality(D)
    PROVE  Cardinality({e \in D: e = o[k] \/ Precedes(e.domain, o[k].domain)}) = k
<1> DEFINE size == Cardinality(D)
           before == {e \in D: e = o[k] \/ Precedes(e.domain, o[k].domain)}
           f == [j \in 1..k |-> o[j]]
<1>1. size \in Nat /\ k \in 1..size /\ 1..k \subseteq 1..size
  BY FS_CardinalityType
<1>2. /\ o \in [1..size -> D]
      /\ \A i, j \in 1..size: i < j => o[i] # o[j] /\ ~Precedes(o[j].domain, o[i].domain)
  BY DEF Sorted
<1>3. \A d \in D: \E n \in 1..size: o[n] = d
  <2>1. o \in Injection(1..size, D)
    <3>1. \A i, j \in 1..size: o[i] = o[j] => i = j
      BY <1>1, <1>2
    <3> QED
      BY <3>1, <1>2 DEF Injection, IsInjective
  <2>2. IsFiniteSet(1..size) /\ Cardinality(1..size) = size
    BY <1>1, FS_Interval
  <2>3. o \in Surjection(1..size, D)
    BY <2>1, <2>2, FS_Injection
  <2> QED
    BY <2>3 DEF Surjection
<1> HIDE DEF size
<1>4. ASSUME NEW j \in 1..size PROVE o[j] \in before <=> j <= k
  <2>1. CASE j = k
    BY <1>1, <1>2, <2>1
  <2>2. CASE j < k
    <3>1. o[j] # o[k] /\ ~Precedes(o[k].domain, o[j].domain) /\ o[j] \in D /\ o[k] \in D
      BY <1>1, <1>2, <2>2
    <3>2. Precedes(o[j].domain, o[k].domain)
      BY <3>1, PrecedesTotal
    <3> QED
      BY <1>1, <2>2, <3>1, <3>2
  <2>3. CASE k < j
    <3>1. o[k] # o[j] /\ ~Precedes(o[j].domain, o[k].domain)
      BY <1>1, <1>2, <2>3
    <3> QED
      BY <1>1, <2>3, <3>1
  <2> QED
    BY <1>1, <2>1, <2>2, <2>3
<1> HIDE DEF before
<1>5. /\ \A j \in 1..k: o[j] \in before
      /\ \A e \in before: \E j \in 1..k: o[j] = e
  <2>1. ASSUME NEW e \in before PROVE \E j \in 1..k: o[j] = e
    <3>1. PICK j \in 1..size: o[j] = e
      BY <1>3 DEF before
    <3>2. j <= k
      BY <1>4, <3>1
    <3> QED
      BY <1>1, <3>1, <3>2
  <2>2. ASSUME NEW j \in 1..k PROVE o[j] \in before
    BY <1>1, <1>4
  <2> QED
    BY <2>1, <2>2
<1>6. f \in Bijection(1..k, before)
  <2>1. \A i, j \in 1..k: f[i] = f[j] => i = j
    BY <1>1, <1>2
  <2>2. f \in [1..k -> before]
    BY <1>5
  <2>3. \A e \in before: \E j \in 1..k: f[j] = e
    BY <1>5
  <2> HIDE DEF f
  <2> QED
    BY <2>1, <2>2, <2>3 DEF Bijection, Injection, IsInjective, Surjection
<1>7. IsFiniteSet(1..k) /\ Cardinality(1..k) = k
  BY <1>1, FS_Interval
<1>8. Cardinality(before) = k
  <2>1. ExistsBijection(1..k, before)
    BY <1>6 DEF ExistsBijection
  <2> QED
    BY <1>7, <2>1, FS_Bijection
<1> QED
  BY <1>8 DEF before

(* So keys whose domains differ have one order. *)
LEMMA SortedOnce ==
    ASSUME NEW D, NEW o, NEW p, IsFiniteSet(D), Sorted(D, o), Sorted(D, p),
           \A d \in D: d.domain \in Domain,
           \A d, e \in D: d.domain = e.domain => d = e
    PROVE  o = p
<1> DEFINE size == Cardinality(D)
<1>1. size \in Nat /\ o \in [1..size -> D] /\ p \in [1..size -> D]
  BY FS_CardinalityType DEF Sorted
<1>2. p \in Surjection(1..size, D)
  <2>1. \A i, j \in 1..size: p[i] = p[j] => i = j
    BY <1>1 DEF Sorted
  <2>2. p \in Injection(1..size, D)
    BY <2>1, <1>1 DEF Injection, IsInjective
  <2>3. IsFiniteSet(1..size) /\ Cardinality(1..size) = size
    BY <1>1, FS_Interval
  <2> QED
    BY <2>2, <2>3, FS_Injection
<1> HIDE DEF size
<1>3. ASSUME NEW k \in 1..size PROVE o[k] = p[k]
  <2>1. PICK j \in 1..size: p[j] = o[k]
    BY <1>1, <1>2 DEF Surjection
  <2>2. Cardinality({e \in D: e = o[k] \/ Precedes(e.domain, o[k].domain)}) = k
    BY SortedPlace DEF size
  <2>3. Cardinality({e \in D: e = p[j] \/ Precedes(e.domain, p[j].domain)}) = j
    BY SortedPlace DEF size
  <2>4. j = k
    BY <2>1, <2>2, <2>3
  <2> QED
    BY <2>1, <2>4
<1> QED
  BY <1>1, <1>3

(* When no domain has two spellings, the settings make one resolver. *)
LEMMA ResolverOnce ==
    ASSUME NEW s \in Setting, NEW q \in New(s), NEW r \in New(s),
           \A j, k \in Pairs(s.tunnelMap):
              s.tunnelMap[j].key.domain = s.tunnelMap[k].key.domain =>
                  s.tunnelMap[j].key = s.tunnelMap[k].key
    PROVE  q = r
<1> DEFINE m == parseTunnelMap(s.tunnelMap)
           made(o) == [entries  |-> [n \in DOMAIN o |-> [domain |-> o[n].domain, tunnelID |-> m[o[n]]]],
                       fallback |-> NoTunnel, drain |-> <<>>]
<1>1. /\ DOMAIN m \subseteq Key /\ IsFiniteSet(DOMAIN m)
      /\ \A d \in DOMAIN m: \E k \in Pairs(s.tunnelMap): s.tunnelMap[k].key = d
  BY MapFacts DEF Setting
<1>2. ASSUME NEW a \in NewResolver(s), NEW b \in NewResolver(s) PROVE a = b
  <2>1. CASE DOMAIN m = {}
    BY <1>2, <2>1 DEF NewResolver
  <2>2. CASE DOMAIN m # {}
    <3>1. a \in newMapTunnelResolver(m) /\ b \in newMapTunnelResolver(m)
      BY <1>2, <2>2 DEF NewResolver
    <3>2. \A d \in DOMAIN m: d.domain \in Domain
      BY <1>1, <3>1 DEF newMapTunnelResolver, Key
    <3>3. \A d, e \in DOMAIN m: d.domain = e.domain => d = e
      BY <1>1
    <3> HIDE DEF m
    <3>4. PICK o: Sorted(DOMAIN m, o) /\ a = made(o)
      BY <3>1 DEF newMapTunnelResolver, Sorted
    <3>5. PICK p: Sorted(DOMAIN m, p) /\ b = made(p)
      BY <3>1 DEF newMapTunnelResolver, Sorted
    <3>6. o = p
      BY <1>1, <3>2, <3>3, <3>4, <3>5, SortedOnce
    <3> QED
      BY <3>4, <3>5, <3>6
  <2> QED
    BY <2>1, <2>2
<1>3. PICK a \in NewResolver(s): q = setDrain(a, splitCSV(s.tunnelDrain))
  BY DEF New
<1>4. PICK b \in NewResolver(s): r = setDrain(b, splitCSV(s.tunnelDrain))
  BY DEF New
<1> QED
  BY <1>2, <1>3, <1>4

-----------------------------------------------------------------------------
(* The ConfigMap key *)

(* What a key says is a rewrite or none for each host. *)
LEMMA ParseType ==
    ASSUME NEW text \in Seq(Line) PROVE parseRewrites(text) \in Rewrites
<1> SUFFICES ASSUME NEW h \in Host, LinesFor(text, h) # {}
             PROVE  text[CHOOSE k \in LinesFor(text, h): \A j \in LinesFor(text, h): j <= k].target
                      \in Target
  BY DEF parseRewrites, Rewrites
<1> DEFINE last == CHOOSE k \in LinesFor(text, h): \A j \in LinesFor(text, h): j <= k
<1>1. LinesFor(text, h) \in SUBSET (1..Len(text)) /\ Len(text) \in Nat
  BY DEF LinesFor
<1>2. \E k \in LinesFor(text, h): \A j \in LinesFor(text, h): j <= k
  BY <1>1, GreatestNumber
<1>3. last \in LinesFor(text, h)
  BY <1>2
<1> HIDE DEF last
<1>4. text[last] \in Line /\ text[last] \notin {Header, Unknown}
  BY <1>1, <1>3 DEF LinesFor
<1>5. text[last] \in Directive
  BY <1>4 DEF Line
<1> QED
  BY <1>5 DEF Directive, last

(* A rendered key has a line for each host that has a rewrite, and one. *)
LEMMA RenderLines ==
    ASSUME NEW d \in Rewrites
    PROVE  /\ render(d) \in Seq(Line)
           /\ \A h \in Host: d[h] = NoRewrite => LinesFor(render(d), h) = {}
           /\ \A h \in Host: d[h] # NoRewrite =>
                 \E k: LinesFor(render(d), h) = {k} /\ render(d)[k].target = d[h]
<1> DEFINE hosts == {h \in Host: d[h] # NoRewrite}
           size == Cardinality(hosts)
           at(n) == CHOOSE h \in hosts: Cardinality({g \in hosts: Rank[g] <= Rank[h]}) = n
           lines == [n \in 1..size |-> [host |-> at(n), spelling |-> Lower, target |-> d[at(n)]]]
           text == render(d)
<1>1. text = <<Header>> \o lines
  BY DEF render
<1>2. IsFiniteSet(hosts) /\ size \in Nat
  BY RankAssumption, FS_Subset, FS_CardinalityType
<1>3. /\ \A n \in 1..size: at(n) \in hosts
      /\ \A h \in hosts: \E n \in 1..size: at(n) = h
      /\ \A m, n \in 1..size: at(m) = at(n) => m = n
  <2> DEFINE R == [h \in hosts |-> Rank[h]]
             number(h) == Cardinality({g \in hosts: Rank[g] <= Rank[h]})
  <2>1. \A h \in Host: Rank[h] \in Nat
    <3>1. Cardinality(Host) \in Nat
      BY RankAssumption, FS_CardinalityType
    <3> QED
      BY <3>1, RankAssumption
  <2>2. R \in [hosts -> Nat] /\ \A g, h \in hosts: R[g] = R[h] => g = h
    BY <2>1, RankAssumption
  <2>3. \A h \in hosts: {g \in hosts: R[g] <= R[h]} = {g \in hosts: Rank[g] <= Rank[h]}
    OBVIOUS
  <2> HIDE DEF hosts, R
  <2>4. Numbers(hosts, R) \in Bijection(hosts, 1..size)
    BY <1>2, <2>2, Numbering, Zenon
  <2>5. \A h \in hosts: Numbers(hosts, R)[h] = number(h)
    BY <2>3 DEF Numbers
  <2>6. /\ \A h \in hosts: number(h) \in 1..size
        /\ \A g, h \in hosts: number(g) = number(h) => g = h
        /\ \A n \in 1..size: \E h \in hosts: number(h) = n
    BY <2>4, <2>5 DEF Bijection, Injection, IsInjective, Surjection
  <2> HIDE DEF number
  <2>7. \A n: at(n) = CHOOSE h \in hosts: number(h) = n
    BY DEF number
  <2>8. \A n \in 1..size: at(n) \in hosts /\ number(at(n)) = n
    <3> TAKE n \in 1..size
    <3>1. \E h \in hosts: number(h) = n
      BY <2>6
    <3>2. at(n) = CHOOSE h \in hosts: number(h) = n
      BY <2>7
    <3> QED
      BY <3>1, <3>2
  <2> HIDE DEF at
  <2> QED
    BY <2>6, <2>8
<1> HIDE DEF at, size
<1>4. \A n \in 1..size: /\ lines[n] \in Directive /\ lines[n].host = at(n)
                        /\ lines[n].target = d[at(n)] /\ lines[n] \notin {Header, Unknown}
  <2> TAKE n \in 1..size
  <2>1. at(n) \in Host /\ d[at(n)] \in Target
    BY <1>3 DEF Rewrites
  <2>2. lines[n] = [host |-> at(n), spelling |-> Lower, target |-> d[at(n)]]
    OBVIOUS
  <2>3. lines[n] \in Directive
    BY <2>1, <2>2 DEF Directive
  <2> QED
    BY <2>2, <2>3, LineAssumption
<1>5. /\ lines \in Seq(Directive) /\ Len(lines) = size
  <2>1. lines \in [1..size -> Directive]
    BY <1>4
  <2> QED
    BY <1>2, <2>1
<1> HIDE DEF lines
<1>6. text \in Seq(Line)
  <2>1. <<Header>> \in Seq(Line) /\ lines \in Seq(Line)
    BY <1>5 DEF Line
  <2> QED
    BY <1>1, <2>1
<1>7. /\ DOMAIN text = 1..(size + 1) /\ text[1] = Header
      /\ \A n \in 1..size: text[n + 1] = lines[n]
  BY <1>1, <1>2, <1>5
<1> HIDE DEF text
<1>8. ASSUME NEW h \in Host
      PROVE  LinesFor(text, h) = {n + 1 : n \in {m \in 1..size: at(m) = h}}
  <2>1. ASSUME NEW k \in LinesFor(text, h)
        PROVE  \E n \in 1..size: at(n) = h /\ k = n + 1
    <3>1. k \in 1..(size + 1) /\ k # 1 /\ text[k].host = h
      BY <1>7 DEF LinesFor
    <3>2. k - 1 \in 1..size /\ k = (k - 1) + 1
      BY <1>2, <3>1
    <3>3. text[k] = lines[k - 1]
      BY <1>7, <3>2
    <3> QED
      BY <1>4, <3>1, <3>2, <3>3
  <2>2. ASSUME NEW n \in 1..size, at(n) = h PROVE n + 1 \in LinesFor(text, h)
    <3>1. n + 1 \in DOMAIN text /\ text[n + 1] = lines[n]
      BY <1>2, <1>7
    <3> QED
      BY <1>4, <2>2, <3>1 DEF LinesFor
  <2> QED
    BY <2>1, <2>2
<1>9. ASSUME NEW h \in Host, d[h] = NoRewrite PROVE LinesFor(text, h) = {}
  <2>1. \A n \in 1..size: at(n) # h
    BY <1>3, <1>9
  <2> QED
    BY <1>8, <2>1
<1>10. ASSUME NEW h \in Host, d[h] # NoRewrite
       PROVE  \E k: LinesFor(text, h) = {k} /\ text[k].target = d[h]
  <2>1. PICK n \in 1..size: at(n) = h
    BY <1>3, <1>10
  <2>2. {m \in 1..size: at(m) = h} = {n}
    BY <1>3, <2>1
  <2>3. LinesFor(text, h) = {n + 1}
    BY <1>8, <2>2
  <2>4. text[n + 1].target = d[h]
    BY <1>4, <1>7, <2>1
  <2> QED
    BY <2>3, <2>4
<1> QED
  BY <1>6, <1>9, <1>10 DEF text

(* Load reads back what render wrote. *)
LEMMA ParseRender ==
    ASSUME NEW d \in Rewrites PROVE parseRewrites(render(d)) = d
<1> DEFINE text == render(d)
           last(h) == CHOOSE k \in LinesFor(text, h): \A j \in LinesFor(text, h): j <= k
<1>1. text \in Seq(Line)
  BY RenderLines
<1>2. parseRewrites(text) \in Rewrites
  BY <1>1, ParseType
<1>3. ASSUME NEW h \in Host PROVE parseRewrites(text)[h] = d[h]
  <2>1. parseRewrites(text)[h] = IF LinesFor(text, h) = {} THEN NoRewrite ELSE text[last(h)].target
    BY DEF parseRewrites
  <2>2. CASE d[h] = NoRewrite
    BY <2>1, <2>2, RenderLines
  <2>3. CASE d[h] # NoRewrite
    <3>1. PICK k: LinesFor(text, h) = {k} /\ text[k].target = d[h]
      BY <2>3, RenderLines
    <3>2. LinesFor(text, h) \in SUBSET (1..Len(text)) /\ Len(text) \in Nat
      BY <1>1 DEF LinesFor
    <3>3. \E i \in LinesFor(text, h): \A j \in LinesFor(text, h): j <= i
      BY <3>1, <3>2, GreatestNumber
    <3>4. last(h) \in LinesFor(text, h)
      BY <3>3
    <3> HIDE DEF last
    <3> QED
      BY <2>1, <3>1, <3>4
  <2> QED
    BY <2>2, <2>3
<1> HIDE DEF text
<1>4. parseRewrites(text) = d
  BY <1>2, <1>3 DEF Rewrites
<1> QED
  BY <1>4 DEF text

LEMMA DesiredFacts ==
    ASSUME NEW current \in Rewrites, NEW add \in Rewrites, NEW remove
    PROVE  /\ Desired(current, add, remove) \in Rewrites
           /\ Desired(Desired(current, add, remove), add, remove) = Desired(current, add, remove)
<1> DEFINE d == Desired(current, add, remove)
<1>1. d \in Rewrites
  BY DEF Desired, Rewrites
<1>2. \A h \in Host: d[h] = IF add[h] # NoRewrite THEN add[h]
                            ELSE IF h \in remove THEN NoRewrite ELSE current[h]
  BY DEF Desired
<1> HIDE DEF d
<1>3. \A h \in Host: d[h] = IF add[h] # NoRewrite THEN add[h]
                            ELSE IF h \in remove THEN NoRewrite ELSE d[h]
  BY <1>2
<1>4. Desired(d, add, remove) = d
  <2>1. Desired(d, add, remove) = [h \in Host |-> d[h]]
    BY <1>3 DEF Desired
  <2>2. d = [h \in Host |-> d[h]]
    BY <1>1 DEF Rewrites
  <2> QED
    BY <2>1, <2>2
<1> QED
  BY <1>1, <1>4 DEF d

(* What Apply makes of a key, whatever it holds. *)
LEMMA ApplyFacts ==
    ASSUME NEW text \in Seq(Line), NEW add \in Rewrites, NEW remove
    PROVE  LET current == parseRewrites(text)
               after   == ApplyText(text, add, remove)
           IN  /\ after \in Seq(Line)
               /\ parseRewrites(after) = Desired(current, add, remove)
               /\ ApplyText(after, add, remove) = after
               /\ after # text => parseRewrites(after) # current
<1> DEFINE current == parseRewrites(text)
           d       == Desired(current, add, remove)
           after   == ApplyText(text, add, remove)
<1>1. current \in Rewrites
  BY ParseType
<1>2. d \in Rewrites /\ Desired(d, add, remove) = d
  BY <1>1, DesiredFacts
<1>3. after = IF d = current THEN text ELSE render(d)
  BY DEF ApplyText
<1>4. render(d) \in Seq(Line) /\ parseRewrites(render(d)) = d
  BY <1>2, RenderLines, ParseRender
<1> HIDE DEF after, d
<1>5. after \in Seq(Line) /\ parseRewrites(after) = d
  BY <1>3, <1>4
<1>6. ApplyText(after, add, remove) = after
  BY <1>2, <1>5 DEF ApplyText
<1>7. after # text => parseRewrites(after) # current
  BY <1>3, <1>5
<1> QED
  BY <1>5, <1>6, <1>7 DEF after, d

-----------------------------------------------------------------------------
(* Runs *)

(* What serves is what main made of the settings, and nothing else serves. *)
StartedInv ==
    /\ settings \in Setting
    /\ status = "serving" => process \in main(settings)
    /\ status # "serving" => process = NoProcess

LEMMA Started == Spec => []StartedInv
<1>1. Init => StartedInv
  BY SettingsAssumption DEF Init, StartedInv
<1>2. StartedInv /\ [Next]_vars => StartedInv'
  <2> SUFFICES ASSUME StartedInv, [Next]_vars PROVE StartedInv'
    OBVIOUS
  <2>1. CASE Start
    BY <2>1 DEF Start, StartedInv
  <2>2. CASE Stop
    BY <2>2 DEF Stop, StartedInv
  <2>3. CASE EditKey
    BY <2>3 DEF EditKey, StartedInv
  <2>4. CASE \E add \in Rewrites, remove \in SUBSET Host: ApplyFragment(add, remove)
    BY <2>4 DEF ApplyFragment, StartedInv
  <2>5. CASE UNCHANGED vars
    BY <2>5 DEF vars, StartedInv
  <2> QED
    BY <2>1, <2>2, <2>3, <2>4, <2>5 DEF Next
<1> QED
  BY <1>1, <1>2, PTL DEF Spec

LEMMA ServingResolver ==
    ASSUME StartedInv, status = "serving"
    PROVE  settings \in Setting /\ process.resolver \in New(settings)
  BY DEF StartedInv, main

(* tid is the tunnel of a pair that decides h, none when no pair covers it. *)
Decided(pieces, h, tid) ==
    LET covering == {k \in Pairs(pieces): Covers(h, pieces[k].key.domain)}
    IN  IF covering = {} THEN tid = NoTunnel
        ELSE \E k \in covering:
                /\ tid = pieces[k].tunnelID
                /\ \A j \in covering:
                      /\ Len(pieces[j].key.domain) <= Len(pieces[k].key.domain)
                      /\ pieces[j].key = pieces[k].key => j <= k

LEMMA DecidingPair ==
    ASSUME NEW s \in Setting, NEW r \in New(s), Pairs(s.tunnelMap) # {}, NEW h \in Hostname
    PROVE  Decided(s.tunnelMap, h, resolve(r, h))
<1>1. PICK q \in NewResolver(s): r = setDrain(q, splitCSV(s.tunnelDrain))
  BY DEF New
<1>2. q \in Resolver
  BY MadeFacts
<1>3. resolve(r, h) = resolve(q, h)
  <2>1. r.entries = q.entries /\ r.fallback = q.fallback
    BY <1>1, <1>2 DEF setDrain, Resolver
  <2> QED
    BY <2>1 DEF resolve
<1>4. DOMAIN parseTunnelMap(s.tunnelMap) # {}
  BY MapFacts DEF Setting
<1>5. q \in newMapTunnelResolver(parseTunnelMap(s.tunnelMap))
  BY <1>4 DEF NewResolver
<1>6. h \in Seq(Label)
  BY HostnameAssumption
<1>7. Decided(s.tunnelMap, h, resolve(q, h))
  BY <1>5, <1>6, MostSpecificEntry DEF Decided
<1> QED
  BY <1>3, <1>7

(* The most specific pair of TUNNEL_MAP decides every name, however many
   pairs there are, in whatever order and spelling. *)
THEOREM MostSpecificAlwaysWins == Spec => []MostSpecificWins
<1>1. StartedInv => MostSpecificWins
  <2> SUFFICES ASSUME StartedInv, status = "serving", Pairs(settings.tunnelMap) # {},
                      NEW h \in Hostname
               PROVE  Decided(settings.tunnelMap, h, resolve(process.resolver, h))
    BY DEF MostSpecificWins, Decided
  <2>1. settings \in Setting /\ process.resolver \in New(settings)
    BY ServingResolver
  <2> QED
    BY <2>1, DecidingPair
<1> QED
  BY <1>1, Started, PTL

(* No hostname ever resolves to a tunnel of TUNNEL_DRAIN, however long the
   two lists are and in whatever order the map was ranged over. *)
THEOREM DrainsNeverResolve == Spec => []DrainNeverResolved
<1>1. StartedInv => DrainNeverResolved
  <2> SUFFICES ASSUME StartedInv, NEW h \in Hostname
               PROVE  resolve(process.resolver, h) \notin Elements(process.resolver.drain)
    BY DEF DrainNeverResolved
  <2> DEFINE r == process.resolver
  <2>1. CASE status = "serving"
    <3>1. settings \in Setting /\ r \in New(settings)
      BY <2>1, ServingResolver
    <3>2. /\ r \in Resolver
          /\ NoTunnel \notin Elements(r.drain)
          /\ Elements(configured(r)) \cap Elements(r.drain) = {}
      BY <3>1, StartedFacts
    <3>3. resolve(r, h) \in Elements(configured(r)) \cup {NoTunnel}
      BY <3>2, ConfiguredFacts
    <3> QED
      BY <3>2, <3>3
  <2>2. CASE status # "serving"
    <3>1. r.drain = <<>>
      BY <2>2 DEF StartedInv, NoProcess, NoResolver, newSingleTunnelResolver
    <3> QED
      BY <3>1 DEF Elements
  <2> QED
    BY <2>1, <2>2
<1> QED
  BY <1>1, Started, PTL

(* Every tunnel a hostname may be routed to, and every tunnel of
   TUNNEL_DRAIN, is listed by Records, and none is listed twice. *)
THEOREM TargetsListedOnce == Spec => []EveryTargetListedOnce
<1>1. StartedInv => EveryTargetListedOnce
  <2> SUFFICES ASSUME StartedInv, status = "serving" PROVE EveryTargetListedOnce
    BY DEF EveryTargetListedOnce
  <2> DEFINE r == process.resolver
             c == configured(r)
             ts == tunnels(r)
  <2>1. settings \in Setting /\ r \in New(settings)
    BY ServingResolver
  <2>2. /\ r \in Resolver
        /\ c # <<>>
        /\ Elements(r.drain) = Elements(settings.tunnelDrain) \ {NoTunnel}
        /\ \A j, k \in DOMAIN r.drain: r.drain[j] = r.drain[k] => j = k
        /\ Elements(c) \cap Elements(r.drain) = {}
    BY <2>1, StartedFacts
  <2>3. /\ c \in Seq(TunnelId)
        /\ \A j, k \in DOMAIN c: c[j] = c[k] => j = k
        /\ \A h: resolve(r, h) \in Elements(c) \cup {NoTunnel}
    BY <2>2, ConfiguredFacts
  <2>4. r.drain \in Seq(TunnelId)
    BY <2>2 DEF Resolver
  <2>5. ts = c \o r.drain
    BY DEF tunnels
  <2> HIDE DEF c, ts, r
  <2> DEFINE d == r.drain
  <2>6. /\ Len(c) \in Nat /\ DOMAIN c = 1..Len(c)
        /\ Len(d) \in Nat /\ DOMAIN d = 1..Len(d)
    BY <2>3, <2>4
  <2>7. DOMAIN ts = 1..(Len(c) + Len(d))
    BY <2>3, <2>4, <2>5
  <2>8. \A k \in DOMAIN ts: IF k <= Len(c) THEN k \in DOMAIN c /\ ts[k] = c[k]
                            ELSE k - Len(c) \in DOMAIN d /\ ts[k] = d[k - Len(c)]
    BY <2>3, <2>4, <2>5, <2>6, <2>7
  <2>9. /\ \A k \in DOMAIN c: k \in DOMAIN ts /\ ts[k] = c[k]
        /\ \A k \in DOMAIN d: k + Len(c) \in DOMAIN ts /\ ts[k + Len(c)] = d[k]
    BY <2>3, <2>4, <2>5, <2>6, <2>7
  <2>10. Elements(c) \subseteq Elements(ts) /\ Elements(d) \subseteq Elements(ts)
    BY <2>9 DEF Elements
  <2>11. \A j \in DOMAIN c, k \in DOMAIN d: c[j] # d[k]
    BY <2>2 DEF Elements
  <2>12. \A j, k \in DOMAIN ts: ts[j] = ts[k] => j = k
    BY <2>2, <2>3, <2>6, <2>7, <2>8, <2>11
  <2>13. ts # <<>>
    BY <2>2, <2>3, <2>4, <2>5
  <2> QED
    BY <2>2, <2>3, <2>10, <2>12, <2>13 DEF EveryTargetListedOnce, ts, r, c
<1> QED
  BY <1>1, Started, PTL

(* A process serves with a resolver that has a tunnel; what else there is of
   it, of the process before and of the key has its type. *)
TypeInv ==
    /\ TypeOK
    /\ StartedInv
    /\ earlier = NoResolver \/ earlier \in New(settings)

LEMMA NoResolverType ==
    /\ NoResolver \in Resolver
    /\ NoProcess \in [resolver: Resolver, coredns: BOOLEAN, client: Client]
<1>1. NoResolver.entries = <<>> /\ NoResolver.drain = <<>> /\ NoResolver.fallback = NoTunnel
  BY DEF NoResolver, newSingleTunnelResolver
<1>2. NoResolver \in Resolver
  BY DEF NoResolver, newSingleTunnelResolver, Resolver
<1> QED
  BY <1>2 DEF NoProcess, Client

(* What main makes is a process with a tunnel. *)
LEMMA MainType ==
    ASSUME NEW s \in Setting, NEW p \in main(s)
    PROVE  /\ p \in [resolver: Resolver, coredns: BOOLEAN, client: Client]
           /\ p.resolver \in New(s) /\ p.resolver # NoResolver
<1>1. PICK r \in New(s), c \in newRouteClient(s):
         p = [resolver |-> r, coredns |-> s.configMap = "named", client |-> c]
  BY DEF main
<1>2. r \in Resolver /\ configured(r) # <<>>
  BY StartedFacts
<1>3. c \in Client
  <2>1. \/ c = [baseURL |-> "cloudflare", token |-> TRUE, headers |-> FALSE]
        \/ /\ s.brokerURL \in {"https", "loopback"}
           /\ c = [baseURL |-> s.brokerURL, token |-> FALSE, headers |-> TRUE]
    BY DEF newRouteClient, checkBrokerURL
  <2>2. CASE c = [baseURL |-> "cloudflare", token |-> TRUE, headers |-> FALSE]
    BY <2>2 DEF Client
  <2>3. ASSUME NEW u \in {"https", "loopback"}, c = [baseURL |-> u, token |-> FALSE, headers |-> TRUE]
        PROVE  c \in Client
    BY <2>3 DEF Client
  <2> QED
    BY <2>1, <2>2, <2>3
<1>4. r # NoResolver
  <2>1. configured(NoResolver) = <<>>
    <3> DEFINE ids == [k \in 1..Len(NoResolver.entries) |-> NoResolver.entries[k].tunnelID]
    <3>1. NoResolver.entries = <<>> /\ NoResolver.fallback = NoTunnel
      BY DEF NoResolver, newSingleTunnelResolver
    <3>2. configured(NoResolver) = FirstOccurrences(ids)
      BY <3>1 DEF configured
    <3>3. ids \in Seq(TunnelId \cup {NoTunnel}) /\ Elements(ids) = {}
      BY <3>1 DEF Elements
    <3> HIDE DEF ids
    <3>4. FirstOccurrences(ids) \in Seq(TunnelId) /\ Elements(FirstOccurrences(ids)) = {}
      BY <3>3, FirstOccurrencesFacts
    <3>5. DOMAIN FirstOccurrences(ids) = {}
      BY <3>4 DEF Elements
    <3> QED
      BY <3>2, <3>4, <3>5
  <2> QED
    BY <1>2, <2>1
<1> QED
  BY <1>1, <1>2, <1>3, <1>4

LEMMA Typed == Spec => []TypeInv
<1>1. Init => TypeInv
  <2> SUFFICES ASSUME Init PROVE TypeInv
    OBVIOUS
  <2>1. settings \in Setting /\ status = "down" /\ process = NoProcess /\ earlier = NoResolver /\ key = <<>>
    BY SettingsAssumption DEF Init
  <2>2. process.resolver = NoResolver
    BY <2>1 DEF NoProcess
  <2> QED
    BY <2>1, <2>2, NoResolverType DEF TypeInv, TypeOK, StartedInv
<1>2. TypeInv /\ [Next]_vars => TypeInv'
  <2> SUFFICES ASSUME TypeInv, [Next]_vars PROVE TypeInv'
    OBVIOUS
  <2>0. /\ settings \in Setting /\ status \in {"down", "serving", "refused"} /\ key \in Seq(Line)
        /\ earlier \in Resolver
        /\ process \in [resolver: Resolver, coredns: BOOLEAN, client: Client]
    BY DEF TypeInv, TypeOK
  <2>1. CASE Start
    <3>0. settings' = settings /\ earlier' = earlier /\ key' = key /\ process = NoProcess
      BY <2>1 DEF Start, TypeInv, StartedInv
    <3>1. CASE main(settings) = {}
      <4>1. status' = "refused" /\ process' = NoProcess
        BY <2>1, <3>0, <3>1 DEF Start
      <4>2. process'.resolver = NoResolver
        BY <4>1 DEF NoProcess
      <4> QED
        BY <2>0, <3>0, <4>1, <4>2, NoResolverType DEF TypeInv, TypeOK, StartedInv
    <3>2. CASE main(settings) # {}
      <4>1. status' = "serving" /\ process' \in main(settings)
        BY <2>1, <3>2 DEF Start
      <4>2. /\ process' \in [resolver: Resolver, coredns: BOOLEAN, client: Client]
            /\ process'.resolver # NoResolver
        BY <2>0, <4>1, MainType
      <4> QED
        BY <2>0, <3>0, <4>1, <4>2 DEF TypeInv, TypeOK, StartedInv
    <3> QED
      BY <3>1, <3>2
  <2>2. CASE Stop
    <3>1. settings' = settings /\ key' = key /\ status' = "down" /\ process' = NoProcess
      BY <2>2 DEF Stop
    <3>2. process'.resolver = NoResolver
      BY <3>1 DEF NoProcess
    <3>3. earlier' \in Resolver /\ (earlier' = NoResolver \/ earlier' \in New(settings))
      <4>1. CASE status = "serving"
        <5>1. earlier' = process.resolver /\ process \in main(settings)
          BY <2>2, <4>1 DEF Stop, TypeInv, StartedInv
        <5> QED
          BY <2>0, <5>1, MainType
      <4>2. CASE status # "serving"
        BY <2>0, <2>2, <4>2 DEF Stop, TypeInv
      <4> QED
        BY <4>1, <4>2
    <3> QED
      BY <2>0, <3>1, <3>2, <3>3, NoResolverType DEF TypeInv, TypeOK, StartedInv
  <2>3. CASE EditKey
    <3>1. key' \in Seq(Line)
      BY <2>3, EditedKeysAssumption DEF EditKey
    <3> QED
      BY <2>3, <3>1 DEF EditKey, TypeInv, TypeOK, StartedInv
  <2>4. ASSUME NEW add \in Rewrites, NEW remove \in SUBSET Host, ApplyFragment(add, remove)
        PROVE  TypeInv'
    <3>1. key' \in Seq(Line)
      BY <2>0, <2>4, ApplyFacts DEF ApplyFragment
    <3> QED
      BY <2>4, <3>1 DEF ApplyFragment, TypeInv, TypeOK, StartedInv
  <2>5. CASE UNCHANGED vars
    BY <2>5 DEF vars, TypeInv, TypeOK, StartedInv
  <2> QED
    BY <2>1, <2>2, <2>3, <2>4, <2>5 DEF Next
<1> QED
  BY <1>1, <1>2, PTL DEF Spec

(* A process serves exactly when it has a tunnel, in every environment, and
   the key stays a sequence of lines, whoever writes it. *)
THEOREM WebhookTypeCorrect == Spec => []TypeOK
<1>1. TypeInv => TypeOK
  BY DEF TypeInv
<1> QED
  BY <1>1, Typed, PTL

(* Two names that cover a hostname with as many labels are one name. *)
LEMMA SameDomain ==
    ASSUME NEW h \in Seq(Label), NEW d, NEW e, Covers(h, d), Covers(h, e), Len(d) = Len(e)
    PROVE  d = e
<1>1. PICK j \in 1..Len(h): d = SubSeq(h, j, Len(h))
  BY DEF Covers
<1>2. PICK k \in 1..Len(h): e = SubSeq(h, k, Len(h))
  BY DEF Covers
<1>3. Len(h) \in Nat /\ Len(d) = Len(h) - j + 1 /\ Len(e) = Len(h) - k + 1
  BY <1>1, <1>2
<1>4. j = k
  BY <1>1, <1>2, <1>3
<1> QED
  BY <1>1, <1>2, <1>4

(* Two processes of one environment that send a name to different tunnels
   found its domain in two spellings. *)
LEMMA DisagreeOnSpelling ==
    ASSUME settings \in Setting, NEW r \in New(settings), NEW q \in New(settings),
           NEW h \in Hostname, resolve(r, h) # resolve(q, h)
    PROVE  SpeltTwice(h)
<1> DEFINE pieces   == settings.tunnelMap
           covering == {k \in Pairs(pieces): Covers(h, pieces[k].key.domain)}
<1>1. Pairs(pieces) # {}
  <2> SUFFICES ASSUME Pairs(pieces) = {} PROVE FALSE
    OBVIOUS
  <2>1. r = q
    BY ResolverOnce
  <2> QED
    BY <2>1
<1>2. Decided(pieces, h, resolve(r, h)) /\ Decided(pieces, h, resolve(q, h))
  BY <1>1, DecidingPair
<1>3. PICK j \in covering:
         /\ resolve(r, h) = pieces[j].tunnelID
         /\ \A i \in covering: Len(pieces[i].key.domain) <= Len(pieces[j].key.domain)
         /\ \A i \in covering: pieces[i].key = pieces[j].key => i <= j
  BY <1>2 DEF Decided
<1>4. PICK k \in covering:
         /\ resolve(q, h) = pieces[k].tunnelID
         /\ \A i \in covering: Len(pieces[i].key.domain) <= Len(pieces[k].key.domain)
         /\ \A i \in covering: pieces[i].key = pieces[k].key => i <= k
  BY <1>2 DEF Decided
<1>5. pieces[j].tunnelID # pieces[k].tunnelID
  BY <1>3, <1>4
<1>6. pieces[j].key # pieces[k].key
  <2> SUFFICES ASSUME pieces[j].key = pieces[k].key PROVE FALSE
    OBVIOUS
  <2>1. j <= k /\ k <= j /\ j \in Nat /\ k \in Nat
    BY <1>3, <1>4 DEF Pairs, Setting
  <2>2. j = k
    BY <2>1
  <2> QED
    BY <1>5, <2>2
<1>7. pieces[j].key.domain = pieces[k].key.domain
  <2> DEFINE d == pieces[j].key.domain
             e == pieces[k].key.domain
  <2>1. h \in Seq(Label) /\ Covers(h, d) /\ Covers(h, e)
    BY HostnameAssumption
  <2>2. Len(d) \in Nat /\ Len(e) \in Nat
    BY <2>1 DEF Covers
  <2>3. Len(e) <= Len(d) /\ Len(d) <= Len(e)
    BY <1>3, <1>4
  <2> HIDE DEF d, e
  <2>4. Len(d) = Len(e)
    BY <2>2, <2>3
  <2>5. d = e
    BY <2>1, <2>4, SameDomain
  <2> QED
    BY <2>5 DEF d, e
<1>8. \A i \in covering: Len(pieces[i].key.domain) <= Len(pieces[k].key.domain)
  BY <1>4
<1> QED
  BY <1>5, <1>6, <1>7, <1>8 DEF SpeltTwice

(* A restart in the same environment makes the same resolver, in whatever
   order Go ranges over the map (tunnel.go:70), unless TUNNEL_MAP gives one
   domain in two spellings; and then only the names it decides may move. *)
THEOREM RestartsAgree == Spec => []RestartAgrees
<1>1. TypeInv => RestartAgrees
  <2> SUFFICES ASSUME TypeInv, status = "serving", earlier # NoResolver
               PROVE  /\ TwoSpellings \/ process.resolver = earlier
                      /\ \A h \in Hostname:
                            SpeltTwice(h) \/ resolve(process.resolver, h) = resolve(earlier, h)
    BY DEF RestartAgrees
  <2>1. settings \in Setting /\ process.resolver \in New(settings) /\ earlier \in New(settings)
    BY ServingResolver DEF TypeInv
  <2>2. TwoSpellings \/ process.resolver = earlier
    BY <2>1, ResolverOnce DEF TwoSpellings
  <2> QED
    BY <2>1, <2>2, DisagreeOnSpelling
<1> QED
  BY <1>1, Typed, PTL

(* Apply does what it is asked to whatever key it finds, a second Apply of the
   same change writes nothing, and a write changes what the key means
   (fragment.go:151, :175), for any number of hosts and lines. *)
THEOREM AppliesHold == Spec => []ApplyHolds
<1>1. TypeInv => ApplyHolds
  <2> SUFFICES ASSUME TypeInv, NEW add \in Rewrites, NEW remove \in SUBSET Host
               PROVE  LET after == ApplyText(key, add, remove)
                      IN  /\ \A h \in Host:
                                parseRewrites(after)[h] =
                                    IF add[h] # NoRewrite THEN add[h]
                                    ELSE IF h \in remove THEN NoRewrite ELSE parseRewrites(key)[h]
                          /\ ApplyText(after, add, remove) = after
                          /\ after # key => parseRewrites(after) # parseRewrites(key)
    BY DEF ApplyHolds
  <2>1. key \in Seq(Line)
    BY DEF TypeInv, TypeOK
  <2> DEFINE after == ApplyText(key, add, remove)
  <2>2. /\ parseRewrites(after) = Desired(parseRewrites(key), add, remove)
        /\ ApplyText(after, add, remove) = after
        /\ after # key => parseRewrites(after) # parseRewrites(key)
    BY <2>1, ApplyFacts
  <2>3. \A h \in Host: parseRewrites(after)[h] =
            IF add[h] # NoRewrite THEN add[h]
            ELSE IF h \in remove THEN NoRewrite ELSE parseRewrites(key)[h]
    BY <2>2 DEF Desired
  <2> HIDE DEF after
  <2> QED
    BY <2>2, <2>3 DEF after
<1> QED
  BY <1>1, Typed, PTL
=============================================================================
