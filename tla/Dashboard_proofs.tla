-------------------------- MODULE Dashboard_proofs --------------------------
(* Proofs about Dashboard, for any traffic, any capacity of the ring, any    *)
(* number of rows asked for, any overlap of the refreshes and any time       *)
(* after which a page is stale.                                              *)
EXTENDS Dashboard, FiniteSetTheorems, WellFoundedInduction, TLAPS

USE TrafficAssumption, CapacityAssumption, LimitAssumption, StaleAfterAssumption,
    OverlapAssumption

-----------------------------------------------------------------------------
(* Induction over data, with a set in place of a predicate. *)

(* A set of natural numbers that is not empty has a least one. *)
LEMMA LeastNumber ==
  ASSUME NEW T, T \subseteq Nat, T # {}
  PROVE  \E x \in T : \A y \in T : ~(y < x)
<1> DEFINE R == OpToRel(<, Nat)
<1>1. IsWellFoundedOn(R, Nat)
  BY NatLessThanWellFounded
<1>2. \A x, y \in Nat : y < x => <<y, x>> \in R
  BY DEF OpToRel
<1> HIDE DEF R
<1>3. PICK x \in T : \A y \in T : ~(<<y, x>> \in R)
  BY <1>1, WFMin
<1> QED
  BY <1>2, <1>3

LEMMA UpTo ==
  ASSUME NEW S, 0 \in S, NEW n \in Nat, \A i \in 1..n : i - 1 \in S => i \in S
  PROVE  \A i \in 0..n : i \in S
<1> SUFFICES ASSUME NEW i \in 0..n, i \notin S PROVE FALSE
  OBVIOUS
<1> DEFINE T == {j \in 0..n : j \notin S}
<1>1. PICK x \in T : \A y \in T : ~(y < x)
  <2>1. T \subseteq Nat /\ i \in T
    BY SMTT(30)
  <2> QED
    BY <2>1, LeastNumber
<1>2. x \in 1..n /\ x - 1 \in 0..n /\ x - 1 < x
  BY <1>1
<1>3. x - 1 \in S
  BY <1>1, <1>2
<1> QED
  BY <1>1, <1>2, <1>3

-----------------------------------------------------------------------------
(* What a tally adds up to.  Each key counts a set of its own: the sums over *)
(* sets of keys are the sizes of the unions of theirs, which satisfies the   *)
(* equation of the recursion in Entries, and nothing else does.              *)
Union(A, keys) == UNION {A[k] : k \in keys}

(* A family of finite, disjoint sets over finitely many keys. *)
Disjoint(A) ==
    /\ IsFiniteSet(DOMAIN A)
    /\ \A k \in DOMAIN A : IsFiniteSet(A[k])
    /\ \A k, l \in DOMAIN A : k # l => A[k] \cap A[l] = {}

LEMMA UnionFinite ==
  ASSUME NEW A, Disjoint(A), NEW keys \in SUBSET DOMAIN A
  PROVE  IsFiniteSet(Union(A, keys)) /\ Cardinality(Union(A, keys)) \in Nat
<1> DEFINE parts == {A[k] : k \in keys}
<1>1. IsFiniteSet(keys)
  BY FS_Subset DEF Disjoint
<1>2. IsFiniteSet(parts)
  <2> DEFINE f == [k \in keys |-> A[k]]
  <2>1. f \in Surjection(keys, parts)
    BY DEF Surjection
  <2> QED
    BY <1>1, <2>1, FS_Surjection
<1> QED
  BY <1>2, FS_UNION, FS_CardinalityType DEF Union, Disjoint

LEMMA UnionOneMore ==
  ASSUME NEW A, Disjoint(A), NEW keys \in SUBSET DOMAIN A, NEW k \in keys
  PROVE  Cardinality(Union(A, keys)) = Cardinality(A[k]) + Cardinality(Union(A, keys \ {k}))
<1> DEFINE rest == Union(A, keys \ {k})
<1>1. IsFiniteSet(A[k]) /\ IsFiniteSet(rest)
  BY UnionFinite DEF Disjoint
<1>2. Union(A, keys) = A[k] \cup rest /\ A[k] \cap rest = {}
  BY DEF Union, Disjoint
<1>3. Cardinality(A[k] \cap rest) = 0
  BY <1>2, FS_EmptySet
<1>4. Cardinality(A[k]) \in Nat /\ Cardinality(rest) \in Nat
  BY <1>1, FS_CardinalityType
<1> HIDE DEF rest
<1>5. Cardinality(A[k] \cup rest)
        = Cardinality(A[k]) + Cardinality(rest) - Cardinality(A[k] \cap rest)
  BY <1>1, FS_Union
<1>6. Cardinality(A[k] \cup rest) = Cardinality(A[k]) + Cardinality(rest)
  BY <1>3, <1>4, <1>5
<1> QED
  BY <1>2, <1>6, Zenon DEF rest

SumOver(f, sum, keys) ==
    IF keys = {} THEN 0
    ELSE LET k == CHOOSE k \in keys : TRUE IN f[k] + sum[keys \ {k}]

LEMMA SumOverSizes ==
  ASSUME NEW A, Disjoint(A), NEW keys \in SUBSET DOMAIN A,
         NEW f, \A k \in DOMAIN A : f[k] = Cardinality(A[k]),
         NEW sum, \A k \in keys : sum[keys \ {k}] = Cardinality(Union(A, keys \ {k}))
  PROVE  SumOver(f, sum, keys) = Cardinality(Union(A, keys))
<1>1. CASE keys = {}
  <2>1. Union(A, keys) = {}
    BY <1>1 DEF Union
  <2> QED
    BY <1>1, <2>1, FS_EmptySet, Zenon DEF SumOver
<1>2. CASE keys # {}
  <2> DEFINE k == CHOOSE k \in keys : TRUE
  <2>1. k \in keys
    BY <1>2
  <2>2. SumOver(f, sum, keys) = f[k] + sum[keys \ {k}]
    BY <1>2, Zenon DEF SumOver
  <2> HIDE DEF k
  <2>3. f[k] = Cardinality(A[k]) /\ sum[keys \ {k}] = Cardinality(Union(A, keys \ {k}))
    BY <2>1
  <2>4. Cardinality(Union(A, keys)) = Cardinality(A[k]) + Cardinality(Union(A, keys \ {k}))
    BY <2>1, UnionOneMore
  <2> QED
    BY <2>2, <2>3, <2>4, Zenon
<1> QED
  BY <1>1, <1>2

LEMMA EntriesAddUp ==
  ASSUME NEW A, Disjoint(A), NEW f, DOMAIN f = DOMAIN A,
         \A k \in DOMAIN A : f[k] = Cardinality(A[k])
  PROVE  Entries(f) = Cardinality(Union(A, DOMAIN A))
<1> DEFINE D == DOMAIN A
           g == CHOOSE sum : sum = [keys \in SUBSET D |-> SumOver(f, sum, keys)]
<1>1. Entries(f) = g[D]
  BY Zenon DEF Entries, SumOver
<1>2. g = [keys \in SUBSET D |-> SumOver(f, g, keys)]
  <2> DEFINE h == [keys \in SUBSET D |-> Cardinality(Union(A, keys))]
  <2>1. ASSUME NEW keys \in SUBSET D PROVE SumOver(f, h, keys) = h[keys]
    <3>1. \A k \in keys : keys \ {k} \in SUBSET D
      OBVIOUS
    <3>2. h[keys] = Cardinality(Union(A, keys))
      OBVIOUS
    <3>3. \A k \in keys : h[keys \ {k}] = Cardinality(Union(A, keys \ {k}))
      BY <3>1
    <3> HIDE DEF h
    <3> QED
      BY <3>2, <3>3, SumOverSizes
  <2>2. h = [keys \in SUBSET D |-> h[keys]]
    OBVIOUS
  <2> HIDE DEF h
  <2>3. h = [keys \in SUBSET D |-> SumOver(f, h, keys)]
    BY <2>1, <2>2, Zenon
  <2> QED
    BY <2>3, Zenon
<1> HIDE DEF g
<1>3. \A keys \in SUBSET D : g[keys] = SumOver(f, g, keys)
  BY <1>2, Zenon
<1> DEFINE Right == {n \in Nat : \A keys \in SUBSET D :
                        Cardinality(keys) = n => g[keys] = Cardinality(Union(A, keys))}
<1>4. IsFiniteSet(D) /\ Cardinality(D) \in Nat
  BY FS_CardinalityType DEF Disjoint
<1>5. \A keys \in SUBSET D : IsFiniteSet(keys) /\ Cardinality(keys) \in Nat
  BY <1>4, FS_Subset, FS_CardinalityType
<1>6. 0 \in Right
  <2> SUFFICES ASSUME NEW keys \in SUBSET D, Cardinality(keys) = 0
               PROVE  g[keys] = Cardinality(Union(A, keys))
    OBVIOUS
  <2>1. keys = {}
    BY <1>5, FS_EmptySet
  <2>2. SumOver(f, g, keys) = Cardinality(Union(A, keys))
    BY <2>1, SumOverSizes
  <2> QED
    BY <1>3, <2>2, Zenon
<1>7. ASSUME NEW n \in 1..Cardinality(D), n - 1 \in Right PROVE n \in Right
  <2> SUFFICES ASSUME NEW keys \in SUBSET D, Cardinality(keys) = n
               PROVE  g[keys] = Cardinality(Union(A, keys))
    BY <1>4
  <2>1. ASSUME NEW k \in keys PROVE g[keys \ {k}] = Cardinality(Union(A, keys \ {k}))
    <3>1. Cardinality(keys \ {k}) = n - 1
      BY <1>5, FS_RemoveElement
    <3> QED
      BY <1>7, <3>1
  <2>2. SumOver(f, g, keys) = Cardinality(Union(A, keys))
    BY <2>1, SumOverSizes
  <2> QED
    BY <1>3, <2>2, Zenon
<1>8. Cardinality(D) \in Right
  <2> HIDE DEF Right
  <2>1. \A n \in 0..Cardinality(D) : n \in Right
    BY <1>4, <1>6, <1>7, UpTo
  <2> QED
    BY <1>4, <2>1
<1> QED
  BY <1>1, <1>8

(* A tally counts every record whose field is not None, once. *)
LEMMA TallyAddsUp ==
  ASSUME NEW ring, IsFiniteSet(DOMAIN ring), NEW field
  PROVE  Entries(Tally(ring, field)) = Cardinality({i \in DOMAIN ring : ring[i][field] # "none"})
<1> DEFINE all == {ring[i][field] : i \in DOMAIN ring}
           keys == all \ {"none"}
           A == [k \in keys |-> {i \in DOMAIN ring : ring[i][field] = k}]
<1>1. IsFiniteSet(keys)
  <2> DEFINE g == [i \in DOMAIN ring |-> ring[i][field]]
  <2>1. g \in Surjection(DOMAIN ring, all)
    BY DEF Surjection
  <2>2. IsFiniteSet(all)
    BY <2>1, FS_Surjection
  <2> QED
    BY <2>2, FS_Subset
<1>2. DOMAIN A = keys /\ \A k \in keys : A[k] = {i \in DOMAIN ring : ring[i][field] = k}
  OBVIOUS
<1>3. DOMAIN Tally(ring, field) = keys
  BY Zenon DEF Tally
<1>4. \A k \in keys : Tally(ring, field)[k] = Cardinality({i \in DOMAIN ring : ring[i][field] = k})
  BY Zenon DEF Tally
<1>5. Union(A, keys) = {i \in DOMAIN ring : ring[i][field] # "none"}
  <2>1. \A i : i \in Union(A, keys) <=> \E k \in keys : i \in A[k]
    BY Zenon DEF Union
  <2>2. \A i : i \in Union(A, keys) <=> \E k \in keys : i \in DOMAIN ring /\ ring[i][field] = k
    BY <1>2, <2>1
  <2> QED
    BY <2>2
<1> HIDE DEF A, keys
<1>6. Disjoint(A)
  <2>1. \A k \in keys : IsFiniteSet(A[k])
    BY <1>2, FS_Subset
  <2> QED
    BY <1>1, <1>2, <2>1 DEF Disjoint
<1>7. \A k \in DOMAIN A : Tally(ring, field)[k] = Cardinality(A[k])
  BY <1>2, <1>4, Zenon
<1>8. Entries(Tally(ring, field)) = Cardinality(Union(A, DOMAIN A))
  BY <1>2, <1>3, <1>6, <1>7, EntriesAddUp
<1> QED
  BY <1>2, <1>5, <1>8, Zenon

(* The findings of a ring, each by its record and its place there. *)
Places(ring) == UNION {{<<i, j>> : j \in DOMAIN ring[i].findings} : i \in DOMAIN ring}

LEMMA PlacesFinite ==
  ASSUME NEW ring, IsFiniteSet(DOMAIN ring),
         \A i \in DOMAIN ring : IsFiniteSet(DOMAIN ring[i].findings)
  PROVE  IsFiniteSet(Places(ring))
<1> DEFINE of(i) == {<<i, j>> : j \in DOMAIN ring[i].findings}
           parts == {of(i) : i \in DOMAIN ring}
<1>1. ASSUME NEW i \in DOMAIN ring PROVE IsFiniteSet(of(i))
  <2> DEFINE g == [j \in DOMAIN ring[i].findings |-> <<i, j>>]
  <2>1. g \in Surjection(DOMAIN ring[i].findings, of(i))
    BY DEF Surjection
  <2> QED
    BY <2>1, FS_Surjection
<1>2. IsFiniteSet(parts)
  <2> HIDE DEF of
  <2> DEFINE h == [i \in DOMAIN ring |-> of(i)]
  <2>1. h \in Surjection(DOMAIN ring, parts)
    BY DEF Surjection
  <2> QED
    BY <2>1, FS_Surjection
<1>3. \A T \in parts : IsFiniteSet(T)
  BY <1>1
<1>4. Places(ring) = UNION parts
  BY DEF Places
<1> HIDE DEF parts
<1> QED
  BY <1>2, <1>3, <1>4, FS_UNION

LEMMA PlacesAre ==
  ASSUME NEW ring, NEW p
  PROVE  p \in Places(ring) <=>
            \E i \in DOMAIN ring : \E j \in DOMAIN ring[i].findings : p = <<i, j>>
<1> DEFINE of(i) == {<<i, j>> : j \in DOMAIN ring[i].findings}
<1>1. \A i : p \in of(i) <=> \E j \in DOMAIN ring[i].findings : p = <<i, j>>
  OBVIOUS
<1>2. Places(ring) = UNION {of(i) : i \in DOMAIN ring}
  BY DEF Places
<1> HIDE DEF of
<1>3. p \in Places(ring) <=> \E i \in DOMAIN ring : p \in of(i)
  BY <1>2
<1> QED
  BY <1>1, <1>3

(* The findings counted by scanner are at least the records that have one. *)
LEMMA ScannersAddUp ==
  ASSUME NEW ring, IsFiniteSet(DOMAIN ring),
         \A i \in DOMAIN ring : ring[i].findings \in Seq(STRING)
  PROVE  Entries(Scanners(ring)) >= Cardinality({i \in DOMAIN ring : ring[i].findings # <<>>})
<1> DEFINE found == UNION {Range(ring[i].findings) : i \in DOMAIN ring}
           Hits(scanner) == UNION {{<<i, j>> : j \in {n \in DOMAIN ring[i].findings :
                                                        ring[i].findings[n] = scanner}} :
                                   i \in DOMAIN ring}
           A == [scanner \in found |-> Hits(scanner)]
           flagged == {i \in DOMAIN ring : ring[i].findings # <<>>}
<1>1. ASSUME NEW i \in DOMAIN ring
      PROVE  /\ IsFiniteSet(DOMAIN ring[i].findings)
             /\ ring[i].findings # <<>> => 1 \in DOMAIN ring[i].findings
  <2>1. PICK s \in Seq(STRING) : s = ring[i].findings
    OBVIOUS
  <2>2. Len(s) \in Nat /\ DOMAIN s = 1..Len(s)
    OBVIOUS
  <2>3. IsFiniteSet(1..Len(s))
    BY <2>2, FS_Interval
  <2>4. s # <<>> => Len(s) >= 1
    BY <2>2
  <2> QED
    BY <2>1, <2>2, <2>3, <2>4
<1>2. IsFiniteSet(Places(ring))
  <2>1. ASSUME NEW i \in DOMAIN ring PROVE IsFiniteSet(DOMAIN ring[i].findings)
    BY <1>1, Zenon
  <2> QED
    BY <2>1, PlacesFinite, Zenon
<1>3. \A scanner, p : p \in Hits(scanner) <=>
        \E i \in DOMAIN ring : \E j \in DOMAIN ring[i].findings :
            ring[i].findings[j] = scanner /\ p = <<i, j>>
  <2> SUFFICES ASSUME NEW scanner, NEW p
               PROVE  p \in Hits(scanner) <=>
                        \E i \in DOMAIN ring : \E j \in DOMAIN ring[i].findings :
                            ring[i].findings[j] = scanner /\ p = <<i, j>>
    OBVIOUS
  <2> DEFINE of(i) == {<<i, j>> : j \in {n \in DOMAIN ring[i].findings :
                                        ring[i].findings[n] = scanner}}
  <2>1. \A i : p \in of(i) <=>
            \E j \in DOMAIN ring[i].findings : ring[i].findings[j] = scanner /\ p = <<i, j>>
    OBVIOUS
  <2>2. Hits(scanner) = UNION {of(i) : i \in DOMAIN ring}
    BY Zenon
  <2> HIDE DEF of, Hits
  <2>3. p \in Hits(scanner) <=> \E i \in DOMAIN ring : p \in of(i)
    BY <2>2
  <2> QED
    BY <2>1, <2>3
<1>31. \A scanner : scanner \in found <=>
        \E i \in DOMAIN ring : \E j \in DOMAIN ring[i].findings : ring[i].findings[j] = scanner
  <2> DEFINE of(i) == Range(ring[i].findings)
  <2>1. \A i, scanner : scanner \in of(i) <=>
            \E j \in DOMAIN ring[i].findings : ring[i].findings[j] = scanner
    BY DEF Range
  <2>2. found = UNION {of(i) : i \in DOMAIN ring}
    BY Zenon
  <2> HIDE DEF of, found
  <2>3. \A scanner : scanner \in found <=> \E i \in DOMAIN ring : scanner \in of(i)
    BY <2>2
  <2> QED
    BY <2>1, <2>3
<1>32. \A i \in DOMAIN ring : \A j \in DOMAIN ring[i].findings : <<i, j>> \in Places(ring)
  BY PlacesAre
<1>33. \A scanner : Hits(scanner) \subseteq Places(ring)
  <2> HIDE DEF Hits
  <2> SUFFICES ASSUME NEW scanner, NEW p \in Hits(scanner) PROVE p \in Places(ring)
    OBVIOUS
  <2> QED
    BY <1>3, PlacesAre
<1>4. IsFiniteSet(found)
  <2> DEFINE g == [p \in Places(ring) |-> ring[p[1]].findings[p[2]]]
  <2> HIDE DEF found, Hits
  <2>1. \A p \in Places(ring) : g[p] \in found
    BY <1>31, PlacesAre
  <2>2. ASSUME NEW scanner \in found PROVE \E p \in Places(ring) : g[p] = scanner
    <3>1. PICK i, j : i \in DOMAIN ring /\ j \in DOMAIN ring[i].findings /\ ring[i].findings[j] = scanner
      BY <1>31
    <3>2. <<i, j>> \in Places(ring)
      BY <1>32, <3>1
    <3> QED
      BY <3>1, <3>2
  <2>3. g \in Surjection(Places(ring), found)
    <3>1. DOMAIN g = Places(ring) /\ g = [p \in Places(ring) |-> g[p]]
      OBVIOUS
    <3> HIDE DEF g
    <3> QED
      BY <2>1, <2>2, <3>1 DEF Surjection
  <2> QED
    BY <1>2, <2>3, FS_Surjection
<1>5. DOMAIN A = found /\ \A scanner \in found : A[scanner] = Hits(scanner)
  OBVIOUS
<1>6. DOMAIN Scanners(ring) = found
      /\ \A scanner \in found : Scanners(ring)[scanner] = Cardinality(Hits(scanner))
  BY Zenon DEF Scanners
<1>7. Disjoint(A)
  <2> HIDE DEF A, found, Hits
  <2>1. \A scanner \in found : IsFiniteSet(Hits(scanner))
    BY <1>2, <1>33, FS_Subset
  <2>2. \A k, l \in found : k # l => Hits(k) \cap Hits(l) = {}
    BY <1>3
  <2> QED
    BY <1>4, <1>5, <2>1, <2>2 DEF Disjoint
<1>8. Union(A, found) = Places(ring)
  <2> HIDE DEF A, found, Hits
  <2>1. \A p : p \in Union(A, found) <=> \E scanner \in found : p \in A[scanner]
    BY Zenon DEF Union
  <2>2. ASSUME NEW p \in Places(ring) PROVE \E scanner \in found : p \in A[scanner]
    <3>1. PICK i, j : i \in DOMAIN ring /\ j \in DOMAIN ring[i].findings /\ p = <<i, j>>
      BY PlacesAre
    <3>2. ring[i].findings[j] \in found /\ p \in Hits(ring[i].findings[j])
      BY <1>3, <1>31, <3>1
    <3> QED
      BY <1>5, <3>2
  <2>3. \A scanner \in found : A[scanner] \subseteq Places(ring)
    BY <1>5, <1>33
  <2> QED
    BY <2>1, <2>2, <2>3
<1>9. Entries(Scanners(ring)) = Cardinality(Places(ring))
  <2> HIDE DEF A, found, Hits
  <2>1. \A k \in DOMAIN A : Scanners(ring)[k] = Cardinality(A[k])
    BY <1>5, <1>6, Zenon
  <2>2. Entries(Scanners(ring)) = Cardinality(Union(A, DOMAIN A))
    BY <1>5, <1>6, <1>7, <2>1, EntriesAddUp
  <2> QED
    BY <1>5, <1>8, <2>2, Zenon
<1>10. IsFiniteSet(flagged) /\ Cardinality(flagged) <= Cardinality(Places(ring))
  <2> DEFINE g == [p \in Places(ring) |-> p[1]]
  <2>1. ASSUME NEW p \in Places(ring) PROVE g[p] \in flagged
    <3>1. PICK i, j : i \in DOMAIN ring /\ j \in DOMAIN ring[i].findings /\ p = <<i, j>>
      BY PlacesAre
    <3>2. ring[i].findings # <<>>
      <4>1. j \in DOMAIN ring[i].findings /\ j \notin DOMAIN <<>>
        BY <3>1
      <4> QED
        BY <4>1, Zenon
    <3> QED
      BY <3>1, <3>2
  <2>2. ASSUME NEW i \in flagged PROVE \E p \in Places(ring) : g[p] = i
    <3>1. <<i, 1>> \in Places(ring)
      BY <1>1, <1>32
    <3> QED
      BY <3>1
  <2>3. g \in Surjection(Places(ring), flagged)
    <3>1. DOMAIN g = Places(ring) /\ g = [p \in Places(ring) |-> g[p]]
      OBVIOUS
    <3> HIDE DEF g, flagged
    <3> QED
      BY <2>1, <2>2, <3>1 DEF Surjection
  <2> QED
    BY <1>2, <2>3, FS_Surjection
<1>11. Cardinality(flagged) \in Nat /\ Cardinality(Places(ring)) \in Nat
  BY <1>2, <1>10, FS_CardinalityType
<1> QED
  BY <1>9, <1>10, <1>11

-----------------------------------------------------------------------------
(* What the two routes answer of a content of the ring. *)
Contents == {s \in Seq(Range(Traffic)) : Len(s) <= Capacity}

LEMMA ContentsAre ==
  ASSUME NEW ring \in Contents
  PROVE  /\ Len(ring) \in 0..Capacity /\ DOMAIN ring = 1..Len(ring)
         /\ Range(ring) \subseteq Range(Traffic)
         /\ IsFiniteSet(DOMAIN ring) /\ Cardinality(DOMAIN ring) = Len(ring)
         /\ \A i \in DOMAIN ring : ring[i] \in Records
<1>1. Len(ring) \in 0..Capacity /\ DOMAIN ring = 1..Len(ring)
  BY DEF Contents
<1>2. \A i \in DOMAIN ring : ring[i] \in Range(Traffic)
  BY DEF Contents
<1>3. Range(Traffic) \subseteq Records
  <2>1. \A n \in DOMAIN Traffic : Traffic[n] \in Records
    BY DEF TrafficAssumption
  <2> QED
    BY <2>1 DEF Range
<1>4. IsFiniteSet(1..Len(ring)) /\ Cardinality(1..Len(ring)) = Len(ring)
  <2>1. \A n \in Nat : IsFiniteSet(1..n) /\ Cardinality(1..n) = n
    BY FS_Interval
  <2>2. Len(ring) \in Nat
    BY <1>1
  <2> QED
    BY <2>1, <2>2, Zenon
<1> QED
  BY <1>1, <1>2, <1>3, <1>4 DEF Range

LEMMA SummaryAddsUp ==
  ASSUME NEW ring \in Contents
  PROVE  AddUp(Summarise(ring), ring)
<1> DEFINE allowed == {i \in DOMAIN ring : ring[i].verdict = "allowed"}
           rejected == {i \in DOMAIN ring : ring[i].verdict = "rejected"}
           flagged == {i \in DOMAIN ring : ring[i].findings # <<>>}
           cards == Summarise(ring)
<1>1. IsFiniteSet(DOMAIN ring) /\ Cardinality(DOMAIN ring) = Len(ring)
  BY ContentsAre
<1>2. ASSUME NEW i \in DOMAIN ring
      PROVE  /\ ring[i].verdict \in {"allowed", "rejected"}
             /\ ring[i].by # "none" <=> ring[i].verdict = "rejected"
             /\ ring[i].model # "none"
             /\ ring[i].findings \in Seq(STRING)
  BY ContentsAre DEF Records
<1>3. {i \in DOMAIN ring : ring[i]["by"] # "none"} = rejected
  BY <1>2
<1>4. {i \in DOMAIN ring : ring[i]["model"] # "none"} = DOMAIN ring
  BY <1>2
<1>5. rejected = DOMAIN ring \ allowed /\ DOMAIN ring \cap allowed = allowed
  BY <1>2
<1>6. /\ cards.total = Len(ring)
      /\ cards.allowed = Allowed(ring)
      /\ cards.rejected = Len(ring) - Allowed(ring)
      /\ cards.byMiddleware = Tally(ring, "by")
      /\ cards.byModel = Tally(ring, "model")
      /\ cards.byScanner = Scanners(ring)
  BY DEF Summarise
<1>7. Allowed(ring) = Cardinality(allowed)
  BY DEF Allowed
<1> HIDE DEF allowed, rejected, flagged, cards
<1>8. Len(ring) \in Nat /\ Allowed(ring) \in Nat
  <2>1. IsFiniteSet(allowed)
    BY <1>1, <1>5, FS_Intersection
  <2> QED
    BY <1>1, <1>7, <2>1, FS_CardinalityType
<1>9. Cardinality(rejected) = Len(ring) - Allowed(ring)
  <2>1. Cardinality(DOMAIN ring \ allowed)
          = Cardinality(DOMAIN ring) - Cardinality(DOMAIN ring \cap allowed)
    BY <1>1, FS_Difference
  <2> QED
    BY <1>1, <1>5, <1>7, <2>1, Zenon
<1>10. Entries(Tally(ring, "by")) = Cardinality(rejected)
  BY <1>1, <1>3, TallyAddsUp
<1>11. Entries(Tally(ring, "model")) = Len(ring)
  BY <1>1, <1>4, TallyAddsUp
<1>12. Entries(Scanners(ring)) >= Cardinality(flagged)
  BY <1>1, <1>2, ScannersAddUp DEF flagged
<1> QED
  BY <1>6, <1>8, <1>9, <1>10, <1>11, <1>12 DEF AddUp, rejected, flagged, cards

LEMMA RecentIsNewest ==
  ASSUME NEW ring \in Contents
  PROVE  Len(Recent(ring)) <= Limit /\ NewestFirst(Recent(ring), ring)
<1> DEFINE back == Reverse(ring)
           m == IF Len(back) < Limit THEN Len(back) ELSE Limit
<1>1. Len(ring) \in Nat
  BY ContentsAre
<1>2. back \in Seq(Range(ring)) /\ Len(back) = Len(ring)
      /\ \A k \in 1..Len(ring) : back[k] = ring[Len(ring) - k + 1]
  BY <1>1, ContentsAre DEF Reverse, Range
<1>3. Recent(ring) = SubSeq(back, 1, m)
  BY Zenon DEF Recent, Truncated
<1> HIDE DEF back
<1>4. m \in Nat /\ m <= Limit /\ m <= Len(ring)
  BY <1>1, <1>2
<1>5. \A k \in 1..Limit : k <= m <=> k <= Len(ring)
  BY <1>1, <1>2
<1> HIDE DEF m
<1>6. Len(Recent(ring)) = m /\ DOMAIN Recent(ring) = 1..m
      /\ \A k \in 1..m : Recent(ring)[k] = back[k]
  BY <1>1, <1>2, <1>3, <1>4
<1>7. \A k \in 1..m : Recent(ring)[k] = ring[Len(ring) + 1 - k]
  BY <1>1, <1>2, <1>4, <1>6
<1> QED
  BY <1>1, <1>4, <1>5, <1>6, <1>7 DEF NewestFirst

-----------------------------------------------------------------------------
(* The inductive invariant.  What a refresh in flight holds was answered     *)
(* from contents the ring has had since the refresh began; every content is  *)
(* a piece of the traffic no longer than the ring; and the tab's title tells *)
(* of the dot and of the age.                                               *)
RingsOK(r) == r \in Seq(Contents) /\ Len(r) \in 1..MaxRings

Answers(values) == {<<>>} \cup {<<a>> : a \in values}
Refreshes == [since : Nat,
              summary : Answers({Summarise(ring) : ring \in Contents}),
              recent : Answers({Recent(ring) : ring \in Contents}),
              rejected : BOOLEAN]

Told(f, r) ==
    /\ f.since \in 1..Len(r)
    /\ f.summary = <<>> \/ \E n \in f.since..Len(r) : f.summary = <<Summarise(r[n])>>
    /\ f.recent = <<>> \/ \E n \in f.since..Len(r) : f.recent = <<Recent(r[n])>>

FlightsOK(fl, r) ==
    /\ fl \in Seq(Refreshes)
    /\ Len(fl) <= Overlap
    /\ \A i \in 1..Len(fl) : Told(fl[i], r)

Truthful(d, t, seconds) ==
    /\ t = "live" => seconds <= StaleAfter /\ "error" \notin d
    /\ t = "error" <=> "error" \in d

PageOK ==
    /\ up \in BOOLEAN /\ paused \in BOOLEAN
    /\ AtMostOne(shown)
    /\ dot \subseteq {"error", "stale"}
    /\ title \in {"live", "stale", "error"}
    /\ age \in 0..Oldest
    /\ Seen => Truthful(dot, title, age)

DashboardInv == RingsOK(rings) /\ FlightsOK(flights, rings) /\ PageOK

LEMMA RingsLast ==
  ASSUME NEW r, RingsOK(r)
  PROVE  Len(r) \in Nat /\ r[Len(r)] \in Contents /\ Last(r) = r[Len(r)]
BY DEF RingsOK, Last

LEMMA RingsGrow ==
  ASSUME NEW r, RingsOK(r), Len(r) < MaxRings, NEW c \in Contents,
         NEW fl, FlightsOK(fl, r)
  PROVE  RingsOK(Append(r, c)) /\ FlightsOK(fl, Append(r, c))
<1>0. MaxRings \in Nat
  BY DEF MaxRings
<1>1. PICK l \in Nat : l = Len(r) /\ l >= 1 /\ l < MaxRings
  BY DEF RingsOK
<1>2. Append(r, c) \in Seq(Contents) /\ Len(Append(r, c)) = l + 1
      /\ \A n \in 1..l : Append(r, c)[n] = r[n]
  BY <1>1 DEF RingsOK
<1>3. PICK later : later = Append(r, c)
  OBVIOUS
<1>4. ASSUME NEW f \in Refreshes, Told(f, r) PROVE Told(f, later)
  <2>1. f.since \in 1..l /\ 1..l \subseteq 1..l + 1 /\ f.since..l \subseteq f.since..l + 1
        /\ f.since..l \subseteq 1..l
    BY <1>1, <1>4 DEF Told
  <2> QED
    BY <1>1, <1>2, <1>3, <1>4, <2>1 DEF Told
<1>5. RingsOK(later)
  BY <1>0, <1>1, <1>2, <1>3 DEF RingsOK
<1>6. FlightsOK(fl, later)
  BY <1>4 DEF FlightsOK
<1> QED
  BY <1>3, <1>5, <1>6, Zenon

LEMMA FlightBegins ==
  ASSUME NEW r, RingsOK(r), NEW fl, FlightsOK(fl, r), Len(fl) < Overlap
  PROVE  FlightsOK(Append(fl, [since |-> Len(r), summary |-> <<>>, recent |-> <<>>,
                               rejected |-> FALSE]), r)
<1> DEFINE f == [since |-> Len(r), summary |-> <<>>, recent |-> <<>>, rejected |-> FALSE]
<1>1. f \in Refreshes /\ Told(f, r)
  <2>1. <<>> \in Answers({Summarise(ring) : ring \in Contents})
        /\ <<>> \in Answers({Recent(ring) : ring \in Contents})
    BY Zenon DEF Answers
  <2>2. Len(r) \in Nat /\ Len(r) \in 1..Len(r)
    BY DEF RingsOK
  <2> QED
    BY <2>1, <2>2 DEF Refreshes, Told
<1> HIDE DEF f
<1>2. Append(fl, f) \in Seq(Refreshes) /\ Len(Append(fl, f)) = Len(fl) + 1 /\ Len(fl) \in Nat
      /\ \A i \in 1..Len(fl) + 1 : Append(fl, f)[i] = IF i <= Len(fl) THEN fl[i] ELSE f
  BY <1>1 DEF FlightsOK
<1>3. \A i \in 1..Len(fl) + 1 : Told(Append(fl, f)[i], r)
  BY <1>1, <1>2 DEF FlightsOK
<1>4. FlightsOK(Append(fl, f), r)
  BY <1>2, <1>3 DEF FlightsOK
<1> QED
  BY <1>4 DEF f

LEMMA FlightAnswered ==
  ASSUME NEW r, RingsOK(r), NEW fl, FlightsOK(fl, r), NEW i \in DOMAIN fl
  PROVE  /\ FlightsOK([fl EXCEPT ![i].summary = <<Summarise(Last(r))>>], r)
         /\ FlightsOK([fl EXCEPT ![i].recent = <<Recent(Last(r))>>], r)
         /\ FlightsOK([fl EXCEPT ![i].rejected = TRUE, ![i].summary = <<>>, ![i].recent = <<>>], r)
<1>1. fl \in Seq(Refreshes) /\ Len(fl) \in Nat /\ DOMAIN fl = 1..Len(fl)
  BY DEF FlightsOK
<1>2. ASSUME NEW f \in Refreshes, Told(f, r)
      PROVE  Len(r) \in f.since..Len(r)
  BY <1>2, RingsLast DEF Told
<1>3. ASSUME NEW g \in Refreshes, Told(g, r) PROVE FlightsOK([fl EXCEPT ![i] = g], r)
  <2>1. [fl EXCEPT ![i] = g] \in Seq(Refreshes) /\ Len([fl EXCEPT ![i] = g]) = Len(fl)
        /\ \A k \in 1..Len(fl) : [fl EXCEPT ![i] = g][k] = IF k = i THEN g ELSE fl[k]
    BY <1>1
  <2> QED
    BY <1>3, <2>1 DEF FlightsOK
<1>4. fl[i] \in Refreshes /\ Told(fl[i], r)
  BY <1>1 DEF FlightsOK
<1>5. Last(r) = r[Len(r)] /\ Last(r) \in Contents
  BY RingsLast
<1>6. ASSUME NEW a, a = <<Summarise(Last(r))>>
      PROVE  [fl[i] EXCEPT !.summary = a] \in Refreshes /\ Told([fl[i] EXCEPT !.summary = a], r)
  <2>1. a \in Answers({Summarise(ring) : ring \in Contents})
    BY <1>5, <1>6, Zenon DEF Answers
  <2>2. a = <<Summarise(r[Len(r)])>>
    BY <1>5, <1>6, Zenon
  <2>3. \E n \in fl[i].since..Len(r) : a = <<Summarise(r[n])>>
    BY <1>2, <1>4, <2>2, Zenon
  <2>4. PICK f \in Refreshes : f = fl[i]
    BY <1>4
  <2>5. [f EXCEPT !.summary = a] \in Refreshes /\ [f EXCEPT !.summary = a].summary = a
        /\ [f EXCEPT !.summary = a].since = f.since /\ [f EXCEPT !.summary = a].recent = f.recent
    BY <2>1 DEF Refreshes
  <2> QED
    BY <1>4, <2>3, <2>4, <2>5, Zenon DEF Told
<1>7. ASSUME NEW a, a = <<Recent(Last(r))>>
      PROVE  [fl[i] EXCEPT !.recent = a] \in Refreshes /\ Told([fl[i] EXCEPT !.recent = a], r)
  <2>1. a \in Answers({Recent(ring) : ring \in Contents})
    BY <1>5, <1>7, Zenon DEF Answers
  <2>2. a = <<Recent(r[Len(r)])>>
    BY <1>5, <1>7, Zenon
  <2>3. \E n \in fl[i].since..Len(r) : a = <<Recent(r[n])>>
    BY <1>2, <1>4, <2>2, Zenon
  <2>4. PICK f \in Refreshes : f = fl[i]
    BY <1>4
  <2>5. [f EXCEPT !.recent = a] \in Refreshes /\ [f EXCEPT !.recent = a].recent = a
        /\ [f EXCEPT !.recent = a].since = f.since /\ [f EXCEPT !.recent = a].summary = f.summary
    BY <2>1 DEF Refreshes
  <2> QED
    BY <1>4, <2>3, <2>4, <2>5, Zenon DEF Told
<1>8. ASSUME NEW g, g = [fl[i] EXCEPT !.rejected = TRUE, !.summary = <<>>, !.recent = <<>>]
      PROVE  g \in Refreshes /\ Told(g, r)
  <2>1. PICK f \in Refreshes : f = fl[i]
    BY <1>4
  <2>2. <<>> \in Answers({Summarise(ring) : ring \in Contents})
        /\ <<>> \in Answers({Recent(ring) : ring \in Contents})
    BY Zenon DEF Answers
  <2>3. g \in Refreshes /\ g.since = f.since /\ g.summary = <<>> /\ g.recent = <<>>
    BY <1>8, <2>1, <2>2 DEF Refreshes
  <2> QED
    BY <1>4, <2>1, <2>3, Zenon DEF Told
<1>9. [fl EXCEPT ![i].rejected = TRUE, ![i].summary = <<>>, ![i].recent = <<>>] =
      [fl EXCEPT ![i] = [fl[i] EXCEPT !.rejected = TRUE, !.summary = <<>>, !.recent = <<>>]]
  BY <1>1
<1> QED
  BY <1>3, <1>6, <1>7, <1>8, <1>9

LEMMA FlightEnds ==
  ASSUME NEW r, NEW fl, FlightsOK(fl, r), NEW i \in DOMAIN fl
  PROVE  FlightsOK(RemoveAt(fl, i), r)
<1>1. PICK l \in Nat : l = Len(fl) /\ i \in 1..l
  BY DEF FlightsOK
<1>2. PICK rest : rest = RemoveAt(fl, i)
  OBVIOUS
<1>3. rest \in Seq(Refreshes) /\ Len(rest) = l - 1
      /\ \A k \in 1..l - 1 : rest[k] = IF k < i THEN fl[k] ELSE fl[k + 1]
  <2>1. PICK a : a = SubSeq(fl, 1, i - 1)
    OBVIOUS
  <2>2. a \in Seq(Refreshes) /\ Len(a) = i - 1 /\ \A k \in 1..i - 1 : a[k] = fl[k]
    BY <1>1, <2>1 DEF FlightsOK
  <2>3. PICK b : b = SubSeq(fl, i + 1, l)
    OBVIOUS
  <2>4. b \in Seq(Refreshes) /\ Len(b) = l - i /\ \A k \in 1..l - i : b[k] = fl[k + i]
    BY <1>1, <2>3 DEF FlightsOK
  <2>5. rest = a \o b
    BY <1>1, <1>2, <2>1, <2>3, Zenon DEF RemoveAt
  <2>6. rest \in Seq(Refreshes) /\ Len(rest) = Len(a) + Len(b)
        /\ \A k \in 1..Len(a) + Len(b) : rest[k] = IF k <= Len(a) THEN a[k] ELSE b[k - Len(a)]
    BY <2>2, <2>4, <2>5, SMTT(30)
  <2>7. ASSUME NEW k \in 1..l - 1 PROVE rest[k] = IF k < i THEN fl[k] ELSE fl[k + 1]
    <3>1. CASE k < i
      <4>1. k \in 1..i - 1 /\ k \in 1..(i - 1) + (l - i) /\ k <= i - 1
        BY <1>1, <3>1
      <4>2. rest[k] = a[k]
        BY <2>2, <2>4, <2>6, <4>1, SMTT(30)
      <4> QED
        BY <2>2, <3>1, <4>1, <4>2
    <3>2. CASE k >= i
      <4>1. k \in 1..(i - 1) + (l - i) /\ ~(k <= i - 1) /\ k - (i - 1) \in 1..l - i
            /\ k - (i - 1) + i = k + 1
        BY <1>1, <3>2
      <4>2. rest[k] = b[k - (i - 1)]
        BY <2>2, <2>4, <2>6, <4>1, SMTT(30)
      <4> QED
        <5>1. b[k - (i - 1)] = fl[k + 1]
          BY <2>4, <4>1, Zenon
        <5>2. ~(k < i)
          BY <1>1, <3>2
        <5> QED
          BY <4>2, <5>1, <5>2, Zenon
    <3> QED
      BY <1>1, <3>1, <3>2, SMTT(30)
  <2>8. Len(rest) = l - 1
    <3>1. Len(rest) = (i - 1) + (l - i)
      BY <2>2, <2>4, <2>6, Zenon
    <3>2. (i - 1) + (l - i) = l - 1
      BY <1>1
    <3> QED
      BY <3>1, <3>2, Zenon
  <2>9. rest \in Seq(Refreshes)
    BY <2>6, Zenon
  <2> QED
    BY <2>7, <2>8, <2>9, SMTT(30)
<1>4. \A k \in 1..l - 1 : Told(rest[k], r)
  BY <1>1, <1>3 DEF FlightsOK
<1>5. FlightsOK(rest, r)
  BY <1>1, <1>3, <1>4 DEF FlightsOK
<1> QED
  BY <1>2, <1>5, Zenon

-----------------------------------------------------------------------------
LEMMA InitDashboardInv == Init => DashboardInv
<1> SUFFICES ASSUME Init PROVE DashboardInv
  OBVIOUS
<1>1. RingsOK(rings)
  <2>1. <<>> \in Contents
    BY DEF Contents
  <2>2. Len(Traffic) \in Nat
    OBVIOUS
  <2> QED
    BY <2>1, <2>2 DEF Init, RingsOK, MaxRings
<1>2. FlightsOK(flights, rings)
  BY DEF Init, FlightsOK
<1>3. PageOK
  <2>1. Len(shown) <= 1 /\ shown = <<>>
    BY DEF Init
  <2>2. age = 0 /\ 0 \in 0..Oldest
    BY DEF Init, Oldest
  <2> QED
    BY <2>1, <2>2 DEF Init, PageOK, AtMostOne, Seen
<1> QED
  BY <1>1, <1>2, <1>3 DEF DashboardInv

(* What updateStatus leaves behind once something was rendered. *)
Late(d, seconds) == "error" \notin d /\ seconds > StaleAfter
Updates(d, seconds) ==
    /\ dot' = (d \ {"stale"}) \cup (IF Late(d, seconds) THEN {"stale"} ELSE {})
    /\ title' = IF "error" \in d THEN "error" ELSE IF Late(d, seconds) THEN "stale" ELSE "live"

LEMMA StatusTold ==
  ASSUME NEW d \in SUBSET {"error", "stale"}, NEW seconds \in Nat, Updates(d, seconds)
  PROVE  /\ dot' \subseteq {"error", "stale"}
         /\ title' \in {"live", "stale", "error"}
         /\ Truthful(dot', title', seconds)
<1>1. dot' \subseteq {"error", "stale"} /\ ("error" \in dot' <=> "error" \in d)
  BY DEF Updates
<1>2. title' \in {"live", "stale", "error"} /\ (title' = "error" <=> "error" \in d)
  BY DEF Updates
<1>3. title' = "live" => "error" \notin d /\ seconds <= StaleAfter
  BY DEF Updates, Late
<1> QED
  BY <1>1, <1>2, <1>3, Zenon DEF Truthful

LEMMA AuditKeeps == DashboardInv /\ Audit => DashboardInv'
<1> SUFFICES ASSUME DashboardInv, Audit PROVE DashboardInv'
  OBVIOUS
<1> DEFINE s == Append(Ring, Traffic[Len(rings)])
           c == IF Len(s) > Capacity THEN Tail(s) ELSE s
<1>1. Ring \in Contents
  BY RingsLast DEF DashboardInv, Ring
<1>2. Traffic[Len(rings)] \in Range(Traffic)
  BY DEF Audit, DashboardInv, RingsOK, MaxRings, Range
<1>3. c \in Contents
  <2>1. PICK l \in Nat : l = Len(Ring) /\ l <= Capacity
    BY <1>1 DEF Contents
  <2>2. s \in Seq(Range(Traffic)) /\ Len(s) = l + 1
    BY <1>1, <1>2, <2>1 DEF Contents
  <2> HIDE DEF s
  <2>3. Tail(s) \in Seq(Range(Traffic)) /\ Len(Tail(s)) = l
    BY <2>1, <2>2
  <2> QED
    BY <2>1, <2>2, <2>3 DEF Contents
<1>4. rings' = Append(rings, c) /\ Len(rings) < MaxRings
  BY Zenon DEF Audit
<1> HIDE DEF c
<1>5. RingsOK(Append(rings, c)) /\ FlightsOK(flights, Append(rings, c))
  BY <1>3, <1>4, RingsGrow DEF DashboardInv
<1>6. flights' = flights
  BY DEF Audit
<1>7. RingsOK(rings') /\ FlightsOK(flights', rings')
  BY <1>4, <1>5, <1>6, Zenon
<1>8. PageOK'
  BY DEF Audit, DashboardInv, PageOK, Seen, AtMostOne
<1> QED
  BY <1>7, <1>8, Zenon DEF DashboardInv

LEMMA ReturnKeeps == DashboardInv /\ Return => DashboardInv'
<1> SUFFICES ASSUME DashboardInv, Return PROVE DashboardInv'
  OBVIOUS
<1>1. <<>> \in Contents
  BY DEF Contents
<1>2. RingsOK(rings') /\ FlightsOK(flights', rings')
  <2>1. flights' = flights
    BY DEF Return
  <2>2. CASE rings' = rings
    BY <2>1, <2>2, Zenon DEF DashboardInv
  <2>3. CASE rings' = Append(rings, <<>>) /\ Len(rings) < MaxRings
    <3>1. RingsOK(Append(rings, <<>>)) /\ FlightsOK(flights, Append(rings, <<>>))
      BY <1>1, <2>3, RingsGrow DEF DashboardInv
    <3> QED
      BY <2>1, <2>3, <3>1, Zenon
  <2> QED
    BY <2>2, <2>3, Zenon DEF Return
<1>3. PageOK'
  BY DEF Return, DashboardInv, PageOK, Seen, AtMostOne
<1> QED
  BY <1>2, <1>3, Zenon DEF DashboardInv

LEMMA RefreshKeeps == DashboardInv /\ Refresh => DashboardInv'
<1> SUFFICES ASSUME DashboardInv, Refresh PROVE DashboardInv'
  OBVIOUS
<1> DEFINE more == Append(flights, [since |-> Len(rings), summary |-> <<>>, recent |-> <<>>,
                                    rejected |-> FALSE])
<1>1. FlightsOK(more, rings)
  BY FlightBegins DEF Refresh, DashboardInv
<1>2. flights' = more /\ rings' = rings
  BY DEF Refresh, Begun
<1>3. RingsOK(rings') /\ FlightsOK(flights', rings')
  BY <1>1, <1>2, Zenon DEF DashboardInv
<1>4. PageOK'
  BY DEF Refresh, DashboardInv, PageOK, Seen, AtMostOne
<1> QED
  BY <1>3, <1>4, Zenon DEF DashboardInv

LEMMA AnswerKeeps ==
  ASSUME DashboardInv, NEW i \in DOMAIN flights, AnswerSummary(i) \/ AnswerRecent(i) \/ Reject(i)
  PROVE  DashboardInv'
<1> DEFINE one == [flights EXCEPT ![i].summary = <<Summarise(Last(rings))>>]
           other == [flights EXCEPT ![i].recent = <<Recent(Last(rings))>>]
           none == [flights EXCEPT ![i].rejected = TRUE, ![i].summary = <<>>, ![i].recent = <<>>]
<1>1. FlightsOK(one, rings) /\ FlightsOK(other, rings) /\ FlightsOK(none, rings)
  BY FlightAnswered DEF DashboardInv
<1>2. (flights' = one \/ flights' = other \/ flights' = none) /\ rings' = rings
  BY Zenon DEF AnswerSummary, AnswerRecent, Reject, Ring
<1> HIDE DEF one, other, none
<1>3. RingsOK(rings') /\ FlightsOK(flights', rings')
  BY <1>1, <1>2, Zenon DEF DashboardInv
<1>4. UNCHANGED <<up, shown, paused, dot, title, age>>
  BY Zenon DEF AnswerSummary, AnswerRecent, Reject
<1>5. PageOK'
  BY <1>4 DEF DashboardInv, PageOK, Seen, AtMostOne
<1> QED
  BY <1>3, <1>5, Zenon DEF DashboardInv

LEMMA EndKeeps ==
  ASSUME DashboardInv, NEW i \in DOMAIN flights, Render(i) \/ Fail(i)
  PROVE  DashboardInv'
<1>1. FlightsOK(RemoveAt(flights, i), rings)
  BY FlightEnds DEF DashboardInv
<1>2. flights' = RemoveAt(flights, i) /\ rings' = rings
  BY Zenon DEF Render, Fail
<1>3. RingsOK(rings') /\ FlightsOK(flights', rings')
  BY <1>1, <1>2, Zenon DEF DashboardInv
<1>4. CASE Render(i)
  <2>1. PICK page : shown' = <<page>>
    BY <1>4 DEF Render
  <2>2. AtMostOne(shown')
    BY <2>1 DEF AtMostOne
  <2>3. age' = 0 /\ Updates(dot \ {"error"}, 0) /\ up' = up /\ paused' = paused
    BY <1>4, Zenon DEF Render, UpdateStatus, Updates, Late
  <2>4. dot \ {"error"} \in SUBSET {"error", "stale"} /\ 0 \in 0..Oldest
    BY DEF DashboardInv, PageOK, Oldest
  <2>5. title \in {"live", "stale", "error"} /\ up \in BOOLEAN /\ paused \in BOOLEAN
    BY DEF DashboardInv, PageOK
  <2>6. /\ dot' \subseteq {"error", "stale"}
        /\ title' \in {"live", "stale", "error"}
        /\ Truthful(dot', title', 0)
    BY <2>3, <2>4, StatusTold
  <2>7. PageOK'
    BY <2>2, <2>3, <2>4, <2>5, <2>6 DEF PageOK
  <2> QED
    BY <1>3, <2>7, Zenon DEF DashboardInv
<1>5. CASE Fail(i)
  <2>1. /\ IF Seen THEN Updates(dot \cup {"error"}, age)
           ELSE dot' = dot \cup {"error"} /\ title' = title
        /\ up' = up /\ shown' = shown /\ paused' = paused /\ age' = age
    BY <1>5, Zenon DEF Fail, UpdateStatus, Updates, Late
  <2>2. dot \cup {"error"} \in SUBSET {"error", "stale"} /\ age \in Nat
    BY DEF DashboardInv, PageOK, Oldest
  <2>3. /\ title \in {"live", "stale", "error"} /\ up \in BOOLEAN /\ paused \in BOOLEAN
        /\ age \in 0..Oldest /\ AtMostOne(shown)
    BY DEF DashboardInv, PageOK
  <2>4. CASE Seen
    <3>1. /\ dot' \subseteq {"error", "stale"}
          /\ title' \in {"live", "stale", "error"}
          /\ Truthful(dot', title', age)
      BY <2>1, <2>2, <2>4, StatusTold
    <3>2. PageOK'
      BY <2>1, <2>3, <3>1 DEF PageOK
    <3> QED
      BY <1>3, <3>2, Zenon DEF DashboardInv
  <2>5. CASE ~Seen
    <3>1. PageOK'
      BY <2>1, <2>2, <2>3, <2>5 DEF PageOK, Seen
    <3> QED
      BY <1>3, <3>1, Zenon DEF DashboardInv
  <2> QED
    BY <2>4, <2>5
<1> QED
  BY <1>4, <1>5

LEMMA TickKeeps == DashboardInv /\ Tick => DashboardInv'
<1> SUFFICES ASSUME DashboardInv, Tick PROVE DashboardInv'
  OBVIOUS
<1> DEFINE a == IF Seen /\ age < Oldest THEN age + 1 ELSE age
<1>1. a \in 0..Oldest /\ a \in Nat
  BY DEF DashboardInv, PageOK, Oldest
<1>2. /\ IF Seen THEN Updates(dot, a) ELSE dot' = dot /\ title' = title
      /\ age' = a /\ up' = up /\ shown' = shown /\ paused' = paused
      /\ rings' = rings /\ flights' = flights
  BY Zenon DEF Tick, UpdateStatus, Updates, Late
<1> HIDE DEF a
<1>3. /\ title \in {"live", "stale", "error"} /\ up \in BOOLEAN /\ paused \in BOOLEAN
      /\ AtMostOne(shown) /\ dot \in SUBSET {"error", "stale"}
  BY DEF DashboardInv, PageOK
<1>4. CASE Seen
  <2>1. /\ dot' \subseteq {"error", "stale"}
        /\ title' \in {"live", "stale", "error"}
        /\ Truthful(dot', title', a)
    BY <1>1, <1>2, <1>3, <1>4, StatusTold
  <2>2. PageOK'
    BY <1>1, <1>2, <1>3, <2>1 DEF PageOK
  <2> QED
    BY <1>2, <2>2, Zenon DEF DashboardInv
<1>5. CASE ~Seen
  <2>1. PageOK'
    BY <1>1, <1>2, <1>3, <1>5 DEF PageOK, Seen
  <2> QED
    BY <1>2, <2>1, Zenon DEF DashboardInv
<1> QED
  BY <1>4, <1>5

LEMMA NextDashboardInv == DashboardInv /\ [Next]_vars => DashboardInv'
<1> SUFFICES ASSUME DashboardInv, [Next]_vars PROVE DashboardInv'
  OBVIOUS
<1>1. CASE Lose \/ Hover \/ UNCHANGED vars
  <2>1. UNCHANGED <<rings, flights, shown, dot, title, age>> /\ up' \in BOOLEAN /\ paused' \in BOOLEAN
    BY <1>1 DEF Lose, Hover, vars, DashboardInv, PageOK
  <2>2. PageOK'
    BY <2>1 DEF DashboardInv, PageOK, Seen, AtMostOne
  <2> QED
    BY <2>1, <2>2, Zenon DEF DashboardInv
<1>2. ASSUME NEW i \in 1..Overlap, Fetch(i) PROVE DashboardInv'
  BY <1>2, AnswerKeeps, EndKeeps DEF Fetch
<1> QED
  BY <1>1, <1>2, AuditKeeps, ReturnKeeps, RefreshKeeps, TickKeeps DEF Next

(* The inductive invariant of the page holds in every reachable state. *)
THEOREM DashboardSafe == Spec => []DashboardInv
  BY InitDashboardInv, NextDashboardInv, PTL DEF Spec

(* A content some refresh was answered from has the sizes the types promise. *)
LEMMA AnswersTyped ==
  ASSUME NEW r, RingsOK(r), NEW f \in Refreshes, Told(f, r)
  PROVE  /\ f.since \in 1..Len(r)
         /\ AtMostOne(f.summary) /\ AtMostOne(f.recent) /\ f.rejected \in BOOLEAN
         /\ f.recent # <<>> => Len(f.recent[1]) <= Limit
         /\ f.summary # <<>> => f.summary[1].total <= Capacity
<1>1. Len(r) \in Nat /\ f.since \in 1..Len(r) /\ \A n \in 1..Len(r) : r[n] \in Contents
  BY DEF Told, RingsOK
<1>2. \A n \in f.since..Len(r) : n \in 1..Len(r)
  BY <1>1
<1>3. AtMostOne(<<>>)
  BY DEF AtMostOne
<1>4. ASSUME f.summary # <<>>
      PROVE  AtMostOne(f.summary) /\ f.summary[1].total <= Capacity
  <2>1. PICK n \in f.since..Len(r) : f.summary = <<Summarise(r[n])>>
    BY <1>4 DEF Told
  <2>2. r[n] \in Contents
    BY <1>1, <1>2
  <2>3. Summarise(r[n]).total = Len(r[n]) /\ Len(r[n]) <= Capacity
    BY <2>2, SummaryAddsUp DEF AddUp, Contents
  <2>4. \A cards : Len(<<cards>>) <= 1 /\ <<cards>>[1] = cards
    OBVIOUS
  <2>5. f.summary[1] = Summarise(r[n]) /\ AtMostOne(f.summary)
    BY <2>1, <2>4, Zenon DEF AtMostOne
  <2> QED
    BY <2>3, <2>5
<1>6. ASSUME f.recent # <<>>
      PROVE  AtMostOne(f.recent) /\ Len(f.recent[1]) <= Limit
  <2>1. PICK n \in f.since..Len(r) : f.recent = <<Recent(r[n])>>
    BY <1>6 DEF Told
  <2>2. Len(Recent(r[n])) <= Limit
    BY <1>1, <1>2, RecentIsNewest
  <2>3. \A rows : Len(<<rows>>) <= 1 /\ <<rows>>[1] = rows
    OBVIOUS
  <2> QED
    BY <2>1, <2>2, <2>3, Zenon DEF AtMostOne
<1>7. AtMostOne(f.summary)
  BY <1>3, <1>4, Zenon
<1>8. AtMostOne(f.recent)
  BY <1>3, <1>6, Zenon
<1>9. f.rejected \in BOOLEAN
  BY DEF Refreshes
<1> QED
  BY <1>1, <1>4, <1>6, <1>7, <1>8, <1>9

(* Every variable keeps its type: no content of the ring exceeds its         *)
(* capacity, no answer its limit, and the seconds counted stay within reach. *)
THEOREM TypeCorrect == Spec => []TypeOK
<1>1. DashboardInv => TypeOK
  <2> SUFFICES ASSUME DashboardInv PROVE TypeOK
    OBVIOUS
  <2>1. \A n \in DOMAIN rings : Len(rings[n]) <= Capacity /\ Range(rings[n]) \subseteq Range(Traffic)
    <3>1. \A n \in DOMAIN rings : rings[n] \in Contents
      BY DEF DashboardInv, RingsOK
    <3> QED
      BY <3>1, ContentsAre
  <2>2. Len(rings) \in 1..MaxRings /\ Len(flights) <= Overlap
    BY DEF DashboardInv, RingsOK, FlightsOK
  <2>3. \A i \in DOMAIN flights : flights[i] \in Refreshes /\ Told(flights[i], rings)
    BY DEF DashboardInv, FlightsOK
  <2>4. \A i \in DOMAIN flights :
          LET f == flights[i]
          IN  /\ f.since \in 1..Len(rings)
              /\ AtMostOne(f.summary) /\ AtMostOne(f.recent) /\ f.rejected \in BOOLEAN
              /\ f.recent # <<>> => Len(f.recent[1]) <= Limit
              /\ f.summary # <<>> => f.summary[1].total <= Capacity
    BY <2>3, AnswersTyped, Zenon DEF DashboardInv
  <2>5. /\ up \in BOOLEAN /\ paused \in BOOLEAN /\ AtMostOne(shown)
        /\ dot \subseteq {"error", "stale"}
        /\ title \in {"live", "stale", "error"}
        /\ age \in 0..Oldest
    BY Zenon DEF DashboardInv, PageOK
  <2> QED
    BY <2>1, <2>2, <2>4, <2>5, Zenon DEF TypeOK
<1> QED
  BY <1>1, DashboardSafe, PTL

(* A tab that looks live shows what was rendered within the last StaleAfter  *)
(* seconds, by a refresh after which none has failed: updateStatus is called *)
(* at every end of a refresh and every second.                              *)
THEOREM LiveAlwaysMeansFresh == Spec => []LiveMeansFresh
<1>1. DashboardInv /\ TypeOK => LiveMeansFresh
  BY Zenon DEF DashboardInv, PageOK, Truthful, LiveMeansFresh
<1> QED
  BY <1>1, DashboardSafe, TypeCorrect, PTL

(* What a refresh renders it was told while it ran: cards that add up one    *)
(* content of the ring, for any traffic and of any length, and rows that are *)
(* the newest of one.                                                       *)
THEOREM RenderingIsOfItsTime == Spec => RendersItsOwnTime
<1>1. ASSUME DashboardInv, [Next]_vars, shown' # shown
      PROVE  \E i \in DOMAIN flights :
                LET during == {rings[n] : n \in flights[i].since .. Len(rings)}
                IN  /\ flights' = RemoveAt(flights, i)
                    /\ \E ring \in during : AddUp(shown'[1].cards, ring)
                    /\ \E ring \in during : NewestFirst(shown'[1].rows, ring)
  <2>1. PICK i \in DOMAIN flights : Render(i)
    BY <1>1, Zenon DEF Next, vars, Audit, Lose, Return, Hover, Refresh, Tick, Fetch,
                       AnswerSummary, AnswerRecent, Reject, Fail
  <2> DEFINE during == {rings[n] : n \in flights[i].since .. Len(rings)}
  <2>2. Told(flights[i], rings) /\ RingsOK(rings)
    BY <1>1 DEF DashboardInv, FlightsOK
  <2>3. \A n \in flights[i].since..Len(rings) : rings[n] \in Contents
    <3>1. flights[i].since \in 1..Len(rings) /\ Len(rings) \in Nat
      BY <2>2 DEF Told, RingsOK
    <3>2. \A n \in flights[i].since..Len(rings) : n \in 1..Len(rings)
      BY <3>1
    <3> QED
      BY <2>2, <3>2 DEF RingsOK
  <2>4. \A x : <<x>>[1] = x
    OBVIOUS
  <2>5. /\ flights[i].summary # <<>> /\ flights[i].recent # <<>>
        /\ shown' = << [cards |-> flights[i].summary[1], rows |-> flights[i].recent[1]] >>
        /\ flights' = RemoveAt(flights, i)
    BY <2>1, Zenon DEF Render
  <2>6. PICK n \in flights[i].since..Len(rings) : flights[i].summary = <<Summarise(rings[n])>>
    BY <2>2, <2>5, Zenon DEF Told
  <2>7. PICK m \in flights[i].since..Len(rings) : flights[i].recent = <<Recent(rings[m])>>
    BY <2>2, <2>5, Zenon DEF Told
  <2> DEFINE page == [cards |-> flights[i].summary[1], rows |-> flights[i].recent[1]]
  <2>8. page.cards = Summarise(rings[n]) /\ page.rows = Recent(rings[m])
    BY <2>4, <2>6, <2>7, Zenon
  <2>9. shown'[1] = page
    <3>1. shown' = <<page>>
      BY <2>5, Zenon
    <3> HIDE DEF page
    <3> QED
      BY <2>4, <3>1, Zenon
  <2> HIDE DEF page
  <2>10. rings[n] \in during /\ AddUp(shown'[1].cards, rings[n])
    BY <2>3, <2>8, <2>9, SummaryAddsUp, Zenon
  <2>11. rings[m] \in during /\ NewestFirst(shown'[1].rows, rings[m])
    BY <2>3, <2>8, <2>9, RecentIsNewest, Zenon
  <2> QED
    BY <2>5, <2>10, <2>11, Zenon
<1>2. DashboardInv /\ [Next]_vars =>
        [shown' # shown =>
            \E i \in DOMAIN flights :
                LET during == {rings[n] : n \in flights[i].since .. Len(rings)}
                IN  /\ flights' = RemoveAt(flights, i)
                    /\ \E ring \in during : AddUp(shown'[1].cards, ring)
                    /\ \E ring \in during : NewestFirst(shown'[1].rows, ring)]_vars
  BY <1>1, Zenon
<1> QED
  BY <1>2, DashboardSafe, PTL DEF Spec, RendersItsOwnTime
=============================================================================
