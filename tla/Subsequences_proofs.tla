------------------------ MODULE Subsequences_proofs ------------------------
(***************************************************************************)
(* How the elements of a sequence that are in a set change when one is     *)
(* appended and when the first is taken.                                   *)
(***************************************************************************)
EXTENDS Subsequences, FiniteSetTheorems, FunctionTheorems, TLAPS

-----------------------------------------------------------------------------
(* Ranks count the places of a finite set, each once.                      *)

LEMMA RankType ==
  ASSUME NEW I \in SUBSET Nat, IsFiniteSet(I), NEW i \in I
  PROVE  Rank(I, i) \in 1 .. Cardinality(I)
<1> DEFINE B == { j \in I : j <= i }
<1>1. IsFiniteSet(B) /\ Cardinality(B) <= Cardinality(I) /\ Cardinality(B) \in Nat
  BY FS_Subset, FS_CardinalityType
<1>2. i \in B
  OBVIOUS
<1>3. Cardinality(B) # 0
  BY <1>1, <1>2, FS_EmptySet
<1>4. Cardinality(I) \in Nat
  BY FS_CardinalityType
<1> HIDE DEF B
<1>5. Rank(I, i) = Cardinality(B)
  BY DEF Rank, B
<1> QED
  BY <1>1, <1>3, <1>4, <1>5

LEMMA RankGrows ==
  ASSUME NEW I \in SUBSET Nat, IsFiniteSet(I), NEW i \in I, NEW k \in I, i < k
  PROVE  Rank(I, i) < Rank(I, k)
<1> DEFINE B == { j \in I : j <= i }
           D == { j \in I : j <= k }
<1>1. IsFiniteSet(D) /\ B \in SUBSET D /\ k \in D /\ k \notin B
  <2>1. D \in SUBSET I
    OBVIOUS
  <2>2. i \in Nat /\ k \in Nat
    OBVIOUS
  <2>3. k \in D /\ k \notin B
    BY <2>2
  <2>4. B \subseteq D
    <3> SUFFICES ASSUME NEW j \in I, j <= i
                 PROVE  j <= k
      OBVIOUS
    <3> QED
      BY <2>2
  <2>5. IsFiniteSet(D)
    BY <2>1, FS_Subset
  <2> QED
    BY <2>3, <2>4, <2>5
<1>2. IsFiniteSet(B) /\ Cardinality(B) <= Cardinality(D) /\ Cardinality(B) # Cardinality(D)
  BY <1>1, FS_Subset
<1>3. Cardinality(B) \in Nat /\ Cardinality(D) \in Nat
  BY <1>1, <1>2, FS_CardinalityType
<1> HIDE DEF B, D
<1>4. Rank(I, i) = Cardinality(B) /\ Rank(I, k) = Cardinality(D)
  BY DEF Rank, B, D
<1> QED
  BY <1>2, <1>3, <1>4

(* An injection between sets of one size: every rank has its place.        *)
LEMMA PlaceExists ==
  ASSUME NEW I \in SUBSET Nat, IsFiniteSet(I), NEW n \in 1 .. Cardinality(I)
  PROVE  Place(I, n) \in I /\ Rank(I, Place(I, n)) = n
<1> DEFINE T == 1 .. Cardinality(I)
           r == [i \in I |-> Rank(I, i)]
<1>1. r \in [I -> T]
  BY RankType
<1>2. ASSUME NEW i \in I, NEW k \in I, r[i] = r[k]
      PROVE  i = k
  <2>1. Rank(I, i) = Rank(I, k)
    BY <1>2
  <2>2. ~(i < k) /\ ~(k < i)
    BY <2>1, RankGrows, RankType
  <2> QED
    BY <2>2
<1>3. r \in Injection(I, T)
  BY <1>1, <1>2 DEF Injection, IsInjective
<1>4. Cardinality(I) \in Nat
  BY FS_CardinalityType
<1>5. IsFiniteSet(T) /\ Cardinality(T) = Cardinality(I)
  BY <1>4, FS_Interval
<1>6. r \in Surjection(I, T)
  BY <1>3, <1>5, FS_Injection
<1>7. \E i \in I : r[i] = n
  BY <1>6 DEF Surjection
<1>8. \E i \in I : Rank(I, i) = n
  BY <1>7
<1> QED
  BY <1>8 DEF Place

LEMMA PlaceOfRank ==
  ASSUME NEW I \in SUBSET Nat, IsFiniteSet(I), NEW i \in I
  PROVE  Place(I, Rank(I, i)) = i
<1>1. Place(I, Rank(I, i)) \in I /\ Rank(I, Place(I, Rank(I, i))) = Rank(I, i)
  BY RankType, PlaceExists
<1>2. PICK k \in I : k = Place(I, Rank(I, i)) /\ Rank(I, k) = Rank(I, i)
  BY <1>1
<1>3. Rank(I, i) \in Nat /\ i \in Nat /\ k \in Nat
  BY RankType
<1>4. ~(i < k) /\ ~(k < i)
  BY <1>2, <1>3, RankGrows
<1>5. i = k
  BY <1>3, <1>4
<1> QED
  BY <1>2, <1>5

-----------------------------------------------------------------------------
LEMMA PlacesType ==
  ASSUME NEW T, NEW s \in Seq(T), NEW S
  PROVE  /\ Places(s, S) \in SUBSET (1 .. Len(s))
         /\ Places(s, S) \in SUBSET Nat
         /\ IsFiniteSet(Places(s, S))
         /\ Cardinality(Places(s, S)) \in Nat
<1>1. Places(s, S) \in SUBSET (1 .. Len(s)) /\ Places(s, S) \in SUBSET Nat
  BY DEF Places
<1>2. IsFiniteSet(1 .. Len(s))
  BY FS_Interval
<1>3. IsFiniteSet(Places(s, S))
  BY <1>1, <1>2, FS_Subset
<1> QED
  BY <1>1, <1>3, FS_CardinalityType

LEMMA OnlyType ==
  ASSUME NEW T, NEW s \in Seq(T), NEW S
  PROVE  /\ Only(s, S) \in Seq(T)
         /\ Len(Only(s, S)) = Cardinality(Places(s, S))
         /\ \A n \in 1 .. Len(Only(s, S)) : Only(s, S)[n] \in S
<1> DEFINE I == Places(s, S)
<1>1. I \in SUBSET (1 .. Len(s)) /\ I \in SUBSET Nat /\ IsFiniteSet(I) /\ Cardinality(I) \in Nat
  BY PlacesType
<1>2. \A n \in 1 .. Cardinality(I) : Place(I, n) \in I
  BY <1>1, PlaceExists
<1>3. \A i \in I : s[i] \in T /\ s[i] \in S
  BY DEF Places
<1>4. Only(s, S) = [n \in 1 .. Cardinality(I) |-> s[Place(I, n)]]
  BY DEF Only
<1> HIDE DEF I
<1>5. \A n \in 1 .. Cardinality(I) : s[Place(I, n)] \in T /\ s[Place(I, n)] \in S
  BY <1>2, <1>3
<1>6. Only(s, S) \in Seq(T) /\ Len(Only(s, S)) = Cardinality(I)
  BY <1>1, <1>4, <1>5
<1> QED
  BY <1>4, <1>5, <1>6 DEF I

LEMMA OnlyEmpty ==
  ASSUME NEW S
  PROVE  Only(<<>>, S) = <<>>
<1>1. <<>> \in Seq({}) /\ Len(<<>>) = 0
  OBVIOUS
<1>2. Places(<<>>, S) = {}
  BY <1>1 DEF Places
<1>3. Cardinality(Places(<<>>, S)) = 0
  BY <1>2, FS_EmptySet
<1>4. Only(<<>>, S) \in Seq({}) /\ Len(Only(<<>>, S)) = 0
  BY <1>1, <1>3, OnlyType
<1> QED
  BY <1>4

(* Two sequences with places that correspond in order have the same        *)
(* elements of S.                                                          *)
LEMMA OnlySame ==
  ASSUME NEW T, NEW s \in Seq(T), NEW t \in Seq(T), NEW S,
         Cardinality(Places(t, S)) = Cardinality(Places(s, S)),
         \A i \in Places(s, S) : \E k \in Places(t, S) :
            t[k] = s[i] /\ Rank(Places(t, S), k) = Rank(Places(s, S), i)
  PROVE  Only(t, S) = Only(s, S)
<1> DEFINE I == Places(s, S)
           K == Places(t, S)
<1>1. I \in SUBSET Nat /\ IsFiniteSet(I) /\ K \in SUBSET Nat /\ IsFiniteSet(K)
  BY PlacesType
<1>2. ASSUME NEW n \in 1 .. Cardinality(I)
      PROVE  t[Place(K, n)] = s[Place(I, n)]
  <2>1. Place(I, n) \in I /\ Rank(I, Place(I, n)) = n
    BY <1>1, PlaceExists
  <2>2. PICK k \in K : t[k] = s[Place(I, n)] /\ Rank(K, k) = n
    BY <2>1
  <2>3. Place(K, n) = k
    BY <1>1, <2>2, PlaceOfRank
  <2> QED
    BY <2>2, <2>3
<1>3. Only(t, S) = [n \in 1 .. Cardinality(I) |-> t[Place(K, n)]]
  BY DEF Only
<1>4. Only(s, S) = [n \in 1 .. Cardinality(I) |-> s[Place(I, n)]]
  BY DEF Only
<1> HIDE DEF I, K
<1> QED
  BY <1>2, <1>3, <1>4

-----------------------------------------------------------------------------
(* An element appended counts if it is in S.                               *)
LEMMA OnlyAppend ==
  ASSUME NEW T, NEW s \in Seq(T), NEW e \in T, NEW S
  PROVE  Only(Append(s, e), S) = IF e \in S THEN Append(Only(s, S), e) ELSE Only(s, S)
<1> DEFINE t == Append(s, e)
           m == Len(s) + 1
           I == Places(s, S)
           K == Places(t, S)
<1>1. t \in Seq(T) /\ Len(t) = m /\ (\A i \in 1 .. Len(s) : t[i] = s[i]) /\ t[m] = e /\ m \in Nat
  OBVIOUS
<1>2. K = IF e \in S THEN I \cup {m} ELSE I
  BY <1>1 DEF Places
<1>3. I \in SUBSET (1 .. Len(s)) /\ I \in SUBSET Nat /\ IsFiniteSet(I) /\ Cardinality(I) \in Nat
  BY PlacesType
<1>4. K \in SUBSET Nat /\ IsFiniteSet(K)
  BY <1>1, PlacesType
<1>5. \A i \in I : i < m
  BY <1>3
<1>6. m \notin I
  BY <1>5, <1>1
<1>7. ASSUME NEW i \in I
      PROVE  i \in K /\ t[i] = s[i] /\ Rank(K, i) = Rank(I, i)
  <2>1. { j \in K : j <= i } = { j \in I : j <= i }
    BY <1>1, <1>2, <1>3, <1>5
  <2> QED
    BY <1>1, <1>2, <1>3, <2>1 DEF Rank
<1>8. CASE e \notin S
  <2>1. K = I
    BY <1>2, <1>8
  <2>2. Only(t, S) = Only(s, S)
    <3> HIDE DEF t
    <3> QED
      BY <1>1, <1>7, <2>1, OnlySame
  <2> QED
    BY <1>8, <2>2
<1>9. CASE e \in S
  <2>1. K = I \cup {m}
    BY <1>2, <1>9
  <2>2. Cardinality(K) = Cardinality(I) + 1
    BY <1>3, <1>6, <2>1, FS_AddElement
  <2>3. Rank(K, m) = Cardinality(K)
    <3>1. { j \in K : j <= m } = K
      BY <1>1, <1>3, <1>5, <2>1
    <3> QED
      BY <3>1 DEF Rank
  <2>4. Place(K, Cardinality(I) + 1) = m
    BY <1>4, <2>1, <2>2, <2>3, PlaceOfRank
  <2>5. ASSUME NEW n \in 1 .. Cardinality(I)
        PROVE  t[Place(K, n)] = s[Place(I, n)]
    <3>1. Place(I, n) \in I /\ Rank(I, Place(I, n)) = n
      BY <1>3, PlaceExists
    <3>2. Place(K, n) = Place(I, n)
      BY <1>4, <1>7, <3>1, PlaceOfRank
    <3> QED
      BY <1>7, <3>1, <3>2
  <2>6. Only(t, S) = [n \in 1 .. Cardinality(I) + 1 |-> t[Place(K, n)]]
    BY <2>2 DEF Only
  <2>7. Only(s, S) = [n \in 1 .. Cardinality(I) |-> s[Place(I, n)]]
    BY DEF Only
  <2>8. Only(s, S) \in Seq(T) /\ Len(Only(s, S)) = Cardinality(I)
    BY OnlyType
  <2>9. Only(t, S) \in Seq(T) /\ Len(Only(t, S)) = Cardinality(I) + 1
    BY <1>1, <2>2, OnlyType
  <2>10. Only(t, S)[Cardinality(I) + 1] = e
    BY <1>1, <1>3, <2>4, <2>6
  <2> HIDE DEF t, I, K
  <2>11. \A n \in 1 .. Cardinality(I) : Only(t, S)[n] = Only(s, S)[n]
    <3> SUFFICES ASSUME NEW n \in 1 .. Cardinality(I)
                 PROVE  Only(t, S)[n] = Only(s, S)[n]
      OBVIOUS
    <3>1. n \in 1 .. Cardinality(I) + 1
      BY <1>3
    <3> QED
      BY <2>5, <2>6, <2>7, <3>1, Zenon
  <2>12. Only(t, S) = Append(Only(s, S), e)
    BY <1>3, <2>8, <2>9, <2>10, <2>11
  <2> QED
    BY <1>9, <2>12 DEF t
<1> QED
  BY <1>8, <1>9

-----------------------------------------------------------------------------
LEMMA IsTail ==
  ASSUME NEW T, NEW s \in Seq(T), s # <<>>, NEW t \in Seq(T), Len(t) = Len(s) - 1,
         \A i \in 1 .. Len(s) - 1 : t[i] = s[i + 1]
  PROVE  t = Tail(s)
OBVIOUS

(* The first element taken counts if it is in S.                           *)
LEMMA OnlyTail ==
  ASSUME NEW T, NEW s \in Seq(T), s # <<>>, NEW S
  PROVE  IF Head(s) \in S
         THEN /\ Only(s, S) # <<>>
              /\ Head(Only(s, S)) = Head(s)
              /\ Only(Tail(s), S) = Tail(Only(s, S))
         ELSE Only(Tail(s), S) = Only(s, S)
<1> DEFINE t == Tail(s)
           I == Places(s, S)
           K == Places(t, S)
<1>1. /\ t \in Seq(T) /\ Len(t) = Len(s) - 1 /\ Len(s) \in Nat \ {0}
      /\ \A i \in 1 .. Len(t) : t[i] = s[i + 1]
      /\ Head(s) = s[1]
  OBVIOUS
<1>2. I \in SUBSET (1 .. Len(s)) /\ I \in SUBSET Nat /\ IsFiniteSet(I) /\ Cardinality(I) \in Nat
  BY PlacesType
<1>3. K \in SUBSET (1 .. Len(t)) /\ K \in SUBSET Nat /\ IsFiniteSet(K) /\ Cardinality(K) \in Nat
  BY <1>1, PlacesType
<1>4. \A k \in Nat : k \in K <=> k + 1 \in I /\ k # 0
  BY <1>1, <1>2, <1>3 DEF Places
<1>5. 1 \in I <=> Head(s) \in S
  BY <1>1 DEF Places
<1> DEFINE Up(k) == { i \in I : 2 <= i /\ i <= k + 1 }
(* The places up to k in the tail are those from 2 to k + 1.               *)
<1>6. ASSUME NEW k \in K
      PROVE  Rank(K, k) = Cardinality(Up(k)) /\ IsFiniteSet(Up(k))
  <2> DEFINE B == { j \in K : j <= k }
             f == [j \in B |-> j + 1]
  <2>1. IsFiniteSet(B)
    BY <1>3, FS_Subset
  <2>2. f \in [B -> Up(k)]
    BY <1>3, <1>4
  <2>3. \A i, j \in B : f[i] = f[j] => i = j
    BY <1>3
  <2>4. ASSUME NEW i \in Up(k)
        PROVE  \E j \in B : f[j] = i
    <3>1. i - 1 \in Nat /\ i - 1 # 0 /\ (i - 1) + 1 = i /\ i - 1 <= k
      BY <1>2, <1>3
    <3>2. i - 1 \in B
      BY <1>4, <3>1
    <3> QED
      BY <3>1, <3>2
  <2>5. f \in Bijection(B, Up(k))
    BY <2>2, <2>3, <2>4 DEF Bijection, Injection, IsInjective, Surjection
  <2>6. ExistsBijection(B, Up(k))
    BY <2>5 DEF ExistsBijection
  <2>7. IsFiniteSet(Up(k)) /\ Cardinality(Up(k)) = Cardinality(B)
    BY <2>1, <2>6, FS_Bijection
  <2> QED
    BY <2>7 DEF Rank
<1>7. Cardinality(K) = Cardinality(I \ {1})
  <2> DEFINE f == [j \in K |-> j + 1]
  <2>1. f \in [K -> I \ {1}]
    BY <1>3, <1>4
  <2>2. \A i, j \in K : f[i] = f[j] => i = j
    BY <1>3
  <2>3. ASSUME NEW i \in I \ {1}
        PROVE  \E j \in K : f[j] = i
    <3>1. i - 1 \in Nat /\ i - 1 # 0 /\ (i - 1) + 1 = i
      BY <1>2
    <3>2. i - 1 \in K
      BY <1>4, <3>1
    <3> QED
      BY <3>1, <3>2
  <2>4. f \in Bijection(K, I \ {1})
    BY <2>1, <2>2, <2>3 DEF Bijection, Injection, IsInjective, Surjection
  <2>5. ExistsBijection(K, I \ {1})
    BY <2>4 DEF ExistsBijection
  <2> QED
    BY <1>3, <2>5, FS_Bijection
<1>8. CASE Head(s) \notin S
  <2>1. 1 \notin I
    BY <1>5, <1>8
  <2>2. Cardinality(K) = Cardinality(I)
    <3>1. I \ {1} = I
      BY <2>1
    <3> QED
      BY <1>7, <3>1
  <2>3. ASSUME NEW i \in I
        PROVE  \E k \in K : t[k] = s[i] /\ Rank(K, k) = Rank(I, i)
    <3>1. i - 1 \in Nat /\ i - 1 # 0 /\ (i - 1) + 1 = i
      BY <1>2, <2>1
    <3>2. i - 1 \in K
      BY <1>4, <3>1
    <3>3. t[i - 1] = s[i]
      BY <1>1, <1>3, <3>1, <3>2
    <3>4. Up(i - 1) = { j \in I : j <= i }
      BY <1>2, <2>1, <3>1
    <3>5. Rank(K, i - 1) = Rank(I, i)
      BY <1>6, <3>2, <3>4 DEF Rank
    <3> QED
      BY <3>2, <3>3, <3>5
  <2>4. Only(t, S) = Only(s, S)
    <3> HIDE DEF t
    <3> QED
      BY <1>1, <2>2, <2>3, OnlySame
  <2> QED
    BY <1>8, <2>4
<1>9. CASE Head(s) \in S
  <2>1. 1 \in I
    BY <1>5, <1>9
  <2>2. Cardinality(K) = Cardinality(I) - 1
    BY <1>2, <1>7, <2>1, FS_RemoveElement
  <2>3. Place(I, 1) = 1 /\ Cardinality(I) # 0
    <3>1. { j \in I : j <= 1 } = {1}
      BY <1>2, <2>1
    <3>2. Rank(I, 1) = 1
      BY <3>1, FS_Singleton DEF Rank
    <3>3. Cardinality(I) # 0
      BY <1>2, <2>1, FS_EmptySet
    <3> QED
      BY <1>2, <2>1, <3>2, <3>3, PlaceOfRank
  <2>4. ASSUME NEW k \in K
        PROVE  k + 1 \in I /\ Rank(I, k + 1) = Rank(K, k) + 1 /\ t[k] = s[k + 1]
    <3>1. k + 1 \in I /\ k # 0
      BY <1>3, <1>4
    <3>2. { j \in I : j <= k + 1 } = Up(k) \cup {1}
      BY <1>2, <1>3, <2>1, <3>1
    <3>3. 1 \notin Up(k)
      OBVIOUS
    <3>4. IsFiniteSet(Up(k)) /\ Rank(K, k) = Cardinality(Up(k))
      BY <1>6
    <3> HIDE DEF Up
    <3>5. Cardinality(Up(k) \cup {1}) = Cardinality(Up(k)) + 1
      BY <3>3, <3>4, FS_AddElement
    <3>6. Rank(I, k + 1) = Rank(K, k) + 1
      BY <3>2, <3>4, <3>5 DEF Rank
    <3> QED
      BY <1>1, <1>3, <3>1, <3>6
  <2>5. ASSUME NEW n \in 1 .. Cardinality(K)
        PROVE  t[Place(K, n)] = s[Place(I, n + 1)]
    <3>1. Place(K, n) \in K /\ Rank(K, Place(K, n)) = n
      BY <1>3, PlaceExists
    <3>2. Place(I, n + 1) = Place(K, n) + 1
      BY <1>2, <2>4, <3>1, PlaceOfRank
    <3> QED
      BY <2>4, <3>1, <3>2
  <2>6. Only(t, S) = [n \in 1 .. Cardinality(K) |-> t[Place(K, n)]]
    BY DEF Only
  <2>7. Only(s, S) = [n \in 1 .. Cardinality(I) |-> s[Place(I, n)]]
    BY DEF Only
  <2>8. Only(s, S) \in Seq(T) /\ Len(Only(s, S)) = Cardinality(I)
    BY OnlyType
  <2>9. Only(t, S) \in Seq(T) /\ Len(Only(t, S)) = Cardinality(K)
    BY <1>1, OnlyType
  <2>10. Only(s, S)[1] = Head(s)
    BY <1>1, <1>2, <2>3, <2>7
  <2> HIDE DEF t, I, K
  <2>11. \A n \in 1 .. Cardinality(K) : Only(t, S)[n] = Only(s, S)[n + 1]
    <3> SUFFICES ASSUME NEW n \in 1 .. Cardinality(K)
                 PROVE  Only(t, S)[n] = Only(s, S)[n + 1]
      OBVIOUS
    <3>1. n + 1 \in 1 .. Cardinality(I)
      BY <1>2, <1>3, <2>2
    <3> QED
      BY <2>5, <2>6, <2>7, <3>1, Zenon
  <2>12. Only(s, S) # <<>> /\ Head(Only(s, S)) = Head(s)
    BY <1>2, <2>3, <2>8, <2>10
  <2>13. Only(t, S) = Tail(Only(s, S))
    BY <1>2, <1>3, <2>2, <2>3, <2>8, <2>9, <2>11, <2>12
  <2> QED
    BY <1>9, <2>12, <2>13 DEF t
<1> QED
  BY <1>8, <1>9

=============================================================================
