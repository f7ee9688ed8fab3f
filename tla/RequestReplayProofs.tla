------------------------ MODULE RequestReplayProofs ------------------------
(***************************************************************************)
(* Proofs about RequestReplay, for any texts, routes, exchanges, requests  *)
(* and any number of recordings.                                           *)
(***************************************************************************)
EXTENDS RequestReplay, FiniteSetTheorems, WellFoundedInduction, TLAPS

-----------------------------------------------------------------------------
(***************************************************************************)
(* Least and greatest numbers.                                             *)
(***************************************************************************)
(* A set of naturals that is not empty has a least member ...              *)
LEMMA LeastNat ==
  ASSUME NEW S, S \subseteq Nat, S # {}
  PROVE  Min(S) \in S /\ \A m \in S : Min(S) <= m
<1>1. PICK n \in S : \A m \in S : ~ (<<m, n>> \in OpToRel(<, Nat))
  BY NatLessThanWellFounded, WFMin
<1>2. \A m \in S : ~ (m < n)
  BY <1>1 DEF OpToRel
<1>3. \A m \in S : n <= m
  BY <1>2
<1>. QED BY <1>3 DEF Min

(* ... and one that is bounded has a greatest.                             *)
LEMMA GreatestNat ==
  ASSUME NEW N \in Nat, NEW S, S \subseteq 1..N, S # {}
  PROVE  Max(S) \in S /\ \A m \in S : m <= Max(S)
<1>. DEFINE T == {N - m : m \in S}
<1>1. T \subseteq Nat /\ T # {}
  <2>1. \A m \in S : N - m \in Nat
    OBVIOUS
  <2>. QED BY <2>1
<1>2. Min(T) \in T /\ \A k \in T : Min(T) <= k
  <2>. HIDE DEF T
  <2>. QED BY <1>1, LeastNat
<1>3. PICK n \in S : Min(T) = N - n
  BY <1>2
<1>4. \A m \in S : m <= n
  <2>. SUFFICES ASSUME NEW m \in S PROVE m <= n
    OBVIOUS
  <2>1. N - m \in T
    OBVIOUS
  <2>2. N - n <= N - m
    BY <1>2, <1>3, <2>1
  <2>3. m \in 1..N /\ n \in 1..N
    OBVIOUS
  <2>. QED BY <2>2, <2>3
<1>. QED BY <1>4 DEF Max

(* So the first position that passes a test is found, if there is one.     *)
LEMMA FirstPosition ==
  ASSUME NEW N \in Nat, NEW I, I \subseteq 1..N
  PROVE  LET at == IF I # {} THEN Min(I) ELSE 0
         IN  /\ at \in 0..N
             /\ at = 0 <=> I = {}
             /\ at # 0 => at \in I /\ \A m \in I : at <= m
<1>1. CASE I = {}
  BY <1>1
<1>2. CASE I # {}
  <2>1. I \subseteq Nat
    OBVIOUS
  <2>2. Min(I) \in I /\ \A m \in I : Min(I) <= m
    BY <1>2, <2>1, LeastNat
  <2>3. Min(I) \in 1..N
    BY <2>2
  <2>. QED BY <1>2, <2>2, <2>3
<1>. QED BY <1>1, <1>2

-----------------------------------------------------------------------------
(***************************************************************************)
(* Arrangements: strip_tenant_param and sort_by_key are permutations.      *)
(***************************************************************************)
(* `before` puts the members of P one after the other.                     *)
LinearOrder(P, before) ==
  /\ \A i \in P : <<i, i>> \notin before
  /\ \A i, j, k \in P : <<i, j>> \in before /\ <<j, k>> \in before => <<i, k>> \in before
  /\ \A i, j \in P : i = j \/ <<i, j>> \in before \/ <<j, i>> \in before

(* c names every member of P once, in that order.                          *)
Enumerates(c, P, before) ==
  /\ c \in Bijection(1..Cardinality(P), P)
  /\ \A m, n \in 1..Cardinality(P) : m < n => <<c[m], c[n]>> \in before

(* That is what Arranged does.                                             *)
LEMMA ArrangedEnumerates ==
  ASSUME NEW P, IsFiniteSet(P), NEW before, LinearOrder(P, before)
  PROVE  Enumerates(Arranged(P, before), P, before)
<1>. DEFINE N == Cardinality(P)
            Down(j) == {i \in P : <<i, j>> \in before}
            r == [j \in P |-> Cardinality(Down(j)) + 1]
            at == Arranged(P, before)
<1>0. N \in Nat /\ IsFiniteSet(1..N) /\ Cardinality(1..N) = N
  BY FS_CardinalityType, FS_Interval
<1>1. ASSUME NEW j \in P
      PROVE  /\ IsFiniteSet(Down(j)) /\ Cardinality(Down(j)) \in Nat
             /\ Cardinality(Down(j)) <= N - 1
  <2>1. IsFiniteSet(P \ {j}) /\ Cardinality(P \ {j}) = N - 1
    BY FS_RemoveElement
  <2>2. Down(j) \in SUBSET (P \ {j})
    BY DEF LinearOrder
  <2>. HIDE DEF Down
  <2>. QED BY <2>1, <2>2, FS_Subset, FS_CardinalityType
<1>2. ASSUME NEW i \in P, NEW j \in P, <<i, j>> \in before
      PROVE  Cardinality(Down(i)) < Cardinality(Down(j))
  <2>1. Down(i) \in SUBSET Down(j)
    BY <1>2 DEF LinearOrder
  <2>2. i \in Down(j) /\ i \notin Down(i)
    BY <1>2 DEF LinearOrder
  <2>3. Down(i) # Down(j)
    BY <2>2
  <2>4. /\ IsFiniteSet(Down(j)) /\ Cardinality(Down(i)) \in Nat
        /\ Cardinality(Down(j)) \in Nat
    BY <1>1
  <2>. HIDE DEF Down
  <2>5. /\ Cardinality(Down(i)) <= Cardinality(Down(j))
        /\ Cardinality(Down(j)) # Cardinality(Down(i))
    BY <2>1, <2>3, <2>4, FS_Subset
  <2>. QED BY <2>4, <2>5
<1>. HIDE DEF Down
<1>3. /\ r \in [P -> 1..N]
      /\ \A i, j \in P : <<i, j>> \in before => r[i] < r[j]
  BY <1>0, <1>1, <1>2
<1>4. \A i, j \in P : r[i] = r[j] => i = j
  <2>. SUFFICES ASSUME NEW i \in P, NEW j \in P, i # j PROVE r[i] # r[j]
    OBVIOUS
  <2>1. <<i, j>> \in before \/ <<j, i>> \in before
    BY DEF LinearOrder
  <2>2. r[i] \in 1..N /\ r[j] \in 1..N
    BY <1>3
  <2>3. r[i] < r[j] \/ r[j] < r[i]
    BY <1>3, <2>1
  <2>. HIDE DEF r
  <2>. QED BY <1>0, <2>2, <2>3
<1>5. r \in Injection(P, 1..N)
  BY <1>3, <1>4 DEF Injection, IsInjective
<1>6. r \in Surjection(P, 1..N)
  <2>. HIDE DEF r
  <2>. QED BY <1>0, <1>5, FS_Injection
<1>7. \A n \in 1..N : \E j \in P : Cardinality(Down(j)) = n - 1
  <2>. SUFFICES ASSUME NEW n \in 1..N PROVE \E j \in P : Cardinality(Down(j)) = n - 1
    OBVIOUS
  <2>1. PICK j \in P : r[j] = n
    BY <1>6 DEF Surjection
  <2>2. Cardinality(Down(j)) + 1 = n /\ Cardinality(Down(j)) \in Nat
    BY <1>1, <2>1
  <2>. QED BY <1>0, <2>2
<1>8. at = [n \in 1..N |-> CHOOSE j \in P : Cardinality(Down(j)) = n - 1]
  BY DEF Arranged, Down
<1>9. \A n \in 1..N : at[n] \in P /\ r[at[n]] = n
  <2>1. \A n \in 1..N : at[n] \in P /\ Cardinality(Down(at[n])) = n - 1
    BY <1>7, <1>8
  <2>. HIDE DEF at
  <2>. QED BY <1>0, <2>1
<1>. HIDE DEF r
<1>10. at \in [1..N -> P]
  BY <1>8, <1>9
<1>. HIDE DEF at
<1>11. at \in Bijection(1..N, P)
  <2>1. at \in Injection(1..N, P)
    BY <1>9, <1>10 DEF Injection, IsInjective
  <2>2. at \in Surjection(1..N, P)
    BY <1>3, <1>4, <1>9, <1>10 DEF Surjection
  <2>. QED BY <2>1, <2>2 DEF Bijection
<1>12. ASSUME NEW m \in 1..N, NEW n \in 1..N, m < n
       PROVE  <<at[m], at[n]>> \in before
  <2>1. at[m] \in P /\ at[n] \in P /\ r[at[m]] = m /\ r[at[n]] = n
    BY <1>9
  <2>2. at[m] # at[n] /\ <<at[n], at[m]>> \notin before
    BY <1>0, <1>3, <1>12, <2>1
  <2>. QED BY <2>1, <2>2 DEF LinearOrder
<1>. QED BY <1>11, <1>12 DEF Enumerates, at

(* There is one such order only.                                           *)
LEMMA EnumerationUnique ==
  ASSUME NEW P, IsFiniteSet(P), NEW before, LinearOrder(P, before),
         NEW c, Enumerates(c, P, before), NEW d, Enumerates(d, P, before)
  PROVE  c = d
<1>. DEFINE N == Cardinality(P)
            Bad == {n \in 1..N : c[n] # d[n]}
<1>0. N \in Nat
  BY FS_CardinalityType
<1>1. c \in [1..N -> P] /\ d \in [1..N -> P]
  BY DEF Enumerates, Bijection, Injection
<1>2. /\ \A j \in P : (\E n \in 1..N : c[n] = j) /\ (\E n \in 1..N : d[n] = j)
      /\ \A m, n \in 1..N : (c[m] = c[n] => m = n) /\ (d[m] = d[n] => m = n)
  BY DEF Enumerates, Bijection, Injection, Surjection, IsInjective
<1>. SUFFICES ASSUME Bad # {} PROVE FALSE
  <2>1. Bad = {} => \A n \in 1..N : c[n] = d[n]
    OBVIOUS
  <2>2. c = [n \in 1..N |-> c[n]] /\ d = [n \in 1..N |-> d[n]]
    BY <1>1
  <2>3. Bad = {} => c = d
    <3>. HIDE DEF Bad, N
    <3>. QED BY <2>1, <2>2
  <2>. QED BY <2>3
<1>3. PICK n \in Bad : \A m \in Bad : n <= m
  <2>1. Bad \subseteq Nat
    BY <1>0
  <2>. HIDE DEF Bad
  <2>. QED BY <2>1, LeastNat
<1>4. \A m \in 1..N : m < n => c[m] = d[m]
  BY <1>0, <1>3
<1>5. PICK k \in 1..N : d[k] = c[n]
  BY <1>1, <1>2, <1>3
<1>6. PICK l \in 1..N : c[l] = d[n]
  BY <1>1, <1>2, <1>3
<1>7. n < k /\ n < l
  BY <1>0, <1>2, <1>3, <1>4, <1>5, <1>6
<1>8. <<d[n], c[n]>> \in before /\ <<c[n], d[n]>> \in before
  BY <1>3, <1>5, <1>6, <1>7 DEF Enumerates
<1>9. c[n] \in P /\ d[n] \in P
  BY <1>1, <1>3
<1>. QED BY <1>8, <1>9 DEF LinearOrder

(* The natural order, and the order of parameters, are such orders.        *)
OwnOrder(q) == {x \in Own(q) \X Own(q) : Before(q, x[1], x[2])}

LEMMA RankType ==
  /\ \A t \in Texts : Rank[t] \in Nat
  /\ \A t, u \in Texts : Rank[t] = Rank[u] => t = u
BY TextsAssumption

LEMMA NatOrdered ==
  ASSUME NEW P, P \subseteq Nat
  PROVE  LinearOrder(P, {x \in P \X P : x[1] < x[2]})
BY DEF LinearOrder

LEMMA ParametersOrdered ==
  ASSUME NEW q, NEW P, P \subseteq Nat, \A n \in P : q[n].key \in Texts
  PROVE  LinearOrder(P, {x \in P \X P : Before(q, x[1], x[2])})
<1>. DEFINE R(i) == Rank[q[i].key]
            O == {x \in P \X P : Before(q, x[1], x[2])}
<1>1. \A i \in P : i \in Nat /\ R(i) \in Nat
  BY RankType
<1>2. \A i, j \in P : <<i, j>> \in O <=> R(i) < R(j) \/ (R(i) = R(j) /\ i < j)
  BY DEF Before
<1>. HIDE DEF R, O
<1>3. LinearOrder(P, O)
  BY <1>1, <1>2 DEF LinearOrder
<1>. QED BY <1>3 DEF O

(* What a sequence has at some positions, in their order.                  *)
LEMMA OnlyIs ==
  ASSUME NEW T, NEW s \in Seq(T), NEW P, P \subseteq DOMAIN s
  PROVE  \E c : /\ Enumerates(c, P, {x \in P \X P : x[1] < x[2]})
                /\ Cardinality(P) \in Nat
                /\ Only(s, P) = [n \in 1..Cardinality(P) |-> s[c[n]]]
                /\ Only(s, P) \in Seq(T) /\ Len(Only(s, P)) = Cardinality(P)
                /\ \A n \in 1..Cardinality(P) : c[n] \in P
<1>. DEFINE c == Arranged(P, {x \in P \X P : x[1] < x[2]})
            N == Cardinality(P)
<1>1. IsFiniteSet(P) /\ N \in Nat /\ P \subseteq Nat
  <2>1. DOMAIN s = 1..Len(s) /\ Len(s) \in Nat
    OBVIOUS
  <2>2. P \subseteq 1..Len(s) /\ IsFiniteSet(1..Len(s))
    BY <2>1, FS_Interval
  <2>3. P \subseteq Nat
    BY <2>2
  <2>. QED BY <2>2, <2>3, FS_Subset, FS_CardinalityType
<1>2. Enumerates(c, P, {x \in P \X P : x[1] < x[2]})
  BY <1>1, NatOrdered, ArrangedEnumerates
<1>3. Only(s, P) = [n \in 1..N |-> s[c[n]]]
  BY DEF Only
<1>. HIDE DEF c, N
<1>4. \A n \in 1..N : c[n] \in P
  BY <1>2 DEF Enumerates, Bijection, Injection, N
<1>5. \A n \in 1..N : s[c[n]] \in T
  BY <1>4
<1>6. Only(s, P) \in Seq(T) /\ Len(Only(s, P)) = N
  BY <1>1, <1>3, <1>5
<1>. QED BY <1>1, <1>2, <1>3, <1>4, <1>6 DEF N

LEMMA OwnFinite ==
  ASSUME NEW q \in Seq(Param)
  PROVE  /\ IsFiniteSet(Own(q)) /\ Own(q) \subseteq 1..Len(q)
         /\ Cardinality(Own(q)) \in Nat
         /\ \A n \in Own(q) : n \in Nat /\ q[n] \in Param /\ q[n].key \in Texts
<1>1. DOMAIN q = 1..Len(q) /\ Len(q) \in Nat /\ IsFiniteSet(1..Len(q))
  BY FS_Interval
<1>2. Own(q) \in SUBSET (1..Len(q))
  BY <1>1 DEF Own
<1>3. \A n \in Own(q) : n \in Nat /\ q[n] \in Param /\ q[n].key \in Texts
  <2>1. \A n \in Own(q) : n \in Nat /\ q[n] \in Param
    BY <1>1, <1>2
  <2>. QED BY <2>1 DEF Param
<1>. QED BY <1>1, <1>2, <1>3, FS_Subset, FS_CardinalityType

(* The query of a key: the parameters but the tenant, in their one order.  *)
LEMMA CanonicalQuery ==
  ASSUME NEW u \in Uri
  PROVE  LET q == u.query
             v == Normalize(StripTenant(u))
         IN  /\ v \in Uri /\ v.path = u.path
             /\ \E c : /\ Enumerates(c, Own(q), OwnOrder(q))
                       /\ v.query = [n \in 1..Cardinality(Own(q)) |-> Filled(q[c[n]])]
<1>. DEFINE q == u.query
            N == Cardinality(Own(q))
            s == Only(q, Own(q))
            InOrder == {x \in (1..N) \X (1..N) : Before(s, x[1], x[2])}
            at == Arranged(1..N, InOrder)
<1>1. u.path \in Seq(Texts) /\ q \in Seq(Param) /\ u = [path |-> u.path, query |-> q]
  BY DEF Uri
<1>. HIDE DEF q
<1>2. PICK b : /\ Enumerates(b, Own(q), {x \in Own(q) \X Own(q) : x[1] < x[2]})
               /\ N \in Nat
               /\ s = [n \in 1..N |-> q[b[n]]]
               /\ s \in Seq(Param) /\ Len(s) = N
               /\ \A n \in 1..N : b[n] \in Own(q)
  <2>1. Own(q) \subseteq DOMAIN q
    BY DEF Own
  <2>. QED BY <1>1, <2>1, OnlyIs
<1>3. StripTenant(u) = [path |-> u.path, query |-> s]
  BY <1>1 DEF StripTenant, Own, q
<1>4. DOMAIN s = 1..N /\ IsFiniteSet(1..N) /\ Cardinality(1..N) = N
  BY <1>2, FS_Interval
<1>. HIDE DEF s
<1>5. LinearOrder(1..N, InOrder)
  <2>1. 1..N \subseteq Nat /\ \A n \in 1..N : s[n] \in Param
    BY <1>2
  <2>2. \A n \in 1..N : s[n].key \in Texts
    BY <2>1 DEF Param
  <2>. QED BY <2>1, <2>2, ParametersOrdered
<1>6. Enumerates(at, 1..N, InOrder)
  BY <1>4, <1>5, ArrangedEnumerates
<1>7. SortedByKey(s) = [n \in 1..N |-> s[at[n]]]
  BY <1>4 DEF SortedByKey
<1>. HIDE DEF at
<1>8. \A n \in 1..N : at[n] \in 1..N
  BY <1>4, <1>6 DEF Enumerates, Bijection, Injection
<1>. DEFINE c == [n \in 1..N |-> b[at[n]]]
<1>9. /\ c \in [1..N -> Own(q)]
      /\ \A m, n \in 1..N : c[m] = c[n] => m = n
      /\ \A j \in Own(q) : \E n \in 1..N : c[n] = j
  <2>1. \A m, n \in 1..N : (b[m] = b[n] => m = n) /\ (at[m] = at[n] => m = n)
    BY <1>2, <1>4, <1>6 DEF Enumerates, Bijection, Injection, IsInjective
  <2>2. \A j \in Own(q) : \E n \in 1..N : b[n] = j
    BY <1>2 DEF Enumerates, Bijection, Surjection
  <2>3. \A k \in 1..N : \E n \in 1..N : at[n] = k
    BY <1>4, <1>6 DEF Enumerates, Bijection, Surjection
  <2>4. \A n \in 1..N : c[n] = b[at[n]] /\ c[n] \in Own(q)
    BY <1>2, <1>8
  <2>5. c \in [1..N -> Own(q)]
    BY <2>4
  <2>. HIDE DEF c, N
  <2>6. \A m, n \in 1..N : c[m] = c[n] => m = n
    BY <1>8, <2>1, <2>4
  <2>7. \A j \in Own(q) : \E n \in 1..N : c[n] = j
    BY <2>2, <2>3, <2>4
  <2>. QED BY <2>5, <2>6, <2>7
<1>10. c \in Bijection(1..N, Own(q))
  BY <1>9 DEF Bijection, Injection, Surjection, IsInjective
<1>11. ASSUME NEW m \in 1..N, NEW n \in 1..N, m < n
       PROVE  <<c[m], c[n]>> \in OwnOrder(q)
  <2>1. Before(s, at[m], at[n]) /\ at[m] \in 1..N /\ at[n] \in 1..N
    BY <1>4, <1>6, <1>8, <1>11 DEF Enumerates
  <2>2. /\ s[at[m]] = q[c[m]] /\ s[at[n]] = q[c[n]]
        /\ c[m] \in Own(q) /\ c[n] \in Own(q)
    BY <1>2, <1>8
  <2>3. at[m] < at[n] => c[m] < c[n]
    <3>1. at[m] < at[n] => b[at[m]] < b[at[n]]
      BY <1>2, <1>8 DEF Enumerates
    <3>. QED BY <3>1
  <2>4. Before(q, c[m], c[n])
    <3>. HIDE DEF c
    <3>. QED BY <2>1, <2>2, <2>3 DEF Before
  <2>. HIDE DEF c
  <2>. QED BY <2>2, <2>4 DEF OwnOrder
<1>12. Enumerates(c, Own(q), OwnOrder(q))
  <2>. HIDE DEF c
  <2>. QED BY <1>10, <1>11 DEF Enumerates
<1>13. \A n \in 1..N : SortedByKey(s)[n] = q[c[n]] /\ q[c[n]] \in Param
  <2>1. \A n \in 1..N : SortedByKey(s)[n] = s[at[n]] /\ s[at[n]] = q[b[at[n]]]
    BY <1>2, <1>7, <1>8
  <2>2. \A n \in 1..N : c[n] = b[at[n]] /\ c[n] \in Own(q)
    BY <1>9
  <2>3. \A j \in Own(q) : q[j] \in Param
    BY <1>1, OwnFinite
  <2>. HIDE DEF c, N
  <2>. QED BY <2>1, <2>2, <2>3
<1>14. DOMAIN SortedByKey(s) = 1..N
  BY <1>7
<1>15. Normalize(StripTenant(u)) =
         [path |-> u.path, query |-> [n \in 1..N |-> Filled(q[c[n]])]]
  <2>1. Normalize(StripTenant(u)) =
          [path |-> u.path,
           query |-> [n \in DOMAIN SortedByKey(s) |-> Filled(SortedByKey(s)[n])]]
    BY <1>3 DEF Normalize
  <2>. HIDE DEF c
  <2>. QED BY <1>13, <1>14, <2>1
<1>. HIDE DEF c
<1>16. \A p \in Param : Filled(p) \in Param
  BY TextsAssumption DEF Filled, Param
<1>17. [n \in 1..N |-> Filled(q[c[n]])] \in Seq(Param)
  BY <1>2, <1>13, <1>16
<1>18. Normalize(StripTenant(u)) \in Uri
  BY <1>1, <1>15, <1>17 DEF Uri
<1>. QED BY <1>12, <1>15, <1>18 DEF q

LEMMA BijectionFacts ==
  ASSUME NEW S, NEW T, NEW f \in Bijection(S, T)
  PROVE  /\ f \in [S -> T]
         /\ \A i, j \in S : f[i] = f[j] => i = j
         /\ \A j \in T : \E i \in S : f[i] = j
BY DEF Bijection, Injection, Surjection, IsInjective

(* Two queries have one canonical form just when they have the same        *)
(* parameters.                                                             *)
LEMMA CanonicalSame ==
  ASSUME NEW q \in Seq(Param), NEW r \in Seq(Param),
         NEW c, Enumerates(c, Own(q), OwnOrder(q)),
         NEW d, Enumerates(d, Own(r), OwnOrder(r))
  PROVE  [n \in 1..Cardinality(Own(q)) |-> Filled(q[c[n]])] =
           [n \in 1..Cardinality(Own(r)) |-> Filled(r[d[n]])]
         <=> SameParameters(q, r)
<1>. DEFINE N == Cardinality(Own(q))
            M == Cardinality(Own(r))
            C == [n \in 1..N |-> Filled(q[c[n]])]
            D == [n \in 1..M |-> Filled(r[d[n]])]
<1>1. N \in Nat /\ M \in Nat
  BY OwnFinite
<1>2. c \in Bijection(1..N, Own(q)) /\ d \in Bijection(1..M, Own(r))
  BY DEF Enumerates
<1>3. /\ c \in [1..N -> Own(q)] /\ d \in [1..M -> Own(r)]
      /\ \A m, n \in 1..N : c[m] = c[n] => m = n
      /\ \A m, n \in 1..M : d[m] = d[n] => m = n
      /\ \A i \in Own(q) : \E n \in 1..N : c[n] = i
      /\ \A i \in Own(r) : \E n \in 1..M : d[n] = i
  <2>. HIDE DEF N, M
  <2>1. /\ c \in [1..N -> Own(q)]
        /\ \A m, n \in 1..N : c[m] = c[n] => m = n
        /\ \A i \in Own(q) : \E n \in 1..N : c[n] = i
    BY <1>2 DEF Bijection, Injection, Surjection, IsInjective
  <2>2. /\ d \in [1..M -> Own(r)]
        /\ \A m, n \in 1..M : d[m] = d[n] => m = n
        /\ \A i \in Own(r) : \E n \in 1..M : d[n] = i
    BY <1>2 DEF Bijection, Injection, Surjection, IsInjective
  <2>. QED BY <2>1, <2>2
<1>4. /\ \A m, n \in 1..N : m < n => Before(q, c[m], c[n])
      /\ \A m, n \in 1..M : m < n => Before(r, d[m], d[n])
  BY DEF Enumerates, OwnOrder
<1>5. \A p \in Param : Filled(p).key = p.key /\ p.key \in Texts
  BY DEF Filled, Param
<1>6. /\ \A i \in Own(q) : i \in Nat /\ Filled(q[i]).key = q[i].key /\ q[i].key \in Texts
      /\ \A i \in Own(r) : i \in Nat /\ Filled(r[i]).key = r[i].key /\ r[i].key \in Texts
  BY <1>5, OwnFinite
<1>7. ASSUME C = D PROVE SameParameters(q, r)
  <2>1. N = M
    <3>1. DOMAIN C = 1..N /\ DOMAIN D = 1..M
      OBVIOUS
    <3>2. 1..N = 1..M
      BY <1>7, <3>1
    <3>. HIDE DEF N, M
    <3>. QED BY <1>1, <3>2, FS_Interval
  <2>2. \A n \in 1..N : Filled(q[c[n]]) = Filled(r[d[n]])
    <3>1. \A n \in 1..N : C[n] = Filled(q[c[n]]) /\ D[n] = Filled(r[d[n]])
      BY <2>1
    <3>. QED BY <1>7, <3>1
  <2>. DEFINE no == [i \in Own(q) |-> CHOOSE n \in 1..N : c[n] = i]
              f  == [i \in Own(q) |-> d[no[i]]]
  <2>3. \A i \in Own(q) : no[i] \in 1..N /\ c[no[i]] = i
    BY <1>3
  <2>. HIDE DEF no
  <2>. HIDE DEF N, M
  <2>4. \A i \in Own(q) : f[i] = d[no[i]] /\ f[i] \in Own(r) /\ no[i] \in 1..M
    BY <1>3, <2>1, <2>3
  <2>5. f \in [Own(q) -> Own(r)]
    BY <2>4
  <2>. HIDE DEF f
  <2>6. \A i, j \in Own(q) : f[i] = f[j] => i = j
    BY <1>3, <2>1, <2>3, <2>4
  <2>7. \A j \in Own(r) : \E i \in Own(q) : f[i] = j
    <3>. SUFFICES ASSUME NEW j \in Own(r) PROVE \E i \in Own(q) : f[i] = j
      OBVIOUS
    <3>1. PICK n \in 1..N : d[n] = j
      BY <1>3, <2>1
    <3>2. c[n] \in Own(q)
      BY <1>3
    <3>3. no[c[n]] = n
      BY <1>3, <2>3, <3>2
    <3>. QED BY <2>4, <3>1, <3>2, <3>3
  <2>8. f \in Bijection(Own(q), Own(r))
    BY <2>5, <2>6, <2>7 DEF Bijection, Injection, Surjection, IsInjective
  <2>9. \A i \in Own(q) : Filled(r[f[i]]) = Filled(q[i])
    BY <2>2, <2>3, <2>4
  <2>10. ASSUME NEW i \in Own(q), NEW j \in Own(q), q[i].key = q[j].key, i < j
         PROVE  f[i] < f[j]
    <3>1. r[f[i]].key = r[f[j]].key /\ r[f[i]].key \in Texts
      BY <1>6, <2>4, <2>9, <2>10
    <3>2. i \in Nat /\ j \in Nat /\ f[i] \in Nat /\ f[j] \in Nat
      BY <1>6, <2>4
    <3>3. Rank[q[i].key] \in Nat /\ Rank[r[f[i]].key] \in Nat
      BY <1>6, <3>1, RankType
    <3>4. ~ Before(q, j, i)
      BY <2>10, <3>2, <3>3 DEF Before
    <3>5. no[i] \in Nat /\ no[j] \in Nat /\ no[i] # no[j]
      BY <1>1, <2>3, <2>10, <3>2
    <3>6. no[i] < no[j]
      BY <1>4, <2>3, <3>4, <3>5
    <3>7. Before(r, f[i], f[j])
      BY <1>4, <2>4, <3>6
    <3>. QED BY <3>1, <3>3, <3>7 DEF Before
  <2>. QED BY <2>8, <2>9, <2>10 DEF SameParameters
<1>8. ASSUME SameParameters(q, r) PROVE C = D
  <2>1. PICK f \in Bijection(Own(q), Own(r)) :
          /\ \A i \in Own(q) : Filled(r[f[i]]) = Filled(q[i])
          /\ \A i, j \in Own(q) : q[i].key = q[j].key /\ i < j => f[i] < f[j]
    BY <1>8 DEF SameParameters
  <2>2. /\ f \in [Own(q) -> Own(r)]
        /\ \A i, j \in Own(q) : f[i] = f[j] => i = j
        /\ \A j \in Own(r) : \E i \in Own(q) : f[i] = j
    BY BijectionFacts
  <2>3. N = M
    <3>1. IsFiniteSet(Own(q)) /\ ExistsBijection(Own(q), Own(r))
      BY <2>1, OwnFinite DEF ExistsBijection
    <3>. QED BY <3>1, FS_Bijection
  <2>. DEFINE e == [n \in 1..N |-> f[c[n]]]
  <2>. HIDE DEF N, M
  <2>4. \A n \in 1..N : e[n] = f[c[n]] /\ c[n] \in Own(q) /\ e[n] \in Own(r)
    BY <1>3, <2>2
  <2>5. e \in [1..N -> Own(r)]
    BY <2>4
  <2>. HIDE DEF e
  <2>6. \A m, n \in 1..N : e[m] = e[n] => m = n
    BY <1>3, <2>2, <2>4
  <2>7. \A j \in Own(r) : \E n \in 1..N : e[n] = j
    BY <1>3, <2>2, <2>4
  <2>8. e \in Bijection(1..M, Own(r))
    BY <2>3, <2>5, <2>6, <2>7 DEF Bijection, Injection, Surjection, IsInjective
  <2>9. ASSUME NEW m \in 1..N, NEW n \in 1..N, m < n
        PROVE  <<e[m], e[n]>> \in OwnOrder(r)
    <3>. DEFINE i == c[m]
                j == c[n]
    <3>1. i \in Own(q) /\ j \in Own(q) /\ e[m] = f[i] /\ e[n] = f[j]
          /\ e[m] \in Own(r) /\ e[n] \in Own(r) /\ Before(q, i, j)
      BY <1>4, <2>4, <2>9
    <3>. HIDE DEF i, j
    <3>2. r[e[m]].key = q[i].key /\ r[e[n]].key = q[j].key
      BY <1>6, <2>1, <3>1
    <3>3. q[i].key \in Texts /\ q[j].key \in Texts
      BY <1>6, <3>1
    <3>4. Rank[q[i].key] = Rank[q[j].key] => q[i].key = q[j].key
      BY <3>3, RankType
    <3>5. Before(r, e[m], e[n])
      BY <2>1, <3>1, <3>2, <3>4 DEF Before
    <3>. QED BY <3>1, <3>5 DEF OwnOrder
  <2>10. Enumerates(e, Own(r), OwnOrder(r))
    BY <2>3, <2>8, <2>9 DEF Enumerates, M
  <2>11. LinearOrder(Own(r), OwnOrder(r)) /\ IsFiniteSet(Own(r))
    <3>1. Own(r) \subseteq Nat /\ \A n \in Own(r) : r[n].key \in Texts
      BY OwnFinite
    <3>. QED BY <3>1, OwnFinite, ParametersOrdered DEF OwnOrder
  <2>12. e = d
    BY <2>10, <2>11, EnumerationUnique
  <2>13. \A n \in 1..N : Filled(q[c[n]]) = Filled(r[d[n]])
    BY <2>1, <2>4, <2>12
  <2>. QED BY <2>3, <2>13
<1>. QED BY <1>7, <1>8

-----------------------------------------------------------------------------
(***************************************************************************)
(* The key of a request.                                                   *)
(***************************************************************************)
LEMMA TextFacts ==
  /\ "" \in Texts /\ "_tenant" \in Texts /\ Global \in Texts /\ Global # ""
  /\ Trimmed[""] = ""
  /\ \A t \in Texts : Trimmed[t] \in Texts /\ Clipped[t] \in Texts
  /\ \A t \in Texts \ {""} : Clipped[t] # ""
  /\ NoValue \notin Texts /\ NoHeader \notin Texts
BY TextsAssumption

LEMMA UriFacts ==
  ASSUME NEW u \in Uri
  PROVE  /\ u = [path |-> u.path, query |-> u.query]
         /\ u.path \in Seq(Texts) /\ u.query \in Seq(Param)
         /\ DOMAIN u.query = 1..Len(u.query) /\ Len(u.query) \in Nat
         /\ \A n \in DOMAIN u.query : u.query[n] \in Param
<1>1. u = [path |-> u.path, query |-> u.query]
      /\ u.path \in Seq(Texts) /\ u.query \in Seq(Param)
  BY DEF Uri
<1>2. DOMAIN u.query = 1..Len(u.query) /\ Len(u.query) \in Nat
      /\ \A n \in DOMAIN u.query : u.query[n] \in Param
  BY <1>1
<1>. QED BY <1>1, <1>2

LEMMA ClampType ==
  ASSUME NEW t \in Texts
  PROVE  Clamp(t) \in Texts /\ Clamp(t) # ""
BY TextFacts DEF Clamp

(* resolve_tenant finds the tenant that the client names.                  *)
LEMMA TenantIsNamed ==
  ASSUME NEW h \in Texts \cup {NoHeader}, NEW u \in Uri
  PROVE  /\ ResolveTenant(h, u) \in Texts \ {""}
         /\ \A w : w.header = h /\ w.uri = u => ResolveTenant(h, u) = NamedTenant(w)
<1>. DEFINE q == u.query
            named == {n \in 1..Len(q) : q[n].key = "_tenant" /\ q[n].value # NoValue}
            at == IF named # {} THEN Min(named) ELSE 0
<1>1. /\ DOMAIN q = 1..Len(q) /\ Len(q) \in Nat
      /\ \A n \in 1..Len(q) : q[n] \in Param
  BY UriFacts
<1>2. /\ at \in 0..Len(q) /\ (at = 0 <=> named = {})
      /\ at # 0 => at \in named /\ \A m \in named : at <= m
  <2>. HIDE DEF q
  <2>1. named \subseteq 1..Len(q)
    OBVIOUS
  <2>. HIDE DEF named
  <2>. QED BY <1>1, <2>1, FirstPosition
<1>3. ResolveTenant(h, u) =
        IF h # NoHeader THEN Clamp(h)
        ELSE IF at # 0 THEN Clamp(q[at].value) ELSE Global
  BY DEF ResolveTenant, SelectInSeq
<1>4. ResolveTenant(h, u) \in Texts \ {""}
  <2>1. at # 0 => q[at].value \in Texts
    BY <1>1, <1>2 DEF Param
  <2>. HIDE DEF at
  <2>. QED BY <1>3, <2>1, ClampType, TextFacts
<1>5. ASSUME NEW w, w.header = h, w.uri = u
      PROVE  ResolveTenant(h, u) = NamedTenant(w)
  <2>1. DOMAIN w.uri.query = 1..Len(q)
    BY <1>1, <1>5
  <2>. DEFINE raw == IF h # NoHeader THEN h ELSE IF named = {} THEN "" ELSE q[Min(named)].value
  <2>2. NamedTenant(w) = Clamp(raw)
    BY <1>5, <2>1 DEF NamedTenant, Min, Clamp
  <2>3. Clamp("") = Global
    BY TextFacts DEF Clamp
  <2>4. at = 0 <=> named = {}
    BY <1>2
  <2>5. named # {} => at = Min(named)
    OBVIOUS
  <2>6. CASE h # NoHeader
    BY <1>3, <2>2, <2>6
  <2>7. CASE h = NoHeader /\ named = {}
    BY <1>3, <2>2, <2>3, <2>4, <2>7
  <2>8. CASE h = NoHeader /\ named # {}
    BY <1>3, <2>2, <2>4, <2>5, <2>8
  <2>. QED BY <2>6, <2>7, <2>8
<1>. QED BY <1>4, <1>5

(* resolve_upstream finds a service for every request.                     *)
LEMMA ServiceType ==
  ASSUME NEW host, NEW path
  PROVE  ResolveService(Routes, host, path) \in Texts
<1>. DEFINE I == {n \in 1..Len(Routes) : RouteMatches(Routes[n], host, path)}
            at == IF I # {} THEN Min(I) ELSE 0
<1>1. /\ at \in 0..Len(Routes) /\ (at = 0 <=> I = {})
      /\ at # 0 => at \in I /\ \A m \in I : at <= m
  <2>1. I \subseteq 1..Len(Routes)
    OBVIOUS
  <2>. HIDE DEF I
  <2>. QED BY <2>1, FirstPosition, ReplayAssumption
<1>2. ResolveService(Routes, host, path) = IF at = 0 THEN Global ELSE Routes[at].service
  BY DEF ResolveService, SelectInSeq
<1>3. at # 0 => at \in 1..Len(Routes)
  <2>. HIDE DEF at
  <2>. QED BY <1>1
<1>. HIDE DEF at
<1>. QED BY <1>2, <1>3, TextFacts, ReplayAssumption

LEMMA RequestFacts ==
  ASSUME NEW w \in Request
  PROVE  /\ w.method \in {"GET", "POST", "PUT"} /\ w.uri \in Uri
         /\ w.header \in Texts \cup {NoHeader} /\ w.body \in Body
BY DEF Request

(* A body stays one when it is truncated or read as text.                  *)
LEMMA KeptType ==
  ASSUME NEW b \in Body
  PROVE  /\ Lossy(b) \in Body /\ Kept(b) \in Body
         /\ Lossy(b).form = "json" => Lossy(b) = b
<1>1. b \in [form: {"empty", "json", "text", "bytes"}, leaves: Seq(Leaf)]
  BY DEF Body
<1>2. b.leaves \in Seq(Leaf) /\ b = [form |-> b.form, leaves |-> b.leaves]
  BY <1>1
<1>3. "U+FFFD" \in Texts /\ "[BODY_TRUNCATED]" \in Texts
  BY ReplayAssumption
<1>4. \A l \in Leaf : [l EXCEPT !.text = "U+FFFD"] \in Leaf
  BY <1>3 DEF Leaf
<1>. DEFINE s == b.leaves
            t == [n \in DOMAIN s |-> [s[n] EXCEPT !.text = "U+FFFD"]]
<1>5. t \in Seq(Leaf)
  <2>1. DOMAIN s = 1..Len(s) /\ Len(s) \in Nat /\ \A n \in 1..Len(s) : s[n] \in Leaf
    BY <1>2
  <2>2. \A n \in 1..Len(s) : [s[n] EXCEPT !.text = "U+FFFD"] \in Leaf
    BY <1>4, <2>1
  <2>. HIDE DEF s
  <2>. QED BY <2>1, <2>2
<1>6. b.form = "bytes" => Lossy(b) = [form |-> "text", leaves |-> t]
  BY <1>2 DEF Lossy
<1>7. [form |-> "text", leaves |-> t] \in Body
  <2>. HIDE DEF t
  <2>. QED BY <1>5 DEF Body
<1>8. b.form # "bytes" => Lossy(b) = b
  BY DEF Lossy
<1>9. Lossy(b) \in Body
  BY <1>6, <1>7, <1>8
<1>10. Truncated \in Body
  <2>1. [at |-> <<>>, kind |-> "other", text |-> "[BODY_TRUNCATED]"] \in Leaf
    BY <1>3 DEF Leaf
  <2>2. << [at |-> <<>>, kind |-> "other", text |-> "[BODY_TRUNCATED]"] >> \in Seq(Leaf)
    BY <2>1
  <2>. QED BY <2>2 DEF Truncated, Body
<1>11. Lossy(b).form = "json" => Lossy(b) = b
  BY <1>6, <1>8
<1>. QED BY <1>9, <1>10, <1>11 DEF Kept

(* What a request becomes keeps its path and its parameters.               *)
LEMMA PreparedFacts ==
  ASSUME NEW w \in Request
  PROVE  LET p == Prepared(w) IN
         /\ p.key \in Key /\ p.uri \in Uri /\ p.body = Lossy(w.body)
         /\ p.key.uri = p.uri /\ p.uri.path = w.uri.path
         /\ p.key.method = w.method /\ p.key.service = ServiceOf(w)
         /\ p.key.tenant = NamedTenant(w) /\ p.key.tenant \in Texts \ {""}
         /\ p.key = [service |-> p.key.service, method |-> w.method,
                     uri |-> p.uri, tenant |-> p.key.tenant]
         /\ p.uri = Normalize(StripTenant(w.uri))
<1>. DEFINE u == Normalize(StripTenant(w.uri))
            s == ResolveService(Routes, w.host, u.path)
            t == ResolveTenant(w.header, w.uri)
<1>1. u \in Uri /\ u.path = w.uri.path
  BY RequestFacts, CanonicalQuery
<1>2. s \in Texts
  BY ServiceType
<1>3. t = NamedTenant(w) /\ t \in Texts \ {""}
  BY RequestFacts, TenantIsNamed
<1>4. s = ServiceOf(w)
  BY <1>1 DEF ServiceOf
<1>5. Prepared(w) = [key |-> [service |-> s, method |-> w.method, uri |-> u, tenant |-> t],
                     uri |-> u, body |-> Lossy(w.body)]
  BY DEF Prepared
<1>. HIDE DEF u, s, t
<1>6. [service |-> s, method |-> w.method, uri |-> u, tenant |-> t] \in Key
  BY <1>1, <1>2, <1>3, RequestFacts DEF Key
<1>7. u = Normalize(StripTenant(w.uri))
  BY DEF u
<1>8. /\ Prepared(w).key = [service |-> s, method |-> w.method, uri |-> u, tenant |-> t]
      /\ Prepared(w).uri = u /\ Prepared(w).body = Lossy(w.body)
  BY <1>5
<1>9. /\ Prepared(w).key.service = s /\ Prepared(w).key.method = w.method
      /\ Prepared(w).key.uri = u /\ Prepared(w).key.tenant = t
  BY <1>8
<1>. QED BY <1>1, <1>3, <1>4, <1>6, <1>7, <1>8, <1>9

(* Two requests have one key just when they are equivalent.                *)
LEMMA KeySame ==
  ASSUME NEW v \in Request, NEW w \in Request
  PROVE  Prepared(v).key = Prepared(w).key <=> Equivalent(v, w)
<1>. DEFINE q == v.uri.query
            r == w.uri.query
<1>1. v.uri \in Uri /\ w.uri \in Uri
  BY RequestFacts
<1>2. q \in Seq(Param) /\ r \in Seq(Param)
  BY <1>1, UriFacts
<1>3. Prepared(v).uri \in Uri /\ Prepared(w).uri \in Uri
  BY PreparedFacts
<1>4. Prepared(v).uri = Prepared(w).uri
        <=> v.uri.path = w.uri.path /\ Prepared(v).uri.query = Prepared(w).uri.query
  <2>1. Prepared(v).uri.path = v.uri.path /\ Prepared(w).uri.path = w.uri.path
    BY PreparedFacts
  <2>. QED BY <1>3, <2>1, UriFacts
<1>5. PICK c : /\ Enumerates(c, Own(q), OwnOrder(q))
               /\ Prepared(v).uri.query =
                    [n \in 1..Cardinality(Own(q)) |-> Filled(q[c[n]])]
  <2>1. Prepared(v).uri = Normalize(StripTenant(v.uri))
    BY PreparedFacts
  <2>2. \E c : /\ Enumerates(c, Own(q), OwnOrder(q))
               /\ Normalize(StripTenant(v.uri)).query =
                    [n \in 1..Cardinality(Own(q)) |-> Filled(q[c[n]])]
    BY <1>1, CanonicalQuery
  <2>. HIDE DEF q
  <2>. QED BY <2>1, <2>2
<1>6. PICK d : /\ Enumerates(d, Own(r), OwnOrder(r))
               /\ Prepared(w).uri.query =
                    [n \in 1..Cardinality(Own(r)) |-> Filled(r[d[n]])]
  <2>1. Prepared(w).uri = Normalize(StripTenant(w.uri))
    BY PreparedFacts
  <2>2. \E d : /\ Enumerates(d, Own(r), OwnOrder(r))
               /\ Normalize(StripTenant(w.uri)).query =
                    [n \in 1..Cardinality(Own(r)) |-> Filled(r[d[n]])]
    BY <1>1, CanonicalQuery
  <2>. HIDE DEF r
  <2>. QED BY <2>1, <2>2
<1>7. Prepared(v).uri.query = Prepared(w).uri.query <=> SameParameters(q, r)
  <2>. HIDE DEF q, r
  <2>. QED BY <1>2, <1>5, <1>6, CanonicalSame
<1>8. Prepared(v).key = Prepared(w).key
        <=> /\ ServiceOf(v) = ServiceOf(w) /\ v.method = w.method
            /\ Prepared(v).uri = Prepared(w).uri /\ NamedTenant(v) = NamedTenant(w)
  <2>1. /\ Prepared(v).key = [service |-> ServiceOf(v), method |-> v.method,
                              uri |-> Prepared(v).uri, tenant |-> NamedTenant(v)]
        /\ Prepared(w).key = [service |-> ServiceOf(w), method |-> w.method,
                              uri |-> Prepared(w).uri, tenant |-> NamedTenant(w)]
    BY PreparedFacts
  <2>. QED BY <2>1
<1>. QED BY <1>4, <1>7, <1>8 DEF Equivalent

-----------------------------------------------------------------------------
(***************************************************************************)
(* Types.                                                                  *)
(***************************************************************************)
LEMMA BodyFacts ==
  ASSUME NEW body \in Body
  PROVE  /\ body \in [form: {"empty", "json", "text", "bytes"}, leaves: Seq(Leaf)]
         /\ DOMAIN body.leaves = 1..Len(body.leaves) /\ Len(body.leaves) \in Nat
         /\ \A n \in DOMAIN body.leaves :
              /\ body.leaves[n] \in Leaf /\ body.leaves[n].at \in Seq(Texts)
              /\ body.leaves[n].text \in Texts
         /\ \A l \in LeafSet(body) : l \in Leaf /\ l.at \in Seq(Texts) /\ l.text \in Texts
         /\ body.form = "json" =>
              \A l, m \in LeafSet(body) :
                 (l.at = m.at => l = m) /\ (l.kind = "number" => l.text # "")
<1>1. /\ body \in [form: {"empty", "json", "text", "bytes"}, leaves: Seq(Leaf)]
      /\ body.form = "json" =>
           \A m, n \in DOMAIN body.leaves :
             /\ body.leaves[m].at = body.leaves[n].at => m = n
             /\ body.leaves[n].kind = "number" => body.leaves[n].text # ""
  BY DEF Body
<1>2. body.leaves \in Seq(Leaf)
  BY <1>1
<1>3. DOMAIN body.leaves = 1..Len(body.leaves) /\ Len(body.leaves) \in Nat
      /\ \A n \in DOMAIN body.leaves : body.leaves[n] \in Leaf
  BY <1>2
<1>4. \A l \in Leaf : l.at \in Seq(Texts) /\ l.text \in Texts
  BY DEF Leaf
<1>5. \A l \in LeafSet(body) : \E n \in DOMAIN body.leaves : l = body.leaves[n]
  BY DEF LeafSet
<1>6. ASSUME body.form = "json", NEW l \in LeafSet(body), NEW m \in LeafSet(body)
      PROVE  (l.at = m.at => l = m) /\ (l.kind = "number" => l.text # "")
  <2>1. PICK i \in DOMAIN body.leaves : l = body.leaves[i]
    BY <1>5
  <2>2. PICK j \in DOMAIN body.leaves : m = body.leaves[j]
    BY <1>5
  <2>. QED BY <1>1, <1>6, <2>1, <2>2
<1>7. \A l \in LeafSet(body) : l \in Leaf /\ l.at \in Seq(Texts) /\ l.text \in Texts
  BY <1>3, <1>4, <1>5
<1>8. \A n \in DOMAIN body.leaves :
        body.leaves[n].at \in Seq(Texts) /\ body.leaves[n].text \in Texts
  BY <1>3, <1>4
<1>. QED BY <1>1, <1>3, <1>6, <1>7, <1>8

(* The number of bytes of a body is a number.                              *)
Bytes(b, f, n) == IF n = 0 THEN 0 ELSE f[n - 1] + Length[b.leaves[n].text]

LEMMA ByteLengthExists ==
  ASSUME NEW b, NEW k \in Nat
  PROVE  \E f : f = [n \in 0..k |-> Bytes(b, f, n)]
<1>. DEFINE Good(m, f) == f = [n \in 0..m |-> Bytes(b, f, n)]
            Bad == {m \in Nat : \A f : ~ Good(m, f)}
<1>. SUFFICES ASSUME Bad # {} PROVE FALSE
  OBVIOUS
<1>1. PICK m \in Bad : \A j \in Bad : m <= j
  <2>1. Bad \subseteq Nat
    OBVIOUS
  <2>. HIDE DEF Bad
  <2>. QED BY <2>1, LeastNat
<1>2. CASE m = 0
  <2>. DEFINE g == [n \in 0..0 |-> 0]
  <2>1. \A n \in 0..0 : Bytes(b, g, n) = 0
    BY DEF Bytes
  <2>2. Good(0, g)
    BY <2>1
  <2>. QED BY <1>1, <1>2, <2>2
<1>3. CASE m # 0
  <2>1. m - 1 \in Nat /\ m - 1 \notin Bad
    BY <1>1, <1>3
  <2>2. PICK f : Good(m - 1, f)
    BY <2>1
  <2>. DEFINE g == [n \in 0..m |-> IF n = m THEN Bytes(b, f, m) ELSE f[n]]
  <2>3. \A n \in 0..(m - 1) : f[n] = Bytes(b, f, n)
    BY <2>2
  <2>4. ASSUME NEW n \in 0..m PROVE g[n] = Bytes(b, g, n)
    <3>1. n # 0 => n - 1 \in 0..(m - 1) /\ g[n - 1] = f[n - 1]
      BY <2>1
    <3>2. Bytes(b, g, n) = Bytes(b, f, n)
      BY <3>1 DEF Bytes
    <3>3. g[n] = Bytes(b, f, n)
      BY <2>1, <2>3
    <3>. QED BY <3>2, <3>3
  <2>5. Good(m, g)
    BY <2>4
  <2>. QED BY <1>1, <2>5
<1>. QED BY <1>2, <1>3

LEMMA ByteLengthType ==
  ASSUME NEW b \in Body
  PROVE  ByteLength(b) \in Nat
<1>. DEFINE N == Len(b.leaves)
            upTo[n \in 0..N] ==
              IF n = 0 THEN 0 ELSE upTo[n - 1] + Length[b.leaves[n].text]
<1>1. N \in Nat /\ \A n \in 1..N : b.leaves[n].text \in Texts
  BY BodyFacts
<1>2. ByteLength(b) = upTo[N]
  BY DEF ByteLength
<1>3. PICK f : f = [n \in 0..N |-> Bytes(b, f, n)]
  BY <1>1, ByteLengthExists
<1>4. upTo = [n \in 0..N |-> Bytes(b, upTo, n)]
  BY <1>3 DEF Bytes
<1>. HIDE DEF upTo
<1>5. \A n \in 0..N : upTo[n] = Bytes(b, upTo, n)
  <2>1. \A n \in 0..N : [k \in 0..N |-> Bytes(b, upTo, k)][n] = Bytes(b, upTo, n)
    OBVIOUS
  <2>. QED BY <1>4, <2>1
<1>. DEFINE Bad == {n \in 0..N : upTo[n] \notin Nat}
<1>6. Bad = {}
  <2>. SUFFICES ASSUME Bad # {} PROVE FALSE
    OBVIOUS
  <2>1. PICK m \in Bad : \A j \in Bad : m <= j
    <3>1. Bad \subseteq Nat
      OBVIOUS
    <3>. HIDE DEF Bad
    <3>. QED BY <3>1, LeastNat
  <2>2. m # 0
    BY <1>5, <2>1 DEF Bytes
  <2>3. m \in 1..N /\ m - 1 \in 0..N /\ m - 1 \notin Bad
    BY <1>1, <2>1, <2>2
  <2>4. upTo[m] = upTo[m - 1] + Length[b.leaves[m].text]
    BY <1>5, <2>1, <2>2 DEF Bytes
  <2>5. Length[b.leaves[m].text] \in Nat
    BY <1>1, <2>3, SwapAssumption
  <2>. QED BY <2>1, <2>3, <2>4, <2>5
<1>. QED BY <1>1, <1>2, <1>6

(* The segments of a path are texts, none of them blank.                   *)
LEMMA SegmentsType ==
  ASSUME NEW path \in Seq(Texts)
  PROVE  /\ Segments(path) \in Seq(Texts)
         /\ DOMAIN Segments(path) = 1..Len(Segments(path)) /\ Len(Segments(path)) \in Nat
         /\ \A n \in DOMAIN Segments(path) :
              Segments(path)[n] \in Texts /\ Segments(path)[n] # ""
<1>. DEFINE P == {n \in DOMAIN path : path[n] # ""}
<1>0. DOMAIN path = 1..Len(path) /\ \A k \in 1..Len(path) : path[k] \in Texts
  OBVIOUS
<1>1. P \subseteq DOMAIN path
  OBVIOUS
<1>2. PICK c : /\ Enumerates(c, P, {x \in P \X P : x[1] < x[2]})
               /\ Cardinality(P) \in Nat
               /\ Only(path, P) = [n \in 1..Cardinality(P) |-> path[c[n]]]
               /\ Only(path, P) \in Seq(Texts) /\ Len(Only(path, P)) = Cardinality(P)
               /\ \A n \in 1..Cardinality(P) : c[n] \in P
  <2>. HIDE DEF P
  <2>. QED BY <1>1, OnlyIs
<1>3. \A n \in 1..Cardinality(P) : Only(path, P)[n] \in Texts /\ Only(path, P)[n] # ""
  <2>1. \A n \in 1..Cardinality(P) : Only(path, P)[n] = path[c[n]] /\ c[n] \in P
    BY <1>2
  <2>2. \A k \in P : k \in 1..Len(path) /\ path[k] # ""
    BY <1>0
  <2>. HIDE DEF P
  <2>. QED BY <1>0, <2>1, <2>2
<1>4. DOMAIN Only(path, P) = 1..Cardinality(P)
  BY <1>2
<1>5. Segments(path) = Only(path, P)
  BY DEF Segments
<1>. HIDE DEF P
<1>. QED BY <1>2, <1>3, <1>4, <1>5

LEMMA LastSegment ==
  ASSUME NEW path \in Seq(Texts), Segments(path) # <<>>
  PROVE  Last(Segments(path)) \in Texts /\ Last(Segments(path)) # ""
<1>1. Segments(path) \in Seq(Texts) /\ DOMAIN Segments(path) = 1..Len(Segments(path))
  BY SegmentsType
<1>2. Len(Segments(path)) \in DOMAIN Segments(path)
  BY <1>1
<1>3. Segments(path)[Len(Segments(path))] \in Texts \ {""}
  BY <1>2, SegmentsType
<1>. QED BY <1>3 DEF Last

LEMMA CollectionSegmentType ==
  ASSUME NEW path \in Seq(Texts), CollectionSegment(path) # <<>>
  PROVE  /\ Segments(path) # <<>>
         /\ CollectionSegment(path)[1] = Last(Segments(path))
         /\ CollectionSegment(path)[1] \in Texts
<1>1. Segments(path) # <<>> /\ CollectionSegment(path) = <<Last(Segments(path))>>
  BY DEF CollectionSegment
<1>2. Last(Segments(path)) \in Texts
  BY <1>1, LastSegment
<1>3. CollectionSegment(path)[1] = Last(Segments(path))
  BY <1>1
<1>. QED BY <1>1, <1>2, <1>3

LEMMA CollectionAndIdType ==
  ASSUME NEW path \in Seq(Texts), CollectionAndId(path) # <<>>
  PROVE  /\ CollectionAndId(path)[1] \in Texts
         /\ CollectionAndId(path)[2] \in Texts \ {""}
<1>. DEFINE s == Segments(path)
<1>1. ~ (Len(s) < 2) /\ CollectionAndId(path) = <<s[Len(s) - 1], Last(s)>>
  BY DEF CollectionAndId
<1>2. Len(s) - 1 \in DOMAIN s /\ Len(s) \in DOMAIN s /\ Last(s) = s[Len(s)]
  <2>1. DOMAIN s = 1..Len(s) /\ Len(s) \in Nat
    BY SegmentsType
  <2>. HIDE DEF s
  <2>. QED BY <1>1, <2>1 DEF Last
<1>3. s[Len(s) - 1] \in Texts /\ Last(s) \in Texts \ {""}
  BY <1>2, SegmentsType
<1>. HIDE DEF s
<1>4. CollectionAndId(path)[1] = s[Len(s) - 1] /\ CollectionAndId(path)[2] = Last(s)
  BY <1>1
<1>. QED BY <1>3, <1>4

(* Beginnings of sequences.                                                *)
LEMMA PrefixIs ==
  ASSUME NEW T, NEW p \in Seq(T), NEW s \in Seq(T)
  PROVE  IsPrefix(p, s) <=> Len(p) <= Len(s) /\ \A n \in 1..Len(p) : p[n] = s[n]
<1>1. Len(p) \in Nat /\ Len(s) \in Nat
  OBVIOUS
<1>2. CASE Len(p) <= Len(s)
  <2>1. /\ SubSeq(p, 1, Len(p)) = [n \in 1..Len(p) |-> p[n]]
        /\ SubSeq(s, 1, Len(p)) = [n \in 1..Len(p) |-> s[n]]
    BY <1>1, <1>2
  <2>2. SubSeq(p, 1, Len(p)) = SubSeq(s, 1, Len(p)) <=> \A n \in 1..Len(p) : p[n] = s[n]
    BY <2>1
  <2>. QED BY <1>2, <2>2 DEF IsPrefix
<1>3. CASE ~ (Len(p) <= Len(s))
  BY <1>3 DEF IsPrefix
<1>. QED BY <1>2, <1>3

LEMMA PrefixFacts ==
  ASSUME NEW T
  PROVE  /\ \A p \in Seq(T) : IsPrefix(<<>>, p) /\ IsPrefix(p, p)
         /\ \A p \in Seq(T) : IsPrefix(p, <<>>) => p = <<>>
         /\ \A p, q, s \in Seq(T) : IsPrefix(p, q) /\ IsPrefix(q, s) => IsPrefix(p, s)
         /\ \A p, q, s \in Seq(T) :
              IsPrefix(p, s) /\ IsPrefix(q, s) /\ Len(p) <= Len(q) => IsPrefix(p, q)
         /\ \A p \in Seq(T), t \in T : IsPrefix(p, Append(p, t))
         /\ \A p, q \in Seq(T) : IsPrefix(p, q) /\ Len(p) = Len(q) => p = q
<1>1. \A p \in Seq(T) : IsPrefix(<<>>, p) /\ IsPrefix(p, p)
  <2>. TAKE p \in Seq(T)
  <2>1. IsPrefix(p, p)
    BY PrefixIs
  <2>. DEFINE e == <<>>
  <2>2. e \in Seq(T) /\ 1..Len(e) = {} /\ Len(e) <= Len(p)
    OBVIOUS
  <2>. HIDE DEF e
  <2>3. IsPrefix(e, p)
    BY <2>2, PrefixIs
  <2>. QED BY <2>1, <2>3 DEF e
<1>2. \A p \in Seq(T) : IsPrefix(p, <<>>) => p = <<>>
  <2>. TAKE p \in Seq(T)
  <2>1. IsPrefix(p, <<>>) => Len(p) <= 0
    BY DEF IsPrefix
  <2>. QED BY <2>1
<1>3. \A p, q, s \in Seq(T) : IsPrefix(p, q) /\ IsPrefix(q, s) => IsPrefix(p, s)
  <2>. TAKE p, q, s \in Seq(T)
  <2>1. Len(p) \in Nat /\ Len(q) \in Nat /\ Len(s) \in Nat
    OBVIOUS
  <2>. QED BY <2>1, PrefixIs
<1>4. \A p, q, s \in Seq(T) :
        IsPrefix(p, s) /\ IsPrefix(q, s) /\ Len(p) <= Len(q) => IsPrefix(p, q)
  <2>. TAKE p, q, s \in Seq(T)
  <2>1. Len(p) \in Nat /\ Len(q) \in Nat /\ Len(s) \in Nat
    OBVIOUS
  <2>. QED BY <2>1, PrefixIs
<1>5. \A p \in Seq(T), t \in T : IsPrefix(p, Append(p, t))
  <2>. TAKE p \in Seq(T), t \in T
  <2>. DEFINE a == Append(p, t)
  <2>1. /\ a \in Seq(T) /\ Len(p) <= Len(a)
        /\ \A n \in 1..Len(p) : p[n] = a[n]
    OBVIOUS
  <2>. HIDE DEF a
  <2>2. IsPrefix(p, a)
    BY <2>1, PrefixIs
  <2>. QED BY <2>2 DEF a
<1>6. \A p, q \in Seq(T) : IsPrefix(p, q) /\ Len(p) = Len(q) => p = q
  <2>. TAKE p, q \in Seq(T)
  <2>1. p = [n \in 1..Len(p) |-> p[n]] /\ q = [n \in 1..Len(q) |-> q[n]]
    OBVIOUS
  <2>2. IsPrefix(p, q) /\ Len(p) = Len(q) => \A n \in 1..Len(p) : p[n] = q[n]
    BY PrefixIs
  <2>. QED BY <2>1, <2>2
<1>. QED BY <1>1, <1>2, <1>3, <1>4, <1>5, <1>6

(* The objects of a body that have an id, as extract_id goes through them. *)
Objects(body) ==
  UNION { { SubSeq(l.at, 1, d) : d \in {d \in 0..MaxIdDepth : d < Len(l.at)} } :
            l \in LeafSet(body) }

Having(body, c) == { p \in Objects(body) : \E n \in DOMAIN c : Ids(body, p, c[n]) # {} }

IsFirst(body, p, S) ==
  \A q \in S \ {p} :
    \/ IsPrefix(p, q)
    \/ ~IsPrefix(q, p) /\ FirstUnder(body, p) < FirstUnder(body, q)

LEMMA ObjectsType ==
  ASSUME NEW body \in Body
  PROVE  /\ Objects(body) \subseteq Seq(Texts)
         /\ \A l \in LeafSet(body) : l.at # <<>> => <<>> \in Objects(body)
<1>1. \A l \in LeafSet(body) : l.at \in Seq(Texts)
  BY BodyFacts
<1>2. ASSUME NEW l \in LeafSet(body), NEW d \in 0..MaxIdDepth, d < Len(l.at)
      PROVE  SubSeq(l.at, 1, d) \in Seq(Texts)
  <2>1. l.at \in Seq(Texts) /\ Len(l.at) \in Nat /\ d \in Nat
    BY <1>1 DEF MaxIdDepth
  <2>2. \A n \in 1..d : l.at[n] \in Texts
    BY <1>2, <2>1
  <2>3. SubSeq(l.at, 1, d) = [n \in 1..d |-> l.at[n]]
    BY <1>2, <2>1
  <2>. QED BY <2>1, <2>2, <2>3
<1>3. ASSUME NEW l \in LeafSet(body), l.at # <<>>
      PROVE  <<>> \in Objects(body)
  <2>1. 0 \in 0..MaxIdDepth /\ 0 < Len(l.at) /\ SubSeq(l.at, 1, 0) = <<>>
    BY <1>1, <1>3 DEF MaxIdDepth
  <2>. QED BY <2>1 DEF Objects
<1>4. \A p \in Objects(body) : \E l \in LeafSet(body), d \in 0..MaxIdDepth :
        d < Len(l.at) /\ p = SubSeq(l.at, 1, d)
  BY DEF Objects
<1>5. Objects(body) \subseteq Seq(Texts)
  BY <1>2, <1>4
<1>. QED BY <1>3, <1>5

(* What FirstUnder finds.                                                  *)
LEMMA FirstUnderIs ==
  ASSUME NEW body \in Body, NEW p \in Seq(Texts),
         \E n \in DOMAIN body.leaves : IsPrefix(p, body.leaves[n].at)
  PROVE  /\ FirstUnder(body, p) \in DOMAIN body.leaves
         /\ FirstUnder(body, p) \in Nat
         /\ IsPrefix(p, body.leaves[FirstUnder(body, p)].at)
         /\ \A n \in DOMAIN body.leaves :
              IsPrefix(p, body.leaves[n].at) => FirstUnder(body, p) <= n
<1>. DEFINE N == Len(body.leaves)
            I == {n \in 1..N : IsPrefix(p, body.leaves[n].at)}
            at == IF I # {} THEN Min(I) ELSE 0
<1>1. DOMAIN body.leaves = 1..N /\ N \in Nat
  BY BodyFacts
<1>2. I # {}
  BY <1>1
<1>3. at \in 0..N /\ (at = 0 <=> I = {}) /\ (at # 0 => at \in I /\ \A m \in I : at <= m)
  <2>1. I \subseteq 1..N
    OBVIOUS
  <2>. HIDE DEF I, N
  <2>. QED BY <1>1, <2>1, FirstPosition
<1>4. FirstUnder(body, p) = at
  BY DEF FirstUnder, SelectInSeq
<1>5. at \in I /\ \A m \in I : at <= m
  <2>. HIDE DEF at
  <2>. QED BY <1>2, <1>3
<1>. HIDE DEF at
<1>. QED BY <1>1, <1>4, <1>5

(* There is a first one.                                                   *)
LEMMA FirstExists ==
  ASSUME NEW body \in Body, NEW c, Having(body, c) # {}
  PROVE  \E p \in Having(body, c) : IsFirst(body, p, Having(body, c))
<1>. DEFINE S == Having(body, c)
            U(p) == FirstUnder(body, p)
<1>1. S \subseteq Seq(Texts)
  BY ObjectsType DEF Having
<1>2. ASSUME NEW p \in S
      PROVE  \E n \in DOMAIN body.leaves : IsPrefix(p, body.leaves[n].at)
  <2>1. PICK k \in DOMAIN c : Ids(body, p, c[k]) # {}
    BY DEF Having
  <2>2. PICK l \in LeafSet(body) : l.at = Append(p, c[k])
    BY <2>1 DEF Ids
  <2>3. p \in Seq(Texts) /\ c[k] \in Texts
    <3>1. p \in Seq(Texts) /\ l.at \in Seq(Texts)
      BY <1>1, BodyFacts
    <3>2. Append(p, c[k])[Len(p) + 1] = c[k] /\ Len(Append(p, c[k])) = Len(p) + 1
      BY <3>1
    <3>3. Len(p) + 1 \in 1..Len(l.at)
      BY <2>2, <3>1, <3>2
    <3>. QED BY <2>2, <3>1, <3>2, <3>3
  <2>4. IsPrefix(p, l.at)
    BY <2>2, <2>3, PrefixFacts
  <2>. QED BY <2>4 DEF LeafSet
<1>3. ASSUME NEW p \in S
      PROVE  /\ p \in Seq(Texts) /\ Len(p) \in Nat
             /\ U(p) \in DOMAIN body.leaves /\ U(p) \in Nat
             /\ IsPrefix(p, body.leaves[U(p)].at)
             /\ \A n \in DOMAIN body.leaves : IsPrefix(p, body.leaves[n].at) => U(p) <= n
  <2>1. p \in Seq(Texts) /\ Len(p) \in Nat
    BY <1>1
  <2>. HIDE DEF S
  <2>. QED BY <1>2, <2>1, FirstUnderIs
<1>. DEFINE A == {U(p) : p \in S}
<1>. HIDE DEF S, U
<1>4. A \subseteq Nat /\ A # {}
  BY <1>3 DEF S
<1>5. Min(A) \in A /\ \A k \in A : Min(A) <= k
  <2>. HIDE DEF A
  <2>. QED BY <1>4, LeastNat
<1>. DEFINE B == {Len(p) : p \in {p \in S : U(p) = Min(A)}}
<1>6. B \subseteq Nat /\ B # {}
  BY <1>3, <1>5
<1>7. Min(B) \in B /\ \A k \in B : Min(B) <= k
  <2>. HIDE DEF B
  <2>. QED BY <1>6, LeastNat
<1>8. PICK p \in S : /\ U(p) = Min(A) /\ Len(p) = Min(B)
  BY <1>7
<1>9. \A q \in S : U(p) <= U(q) /\ (U(p) = U(q) => Len(p) <= Len(q))
  BY <1>5, <1>7, <1>8
<1>10. ASSUME NEW q \in S \ {p}
       PROVE  IsPrefix(p, q) \/ (~IsPrefix(q, p) /\ U(p) < U(q))
  <2>0. q \in S /\ q \in Seq(Texts) /\ p \in Seq(Texts) /\ U(p) \in Nat /\ U(q) \in Nat
    BY <1>3
  <2>1. \A n \in DOMAIN body.leaves : body.leaves[n].at \in Seq(Texts)
    BY BodyFacts
  <2>2. CASE U(p) = U(q)
    <3>1. IsPrefix(q, body.leaves[U(p)].at) /\ IsPrefix(p, body.leaves[U(p)].at)
          /\ body.leaves[U(p)].at \in Seq(Texts) /\ Len(p) <= Len(q)
      BY <1>3, <1>9, <2>0, <2>1, <2>2
    <3>2. IsPrefix(p, q)
      BY <2>0, <3>1, PrefixFacts
    <3>. QED BY <3>2
  <2>3. CASE U(p) # U(q)
    <3>1. U(p) < U(q)
      BY <1>9, <2>0, <2>3
    <3>2. ASSUME IsPrefix(q, p) PROVE FALSE
      <4>1. IsPrefix(p, body.leaves[U(p)].at) /\ body.leaves[U(p)].at \in Seq(Texts)
            /\ U(p) \in DOMAIN body.leaves
        BY <1>3, <2>1
      <4>2. IsPrefix(q, body.leaves[U(p)].at)
        BY <2>0, <3>2, <4>1, PrefixFacts
      <4>3. U(q) <= U(p)
        BY <1>3, <2>0, <4>1, <4>2
      <4>. QED BY <2>0, <3>1, <4>3
    <3>. QED BY <3>1, <3>2
  <2>. QED BY <2>2, <2>3
<1>. QED BY <1>8, <1>10 DEF IsFirst, S, U

(* extract_id finds an id whenever there is one ...                        *)
LEMMA ExtractIdIs ==
  ASSUME NEW body \in Body, NEW coll
  PROVE  LET c == Candidates(coll) IN
         \/ Having(body, c) = {} /\ ExtractId(body, coll) = NoId
         \/ \E p \in Having(body, c), n \in DOMAIN c :
              /\ IsFirst(body, p, Having(body, c))
              /\ Ids(body, p, c[n]) # {}
              /\ \A m \in 1..n - 1 : Ids(body, p, c[m]) = {}
              /\ \E l \in Ids(body, p, c[n]) : ExtractId(body, coll) = l.text
<1>. DEFINE c == Candidates(coll)
            S == Having(body, c)
            first == CHOOSE p \in S : IsFirst(body, p, S)
            found == {n \in DOMAIN c : Ids(body, first, c[n]) # {}}
            which == CHOOSE n \in DOMAIN c :
                       /\ Ids(body, first, c[n]) # {}
                       /\ \A m \in 1..n - 1 : Ids(body, first, c[m]) = {}
<1>1. ExtractId(body, coll) =
        IF S = {} THEN NoId ELSE (CHOOSE l \in Ids(body, first, c[which]) : TRUE).text
  BY DEF ExtractId, Having, Objects, IsFirst
<1>2. DOMAIN c = 1..3
  BY DEF Candidates
<1>. HIDE DEF c
<1>3. CASE S # {}
  <2>1. first \in S /\ IsFirst(body, first, S)
    BY <1>3, FirstExists
  <2>2. found # {}
    <3>. HIDE DEF first
    <3>. QED BY <2>1 DEF Having
  <2>3. Min(found) \in found /\ \A m \in found : Min(found) <= m
    <3>1. found \subseteq Nat
      BY <1>2
    <3>. HIDE DEF found
    <3>. QED BY <2>2, <3>1, LeastNat
  <2>4. \A m \in 1..Min(found) - 1 : Ids(body, first, c[m]) = {}
    <3>1. Min(found) \in 1..3
      BY <1>2, <2>3
    <3>2. \A m \in 1..Min(found) - 1 : m \in DOMAIN c /\ ~ (Min(found) <= m)
      BY <1>2, <3>1
    <3>. HIDE DEF first
    <3>. QED BY <2>3, <3>2
  <2>. HIDE DEF first
  <2>5. /\ which \in DOMAIN c /\ Ids(body, first, c[which]) # {}
        /\ \A m \in 1..which - 1 : Ids(body, first, c[m]) = {}
    <3>1. \E n \in DOMAIN c : /\ Ids(body, first, c[n]) # {}
                              /\ \A m \in 1..n - 1 : Ids(body, first, c[m]) = {}
      BY <2>3, <2>4
    <3>. QED BY <3>1
  <2>. DEFINE l == CHOOSE l \in Ids(body, first, c[which]) : TRUE
  <2>. HIDE DEF which
  <2>6. l \in Ids(body, first, c[which]) /\ ExtractId(body, coll) = l.text
    BY <1>1, <1>3, <2>5
  <2>. HIDE DEF l, S
  <2>. QED BY <2>1, <2>5, <2>6 DEF S, c
<1>. QED BY <1>1, <1>3 DEF c

(* ... and it is a text of the body.                                       *)
LEMMA ExtractIdType ==
  ASSUME NEW body \in Body, NEW coll, body.form = "json", ExtractId(body, coll) # NoId
  PROVE  ExtractId(body, coll) \in Texts \ {""}
<1>1. PICK p, t : \E l \in Ids(body, p, t) : ExtractId(body, coll) = l.text
  BY ExtractIdIs
<1>2. PICK l \in Ids(body, p, t) : ExtractId(body, coll) = l.text
  BY <1>1
<1>3. l \in LeafSet(body) /\ IsId(l)
  BY DEF Ids
<1>4. l.text \in Texts /\ (l.kind = "number" => l.text # "")
  BY <1>3, BodyFacts
<1>. QED BY <1>2, <1>3, <1>4 DEF IsId

LEMMA ExchangeFacts ==
  /\ Asked \subseteq Request
  /\ \A x \in Exchanges : x[1] \in Request /\ x[2] \in Reply
  /\ CreatedMocks \subseteq Entry
  /\ MaxLearned \in Nat
BY ReplayAssumption

LEMMA RecordingType ==
  ASSUME NEW w \in Request, NEW reply \in Reply
  PROVE  /\ Recording(w, reply) \in Entry
         /\ Recording(w, reply).key = Prepared(w).key
         /\ Recording(w, reply).body = Kept(w.body)
         /\ Recording(w, reply).response.body = Kept(reply.body)
         /\ Recording(w, reply).key.tenant # ""
<1>1. w.body \in Body /\ reply.body \in Body
  BY RequestFacts DEF Reply
<1>2. Prepared(w).key \in Key /\ Prepared(w).key.tenant # ""
  BY PreparedFacts
<1>3. Kept(w.body) \in Body /\ Kept(reply.body) \in Body /\ ByteLength(reply.body) \in Nat
  BY <1>1, KeptType, ByteLengthType
<1>4. [body |-> Kept(reply.body), length |-> ByteLength(reply.body)] \in Stored
  BY <1>3 DEF Stored
<1>. QED BY <1>2, <1>3, <1>4 DEF Recording, Entry

LEMMA CapturedType ==
  ASSUME NEW w \in Request, NEW reply \in Reply
  PROVE  Captured(w, reply) \subseteq
           [service: Texts, collection: Texts, id: Texts \ {""}, body: Body]
<1>. DEFINE k == Prepared(w).key
            coll == CollectionSegment(k.uri.path)
<1>. SUFFICES ASSUME coll # <<>>, reply.body.form = "json", ExtractId(reply.body, coll[1]) # NoId
              PROVE  [service |-> k.service, collection |-> coll[1],
                      id |-> ExtractId(reply.body, coll[1]), body |-> reply.body]
                        \in [service: Texts, collection: Texts, id: Texts \ {""}, body: Body]
  BY DEF Captured
<1>1. reply.body \in Body
  BY DEF Reply
<1>2. k.service \in Texts
  <2>1. k \in Key
    BY PreparedFacts
  <2>. QED BY <2>1 DEF Key
<1>3. k.uri.path \in Seq(Texts)
  <2>1. k.uri \in Uri
    BY PreparedFacts
  <2>. QED BY <2>1, UriFacts
<1>4. coll[1] \in Texts
  BY <1>3, CollectionSegmentType
<1>5. ExtractId(reply.body, coll[1]) \in Texts \ {""}
  <2>. HIDE DEF coll
  <2>. QED BY <1>1, ExtractIdType
<1>. HIDE DEF k, coll
<1>. QED BY <1>1, <1>2, <1>4, <1>5

(* Of one key there stays one entry.                                       *)
LEMMA InsertFacts ==
  ASSUME NEW e \in Entry, TypeOK, e.key.tenant # ""
  PROVE  /\ Insert(e) \subseteq Entry
         /\ \A f, g \in Insert(e) : f.key = g.key => f = g
         /\ \A f \in Insert(e) : f.key.tenant # ""
         /\ e \in Insert(e)
         /\ \A f : f \in Insert(e) <=> f = e \/ (f \in library /\ f.key # e.key)
BY DEF Insert, TypeOK

LEMMA AnswersFacts ==
  ASSUME NEW w, NEW p, NEW a \in Answers(w, p)
  PROVE  a.request = w /\ a.how \in {"exact", "resource", "swap", "miss"}
BY DEF Answers, SwapOrMiss, Answer, Missed

-----------------------------------------------------------------------------
(***************************************************************************)
(* The inductive invariant.                                                *)
(***************************************************************************)
Learned == [request: Request, reply: Reply] \cup [mock: Entry]

IsRecording(x) == "request" \in DOMAIN x

(* As long as nothing was posted, the library holds the last recording of  *)
(* each key, and only that.                                                *)
LibraryFollows ==
  (\A n \in DOMAIN learned : IsRecording(learned[n])) =>
    /\ \A e \in library : \E n \in DOMAIN learned :
         /\ e = Recording(learned[n].request, learned[n].reply)
         /\ \A m \in DOMAIN learned : m > n => Prepared(learned[m].request).key # e.key
    /\ \A n \in DOMAIN learned : \E e \in library : e.key = Prepared(learned[n].request).key

(* What an exchange created is among the resources.                        *)
NonBlank == Texts \ {""}

CreatedIn(x, rs) ==
  \A c, id : id \in NonBlank /\ Creates(x, c, id) =>
    \E r \in rs : r.service = ServiceOf(x.request) /\ r.collection = c /\ r.id = id

ResourcesFollow ==
  \A n \in DOMAIN learned : IsRecording(learned[n]) => CreatedIn(learned[n], resources)

SessionInv == TypeOK /\ learned \in Seq(Learned) /\ LibraryFollows /\ ResourcesFollow

LEMMA LearnedFacts ==
  ASSUME NEW x \in Learned
  PROVE  IsRecording(x) => x.request \in Request /\ x.reply \in Reply
BY DEF Learned, IsRecording

LEMMA InitSession ==
  Init => SessionInv
<1>1. MaxLearned \in Nat
  BY ExchangeFacts
<1>. QED BY <1>1 DEF Init, SessionInv, TypeOK, LibraryFollows, ResourcesFollow

LEMMA LearnType ==
  ASSUME SessionInv, NEW w \in Request, NEW reply \in Reply, Learn(w, reply)
  PROVE  TypeOK' /\ learned' \in Seq(Learned)
<1>. DEFINE e == Recording(w, reply)
<1>1. e \in Entry /\ e.key.tenant # "" /\ library' = Insert(e)
  BY RecordingType DEF Learn
<1>. HIDE DEF e
<1>2. /\ library' \subseteq Entry
      /\ \A f, g \in library' : f.key = g.key => f = g
      /\ \A f \in library' : f.key.tenant # ""
  BY <1>1, InsertFacts DEF SessionInv
<1>3. resources' \subseteq [service: Texts, collection: Texts, id: Texts \ {""}, body: Body]
  <2>1. resources' \subseteq resources \cup Captured(w, reply)
    BY DEF Learn
  <2>. QED BY <2>1, CapturedType DEF SessionInv, TypeOK
<1>4. learned' \in Seq(Learned) /\ Len(learned') <= MaxLearned
  <2>1. [request |-> w, reply |-> reply] \in Learned
    BY DEF Learned
  <2>2. learned \in Seq(Learned) /\ Len(learned) \in Nat /\ Len(learned) < MaxLearned
        /\ MaxLearned \in Nat /\ learned' = Append(learned, [request |-> w, reply |-> reply])
    BY ExchangeFacts DEF SessionInv, Learn
  <2>. QED BY <2>1, <2>2
<1>5. answer' = NoAnswer
  BY DEF Learn
<1>. QED BY <1>2, <1>3, <1>4, <1>5 DEF TypeOK

LEMMA CreateMockType ==
  ASSUME SessionInv, NEW f \in Entry, CreateMock(f)
  PROVE  TypeOK' /\ learned' \in Seq(Learned)
<1>. DEFINE e == [f EXCEPT !.key.tenant = IF @ = "" THEN Global ELSE @]
<1>1. e \in Entry /\ e.key.tenant # ""
  <2>1. f.key \in Key /\ f = [key |-> f.key, body |-> f.body, response |-> f.response]
        /\ f.body \in Body /\ f.response \in Stored
    BY DEF Entry
  <2>2. f.key = [service |-> f.key.service, method |-> f.key.method,
                 uri |-> f.key.uri, tenant |-> f.key.tenant]
        /\ f.key.service \in Texts /\ f.key.method \in {"GET", "POST", "PUT"}
        /\ f.key.uri \in Uri /\ f.key.tenant \in Texts
    BY <2>1 DEF Key
  <2>. DEFINE t == IF f.key.tenant = "" THEN Global ELSE f.key.tenant
              k == [service |-> f.key.service, method |-> f.key.method,
                    uri |-> f.key.uri, tenant |-> t]
  <2>3. t \in Texts /\ t # ""
    BY <2>2, TextFacts
  <2>4. e = [key |-> k, body |-> f.body, response |-> f.response]
    <3>1. e = [f EXCEPT !.key = [f.key EXCEPT !.tenant = t]]
      OBVIOUS
    <3>2. \A x \in Key : \A y : [x EXCEPT !.tenant = y] =
            [service |-> x.service, method |-> x.method, uri |-> x.uri, tenant |-> y]
      BY DEF Key
    <3>3. [f.key EXCEPT !.tenant = t] = k
      <4>. HIDE DEF t
      <4>. QED BY <2>1, <3>2
    <3>. HIDE DEF k, t, e
    <3>. QED BY <2>1, <3>1, <3>3
  <2>. HIDE DEF t
  <2>5. k \in Key /\ k.tenant # ""
    BY <2>2, <2>3 DEF Key
  <2>. HIDE DEF k, e
  <2>. QED BY <2>1, <2>4, <2>5 DEF Entry
<1>2. library' = Insert(e) /\ learned' = Append(learned, [mock |-> e]) /\ answer' = NoAnswer
  BY DEF CreateMock
<1>. HIDE DEF e
<1>3. /\ library' \subseteq Entry
      /\ \A g, h \in library' : g.key = h.key => g = h
      /\ \A g \in library' : g.key.tenant # ""
  BY <1>1, <1>2, InsertFacts DEF SessionInv
<1>4. learned' \in Seq(Learned) /\ Len(learned') <= MaxLearned
  <2>1. [mock |-> e] \in Learned
    BY <1>1 DEF Learned
  <2>2. learned \in Seq(Learned) /\ Len(learned) \in Nat /\ Len(learned) < MaxLearned
        /\ MaxLearned \in Nat
    <3>1. Len(learned) < MaxLearned
      BY DEF CreateMock
    <3>. QED BY <3>1, ExchangeFacts DEF SessionInv
  <2>. QED BY <1>2, <2>1, <2>2
<1>5. resources' = resources
  BY DEF CreateMock
<1>. QED BY <1>2, <1>3, <1>4, <1>5 DEF SessionInv, TypeOK

LEMMA AskType ==
  ASSUME SessionInv, NEW w \in Request, Ask(w) \/ Forward(w)
  PROVE  TypeOK' /\ learned' \in Seq(Learned)
<1>1. answer'.request = w
  <2>1. CASE Ask(w)
    BY <2>1, AnswersFacts DEF Ask
  <2>2. CASE Forward(w)
    BY <2>2 DEF Forward
  <2>. QED BY <2>1, <2>2
<1>2. library' = library /\ resources' = resources /\ learned' = learned
  BY DEF Ask, Forward
<1>. QED BY <1>1, <1>2 DEF SessionInv, TypeOK

(* The id in the "id" field of a response is the one that is found.        *)
LEMMA RootIdFound ==
  ASSUME NEW body \in Body, body.form = "json", NEW coll, NEW l \in LeafSet(body),
         l.at = <<"id">>, IsId(l)
  PROVE  ExtractId(body, coll) = l.text
<1>. DEFINE c == Candidates(coll)
            S == Having(body, c)
<1>1. DOMAIN c = 1..3 /\ c[1] = "id"
  BY DEF Candidates
<1>2. l \in Ids(body, <<>>, c[1])
  <2>1. Append(<<>>, "id") = <<"id">>
    OBVIOUS
  <2>. QED BY <1>1, <2>1 DEF Ids
<1>. HIDE DEF c
<1>3. <<>> \in Objects(body) /\ l.at # <<>>
  BY ObjectsType
<1>4. <<>> \in S
  <2>1. 1 \in DOMAIN c
    BY <1>1
  <2>2. \E n \in DOMAIN c : Ids(body, <<>>, c[n]) # {}
    BY <1>2, <2>1
  <2>. QED BY <1>3, <2>2 DEF Having
<1>5. PICK p \in S, n \in DOMAIN c :
        /\ IsFirst(body, p, S)
        /\ \A m \in 1..n - 1 : Ids(body, p, c[m]) = {}
        /\ \E k \in Ids(body, p, c[n]) : ExtractId(body, coll) = k.text
  BY <1>4, ExtractIdIs DEF c
<1>6. p = <<>>
  <2>. SUFFICES ASSUME p # <<>> PROVE FALSE
    OBVIOUS
  <2>1. p \in Seq(Texts)
    BY ObjectsType DEF Having
  <2>2. <<>> \in S \ {p}
    BY <1>4
  <2>3. IsPrefix(p, <<>>) \/ ~IsPrefix(<<>>, p)
    BY <1>5, <2>2 DEF IsFirst
  <2>. QED BY <2>1, <2>3, PrefixFacts
<1>7. n = 1
  <2>1. n # 1 => 1 \in 1..n - 1
    BY <1>1
  <2>. QED BY <1>2, <1>5, <1>6, <2>1
<1>8. PICK k \in Ids(body, <<>>, c[1]) : ExtractId(body, coll) = k.text
  BY <1>5, <1>6, <1>7
<1>9. k \in LeafSet(body) /\ k.at = l.at
  BY <1>2, <1>8 DEF Ids
<1>. QED BY <1>8, <1>9, BodyFacts

(* So what an exchange creates is captured.                                *)
LEMMA CreatesCaptured ==
  ASSUME NEW w \in Request, NEW reply \in Reply, NEW c, NEW id \in NonBlank,
         Creates([request |-> w, reply |-> reply], c, id)
  PROVE  \E r \in Captured(w, reply) : /\ r.service = ServiceOf(w)
                                       /\ r.collection = c /\ r.id = id
<1>. DEFINE path == w.uri.path
<1>1. /\ w.method = "POST" /\ reply.ok /\ reply.body.form = "json"
      /\ "digit" \notin Has[c] /\ c \notin ActionVerbs
      /\ Segments(path) # <<>> /\ Last(Segments(path)) = c
  BY DEF Creates
<1>2. PICK l \in LeafSet(reply.body) :
        l.at = <<"id">> /\ l.kind \in {"string", "number"} /\ l.text = id
  BY DEF Creates
<1>3. CollectionSegment(path) = <<c>>
  BY <1>1 DEF CollectionSegment
<1>4. reply.body \in Body
  BY DEF Reply
<1>5. IsId(l)
  BY <1>2 DEF IsId, NonBlank
<1>6. ExtractId(reply.body, c) = id
  BY <1>1, <1>2, <1>4, <1>5, RootIdFound
<1>7. id # NoId
  <2>1. id \in Texts
    BY <1>2, <1>4, BodyFacts
  <2>. QED BY <2>1, SwapAssumption
<1>8. Prepared(w).key.uri.path = path /\ Prepared(w).key.service = ServiceOf(w)
  BY PreparedFacts
<1>. DEFINE coll == CollectionSegment(Prepared(w).key.uri.path)
<1>9. coll = <<c>> /\ coll # <<>> /\ coll[1] = c
  <2>1. coll = <<c>>
    <3>. HIDE DEF path
    <3>. QED BY <1>3, <1>8
  <2>. HIDE DEF coll
  <2>. QED BY <2>1
<1>. DEFINE r == [service |-> Prepared(w).key.service, collection |-> coll[1],
                  id |-> ExtractId(reply.body, coll[1]), body |-> reply.body]
<1>10. r \in Captured(w, reply)
  <2>1. Captured(w, reply) = {r}
    <3>1. /\ w.method \in {"POST", "PUT"} /\ reply.ok /\ coll # <<>>
          /\ reply.body.form = "json" /\ ExtractId(reply.body, coll[1]) # NoId
      BY <1>1, <1>6, <1>7, <1>9
    <3>. QED BY <3>1 DEF Captured
  <2>. QED BY <2>1
<1>11. r.service = ServiceOf(w) /\ r.collection = c /\ r.id = id
  <2>. HIDE DEF coll
  <2>. QED BY <1>6, <1>8, <1>9
<1>. HIDE DEF r
<1>. QED BY <1>10, <1>11

LEMMA AppendFacts ==
  ASSUME NEW T, NEW s \in Seq(T), NEW x
  PROVE  /\ DOMAIN s = 1..Len(s) /\ Len(s) \in Nat
         /\ DOMAIN Append(s, x) = 1..(Len(s) + 1)
         /\ \A n \in DOMAIN s : n \in DOMAIN Append(s, x) /\ Append(s, x)[n] = s[n]
         /\ Append(s, x)[Len(s) + 1] = x
         /\ \A n \in DOMAIN Append(s, x) : n \in DOMAIN s \/ n = Len(s) + 1
OBVIOUS

LEMMA LearnFollows ==
  ASSUME SessionInv, NEW w \in Request, NEW reply \in Reply, Learn(w, reply)
  PROVE  LibraryFollows' /\ ResourcesFollow'
<1>. DEFINE L == Len(learned)
            x == [request |-> w, reply |-> reply]
            e == Recording(w, reply)
<1>1. /\ DOMAIN learned = 1..L /\ L \in Nat /\ learned' = Append(learned, x)
      /\ DOMAIN learned' = 1..(L + 1) /\ learned'[L + 1] = x
      /\ \A n \in DOMAIN learned : n \in DOMAIN learned' /\ learned'[n] = learned[n]
      /\ \A n \in DOMAIN learned' : n \in DOMAIN learned \/ n = L + 1
  <2>1. learned \in Seq(Learned) /\ learned' = Append(learned, x)
    BY DEF SessionInv, Learn
  <2>. HIDE DEF x
  <2>. QED BY <2>1, AppendFacts
<1>2. x.request = w /\ x.reply = reply
  OBVIOUS
<1>3. e.key = Prepared(w).key /\ \A f : f \in library' <=> f = e \/ (f \in library /\ f.key # e.key)
  <2>1. e \in Entry /\ e.key.tenant # "" /\ e.key = Prepared(w).key
    BY RecordingType
  <2>2. library' = Insert(e)
    BY DEF Learn
  <2>. HIDE DEF e
  <2>. QED BY <2>1, <2>2, InsertFacts DEF SessionInv
<1>4. e = Recording(x.request, x.reply)
  BY <1>2
<1>. HIDE DEF x, e, L
<1>5. LibraryFollows'
  <2>. SUFFICES ASSUME \A n \in DOMAIN learned' : IsRecording(learned'[n])
                PROVE  /\ \A f \in library' : \E n \in DOMAIN learned' :
                            /\ f = Recording(learned'[n].request, learned'[n].reply)
                            /\ \A m \in DOMAIN learned' : m > n =>
                                 Prepared(learned'[m].request).key # f.key
                       /\ \A n \in DOMAIN learned' :
                            \E f \in library' : f.key = Prepared(learned'[n].request).key
    BY DEF LibraryFollows
  <2>1. /\ \A f \in library : \E n \in DOMAIN learned :
             /\ f = Recording(learned[n].request, learned[n].reply)
             /\ \A m \in DOMAIN learned : m > n => Prepared(learned[m].request).key # f.key
        /\ \A n \in DOMAIN learned : \E f \in library : f.key = Prepared(learned[n].request).key
    <3>1. \A n \in DOMAIN learned : IsRecording(learned[n])
      BY <1>1
    <3>. QED BY <3>1 DEF SessionInv, LibraryFollows
  <2>2. ASSUME NEW f \in library'
        PROVE  \E n \in DOMAIN learned' :
                 /\ f = Recording(learned'[n].request, learned'[n].reply)
                 /\ \A m \in DOMAIN learned' : m > n =>
                      Prepared(learned'[m].request).key # f.key
    <3>1. CASE f = e
      <4>1. \A m \in DOMAIN learned' : ~ (m > L + 1)
        BY <1>1
      <4>2. L + 1 \in DOMAIN learned'
        BY <1>1
      <4>. QED BY <1>1, <1>4, <3>1, <4>1, <4>2
    <3>2. CASE f \in library /\ f.key # e.key
      <4>1. PICK n \in DOMAIN learned :
              /\ f = Recording(learned[n].request, learned[n].reply)
              /\ \A m \in DOMAIN learned : m > n => Prepared(learned[m].request).key # f.key
        BY <2>1, <3>2
      <4>2. \A m \in DOMAIN learned' : m > n => Prepared(learned'[m].request).key # f.key
        BY <1>1, <1>2, <1>3, <3>2, <4>1
      <4>3. n \in DOMAIN learned' /\ learned'[n] = learned[n]
        BY <1>1
      <4>. QED BY <4>1, <4>2, <4>3
    <3>. QED BY <1>3, <3>1, <3>2
  <2>3. ASSUME NEW n \in DOMAIN learned'
        PROVE  \E f \in library' : f.key = Prepared(learned'[n].request).key
    <3>1. CASE n = L + 1
      BY <1>1, <1>2, <1>3, <3>1
    <3>2. CASE n \in DOMAIN learned
      <4>1. PICK f \in library : f.key = Prepared(learned[n].request).key
        BY <2>1, <3>2
      <4>2. learned'[n] = learned[n]
        BY <1>1, <3>2
      <4>3. e \in library' /\ (f.key # e.key => f \in library')
        BY <1>3
      <4>. QED BY <4>1, <4>2, <4>3
    <3>. QED BY <1>1, <3>1, <3>2
  <2>. QED BY <2>2, <2>3
<1>6. ResourcesFollow'
  <2>0. /\ Captured(w, reply) \subseteq resources'
        /\ \A r \in resources : (\A k \in Captured(w, reply) : ~Same(r, k)) => r \in resources'
    BY DEF Learn
  <2>1. CreatedIn(x, resources')
    <3>. SUFFICES ASSUME NEW c, NEW id \in NonBlank, Creates(x, c, id)
                  PROVE  \E r \in resources' : r.service = ServiceOf(w)
                                               /\ r.collection = c /\ r.id = id
      BY <1>2 DEF CreatedIn
    <3>1. \E r \in Captured(w, reply) : r.service = ServiceOf(w)
                                        /\ r.collection = c /\ r.id = id
      BY CreatesCaptured DEF x
    <3>. QED BY <2>0, <3>1
  <2>2. ASSUME NEW n \in DOMAIN learned, IsRecording(learned[n])
        PROVE  CreatedIn(learned[n], resources')
    <3>. DEFINE y == learned[n]
    <3>. SUFFICES ASSUME NEW c, NEW id \in NonBlank, Creates(y, c, id)
                  PROVE  \E r \in resources' : r.service = ServiceOf(y.request)
                                               /\ r.collection = c /\ r.id = id
      BY DEF CreatedIn
    <3>1. CreatedIn(y, resources)
      BY <2>2 DEF SessionInv, ResourcesFollow
    <3>. HIDE DEF y
    <3>2. PICK r \in resources : /\ r.service = ServiceOf(y.request)
                                 /\ r.collection = c /\ r.id = id
      BY <3>1 DEF CreatedIn
    <3>3. CASE \E k \in Captured(w, reply) : Same(r, k)
      <4>1. PICK k \in Captured(w, reply) : Same(r, k)
        BY <3>3
      <4>2. k \in resources'
        BY <2>0
      <4>. QED BY <3>2, <4>1, <4>2 DEF Same
    <3>4. CASE \A k \in Captured(w, reply) : ~Same(r, k)
      BY <2>0, <3>2, <3>4
    <3>. QED BY <3>3, <3>4
  <2>. QED BY <1>1, <2>1, <2>2 DEF ResourcesFollow
<1>. QED BY <1>5, <1>6

LEMMA CreateMockFollows ==
  ASSUME SessionInv, NEW f \in Entry, CreateMock(f)
  PROVE  LibraryFollows' /\ ResourcesFollow'
<1>. DEFINE L == Len(learned)
<1>1. PICK x : learned' = Append(learned, x) /\ ~ IsRecording(x)
  <2>1. \A e : ~ IsRecording([mock |-> e])
    BY DEF IsRecording
  <2>. QED BY <2>1 DEF CreateMock
<1>2. /\ DOMAIN learned = 1..L /\ L \in Nat
      /\ DOMAIN learned' = 1..(L + 1) /\ learned'[L + 1] = x
      /\ \A n \in DOMAIN learned : n \in DOMAIN learned' /\ learned'[n] = learned[n]
      /\ \A n \in DOMAIN learned' : n \in DOMAIN learned \/ n = L + 1
  <2>1. learned \in Seq(Learned)
    BY DEF SessionInv
  <2>. QED BY <1>1, <2>1, AppendFacts
<1>3. LibraryFollows'
  <2>1. L + 1 \in DOMAIN learned' /\ ~ IsRecording(learned'[L + 1])
    BY <1>1, <1>2
  <2>. QED BY <2>1 DEF LibraryFollows
<1>4. ResourcesFollow'
  <2>1. resources' = resources
    BY DEF CreateMock
  <2>. QED BY <1>1, <1>2, <2>1 DEF SessionInv, ResourcesFollow
<1>. QED BY <1>3, <1>4

LEMMA SessionStep ==
  ASSUME SessionInv, [Next]_vars
  PROVE  SessionInv'
<1>1. ASSUME NEW x \in Exchanges, Learn(x[1], x[2]) PROVE SessionInv'
  <2>1. x[1] \in Request /\ x[2] \in Reply
    BY ExchangeFacts
  <2>2. TypeOK' /\ learned' \in Seq(Learned)
    BY <1>1, <2>1, LearnType
  <2>3. LibraryFollows' /\ ResourcesFollow'
    BY <1>1, <2>1, LearnFollows
  <2>. QED BY <2>2, <2>3 DEF SessionInv
<1>2. ASSUME NEW e \in CreatedMocks, CreateMock(e) PROVE SessionInv'
  <2>1. e \in Entry
    BY ExchangeFacts
  <2>2. TypeOK' /\ learned' \in Seq(Learned)
    BY <1>2, <2>1, CreateMockType
  <2>3. LibraryFollows' /\ ResourcesFollow'
    BY <1>2, <2>1, CreateMockFollows
  <2>. QED BY <2>2, <2>3 DEF SessionInv
<1>3. ASSUME NEW w \in Asked, Ask(w) \/ Forward(w) PROVE SessionInv'
  <2>1. w \in Request
    BY ExchangeFacts
  <2>2. TypeOK' /\ learned' \in Seq(Learned)
    BY <1>3, <2>1, AskType
  <2>3. library' = library /\ resources' = resources /\ learned' = learned
    BY <1>3 DEF Ask, Forward
  <2>. QED BY <2>2, <2>3 DEF SessionInv, LibraryFollows, ResourcesFollow
<1>4. CASE UNCHANGED vars
  <2>1. /\ library' = library /\ resources' = resources
        /\ learned' = learned /\ answer' = answer
    BY <1>4 DEF vars
  <2>2. LibraryFollows' /\ ResourcesFollow'
    BY <2>1 DEF SessionInv, LibraryFollows, ResourcesFollow
  <2>3. TypeOK'
    BY <2>1 DEF SessionInv, TypeOK
  <2>. QED BY <2>1, <2>2, <2>3 DEF SessionInv
<1>. QED BY <1>1, <1>2, <1>3, <1>4 DEF Next

LEMMA SessionInvariant ==
  Spec => []SessionInv
<1>1. Init => SessionInv
  BY InitSession
<1>2. SessionInv /\ [Next]_vars => SessionInv'
  BY SessionStep
<1>. QED BY <1>1, <1>2, PTL DEF Spec

(* Everything has its type, and the library has one entry of a key: what   *)
(* is recorded, posted and captured, for any texts and any routes.         *)
THEOREM TypeCorrect ==
  Spec => []TypeOK
<1>1. SessionInv => TypeOK
  BY DEF SessionInv
<1>. QED BY <1>1, SessionInvariant, PTL

-----------------------------------------------------------------------------
(***************************************************************************)
(* Exact match.                                                            *)
(***************************************************************************)
LEMMA AnswersExact ==
  ASSUME NEW w, NEW p, NEW a \in Answers(w, p)
  PROVE  /\ ExactHits(p) # {} =>
              a.how = "exact" /\ \E e \in ExactHits(p) : a.body = e.response.body
         /\ ExactHits(p) = {} => a.how # "exact"
<1>1. CASE ExactHits(p) # {}
  BY <1>1 DEF Answers, Answer
<1>2. CASE ExactHits(p) = {}
  BY <1>2 DEF Answers, Answer, SwapOrMiss, Missed
<1>. QED BY <1>1, <1>2

Replays(a) ==
  LET w == a.request IN
  IF Recorded(w) # {} /\ Kept(LastRecorded(w).request.body) = Lossy(w.body)
    THEN a.how = "exact" /\ a.body = Kept(LastRecorded(w).reply.body)
    ELSE a.how # "exact"

LEMMA AnswerReplays ==
  ASSUME SessionInv, \A n \in DOMAIN learned : IsRecording(learned[n]),
         NEW w \in Request, NEW a \in Answers(w, Prepared(w))
  PROVE  Replays(a)
<1>. DEFINE k == Prepared(w).key
            R == Recorded(w)
            last == CHOOSE n \in R : \A m \in R : m <= n
            H == ExactHits(Prepared(w))
            x == learned[last]
<1>1. /\ DOMAIN learned = 1..Len(learned) /\ Len(learned) \in Nat
      /\ \A n \in DOMAIN learned : learned[n].request \in Request /\ learned[n].reply \in Reply
  <2>1. learned \in Seq(Learned)
    BY DEF SessionInv
  <2>2. \A n \in DOMAIN learned : learned[n] \in Learned
    BY <2>1
  <2>. QED BY <2>1, <2>2, LearnedFacts
<1>2. \A n \in DOMAIN learned : n \in R <=> Prepared(learned[n].request).key = k
  BY <1>1, KeySame DEF Recorded, IsRecording
<1>3. R \subseteq DOMAIN learned
  BY DEF Recorded
<1>4. /\ \A e \in library : \E n \in DOMAIN learned :
           /\ e = Recording(learned[n].request, learned[n].reply)
           /\ \A m \in DOMAIN learned : m > n => Prepared(learned[m].request).key # e.key
      /\ \A n \in DOMAIN learned : \E e \in library : e.key = Prepared(learned[n].request).key
      /\ \A e, f \in library : e.key = f.key => e = f
  BY DEF SessionInv, LibraryFollows, TypeOK
<1>5. \A n \in DOMAIN learned :
        LET e == Recording(learned[n].request, learned[n].reply) IN
        /\ e.key = Prepared(learned[n].request).key
        /\ e.body = Kept(learned[n].request.body)
        /\ e.response.body = Kept(learned[n].reply.body)
  BY <1>1, RecordingType
<1>6. \A e : e \in H <=> e \in library /\ e.key = k /\ e.body = Lossy(w.body)
  BY PreparedFacts DEF ExactHits
<1>7. a.request = w
  BY AnswersFacts
<1>8. Replays(a) <=>
        IF R # {} /\ Kept(x.request.body) = Lossy(w.body)
          THEN a.how = "exact" /\ a.body = Kept(x.reply.body)
          ELSE a.how # "exact"
  BY <1>7 DEF Replays, LastRecorded
<1>9. (H # {} => a.how = "exact" /\ \E e \in H : a.body = e.response.body)
      /\ (H = {} => a.how # "exact")
  BY AnswersExact
<1>. HIDE DEF k, R, H
<1>10. CASE R = {}
  <2>1. H = {}
    <3>. SUFFICES ASSUME NEW e \in H PROVE FALSE
      OBVIOUS
    <3>1. PICK n \in DOMAIN learned : e = Recording(learned[n].request, learned[n].reply)
      BY <1>4, <1>6
    <3>2. Prepared(learned[n].request).key = k
      BY <1>5, <1>6, <3>1
    <3>. QED BY <1>2, <1>10, <3>2
  <2>. HIDE DEF x
  <2>. QED BY <1>8, <1>9, <1>10, <2>1
<1>11. CASE R # {}
  <2>1. last \in R /\ \A m \in R : m <= last
    <3>1. \E n \in R : \A m \in R : m <= n
      BY <1>1, <1>3, <1>11, GreatestNat
    <3>. QED BY <3>1
  <2>. HIDE DEF last
  <2>2. last \in DOMAIN learned /\ Prepared(x.request).key = k
    BY <1>2, <1>3, <2>1
  <2>3. PICK e \in library : e.key = k
    BY <1>4, <2>2
  <2>4. PICK n \in DOMAIN learned :
          /\ e = Recording(learned[n].request, learned[n].reply)
          /\ \A m \in DOMAIN learned : m > n => Prepared(learned[m].request).key # e.key
    BY <1>4
  <2>5. n = last
    <3>1. Prepared(learned[n].request).key = k
      BY <1>5, <2>3, <2>4
    <3>2. n <= last
      BY <1>2, <2>1, <3>1
    <3>3. ~ (last > n)
      BY <2>2, <2>3, <2>4
    <3>. QED BY <1>1, <2>2, <3>2, <3>3
  <2>6. e.body = Kept(x.request.body) /\ e.response.body = Kept(x.reply.body)
    BY <1>5, <2>4, <2>5
  <2>7. \A f \in H : f = e
    BY <1>4, <1>6, <2>3
  <2>. HIDE DEF x
  <2>8. CASE Kept(x.request.body) = Lossy(w.body)
    <3>1. e \in H
      BY <1>6, <2>3, <2>6, <2>8
    <3>. QED BY <1>8, <1>9, <1>11, <2>6, <2>7, <2>8, <3>1
  <2>9. CASE Kept(x.request.body) # Lossy(w.body)
    <3>1. H = {}
      BY <1>6, <2>6, <2>7, <2>9
    <3>. QED BY <1>8, <1>9, <2>9, <3>1
  <2>. QED BY <2>8, <2>9
<1>. QED BY <1>10, <1>11

(* A step answers a request from what the proxy has, or answers nothing    *)
(* in MOCK mode, or leaves all as it is.                                   *)
LEMMA StepAnswers ==
  ASSUME [Next]_vars
  PROVE  \/ answer' = NoAnswer
         \/ answer'.how = "forwarded"
         \/ /\ \E w \in Request : answer' \in Answers(w, Prepared(w))
            /\ UNCHANGED <<library, resources, learned>>
         \/ UNCHANGED vars
<1>1. ASSUME NEW x \in Exchanges, Learn(x[1], x[2]) PROVE answer' = NoAnswer
  BY <1>1 DEF Learn
<1>2. ASSUME NEW e \in CreatedMocks, CreateMock(e) PROVE answer' = NoAnswer
  BY <1>2 DEF CreateMock
<1>3. ASSUME NEW w \in Asked, Ask(w)
      PROVE  /\ \E v \in Request : answer' \in Answers(v, Prepared(v))
             /\ UNCHANGED <<library, resources, learned>>
  BY <1>3, ExchangeFacts DEF Ask
<1>4. ASSUME NEW w \in Asked, Forward(w) PROVE answer'.how = "forwarded"
  BY <1>4 DEF Forward
<1>. QED BY <1>1, <1>2, <1>3, <1>4 DEF Next

(* Exact match: two requests share a key just when they are equivalent, so *)
(* a request is answered from the last recording of an equivalent request  *)
(* with a body that was kept and reads the same, and from no other         *)
(* (strip_tenant_param and normalize_uri, main.rs:1312, matcher.rs:178;    *)
(* the bodies as text, main.rs:1370, and the lookup, main.rs:1541).        *)
THEOREM ReplaysLastEquivalent ==
  Spec => []ReplaysEquivalent
<1>1. Init => ReplaysEquivalent
  BY DEF Init, ReplaysEquivalent
<1>2. SessionInv /\ ReplaysEquivalent /\ [Next]_vars => ReplaysEquivalent'
  <2>. SUFFICES ASSUME SessionInv, ReplaysEquivalent, [Next]_vars PROVE ReplaysEquivalent'
    OBVIOUS
  <2>1. CASE answer' = NoAnswer \/ answer'.how = "forwarded"
    BY <2>1 DEF ReplaysEquivalent
  <2>2. ASSUME NEW w \in Request, answer' \in Answers(w, Prepared(w)),
               UNCHANGED <<library, resources, learned>>
        PROVE  ReplaysEquivalent'
    <3>1. (\A n \in DOMAIN learned : IsRecording(learned[n])) => Replays(answer')
      BY <2>2, AnswerReplays
    <3>2. learned' = learned
      BY <2>2
    <3>. QED BY <3>1, <3>2 DEF ReplaysEquivalent, Replays, Recorded, LastRecorded, IsRecording
  <2>3. CASE UNCHANGED vars
    <3>1. learned' = learned /\ answer' = answer
      BY <2>3 DEF vars
    <3>. QED BY <3>1 DEF ReplaysEquivalent, Recorded, LastRecorded
  <2>. QED BY <2>1, <2>2, <2>3, StepAnswers
<1>. QED BY <1>1, <1>2, SessionInvariant, PTL DEF Spec

-----------------------------------------------------------------------------
(***************************************************************************)
(* Captured resources.                                                     *)
(***************************************************************************)
Reads(a) ==
  a.how \in {"miss", "swap"} /\ a.request.method = "GET" =>
    LET at == CollectionAndId(a.request.uri.path) IN
    at # <<>> =>
      \A n \in DOMAIN learned :
        /\ IsRecording(learned[n])
        /\ ServiceOf(learned[n].request) = ServiceOf(a.request)
        => ~Creates(learned[n], at[1], at[2])

LEMMA AnswerReads ==
  ASSUME SessionInv, NEW w \in Request, NEW a \in Answers(w, Prepared(w))
  PROVE  Reads(a)
<1>. DEFINE at == CollectionAndId(w.uri.path)
<1>1. a.request = w
  BY AnswersFacts
<1>. SUFFICES ASSUME a.how \in {"miss", "swap"}, w.method = "GET", at # <<>>,
                     NEW n \in DOMAIN learned, IsRecording(learned[n]),
                     ServiceOf(learned[n].request) = ServiceOf(w),
                     Creates(learned[n], at[1], at[2])
              PROVE  FALSE
  BY <1>1 DEF Reads
<1>2. ResourceHits(Prepared(w)) = {}
  BY DEF Answers, Answer
<1>3. at[2] \in NonBlank
  <2>1. w.uri.path \in Seq(Texts)
    BY RequestFacts, UriFacts
  <2>. QED BY <2>1, CollectionAndIdType DEF NonBlank
<1>4. CreatedIn(learned[n], resources)
  BY DEF SessionInv, ResourcesFollow
<1>. HIDE DEF at
<1>5. PICK r \in resources : r.service = ServiceOf(w) /\ r.collection = at[1] /\ r.id = at[2]
  BY <1>3, <1>4 DEF CreatedIn
<1>6. /\ Prepared(w).uri.path = w.uri.path /\ Prepared(w).key.method = "GET"
      /\ Prepared(w).key.service = ServiceOf(w)
  BY PreparedFacts
<1>7. CollectionAndId(Prepared(w).uri.path) = at
  BY <1>6 DEF at
<1>8. r \in ResourceHits(Prepared(w))
  BY <1>5, <1>6, <1>7 DEF ResourceHits
<1>. QED BY <1>2, <1>8

(* POST /charges and then GET /charges/{id} is never a miss                *)
(* (main.rs:1596-1602), for any collection, any id and any response that   *)
(* has the id in its "id" field, wherever else it has ids.                 *)
THEOREM CreatedIsRead ==
  Spec => []CreatedIsReadable
<1>1. Init => CreatedIsReadable
  BY DEF Init, CreatedIsReadable
<1>2. SessionInv /\ CreatedIsReadable /\ [Next]_vars => CreatedIsReadable'
  <2>. SUFFICES ASSUME SessionInv, CreatedIsReadable, [Next]_vars PROVE CreatedIsReadable'
    OBVIOUS
  <2>1. CASE answer' = NoAnswer \/ answer'.how = "forwarded"
    BY <2>1 DEF CreatedIsReadable
  <2>2. ASSUME NEW w \in Request, answer' \in Answers(w, Prepared(w)),
               UNCHANGED <<library, resources, learned>>
        PROVE  CreatedIsReadable'
    <3>1. Reads(answer')
      BY <2>2, AnswerReads
    <3>2. learned' = learned
      BY <2>2
    <3>. QED BY <3>1, <3>2 DEF CreatedIsReadable, Reads, IsRecording
  <2>3. CASE UNCHANGED vars
    <3>1. learned' = learned /\ answer' = answer
      BY <2>3 DEF vars
    <3>. QED BY <3>1 DEF CreatedIsReadable
  <2>. QED BY <2>1, <2>2, <2>3, StepAnswers
<1>. QED BY <1>1, <1>2, SessionInvariant, PTL DEF Spec

-----------------------------------------------------------------------------
(***************************************************************************)
(* Smart swap.                                                             *)
(***************************************************************************)
LEMMA ImageFinite ==
  ASSUME NEW S, IsFiniteSet(S), NEW f, DOMAIN f = S
  PROVE  IsFiniteSet({f[x] : x \in S})
<1>. DEFINE T == {f[x] : x \in S}
            g == [x \in S |-> f[x]]
<1>1. g \in Surjection(S, T)
  BY DEF Surjection
<1>. HIDE DEF g, T
<1>2. IsFiniteSet(T)
  BY <1>1, FS_Surjection
<1>. QED BY <1>2 DEF T

(* What parse_query makes of a query: of each key, one of its values.      *)
LEMMA ParamsFacts ==
  ASSUME NEW q \in Seq(Param)
  PROVE  /\ IsFiniteSet(DOMAIN Params(q))
         /\ \A k \in DOMAIN Params(q) :
              /\ Params(q)[k] \in Texts
              /\ \E p \in ToSet(q) : p.key = k /\ Filled(p).value = Params(q)[k]
<1>1. DOMAIN q = 1..Len(q) /\ Len(q) \in Nat /\ IsFiniteSet(1..Len(q))
  BY FS_Interval
<1>2. \A n \in DOMAIN q : q[n] \in Param
  OBVIOUS
<1>. DEFINE K == {q[n].key : n \in DOMAIN q}
<1>3. DOMAIN Params(q) = K
  BY DEF Params
<1>4. IsFiniteSet(K)
  <2>. DEFINE f == [n \in DOMAIN q |-> q[n].key]
  <2>1. IsFiniteSet({f[n] : n \in DOMAIN q})
    <3>1. DOMAIN f = DOMAIN q
      OBVIOUS
    <3>. HIDE DEF f
    <3>. QED BY <1>1, <3>1, ImageFinite
  <2>2. {f[n] : n \in DOMAIN q} = K
    OBVIOUS
  <2>. QED BY <2>1, <2>2
<1>5. ASSUME NEW k \in K
      PROVE  /\ Params(q)[k] \in Texts
             /\ \E p \in ToSet(q) : p.key = k /\ Filled(p).value = Params(q)[k]
  <2>. DEFINE I == {n \in 1..Len(q) : q[n].key = k}
              at == IF I # {} THEN Max(I) ELSE 0
  <2>1. Params(q)[k] = Filled(q[at]).value
    BY DEF Params, SelectLastInSeq
  <2>2. I # {} /\ I \subseteq 1..Len(q)
    BY <1>1
  <2>3. Max(I) \in I
    <3>. HIDE DEF I
    <3>. QED BY <1>1, <2>2, GreatestNat
  <2>4. at \in 1..Len(q) /\ q[at].key = k
    BY <2>2, <2>3
  <2>. HIDE DEF at
  <2>5. q[at] \in Param /\ q[at] \in ToSet(q)
    BY <1>1, <1>2, <2>4 DEF ToSet
  <2>6. Filled(q[at]).value \in Texts
    BY <2>5, TextFacts DEF Filled, Param
  <2>. QED BY <2>1, <2>4, <2>5, <2>6
<1>. QED BY <1>3, <1>4, <1>5

(* The pairs of texts that stand at one place of both requests.            *)
Paired(e, w) == {x \in Texts \X Texts : x[1] # x[2] => Held(e, x[1], w, x[2])}

LEMMA PathPairsHeld ==
  ASSUME NEW e \in Entry, NEW w \in Request, Len(e.key.uri.path) = Len(w.uri.path)
  PROVE  PathPairs(e.key.uri.path, w.uri.path) \in Seq(Paired(e, w))
<1>. DEFINE r == e.key.uri.path
            i == w.uri.path
<1>1. r \in Seq(Texts) /\ i \in Seq(Texts)
  <2>1. e.key.uri \in Uri
    BY DEF Entry, Key
  <2>. QED BY <2>1, RequestFacts, UriFacts
<1>2. ASSUME NEW n \in DOMAIN r
      PROVE  <<r[n], i[n]>> \in Paired(e, w)
  <2>1. r[n] \in Texts /\ i[n] \in Texts
    <3>. HIDE DEF r, i
    <3>1. Len(r) = Len(i)
      BY DEF r, i
    <3>. QED BY <1>1, <3>1
  <2>2. Held(e, r[n], w, i[n])
    BY DEF Held
  <2>. HIDE DEF r, i
  <2>. QED BY <2>1, <2>2 DEF Paired
<1>. HIDE DEF r, i
<1>3. [n \in DOMAIN r |-> <<r[n], i[n]>>] \in Seq(Paired(e, w))
  <2>1. DOMAIN r = 1..Len(r) /\ Len(r) \in Nat
    BY <1>1
  <2>. QED BY <1>2, <2>1
<1>. QED BY <1>3 DEF PathPairs, r, i

(* The parameters of a request are those of its own query.                 *)
LEMMA PreparedParameters ==
  ASSUME NEW w \in Request, NEW p \in ToSet(Prepared(w).uri.query)
  PROVE  \E q \in ToSet(w.uri.query) : q.key = p.key /\ Filled(q).value = Filled(p).value
<1>. DEFINE q == w.uri.query
<1>1. w.uri \in Uri /\ Prepared(w).uri = Normalize(StripTenant(w.uri))
  BY RequestFacts, PreparedFacts
<1>2. PICK c : /\ Enumerates(c, Own(q), OwnOrder(q))
               /\ Normalize(StripTenant(w.uri)).query =
                    [n \in 1..Cardinality(Own(q)) |-> Filled(q[c[n]])]
  BY <1>1, CanonicalQuery
<1>3. q \in Seq(Param)
  BY <1>1, UriFacts
<1>. HIDE DEF q
<1>4. PICK n \in 1..Cardinality(Own(q)) : p = Filled(q[c[n]])
  BY <1>1, <1>2 DEF ToSet
<1>5. c[n] \in Own(q)
  <2>1. c \in [1..Cardinality(Own(q)) -> Own(q)]
    BY <1>2 DEF Enumerates, Bijection, Injection
  <2>. QED BY <2>1
<1>6. q[c[n]] \in Param /\ q[c[n]] \in ToSet(q)
  <2>1. c[n] \in DOMAIN q
    BY <1>5 DEF Own
  <2>. QED BY <1>3, <1>5, <2>1, OwnFinite DEF ToSet
<1>7. \A x \in Param : Filled(x).key = x.key /\ Filled(Filled(x)).value = Filled(x).value
  BY TextFacts DEF Filled, Param
<1>. QED BY <1>4, <1>6, <1>7 DEF q

LEMMA QueryDiffsHeld ==
  ASSUME NEW e \in Entry, NEW w \in Request
  PROVE  LET Q == QueryDiffs(e.key.uri.query, Prepared(w).uri.query)
         IN  Q \subseteq Paired(e, w) /\ IsFiniteSet(Q)
<1>. DEFINE r == e.key.uri.query
            i == Prepared(w).uri.query
            K == {k \in (DOMAIN Params(r)) \cap (DOMAIN Params(i)) : Params(r)[k] # Params(i)[k]}
<1>1. r \in Seq(Param) /\ i \in Seq(Param)
  <2>1. e.key.uri \in Uri /\ Prepared(w).uri \in Uri
    BY PreparedFacts DEF Entry, Key
  <2>. QED BY <2>1, UriFacts
<1>2. ASSUME NEW k \in K
      PROVE  <<Params(r)[k], Params(i)[k]>> \in Paired(e, w)
  <2>1. Params(r)[k] \in Texts /\ Params(i)[k] \in Texts
    <3>. HIDE DEF r, i
    <3>. QED BY <1>1, ParamsFacts
  <2>2. PICK p \in ToSet(r) : p.key = k /\ Filled(p).value = Params(r)[k]
    <3>. HIDE DEF r, i
    <3>. QED BY <1>1, ParamsFacts
  <2>3. PICK q \in ToSet(i) : q.key = k /\ Filled(q).value = Params(i)[k]
    <3>. HIDE DEF r, i
    <3>. QED BY <1>1, ParamsFacts
  <2>4. PICK s \in ToSet(w.uri.query) : s.key = q.key /\ Filled(s).value = Filled(q).value
    BY PreparedParameters
  <2>5. Held(e, Params(r)[k], w, Params(i)[k])
    BY <2>2, <2>3, <2>4 DEF Held
  <2>. HIDE DEF r, i
  <2>. QED BY <2>1, <2>5 DEF Paired
<1>3. IsFiniteSet(K)
  <2>1. IsFiniteSet(DOMAIN Params(r)) /\ K \in SUBSET (DOMAIN Params(r))
    BY <1>1, ParamsFacts
  <2>. HIDE DEF K
  <2>. QED BY <2>1, FS_Subset
<1>. HIDE DEF r, i, K
<1>. DEFINE f == [k \in K |-> <<Params(r)[k], Params(i)[k]>>]
<1>4. QueryDiffs(r, i) = {f[k] : k \in K}
  BY DEF QueryDiffs, K
<1>5. IsFiniteSet({f[k] : k \in K})
  <2>1. DOMAIN f = K
    OBVIOUS
  <2>. HIDE DEF f
  <2>. QED BY <1>3, <2>1, ImageFinite
<1>. QED BY <1>2, <1>4, <1>5 DEF r, i

LEMMA BodyPairsHeld ==
  ASSUME NEW e \in Entry, NEW w \in Request
  PROVE  BodyPairs(e.body, Lossy(w.body)) \in Seq(Paired(e, w))
<1>. DEFINE r == e.body
            i == w.body
            There(l) == {m \in LeafSet(i) : m.at = l.at /\ {m.kind, l.kind} = {"string"}}
            b == [n \in DOMAIN r.leaves |->
                    IF There(r.leaves[n]) = {} THEN <<"", "">>
                    ELSE <<r.leaves[n].text, (CHOOSE m \in There(r.leaves[n]) : TRUE).text>>]
<1>1. r \in Body /\ i \in Body
  BY RequestFacts DEF Entry
<1>2. ASSUME NEW n \in DOMAIN r.leaves
      PROVE  b[n] \in Paired(e, w)
  <2>. DEFINE l == r.leaves[n]
              m == CHOOSE m \in There(l) : TRUE
  <2>0. l \in LeafSet(r) /\ l.text \in Texts
    BY <1>1, BodyFacts DEF LeafSet
  <2>1. CASE There(l) = {}
    <3>1. <<"", "">> \in Paired(e, w)
      BY TextFacts DEF Paired
    <3>. QED BY <2>1, <3>1
  <2>2. CASE There(l) # {}
    <3>1. m \in There(l)
      BY <2>2
    <3>2. m \in LeafSet(i) /\ m.at = l.at
      BY <3>1
    <3>. HIDE DEF m
    <3>3. m.text \in Texts
      BY <1>1, <3>2, BodyFacts
    <3>4. Held(e, l.text, w, m.text)
      BY <2>0, <3>2 DEF Held
    <3>5. b[n] = <<l.text, m.text>>
      BY <2>2 DEF m
    <3>. HIDE DEF l, b
    <3>. QED BY <2>0, <3>3, <3>4, <3>5 DEF Paired
  <2>. QED BY <2>1, <2>2
<1>3. DOMAIN r.leaves = 1..Len(r.leaves) /\ Len(r.leaves) \in Nat
  BY <1>1, BodyFacts
<1>4. b \in [DOMAIN r.leaves -> Paired(e, w)]
  BY <1>2
<1>5. b \in Seq(Paired(e, w))
  <2>. HIDE DEF b, r
  <2>. QED BY <1>3, <1>4
<1>6. BodyPairs(r, i) = IF r.form # "json" \/ i.form # "json" THEN <<>> ELSE b
  BY DEF BodyPairs
<1>7. BodyPairs(r, i) \in Seq(Paired(e, w))
  <2>. HIDE DEF b
  <2>. QED BY <1>5, <1>6
<1>8. CASE Lossy(i).form = "json"
  <2>1. Lossy(i) = i
    BY <1>1, <1>8, KeptType
  <2>. QED BY <1>7, <2>1
<1>9. CASE Lossy(i).form # "json"
  BY <1>9 DEF BodyPairs
<1>. QED BY <1>8, <1>9

(* So what is substituted for a text stands where the text stood.          *)
LEMMA LastOfEachIs ==
  ASSUME NEW T, NEW pairs \in Seq(T), NEW body, NEW t \in DOMAIN LastOfEach(pairs, body)
  PROVE  \E n \in DOMAIN pairs : /\ pairs[n][1] = t /\ pairs[n][2] # t
                                 /\ LastOfEach(pairs, body)[t] = pairs[n][2]
<1>. DEFINE of(u) == {n \in DOMAIN pairs : /\ pairs[n][1] = u /\ pairs[n][2] # u
                                           /\ Evident(body, u)}
            D == {pairs[n][1] : n \in {n \in DOMAIN pairs : of(pairs[n][1]) # {}}}
<1>1. LastOfEach(pairs, body) = [u \in D |-> pairs[Max(of(u))][2]]
  BY DEF LastOfEach
<1>2. t \in D
  BY <1>1
<1>3. of(t) # {}
  BY <1>2
<1>4. DOMAIN pairs = 1..Len(pairs) /\ Len(pairs) \in Nat
  OBVIOUS
<1>5. Max(of(t)) \in of(t)
  <2>1. of(t) \subseteq 1..Len(pairs)
    BY <1>4
  <2>. HIDE DEF of
  <2>. QED BY <1>3, <1>4, <2>1, GreatestNat
<1>6. LastOfEach(pairs, body)[t] = pairs[Max(of(t))][2]
  <2>. HIDE DEF of, D
  <2>. QED BY <1>1, <1>2
<1>. DEFINE n == Max(of(t))
<1>7. n \in DOMAIN pairs /\ pairs[n][1] = t /\ pairs[n][2] # t
  <2>1. n \in of(t)
    BY <1>5
  <2>. HIDE DEF n
  <2>. QED BY <2>1
<1>. HIDE DEF n
<1>. QED BY <1>6, <1>7 DEF n

LEMMA SubstitutionsHeld ==
  ASSUME NEW e \in Entry, NEW w \in Request, Len(e.key.uri.path) = Len(w.uri.path),
         NEW subs \in Substitutions(e, Prepared(w)), NEW t \in DOMAIN subs
  PROVE  Held(e, t, w, subs[t])
<1>. DEFINE T == Paired(e, w)
            Q == QueryDiffs(e.key.uri.query, Prepared(w).uri.query)
            P == PathPairs(e.key.uri.path, w.uri.path)
            B == BodyPairs(e.body, Lossy(w.body))
<1>1. PICK query \in SetToSeqs(Q) : subs = LastOfEach(P \o query \o B, e.response.body)
  BY PreparedFacts DEF Substitutions
<1>2. P \in Seq(T)
  BY PathPairsHeld
<1>3. B \in Seq(T)
  BY BodyPairsHeld
<1>4. query \in Seq(T)
  <2>1. Q \subseteq T /\ IsFiniteSet(Q)
    BY QueryDiffsHeld
  <2>. HIDE DEF Q, T
  <2>2. Cardinality(Q) \in Nat
    BY <2>1, FS_CardinalityType
  <2>3. query \in [1..Cardinality(Q) -> Q]
    BY DEF SetToSeqs
  <2>4. query \in [1..Cardinality(Q) -> T]
    BY <2>1, <2>3
  <2>. QED BY <2>2, <2>4
<1>. HIDE DEF P, B, T, Q
<1>. DEFINE pairs == P \o query \o B
<1>5. pairs \in Seq(T)
  BY <1>2, <1>3, <1>4
<1>6. subs = LastOfEach(pairs, e.response.body)
  BY <1>1
<1>. HIDE DEF pairs
<1>7. PICK n \in DOMAIN pairs : pairs[n][1] = t /\ pairs[n][2] # t /\ subs[t] = pairs[n][2]
  BY <1>5, <1>6, LastOfEachIs
<1>8. pairs[n] \in T
  BY <1>5
<1>. QED BY <1>7, <1>8 DEF T, Paired

(* A swapped JSON body is the recorded one but for such substitutions.     *)
Traced(e, w, b) ==
  /\ b.form = e.response.body.form
  /\ e.response.body.form = "json" =>
       /\ Len(b.leaves) = Len(e.response.body.leaves)
       /\ \A n \in DOMAIN b.leaves :
            LET was == e.response.body.leaves[n] now == b.leaves[n] IN
            \/ now = was
            \/ /\ was.kind = "string" /\ now = [was EXCEPT !.text = now.text]
               /\ Held(e, was.text, w, now.text)

LEMMA SwappedTraced ==
  ASSUME NEW e \in Entry, NEW w \in Request, Len(e.key.uri.path) = Len(w.uri.path),
         NEW b \in Swapped(e, Prepared(w))
  PROVE  Traced(e, w, b)
<1>. DEFINE was == e.response.body
<1>0. was \in Body /\ was = [form |-> was.form, leaves |-> was.leaves]
      /\ DOMAIN was.leaves = 1..Len(was.leaves) /\ Len(was.leaves) \in Nat
      /\ \A n \in DOMAIN was.leaves : was.leaves[n] \in Leaf
  <2>1. was \in Body
    BY DEF Entry, Stored
  <2>. HIDE DEF was
  <2>2. was \in [form: {"empty", "json", "text", "bytes"}, leaves: Seq(Leaf)]
    BY <2>1, BodyFacts
  <2>. QED BY <2>1, <2>2, BodyFacts
<1>1. PICK subs \in Substitutions(e, Prepared(w)) : b \in Apply(was, subs)
  BY DEF Swapped
<1>2. \A t \in DOMAIN subs : Held(e, t, w, subs[t])
  BY SubstitutionsHeld
<1>3. Traced(e, w, b) <=>
        /\ b.form = was.form
        /\ was.form = "json" =>
             /\ Len(b.leaves) = Len(was.leaves)
             /\ \A n \in DOMAIN b.leaves :
                  \/ b.leaves[n] = was.leaves[n]
                  \/ /\ was.leaves[n].kind = "string"
                     /\ b.leaves[n] = [was.leaves[n] EXCEPT !.text = b.leaves[n].text]
                     /\ Held(e, was.leaves[n].text, w, b.leaves[n].text)
  BY DEF Traced
<1>. HIDE DEF was
<1>4. CASE subs = <<>>
  <2>1. b = was
    BY <1>1, <1>4 DEF Apply
  <2>. QED BY <1>3, <2>1
<1>5. CASE subs # <<>> /\ was.form # "json"
  <2>1. b \in InText(was, subs)
    BY <1>1, <1>5 DEF Apply
  <2>2. b.form = was.form
    BY <1>0, <2>1 DEF InText
  <2>. QED BY <1>3, <1>5, <2>2
<1>6. CASE subs # <<>> /\ was.form = "json"
  <2>. DEFINE s == was.leaves
              d == [n \in DOMAIN s |->
                      IF s[n].kind = "string"
                        THEN WithText(s[n], Replace(subs, s[n].text)) ELSE s[n]]
  <2>1. b = InJson(was, subs)
    BY <1>1, <1>6 DEF Apply
  <2>2. b = [form |-> was.form, leaves |-> d]
    <3>1. b = [was EXCEPT !.leaves = d]
      BY <2>1 DEF InJson
    <3>. HIDE DEF d, s
    <3>. QED BY <1>0, <3>1
  <2>3. b.form = was.form /\ b.leaves = d
    BY <2>2
  <2>4. DOMAIN s = 1..Len(s) /\ Len(s) \in Nat /\ \A n \in DOMAIN s : s[n] \in Leaf
    BY <1>0
  <2>. HIDE DEF s
  <2>5. DOMAIN d = DOMAIN s /\ Len(d) = Len(s)
    BY <2>4
  <2>6. ASSUME NEW n \in DOMAIN s
        PROVE  \/ d[n] = s[n]
               \/ /\ s[n].kind = "string" /\ d[n] = [s[n] EXCEPT !.text = d[n].text]
                  /\ Held(e, s[n].text, w, d[n].text)
    <3>1. s[n] \in Leaf
      BY <2>4
    <3>2. CASE s[n].kind = "string" /\ s[n].text \in DOMAIN subs
      <4>1. d[n] = [s[n] EXCEPT !.text = subs[s[n].text]]
        BY <3>2 DEF Replace, WithText
      <4>2. d[n].text = subs[s[n].text]
        <5>. HIDE DEF d
        <5>. QED BY <3>1, <4>1 DEF Leaf
      <4>3. Held(e, s[n].text, w, d[n].text)
        <5>. HIDE DEF d
        <5>. QED BY <1>2, <3>2, <4>2
      <4>. HIDE DEF d
      <4>. QED BY <3>2, <4>1, <4>2, <4>3
    <3>3. CASE s[n].kind = "string" /\ s[n].text \notin DOMAIN subs
      <4>1. d[n] = [s[n] EXCEPT !.text = s[n].text]
        BY <3>3 DEF Replace, WithText
      <4>. HIDE DEF d
      <4>. QED BY <3>1, <4>1 DEF Leaf
    <3>4. CASE s[n].kind # "string"
      <4>1. d[n] = s[n]
        BY <3>4
      <4>. HIDE DEF d
      <4>. QED BY <4>1
    <3>. QED BY <3>2, <3>3, <3>4
  <2>. HIDE DEF d
  <2>. QED BY <1>3, <2>3, <2>5, <2>6 DEF s
<1>. QED BY <1>4, <1>5, <1>6

LEMMA AnswerSwapped ==
  ASSUME NEW w, NEW p, NEW a \in Answers(w, p), a.how = "swap"
  PROVE  \E e \in SwapCandidates(p) : a.body \in Swapped(e, p)
<1>1. a \in SwapOrMiss(w, p)
  BY DEF Answers, Answer
<1>2. PICK e \in SwapCandidates(p) :
        a \in IF Swapped(e, p) = {} THEN {Missed(w)}
              ELSE {Answer(w, "swap", b, e.response.length) : b \in Swapped(e, p)}
  BY <1>1 DEF SwapOrMiss, Missed, Answer
<1>3. PICK b \in Swapped(e, p) : a = Answer(w, "swap", b, e.response.length)
  BY <1>2 DEF Missed, Answer
<1>. QED BY <1>3 DEF Answer

Traces(a) ==
  a.how = "swap" =>
    \E e \in library :
      /\ e.key.service = Prepared(a.request).key.service
      /\ e.key.method = a.request.method /\ e.key.tenant = NamedTenant(a.request)
      /\ Len(e.key.uri.path) = Len(a.request.uri.path)
      /\ \A n \in DOMAIN a.request.uri.path :
           e.key.uri.path[n] = a.request.uri.path[n]
             \/ IsDynamic(e.key.uri.path[n]) \/ IsDynamic(a.request.uri.path[n])
      /\ Traced(e, a.request, a.body)

LEMMA AnswerTraces ==
  ASSUME SessionInv, NEW w \in Request, NEW a \in Answers(w, Prepared(w))
  PROVE  Traces(a)
<1>. SUFFICES ASSUME a.how = "swap" PROVE Traces(a)
  BY DEF Traces
<1>1. a.request = w
  BY AnswersFacts
<1>2. PICK e \in SwapCandidates(Prepared(w)) : a.body \in Swapped(e, Prepared(w))
  BY AnswerSwapped
<1>3. /\ Prepared(w).uri.path = w.uri.path /\ Prepared(w).key.method = w.method
      /\ Prepared(w).key.tenant = NamedTenant(w)
  BY PreparedFacts
<1>4. /\ e \in library /\ e.key.service = Prepared(w).key.service
      /\ e.key.tenant = NamedTenant(w) /\ e.key.method = w.method
      /\ PathsMatch(e.key.uri.path, w.uri.path)
  BY <1>3 DEF SwapCandidates
<1>5. e \in Entry
  BY <1>4 DEF SessionInv, TypeOK
<1>6. w.uri.path \in Seq(Texts) /\ e.key.uri.path \in Seq(Texts)
  <2>1. e.key.uri \in Uri
    BY <1>5 DEF Entry, Key
  <2>. QED BY <2>1, RequestFacts, UriFacts
<1>7. Len(e.key.uri.path) = Len(w.uri.path)
      /\ \A n \in DOMAIN w.uri.path :
           e.key.uri.path[n] = w.uri.path[n]
             \/ IsDynamic(e.key.uri.path[n]) \/ IsDynamic(w.uri.path[n])
  <2>1. Len(e.key.uri.path) = Len(w.uri.path)
    BY <1>4 DEF PathsMatch
  <2>2. DOMAIN e.key.uri.path = DOMAIN w.uri.path
    BY <1>6, <2>1
  <2>. QED BY <1>4, <2>1, <2>2 DEF PathsMatch
<1>8. Traced(e, w, a.body)
  BY <1>2, <1>5, <1>7, SwappedTraced
<1>. QED BY <1>1, <1>4, <1>7, <1>8 DEF Traces

(* A swap answers from a recording of the same service, tenant and method  *)
(* on a path of the same shape, and puts into a JSON answer nothing but    *)
(* the request's own texts in place of the ones the recorded request had   *)
(* there (matcher.rs:42-53), whatever the two requests hold.               *)
THEOREM SwapsAreTraced ==
  Spec => []SwapTraceable
<1>1. Init => SwapTraceable
  BY DEF Init, SwapTraceable
<1>2. SessionInv /\ SwapTraceable /\ [Next]_vars => SwapTraceable'
  <2>. SUFFICES ASSUME SessionInv, SwapTraceable, [Next]_vars PROVE SwapTraceable'
    OBVIOUS
  <2>1. CASE answer' = NoAnswer \/ answer'.how = "forwarded"
    BY <2>1 DEF SwapTraceable
  <2>2. ASSUME NEW w \in Request, answer' \in Answers(w, Prepared(w)),
               UNCHANGED <<library, resources, learned>>
        PROVE  SwapTraceable'
    <3>1. Traces(answer')
      BY <2>2, AnswerTraces
    <3>2. library' = library
      BY <2>2
    <3>. QED BY <3>1, <3>2 DEF SwapTraceable, Traces, Traced
  <2>3. CASE UNCHANGED vars
    <3>1. library' = library /\ answer' = answer
      BY <2>3 DEF vars
    <3>. QED BY <3>1 DEF SwapTraceable
  <2>. QED BY <2>1, <2>2, <2>3, StepAnswers
<1>. QED BY <1>1, <1>2, SessionInvariant, PTL DEF Spec
=============================================================================
