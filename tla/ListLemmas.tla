---------------------------- MODULE ListLemmas ------------------------------
(***************************************************************************)
(* Facts about natural numbers, sequences and sums that the proofs of      *)
(* several components need: induction over the naturals, over the subsets  *)
(* of a finite set and along a sequence, stated with sets in place of      *)
(* predicates; counting the elements of a sequence; what retain leaves of  *)
(* one; and the sum over a finite set.                                     *)
(***************************************************************************)
EXTENDS Selection, FiniteSetTheorems, FunctionTheorems, WellFoundedInduction, TLAPS

(* Induction *)

\* A set of naturals has a least element.
LEMMA LeastNatural ==
  ASSUME NEW S \in SUBSET Nat, S # {}
  PROVE  \E m \in S : \A k \in S : m <= k
<1>1. PICK m \in S : \A k \in S : ~ (<<k, m>> \in OpToRel(<, Nat))
  BY NatLessThanWellFounded, WFMin
<1>2. ASSUME NEW k \in S, k < m PROVE FALSE
  BY <1>1, <1>2 DEF OpToRel
<1> QED BY <1>2

\* What holds of 0 and of the successor of each number it holds of holds of all:
\* S is the set of the numbers it holds of.
LEMMA InductionOnSet ==
  ASSUME NEW S \in SUBSET Nat, 0 \in S, \A n \in S : n + 1 \in S
  PROVE  S = Nat
<1>1. SUFFICES ASSUME Nat \ S # {} PROVE FALSE
  OBVIOUS
<1>2. PICK m \in Nat \ S : \A k \in Nat \ S : m <= k
  BY <1>1, LeastNatural
<1>3. m - 1 \in Nat
  BY <1>2
<1>4. m - 1 \in S
  BY <1>2, <1>3
<1> QED BY <1>2, <1>3, <1>4

\* A bounded set of naturals has a greatest element.
LEMMA GreatestNatural ==
  ASSUME NEW n \in Nat, NEW S \in SUBSET (0 .. n), S # {}
  PROVE  \E m \in S : \A k \in S : k <= m
<1> DEFINE U == {n - k : k \in S}
<1>1. U \in SUBSET Nat /\ U # {}
  <2>1. \A k \in S : k \in Int /\ n - k \in Nat
    OBVIOUS
  <2> QED BY <2>1
<1>2. PICK u \in U : \A v \in U : u <= v
  <2> HIDE DEF U
  <2> QED BY <1>1, LeastNatural
<1>3. PICK m \in S : u = n - m
  BY <1>2
<1>4. ASSUME NEW k \in S PROVE k <= m
  <2>1. n - m <= n - k
    BY <1>2, <1>3
  <2> QED BY <2>1
<1> QED BY <1>3, <1>4


Steps(N, T) == [1 .. N -> [T -> T]]

\* g goes from base by the steps of next.
Stepwise(g, N, T, base, next) ==
  g \in [0 .. N -> T] /\ g[0] = base /\ \A n \in 1 .. N : g[n] = next[n][g[n - 1]]

\* The recursive definitions of the models go through the positions of a
\* sequence, each value made of the one before it; such a function exists.
LEMMA StepwiseExists ==
  ASSUME NEW N \in Nat, NEW T, NEW base \in T, NEW next \in Steps(N, T)
  PROVE  \E g : Stepwise(g, N, T, base, next)
<1> USE DEF Steps
<1> DEFINE Good(m, g) == g \in [0 .. m -> T] /\ g[0] = base /\ \A n \in 1 .. m : g[n] = next[n][g[n - 1]]
           S == {m \in Nat : m <= N => \E g : Good(m, g)}
<1>1. 0 \in S
  <2>1. Good(0, [n \in 0 .. 0 |-> base])
    OBVIOUS
  <2> QED BY <2>1
<1>2. ASSUME NEW m \in S PROVE m + 1 \in S
  <2> SUFFICES ASSUME m + 1 <= N PROVE \E g : Good(m + 1, g)
    OBVIOUS
  <2>1. PICK g : Good(m, g)
    BY <1>2
  <2> DEFINE h == [n \in 0 .. m + 1 |-> IF n = m + 1 THEN next[m + 1][g[m]] ELSE g[n]]
  <2>2. next[m + 1] \in [T -> T] /\ g[m] \in T
    BY <2>1
  <2>3. next[m + 1][g[m]] \in T
    BY <2>2
  <2>4. h \in [0 .. m + 1 -> T] /\ h[0] = base
    BY <2>1, <2>3
  <2>5. ASSUME NEW n \in 1 .. m + 1 PROVE h[n] = next[n][h[n - 1]]
    <3>1. CASE n = m + 1
      BY <3>1
    <3>2. CASE n # m + 1
      <4>1. n \in 1 .. m /\ h[n] = g[n] /\ h[n - 1] = g[n - 1]
        BY <3>2
      <4> QED BY <2>1, <4>1
    <3> QED BY <3>1, <3>2
  <2> HIDE DEF h
  <2>6. Good(m + 1, h)
    BY <2>4, <2>5
  <2> QED BY <2>6
<1>3. N \in S
  <2>1. S \in SUBSET Nat
    OBVIOUS
  <2> HIDE DEF S
  <2>2. S = Nat
    BY <1>1, <1>2, <2>1, InductionOnSet
  <2> QED BY <2>2
<1>4. PICK g : Good(N, g)
  BY <1>3
<1> QED BY <1>4 DEF Stepwise

-----------------------------------------------------------------------------
(* Sequences *)

\* How many elements of s are in S.
Count(s, S) == Cardinality({i \in DOMAIN s : s[i] \in S})

\* A sequence has finitely many elements in S.
LEMMA CountType ==
  ASSUME NEW T, NEW s \in Seq(T), NEW S
  PROVE  /\ IsFiniteSet({i \in DOMAIN s : s[i] \in S})
         /\ Count(s, S) \in Nat
<1>1. IsFiniteSet(1 .. Len(s)) /\ DOMAIN s = 1 .. Len(s)
  BY FS_Interval
<1>2. {i \in DOMAIN s : s[i] \in S} \in SUBSET (1 .. Len(s))
  BY <1>1
<1>3. IsFiniteSet({i \in DOMAIN s : s[i] \in S})
  BY <1>1, <1>2, FS_Subset
<1> QED BY <1>3, FS_CardinalityType DEF Count

\* None are counted where none are.
LEMMA CountEmpty ==
  ASSUME NEW T, NEW s \in Seq(T), NEW S, \A i \in DOMAIN s : s[i] \notin S
  PROVE  Count(s, S) = 0
<1>1. {i \in DOMAIN s : s[i] \in S} = {}
  OBVIOUS
<1> QED BY <1>1, FS_EmptySet DEF Count

\* An element appended counts once.
LEMMA CountAppend ==
  ASSUME NEW T, NEW s \in Seq(T), NEW x \in T, NEW S
  PROVE  Count(Append(s, x), S) = Count(s, S) + (IF x \in S THEN 1 ELSE 0)
<1> DEFINE n == Len(s) + 1
           A == {i \in DOMAIN s : s[i] \in S}
           B == {i \in DOMAIN Append(s, x) : Append(s, x)[i] \in S}
<1>1. /\ DOMAIN s = 1 .. Len(s) /\ Len(s) \in Nat
      /\ DOMAIN Append(s, x) = 1 .. n /\ Append(s, x)[n] = x
      /\ \A i \in 1 .. Len(s) : Append(s, x)[i] = s[i]
  OBVIOUS
<1>2. IsFiniteSet(A) /\ Cardinality(A) \in Nat
  BY CountType DEF Count
<1>3. n \notin A /\ B = IF x \in S THEN A \cup {n} ELSE A
  BY <1>1
<1> HIDE DEF A, B, n
<1>4. Cardinality(A \cup {n}) = IF n \in A THEN Cardinality(A) ELSE Cardinality(A) + 1
  BY <1>2, FS_AddElement
<1>5. Cardinality(B) = Cardinality(A) + (IF x \in S THEN 1 ELSE 0)
  BY <1>2, <1>3, <1>4
<1> QED BY <1>5 DEF A, B, Count

\* An element taken from the head counted once.
LEMMA CountTail ==
  ASSUME NEW T, NEW s \in Seq(T), s # <<>>, NEW S
  PROVE  Count(s, S) = Count(Tail(s), S) + (IF Head(s) \in S THEN 1 ELSE 0)
<1> DEFINE A == {i \in DOMAIN s : s[i] \in S}
           B == {i \in DOMAIN Tail(s) : Tail(s)[i] \in S}
           f == [i \in B |-> i + 1]
<1>1. /\ DOMAIN s = 1 .. Len(s) /\ Len(s) \in Nat /\ Len(s) > 0
      /\ Tail(s) \in Seq(T) /\ DOMAIN Tail(s) = 1 .. Len(s) - 1
      /\ \A i \in 1 .. Len(s) - 1 : Tail(s)[i] = s[i + 1]
      /\ Head(s) = s[1]
  OBVIOUS
<1>2. IsFiniteSet(A) /\ IsFiniteSet(B) /\ Cardinality(B) \in Nat /\ Cardinality(A) \in Nat
  BY <1>1, CountType DEF Count
<1>3. B \subseteq 1 .. Len(s) - 1
  BY <1>1
<1>4. \A i \in B : f[i] \in A \ {1}
  BY <1>1, <1>3
<1>5. \A j \in A \ {1} : j - 1 \in B /\ f[j - 1] = j
  BY <1>1
<1>6. \A i, j \in B : f[i] = f[j] => i = j
  BY <1>3
<1>7. ExistsBijection(B, A \ {1})
  <2>1. f \in [B -> A \ {1}]
    BY <1>4
  <2>2. \A j \in A \ {1} : \E i \in B : f[i] = j
    BY <1>5
  <2> HIDE DEF f, A, B
  <2>3. f \in Bijection(B, A \ {1})
    BY <2>1, <2>2, <1>6, Fun_IsBij
  <2> QED BY <2>3 DEF ExistsBijection
<1>8. 1 \in A <=> Head(s) \in S
  BY <1>1
<1> HIDE DEF f, A, B
<1>9. Cardinality(A \ {1}) = Cardinality(B)
  BY <1>2, <1>7, FS_Bijection
<1>10. Cardinality(A \ {1}) = IF 1 \in A THEN Cardinality(A) - 1 ELSE Cardinality(A)
  BY <1>2, FS_RemoveElement
<1>11. Cardinality(A) = Cardinality(B) + (IF Head(s) \in S THEN 1 ELSE 0)
  BY <1>2, <1>8, <1>9, <1>10
<1> QED BY <1>11 DEF A, B, Count

\* A sequence cut in two counts as its parts.
LEMMA CountSplit ==
  ASSUME NEW T, NEW s \in Seq(T), NEW S, NEW n \in 0 .. Len(s)
  PROVE  Count(s, S) = Count(SubSeq(s, 1, n), S) + Count(SubSeq(s, n + 1, Len(s)), S)
<1> DEFINE p == SubSeq(s, 1, n)
           q == SubSeq(s, n + 1, Len(s))
           A == {i \in DOMAIN s : s[i] \in S}
           P == {i \in DOMAIN p : p[i] \in S}
           Q == {i \in DOMAIN q : q[i] \in S}
           f == [i \in Q |-> n + i]
<1>1. /\ DOMAIN s = 1 .. Len(s) /\ Len(s) \in Nat /\ n \in Nat /\ n <= Len(s)
      /\ p \in Seq(T) /\ DOMAIN p = 1 .. n /\ \A i \in 1 .. n : p[i] = s[i]
  OBVIOUS
<1>2. /\ q \in Seq(T) /\ DOMAIN q = 1 .. Len(s) - n
      /\ \A i \in 1 .. Len(s) - n : q[i] = s[n + i]
  BY <1>1
<1> HIDE DEF p, q
<1>3. /\ IsFiniteSet(A) /\ Cardinality(A) \in Nat /\ IsFiniteSet(P) /\ Cardinality(P) \in Nat
      /\ IsFiniteSet(Q) /\ Cardinality(Q) \in Nat
  BY <1>1, <1>2, CountType DEF Count
<1>4. P \in SUBSET A /\ P = A \cap P
  BY <1>1
<1>5. Q \subseteq 1 .. Len(s) - n
  BY <1>2
<1>6. \A i \in Q : f[i] \in A \ P
  BY <1>1, <1>2, <1>5
<1>7. \A j \in A \ P : j - n \in Q /\ f[j - n] = j
  BY <1>1, <1>2
<1>8. \A i, j \in Q : f[i] = f[j] => i = j
  BY <1>1, <1>5
<1>9. ExistsBijection(Q, A \ P)
  <2>1. f \in [Q -> A \ P]
    BY <1>6
  <2>2. \A j \in A \ P : \E i \in Q : f[i] = j
    BY <1>7
  <2> HIDE DEF f, A, P, Q
  <2>3. f \in Bijection(Q, A \ P)
    BY <2>1, <2>2, <1>8, Fun_IsBij
  <2> QED BY <2>3 DEF ExistsBijection
<1> HIDE DEF f, A, P, Q
<1>10. Cardinality(A \ P) = Cardinality(Q)
  BY <1>3, <1>9, FS_Bijection
<1>11. Cardinality(A \ P) = Cardinality(A) - Cardinality(P)
  BY <1>3, <1>4, FS_Difference
<1>12. Cardinality(A) = Cardinality(P) + Cardinality(Q)
  BY <1>3, <1>10, <1>11
<1> QED BY <1>12 DEF A, P, Q, p, q, Count

\* t is what is read of s at the positions K, from left to right.
ReadsOff(t, s, K, at) ==
  /\ at \in [DOMAIN t -> K]
  /\ \A n \in DOMAIN t : t[n] = s[at[n]]
  /\ \A n, m \in DOMAIN t : n < m => at[n] < at[m]
  /\ \A k \in K : \E n \in DOMAIN t : at[n] = k

\* Selected does what retain does.
LEMMA SelectedFacts ==
  ASSUME NEW T, NEW s \in Seq(T), NEW K \in SUBSET DOMAIN s
  PROVE  /\ Selected(s, K) \in Seq(T)
         /\ Len(Selected(s, K)) \in 0 .. Len(s)
         /\ \E at : ReadsOff(Selected(s, K), s, K, at)
<1> DEFINE N == Cardinality(K)
           Upto(k) == {j \in K : j <= k}
           rank == [k \in K |-> Cardinality(Upto(k))]
           at == [n \in 1 .. N |-> CHOOSE k \in K : Cardinality(Upto(k)) = n]
<1>1. DOMAIN s = 1 .. Len(s) /\ Len(s) \in Nat
  OBVIOUS
<1>0. IsFiniteSet(1 .. Len(s)) /\ Cardinality(1 .. Len(s)) = Len(s)
  <2>1. Cardinality(1 .. Len(s)) = IF 1 > Len(s) THEN 0 ELSE Len(s) - 1 + 1
    BY <1>1, FS_Interval
  <2> QED BY <1>1, <2>1, FS_Interval
<1>2. IsFiniteSet(K) /\ N \in Nat /\ N <= Len(s)
  BY <1>0, <1>1, FS_Subset, FS_CardinalityType
<1>3. \A k \in K : k \in Int
  BY <1>1
<1> HIDE DEF N
<1>4. ASSUME NEW k \in K
      PROVE  IsFiniteSet(Upto(k)) /\ rank[k] \in 1 .. N
  <2>1. Upto(k) \in SUBSET K /\ k \in Upto(k)
    BY <1>3
  <2>2. IsFiniteSet(Upto(k)) /\ Cardinality(Upto(k)) <= N
    BY <1>2, <2>1, FS_Subset DEF N
  <2>3. Cardinality(Upto(k)) \in Nat /\ Cardinality(Upto(k)) # 0
    BY <2>1, <2>2, FS_CardinalityType, FS_EmptySet
  <2> QED BY <1>2, <2>2, <2>3
<1>5. ASSUME NEW i \in K, NEW k \in K, i < k
      PROVE  rank[i] < rank[k]
  <2>1. Upto(i) \in SUBSET Upto(k) /\ k \in Upto(k) /\ k \notin Upto(i)
    BY <1>3, <1>5
  <2>2. IsFiniteSet(Upto(k)) /\ rank[i] \in Nat /\ rank[k] \in Nat
    <3>1. rank[i] \in 1 .. N
      BY <1>4
    <3>2. rank[k] \in 1 .. N /\ IsFiniteSet(Upto(k))
      BY <1>4
    <3> HIDE DEF rank
    <3> QED BY <1>2, <3>1, <3>2
  <2>3. Cardinality(Upto(i)) <= Cardinality(Upto(k))
    BY <2>1, <2>2, FS_Subset
  <2>4. Cardinality(Upto(i)) # Cardinality(Upto(k))
    BY <2>1, <2>2, FS_Subset
  <2> QED BY <2>2, <2>3, <2>4
<1>6. \A k \in K : rank[k] = Cardinality(Upto(k))
  OBVIOUS
<1>7. rank \in [K -> 1 .. N]
  BY <1>4
<1>8. \A i, k \in K : rank[i] = rank[k] => i = k
  <2> SUFFICES ASSUME NEW i \in K, NEW k \in K, i # k PROVE rank[i] # rank[k]
    OBVIOUS
  <2> HIDE DEF rank
  <2>0. rank[i] \in Int /\ rank[k] \in Int
    BY <1>2, <1>7
  <2>1. CASE i < k
    BY <1>5, <2>0, <2>1
  <2>2. CASE k < i
    BY <1>5, <2>0, <2>2
  <2> QED BY <1>3, <2>1, <2>2
<1>9. IsFiniteSet(1 .. N) /\ Cardinality(1 .. N) = N
  <2>1. Cardinality(1 .. N) = IF 1 > N THEN 0 ELSE N - 1 + 1
    BY <1>2, FS_Interval
  <2> QED BY <1>2, <2>1, FS_Interval
<1> HIDE DEF rank
<1>10. \A n \in 1 .. N : \E k \in K : rank[k] = n
  <2>1. rank \in Injection(K, 1 .. N)
    BY <1>7, <1>8, Fun_IsInj
  <2>2. rank \in Surjection(K, 1 .. N)
    BY <2>1, <1>9, FS_Injection DEF N
  <2> QED BY <2>2 DEF Surjection
<1>11. ASSUME NEW n \in 1 .. N
       PROVE  at[n] \in K /\ rank[at[n]] = n
  <2>1. \E k \in K : Cardinality(Upto(k)) = n
    BY <1>6, <1>10
  <2>2. at[n] = CHOOSE k \in K : Cardinality(Upto(k)) = n
    OBVIOUS
  <2> HIDE DEF at
  <2>3. at[n] \in K /\ Cardinality(Upto(at[n])) = n
    BY <2>1, <2>2
  <2> QED BY <1>6, <2>3
<1>12. at \in [1 .. N -> K]
  BY <1>11
<1>13. Selected(s, K) = [n \in 1 .. N |-> s[at[n]]]
  BY DEF Selected, N
<1> HIDE DEF at
<1>14. \A n \in 1 .. N : s[at[n]] \in T
  BY <1>1, <1>12
<1>15. /\ Selected(s, K) \in Seq(T) /\ Len(Selected(s, K)) = N
       /\ DOMAIN Selected(s, K) = 1 .. N
       /\ \A n \in 1 .. N : Selected(s, K)[n] = s[at[n]]
  BY <1>2, <1>13, <1>14
<1>16. ASSUME NEW n \in 1 .. N, NEW m \in 1 .. N, n < m
       PROVE  at[n] < at[m]
  <2>1. /\ at[n] \in K /\ at[m] \in K /\ rank[at[n]] = n /\ rank[at[m]] = m
        /\ at[n] \in Int /\ at[m] \in Int
    BY <1>3, <1>11
  <2>2. CASE at[m] < at[n]
    <3>1. rank[at[m]] < rank[at[n]]
      BY <1>5, <2>1, <2>2
    <3> QED BY <1>16, <2>1, <3>1
  <2>3. CASE at[m] = at[n]
    BY <1>16, <2>1, <2>3
  <2> QED BY <2>1, <2>2, <2>3
<1>17. \A k \in K : \E n \in 1 .. N : at[n] = k
  <2> SUFFICES ASSUME NEW k \in K PROVE \E n \in 1 .. N : at[n] = k
    OBVIOUS
  <2>1. rank[k] \in 1 .. N
    BY <1>7
  <2>2. at[rank[k]] \in K /\ rank[at[rank[k]]] = rank[k]
    BY <2>1, <1>11
  <2>3. at[rank[k]] = k
    BY <2>2, <1>8
  <2> QED BY <2>1, <2>3
<1>18. Len(Selected(s, K)) \in 0 .. Len(s)
  BY <1>1, <1>2, <1>15
<1>19. at \in [DOMAIN Selected(s, K) -> K]
  BY <1>12, <1>15
<1>20. ReadsOff(Selected(s, K), s, K, at)
  BY <1>15, <1>16, <1>17, <1>19 DEF ReadsOff
<1> QED BY <1>15, <1>18, <1>20

-----------------------------------------------------------------------------
(* Sums *)

One(s) == CHOOSE x \in s : TRUE

\* Induction over the subsets of a finite set, one element at a time.
LEMMA SubsetInduction ==
  ASSUME NEW S, IsFiniteSet(S), NEW P \in SUBSET (SUBSET S), {} \in P,
         \A s \in SUBSET S : (s # {} /\ s \ {One(s)} \in P) => s \in P
  PROVE  \A s \in SUBSET S : s \in P
<1> DEFINE N == {n \in Nat : \A s \in SUBSET S : Cardinality(s) <= n => s \in P}
<1>1. \A s \in SUBSET S : IsFiniteSet(s) /\ Cardinality(s) \in Nat /\ (Cardinality(s) = 0 <=> s = {})
  <2> SUFFICES ASSUME NEW s \in SUBSET S PROVE IsFiniteSet(s) /\ Cardinality(s) \in Nat /\ (Cardinality(s) = 0 <=> s = {})
    OBVIOUS
  <2>1. IsFiniteSet(s)
    BY FS_Subset
  <2> QED BY <2>1, FS_CardinalityType, FS_EmptySet
<1>2. 0 \in N
  BY <1>1
<1>3. ASSUME NEW n \in N PROVE n + 1 \in N
  <2> SUFFICES ASSUME NEW s \in SUBSET S, Cardinality(s) <= n + 1 PROVE s \in P
    OBVIOUS
  <2>1. CASE s = {}
    BY <2>1
  <2>2. CASE s # {}
    <3>1. One(s) \in s
      BY <2>2 DEF One
    <3>2. Cardinality(s \ {One(s)}) = Cardinality(s) - 1
      BY <1>1, <3>1, FS_RemoveElement
    <3>3. s \ {One(s)} \in SUBSET S /\ Cardinality(s \ {One(s)}) <= n
      BY <1>1, <3>2
    <3>4. s \ {One(s)} \in P
      BY <3>3
    <3> QED BY <2>2, <3>4
  <2> QED BY <2>1, <2>2
<1>4. N = Nat
  <2>1. N \in SUBSET Nat
    OBVIOUS
  <2> HIDE DEF N
  <2> QED BY <1>2, <1>3, <2>1, InductionOnSet
<1>5. ASSUME NEW s \in SUBSET S PROVE s \in P
  <2>1. Cardinality(s) \in N
    <3> HIDE DEF N
    <3> QED BY <1>1, <1>4
  <2> QED BY <1>1, <2>1
<1> QED BY <1>5

\* h sums w over the subsets of S.
SumEquation(w, S, h) ==
  h = [s \in SUBSET S |-> IF s = {} THEN 0 ELSE w[One(s)] + h[s \ {One(s)}]]

\* A sum over a set is that of one element and of the rest.
LEMMA SumUnfolds ==
  ASSUME NEW S, NEW w, NEW h, SumEquation(w, S, h)
  PROVE  h[{}] = 0 /\ \A s \in SUBSET S : s # {} => One(s) \in s /\ h[s] = w[One(s)] + h[s \ {One(s)}]
<1>1. ASSUME NEW s \in SUBSET S PROVE h[s] = IF s = {} THEN 0 ELSE w[One(s)] + h[s \ {One(s)}]
  BY Zenon DEF SumEquation
<1>2. \A s : s # {} => One(s) \in s
  BY DEF One
<1> QED BY <1>1, <1>2

\* There is such a sum: the partial sums over the subsets of at most n elements.
LEMMA SumExists ==
  ASSUME NEW S, IsFiniteSet(S), NEW w \in [S -> Nat]
  PROVE  \E h : SumEquation(w, S, h)
<1> DEFINE Small(n) == {s \in SUBSET S : Cardinality(s) <= n}
           Good(n, g) == /\ g \in [Small(n) -> Nat]
                         /\ \A s \in Small(n) : g[s] = IF s = {} THEN 0 ELSE w[One(s)] + g[s \ {One(s)}]
           N == {n \in Nat : \E g : Good(n, g)}
<1>1. \A s \in SUBSET S : IsFiniteSet(s) /\ Cardinality(s) \in Nat /\ (Cardinality(s) = 0 <=> s = {})
  <2> SUFFICES ASSUME NEW s \in SUBSET S PROVE IsFiniteSet(s) /\ Cardinality(s) \in Nat /\ (Cardinality(s) = 0 <=> s = {})
    OBVIOUS
  <2>1. IsFiniteSet(s)
    BY FS_Subset
  <2> QED BY <2>1, FS_CardinalityType, FS_EmptySet
<1>2. ASSUME NEW n \in Nat, NEW s \in Small(n + 1), s # {}
      PROVE  s \ {One(s)} \in Small(n) /\ One(s) \in S
  <2>1. One(s) \in s
    BY <1>2 DEF One
  <2>2. Cardinality(s \ {One(s)}) = Cardinality(s) - 1
    BY <1>1, <2>1, FS_RemoveElement
  <2> QED BY <1>1, <2>1, <2>2
<1>3. 0 \in N
  <2> DEFINE g == [s \in Small(0) |-> 0]
  <2>1. \A s \in Small(0) : s = {}
    BY <1>1
  <2>2. Good(0, g)
    BY <2>1
  <2> QED BY <2>2
<1>4. ASSUME NEW n \in N PROVE n + 1 \in N
  <2>1. PICK g : Good(n, g)
    OBVIOUS
  <2>2. \A s \in Small(n) : s \in Small(n + 1)
    BY <1>1
  <2> DEFINE h == [s \in Small(n + 1) |-> IF s \in Small(n) THEN g[s] ELSE w[One(s)] + g[s \ {One(s)}]]
  <2>3. \A s \in Small(n + 1) : s \notin Small(n) => s # {}
    BY <1>1
  <2> HIDE DEF Small, N
  <2>4. ASSUME NEW s \in Small(n + 1) PROVE h[s] \in Nat
    <3>1. CASE s \in Small(n)
      BY <2>1, <3>1
    <3>2. CASE s \notin Small(n)
      <4>1. w[One(s)] \in Nat /\ g[s \ {One(s)}] \in Nat
        BY <1>2, <2>1, <2>3, <3>2 DEF N
      <4> QED BY <3>2, <4>1
    <3> QED BY <3>1, <3>2
  <2>5. ASSUME NEW s \in Small(n + 1) PROVE h[s] = IF s = {} THEN 0 ELSE w[One(s)] + h[s \ {One(s)}]
    <3>1. s # {} => s \ {One(s)} \in Small(n)
      BY <1>2 DEF N
    <3>2. s # {} => h[s \ {One(s)}] = g[s \ {One(s)}]
      BY <2>2, <3>1
    <3>3. CASE s \in Small(n)
      BY <2>1, <3>2, <3>3
    <3>4. CASE s \notin Small(n)
      BY <2>3, <3>2, <3>4
    <3> QED BY <3>3, <3>4
  <2>6. h \in [Small(n + 1) -> Nat]
    BY <2>4
  <2> HIDE DEF h
  <2>7. Good(n + 1, h)
    BY <2>5, <2>6
  <2>8. n + 1 \in Nat
    BY DEF N
  <2> HIDE DEF Good
  <2> QED BY <2>7, <2>8 DEF N
<1>5. N = Nat
  <2>1. N \in SUBSET Nat
    OBVIOUS
  <2> HIDE DEF N
  <2> QED BY <1>3, <1>4, <2>1, InductionOnSet
<1>6. Cardinality(S) \in Nat
  BY FS_CardinalityType
<1>7. PICK h : Good(Cardinality(S), h)
  <2>1. Cardinality(S) \in N
    <3> HIDE DEF N
    <3> QED BY <1>5, <1>6
  <2> QED BY <2>1
<1>8. Small(Cardinality(S)) = SUBSET S
  BY <1>1, FS_Subset
<1>9. SumEquation(w, S, h)
  <2> HIDE DEF Small
  <2> QED BY <1>7, <1>8 DEF SumEquation
<1> QED BY <1>9

\* A sum of natural numbers is one.
LEMMA SumIsNat ==
  ASSUME NEW S, IsFiniteSet(S), NEW w \in [S -> Nat], NEW h, SumEquation(w, S, h)
  PROVE  \A s \in SUBSET S : h[s] \in Nat
<1> DEFINE P == {s \in SUBSET S : h[s] \in Nat}
<1>0. h[{}] = 0 /\ \A s \in SUBSET S : s # {} => One(s) \in s /\ h[s] = w[One(s)] + h[s \ {One(s)}]
  BY SumUnfolds
<1>1. {} \in P
  BY <1>0
<1>2. ASSUME NEW s \in SUBSET S, s # {}, s \ {One(s)} \in P PROVE s \in P
  <2>1. One(s) \in s /\ h[s] = w[One(s)] + h[s \ {One(s)}]
    BY <1>0, <1>2
  <2>2. w[One(s)] \in Nat /\ h[s \ {One(s)}] \in Nat
    BY <1>2, <2>1
  <2> QED BY <2>1, <2>2
<1>3. P \in SUBSET (SUBSET S)
  OBVIOUS
<1>4. \A s \in SUBSET S : s \in P
  <2> HIDE DEF P
  <2> QED BY <1>1, <1>2, <1>3, SubsetInduction
<1> QED BY <1>4

\* A sum of zeros is zero.
LEMMA SumOfZeros ==
  ASSUME NEW S, IsFiniteSet(S), NEW w, \A x \in S : w[x] = 0, NEW h, SumEquation(w, S, h)
  PROVE  \A s \in SUBSET S : h[s] = 0
<1> DEFINE P == {s \in SUBSET S : h[s] = 0}
<1>1. {} \in P
  BY SumUnfolds
<1>2. ASSUME NEW s \in SUBSET S, s # {}, s \ {One(s)} \in P PROVE s \in P
  <2>1. One(s) \in s /\ h[s] = w[One(s)] + h[s \ {One(s)}]
    BY <1>2, SumUnfolds
  <2>2. w[One(s)] = 0 /\ h[s \ {One(s)}] = 0
    BY <1>2, <2>1
  <2> QED BY <2>1, <2>2
<1>3. P \in SUBSET (SUBSET S)
  OBVIOUS
<1>4. \A s \in SUBSET S : s \in P
  <2> HIDE DEF P
  <2> QED BY <1>1, <1>2, <1>3, SubsetInduction
<1> QED BY <1>4

\* A weight that grows by d makes the sums over its element grow by d.
LEMMA SumMoves ==
  ASSUME NEW S, IsFiniteSet(S), NEW w \in [S -> Nat], NEW h, SumEquation(w, S, h),
         NEW v \in [S -> Nat], NEW g, SumEquation(v, S, g),
         NEW i \in S, NEW d \in Nat, v[i] = w[i] + d, \A x \in S : x # i => v[x] = w[x]
  PROVE  \A s \in SUBSET S : g[s] = h[s] + (IF i \in s THEN d ELSE 0)
<1> DEFINE P == {s \in SUBSET S : g[s] = h[s] + (IF i \in s THEN d ELSE 0)}
<1>0. \A s \in SUBSET S : h[s] \in Nat /\ g[s] \in Nat
  BY SumIsNat
<1>1. {} \in P
  BY SumUnfolds
<1>2. ASSUME NEW s \in SUBSET S, s # {}, s \ {One(s)} \in P PROVE s \in P
  <2> DEFINE x == One(s)
             t == s \ {x}
  <2>1. x \in s /\ h[s] = w[x] + h[t] /\ g[s] = v[x] + g[t]
    BY <1>2, SumUnfolds
  <2>2. g[t] = h[t] + (IF i \in t THEN d ELSE 0) /\ t \in SUBSET S
    BY <1>2
  <2>3. h[t] \in Nat /\ g[t] \in Nat /\ w[x] \in Nat /\ v[x] \in Nat /\ x \in S
    BY <1>0, <2>1, <2>2
  <2>4. i \in t <=> (i \in s /\ i # x)
    OBVIOUS
  <2> HIDE DEF x, t
  <2>5. g[s] = h[s] + (IF i \in s THEN d ELSE 0)
    <3>1. CASE i = x
      <4>1. v[x] = w[x] + d /\ g[t] = h[t] /\ i \in s
        BY <2>1, <2>2, <2>3, <2>4, <3>1
      <4> QED BY <2>1, <2>3, <4>1
    <3>2. CASE i # x
      <4>1. v[x] = w[x]
        BY <2>3, <3>2
      <4> QED BY <2>1, <2>2, <2>3, <2>4, <3>2, <4>1
    <3> QED BY <3>1, <3>2
  <2> QED BY <2>5
<1>3. P \in SUBSET (SUBSET S)
  OBVIOUS
<1>4. \A s \in SUBSET S : s \in P
  <2> HIDE DEF P
  <2> QED BY <1>1, <1>2, <1>3, SubsetInduction
<1> QED BY <1>4

-----------------------------------------------------------------------------
(* Downloads *)
=============================================================================
