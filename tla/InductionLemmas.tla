-------------------------- MODULE InductionLemmas --------------------------
(* Induction over the natural numbers and over finite sets, for the proofs   *)
(* about recursive functions, folds and sequences, from the                  *)
(* well-foundedness of the strict subset order on finite sets.               *)
EXTENDS FiniteSetTheorems, TLAPS

\* A set of numbers has a least one.  The subsets of a set are well founded,
\* and the numbers up to a bound are such a subset.
LEMMA LeastNumber ==
    ASSUME NEW T, T \subseteq Nat, T # {}
    PROVE  \E m \in T : \A k \in T : m <= k
<1> DEFINE Below == {0 .. n : n \in T}
<1>1. Below \subseteq FiniteSubsetsOf(Nat) /\ Below # {}
  <2>1. \A n \in T : 0 .. n \subseteq Nat /\ IsFiniteSet(0 .. n)
    BY FS_Interval
  <2> QED
    BY <2>1 DEF FiniteSubsetsOf
<1>2. PICK x \in Below : \A y \in Below : ~ (<<y, x>> \in StrictSubsetOrdering(Nat))
  <2> HIDE DEF Below
  <2> QED
    BY <1>1, WFMin, FS_StrictSubsetOrderingWellFounded
<1>3. PICK m \in T : x = 0 .. m
  OBVIOUS
<1>4. ASSUME NEW k \in T PROVE m <= k
  <2>1. SUFFICES ASSUME k < m PROVE FALSE
    OBVIOUS
  <2>2. 0 .. k \in Below
    OBVIOUS
  <2>3. 0 .. k \subseteq 0 .. m /\ 0 .. k # 0 .. m /\ 0 .. m \subseteq Nat /\ 0 .. k \subseteq Nat
    <3>1. m \in 0 .. m /\ m \notin 0 .. k
      BY <2>1
    <3> QED
      BY <2>1, <3>1
  <2>4. <<0 .. k, 0 .. m>> \in StrictSubsetOrdering(Nat)
    BY <2>3 DEF StrictSubsetOrdering
  <2> QED
    BY <1>2, <1>3, <2>2, <2>4
<1> QED
  BY <1>4

\* What holds at 0 and is handed on by every number below N holds up to N.
LEMMA Induction ==
    ASSUME NEW N \in Nat, NEW Holds, 0 \in Holds,
           \A n \in 0 .. N : n \in Holds /\ n < N => n + 1 \in Holds
    PROVE  \A n \in 0 .. N : n \in Holds
<1> DEFINE Fails == {n \in 0 .. N : n \notin Holds}
<1>1. SUFFICES ASSUME Fails # {} PROVE FALSE
  OBVIOUS
<1>2. PICK m \in Fails : \A k \in Fails : m <= k
  <2>1. Fails \subseteq Nat
    OBVIOUS
  <2> HIDE DEF Fails
  <2> QED
    BY <1>1, <2>1, LeastNumber
<1>3. m - 1 \in 0 .. N /\ m - 1 \notin Fails /\ m - 1 < N
  BY <1>2
<1> QED
  BY <1>2, <1>3

\* The same from 1, and downwards from N.
LEMMA InductionUp ==
    ASSUME NEW N \in Nat, NEW Holds, N >= 1 => 1 \in Holds,
           \A n \in 1 .. N : n \in Holds /\ n < N => n + 1 \in Holds
    PROVE  \A n \in 1 .. N : n \in Holds
<1> DEFINE Fails == {n \in 1 .. N : n \notin Holds}
<1>1. SUFFICES ASSUME Fails # {} PROVE FALSE
  OBVIOUS
<1>2. PICK m \in Fails : \A k \in Fails : m <= k
  <2>1. Fails \subseteq Nat
    OBVIOUS
  <2> HIDE DEF Fails
  <2> QED
    BY <1>1, <2>1, LeastNumber
<1>3. m - 1 \in 1 .. N /\ m - 1 \notin Fails /\ m - 1 < N
  BY <1>2
<1> QED
  BY <1>2, <1>3

LEMMA InductionDown ==
    ASSUME NEW N \in Nat, NEW Holds, N >= 1 => N \in Holds,
           \A n \in 1 .. N : n + 1 \in Holds /\ n < N => n \in Holds
    PROVE  \A n \in 1 .. N : n \in Holds
<1> DEFINE Fails == {n \in 1 .. N : N + 1 - n \notin Holds}
<1>0. \A n \in 1 .. N : N + 1 - n \in 1 .. N /\ N + 1 - (N + 1 - n) = n
  OBVIOUS
<1>1. SUFFICES ASSUME Fails # {} PROVE FALSE
  BY <1>0
<1>2. PICK m \in Fails : \A k \in Fails : m <= k
  <2>1. Fails \subseteq Nat
    OBVIOUS
  <2> HIDE DEF Fails
  <2> QED
    BY <1>1, <2>1, LeastNumber
<1>3. m # 1
  <2>1. m = 1 => N + 1 - m = N
    OBVIOUS
  <2> QED
    BY <2>1
<1>4. m - 1 \in 1 .. N /\ m - 1 \notin Fails
  BY <1>2, <1>3
<1>5. N + 1 - (m - 1) \in Holds /\ N + 1 - (m - 1) = (N + 1 - m) + 1 /\ N + 1 - m \in 1 .. N
      /\ N + 1 - m < N
  BY <1>3, <1>4
<1> QED
  BY <1>5

\* A sequence that increases within its own positions is the identity.
LEMMA IncreasingIsIdentity ==
    ASSUME NEW N \in Nat, NEW g \in [1 .. N -> 1 .. N],
           \A i, j \in 1 .. N : i < j => g[i] < g[j]
    PROVE  \A i \in 1 .. N : g[i] = i
<1> DEFINE High == {i \in 1 .. N : g[i] >= i}
           Low == {i \in 1 .. N : g[i] <= i}
<1>1. \A i \in 1 .. N : i \in High
  <2>1. N >= 1 => 1 \in High
    OBVIOUS
  <2>2. ASSUME NEW i \in 1 .. N, i \in High, i < N PROVE i + 1 \in High
    <3>1. i + 1 \in 1 .. N /\ g[i] < g[i + 1]
      BY <2>2
    <3> QED
      BY <2>2, <3>1
  <2> HIDE DEF High
  <2> QED
    BY <2>1, <2>2, InductionUp
<1>2. \A i \in 1 .. N : i \in Low
  <2>1. N >= 1 => N \in Low
    OBVIOUS
  <2>2. ASSUME NEW i \in 1 .. N, i + 1 \in Low, i < N PROVE i \in Low
    <3>1. i + 1 \in 1 .. N /\ g[i] < g[i + 1]
      BY <2>2
    <3> QED
      BY <2>2, <3>1
  <2> HIDE DEF Low
  <2> QED
    BY <2>1, <2>2, InductionDown
<1> QED
  BY <1>1, <1>2

-----------------------------------------------------------------------------
(* Induction over finite sets, and what a fold over one is.                  *)

\* What holds of {} and of every set that it holds of without some member
\* holds of a finite set.
LEMMA SetInduction ==
    ASSUME NEW X, IsFiniteSet(X), NEW Holds, {} \in Holds,
           \A s \in SUBSET X : s # {} /\ (\A x \in s : s \ {x} \in Holds) => s \in Holds
    PROVE  X \in Holds
<1> DEFINE Fails == {s \in SUBSET X : s \notin Holds}
<1>1. SUFFICES ASSUME Fails # {} PROVE FALSE
  OBVIOUS
<1>2. Fails \subseteq FiniteSubsetsOf(X)
  BY FS_Subset DEF FiniteSubsetsOf
<1>3. PICK m \in Fails : \A s \in Fails : ~ (<<s, m>> \in StrictSubsetOrdering(X))
  <2> HIDE DEF Fails
  <2> QED
    BY <1>1, <1>2, WFMin, FS_StrictSubsetOrderingWellFounded
<1>4. PICK x \in m : m \ {x} \notin Holds
  BY <1>3
<1>5. m \ {x} \in Fails /\ m \subseteq X /\ m \ {x} \subseteq m /\ m \ {x} # m
  BY <1>3, <1>4
<1>6. <<m \ {x}, m>> \in StrictSubsetOrdering(X)
  BY <1>5 DEF StrictSubsetOrdering
<1> QED
  BY <1>3, <1>5, <1>6

IsFold(f, X, base, step, pick) ==
  \A s \in SUBSET X :
     f[s] = IF s = {} THEN base ELSE step[<<pick[s], f[s \ {pick[s]}]>>]

\* The fold of step over the subsets of a finite set: it exists, because the
\* members are taken out one by one.
LEMMA FoldExists ==
    ASSUME NEW X, IsFiniteSet(X), NEW Z, NEW base \in Z,
           NEW step \in [X \X Z -> Z], NEW pick,
           \A s \in SUBSET X : s # {} => pick[s] \in s
    PROVE  \E f \in [SUBSET X -> Z] : IsFold(f, X, base, step, pick)
<1> DEFINE Upto(n) == {s \in SUBSET X : Cardinality(s) <= n}
           Folds(n, f) == \A s \in Upto(n) :
              f[s] = IF s = {} THEN base ELSE step[<<pick[s], f[s \ {pick[s]}]>>]
           Holds == {n \in Nat : \E f \in [Upto(n) -> Z] : Folds(n, f)}
<1>0. /\ Cardinality(X) \in Nat
      /\ \A s \in SUBSET X : IsFiniteSet(s) /\ Cardinality(s) \in Nat
                             /\ Cardinality(s) <= Cardinality(X)
  BY FS_Subset, FS_CardinalityType
<1>1. 0 \in Holds
  <2> DEFINE f == [s \in Upto(0) |-> base]
  <2>1. \A s \in Upto(0) : s = {}
    BY <1>0, FS_EmptySet
  <2>2. f \in [Upto(0) -> Z] /\ Folds(0, f)
    BY <2>1
  <2> QED
    BY <2>2
<1>2. ASSUME NEW n \in 0 .. Cardinality(X), n \in Holds, n < Cardinality(X)
      PROVE  n + 1 \in Holds
  <2>1. PICK f \in [Upto(n) -> Z] : Folds(n, f)
    BY <1>2
  <2> DEFINE g == [s \in Upto(n + 1) |->
                     IF s \in Upto(n) THEN f[s]
                     ELSE step[<<pick[s], f[s \ {pick[s]}]>>]]
  <2>2. ASSUME NEW s \in Upto(n + 1), s # {}
        PROVE  s \ {pick[s]} \in Upto(n) /\ pick[s] \in X
    <3>1. pick[s] \in s /\ s \subseteq X /\ IsFiniteSet(s) /\ Cardinality(s) \in Nat
      BY <1>0, <2>2
    <3>2. Cardinality(s \ {pick[s]}) = Cardinality(s) - 1
      BY <3>1, FS_RemoveElement
    <3> QED
      BY <1>2, <2>2, <3>1, <3>2
  <2>3. {} \in Upto(n)
    BY <1>2, FS_EmptySet
  <2>4. Upto(n) \subseteq Upto(n + 1)
    <3>1. \A s \in Upto(n) : Cardinality(s) \in Nat
      BY <1>0
    <3> QED
      BY <1>2, <3>1
  <2>5. ASSUME NEW s \in Upto(n + 1)
        PROVE  /\ g[s] \in Z
               /\ g[s] = IF s = {} THEN base ELSE step[<<pick[s], g[s \ {pick[s]}]>>]
    <3>1. CASE s = {}
      <4>1. g[s] = f[s] /\ f[s] = base
        BY <2>1, <2>3, <3>1
      <4> QED
        BY <3>1, <4>1
    <3>2. CASE s # {}
      <4>1. s \ {pick[s]} \in Upto(n) /\ s \ {pick[s]} \in Upto(n + 1) /\ pick[s] \in X
        BY <2>2, <2>4, <3>2
      <4>2. g[s \ {pick[s]}] = f[s \ {pick[s]}] /\ f[s \ {pick[s]}] \in Z
        BY <2>1, <4>1
      <4>3. g[s] = step[<<pick[s], f[s \ {pick[s]}]>>]
        <5>1. CASE s \in Upto(n)
          <6>1. f[s] = step[<<pick[s], f[s \ {pick[s]}]>>]
            BY <2>1, <3>2, <5>1
          <6> QED
            BY <5>1, <6>1
        <5>2. CASE s \notin Upto(n)
          BY <5>2
        <5> QED
          BY <5>1, <5>2
      <4> QED
        BY <3>2, <4>1, <4>2, <4>3
    <3> QED
      BY <3>1, <3>2
  <2>6. g \in [Upto(n + 1) -> Z]
    BY <2>5
  <2>7. Folds(n + 1, g)
    BY <2>5
  <2> HIDE DEF g, Folds, Upto
  <2> QED
    BY <1>2, <2>6, <2>7
<1>3. Cardinality(X) \in Holds
  <2>1. \A n \in 0 .. Cardinality(X) : n \in Holds /\ n < Cardinality(X) => n + 1 \in Holds
    BY <1>2
  <2> HIDE DEF Holds
  <2> QED
    BY <1>0, <1>1, <2>1, Induction
<1>4. Upto(Cardinality(X)) = SUBSET X
  BY <1>0
<1> QED
  BY <1>3, <1>4 DEF IsFold
=============================================================================
