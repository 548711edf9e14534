------------------------------ MODULE OrderLemmas ------------------------------
(***************************************************************************)
(* Least and greatest elements, for the proofs about components that look  *)
(* for the first or the last of some telemetry.                            *)
(***************************************************************************)
EXTENDS Integers, FiniteSetTheorems, WellFoundedInduction, TLAPS

\* A set of naturals has a least element.
LEMMA LeastNatural ==
  ASSUME NEW T \in SUBSET Nat, T # {}
  PROVE  \E x \in T : \A y \in T : x <= y
<1> DEFINE less == {ss \in Nat \X Nat : ss[1] < ss[2]}
<1>1. IsWellFoundedOn(less, Nat)
  BY NatLessThanWellFounded DEF OpToRel
<1> HIDE DEF less
<1>2. PICK x \in T : \A y \in T : ~(<<y, x>> \in less)
  BY <1>1, WFMin
<1>3. \A y \in T : ~(y < x)
  BY <1>2 DEF less
<1> QED BY <1>3

\* Of things that are measured by naturals one has the least measure.
LEMMA LeastBy ==
  ASSUME NEW S, S # {}, NEW m, \A x \in S : m[x] \in Nat
  PROVE  \E x \in S : \A y \in S : m[x] <= m[y]
<1> DEFINE T == {m[x] : x \in S}
<1>1. T \in SUBSET Nat /\ T # {}
  OBVIOUS
<1>2. PICK n \in T : \A k \in T : n <= k
  <2> HIDE DEF T
  <2> QED BY <1>1, LeastNatural
<1>3. PICK x \in S : m[x] = n
  OBVIOUS
<1>4. \A y \in S : m[x] <= m[y]
  BY <1>2, <1>3
<1> QED BY <1>4

\* Of finitely many things that are measured by naturals one has the greatest
\* measure: a set without would have a smaller one without, and so on.
LEMMA GreatestBy ==
  ASSUME NEW S, S # {}, IsFiniteSet(S), NEW m, \A x \in S : m[x] \in Nat
  PROVE  \E x \in S : \A y \in S : m[y] <= m[x]
<1> DEFINE Top(T) == \E x \in T : \A y \in T : m[y] <= m[x]
           Bad == {T \in SUBSET S : T # {} /\ ~Top(T)}
           size == [T \in SUBSET S |-> Cardinality(T)]
<1>1. \A T \in SUBSET S : IsFiniteSet(T) /\ size[T] = Cardinality(T) /\ size[T] \in Nat
  BY FS_Subset, FS_CardinalityType
<1>2. ASSUME Bad # {} PROVE FALSE
  <2>1. \A T \in Bad : size[T] \in Nat
    BY <1>1
  <2>2. PICK T \in Bad : \A U \in Bad : size[T] <= size[U]
    <3> HIDE DEF Bad, size
    <3> QED BY <1>2, <2>1, LeastBy
  <2>3. PICK x \in T : TRUE
    OBVIOUS
  <2> DEFINE U == T \ {x}
  <2>4. U \in SUBSET S /\ IsFiniteSet(T) /\ T \in SUBSET S
    BY <1>1
  <2>5. Cardinality(U) = Cardinality(T) - 1
    BY <2>3, <2>4, FS_RemoveElement
  <2>6. size[U] < size[T]
    <3> HIDE DEF U, size
    <3>1. size[U] = Cardinality(U) /\ size[T] = Cardinality(T) /\ size[T] \in Nat
      BY <1>1, <2>4
    <3> QED BY <2>5, <3>1
  <2>7. U \notin Bad
    <3>1. ASSUME U \in Bad PROVE FALSE
      <4>1. size[T] <= size[U] /\ size[T] \in Nat /\ size[U] \in Nat
        BY <1>1, <2>2, <2>4, <3>1
      <4> HIDE DEF size
      <4> QED BY <2>6, <4>1
    <3> QED BY <3>1
  <2>8. m[x] \in Nat /\ \A y \in T : m[y] \in Nat
    BY <2>3, <2>4
  <2>9. CASE U = {}
    <3>1. \A y \in T : m[y] <= m[x]
      BY <2>8, <2>9
    <3> QED BY <2>3, <3>1
  <2>10. CASE U # {}
    <3>1. PICK z \in U : \A y \in U : m[y] <= m[z]
      BY <2>4, <2>7, <2>10
    <3>2. CASE m[x] <= m[z]
      BY <2>8, <3>1, <3>2
    <3>3. CASE m[z] < m[x]
      <4>1. \A y \in T : m[y] <= m[x]
        BY <2>8, <3>1, <3>3
      <4> QED BY <2>3, <4>1
    <3> QED BY <2>8, <3>1, <3>2, <3>3
  <2> QED BY <2>9, <2>10
<1>3. S \notin Bad
  BY <1>2
<1> QED BY <1>3
=============================================================================
