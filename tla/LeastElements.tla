---------------------------- MODULE LeastElements ----------------------------
(***************************************************************************)
(* Least and greatest elements of sets of numbers, by way of the           *)
(* well-founded order of finite sets: what CHOOSE returns in the           *)
(* operators that take the oldest, newest or first of a set.               *)
(***************************************************************************)
EXTENDS Integers, FiniteSetTheorems, TLAPS

\* A set of numbers up to a bound has a least element.
LEMMA LeastExists ==
    ASSUME NEW N \in Nat, NEW S \in SUBSET (1..N), S # {}
    PROVE  \E e \in S : \A f \in S : e <= f
<1> DEFINE Below == {1..e : e \in S}
<1>1. \A e \in S : 1..e \in FiniteSubsetsOf(1..N)
  <2>1. \A e \in S : e \in Int /\ 1..e \in SUBSET (1..N)
    OBVIOUS
  <2>2. \A e \in S : IsFiniteSet(1..e)
    BY <2>1, FS_Interval
  <2>3. QED
    BY <2>1, <2>2 DEF FiniteSubsetsOf
<1>2. \E x \in Below : \A y \in Below : <<y, x>> \notin StrictSubsetOrdering(1..N)
  <2>1. Below # {} /\ Below \subseteq FiniteSubsetsOf(1..N)
    BY <1>1
  <2> HIDE DEF Below
  <2>2. QED
    BY <2>1, FS_StrictSubsetOrderingWellFounded, WFMin
<1>3. PICK e \in S : \A f \in S : <<1..f, 1..e>> \notin StrictSubsetOrdering(1..N)
  BY <1>2
<1>4. ASSUME NEW f \in S, f < e PROVE FALSE
  <2>1. 1..f \in SUBSET (1..N) /\ 1..e \in SUBSET (1..N)
    BY <1>1 DEF FiniteSubsetsOf
  <2>2. (1..f) \subseteq (1..e) /\ e \in 1..e /\ e \notin 1..f
    BY <1>4
  <2>3. <<1..f, 1..e>> \in StrictSubsetOrdering(1..N)
    BY <2>1, <2>2, Zenon DEF StrictSubsetOrdering
  <2>4. QED
    BY <1>3, <2>3
<1>5. QED
  BY <1>4

\* A set of numbers up to a bound has a greatest element.
LEMMA GreatestExists ==
    ASSUME NEW N \in Nat, NEW S \in SUBSET (1..N), S # {}
    PROVE  \E e \in S : \A f \in S : f <= e
<1> DEFINE Mirror == {N + 1 - e : e \in S}
<1>1. Mirror \in SUBSET (1..N) /\ Mirror # {}
  <2>1. \A f \in S : N + 1 - f \in 1..N
    OBVIOUS
  <2>2. QED
    BY <2>1
<1>2. \A f \in S : N + 1 - f \in Mirror
  OBVIOUS
<1>3. \E m \in Mirror : \A k \in Mirror : m <= k
  <2> HIDE DEF Mirror
  <2> QED
    BY <1>1, LeastExists
<1>4. PICK e \in S : \A k \in Mirror : N + 1 - e <= k
  BY <1>3
<1>5. ASSUME NEW f \in S PROVE f <= e
  <2>1. N + 1 - e <= N + 1 - f
    BY <1>2, <1>4
  <2>2. e \in 1..N /\ f \in 1..N
    OBVIOUS
  <2>3. QED
    BY <2>1, <2>2
<1>6. QED
  BY <1>5

\* Any set of positive numbers has a least element.
LEMMA LeastOfPositive ==
    ASSUME NEW S \in SUBSET (Nat \ {0}), S # {}
    PROVE  \E e \in S : \A f \in S : e <= f
<1>1. PICK n \in S : TRUE
  OBVIOUS
<1>2. n \in Nat /\ S \cap (1..n) \in SUBSET (1..n) /\ S \cap (1..n) # {}
  BY <1>1
<1>3. PICK e \in S \cap (1..n) : \A f \in S \cap (1..n) : e <= f
  BY <1>2, LeastExists
<1>4. \A f \in S : f \in 1..n \/ n < f
  BY <1>2
<1>5. QED
  BY <1>2, <1>3, <1>4
=============================================================================
