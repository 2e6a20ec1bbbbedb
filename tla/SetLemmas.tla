------------------------------ MODULE SetLemmas ------------------------------
(***************************************************************************)
(* Facts about finite sets of integers that several proofs need: there is  *)
(* a greatest and a least element, which are what Max and Min choose.      *)
(***************************************************************************)
EXTENDS Integers, FiniteSets, FiniteSetsExt, FiniteSetTheorems, WellFoundedInduction, TLAPS

\* A finite set of integers has a greatest element.
LEMMA HasGreatest ==
    ASSUME NEW S \in SUBSET Int, IsFiniteSet(S), S # {}
    PROVE  \E m \in S : \A v \in S : v <= m
<1> DEFINE Above(w) == {v \in S : v > w}
           F == {Above(w) : w \in S}
           R == StrictSubsetOrdering(S)
<1>1. F \subseteq FiniteSubsetsOf(S) /\ F # {}
  <2>1. ASSUME NEW w \in S PROVE Above(w) \in SUBSET S /\ IsFiniteSet(Above(w))
      BY FS_Subset
  <2> QED
      BY <2>1 DEF FiniteSubsetsOf
<1>2. PICK x \in F : \A y \in F : ~(<<y, x>> \in R)
  <2> HIDE DEF F, R
  <2>1. IsWellFoundedOn(R, FiniteSubsetsOf(S))
      BY FS_StrictSubsetOrderingWellFounded DEF R
  <2> QED
      BY <1>1, <2>1, WFMin
<1>3. PICK m \in S : x = Above(m)
    OBVIOUS
<1>4. ASSUME NEW v \in S, v > m PROVE FALSE
  <2>1. \A u \in S : u \in Int
      OBVIOUS
  <2>2. Above(v) \subseteq Above(m) /\ v \in Above(m) /\ v \notin Above(v)
    <3>1. ASSUME NEW u \in S, u > v PROVE u > m
        BY <1>4, <2>1, <3>1
    <3>2. ~(v > v)
        BY <2>1
    <3> QED
        BY <1>4, <3>1, <3>2
  <2>3. Above(v) \subseteq S /\ Above(m) \subseteq S
      OBVIOUS
  <2>4. <<Above(v), Above(m)>> \in R
    <3> HIDE DEF Above
    <3> QED
        BY <2>2, <2>3 DEF StrictSubsetOrdering
  <2> QED
      BY <1>2, <1>3, <2>4
<1> QED
    BY <1>4

\* And a least one.
LEMMA HasLeast ==
    ASSUME NEW S \in SUBSET Int, IsFiniteSet(S), S # {}
    PROVE  \E m \in S : \A v \in S : m <= v
<1> DEFINE Below(w) == {v \in S : v < w}
           F == {Below(w) : w \in S}
           R == StrictSubsetOrdering(S)
<1>1. F \subseteq FiniteSubsetsOf(S) /\ F # {}
  <2>1. ASSUME NEW w \in S PROVE Below(w) \in SUBSET S /\ IsFiniteSet(Below(w))
      BY FS_Subset
  <2> QED
      BY <2>1 DEF FiniteSubsetsOf
<1>2. PICK x \in F : \A y \in F : ~(<<y, x>> \in R)
  <2> HIDE DEF F, R
  <2>1. IsWellFoundedOn(R, FiniteSubsetsOf(S))
      BY FS_StrictSubsetOrderingWellFounded DEF R
  <2> QED
      BY <1>1, <2>1, WFMin
<1>3. PICK m \in S : x = Below(m)
    OBVIOUS
<1>4. ASSUME NEW v \in S, v < m PROVE FALSE
  <2>1. \A u \in S : u \in Int
      OBVIOUS
  <2>2. Below(v) \subseteq Below(m) /\ v \in Below(m) /\ v \notin Below(v)
    <3>1. ASSUME NEW u \in S, u < v PROVE u < m
        BY <1>4, <2>1, <3>1
    <3>2. ~(v < v)
        BY <2>1
    <3> QED
        BY <1>4, <3>1, <3>2
  <2>3. Below(v) \subseteq S /\ Below(m) \subseteq S
      OBVIOUS
  <2>4. <<Below(v), Below(m)>> \in R
    <3> HIDE DEF Below
    <3> QED
        BY <2>2, <2>3 DEF StrictSubsetOrdering
  <2> QED
      BY <1>2, <1>3, <2>4
<1> QED
    BY <1>4

\* Max and Min of the community modules choose these.
LEMMA MaxIsGreatest ==
    ASSUME NEW S \in SUBSET Int, IsFiniteSet(S), S # {}
    PROVE  Max(S) \in S /\ \A v \in S : v <= Max(S)
<1>1. \E m \in S : \A v \in S : m >= v
    BY HasGreatest
<1> QED
    BY <1>1 DEF Max

\* The minimum of a finite set of integers is its least element.
LEMMA MinIsLeast ==
    ASSUME NEW S \in SUBSET Int, IsFiniteSet(S), S # {}
    PROVE  Min(S) \in S /\ \A v \in S : Min(S) <= v
BY HasLeast DEF Min

\* Of two integers.
LEMMA MaxOfTwo ==
    ASSUME NEW a \in Int, NEW b \in Int
    PROVE  Max({a, b}) \in {a, b} /\ a <= Max({a, b}) /\ b <= Max({a, b})
<1>1. IsFiniteSet({a} \cup {b})
    BY FS_Singleton, FS_AddElement
<1>2. {a, b} = {a} \cup {b}
    OBVIOUS
<1>3. Max({a, b}) \in {a, b} /\ \A v \in {a, b} : v <= Max({a, b})
    BY <1>1, <1>2, MaxIsGreatest, {a, b} \in SUBSET Int, {a, b} # {}
<1> QED
    BY <1>3

\* An element splits a finite set of integers in three.
LEMMA AroundElement ==
    ASSUME NEW S \in SUBSET Int, IsFiniteSet(S), NEW w \in S
    PROVE  /\ Cardinality({v \in S : v > w}) \in Nat /\ Cardinality({v \in S : v < w}) \in Nat
           /\ Cardinality(S) = Cardinality({v \in S : v < w}) + 1 + Cardinality({v \in S : v > w})
<1> DEFINE Above == {v \in S : v > w}
           Below == {v \in S : v < w}
           Rest == Below \cup {w}
<1>1. IsFiniteSet(Above) /\ IsFiniteSet(Below)
    BY FS_Subset
<1>2. \A v \in S : v \in Int
    OBVIOUS
<1>3. w \notin Below /\ Above \cap Rest = {} /\ S = Above \cup Rest
  <2>1. \A v \in S : ~(v > w /\ v < w) /\ (v > w \/ v < w \/ v = w)
      BY <1>2
  <2>2. ~(w < w) /\ ~(w > w)
      BY <1>2
  <2> QED
      BY <2>1, <2>2
<1> HIDE DEF Above, Below
<1>4. IsFiniteSet(Rest) /\ Cardinality(Rest) = Cardinality(Below) + 1
    BY <1>1, <1>3, FS_AddElement
<1>5. Cardinality(Above) \in Nat /\ Cardinality(Below) \in Nat
    BY <1>1, FS_CardinalityType
<1>6. Cardinality(Above \cup Rest) = Cardinality(Above) + Cardinality(Rest) - Cardinality(Above \cap Rest)
  <2> HIDE DEF Rest
  <2> QED
      BY <1>1, <1>4, FS_Union
<1>7. Cardinality(Above \cap Rest) = 0
    BY <1>3, FS_EmptySet
<1>8. Cardinality(S) = Cardinality(Below) + 1 + Cardinality(Above)
    BY <1>3, <1>4, <1>5, <1>6, <1>7
<1> QED
    BY <1>5, <1>8 DEF Above, Below
=============================================================================
