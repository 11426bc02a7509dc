---------------------------- MODULE NaturalFacts ----------------------------
(***************************************************************************)
(* Greatest and least elements of sets of naturals, for the ids and loops  *)
(* of the other proofs.                                                    *)
(***************************************************************************)
EXTENDS Naturals, FiniteSets, FiniteSetsExt, TLAPS, FiniteSetTheorems, WellFoundedInduction

\* A set of naturals that has a bound has a greatest element, and Max finds it:
\* the largest rowid SQLite looks up before an insert.
LEMMA MaxIsMax ==
    ASSUME NEW S \in SUBSET Nat, S # {}, NEW n \in Nat, \A i \in S : i <= n
    PROVE  /\ Max(S) \in S
           /\ \A i \in S : i <= Max(S)
<1> DEFINE Bounds == {b \in Nat : \A i \in S : i <= b}
<1>1. Bounds \subseteq Nat /\ Bounds # {}
  OBVIOUS
<1>2. PICK b \in Bounds : \A y \in Bounds : ~(<<y, b>> \in OpToRel(<, Nat))
  BY <1>1, WFMin, NatLessThanWellFounded
<1> DEFINE Below == {ss \in Nat \X Nat : ss[1] < ss[2]}
<1>0. OpToRel(<, Nat) = Below
  BY Zenon DEF OpToRel
<1>a. \A y \in Bounds : ~(<<y, b>> \in Below)
  BY <1>2, <1>0, Zenon
<1>b. \A y \in Nat : y < b => <<y, b>> \in Below
  OBVIOUS
<1>3. \A y \in Bounds : b <= y
  <2>1. SUFFICES ASSUME NEW y \in Bounds PROVE b <= y
    OBVIOUS
  <2>2. y \in Nat /\ b \in Nat
    OBVIOUS
  <2> HIDE DEF Below, Bounds
  <2>3. ~(y < b)
    BY <1>a, <1>b, <2>2
  <2> QED BY <2>2, <2>3
<1>4. b \in S
  <2>1. SUFFICES ASSUME b \notin S PROVE FALSE
    OBVIOUS
  <2>2. PICK i \in S : TRUE
    OBVIOUS
  <2>3. b # 0
    BY <2>1, <2>2
  <2>4. b - 1 \in Bounds
    BY <2>1, <2>3
  <2> QED BY <2>4, <1>3
<1>5. \E x \in S : \A y \in S : x >= y
  BY <1>4
<1> QED BY <1>5 DEF Max

\* Min finds an element of any set of naturals: the next path or memory of a loop.
LEMMA MinIsLeast ==
    ASSUME NEW S \in SUBSET Nat, S # {}
    PROVE  Min(S) \in S /\ \A y \in S : Min(S) =< y
<1> DEFINE Below == {ss \in Nat \X Nat : ss[1] < ss[2]}
<1>1. OpToRel(<, Nat) = Below
  BY Zenon DEF OpToRel
<1>2. PICK b \in S : \A y \in S : ~(<<y, b>> \in Below)
  BY <1>1, WFMin, NatLessThanWellFounded
<1>3. \A y \in Nat : y < b => <<y, b>> \in Below
  OBVIOUS
<1> HIDE DEF Below
<1>4. \A y \in S : y \in Nat /\ b \in Nat /\ ~(y < b)
  BY <1>2, <1>3
<1>5. \E x \in S : \A y \in S : x =< y
  BY <1>4
<1> QED BY <1>5 DEF Min

\* A set of ids with an upper bound: the form in which the proofs carry that a table
\* is finite.
Bounded(ids) == \E n \in Nat : \A i \in ids : i <= n

\* A finite set of ids has a bound: those of a document that is restored.
LEMMA FiniteIsBounded ==
    ASSUME NEW S \in SUBSET Nat, IsFiniteSet(S)
    PROVE  Bounded(S)
<1> DEFINE Sizes == {n \in Nat : \E T \in SUBSET S : IsFiniteSet(T) /\ Cardinality(T) = n /\ ~Bounded(T)}
<1>1. SUFFICES ASSUME ~Bounded(S) PROVE FALSE
  OBVIOUS
<1>2. Cardinality(S) \in Sizes
  BY <1>1, FS_CardinalityType
<1> DEFINE Below == {ss \in Nat \X Nat : ss[1] < ss[2]}
<1>3. OpToRel(<, Nat) = Below
  BY Zenon DEF OpToRel
<1>4. PICK n \in Sizes : \A m \in Sizes : ~(<<m, n>> \in Below)
  <2>1. IsWellFoundedOn(Below, Nat)
    BY Zenon, <1>3, NatLessThanWellFounded
  <2>2. Sizes \subseteq Nat /\ Sizes # {}
    BY <1>2
  <2> HIDE DEF Sizes, Below
  <2> QED BY Zenon, <2>1, <2>2, WFMin
<1>5. PICK T \in SUBSET S : IsFiniteSet(T) /\ Cardinality(T) = n /\ ~Bounded(T)
  OBVIOUS
<1>6. T # {}
  BY <1>5 DEF Bounded
<1>7. PICK x \in T : TRUE
  BY <1>6
<1> DEFINE R == T \ {x}
<1>8. IsFiniteSet(R) /\ Cardinality(R) = n - 1
  BY <1>5, <1>7, FS_RemoveElement
<1>9. n \in Nat /\ n # 0
  BY <1>5, <1>6, FS_EmptySet
<1>10. n - 1 \in Nat /\ <<n - 1, n>> \in Below
  BY <1>9
<1>11. Bounded(R)
  BY <1>4, <1>8, <1>10, <1>5
<1>12. PICK m \in Nat : \A i \in R : i <= m
  BY <1>11 DEF Bounded
<1>13. x \in Nat /\ T \subseteq R \cup {x} /\ R \subseteq Nat
  BY <1>7
<1> HIDE DEF R
<1>14. \E k \in Nat : \A i \in T : i <= k
  <2>1. CASE x <= m
    BY <2>1, <1>12, <1>13
  <2>2. CASE ~(x <= m)
    <3>1. \A i \in T : i <= x
      BY <2>2, <1>12, <1>13
    <3> QED BY <3>1, <1>13
  <2> QED BY <2>1, <2>2
<1> QED BY <1>5, <1>14 DEF Bounded
=============================================================================
