------------------------------ MODULE Counting ------------------------------
(***************************************************************************)
(* Finite sets with a bound on their size, for invariants that count.      *)
(***************************************************************************)
EXTENDS Naturals, FiniteSets, FiniteSetTheorems, TLAPS

AtMost(S, n) == IsFiniteSet(S) /\ Cardinality(S) <= n

LEMMA EmptyAtMost == ASSUME NEW n \in Nat PROVE AtMost({}, n)
BY FS_EmptySet DEF AtMost

LEMMA SubsetAtMost ==
  ASSUME NEW S, NEW T, NEW m \in Nat, NEW n \in Nat, m <= n, T \subseteq S,
         AtMost(S, m)
  PROVE  AtMost(T, n)
<1>1. IsFiniteSet(S) /\ Cardinality(S) <= m
  BY DEF AtMost
<1>2. IsFiniteSet(T) /\ Cardinality(T) <= Cardinality(S)
  BY <1>1, FS_Subset
<1>3. Cardinality(S) \in Nat /\ Cardinality(T) \in Nat
  BY <1>1, <1>2, FS_CardinalityType
<1> QED
  BY <1>1, <1>2, <1>3 DEF AtMost

LEMMA OneMore ==
  ASSUME NEW S, NEW x, NEW n \in Nat, AtMost(S, n)
  PROVE  AtMost(S \cup {x}, n + 1)
<1>1. IsFiniteSet(S) /\ Cardinality(S) <= n /\ Cardinality(S) \in Nat
  BY FS_CardinalityType DEF AtMost
<1>2. /\ IsFiniteSet(S \cup {x})
      /\ \/ Cardinality(S \cup {x}) = Cardinality(S)
         \/ Cardinality(S \cup {x}) = Cardinality(S) + 1
  BY <1>1, FS_AddElement
<1> QED
  BY <1>1, <1>2 DEF AtMost

=============================================================================
