----------------------------- MODULE Flattening -----------------------------
(***************************************************************************)
(* FlattenSeq of SequencesExt: what it returns, and that it keeps every    *)
(* element.  The induction is over a set of numbers, taken from the well-  *)
(* foundedness of < on Nat: FlattenSeq is the last value of a recursive    *)
(* function, which must be shown to exist first.                           *)
(***************************************************************************)
EXTENDS Naturals, SequencesExt, WellFoundedInduction, TLAPS

\* Induction, from the least number that is not in a set.
LEMMA NatInSet ==
  ASSUME NEW T \in SUBSET Nat, 0 \in T, \A n \in T : n + 1 \in T
  PROVE  T = Nat
  <1> SUFFICES ASSUME Nat \ T # {} PROVE FALSE
    OBVIOUS
  <1> DEFINE R == OpToRel(<, Nat)
  <1>1. IsWellFoundedOn(R, Nat)
    BY NatLessThanWellFounded
  <1>2. R = {ss \in Nat \X Nat : ss[1] < ss[2]}
    BY DEF OpToRel
  <1> HIDE DEF R
  <1>3. \E x \in Nat \ T : \A y \in Nat \ T : <<y, x>> \notin R
    BY <1>1, WFMin
  <1>4. PICK x \in Nat \ T : \A y \in Nat \ T : ~(y < x)
    BY <1>2, <1>3
  <1>5. x # 0 /\ x - 1 \in Nat /\ x - 1 < x /\ (x - 1) + 1 = x
    BY <1>4
  <1> QED BY <1>4, <1>5

\* The function FlattenSeq takes the last value of.
Flattens(f, ss) ==
  f = [i \in 1..Len(ss) |-> IF i = 1 THEN ss[i] ELSE f[i - 1] \o ss[i]]

LEMMA FlattenExists ==
  ASSUME NEW S, NEW ss \in Seq(Seq(S)) PROVE \E f : Flattens(f, ss)
  <1> DEFINE L == Len(ss)
             Value(g, i) == IF i = 1 THEN ss[i] ELSE g[i - 1] \o ss[i]
             UpTo(g, n) == \A i \in 1..L : i <= n => g[i] = Value(g, i)
             T == {n \in Nat : \E g \in [1..L -> Seq(S)] : UpTo(g, n)}
  <1>0. L \in Nat /\ \A i \in 1..L : ss[i] \in Seq(S)
    OBVIOUS
  <1>1. 0 \in T
    <2>1. [i \in 1..L |-> <<>>] \in [1..L -> Seq(S)]
      OBVIOUS
    <2>2. \A g : UpTo(g, 0)
      BY <1>0
    <2> QED BY <2>1, <2>2
  <1>2. ASSUME NEW n \in T PROVE n + 1 \in T
    <2>1. PICK g \in [1..L -> Seq(S)] : UpTo(g, n)
      OBVIOUS
    <2>2. n \in Nat /\ n + 1 \in Nat
      OBVIOUS
    <2>3. CASE n + 1 > L
      <3>1. \A i \in 1..L : i <= n + 1 => i <= n
        BY <2>2, <2>3, <1>0
      <3>2. UpTo(g, n + 1)
        BY <2>1, <3>1
      <3> HIDE DEF UpTo
      <3> QED BY <3>2, <2>2
    <2>4. CASE n + 1 <= L
      <3> DEFINE h == [g EXCEPT ![n + 1] = Value(g, n + 1)]
      <3>1. n + 1 \in 1..L /\ (n + 1 # 1 => (n + 1) - 1 \in 1..L)
        BY <2>2, <2>4, <1>0
      <3>2. Value(g, n + 1) \in Seq(S)
        <4>1. \A p, q \in Seq(S) : p \o q \in Seq(S)
          OBVIOUS
        <4>2. ss[n + 1] \in Seq(S) /\ (n + 1 # 1 => g[(n + 1) - 1] \in Seq(S))
          BY <3>1, <1>0
        <4> QED BY <4>1, <4>2
      <3>3. h \in [1..L -> Seq(S)]
        BY <3>2
      <3>4. UpTo(h, n + 1)
        <4> SUFFICES ASSUME NEW i \in 1..L, i <= n + 1 PROVE h[i] = Value(h, i)
          OBVIOUS
        <4>1. i # 1 => i - 1 \in 1..L /\ i - 1 # n + 1
          BY <2>2, <1>0
        <4>2. Value(h, i) = Value(g, i)
          BY <4>1
        <4>3. i # n + 1 => i <= n
          BY <2>2, <1>0
        <4>4. h[i] = Value(g, i)
          BY <4>3, <2>1, <3>1
        <4> QED BY <4>2, <4>4
      <3> HIDE DEF UpTo, h
      <3> QED BY <3>3, <3>4, <2>2
    <2>5. n + 1 > L \/ n + 1 <= L
      BY <2>2, <1>0
    <2> HIDE DEF T
    <2> QED BY <2>3, <2>4, <2>5
  <1>3. L \in T
    <2> HIDE DEF T
    <2>1. T \in SUBSET Nat
      BY DEF T
    <2>2. T = Nat
      BY <2>1, <1>1, <1>2, NatInSet
    <2> QED BY <1>0, <2>2
  <1>4. PICK f \in [1..L -> Seq(S)] : UpTo(f, L)
    BY <1>3
  <1>5. \A i \in 1..L : i <= L
    BY <1>0
  <1>6. \A i \in 1..L : f[i] = Value(f, i)
    BY <1>4, <1>5
  <1> QED BY <1>4, <1>6 DEF Flattens

\* Every element of p is one of q.
Within(p, q) == \A k \in DOMAIN p : \E m \in DOMAIN q : q[m] = p[k]

LEMMA WithinConcat ==
  ASSUME NEW S, NEW p \in Seq(S), NEW q \in Seq(S)
  PROVE  p \o q \in Seq(S) /\ Within(p, p \o q) /\ Within(q, p \o q)
  <1>1. ASSUME NEW k \in DOMAIN p PROVE k \in DOMAIN (p \o q) /\ (p \o q)[k] = p[k]
    OBVIOUS
  <1>2. ASSUME NEW k \in DOMAIN q
        PROVE  Len(p) + k \in DOMAIN (p \o q) /\ (p \o q)[Len(p) + k] = q[k]
    OBVIOUS
  <1>3. Within(p, p \o q)
    BY Zenon, <1>1 DEF Within
  <1>4. Within(q, p \o q)
    BY Zenon, <1>2 DEF Within
  <1> QED BY <1>3, <1>4

LEMMA WithinTrans ==
  ASSUME NEW p, NEW q, NEW r, Within(p, q), Within(q, r) PROVE Within(p, r)
BY Zenon DEF Within

\* Flattening keeps every element.
LEMMA FlattenFacts ==
  ASSUME NEW S, NEW ss \in Seq(Seq(S))
  PROVE  FlattenSeq(ss) \in Seq(S) /\ \A b \in DOMAIN ss : Within(ss[b], FlattenSeq(ss))
  <1> DEFINE L == Len(ss)
  <1>0. L \in Nat /\ DOMAIN ss = 1..L /\ \A i \in 1..L : ss[i] \in Seq(S)
    OBVIOUS
  <1>1. CASE L = 0
    BY <1>0, <1>1 DEF FlattenSeq
  <1>2. CASE L # 0
    <2>1. PICK f : FlattenSeq(ss) = f[L] /\ Flattens(f, ss)
      BY Zenon, <1>2, FlattenExists DEF FlattenSeq, Flattens
    <2>2. \A i \in 1..L : f[i] = IF i = 1 THEN ss[i] ELSE f[i - 1] \o ss[i]
      BY <2>1, Zenon DEF Flattens
    <2> DEFINE Good(n) == f[n] \in Seq(S) /\ \A b \in 1..n : Within(ss[b], f[n])
               T == {n \in Nat : n \in 1..L => Good(n)}
    <2>3. 0 \in T
      BY <1>0
    <2>4. ASSUME NEW n \in T PROVE n + 1 \in T
      <3>1. n \in Nat /\ n + 1 \in Nat /\ (n + 1) - 1 = n
        OBVIOUS
      <3> SUFFICES ASSUME n + 1 \in 1..L PROVE Good(n + 1)
        BY <3>1
      <3>2. CASE n = 0
        <4>1. f[1] = ss[1] /\ 1 \in 1..L /\ \A b \in 1..1 : b = 1
          BY <2>2, <1>0, <1>2
        <4>2. Within(ss[1], ss[1])
          BY Zenon DEF Within
        <4>3. Good(1)
          BY <4>1, <4>2, <1>0
        <4> QED BY <3>2, <4>3
      <3>3. CASE n # 0
        <4>1. n \in 1..L /\ n + 1 # 1
          BY <3>1, <3>3, <1>0
        <4>2. f[n] \in Seq(S) /\ ss[n + 1] \in Seq(S) /\ f[n + 1] = f[n] \o ss[n + 1]
          BY <4>1, <3>1, <2>2, <1>0
        <4>3. f[n + 1] \in Seq(S) /\ Within(f[n], f[n + 1]) /\ Within(ss[n + 1], f[n + 1])
          BY Zenon, <4>2, WithinConcat
        <4>4. \A b \in 1..n : Within(ss[b], f[n + 1])
          BY Zenon, <4>1, <4>3, WithinTrans
        <4>5. \A b \in 1..(n + 1) : b \in 1..n \/ b = n + 1
          BY <3>1
        <4> QED BY Zenon, <4>3, <4>4, <4>5
      <3> QED BY <3>2, <3>3
    <2>5. Good(L)
      <3> HIDE DEF Good
      <3>1. T \in SUBSET Nat
        OBVIOUS
      <3>2. L \in T
        <4> HIDE DEF T
        <4>1. T = Nat
          BY <3>1, <2>3, <2>4, NatInSet
        <4> QED BY <1>0, <4>1
      <3> QED BY <3>2, <1>0, <1>2
    <2> QED BY <2>1, <2>5, <1>0
  <1> QED BY <1>1, <1>2
=============================================================================
