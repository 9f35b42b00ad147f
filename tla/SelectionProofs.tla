-------------------------- MODULE SelectionProofs --------------------------
(* Induction over the naturals, and what OnlyIn computes. *)
EXTENDS Selection, WellFoundedInduction, TLAPS

-----------------------------------------------------------------------------
(* Induction.  The induction rules of the library have an operator for a   *)
(* parameter; here the set of the numbers with a property takes its place. *)

\* The order of the naturals as a well-founded relation.
LEMMA LessThanRelation ==
    \E R : IsWellFoundedOn(R, Nat) /\ \A x, y \in Nat : x < y => <<x, y>> \in R
<1>1. \A x, y \in Nat : x < y => <<x, y>> \in OpToRel(<, Nat)
  BY DEF OpToRel
<1> QED BY <1>1, NatLessThanWellFounded, Zenon

\* A set of naturals has a least element.
LEMMA LeastNatural ==
    ASSUME NEW T, T \subseteq Nat, T # {}
    PROVE  \E x \in T : \A y \in T : x <= y
<1>1. PICK R : IsWellFoundedOn(R, Nat) /\ \A x, y \in Nat : x < y => <<x, y>> \in R
  BY LessThanRelation, Zenon
<1>2. IsWellFoundedOn(R, Nat)
  BY <1>1, Zenon
<1>3. PICK x \in T : \A y \in T : ~(<<y, x>> \in R)
  BY <1>2, WFMin, Zenon
<1>4. \A y \in T : ~(y < x)
  BY <1>1, <1>3, Zenon
<1> QED BY <1>3, <1>4

\* Induction over the naturals.
LEMMA NatSetInduction ==
    ASSUME NEW S, 0 \in S, \A n \in Nat : n \in S => n + 1 \in S
    PROVE  Nat \subseteq S
<1> DEFINE T == {n \in Nat : n \notin S}
<1> SUFFICES ASSUME T # {} PROVE FALSE
  OBVIOUS
<1>1. PICK x \in T : \A y \in T : x <= y
  BY LeastNatural
<1>2. x # 0 /\ x - 1 \in Nat /\ x - 1 \notin T
  BY <1>1
<1> QED BY <1>1, <1>2

-----------------------------------------------------------------------------
(* OnlyIn.                                                                 *)

\* One step of the selection.
Select(before, e, S) == IF e \in S THEN Append(before, e) ELSE before

Selects(f, s, S, n) ==
    f = [i \in 0..n |-> IF i = 0 THEN <<>> ELSE Select(f[i - 1], s[i], S)]

\* The selection is defined.
LEMMA SelectionExists ==
    ASSUME NEW s, NEW S, NEW n \in Nat
    PROVE  \E f : Selects(f, s, S, n)
<1> DEFINE G == {m \in Nat : \E f : Selects(f, s, S, m)}
<1>1. 0 \in G
  <2>1. Selects([i \in 0..0 |-> <<>>], s, S, 0)
    BY DEF Selects
  <2> QED BY <2>1
<1>2. ASSUME NEW m \in Nat, m \in G PROVE m + 1 \in G
  <2>1. PICK f : Selects(f, s, S, m)
    BY <1>2
  <2> DEFINE g == [i \in 0..(m + 1) |-> IF i <= m THEN f[i] ELSE Select(f[m], s[m + 1], S)]
  <2>2. \A i \in 0..m : f[i] = IF i = 0 THEN <<>> ELSE Select(f[i - 1], s[i], S)
    BY <2>1 DEF Selects
  <2>3. \A i \in 0..(m + 1) : g[i] = IF i = 0 THEN <<>> ELSE Select(g[i - 1], s[i], S)
    BY <2>2
  <2>4. g = [i \in 0..(m + 1) |-> g[i]]
    OBVIOUS
  <2> HIDE DEF g
  <2>5. Selects(g, s, S, m + 1)
    BY <2>3, <2>4 DEF Selects
  <2> QED BY <2>5
<1> HIDE DEF G
<1>3. Nat \subseteq G
  BY <1>1, <1>2, NatSetInduction
<1> QED BY <1>3 DEF G

\* OnlyIn is the last value of a selection.
LEMMA OnlyInSelects ==
    ASSUME NEW s, NEW S, Len(s) \in Nat
    PROVE  \E f : Selects(f, s, S, Len(s)) /\ OnlyIn(s, S) = f[Len(s)]
<1> DEFINE f == CHOOSE f : Selects(f, s, S, Len(s))
<1>1. Selects(f, s, S, Len(s))
  BY SelectionExists
<1>2. OnlyIn(s, S) = f[Len(s)]
  BY DEF OnlyIn, Selects, Select
<1> HIDE DEF f
<1> QED BY <1>1, <1>2

\* Selections of two sequences agree as far as the sequences do.
LEMMA SelectionsAgree ==
    ASSUME NEW s, NEW t, NEW S, NEW m \in Nat, NEW n \in Nat, m <= n,
           NEW f, NEW g, Selects(f, s, S, m), Selects(g, t, S, n),
           \A i \in 1..m : s[i] = t[i]
    PROVE  f[m] = g[m]
<1> DEFINE G == {i \in Nat : i <= m => f[i] = g[i]}
<1>1. /\ \A i \in 0..m : f[i] = IF i = 0 THEN <<>> ELSE Select(f[i - 1], s[i], S)
      /\ \A i \in 0..n : g[i] = IF i = 0 THEN <<>> ELSE Select(g[i - 1], t[i], S)
  BY DEF Selects
<1>2. 0 \in G
  BY <1>1
<1>3. ASSUME NEW i \in Nat, i \in G PROVE i + 1 \in G
  BY <1>1, <1>3
<1> HIDE DEF G
<1>4. Nat \subseteq G
  BY <1>2, <1>3, NatSetInduction
<1> QED BY <1>4 DEF G

\* Nothing is selected from nothing.
LEMMA OnlyInEmpty == \A S : OnlyIn(<<>>, S) = <<>>
<1> SUFFICES ASSUME NEW S PROVE OnlyIn(<<>>, S) = <<>>
  OBVIOUS
<1>1. Len(<<>>) = 0
  OBVIOUS
<1>2. PICK f : Selects(f, <<>>, S, 0) /\ OnlyIn(<<>>, S) = f[0]
  BY <1>1, OnlyInSelects
<1> QED BY <1>2 DEF Selects

\* An element that is appended is selected, or not.
LEMMA OnlyInAppend ==
    ASSUME NEW T, NEW s \in Seq(T), NEW e \in T, NEW S
    PROVE  OnlyIn(Append(s, e), S) = IF e \in S THEN Append(OnlyIn(s, S), e) ELSE OnlyIn(s, S)
<1> DEFINE t == Append(s, e)
           n == Len(s)
<1>1. /\ Len(t) = n + 1 /\ n \in Nat /\ t[n + 1] = e
      /\ \A i \in 1..n : s[i] = t[i]
  OBVIOUS
<1> HIDE DEF t, n
<1>2. PICK f : Selects(f, s, S, n) /\ OnlyIn(s, S) = f[n]
  BY <1>1, OnlyInSelects DEF n
<1>3. PICK g : Selects(g, t, S, n + 1) /\ OnlyIn(t, S) = g[n + 1]
  BY <1>1, OnlyInSelects
<1>4. f[n] = g[n]
  BY <1>1, <1>2, <1>3, SelectionsAgree
<1>5. g[n + 1] = Select(g[n], e, S)
  BY <1>1, <1>3 DEF Selects
<1> QED BY <1>2, <1>3, <1>4, <1>5 DEF Select, t

\* What is selected is in the sequence and in the set.
LEMMA OnlyInType ==
    ASSUME NEW T, NEW s \in Seq(T), NEW S
    PROVE  OnlyIn(s, S) \in Seq(T \cap S)
<1> DEFINE n == Len(s)
<1>1. n \in Nat /\ \A i \in 1..n : s[i] \in T
  OBVIOUS
<1> HIDE DEF n
<1>2. PICK f : Selects(f, s, S, n) /\ OnlyIn(s, S) = f[n]
  BY <1>1, OnlyInSelects DEF n
<1>3. \A i \in 0..n : f[i] = IF i = 0 THEN <<>> ELSE Select(f[i - 1], s[i], S)
  BY <1>2 DEF Selects
<1> DEFINE G == {i \in Nat : i <= n => f[i] \in Seq(T \cap S)}
<1>4. 0 \in G
  <2>1. f[0] = <<>> /\ <<>> \in Seq(T \cap S)
    BY <1>1, <1>3
  <2> QED BY <2>1
<1>5. ASSUME NEW i \in Nat, i \in G PROVE i + 1 \in G
  <2> SUFFICES ASSUME i + 1 <= n PROVE f[i + 1] \in Seq(T \cap S)
    OBVIOUS
  <2>1. f[i] \in Seq(T \cap S) /\ s[i + 1] \in T
    BY <1>1, <1>5
  <2>2. f[i + 1] = Select(f[i], s[i + 1], S)
    BY <1>3
  <2> QED BY <2>1, <2>2 DEF Select
<1> HIDE DEF G
<1>6. Nat \subseteq G
  BY <1>4, <1>5, NatSetInduction
<1> QED BY <1>1, <1>2, <1>6 DEF G
=============================================================================
