--------------------------- MODULE FoldInduction ---------------------------
(***************************************************************************)
(* Induction over data.  The induction theorems of the library take a      *)
(* predicate as an operator, which the provers cannot instantiate; that    *)
(* the naturals are well-founded is stated with sets, and suffices.  What  *)
(* a fold computes follows from it for every operation: a proof instances  *)
(* this module with its own.                                               *)
(***************************************************************************)
EXTENDS SequencesExt, Integers, FiniteSets, TLAPS, WellFoundedInduction

\* One step of a fold; the third argument is whatever else the step depends on.
CONSTANT Op(_, _, _)

\* Every non-empty set of naturals has a least element.
LEMMA LeastNatural ==
  ASSUME NEW T, T \subseteq Nat, T # {}
  PROVE  \E x \in T : \A y \in T : x <= y
<1> DEFINE R == {ss \in Nat \X Nat : ss[1] < ss[2]}
<1>1. IsWellFoundedOn(R, Nat)
  BY NatLessThanWellFounded DEF OpToRel
<1>2. PICK x \in T : \A y \in T : ~(<<y, x>> \in R)
  <2> HIDE DEF R
  <2> QED BY <1>1, WFMin
<1>3. \A y \in T : ~(y < x)
  BY <1>2
<1> QED
  BY <1>3

\* Induction on i \in 0..n, with the set of those for which the claim holds.
LEMMA BoundedInduction ==
  ASSUME NEW n \in Nat, NEW P, 0 \in P, \A i \in 0..(n - 1) : i \in P => i + 1 \in P
  PROVE  \A i \in 0..n : i \in P
<1>1. SUFFICES ASSUME NEW k \in 0..n, k \notin P
               PROVE  FALSE
  OBVIOUS
<1> DEFINE T == {i \in 0..n : i \notin P}
<1>2. T \subseteq Nat /\ T # {}
  BY <1>1
<1>3. PICK x \in T : \A y \in T : x <= y
  <2> HIDE DEF T
  <2> QED BY <1>2, LeastNatural
<1>4. x # 0 /\ x - 1 \in 0..(n - 1)
  BY <1>3
<1>5. x - 1 \in P
  BY <1>3, <1>4
<1>6. x \in P
  BY <1>4, <1>5, <1>3
<1> QED
  BY <1>3, <1>6

-----------------------------------------------------------------------------
\* The largest element, as FiniteSetsExt has it.
Top(S) == CHOOSE x \in S : \A y \in S : x >= y

\* The function behind a fold over s from b.
IsIter(iter, p, b, s) ==
  iter = [S \in SUBSET DOMAIN s |->
            IF S = {} THEN b ELSE Op(iter[S \ {Top(S)}], s[Top(S)], p)]

\* h runs through s from b, one step for each element.
Runs(h, p, b, s, m) ==
  /\ h = [i \in 0..m |-> h[i]]
  /\ h[0] = b
  /\ \A i \in 1..m : h[i] = Op(h[i - 1], s[i], p)

Folded(p, b, s) == (CHOOSE iter : IsIter(iter, p, b, s))[DOMAIN s]

\* The largest element of a subset of 1..(n + 1) that has n + 1, and of 1..n.
LEMMA TopOfPrefix ==
  ASSUME NEW n \in Nat, NEW S \in SUBSET (1..(n + 1)), n + 1 \in S
  PROVE  Top(S) = n + 1
<1>1. \A y \in S : n + 1 >= y
  OBVIOUS
<1>2. \A x \in S : (\A y \in S : x >= y) => x = n + 1
  OBVIOUS
<1> QED
  BY <1>1, <1>2 DEF Top

LEMMA TopIsMember ==
  ASSUME NEW n \in Nat, NEW S \in SUBSET (1..n), S # {}
  PROVE  Top(S) \in S /\ \A y \in S : Top(S) >= y
<1> DEFINE U == {k \in Nat : \A y \in S : k >= y}
<1>1. U # {} /\ U \subseteq Nat
  BY n \in U
<1>2. PICK x \in U : \A y \in U : x <= y
  <2> HIDE DEF U
  <2> QED BY <1>1, LeastNatural
<1>3. x \in S
  <2>1. SUFFICES ASSUME x \notin S PROVE FALSE
    OBVIOUS
  <2>2. \A y \in S : x - 1 >= y
    BY <1>2, <2>1
  <2>3. x - 1 \in Nat
    <3>1. PICK y \in S : TRUE
      OBVIOUS
    <3>2. y \in 1..n /\ x - 1 >= y /\ x \in Nat
      BY <1>2, <2>2, <3>1
    <3> QED
      BY <3>2
  <2>4. x - 1 \in U
    BY <2>2, <2>3
  <2> QED
    BY <1>2, <2>4
<1> QED
  BY <1>2, <1>3 DEF Top

\* A fold can be computed.
LEMMA IterExists ==
  ASSUME NEW p, NEW b, NEW s, NEW m \in Nat, DOMAIN s = 1..m
  PROVE  \E iter : IsIter(iter, p, b, s)
<1> DEFINE Upto(h, n) ==
      h = [S \in SUBSET (1..n) |-> IF S = {} THEN b ELSE Op(h[S \ {Top(S)}], s[Top(S)], p)]
<1> DEFINE P == {n \in 0..m : \E h : Upto(h, n)}
<1>1. 0 \in P
  <2>1. 0 \in 0..m
    OBVIOUS
  <2>2. Upto([S \in SUBSET (1..0) |-> b], 0)
    <3>1. \A S \in SUBSET (1..0) : S = {}
      OBVIOUS
    <3> QED
      BY <3>1
  <2> QED
    BY <2>1, <2>2
<1>2. ASSUME NEW n \in 0..(m - 1), NEW h, Upto(h, n)
      PROVE  \E g : Upto(g, n + 1)
  <2>n. n \in Nat /\ n + 1 \in Nat
    OBVIOUS
  <2> DEFINE g == [S \in SUBSET (1..(n + 1)) |->
                     IF n + 1 \in S THEN Op(h[S \ {n + 1}], s[n + 1], p) ELSE h[S]]
  <2>2. ASSUME NEW S \in SUBSET (1..(n + 1))
        PROVE  g[S] = IF S = {} THEN b ELSE Op(g[S \ {Top(S)}], s[Top(S)], p)
    <3>1. CASE n + 1 \in S
      <4>1. Top(S) = n + 1
        BY <2>n, <3>1, TopOfPrefix
      <4>2. S \ {n + 1} \in SUBSET (1..(n + 1)) /\ n + 1 \notin S \ {n + 1}
        OBVIOUS
      <4>3. g[S \ {n + 1}] = h[S \ {n + 1}]
        BY <4>2
      <4> QED
        BY <3>1, <4>1, <4>3
    <3>2. CASE n + 1 \notin S
      <4>1. S \in SUBSET (1..n)
        BY <3>2
      <4>2. g[S] = h[S]
        BY <3>2
      <4>3. CASE S = {}
        BY <1>2, <4>1, <4>2, <4>3
      <4>4. CASE S # {}
        <5>1. Top(S) \in S
          BY <2>n, <4>1, <4>4, TopIsMember
        <5>2. S \ {Top(S)} \in SUBSET (1..(n + 1)) /\ n + 1 \notin S \ {Top(S)}
          BY <3>2
        <5>3. g[S \ {Top(S)}] = h[S \ {Top(S)}]
          BY <5>2
        <5>4. h[S] = Op(h[S \ {Top(S)}], s[Top(S)], p)
          BY <1>2, <4>1, <4>4
        <5> QED
          BY <4>2, <4>4, <5>3, <5>4
      <4> QED
        BY <4>3, <4>4
    <3> QED
      BY <3>1, <3>2
  <2>3. Upto(g, n + 1)
    <3>1. g = [S \in SUBSET (1..(n + 1)) |-> g[S]]
      OBVIOUS
    <3> HIDE DEF g
    <3> QED
      BY <2>2, <3>1
  <2> QED
    BY <2>3
<1>3. \A n \in 0..(m - 1) : n \in P => n + 1 \in P
  <2> HIDE DEF Upto
  <2> QED
    BY <1>2
<1>4. m \in P
  <2> HIDE DEF P
  <2>1. \A n \in 0..m : n \in P
    BY <1>1, <1>3, BoundedInduction
  <2> QED
    BY <2>1
<1> QED
  BY <1>4 DEF IsIter

\* A fold from the left is the last of a sequence of states, one more than s has
\* elements, of which each follows from the one before by one step.
LEMMA FoldedSteps ==
  ASSUME NEW p, NEW b, NEW s, NEW m \in Nat, DOMAIN s = 1..m
  PROVE  \E h : Runs(h, p, b, s, m) /\ Folded(p, b, s) = h[m]
<1> DEFINE iter == CHOOSE it : IsIter(it, p, b, s)
<1>1. IsIter(iter, p, b, s)
  BY IterExists
<1> DEFINE h == [i \in 0..m |-> iter[1..i]]
<1> HIDE DEF iter
<1>2. h[0] = b
  <2>1. 1..0 = {} /\ 1..0 \in SUBSET (1..m)
    OBVIOUS
  <2> QED
    BY <1>1, <2>1 DEF IsIter
<1>3. ASSUME NEW i \in 1..m
      PROVE  h[i] = Op(h[i - 1], s[i], p)
  <2>1. i - 1 \in Nat /\ (i - 1) + 1 = i /\ i - 1 \in 0..m /\ i \in 0..m
    OBVIOUS
  <2>2. 1..i \in SUBSET (1..m) /\ i \in 1..i /\ 1..i # {}
    <3>1. \A k \in 1..i : k \in 1..m
      OBVIOUS
    <3>2. i \in 1..i
      OBVIOUS
    <3> QED
      BY <3>1, <3>2
  <2>3. Top(1..i) = i
    BY <2>1, <2>2, TopOfPrefix
  <2>4. (1..i) \ {i} = 1..(i - 1)
    OBVIOUS
  <2>5. iter[1..i] = Op(iter[(1..i) \ {Top(1..i)}], s[Top(1..i)], p)
    BY <1>1, <2>2 DEF IsIter
  <2> QED
    BY <2>1, <2>3, <2>4, <2>5
<1>4. Folded(p, b, s) = h[m]
  BY DEF Folded, iter
<1> HIDE DEF h
<1>5. h = [i \in 0..m |-> h[i]]
  BY DEF h
<1> QED
  BY <1>2, <1>3, <1>4, <1>5 DEF Runs

\* Folding over one sequence and then over another is folding over both.
Joins(w, s, t, m, n) ==
  /\ DOMAIN s = 1..m /\ DOMAIN t = 1..n /\ DOMAIN w = 1..(m + n)
  /\ \A i \in 1..m : w[i] = s[i]
  /\ \A j \in 1..n : w[m + j] = t[j]

LEMMA FoldedConcat ==
  ASSUME NEW p, NEW b, NEW s, NEW t, NEW w, NEW m \in Nat, NEW n \in Nat, Joins(w, s, t, m, n)
  PROVE  Folded(p, b, w) = Folded(p, Folded(p, b, s), t)
<1> USE DEF Joins
<1>1. PICK g : Runs(g, p, b, s, m) /\ Folded(p, b, s) = g[m]
  BY FoldedSteps
<1>2. PICK l : Runs(l, p, g[m], t, n) /\ Folded(p, g[m], t) = l[n]
  BY FoldedSteps
<1>3. PICK h : Runs(h, p, b, w, m + n) /\ Folded(p, b, w) = h[m + n]
  <2>1. m + n \in Nat
    OBVIOUS
  <2> QED
    BY <2>1, FoldedSteps
<1>4. h[m] = g[m]
  <2> DEFINE P == {i \in 0..m : h[i] = g[i]}
  <2>1. 0 \in P
    BY <1>1, <1>3 DEF Runs
  <2>2. ASSUME NEW i \in 0..(m - 1), i \in P
        PROVE  i + 1 \in P
    <3>1. i + 1 \in 1..m /\ i + 1 \in 1..(m + n) /\ (i + 1) - 1 = i
      OBVIOUS
    <3>2. h[i + 1] = Op(h[i], w[i + 1], p) /\ g[i + 1] = Op(g[i], s[i + 1], p)
      BY <1>1, <1>3, <3>1 DEF Runs
    <3> QED
      BY <2>2, <3>1, <3>2
  <2> HIDE DEF P
  <2>3. \A i \in 0..m : i \in P
    BY <2>1, <2>2, BoundedInduction
  <2> QED
    BY <2>3 DEF P
<1>5. h[m + n] = l[n]
  <2> DEFINE P == {j \in 0..n : h[m + j] = l[j]}
  <2>1. 0 \in P
    BY <1>2, <1>3, <1>4 DEF Runs
  <2>2. ASSUME NEW j \in 0..(n - 1), j \in P
        PROVE  j + 1 \in P
    <3>1. j + 1 \in 1..n /\ m + (j + 1) \in 1..(m + n) /\ (m + (j + 1)) - 1 = m + j /\ (j + 1) - 1 = j
      OBVIOUS
    <3>2. h[m + (j + 1)] = Op(h[m + j], w[m + (j + 1)], p) /\ l[j + 1] = Op(l[j], t[j + 1], p)
      BY <1>2, <1>3, <3>1 DEF Runs
    <3> QED
      BY <2>2, <3>1, <3>2
  <2> HIDE DEF P
  <2>3. \A j \in 0..n : j \in P
    BY <2>1, <2>2, BoundedInduction
  <2> QED
    BY <2>3 DEF P
<1> QED
  BY <1>1, <1>2, <1>3, <1>5
=============================================================================
