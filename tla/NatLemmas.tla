------------------------------- MODULE NatLemmas -------------------------------
(******************************************************************************)
(* Facts about natural numbers and positions in sequences that the proofs     *)
(* share.  The induction theorems of the library take an operator, which the  *)
(* provers at hand do not instantiate; here induction is stated over a set,   *)
(* and recursion over a step that is a function.                              *)
(******************************************************************************)
EXTENDS Naturals, Sequences, WellFoundedInduction, NaturalsInduction, SequenceTheorems, TLAPS

\* "Less than" on the natural numbers, as a well-founded relation.
LEMMA NatOrder ==
    \E R : /\ IsWellFoundedOn(R, Nat)
           /\ \A a, b \in Nat : a < b => <<a, b>> \in R
<1> DEFINE R == OpToRel(<, Nat)
<1>1. IsWellFoundedOn(R, Nat)
  BY NatLessThanWellFounded, Zenon
<1>2. \A a, b \in Nat : a < b => <<a, b>> \in R
  BY Zenon DEF OpToRel
<1> QED
  BY <1>1, <1>2, Zenon

\* A set of natural numbers that is not empty has a least element.
LEMMA LeastNatural ==
    ASSUME NEW T, T \subseteq Nat, T # {}
    PROVE  \E m \in T : \A n \in T : m <= n
<1>1. PICK R : /\ IsWellFoundedOn(R, Nat)
               /\ \A a, b \in Nat : a < b => <<a, b>> \in R
  BY NatOrder
<1>2. ASSUME NEW Q, IsWellFoundedOn(Q, Nat)
      PROVE  \E m \in T : \A n \in T : ~(<<n, m>> \in Q)
  BY <1>2, WFMin, Zenon
<1>3. PICK m \in T : \A n \in T : ~(<<n, m>> \in R)
  BY <1>1, <1>2, Zenon
<1>4. \A n \in T : ~(n < m)
  BY <1>1, <1>3
<1> QED
  BY <1>4

\* A bounded set of natural numbers that is not empty has a greatest element.
LEMMA GreatestNatural ==
    ASSUME NEW T, T \subseteq Nat, T # {},
           NEW bound \in Nat, \A n \in T : n <= bound
    PROVE  \E m \in T : \A n \in T : n <= m
<1> DEFINE U == {bound - n : n \in T}
<1>1. U \subseteq Nat /\ U # {}
  <2>1. \A n \in T : bound - n \in Nat
    OBVIOUS
  <2>2. PICK n \in T : TRUE
    OBVIOUS
  <2>3. bound - n \in U
    OBVIOUS
  <2> QED
    BY <2>1, <2>3
<1>2. PICK u \in U : \A v \in U : u <= v
  BY <1>1, LeastNatural
<1>3. PICK m \in T : u = bound - m
  BY <1>2
<1>4. ASSUME NEW n \in T
      PROVE  n <= m
  <2>1. bound - n \in U
    OBVIOUS
  <2>2. bound - m <= bound - n
    BY <1>2, <1>3, <2>1
  <2> QED
    BY <2>2
<1> QED
  BY <1>4

\* Induction over the natural numbers: P has all of them.
LEMMA NatInductSet ==
    ASSUME NEW P, 0 \in P, \A n \in Nat : n \in P => n + 1 \in P
    PROVE  \A n \in Nat : n \in P
<1> SUFFICES ASSUME NEW b \in Nat, b \notin P
             PROVE  FALSE
  OBVIOUS
<1>1. PICK m \in Nat \ P : \A n \in Nat \ P : m <= n
  <2>1. Nat \ P \subseteq Nat /\ Nat \ P # {}
    OBVIOUS
  <2> QED
    BY <2>1, LeastNatural
<1>2. m - 1 \in Nat /\ m - 1 \in P
  BY <1>1
<1> QED
  BY <1>1, <1>2

\* step takes a position and the value before it to the next value.
IsStep(step, n, T) == step \in [(1..n) \X T -> T]

\* f is defined by recursion: its value at 0, and a step.
IsRecursive(f, n, T, a, step) ==
    /\ f \in [0..n -> T]
    /\ f[0] = a
    /\ \A i \in 1..n : f[i] = step[<<i, f[i - 1]>>]

\* There is such a function; the step is given as a function, for operators cannot be
\* instantiated.
LEMMA RecursionOnNat ==
    ASSUME NEW T, NEW a \in T, NEW n \in Nat, NEW step, IsStep(step, n, T)
    PROVE  \E f : IsRecursive(f, n, T, a, step)
<1> DEFINE Upto(k) == \E f \in [0..k -> T] :
                        f[0] = a /\ \A i \in 1..k : f[i] = step[<<i, f[i - 1]>>]
           P == {k \in Nat : k <= n => Upto(k)}
<1>1. Upto(0)
  <2> DEFINE g == [i \in 0..0 |-> a]
  <2>1. g \in [0..0 -> T] /\ g[0] = a
    OBVIOUS
  <2>2. \A i \in 1..0 : g[i] = step[<<i, g[i - 1]>>]
    OBVIOUS
  <2> HIDE DEF g
  <2> QED
    BY <2>1, <2>2
<1>2. ASSUME NEW k \in Nat, k + 1 <= n, Upto(k)
      PROVE  Upto(k + 1)
  <2>1. PICK f \in [0..k -> T] :
           f[0] = a /\ \A i \in 1..k : f[i] = step[<<i, f[i - 1]>>]
    BY <1>2
  <2> DEFINE g == [i \in 0..(k + 1) |-> IF i <= k THEN f[i] ELSE step[<<k + 1, f[k]>>]]
  <2>2. step[<<k + 1, f[k]>>] \in T
    BY <1>2 DEF IsStep
  <2>3. g \in [0..(k + 1) -> T]
    BY <2>2
  <2>4. g[0] = a
    BY <2>1
  <2>5. ASSUME NEW i \in 1..(k + 1)
        PROVE  g[i] = step[<<i, g[i - 1]>>]
    <3>1. g[i - 1] = f[i - 1]
      OBVIOUS
    <3>2. CASE i <= k
      BY <2>1, <3>1, <3>2
    <3>3. CASE i = k + 1
      <4>1. g[k + 1] = step[<<k + 1, f[k]>>] /\ g[i - 1] = f[k]
        BY <3>1, <3>3
      <4> HIDE DEF g
      <4> QED
        BY <3>3, <4>1
    <3> QED
      BY <3>2, <3>3
  <2> HIDE DEF g
  <2> QED
    BY <2>3, <2>4, <2>5
<1> HIDE DEF Upto
<1>3. 0 \in P /\ \A k \in Nat : k \in P => k + 1 \in P
  BY <1>1, <1>2
<1>4. n \in P
  BY <1>3, NatInductSet
<1>5. Upto(n)
  BY <1>4
<1> QED
  BY <1>5 DEF Upto, IsRecursive

\* There is no other: a function defined by the same recursion stays in T.
LEMMA RecursionUnique ==
    ASSUME NEW T, NEW a \in T, NEW n \in Nat, NEW step, IsStep(step, n, T),
           NEW h, h = [i \in 0..n |-> h[i]], h[0] = a,
           \A i \in 1..n : h[i - 1] \in T => h[i] = step[<<i, h[i - 1]>>]
    PROVE  IsRecursive(h, n, T, a, step)
<1> DEFINE P == {k \in Nat : k <= n => h[k] \in T}
<1>1. 0 \in P
  OBVIOUS
<1>2. ASSUME NEW k \in Nat, k \in P
      PROVE  k + 1 \in P
  <2> SUFFICES ASSUME k + 1 <= n
               PROVE  h[k + 1] \in T
    OBVIOUS
  <2>1. h[k] \in T /\ k + 1 \in 1..n /\ (k + 1) - 1 = k
    BY <1>2
  <2>2. h[k + 1] = step[<<k + 1, h[k]>>]
    BY <2>1
  <2> QED
    BY <2>1, <2>2 DEF IsStep
<1>3. \A k \in Nat : k \in P
  BY <1>1, <1>2, NatInductSet
<1>4. \A k \in 0..n : h[k] \in T
  BY <1>3
<1>5. h \in [0..n -> T]
  BY <1>4
<1>6. \A i \in 1..n : h[i] = step[<<i, h[i - 1]>>]
  BY <1>4
<1> QED
  BY <1>5, <1>6 DEF IsRecursive
================================================================================
