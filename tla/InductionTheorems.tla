-------------------------- MODULE InductionTheorems --------------------------
(***************************************************************************)
(* Induction over numbers without an operator for the induction hypothesis, *)
(* which is a set here, and the existence of functions that are defined by  *)
(* recursion over the numbers up to a bound.                                *)
(***************************************************************************)
EXTENDS Integers, FiniteSetTheorems, WellFoundedInduction, TLAPS

\* A non-empty set of naturals has a least element.
LEMMA LeastNatural ==
    ASSUME NEW S, S \subseteq Nat, S # {}
    PROVE  \E x \in S : \A y \in S : x <= y
<1>1. PICK x \in S : \A y \in S : ~ (<<y, x>> \in OpToRel(<, Nat))
  BY NatLessThanWellFounded, WFMin
<1>2. \A y \in S : ~ (y < x)
  BY <1>1 DEF OpToRel
<1> QED
  BY <1>2

\* A set that has 0, and with a number below N the next one, has all up to N.
LEMMA NaturalsUpTo ==
    ASSUME NEW N \in Nat, NEW S, 0 \in S, \A k \in 0..(N - 1) : k \in S => k + 1 \in S
    PROVE  \A k \in 0..N : k \in S
<1> SUFFICES ASSUME NEW j \in 0..N, j \notin S PROVE FALSE
  OBVIOUS
<1> DEFINE M == 0..N \ S
<1>1. M # {} /\ M \subseteq Nat
  OBVIOUS
<1> HIDE DEF M
<1>2. PICK x \in M : \A y \in M : x <= y
  BY <1>1, LeastNatural
<1>3. x \in 1..N /\ x - 1 \in 0..(N - 1) /\ x - 1 < x
  BY <1>2 DEF M
<1>4. x - 1 \in S
  BY <1>2, <1>3 DEF M
<1> QED
  BY <1>2, <1>3, <1>4 DEF M

\* A non-empty finite set of naturals has a greatest element.
LEMMA GreatestNatural ==
    ASSUME NEW S, S \subseteq Nat, S # {}, IsFiniteSet(S)
    PROVE  \E x \in S : \A y \in S : y <= x
<1>1. \E n \in Nat : \A x \in S : x <= n
  <2>1. PICK n \in Nat : ExistsSurjection(1..n, S)
    BY FS_NatSurjection
  <2>2. PICK f \in [1..n -> S] : \A y \in S : \E j \in 1..n : f[j] = y
    BY <2>1 DEF ExistsSurjection, Surjection
  <2> DEFINE T == {k \in 0..n : \E b \in Nat : \A j \in 1..k : f[j] <= b}
  <2>3. 0 \in T
    <3>1. \A j \in 1..0 : f[j] <= 0
      OBVIOUS
    <3> QED
      BY <2>1, <3>1
  <2>4. ASSUME NEW k \in 0..(n - 1), k \in T PROVE k + 1 \in T
    <3>1. PICK b \in Nat : \A j \in 1..k : f[j] <= b
      BY <2>4
    <3>2. k + 1 \in 0..n /\ k + 1 \in 1..n /\ f[k + 1] \in Nat
      <4>1. k + 1 \in 0..n /\ k + 1 \in 1..n
        BY <2>1
      <4>2. f[k + 1] \in S
        BY <2>2, <4>1
      <4> QED
        BY <4>1, <4>2
    <3>3. \A j \in 1..(k + 1) : j \in 1..k \/ j = k + 1
      OBVIOUS
    <3>4. \A j \in 1..(k + 1) : f[j] \in Nat /\ f[j] <= b + f[k + 1]
      <4> SUFFICES ASSUME NEW j \in 1..(k + 1) PROVE f[j] \in Nat /\ f[j] <= b + f[k + 1]
        OBVIOUS
      <4>1. j \in 1..n /\ f[j] \in Nat
        <5>1. j \in 1..n
          BY <2>1
        <5>2. f[j] \in S
          BY <2>2, <5>1
        <5> QED
          BY <5>1, <5>2
      <4>2. CASE j = k + 1
        BY <3>2, <4>2
      <4>3. CASE j # k + 1
        <5>1. f[j] <= b
          BY <3>1, <3>3, <4>3
        <5> QED
          BY <3>2, <4>1, <5>1
      <4> QED
        BY <4>2, <4>3
    <3>5. b + f[k + 1] \in Nat
      BY <3>2
    <3> QED
      BY <3>2, <3>4, <3>5
  <2> HIDE DEF T
  <2>5. n \in T
    <3>1. \A k \in 0..n : k \in T
      BY <2>1, <2>3, <2>4, NaturalsUpTo
    <3> QED
      BY <2>1, <3>1
  <2>6. PICK b \in Nat : \A j \in 1..n : f[j] <= b
    BY <2>5 DEF T
  <2> QED
    BY <2>2, <2>6
<1> DEFINE B == {b \in Nat : \A x \in S : x <= b}
<1>2. B \subseteq Nat /\ B # {}
  BY <1>1
<1> HIDE DEF B
<1>3. PICK b \in B : \A c \in B : b <= c
  BY <1>2, LeastNatural
<1>4. b \in S
  <2>1. SUFFICES ASSUME b \notin S PROVE FALSE
    OBVIOUS
  <2>2. \A x \in S : x <= b /\ x # b /\ x \in Nat
    BY <1>3, <2>1 DEF B
  <2>3. b \in Nat /\ b - 1 \notin B
    BY <1>3 DEF B
  <2>4. PICK y \in S : TRUE
    OBVIOUS
  <2>5. b - 1 \in Nat /\ \A x \in S : x <= b - 1
    BY <2>2, <2>3, <2>4
  <2> QED
    BY <2>3, <2>5 DEF B
<1> QED
  BY <1>3, <1>4 DEF B

\* g is defined by recursion: it begins with b, and F makes the value at a
\* number of that number and the value before.
Computes(g, N, b, F) == g[0] = b /\ \A k \in 1..N : g[k] = F[<<k, g[k - 1]>>]

\* What is defined by recursion exists.
LEMMA Recursion ==
    ASSUME NEW N \in Nat, NEW V, NEW b \in V, NEW F \in [(1..N) \X V -> V]
    PROVE  \E g \in [0..N -> V] : Computes(g, N, b, F)
<1> DEFINE Defined(n, g) == g \in [0..n -> V] /\ Computes(g, n, b, F)
           S == {n \in 0..N : \E g : Defined(n, g)}
<1>1. 0 \in S
  <2>1. Defined(0, [k \in 0..0 |-> b])
    BY DEF Computes
  <2> HIDE DEF Defined
  <2> QED
    BY <2>1
<1>2. ASSUME NEW n \in 0..(N - 1), n \in S PROVE n + 1 \in S
  <2>1. PICK g : Defined(n, g)
    BY <1>2
  <2> DEFINE h == [k \in 0..(n + 1) |-> IF k = n + 1 THEN F[<<n + 1, g[n]>>] ELSE g[k]]
  <2>2. h \in [0..(n + 1) -> V] /\ h[0] = b
    BY <2>1 DEF Computes
  <2>3. ASSUME NEW k \in 1..(n + 1) PROVE h[k] = F[<<k, h[k - 1]>>]
    <3>1. k - 1 \in 0..n /\ h[k - 1] = g[k - 1]
      BY <2>3
    <3>2. CASE k = n + 1
      BY SMTT(30), <3>1, <3>2
    <3>3. CASE k # n + 1
      <4>1. k \in 1..n /\ h[k] = g[k]
        BY <3>3
      <4> QED
        BY <2>1, <3>1, <4>1 DEF Computes
    <3> QED
      BY <3>2, <3>3
  <2> HIDE DEF h
  <2>4. Defined(n + 1, h)
    BY <2>2, <2>3 DEF Computes
  <2> QED
    BY <2>4
<1> HIDE DEF S
<1>3. N \in S
  BY <1>1, <1>2, NaturalsUpTo
<1> QED
  BY <1>3 DEF S

=============================================================================
