--------------------------- MODULE IntegerBounds ---------------------------
(***************************************************************************)
(* Least and greatest values of a finite family of integers: what the      *)
(* proofs need of Min and Max, which pick the ranks of a push_front; and   *)
(* induction over an interval, for what a recursive function keeps.        *)
(***************************************************************************)
EXTENDS Integers, FiniteSetsExt, WellFoundedInduction, TLAPS

(* Every non-empty set of naturals has a least element. *)
LEMMA LeastNatural ==
  ASSUME NEW T \in SUBSET Nat, T # {}
  PROVE  \E x \in T : \A y \in T : x <= y
<1> DEFINE R == OpToRel(<, Nat)
<1>1. ASSUME NEW x \in Nat, NEW y \in Nat, y < x PROVE <<y, x>> \in R
  BY <1>1 DEF OpToRel
<1>2. IsWellFoundedOn(R, Nat)
  BY NatLessThanWellFounded
<1> HIDE DEF R
<1>3. PICK x \in T : \A y \in T : ~(<<y, x>> \in R)
  BY <1>2, WFMin
<1>4. ASSUME NEW y \in T PROVE x <= y
  <2>1. x \in Nat /\ y \in Nat
    OBVIOUS
  <2>2. ~(y < x)
    BY <1>1, <1>3, <2>1
  <2> QED BY <2>1, <2>2
<1> QED
  BY <1>4

(* Induction over an interval, for a set: it holds 0 and with a number its  *)
(* successor, so it holds the whole interval.                               *)
LEMMA IntervalInduction ==
  ASSUME NEW n \in Nat, NEW T, 0 \in T, \A k \in 0..(n - 1) : k \in T => k + 1 \in T
  PROVE  0..n \subseteq T
<1> DEFINE B == {k \in 0..n : k \notin T}
<1>1. SUFFICES ASSUME B # {} PROVE FALSE
  OBVIOUS
<1>2. PICK k \in B : \A y \in B : k <= y
  <2>1. B \in SUBSET Nat
    OBVIOUS
  <2> HIDE DEF B
  <2> QED BY <1>1, <2>1, LeastNatural
<1>3. k \in 0..n /\ k \notin T /\ k # 0
  BY <1>2
<1>4. k - 1 \in 0..(n - 1) /\ (k - 1) + 1 = k
  BY <1>3
<1>5. k - 1 \notin T
  BY <1>3, <1>4
<1>6. k - 1 \in B
  BY <1>4, <1>5
<1> QED
  BY <1>2, <1>3, <1>6

(* The values of a function on a non-empty set of indices have a least one. *)
LEMMA LeastValue ==
  ASSUME NEW N \in Nat, NEW f \in [1..N -> Int], NEW A \in SUBSET (1..N), A # {}
  PROVE  \E a \in A : \A b \in A : f[a] <= f[b]
<1> DEFINE Has(k) == \E a \in A : a <= k /\ \A b \in A : b <= k => f[a] <= f[b]
           T == {k \in 1..N : (\E a \in A : a <= k) /\ ~Has(k)}
<1>1. PICK a0 \in A : TRUE
  OBVIOUS
<1>2. ASSUME T = {} PROVE \E a \in A : \A b \in A : f[a] <= f[b]
  <2>1. N \in 1..N /\ a0 <= N
    BY <1>1
  <2>2. Has(N)
    BY <1>1, <1>2, <2>1
  <2>3. \A b \in A : b <= N
    OBVIOUS
  <2> QED BY <2>2, <2>3
<1>3. ASSUME T # {} PROVE FALSE
  <2>1. T \in SUBSET Nat
    OBVIOUS
  <2> HIDE DEF T
  <2>2. PICK k \in T : \A y \in T : k <= y
    BY <1>3, <2>1, LeastNatural
  <2>7. k - 1 \notin T
    BY <2>1, <2>2
  <2> USE DEF T
  <2>3. k \in 1..N /\ ~Has(k)
    BY <2>2
  <2>4. PICK a \in A : a <= k
    BY <2>2
  <2>5. CASE \E c \in A : c <= k - 1
    <3>1. k - 1 \in 1..N
      BY <2>3, <2>5
    <3>3. Has(k - 1)
      BY <2>5, <2>7, <3>1
    <3>4. PICK x \in A : x <= k - 1 /\ \A b \in A : b <= k - 1 => f[x] <= f[b]
      BY <3>3
    <3>5. \A b \in A : b <= k => b <= k - 1 \/ b = k
      BY <2>3
    <3>6. CASE k \in A /\ f[k] < f[x]
      <4>1. ASSUME NEW b \in A, b <= k PROVE f[k] <= f[b]
        <5>1. f[k] \in Int /\ f[x] \in Int /\ f[b] \in Int
          BY <3>6
        <5>2. CASE b = k
          BY <5>1, <5>2
        <5>3. CASE b <= k - 1
          <6>1. f[x] <= f[b]
            BY <3>4, <5>3
          <6> QED BY <3>6, <5>1, <6>1
        <5> QED BY <3>5, <4>1, <5>2, <5>3
      <4> QED BY <4>1, <3>6, <2>3
    <3>7. CASE ~(k \in A /\ f[k] < f[x])
      <4>1. \A b \in A : b <= k => f[x] <= f[b]
        BY <3>4, <3>5, <3>7, <2>3
      <4> QED BY <4>1, <3>4, <2>3
    <3> QED BY <3>6, <3>7
  <2>6. CASE ~\E c \in A : c <= k - 1
    <3>1. \A b \in A : b <= k => b = k
      BY <2>3, <2>6
    <3> QED BY <3>1, <2>4, <2>3
  <2> QED BY <2>5, <2>6
<1> QED BY <1>2, <1>3

(* The least of finitely many integers is an integer. *)
LEMMA MinIsInt ==
  ASSUME NEW N \in Nat, NEW f \in [1..N -> Int], NEW A \in SUBSET (1..N), A # {}
  PROVE  Min({f[a] : a \in A}) \in Int
<1>1. PICK a \in A : \A b \in A : f[a] <= f[b]
  BY LeastValue
<1>2. \E x \in {f[c] : c \in A} : \A y \in {f[c] : c \in A} : x <= y
  BY <1>1
<1>3. Min({f[c] : c \in A}) \in {f[c] : c \in A}
  BY <1>2 DEF Min
<1> QED BY <1>3

(* The greatest of finitely many integers is an integer. *)
LEMMA MaxIsInt ==
  ASSUME NEW N \in Nat, NEW f \in [1..N -> Int], NEW A \in SUBSET (1..N), A # {}
  PROVE  Max({f[a] : a \in A}) \in Int
<1> DEFINE g == [i \in 1..N |-> 0 - f[i]]
<1>0. g \in [1..N -> Int]
  OBVIOUS
<1>1. PICK a \in A : \A b \in A : g[a] <= g[b]
  <2> HIDE DEF g
  <2> QED BY <1>0, LeastValue
<1>2. \A b \in A : f[a] >= f[b]
  <2>1. SUFFICES ASSUME NEW b \in A PROVE f[a] >= f[b]
    OBVIOUS
  <2>2. f[a] \in Int /\ f[b] \in Int /\ g[a] = 0 - f[a] /\ g[b] = 0 - f[b] /\ g[a] <= g[b]
    BY <1>1
  <2> QED BY <2>2
<1>3. \E x \in {f[c] : c \in A} : \A y \in {f[c] : c \in A} : x >= y
  BY <1>2
<1>4. Max({f[c] : c \in A}) \in {f[c] : c \in A}
  BY <1>3 DEF Max
<1> QED BY <1>4
=============================================================================
