--------------------------- MODULE InductionLemmas ---------------------------
(***************************************************************************)
(* Induction over the natural numbers for sets: the library's induction     *)
(* theorems take an operator as a parameter, these take a set.  What a fold *)
(* computes is proved with them.                                           *)
(***************************************************************************)
EXTENDS Naturals, FiniteSetTheorems, TLAPS

\* A set that holds 0, and n + 1 with n, holds every natural number: otherwise
\* n |-> n - 1 would map the missing ones up to x one to one into themselves
\* without reaching x.
LEMMA NatSetInduction ==
    ASSUME NEW T, 0 \in T, \A n \in Nat : n \in T => n + 1 \in T
    PROVE  \A n \in Nat : n \in T
<1> SUFFICES ASSUME NEW x \in Nat, x \notin T PROVE FALSE
  OBVIOUS
<1> DEFINE U == {n \in 0..x : n \notin T}
           f == [n \in U |-> n - 1]
<1>1. IsFiniteSet(U)
  <2>1. U \in SUBSET Nat /\ \A n \in U : n <= x
    OBVIOUS
  <2> HIDE DEF U
  <2> QED
    BY <2>1, FS_BoundedSetOfNaturals
<1>2. \A n \in U : n - 1 \in U
  OBVIOUS
<1>3. f \in Injection(U, U)
  <2>1. f \in [U -> U]
    BY <1>2
  <2>2. \A a, b \in U : f[a] = f[b] => a = b
    OBVIOUS
  <2> QED
    BY <2>1, <2>2 DEF Injection, IsInjective
<1>4. f \in Surjection(U, U)
  BY <1>1, <1>3, FS_Injection, Zenon
<1>5. x \in U
  OBVIOUS
<1>6. PICK n \in U : f[n] = x
  BY <1>4, <1>5 DEF Surjection
<1> QED
  BY <1>6

\* Every set of numbers up to n, but the empty one, has a greatest one.
LEMMA GreatestExists ==
    ASSUME NEW n \in Nat, NEW S \in SUBSET (1..n), S # {}
    PROVE  \E x \in S : \A y \in S : x >= y
<1> DEFINE T == {m \in Nat : \A s \in SUBSET (1..m) :
                                 s # {} => \E x \in s : \A y \in s : x >= y}
<1>1. 0 \in T
  <2>1. \A s \in SUBSET (1..0) : s = {}
    OBVIOUS
  <2> QED
    BY <2>1
<1>2. ASSUME NEW m \in Nat, m \in T PROVE m + 1 \in T
  <2> SUFFICES ASSUME NEW s \in SUBSET (1..(m + 1)), s # {}
               PROVE  \E x \in s : \A y \in s : x >= y
    OBVIOUS
  <2>1. CASE m + 1 \in s
    BY <2>1
  <2>2. CASE m + 1 \notin s
    <3>1. s \in SUBSET (1..m)
      BY <2>2
    <3> QED
      BY <1>2, <3>1
  <2> QED
    BY <2>1, <2>2
<1> HIDE DEF T
<1>3. n \in T
  BY <1>1, <1>2, NatSetInduction
<1> QED
  BY <1>3 DEF T

\* What holds of a fold over nothing, and over k steps when over k - 1, holds of
\* the fold; G[k] is the set of what is good after k steps.
LEMMA FoldReaches ==
    ASSUME NEW n \in Nat, NEW g, NEW G, g[{}] \in G[0],
           \A k \in 1..n : g[1..(k - 1)] \in G[k - 1] => g[1..k] \in G[k]
    PROVE  g[1..n] \in G[n]
<1> DEFINE T == {m \in Nat : m <= n => g[1..m] \in G[m]}
<1>1. 0 \in T
  <2>1. 1..0 = {}
    OBVIOUS
  <2> QED
    BY <2>1
<1>2. ASSUME NEW m \in Nat, m \in T PROVE m + 1 \in T
  <2>1. CASE m + 1 <= n
    <3>1. m + 1 \in 1..n /\ (m + 1) - 1 = m /\ g[1..m] \in G[m]
      BY <1>2, <2>1
    <3> QED
      BY <3>1
  <2>2. CASE ~(m + 1 <= n)
    BY <2>2
  <2> QED
    BY <2>1, <2>2
<1> HIDE DEF T
<1>3. n \in T
  BY <1>1, <1>2, NatSetInduction
<1> QED
  BY <1>3 DEF T

\* A least one as well.
LEMMA LeastExists ==
    ASSUME NEW n \in Nat, NEW S \in SUBSET (1..n), S # {}
    PROVE  \E x \in S : \A y \in S : x <= y
<1> DEFINE T == {m \in Nat : \A s \in SUBSET (1..m) :
                                 s # {} => \E x \in s : \A y \in s : x <= y}
<1>1. 0 \in T
  <2>1. \A s \in SUBSET (1..0) : s = {}
    OBVIOUS
  <2> QED
    BY <2>1
<1>2. ASSUME NEW m \in Nat, m \in T PROVE m + 1 \in T
  <2> SUFFICES ASSUME NEW s \in SUBSET (1..(m + 1)), s # {}
               PROVE  \E x \in s : \A y \in s : x <= y
    OBVIOUS
  <2>1. CASE s \subseteq {m + 1}
    <3>1. m + 1 \in s /\ \A y \in s : y = m + 1
      BY <2>1
    <3>2. m + 1 <= m + 1
      OBVIOUS
    <3> QED
      BY <3>1, <3>2
  <2>2. CASE ~(s \subseteq {m + 1})
    <3>1. s \ {m + 1} \in SUBSET (1..m) /\ s \ {m + 1} # {}
      BY <2>2
    <3>2. PICK x \in s \ {m + 1} : \A y \in s \ {m + 1} : x <= y
      BY <1>2, <3>1
    <3>3. x <= m + 1
      BY <3>1, <3>2
    <3> QED
      BY <3>2, <3>3
  <2> QED
    BY <2>1, <2>2
<1> HIDE DEF T
<1>3. n \in T
  BY <1>1, <1>2, NatSetInduction
<1> QED
  BY <1>3 DEF T

Greatest(S) == CHOOSE x \in S : \A y \in S : x >= y

\* The greatest of the places i, and the others.
LEMMA GreatestOf ==
    ASSUME NEW n \in Nat, NEW i \in SUBSET (1..n), i # {}
    PROVE  /\ Greatest(i) \in i /\ \A x \in i : Greatest(i) >= x
           /\ i \ {Greatest(i)} \in SUBSET (1..n)
BY GreatestExists DEF Greatest

\* f[i] is what H makes of c over the places i, in their order.
FoldOver(f, n, c, H) ==
    f = [i \in SUBSET (1..n) |->
            IF i = {} THEN c ELSE H[<<f[i \ {Greatest(i)}], Greatest(i)>>]]

\* There is such a function, for any number of places.
LEMMA FoldOverExists ==
    ASSUME NEW n \in Nat, NEW c, NEW H
    PROVE  \E f : FoldOver(f, n, c, H)
<1> DEFINE T == {m \in Nat : \E f : FoldOver(f, m, c, H)}
<1>1. 0 \in T
  <2> DEFINE f == [i \in SUBSET (1..0) |-> c]
  <2>1. \A i \in SUBSET (1..0) : i = {}
    OBVIOUS
  <2>2. FoldOver(f, 0, c, H)
    BY <2>1 DEF FoldOver
  <2> QED
    BY <2>2
<1>2. ASSUME NEW m \in Nat, m \in T PROVE m + 1 \in T
  <2>1. PICK f : FoldOver(f, m, c, H)
    BY <1>2
  <2> DEFINE g == [i \in SUBSET (1..(m + 1)) |->
                     IF m + 1 \in i THEN H[<<f[i \ {m + 1}], m + 1>>] ELSE f[i]]
  <2>2. \A i \in SUBSET (1..m) : i \in SUBSET (1..(m + 1)) /\ m + 1 \notin i
    OBVIOUS
  <2>3. \A i \in SUBSET (1..m) : g[i] = f[i]
    BY <2>2
  <2>4. ASSUME NEW i \in SUBSET (1..(m + 1))
        PROVE  g[i] = IF i = {} THEN c ELSE H[<<g[i \ {Greatest(i)}], Greatest(i)>>]
    <3>1. CASE m + 1 \in i
      <4>1. Greatest(i) \in i /\ \A x \in i : Greatest(i) >= x
        BY <3>1, GreatestOf
      <4>2. Greatest(i) = m + 1
        <5>1. Greatest(i) \in 1..(m + 1) /\ Greatest(i) >= m + 1
          BY <3>1, <4>1
        <5> HIDE DEF g
        <5> QED
          BY <5>1
      <4>3. i \ {m + 1} \in SUBSET (1..m)
        OBVIOUS
      <4>4. g[i] = H[<<f[i \ {m + 1}], m + 1>>]
        BY <3>1
      <4>5. g[i \ {m + 1}] = f[i \ {m + 1}]
        BY <2>3, <4>3
      <4> HIDE DEF g
      <4> QED
        BY <3>1, <4>2, <4>4, <4>5
    <3>2. CASE m + 1 \notin i
      <4>1. i \in SUBSET (1..m)
        BY <3>2
      <4>2. g[i] = f[i]
        BY <2>3, <4>1
      <4>3. f[i] = IF i = {} THEN c ELSE H[<<f[i \ {Greatest(i)}], Greatest(i)>>]
        BY <2>1, <4>1 DEF FoldOver
      <4>4. i # {} => i \ {Greatest(i)} \in SUBSET (1..m)
        BY <4>1
      <4>5. i # {} => g[i \ {Greatest(i)}] = f[i \ {Greatest(i)}]
        BY <2>3, <4>4
      <4> HIDE DEF g
      <4> QED
        BY <4>2, <4>3, <4>5
    <3> QED
      BY <3>1, <3>2
  <2>5. FoldOver(g, m + 1, c, H)
    <3>1. g = [i \in SUBSET (1..(m + 1)) |-> g[i]]
      OBVIOUS
    <3> HIDE DEF g
    <3> QED
      BY <2>4, <3>1 DEF FoldOver
  <2> QED
    BY <2>5
<1> HIDE DEF T
<1>3. n \in T
  BY <1>1, <1>2, NatSetInduction
<1> QED
  BY <1>3 DEF T

\* The values of such a function stay where H leads.
LEMMA FoldOverStays ==
    ASSUME NEW n \in Nat, NEW D, NEW c \in D, NEW H,
           \A d \in D, k \in 1..n : H[<<d, k>>] \in D,
           NEW f, FoldOver(f, n, c, H)
    PROVE  \A i \in SUBSET (1..n) : f[i] \in D
<1> DEFINE T == {m \in Nat : m <= n => \A i \in SUBSET (1..m) : f[i] \in D}
<1>0. /\ f[{}] = c
      /\ \A i \in SUBSET (1..n) : i # {} =>
             f[i] = H[<<f[i \ {Greatest(i)}], Greatest(i)>>]
  <2>1. {} \in SUBSET (1..n)
    OBVIOUS
  <2> QED
    BY <2>1 DEF FoldOver
<1>1. 0 \in T
  <2>1. \A i \in SUBSET (1..0) : i = {}
    OBVIOUS
  <2> QED
    BY <1>0, <2>1
<1>2. ASSUME NEW m \in Nat, m \in T PROVE m + 1 \in T
  <2> SUFFICES ASSUME m + 1 <= n, NEW i \in SUBSET (1..(m + 1)), i # {} PROVE f[i] \in D
    BY <1>0
  <2> DEFINE j == i \ {Greatest(i)}
  <2>0. m + 1 \in Nat
    OBVIOUS
  <2>1. /\ Greatest(i) \in i /\ \A x \in i : Greatest(i) >= x
    BY <2>0, GreatestOf
  <2>2. i \in SUBSET (1..n) /\ Greatest(i) \in 1..n /\ Greatest(i) \in 1..(m + 1)
    <3>1. \A x \in 1..(m + 1) : x \in 1..n
      OBVIOUS
    <3> QED
      BY <2>1, <3>1
  <2>3. j \in SUBSET (1..m)
    <3>1. ASSUME NEW x \in j PROVE x \in 1..m
      <4>1. x \in i /\ x # Greatest(i) /\ Greatest(i) >= x
        BY <2>1
      <4> QED
        BY <2>2, <4>1
    <3> QED
      BY <3>1
  <2> HIDE DEF j
  <2>4. f[j] \in D
    BY <1>2, <2>3
  <2> QED
    BY <1>0, <2>2, <2>4 DEF j
<1> HIDE DEF T
<1>3. n \in T
  BY <1>1, <1>2, NatSetInduction
<1> QED
  BY <1>3 DEF T

\* The first k of n places.
LEMMA Prefix ==
    ASSUME NEW n \in Nat, NEW k \in 1..n
    PROVE  /\ 1..k \in SUBSET (1..n) /\ 1..k # {} /\ k - 1 \in Nat
           /\ Greatest(1..k) = k /\ (1..k) \ {Greatest(1..k)} = 1..(k - 1)
<1> DEFINE i == 1..k
<1>1. i \in SUBSET (1..n) /\ i # {} /\ k \in i /\ \A x \in i : k >= x
  <2>1. \A x \in 1..k : x \in 1..n /\ k >= x
    OBVIOUS
  <2>2. k \in 1..k
    OBVIOUS
  <2> QED
    BY <2>1, <2>2
<1>2. Greatest(i) \in i /\ \A x \in i : Greatest(i) >= x
  BY <1>1, GreatestOf
<1>3. Greatest(i) = k
  BY <1>1, <1>2
<1>4. i \ {k} = 1..(k - 1) /\ k - 1 \in Nat
  OBVIOUS
<1> QED
  BY <1>1, <1>3, <1>4
=============================================================================
