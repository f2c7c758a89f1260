----------------------------- MODULE NumberFacts -----------------------------
(***************************************************************************)
(* Least and largest elements of sets of natural numbers, and remainders.  *)
(***************************************************************************)
EXTENDS Integers, WellFoundedInduction, TLAPS

LEMMA LeastNumber ==
  ASSUME NEW T \in SUBSET Nat, T # {} PROVE \E n \in T : \A m \in T : n <= m
<1> DEFINE R == OpToRel(<, Nat)
<1>1. IsWellFoundedOn(R, Nat)
  BY NatLessThanWellFounded
<1>2. \A x, y \in Nat : x < y => <<x, y>> \in R
  BY DEF OpToRel
<1> HIDE DEF R
<1>3. PICK x \in T : \A y \in T : ~ (<<y, x>> \in R)
  BY <1>1, WFMin
<1>4. ASSUME NEW y \in T PROVE x <= y
  <2>1. x \in Nat /\ y \in Nat /\ ~ (y < x)
    BY <1>2, <1>3
  <2>2. QED
    BY <2>1
<1>5. QED
  BY <1>4

LEMMA LargestNumber ==
  ASSUME NEW S \in SUBSET Nat, S # {}, NEW b \in Nat, \A x \in S : x <= b
  PROVE  \E m \in S : \A x \in S : x <= m
<1> DEFINE T == {n \in Nat : \A x \in S : x <= n}
<1>1. PICK m \in T : \A n \in T : m <= n
  BY LeastNumber
<1>2. m \in S
  <2> SUFFICES ASSUME m \notin S PROVE FALSE
    OBVIOUS
  <2>1. \A x \in S : x < m
    OBVIOUS
  <2>2. PICK x \in S : x < m
    BY <2>1
  <2>3. m - 1 \in Nat /\ \A y \in S : y <= m - 1
    BY <2>1, <2>2
  <2>4. m - 1 \in T
    BY <2>3
  <2>5. QED
    BY <1>1, <2>4
<1>3. QED
  BY <1>2

-----------------------------------------------------------------------------
(* The remainder is the only number below the divisor that differs from    *)
(* the dividend by a multiple of it.                                       *)
LEMMA RemainderIsUnique ==
  ASSUME NEW n \in Nat, NEW d \in Nat \ {0}, NEW q \in Nat, NEW r \in 0 .. d - 1,
         n = d * q + r
  PROVE  n % d = r
<1> DEFINE a == n \div d
           b == n % d
<1>1. a \in Nat /\ b \in 0 .. d - 1 /\ n = d * a + b
  OBVIOUS
<1> HIDE DEF a, b
<1>2. d * a + b = d * q + r
  BY <1>1
<1>3. ~(a < q)
  <2> SUFFICES ASSUME a < q PROVE FALSE
    OBVIOUS
  <2>1. PICK e \in Nat : q = a + 1 + e
    <3>1. q - a - 1 \in Nat /\ q = a + 1 + (q - a - 1)
      BY <1>1
    <3>2. QED
      BY <3>1
  <2>2. d * q = d * a + d + d * e
    BY <1>1, <2>1
  <2>3. d * e \in Nat /\ d * a \in Nat
    BY <1>1
  <2>4. QED
    BY <1>1, <1>2, <2>2, <2>3
<1>4. ~(q < a)
  <2> SUFFICES ASSUME q < a PROVE FALSE
    OBVIOUS
  <2>1. PICK e \in Nat : a = q + 1 + e
    <3>1. a - q - 1 \in Nat /\ a = q + 1 + (a - q - 1)
      BY <1>1
    <3>2. QED
      BY <3>1
  <2>2. d * a = d * q + d + d * e
    BY <1>1, <2>1
  <2>3. d * e \in Nat /\ d * q \in Nat
    BY <1>1
  <2>4. QED
    BY <1>1, <1>2, <2>2, <2>3
<1>5. a = q
  BY <1>1, <1>3, <1>4
<1>6. b = r
  BY <1>1, <1>2, <1>5
<1>7. QED
  BY <1>6 DEF b

(* Within one round of d numbers, counting from any number reaches each    *)
(* remainder.                                                              *)
LEMMA RoundReaches ==
  ASSUME NEW h \in Nat, NEW d \in Nat \ {0}, NEW s \in 0 .. d - 1
  PROVE  \E p \in 0 .. d - 1 : (h + p) % d = s
<1>1. PICK a \in Nat, b \in 0 .. d - 1 : h = d * a + b
  <2>1. /\ h \div d \in Nat /\ h % d \in 0 .. d - 1
        /\ h = d * (h \div d) + (h % d)
    OBVIOUS
  <2>2. QED
    BY <2>1
<1>2. CASE b <= s
  <2>1. s - b \in 0 .. d - 1 /\ h + (s - b) \in Nat
    BY <1>1, <1>2
  <2>2. h + (s - b) = d * a + s
    BY <1>1
  <2>3. (h + (s - b)) % d = s
    BY <1>1, <2>1, <2>2, RemainderIsUnique
  <2>4. QED
    BY <2>1, <2>3
<1>3. CASE b > s
  <2>1. s + d - b \in 0 .. d - 1 /\ h + (s + d - b) \in Nat
    BY <1>1, <1>3
  <2>2. h + (s + d - b) = d * (a + 1) + s
    <3>1. d * (a + 1) = d * a + d
      BY <1>1
    <3>2. QED
      BY <1>1, <3>1
  <2>3. a + 1 \in Nat
    BY <1>1
  <2>4. (h + (s + d - b)) % d = s
    BY <2>1, <2>2, <2>3, RemainderIsUnique
  <2>5. QED
    BY <2>1, <2>4
<1>4. QED
  BY <1>1, <1>2, <1>3

(* A remainder of a multiple of the divisor has the same remainder. *)
LEMMA RemainderOfMultiple ==
  ASSUME NEW n \in Nat, NEW d \in Nat \ {0}, NEW m \in Nat \ {0}
  PROVE  (n % (m * d)) % d = n % d
<1> DEFINE w == m * d
           x == n % w
<1>0. w \in Nat \ {0}
  BY Z3
<1> HIDE DEF w
<1>1. n \div w \in Nat /\ x \in 0 .. w - 1 /\ n = w * (n \div w) + x
  BY <1>0
<1>2. PICK a \in Nat : n = w * a + x
  BY <1>1
<1>3. PICK c \in Nat, b \in 0 .. d - 1 : x = d * c + b
  <2>1. /\ x \div d \in Nat /\ x % d \in 0 .. d - 1
        /\ x = d * (x \div d) + (x % d)
    BY <1>0, <1>1
  <2>2. QED
    BY <2>1
<1> HIDE DEF x
<1>4. x % d = b
  <2>1. x \in Nat
    BY <1>0, <1>1
  <2>2. QED
    BY <1>3, <2>1, RemainderIsUnique
<1>5. n = d * (m * a + c) + b
  <2>1. d * (m * a + c) = d * (m * a) + d * c
    BY <1>2, <1>3
  <2>2. (m * d) * a = d * (m * a)
    BY <1>2
  <2>3. n = (m * d) * a + (d * c + b)
    BY <1>2, <1>3 DEF w
  <2>4. d * (m * a) \in Nat /\ d * c \in Nat
    BY <1>2, <1>3
  <2>5. QED
    BY <1>3, <2>1, <2>2, <2>3, <2>4
<1>6. m * a + c \in Nat
  BY <1>2, <1>3
<1>7. n % d = b
  BY <1>3, <1>5, <1>6, RemainderIsUnique
<1>8. QED
  BY <1>4, <1>7 DEF x, w

-----------------------------------------------------------------------------
(* A sequence of numbers that is defined step by step exists. *)
LEMMA StepsUnwind ==
  ASSUME NEW n \in Nat, NEW b \in Nat, NEW step \in [1 .. n -> [Nat -> Nat]]
  PROVE  \E g \in [0 .. n -> Nat] :
           g[0] = b /\ \A i \in 1 .. n : g[i] = step[i][g[i - 1]]
<1> DEFINE Unwound(m) == \E g \in [0 .. m -> Nat] :
                           g[0] = b /\ \A i \in 1 .. m : g[i] = step[i][g[i - 1]]
           T == {m \in 0 .. n : ~Unwound(m)}
<1>1. Unwound(0)
  <2> DEFINE g == [x \in 0 .. 0 |-> b]
  <2>1. g \in [0 .. 0 -> Nat] /\ g[0] = b /\ \A i \in 1 .. 0 : g[i] = step[i][g[i - 1]]
    OBVIOUS
  <2> HIDE DEF g
  <2>2. QED
    BY <2>1
<1>2. ASSUME NEW k \in Nat, k < n, Unwound(k) PROVE Unwound(k + 1)
  <2>1. PICK g \in [0 .. k -> Nat] :
          g[0] = b /\ \A i \in 1 .. k : g[i] = step[i][g[i - 1]]
    BY <1>2
  <2> DEFINE h == [x \in 0 .. k + 1 |-> IF x = k + 1 THEN step[k + 1][g[k]] ELSE g[x]]
  <2>2. step[k + 1][g[k]] \in Nat
    <3>1. g[k] \in Nat
      OBVIOUS
    <3>2. step[k + 1] \in [Nat -> Nat]
      BY <1>2
    <3>3. QED
      BY <3>1, <3>2
  <2>3. ASSUME NEW x \in 0 .. k + 1 PROVE h[x] \in Nat
    <3>1. CASE x = k + 1
      BY <2>2, <3>1
    <3>2. CASE x # k + 1
      <4>1. x \in 0 .. k
        BY <3>2
      <4>2. QED
        BY <3>2, <4>1
    <3>3. QED
      BY <3>1, <3>2
  <2>4. h \in [0 .. k + 1 -> Nat]
    BY <2>3
  <2>5. ASSUME NEW x \in 0 .. k PROVE h[x] = g[x]
    <3>1. x \in 0 .. k + 1 /\ x # k + 1
      OBVIOUS
    <3>2. QED
      BY <3>1
  <2>6. h[k + 1] = step[k + 1][g[k]]
    <3>1. k + 1 \in 0 .. k + 1
      OBVIOUS
    <3>2. QED
      BY <3>1
  <2> HIDE DEF h
  <2>7. h[0] = b
    <3>1. 0 \in 0 .. k
      OBVIOUS
    <3>2. QED
      BY <2>1, <2>5, <3>1
  <2>8. ASSUME NEW i \in 1 .. k + 1 PROVE h[i] = step[i][h[i - 1]]
    <3>1. i - 1 \in 0 .. k
      OBVIOUS
    <3>2. h[i - 1] = g[i - 1]
      BY <2>5, <3>1
    <3>3. CASE i = k + 1
      <4>1. i - 1 = k
        BY <3>3
      <4>2. QED
        BY <2>6, <3>2, <3>3, <4>1
    <3>4. CASE i # k + 1
      <4>1. i \in 1 .. k /\ i \in 0 .. k
        BY <3>4
      <4>2. g[i] = step[i][g[i - 1]] /\ h[i] = g[i]
        BY <2>1, <2>5, <4>1
      <4>3. QED
        BY <3>2, <4>2
    <3>5. QED
      BY <3>3, <3>4
  <2>9. QED
    BY <2>4, <2>7, <2>8
<1>3. SUFFICES Unwound(n)
  OBVIOUS
<1> HIDE DEF Unwound
<1>4. SUFFICES ASSUME ~Unwound(n) PROVE FALSE
  OBVIOUS
<1>5. PICK m \in T : \A k \in T : m <= k
  <2>1. T \in SUBSET Nat /\ n \in T
    BY <1>4
  <2> HIDE DEF T
  <2>2. QED
    BY <2>1, LeastNumber
<1>6. m \in 0 .. n /\ ~Unwound(m) /\ \A k \in 0 .. n : k < m => Unwound(k)
  BY <1>5
<1>7. m # 0
  BY <1>1, <1>6
<1>8. m - 1 \in Nat /\ m - 1 < n /\ Unwound(m - 1) /\ (m - 1) + 1 = m
  BY <1>6, <1>7
<1>9. QED
  BY <1>2, <1>6, <1>8
=============================================================================
