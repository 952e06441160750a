----------------------- MODULE TaskSetGeneratorProofs -----------------------
(***************************************************************************)
(* Proofs about TaskSetGenerator, for any number of tasks, any period and  *)
(* constraint ranges and any width of an int: reports have room for every  *)
(* task set the loops accept, and the set is one the kernel can run when   *)
(* the least common multiple of its periods is an int.                     *)
(*                                                                         *)
(* First Euclid: GCD, a recursive function, is the greatest common divisor *)
(* and LCM without overflow the least common multiple.  Then the loop of   *)
(* calculateHiperperiod, by induction over its iterations: each temp is    *)
(* the least common multiple of the periods so far, hence no larger than   *)
(* the last one, and an int.  Last the state machine and the durations.    *)
(***************************************************************************)
EXTENDS TaskSetGenerator, ArithmeticLemmas

(* A number is divisible if it is a multiple.                              *)
LEMMA DivisibleIff ==
  ASSUME NEW d \in Nat \ {0}, NEW n \in Nat
  PROVE  n % d = 0 <=> \E k \in Nat : n = d * k
<1>1. ASSUME n % d = 0 PROVE \E k \in Nat : n = d * k
  <2>1. n \div d \in Nat /\ n = d * (n \div d) + (n % d)
    BY DivMod
  <2>2. n = d * (n \div d)
    BY <1>1, <2>1
  <2>. QED  BY <2>1, <2>2
<1>2. ASSUME NEW k \in Nat, n = d * k PROVE n % d = 0
  <2>1. (d * k) % d = 0
    BY DivModMultiple
  <2>. QED  BY <1>2, <2>1, Zenon
<1>. QED  BY <1>1, <1>2

(* Multiples and sums of multiples are divisible.                          *)
LEMMA DivisibleSum ==
  ASSUME NEW d \in Nat \ {0}, NEW m \in Nat, NEW n \in Nat, m % d = 0
  PROVE  /\ (m * n) % d = 0 /\ (n * m) % d = 0
         /\ n % d = 0 <=> (m + n) % d = 0
<1>1. PICK k \in Nat : m = d * k
  BY DivisibleIff
<1>2. m * n = d * (k * n) /\ n * m = d * (k * n) /\ k * n \in Nat
  <2>1. (d * k) * n = d * (k * n) /\ k * n \in Nat
    OBVIOUS
  <2>2. m * n = d * (k * n)
    BY <1>1, <2>1, Zenon
  <2>3. n * m = m * n
    OBVIOUS
  <2>. QED  BY <2>1, <2>2, <2>3, Zenon
<1>3. (m * n) % d = 0 /\ (n * m) % d = 0
  <2>1. (d * (k * n)) % d = 0
    BY <1>2, DivModMultiple
  <2>. QED  BY <1>2, <2>1, Zenon
<1>4. ASSUME n % d = 0 PROVE (m + n) % d = 0
  <2>1. PICK l \in Nat : n = d * l
    BY <1>4, DivisibleIff
  <2>2. m + n = d * (k + l) /\ k + l \in Nat
    BY <1>1, <2>1
  <2>3. (d * (k + l)) % d = 0
    BY <2>2, DivModMultiple
  <2>. QED  BY <2>2, <2>3, Zenon
<1>5. ASSUME (m + n) % d = 0 PROVE n % d = 0
  <2>1. PICK l \in Nat : m + n = d * l
    BY <1>5, DivisibleIff, m + n \in Nat
  <2>2. n = d * (l - k) /\ l - k \in Int
    BY <1>1, <2>1
  <2>3. (d * (l - k)) % d = 0
    BY <2>2, DivModMultiple
  <2>. QED  BY <2>2, <2>3, Zenon
<1>. QED  BY <1>3, <1>4, <1>5
-----------------------------------------------------------------------------
(* The common divisors, and the greatest member of a set.                  *)
Divisors(m, n) == {d \in Nat \ {0} : m % d = 0 /\ n % d = 0}
Greatest(S) == CHOOSE m \in S : \A k \in S : k <= m

(* Euclid's step keeps the common divisors.                                *)
LEMMA EuclidsStep ==
  ASSUME NEW m \in Nat, NEW n \in Nat \ {0}
  PROVE  Divisors(n, m % n) = Divisors(m, n)
<1> DEFINE q == m \div n
           r == m % n
<1>1. q \in Nat /\ r \in Nat /\ m = n * q + r
  BY DivMod
<1> HIDE DEF q, r
<1>2. ASSUME NEW d \in Nat \ {0}, n % d = 0
      PROVE  m % d = 0 <=> r % d = 0
  <2> DEFINE p == n * q
  <2>1. p \in Nat /\ p % d = 0
    <3>1. (n * q) % d = 0
      BY <1>1, <1>2, DivisibleSum
    <3>. QED  BY <1>1, <3>1
  <2>2. m = p + r
    BY <1>1
  <2> HIDE DEF p
  <2>3. r % d = 0 <=> (p + r) % d = 0
    <3>1. p \in Nat /\ r \in Nat /\ p % d = 0
      BY <1>1, <2>1
    <3>. QED  BY <3>1, DivisibleSum, Zenon
  <2>4. m % d = (p + r) % d
    BY <2>2, Zenon
  <2>. QED  BY <2>3, <2>4, Zenon
<1>3. \A d \in Nat \ {0} : (n % d = 0 /\ r % d = 0) <=> (m % d = 0 /\ n % d = 0)
  BY <1>2
<1>. QED  BY <1>3 DEF Divisors, r

LEMMA GreatestUnique ==
  ASSUME NEW S \in SUBSET Nat, NEW m \in S, \A k \in S : k <= m
  PROVE  Greatest(S) = m
<1>1. Greatest(S) \in S /\ \A k \in S : k <= Greatest(S)
  BY DEF Greatest
<1>2. \A i, j \in Nat : i <= j /\ j <= i => i = j
  OBVIOUS
<1>3. Greatest(S) \in Nat /\ m \in Nat /\ m <= Greatest(S) /\ Greatest(S) <= m
  BY <1>1
<1>. QED  BY <1>2, <1>3

(* The function that GCD recurses to compute.                              *)
Gcd(m, n) == IF n = 0 THEN m ELSE Greatest(Divisors(m, n))

LEMMA GcdRecursion ==
  ASSUME NEW m \in Nat, NEW n \in Nat \ {0}
  PROVE  Gcd(m, n) = Gcd(n, m % n)
<1>1. m % n \in Nat
  BY DivMod
<1>2. CASE m % n # 0
  BY <1>1, <1>2, EuclidsStep DEF Gcd
<1>3. CASE m % n = 0
  <2>1. n \in Divisors(m, n)
    BY <1>3 DEF Divisors
  <2>2. \A k \in Divisors(m, n) : k <= n
    BY DivisorAtMost DEF Divisors
  <2>3. Greatest(Divisors(m, n)) = n
    BY <2>1, <2>2, GreatestUnique DEF Divisors
  <2>. QED  BY <1>3, <2>3 DEF Gcd
<1>. QED  BY <1>2, <1>3

(* It satisfies the equation of GCD, so there is a function that does.     *)
LEMMA GcdExists ==
  \A p \in Nat \X Nat : GCD[p] = IF p[2] = 0 THEN p[1] ELSE GCD[<<p[2], p[1] % p[2]>>]
<1> DEFINE f == [p \in Nat \X Nat |-> Gcd(p[1], p[2])]
<1>1. ASSUME NEW p \in Nat \X Nat
      PROVE  f[p] = IF p[2] = 0 THEN p[1] ELSE f[<<p[2], p[1] % p[2]>>]
  <2>1. CASE p[2] = 0
    BY <2>1 DEF Gcd
  <2>2. CASE p[2] # 0
    <3>1. p[1] \in Nat /\ p[2] \in Nat \ {0} /\ p[1] % p[2] \in Nat
      BY <2>2, DivMod
    <3>2. Gcd(p[1], p[2]) = Gcd(p[2], p[1] % p[2])
      BY <3>1, GcdRecursion
    <3>. QED  BY <2>2, <3>1, <3>2
  <2>. QED  BY <2>1, <2>2
<1>2. f = [p \in Nat \X Nat |-> IF p[2] = 0 THEN p[1] ELSE f[<<p[2], p[1] % p[2]>>]]
  <2> HIDE DEF f
  <2>1. f = [p \in Nat \X Nat |-> f[p]]
    BY DEF f
  <2>. QED  BY <1>1, <2>1
<1> HIDE DEF f
<1>3. GCD = [p \in Nat \X Nat |-> IF p[2] = 0 THEN p[1] ELSE GCD[<<p[2], p[1] % p[2]>>]]
  BY <1>2 DEF GCD
<1>. QED  BY <1>3

(* GCD is that function: the recursion decreases its second argument.      *)
LEMMA GcdValue ==
  \A m, n \in Nat : GCD[<<m, n>>] = Gcd(m, n)
<1> DEFINE Bad == {n \in Nat : \E m \in Nat : GCD[<<m, n>>] # Gcd(m, n)}
<1> SUFFICES ASSUME Bad # {} PROVE FALSE
  OBVIOUS
<1>1. \E n \in Bad : \A k \in Bad : n <= k
  BY LeastOf
<1>2. PICK n \in Bad : \A k \in Bad : n <= k
  BY <1>1
<1>3. PICK m \in Nat : GCD[<<m, n>>] # Gcd(m, n)
  OBVIOUS
<1>4. n \in Nat
  OBVIOUS
<1>5. GCD[<<m, n>>] = IF n = 0 THEN m ELSE GCD[<<n, m % n>>]
  BY <1>3, <1>4, GcdExists
<1>6. CASE n = 0
  BY <1>3, <1>5, <1>6 DEF Gcd
<1>7. CASE n # 0
  <2>1. m % n \in 0..(n - 1)
    BY <1>3, <1>4, <1>7, DivMod
  <2>2. m % n \notin Bad
    BY <1>2, <1>4, <2>1
  <2>3. GCD[<<n, m % n>>] = Gcd(n, m % n)
    BY <1>4, <2>1, <2>2
  <2>4. Gcd(m, n) = Gcd(n, m % n)
    BY <1>3, <1>4, <1>7, GcdRecursion
  <2>. QED  BY <1>3, <1>5, <1>7, <2>3, <2>4
<1>. QED  BY <1>6, <1>7

(* GCD computes the greatest common divisor.                               *)
LEMMA GcdGreatest ==
  ASSUME NEW m \in Nat \ {0}, NEW n \in Nat \ {0}
  PROVE  /\ GCD[<<m, n>>] \in Divisors(m, n)
         /\ \A d \in Divisors(m, n) : d <= GCD[<<m, n>>]
<1> DEFINE Below == {k \in Nat : \E d \in Divisors(m, n) : k = m - d}
<1>1. \A d \in Divisors(m, n) : d \in Nat /\ d <= m
  BY DivisorAtMost DEF Divisors
<1>2. 1 \in Divisors(m, n)
  <2>1. m % 1 = 0 /\ n % 1 = 0
    OBVIOUS
  <2>. QED  BY <2>1 DEF Divisors
<1>3. m - 1 \in Below /\ Below \in SUBSET Nat
  BY <1>2
<1>4. \E k \in Below : \A l \in Below : k <= l
  <2> HIDE DEF Below
  <2>. QED  BY <1>3, LeastOf
<1>5. PICK k \in Below : \A l \in Below : k <= l
  BY <1>4
<1>6. PICK g \in Divisors(m, n) : k = m - g
  BY <1>5
<1>7. \A d \in Divisors(m, n) : d <= g
  <2> SUFFICES ASSUME NEW d \in Divisors(m, n) PROVE d <= g
    OBVIOUS
  <2>1. m - d \in Below
    BY <1>1
  <2>2. k <= m - d
    BY <1>5, <2>1
  <2>. QED  BY <1>1, <1>6, <2>2
<1>8. Divisors(m, n) \in SUBSET Nat
  BY DEF Divisors
<1>9. Greatest(Divisors(m, n)) = g
  BY <1>7, <1>8, GreatestUnique
<1>10. GCD[<<m, n>>] = Gcd(m, n) /\ Gcd(m, n) = Greatest(Divisors(m, n))
  BY GcdValue DEF Gcd
<1>. QED  BY <1>7, <1>9, <1>10
-----------------------------------------------------------------------------
(* The common multiples; the least of them divides every other.            *)
Multiples(m, n) == {k \in Nat \ {0} : k % m = 0 /\ k % n = 0}

LEMMA LeastMultipleDivides ==
  ASSUME NEW m \in Nat \ {0}, NEW n \in Nat \ {0},
         NEW l \in Multiples(m, n), \A k \in Multiples(m, n) : l <= k,
         NEW k \in Multiples(m, n)
  PROVE  k % l = 0
<1> DEFINE q == k \div l
           r == k % l
<1>1. l \in Nat \ {0} /\ k \in Nat \ {0} /\ l % m = 0 /\ l % n = 0 /\ k % m = 0 /\ k % n = 0
  BY DEF Multiples
<1>2. q \in Nat /\ r \in 0..(l - 1) /\ k = l * q + r
  BY <1>1, DivMod
<1> HIDE DEF q, r
<1>3. ASSUME NEW d \in Nat \ {0}, l % d = 0, k % d = 0
      PROVE  r % d = 0
  <2> DEFINE p == l * q
  <2>1. p \in Nat /\ p % d = 0
    <3>1. (l * q) % d = 0
      BY <1>1, <1>2, <1>3, DivisibleSum
    <3>. QED  BY <1>1, <1>2, <3>1
  <2>2. k = p + r /\ r \in Nat
    BY <1>1, <1>2
  <2> HIDE DEF p
  <2>3. r % d = 0 <=> (p + r) % d = 0
    BY <2>1, <2>2, DivisibleSum
  <2>. QED  BY <1>3, <2>2, <2>3
<1>4. r % m = 0 /\ r % n = 0
  BY <1>1, <1>3
<1>5. r = 0
  <2> SUFFICES ASSUME r # 0 PROVE FALSE
    OBVIOUS
  <2>1. r \in Multiples(m, n)
    BY <1>2, <1>4 DEF Multiples
  <2>. QED  BY <1>1, <1>2, <2>1
<1>. QED  BY <1>5 DEF r

LEMMA Cancel ==
  ASSUME NEW i \in Nat \ {0}, NEW j \in Nat, NEW k \in Nat, i * j = i * k
  PROVE  j = k
<1>1. (i * j) \div i = j /\ (i * k) \div i = k
  BY DivModMultiple
<1>. QED  BY <1>1

(* LCM without overflow: dividing first by the greatest common divisor     *)
(* leaves the least common multiple.                                       *)
LEMMA LeastMultiple ==
  ASSUME NEW m \in Nat \ {0}, NEW n \in Nat \ {0}
  PROVE  LET l == (m \div GCD[<<m, n>>]) * n
         IN  l \in Multiples(m, n) /\ \A k \in Multiples(m, n) : k % l = 0
<1>1. PICK g \in Divisors(m, n) : g = GCD[<<m, n>>] /\ \A d \in Divisors(m, n) : d <= g
  BY GcdGreatest
<1>2. g \in Nat \ {0} /\ m % g = 0 /\ n % g = 0
  BY DEF Divisors
<1>3. PICK x \in Nat : m = g * x
  BY <1>2, DivisibleIff
<1>4. PICK y \in Nat : n = g * y
  BY <1>2, DivisibleIff
<1>5. x # 0 /\ y # 0
  BY <1>2, <1>3, <1>4
<1>6. m \div g = x
  BY <1>2, <1>3, DivModMultiple
<1> DEFINE p == x * n
<1>7. p \in Multiples(m, n)
  <2>1. x * n = m * y
    BY <1>2, <1>3, <1>4
  <2>2. (m * y) % m = 0 /\ (n * x) % n = 0 /\ x * n = n * x
    BY <1>3, <1>4, DivModMultiple
  <2>3. p % m = 0 /\ p % n = 0
    BY <2>1, <2>2
  <2>4. p \in Nat \ {0}
    BY <1>3, <1>5
  <2>. QED  BY <2>3, <2>4 DEF Multiples
<1>8. \E l \in Multiples(m, n) : \A k \in Multiples(m, n) : l <= k
  <2>1. Multiples(m, n) \in SUBSET Nat
    BY DEF Multiples
  <2>. QED  BY <1>7, <2>1, LeastOf
<1>9. PICK l \in Multiples(m, n) : \A k \in Multiples(m, n) : l <= k
  BY <1>8
<1>10. \A k \in Multiples(m, n) : k % l = 0
  BY <1>9, LeastMultipleDivides
<1>11. l \in Nat \ {0} /\ l % m = 0 /\ l % n = 0
  BY DEF Multiples
<1> DEFINE mn == m * n
<1>12. mn \in Multiples(m, n) /\ mn \in Nat \ {0}
  <2>1. (m * n) % m = 0 /\ (n * m) % n = 0 /\ m * n = n * m
    BY DivModMultiple
  <2>2. mn \in Nat \ {0}
    OBVIOUS
  <2>. QED  BY <2>1, <2>2 DEF Multiples
<1>13. g * p = mn
  BY <1>2, <1>3
<1>14. p \in Nat \ {0}
  BY <1>7 DEF Multiples
<1> HIDE DEF p, mn
<1>15. PICK d \in Nat : mn = l * d
  BY <1>10, <1>11, <1>12, DivisibleIff
<1>16. PICK e \in Nat : p = l * e
  BY <1>7, <1>10, <1>11, <1>14, DivisibleIff
<1>17. PICK s \in Nat : l = m * s
  BY <1>11, DivisibleIff
<1>18. PICK t \in Nat : l = n * t
  BY <1>11, DivisibleIff
<1>19. d # 0 /\ e # 0
  BY <1>11, <1>12, <1>14, <1>15, <1>16
<1>20. n = d * s
  <2>1. m * n = m * (d * s) /\ d * s \in Nat
    BY <1>15, <1>17 DEF mn
  <2>. QED  BY <2>1, Cancel
<1>21. m = d * t
  <2>1. n * m = n * (d * t) /\ d * t \in Nat
    BY <1>15, <1>18 DEF mn
  <2>. QED  BY <2>1, Cancel
<1>22. d <= g
  <2>1. (d * s) % d = 0 /\ (d * t) % d = 0
    BY <1>19, DivModMultiple
  <2>2. d \in Divisors(m, n)
    BY <1>19, <1>20, <1>21, <2>1 DEF Divisors
  <2>. QED  BY <1>1, <2>2
<1>23. g * e = d
  <2>1. l * (g * e) = l * d /\ g * e \in Nat
    BY <1>2, <1>11, <1>13, <1>15, <1>16
  <2>. QED  BY <1>11, <2>1, Cancel
<1>24. e = 1
  <2>1. CASE e >= 2
    <3>1. PICK f \in Nat : e = 2 + f
      BY <2>1
    <3>2. g * e = 2 * g + g * f /\ g * f \in Nat
      BY <1>2, <3>1
    <3>. QED  BY <1>2, <1>22, <1>23, <3>2
  <2>. QED  BY <1>19, <2>1
<1>25. p = l
  BY <1>11, <1>16, <1>24
<1>26. (m \div GCD[<<m, n>>]) * n = p
  BY <1>1, <1>6 DEF p
<1>. QED  BY <1>10, <1>25, <1>26
-----------------------------------------------------------------------------
(* An int that is large enough does not wrap.                              *)
LEMMA Int32Fits ==
  /\ \A x \in 0..INT_MAX : Int32(x) = x
  /\ \A x \in Nat : Int32(x) \in Int
<1>1. Half \in Nat \ {0} /\ INT_MAX \in Nat
  BY GeneratorAssumption DEF Half
<1>2. ASSUME NEW x \in 0..INT_MAX PROVE Int32(x) = x
  <2>1. x + Half \in Nat /\ 2 * Half \in Nat \ {0} /\ x + Half < 2 * Half
    BY <1>1 DEF Half
  <2>2. (x + Half) % (2 * Half) = x + Half
    BY <2>1, DivModSmall
  <2>. QED  BY <1>1, <2>2 DEF Int32
<1>3. ASSUME NEW x \in Nat PROVE Int32(x) \in Int
  <2>1. x + Half \in Nat /\ 2 * Half \in Nat \ {0}
    BY <1>1
  <2>2. (x + Half) % (2 * Half) \in Int
    BY <2>1, DivMod
  <2>. QED  BY <1>1, <2>2 DEF Int32
<1>. QED  BY <1>2, <1>3

(* temp after each task, in calculateHiperperiod's loop.                   *)
IsLoop(temp, ps, n) ==
  temp = [i \in 0..n |-> IF i = 0 THEN ps[0]
                         ELSE IF temp[i - 1] < 0 THEN temp[i - 1]
                         ELSE LCM(ps[i], temp[i - 1])]

(* Such a sequence exists, whatever the periods.                           *)
LEMMA LoopExists ==
  ASSUME NEW ps, NEW n \in Nat
  PROVE  \E temp : IsLoop(temp, ps, n)
<1> DEFINE Bad == {m \in Nat : ~\E temp : IsLoop(temp, ps, m)}
<1> SUFFICES ASSUME Bad # {} PROVE FALSE
  OBVIOUS
<1>1. \E m \in Bad : \A k \in Bad : m <= k
  <2>1. Bad \in SUBSET Nat
    OBVIOUS
  <2> HIDE DEF Bad
  <2>. QED  BY <2>1, LeastOf
<1>2. PICK m \in Bad : \A k \in Bad : m <= k
  BY <1>1
<1>3. CASE m = 0
  <2> DEFINE f == [i \in 0..0 |-> ps[0]]
  <2>1. IsLoop(f, ps, 0)
    BY DEF IsLoop
  <2>. QED  BY <1>3, <2>1
<1>4. CASE m # 0
  <2>1. m - 1 \in Nat /\ m - 1 \notin Bad
    BY <1>2, <1>4
  <2>2. PICK f : IsLoop(f, ps, m - 1)
    BY <2>1
  <2> DEFINE last == IF f[m - 1] < 0 THEN f[m - 1] ELSE LCM(ps[m], f[m - 1])
             e == [i \in 0..m |-> IF i = m THEN last ELSE f[i]]
  <2>3. ASSUME NEW i \in 0..m
        PROVE  e[i] = IF i = 0 THEN ps[0]
                      ELSE IF e[i - 1] < 0 THEN e[i - 1]
                      ELSE LCM(ps[i], e[i - 1])
    <3>1. CASE i = m
      <4>1. i # 0 /\ i - 1 \in 0..m /\ i - 1 # m
        BY <1>4, <3>1
      <4>2. e[i - 1] = f[m - 1] /\ e[i] = last
        BY <3>1, <4>1
      <4>. QED  BY <3>1, <4>1, <4>2
    <3>2. CASE i # m
      <4>1. i \in 0..(m - 1)
        BY <3>2
      <4>2. f[i] = IF i = 0 THEN ps[0]
                   ELSE IF f[i - 1] < 0 THEN f[i - 1]
                   ELSE LCM(ps[i], f[i - 1])
        BY <2>2, <4>1 DEF IsLoop
      <4>3. CASE i = 0
        BY <3>2, <4>2, <4>3
      <4>4. CASE i # 0
        <5>1. i - 1 \in 0..m /\ i - 1 # m
          BY <4>1, <4>4
        <5>. QED  BY <3>2, <4>2, <4>4, <5>1
      <4>. QED  BY <4>3, <4>4
    <3>. QED  BY <3>1, <3>2
  <2>4. e = [i \in 0..m |-> e[i]]
    OBVIOUS
  <2> HIDE DEF e
  <2>5. IsLoop(e, ps, m)
    BY <2>3, <2>4 DEF IsLoop
  <2>. QED  BY <2>5
<1>. QED  BY <1>3, <1>4

LEMMA ProductIsLoop ==
  ASSUME NEW ps
  PROVE  \E temp : IsLoop(temp, ps, TASK_CNT - 1) /\ Product(ps) = temp[TASK_CNT - 1]
<1>1. TASK_CNT - 1 \in Nat
  BY GeneratorAssumption
<1> DEFINE temp == CHOOSE temp : IsLoop(temp, ps, TASK_CNT - 1)
<1>2. IsLoop(temp, ps, TASK_CNT - 1)
  BY <1>1, LoopExists
<1>3. Product(ps) = temp[TASK_CNT - 1]
  BY DEF Product, IsLoop, Ids
<1>. QED  BY <1>2, <1>3

LEMMA LcmType ==
  ASSUME NEW p \in Nat \ {0}, NEW t \in Nat
  PROVE  LCM(p, t) \in Int
<1>1. GCD[<<p, t>>] \in Nat \ {0}
  <2>1. CASE t = 0
    BY <2>1, GcdValue DEF Gcd
  <2>2. CASE t # 0
    BY <2>2, GcdGreatest DEF Divisors
  <2>. QED  BY <2>1, <2>2
<1>2. p \div GCD[<<p, t>>] \in Nat
  BY <1>1, DivMod
<1>3. (p \div GCD[<<p, t>>]) * t \in Nat
  BY <1>2
<1>. QED  BY <1>3, Int32Fits DEF LCM

LEMMA ProductType ==
  ASSUME NEW ps \in [Ids -> Nat \ {0}]
  PROVE  Product(ps) \in Int
<1> DEFINE n == TASK_CNT - 1
<1>1. n \in Nat /\ Ids = 0..n
  BY GeneratorAssumption DEF Ids
<1>2. PICK temp : IsLoop(temp, ps, n) /\ Product(ps) = temp[n]
  BY ProductIsLoop
<1> HIDE DEF n
<1>3. \A i \in 0..n : temp[i] = IF i = 0 THEN ps[0]
                                 ELSE IF temp[i - 1] < 0 THEN temp[i - 1]
                                 ELSE LCM(ps[i], temp[i - 1])
  BY <1>2 DEF IsLoop
<1> DEFINE P == {i \in 0..n : temp[i] \in Int}
<1>4. 0 \in P
  BY <1>1, <1>3
<1>5. ASSUME NEW i \in 0..(n - 1), i \in P
      PROVE  i + 1 \in P
  <2>1. i + 1 \in 0..n /\ i + 1 # 0 /\ (i + 1) - 1 = i /\ temp[i] \in Int
    BY <1>1, <1>5
  <2>2. temp[i + 1] = IF temp[i] < 0 THEN temp[i] ELSE LCM(ps[i + 1], temp[i])
    BY <1>3, <2>1
  <2>3. CASE temp[i] < 0
    BY <2>1, <2>2, <2>3
  <2>4. CASE ~(temp[i] < 0)
    <3>1. temp[i] \in Nat /\ ps[i + 1] \in Nat \ {0}
      BY <1>1, <2>1, <2>4
    <3>2. LCM(ps[i + 1], temp[i]) \in Int
      BY <3>1, LcmType
    <3>. QED  BY <2>1, <2>2, <2>4, <3>2
  <2>. QED  BY <2>3, <2>4
<1>6. 0..n \subseteq P
  <2> HIDE DEF P
  <2>. QED  BY <1>1, <1>4, <1>5, InductionUpTo
<1>. QED  BY <1>1, <1>2, <1>6

LEMMA DivisibleTransitive ==
  ASSUME NEW d \in Nat \ {0}, NEW t \in Nat \ {0}, NEW l \in Nat, t % d = 0, l % t = 0
  PROVE  l % d = 0
<1>1. PICK k \in Nat : l = t * k
  BY DivisibleIff
<1>2. (t * k) % d = 0
  BY DivisibleSum
<1>. QED  BY <1>1, <1>2, Zenon

(* The loop ends with the least common multiple of the periods, provided   *)
(* that it is an int: then so are all those before it.                     *)
LEMMA ProductIsLeastMultiple ==
  ASSUME NEW ps \in [Ids -> Nat \ {0}],
         NEW c \in 1..INT_MAX, \A i \in Ids : c % ps[i] = 0
  PROVE  /\ Product(ps) \in Nat \ {0}
         /\ \A i \in Ids : Product(ps) % ps[i] = 0
         /\ \A k \in Nat \ {0} : (\A i \in Ids : k % ps[i] = 0) => k % Product(ps) = 0
<1> DEFINE n == TASK_CNT - 1
<1>1. n \in Nat /\ Ids = 0..n
  BY GeneratorAssumption DEF Ids
<1>2. PICK temp : IsLoop(temp, ps, n) /\ Product(ps) = temp[n]
  BY ProductIsLoop
<1> HIDE DEF n
<1>3. \A i \in 0..n : temp[i] = IF i = 0 THEN ps[0]
                                 ELSE IF temp[i - 1] < 0 THEN temp[i - 1]
                                 ELSE LCM(ps[i], temp[i - 1])
  BY <1>2 DEF IsLoop
<1> DEFINE Common(k, i) == \A j \in 0..i : k % ps[j] = 0
           P == {i \in 0..n : /\ temp[i] \in Nat \ {0}
                              /\ Common(temp[i], i)
                              /\ \A k \in Nat \ {0} : Common(k, i) => k % temp[i] = 0}
<1>4. 0 \in P
  <2>1. temp[0] = ps[0] /\ ps[0] \in Nat \ {0} /\ 0..0 = {0}
    BY <1>1, <1>3
  <2>2. ps[0] % ps[0] = 0
    BY <2>1, DivModMultiple, ps[0] * 1 = ps[0]
  <2>. QED  BY <1>1, <2>1, <2>2
<1>5. ASSUME NEW i \in 0..(n - 1), i \in P
      PROVE  i + 1 \in P
  <2> DEFINE t == temp[i]
             p == ps[i + 1]
             l == (p \div GCD[<<p, t>>]) * t
  <2>1. i + 1 \in 0..n /\ i + 1 # 0 /\ (i + 1) - 1 = i /\ 0..(i + 1) = (0..i) \cup {i + 1}
    BY <1>1
  <2>2. t \in Nat \ {0} /\ p \in Nat \ {0} /\ \A j \in 0..i : ps[j] \in Nat \ {0}
    BY <1>1, <1>5, <2>1
  <2>3. Common(t, i) /\ \A k \in Nat \ {0} : Common(k, i) => k % t = 0
    BY <1>5
  <2>4. temp[i + 1] = LCM(p, t)
    <3>1. ~(t < 0)
      BY <2>2
    <3>. QED  BY <1>3, <2>1, <3>1
  <2> HIDE DEF t, p
  <2>5. l \in Multiples(p, t) /\ \A k \in Multiples(p, t) : k % l = 0
    BY <2>2, LeastMultiple
  <2> HIDE DEF l
  <2>6. l \in Nat \ {0} /\ l % p = 0 /\ l % t = 0
    BY <2>5 DEF Multiples
  <2>7. ASSUME NEW k \in Nat \ {0}, Common(k, i + 1) PROVE k % l = 0
    <3>1. k % p = 0 /\ Common(k, i)
      BY <2>1, <2>7 DEF p
    <3>2. k \in Multiples(p, t)
      BY <2>3, <3>1 DEF Multiples
    <3>. QED  BY <2>5, <3>2
  <2>8. l \in 0..INT_MAX
    <3>1. c \in Nat \ {0} /\ c <= INT_MAX /\ INT_MAX \in Nat
      BY GeneratorAssumption
    <3>2. Common(c, i + 1)
      BY <1>1, <2>1
    <3>3. c % l = 0
      BY <2>7, <3>1, <3>2
    <3>4. l <= c
      BY <2>6, <3>1, <3>3, DivisorAtMost
    <3>. QED  BY <2>6, <3>1, <3>4
  <2>9. LCM(p, t) = l
    BY <2>8, Int32Fits DEF LCM, l
  <2>10. Common(l, i + 1)
    <3>1. ASSUME NEW j \in 0..i PROVE l % ps[j] = 0
      BY <2>2, <2>3, <2>6, DivisibleTransitive
    <3>. QED  BY <2>1, <2>6, <3>1 DEF p
  <2>. QED  BY <2>1, <2>4, <2>6, <2>7, <2>9, <2>10
<1>6. 0..n \subseteq P
  <2> HIDE DEF P
  <2>. QED  BY <1>1, <1>4, <1>5, InductionUpTo
<1>7. n \in P
  BY <1>1, <1>6
<1>. QED  BY <1>1, <1>2, <1>7
-----------------------------------------------------------------------------
Periods == [Ids -> LOWEST_PERIOD..(HIGHEST_PERIOD + 1)]

(* What the loops have established, and the last action computed.          *)
IInv ==
  /\ u \in [Ids -> Nat]
  /\ pc # "utilization" => check_utilization(u)
  /\ pc \in {"constraints", "durations", "done"} =>
       /\ period \in Periods
       /\ hiperperiod = calculateHiperperiod(period)
       /\ Accepted(hiperperiod)
  /\ pc = "done" =>
       /\ duration = [i \in Ids |-> Rounded(period[i], u[i])]
       /\ weakly_hard_constraint \in ConstraintDraws
       /\ numOfPeriods = [i \in Ids |-> hiperperiod \div period[i]]

LEMMA InitIInv == Init => IInv
  BY DEF Init, IInv, Zero

LEMMA StepIInv == IInv /\ [Next]_vars => IInv'
<1> SUFFICES ASSUME IInv, [Next]_vars PROVE IInv'
  OBVIOUS
<1>1. CASE calculateUtilization
  <2>1. u' \in [Ids -> Nat]
    <3>1. TotalUtilization \in Nat
      BY GeneratorAssumption
    <3>2. u' \in [Ids -> 0..TotalUtilization]
      BY <1>1 DEF calculateUtilization, Splits
    <3>. QED  BY <3>1, <3>2
  <2>2. pc' = (IF check_utilization(u') THEN "periods" ELSE "utilization")
    BY <1>1 DEF calculateUtilization
  <2>3. check_utilization(u)' = check_utilization(u')
    BY DEF check_utilization
  <2>. QED  BY <2>1, <2>2, <2>3 DEF IInv
<1>2. CASE generatePeriods
  <2>1. pc = "periods" /\ period' \in Periods /\ hiperperiod' = calculateHiperperiod(period')
    BY <1>2 DEF generatePeriods, Periods
  <2>2. pc' = (IF Accepted(hiperperiod') THEN "constraints" ELSE "periods") /\ u' = u
    BY <1>2 DEF generatePeriods
  <2>. QED  BY <2>1, <2>2 DEF IInv, Accepted, check_utilization, Periods
<1>3. CASE generateWeaklyHard
  <2>1. pc = "constraints" /\ pc' \in {"constraints", "durations"}
    BY <1>3 DEF generateWeaklyHard
  <2>2. UNCHANGED <<u, period, hiperperiod>>
    BY <1>3 DEF generateWeaklyHard
  <2>. QED  BY <2>1, <2>2 DEF IInv, Accepted, check_utilization
<1>4. CASE calculateTaskSet
  <2>1. pc = "durations" /\ pc' = "done" /\ UNCHANGED <<u, period>>
    BY <1>4 DEF calculateTaskSet
  <2>2. hiperperiod' = calculateHiperperiod(period) /\ hiperperiod' = hiperperiod
    BY <1>4, <2>1 DEF calculateTaskSet, IInv
  <2>3. /\ duration' = [i \in Ids |-> Rounded(period[i], u[i])]
        /\ weakly_hard_constraint' \in ConstraintDraws
        /\ numOfPeriods' = [i \in Ids |-> hiperperiod' \div period[i]]
    BY <1>4 DEF calculateTaskSet
  <2>. QED  BY <2>1, <2>2, <2>3 DEF IInv, Accepted, check_utilization
<1>5. CASE UNCHANGED vars
  BY <1>5 DEF vars, IInv, Accepted, check_utilization
<1>. QED  BY <1>1, <1>2, <1>3, <1>4, <1>5 DEF Next

LEMMA AlwaysIInv == Spec => []IInv
  BY InitIInv, StepIInv, PTL DEF Spec

LEMMA PeriodFacts ==
  ASSUME NEW ps \in Periods
  PROVE  /\ ps \in [Ids -> Nat \ {0}]
         /\ \A i \in Ids : LOWEST_PERIOD <= ps[i]
  BY GeneratorAssumption DEF Periods

(* A hyperperiod that is accepted is what the products made it.            *)
LEMMA AcceptedHyperperiod ==
  ASSUME NEW ps \in Periods, Accepted(calculateHiperperiod(ps))
  PROVE  /\ calculateHiperperiod(ps) = Product(ps)
         /\ Product(ps) \in Nat /\ Product(ps) < MAX_HIPERPERIOD
<1>1. Product(ps) \in Int /\ MAX_HIPERPERIOD \in Nat
  BY PeriodFacts, ProductType, GeneratorAssumption
<1>2. ~(Product(ps) < 0)
  BY <1>1 DEF Accepted, calculateHiperperiod
<1>. QED  BY <1>1, <1>2 DEF Accepted, calculateHiperperiod

(* ReportFits: whatever the products of calculateHiperperiod wrap to, every *)
(* task has room in its report for its periods, and not a negative number. *)
THEOREM ReportsHaveRoom == Spec => []ReportFits
<1>1. IInv => ReportFits
  <2> SUFFICES ASSUME IInv, pc = "done", NEW i \in Ids
               PROVE  numOfPeriods[i] \in 0..MAX_PERIOD_CNT
    BY DEF ReportFits
  <2> DEFINE h == hiperperiod
             p == period[i]
             low == LOWEST_PERIOD
  <2>1. h \in Nat /\ h < MAX_HIPERPERIOD
    BY AcceptedHyperperiod DEF IInv
  <2>2. p \in Nat \ {0} /\ low <= p
    BY PeriodFacts DEF IInv
  <2>3. /\ low \in Nat \ {0} /\ MAX_HIPERPERIOD \in Nat /\ MAX_PERIOD_CNT \in Nat
        /\ MAX_HIPERPERIOD \div low <= MAX_PERIOD_CNT
    BY GeneratorAssumption
  <2>4. numOfPeriods[i] = h \div p
    BY DEF IInv
  <2> HIDE DEF h, p, low
  <2>5. h \div p \in Nat /\ h \div p <= h \div low
    BY <2>1, <2>2, <2>3, DivLargerDivisor
  <2>6. h \div low \in Nat /\ h \div low <= MAX_HIPERPERIOD \div low
    <3>1. PICK j \in Nat : MAX_HIPERPERIOD = h + j
      BY <2>1, <2>3
    <3>. QED  BY <2>1, <2>3, <3>1, DivMonotone
  <2>7. MAX_HIPERPERIOD \div low \in Nat
    BY <2>3, DivMod
  <2>. QED  BY <2>3, <2>4, <2>5, <2>6, <2>7
<1>. QED  BY <1>1, AlwaysIInv, PTL

(* Rounding keeps a duration within its period, and at least 1.            *)
LEMMA RoundedValue ==
  ASSUME NEW p \in Nat \ {0}, NEW v \in Nat, 10 * v < 7 * Scale
  PROVE  LET d == Rounded(p, v)
             error == d * Scale - p * v
         IN  /\ d \in 1..p
             /\ \/ 2 * error <= Scale /\ -2 * error <= Scale
                \/ d = 1 /\ error > 0
<1> DEFINE x == p * v
           y == p * Scale
           d == Rounded(p, v)
<1>1. Scale \in Nat \ {0}
  BY GeneratorAssumption
<1>2. x \in Nat /\ y \in Nat /\ 2 * p * v = 2 * x
  BY <1>1
<1>3. 10 * x < 7 * y
  <2> DEFINE e == 7 * Scale - (10 * v + 1)
  <2>1. e \in Nat /\ 7 * Scale = 10 * v + 1 + e
    BY <1>1
  <2> HIDE DEF e
  <2>2. p * (7 * Scale) = p * (10 * v + 1 + e)
    BY <2>1
  <2>3. p * (7 * Scale) = 7 * y /\ p * (10 * v + 1 + e) = 10 * x + p + p * e /\ p * e \in Nat
    BY <1>1, <2>1
  <2>. QED  BY <1>2, <2>2, <2>3
<1>4. d = IF 2 * x < Scale THEN 1 ELSE (2 * x + Scale) \div (2 * Scale)
  BY <1>2 DEF Rounded
<1> HIDE DEF x, y, d
<1>5. CASE 2 * x < Scale
  <2>1. d = 1 /\ 1 \in 1..p
    BY <1>4, <1>5
  <2>2. d * Scale - x > 0
    BY <1>1, <1>2, <1>5, <2>1
  <2>. QED  BY <2>1, <2>2 DEF x, d
<1>6. CASE ~(2 * x < Scale)
  <2> DEFINE m == 2 * x + Scale
             w == 2 * Scale
             q == m \div w
             r == m % w
  <2>1. m \in Nat /\ w \in Nat \ {0}
    BY <1>1, <1>2
  <2>2. q \in Nat /\ r \in 0..(w - 1) /\ m = w * q + r
    <3> HIDE DEF m, w
    <3>. QED  BY <2>1, DivMod
  <2>3. d = q
    BY <1>4, <1>6
  <2> HIDE DEF q, r
  <2> DEFINE z == q * Scale
  <2>4. z \in Nat /\ w * q = 2 * z
    BY <1>1, <2>2
  <2>5. 2 * x + Scale = 2 * z + r /\ r \in 0..(2 * Scale - 1)
    BY <2>2, <2>4
  <2>6. q <= p
    <3> SUFFICES ASSUME p < q PROVE FALSE
      BY <2>2
    <3>1. PICK e \in Nat : q = p + 1 + e
      BY <2>2
    <3>2. z = y + Scale + e * Scale /\ e * Scale \in Nat
      BY <1>1, <3>1 DEF y
    <3> HIDE DEF z
    <3>. QED  BY <1>1, <1>2, <1>3, <2>4, <2>5, <3>2
  <2>7. q # 0
    <3> SUFFICES ASSUME q = 0 PROVE FALSE
      OBVIOUS
    <3>1. z = 0
      BY <1>1
    <3>. QED  BY <1>1, <1>2, <1>6, <2>5, <3>1
  <2>8. d * Scale = z
    BY <2>3
  <2>9. 2 * (z - x) <= Scale /\ -2 * (z - x) <= Scale
    <3> HIDE DEF z
    <3>. QED  BY <1>1, <1>2, <2>4, <2>5
  <2>10. d \in 1..p
    BY <2>2, <2>3, <2>6, <2>7
  <2> HIDE DEF z
  <2>11. 2 * (d * Scale - x) <= Scale /\ -2 * (d * Scale - x) <= Scale
    BY <2>8, <2>9
  <2>. QED  BY <2>10, <2>11 DEF x, d
<1>. QED  BY <1>5, <1>6 DEF x, d

(* GeneratesWellFormed: when the generator is done it leaves a task set    *)
(* the kernel can run, with the least common multiple of the periods as    *)
(* its hyperperiod, unless that multiple is no int.                        *)
THEOREM GeneratedSetsAreWellFormed == Spec => []GeneratesWellFormed
<1>1. IInv => GeneratesWellFormed
  <2> SUFFICES ASSUME IInv, pc = "done", FitsInt
               PROVE  Kernel!WellFormed(Task_Set) /\ HiperperiodIsLcm /\ UtilizationKept
    BY DEF GeneratesWellFormed
  <2> DEFINE h == hiperperiod
  <2>1. period \in Periods /\ period \in [Ids -> Nat \ {0}]
    BY PeriodFacts DEF IInv
  <2>2. h = Product(period) /\ h \in Nat /\ h < MAX_HIPERPERIOD
    BY AcceptedHyperperiod DEF IInv
  <2>3. PICK c \in 1..INT_MAX : \A i \in Ids : c % period[i] = 0
    BY DEF FitsInt, CommonMultiple
  <2>4. /\ h \in Nat \ {0}
        /\ \A i \in Ids : h % period[i] = 0
        /\ \A k \in Nat \ {0} : (\A i \in Ids : k % period[i] = 0) => k % h = 0
    BY <2>1, <2>2, <2>3, ProductIsLeastMultiple
  <2>5. ASSUME NEW i \in Ids
        PROVE  LET error == duration[i] * Scale - period[i] * u[i]
               IN  /\ duration[i] \in 1..period[i]
                   /\ \/ 2 * error <= Scale /\ -2 * error <= Scale
                      \/ duration[i] = 1 /\ error > 0
    <3>1. u[i] \in Nat /\ 10 * u[i] < 7 * Scale
      BY DEF IInv, check_utilization
    <3>2. period[i] \in Nat \ {0}
      BY <2>1
    <3>3. duration[i] = Rounded(period[i], u[i])
      BY DEF IInv
    <3>. QED  BY <3>1, <3>2, <3>3, RoundedValue
  <2>6. HiperperiodIsLcm
    <3>1. h \in 1..(MAX_HIPERPERIOD - 1)
      BY <2>2, <2>4, GeneratorAssumption
    <3>2. ASSUME NEW k \in 1..(h - 1), CommonMultiple(k) PROVE FALSE
      <4>1. k \in Nat \ {0} /\ k < h
        BY <2>4
      <4>2. k % h = 0
        BY <2>4, <3>2, <4>1 DEF CommonMultiple
      <4>. QED  BY <2>4, <4>1, <4>2, DivisorAtMost
    <3>. QED  BY <2>4, <3>1, <3>2 DEF HiperperiodIsLcm, CommonMultiple
  <2>7. UtilizationKept
    BY <2>5 DEF UtilizationKept
  <2>8. Task_Set \in Kernel!TaskSetType
    <3>1. duration \in [Ids -> Nat \ {0}]
      <4>1. \A i \in Ids : duration[i] \in Nat \ {0}
        BY <2>1, <2>5
      <4>2. duration = [i \in Ids |-> duration[i]]
        BY DEF IInv
      <4>. QED  BY <4>1, <4>2
    <3>2. weakly_hard_constraint \in [Ids -> 0..(CounterModulus - 1)]
      <4>1. LOWEST_WH..(HIGHEST_WH + 1) \subseteq 0..(CounterModulus - 1)
        BY GeneratorAssumption
      <4>2. weakly_hard_constraint \in [Ids -> LOWEST_WH..(HIGHEST_WH + 1)]
        BY DEF IInv, ConstraintDraws
      <4>. QED  BY <4>1, <4>2
    <3>. QED  BY <2>1, <2>4, <3>1, <3>2 DEF Task_Set, Kernel!TaskSetType
  <2>9. 2 * h < TickModulus
    BY <2>2, GeneratorAssumption
  <2>10. \A i \in Ids : duration[i] <= period[i]
    BY <2>1, <2>5
  <2>11. Kernel!WellFormed(Task_Set)
    BY <2>4, <2>8, <2>9, <2>10 DEF Task_Set, Kernel!WellFormed
  <2>. QED  BY <2>6, <2>7, <2>11
<1>. QED  BY <1>1, AlwaysIInv, PTL
=============================================================================
