-------------------------- MODULE ArithmeticLemmas --------------------------
(***************************************************************************)
(* What the proofs need of the integer division by which the code turns    *)
(* ticks into periods, of least numbers, of induction, and of sums over    *)
(* the tasks.  Induction is on a set P of what the claim holds of: a       *)
(* smallest counterexample would contradict the step.                      *)
(***************************************************************************)
EXTENDS Integers, FiniteSetsExt, FiniteSetTheorems, WellFoundedInduction, TLAPS

(* The defining equation of quotient and remainder.                        *)
LEMMA DivMod ==
  ASSUME NEW a \in Nat, NEW p \in Nat \ {0}
  PROVE  /\ a \div p \in Nat
         /\ a % p \in 0..(p - 1)
         /\ a = p * (a \div p) + (a % p)
  OBVIOUS

(* It determines both.                                                     *)
LEMMA DivModUnique ==
  ASSUME NEW p \in Nat \ {0}, NEW q \in Int, NEW r \in 0..(p - 1)
  PROVE  /\ (p * q + r) % p = r
         /\ (p * q + r) \div p = q
  OBVIOUS

LEMMA DivModMultiple ==
  ASSUME NEW p \in Nat \ {0}, NEW q \in Int
  PROVE  (p * q) % p = 0 /\ (p * q) \div p = q
  OBVIOUS

LEMMA DivModSmall ==
  ASSUME NEW a \in Nat, NEW p \in Nat \ {0}, a < p
  PROVE  a % p = a /\ a \div p = 0
  OBVIOUS

(* One tick later: a new period starts or the current one goes on.         *)
LEMMA ModSuccessor ==
  ASSUME NEW a \in Nat, NEW p \in Nat \ {0}
  PROVE  (a + 1) % p = IF a % p = p - 1 THEN 0 ELSE (a % p) + 1
<1> DEFINE q == a \div p
           r == a % p
<1>1. q \in Nat /\ r \in 0..(p - 1) /\ a = p * q + r
  BY DivMod
<1> HIDE DEF q, r
<1>2. CASE r = p - 1
  <2>1. a + 1 = p * (q + 1)
    BY <1>1, <1>2
  <2>2. (p * (q + 1)) % p = 0
    BY <1>1, DivModMultiple
  <2>. QED  BY <2>1, <2>2, <1>2 DEF r
<1>3. CASE r # p - 1
  <2> DEFINE s == r + 1
  <2>1. a + 1 = p * q + s /\ s \in 0..(p - 1)
    BY <1>1, <1>3
  <2>2. s = (a % p) + 1
    BY DEF r
  <2> HIDE DEF s
  <2>3. (p * q + s) % p = s
    BY <1>1, <2>1, DivModUnique
  <2>. QED  BY <2>1, <2>2, <2>3, <1>3 DEF r
<1>. QED  BY <1>2, <1>3

LEMMA DivSuccessor ==
  ASSUME NEW a \in Nat, NEW p \in Nat \ {0}
  PROVE  (a + 1) \div p = IF a % p = p - 1 THEN (a \div p) + 1 ELSE a \div p
  OBVIOUS

LEMMA DivisorAtMost ==
  ASSUME NEW h \in Nat \ {0}, NEW p \in Nat \ {0}, h % p = 0
  PROVE  p <= h
  OBVIOUS

LEMMA MultipleLess ==
  ASSUME NEW p \in Nat \ {0}, NEW q \in Nat, NEW n \in Nat, NEW r \in Nat,
         p * q + r < p * n
  PROVE  q < n
<1>1. CASE q >= n
  <2>1. PICK d \in Nat : q = n + d
    BY <1>1
  <2>2. p * q = p * n + p * d
    BY <2>1
  <2>3. p * d \in Nat /\ p * n \in Nat /\ p * q \in Nat
    BY <2>1
  <2>. QED  BY <2>2, <2>3
<1>. QED  BY <1>1

(* A quotient grows with its dividend, and not faster.                     *)
LEMMA DivMonotone ==
  ASSUME NEW c \in Nat \ {0}, NEW a \in Nat, NEW j \in Nat
  PROVE  /\ a \div c \in Nat /\ (a + j) \div c \in Nat
         /\ a \div c <= (a + j) \div c
         /\ (a + j) \div c <= (a \div c) + j
<1> DEFINE x == a \div c
           r == a % c
           y == (a + j) \div c
           s == (a + j) % c
<1>1. x \in Nat /\ r \in 0..(c - 1) /\ a = c * x + r
  BY DivMod
<1>2. y \in Nat /\ s \in 0..(c - 1) /\ a + j = c * y + s
  <2> DEFINE b == a + j
  <2>1. b \in Nat
    OBVIOUS
  <2> HIDE DEF b
  <2>2. b \div c \in Nat /\ b % c \in 0..(c - 1) /\ b = c * (b \div c) + (b % c)
    BY <2>1, DivMod
  <2>. QED  BY <2>2 DEF b
<1> HIDE DEF x, r, y, s
<1>3. x <= y
  <2> SUFFICES ASSUME y < x PROVE FALSE
    BY <1>1, <1>2
  <2>1. PICK e \in Nat : x = y + 1 + e
    BY <1>1, <1>2
  <2>2. c * x = c * y + c + c * e /\ c * e \in Nat /\ c * y \in Nat
    BY <1>1, <1>2, <2>1
  <2>. QED  BY <1>1, <1>2, <2>2
<1>4. y <= x + j
  <2> SUFFICES ASSUME x + j < y PROVE FALSE
    BY <1>1, <1>2
  <2>1. PICK e \in Nat : y = x + j + 1 + e
    BY <1>1, <1>2
  <2>2. c * y = c * x + c * j + c + c * e /\ c * e \in Nat /\ c * x \in Nat /\ c * j \in Nat
    BY <1>1, <1>2, <2>1
  <2>3. c * j >= j
    BY <1>1
  <2>. QED  BY <1>1, <1>2, <2>2, <2>3
<1>. QED  BY <1>1, <1>2, <1>3, <1>4 DEF x, y

(* A quotient shrinks when its divisor grows.                              *)
LEMMA DivLargerDivisor ==
  ASSUME NEW n \in Nat, NEW c \in Nat \ {0}, NEW d \in Nat \ {0}, c <= d
  PROVE  n \div d \in Nat /\ n \div c \in Nat /\ n \div d <= n \div c
<1> DEFINE x == n \div d
           r == n % d
           y == n \div c
           s == n % c
<1>1. x \in Nat /\ r \in 0..(d - 1) /\ n = d * x + r
  BY DivMod
<1>2. y \in Nat /\ s \in 0..(c - 1) /\ n = c * y + s
  BY DivMod
<1> HIDE DEF x, r, y, s
<1>3. x <= y
  <2> SUFFICES ASSUME y < x PROVE FALSE
    BY <1>1, <1>2
  <2>1. PICK e \in Nat : x = y + 1 + e
    BY <1>1, <1>2
  <2>2. PICK f \in Nat : d = c + f
    OBVIOUS
  <2>3. d * x = c * y + c + c * e + f * x /\ c * y \in Nat /\ c * e \in Nat /\ f * x \in Nat
    BY <1>1, <1>2, <2>1, <2>2
  <2>. QED  BY <1>1, <1>2, <2>3
<1>. QED  BY <1>1, <1>2, <1>3 DEF x, y

(* A quotient of a quotient.                                               *)
LEMMA DivDiv ==
  ASSUME NEW n \in Nat, NEW p \in Nat \ {0}, NEW c \in Nat \ {0}
  PROVE  n \div (p * c) = (n \div p) \div c
<1> DEFINE a == n \div p
           r == n % p
           b == a \div c
           s == a % c
<1>1. a \in Nat /\ r \in 0..(p - 1) /\ n = p * a + r
  BY DivMod
<1>2. b \in Nat /\ s \in 0..(c - 1) /\ a = c * b + s
  BY <1>1, DivMod
<1> HIDE DEF a, r, b, s
<1> DEFINE m == p * c
           v == p * s + r
<1>3. m \in Nat \ {0}
  OBVIOUS
<1>4. n = m * b + v
  <2>1. p * a = p * (c * b) + p * s
    BY <1>1, <1>2
  <2>2. p * (c * b) = (p * c) * b
    BY <1>2
  <2>. QED  BY <1>1, <1>2, <2>1, <2>2
<1>5. v \in 0..(m - 1)
  <2>1. PICK e \in Nat : c = s + 1 + e
    BY <1>2
  <2>2. p * c = p * s + p + p * e /\ p * e \in Nat /\ p * s \in Nat
    BY <1>2, <2>1
  <2>. QED  BY <1>1, <1>2, <2>2
<1> HIDE DEF m, v
<1>6. (m * b + v) \div m = b
  BY <1>2, <1>3, <1>5, DivModUnique
<1>. QED  BY <1>4, <1>6 DEF m, b, a
-----------------------------------------------------------------------------
(* A non-empty set of natural numbers has a least one.                     *)
LEMMA LeastOf ==
  ASSUME NEW S \in SUBSET Nat, S # {}
  PROVE  \E m \in S : \A k \in S : m <= k
<1> DEFINE R == {ss \in Nat \X Nat : ss[1] < ss[2]}
<1>1. IsWellFoundedOn(R, Nat)
  BY NatLessThanWellFounded DEF OpToRel
<1>2. \E m \in S : \A k \in S : <<k, m>> \notin R
  <2> HIDE DEF R
  <2>. QED  BY <1>1, WFMin
<1>3. PICK m \in S : \A k \in S : <<k, m>> \notin R
  BY <1>2
<1>4. \A k \in S : <<k, m>> \in R <=> k < m
  OBVIOUS
<1>5. \A k \in S : ~(k < m)
  <2> HIDE DEF R
  <2>. QED  BY <1>3, <1>4
<1>6. \A k \in S : m <= k
  BY <1>5
<1>. QED  BY <1>6

(* Induction up to a number, the claim being a set P.                      *)
LEMMA InductionUpTo ==
  ASSUME NEW n \in Nat, NEW P, 0 \in P, \A i \in 0..(n - 1) : i \in P => i + 1 \in P
  PROVE  0..n \subseteq P
<1> DEFINE Bad == {i \in 0..n : i \notin P}
<1> SUFFICES ASSUME Bad # {} PROVE FALSE
  OBVIOUS
<1>1. \E i \in Bad : \A k \in Bad : i <= k
  <2>1. Bad \in SUBSET Nat
    OBVIOUS
  <2> HIDE DEF Bad
  <2>. QED  BY <2>1, LeastOf
<1>2. PICK i \in Bad : \A k \in Bad : i <= k
  BY <1>1
<1>3. i # 0 /\ i - 1 \in 0..(n - 1) /\ i - 1 \notin Bad
  BY <1>2
<1>4. i - 1 \in P
  BY <1>3
<1>. QED  BY <1>2, <1>3, <1>4

(* Induction over the subsets of a finite set, the claim being a set P.    *)
LEMMA SubsetInduction ==
  ASSUME NEW S, IsFiniteSet(S), NEW P,
         \A T \in SUBSET S : (\A U \in SUBSET T : U # T => U \in P) => T \in P
  PROVE  SUBSET S \subseteq P
<1> DEFINE Bad == {T \in SUBSET S : T \notin P}
           Sizes == {Cardinality(T) : T \in Bad}
<1> SUFFICES ASSUME Bad # {} PROVE FALSE
  OBVIOUS
<1>1. \A T \in Bad : IsFiniteSet(T) /\ Cardinality(T) \in Nat
  BY FS_Subset, FS_CardinalityType
<1>2. Sizes \in SUBSET Nat /\ Sizes # {}
  BY <1>1
<1>3. \E m \in Sizes : \A k \in Sizes : m <= k
  <2> HIDE DEF Sizes
  <2>. QED  BY <1>2, LeastOf
<1>4. PICK T \in Bad : \A U \in Bad : Cardinality(T) <= Cardinality(U)
  BY <1>3
<1>5. \A U \in SUBSET T : U # T => U \in P
  <2> SUFFICES ASSUME NEW U \in SUBSET T, U # T, U \notin P PROVE FALSE
    OBVIOUS
  <2>1. U \in Bad
    OBVIOUS
  <2>2. Cardinality(U) < Cardinality(T)
    BY <1>1, FS_Subset
  <2>. QED  BY <1>1, <1>4, <2>1, <2>2
<1>. QED  BY <1>4, <1>5
-----------------------------------------------------------------------------
(* The sum over a finite set satisfies its recursive equation, whatever    *)
(* the element CHOOSE takes out first: the fold it is defined by exists    *)
(* and is unique.                                                          *)
Chosen(T) == CHOOSE x \in T : TRUE

IsFold(f, g, S) ==
  f = [T \in SUBSET S |-> IF T = {} THEN 0 ELSE g[Chosen(T)] + f[T \ {Chosen(T)}]]

LEMMA SumIsFold ==
  ASSUME NEW g, NEW S
  PROVE  SumFunctionOnSet(g, S) = (CHOOSE f : IsFold(f, g, S))[S]
  BY DEF SumFunctionOnSet, FoldFunctionOnSet, MapThenFoldSet, IsFold, Chosen

LEMMA FoldUnique ==
  ASSUME NEW S, IsFiniteSet(S), NEW g, NEW e, NEW f, IsFold(e, g, S), IsFold(f, g, S)
  PROVE  e = f
<1> DEFINE P == {T \in SUBSET S : e[T] = f[T]}
<1>1. ASSUME NEW T \in SUBSET S, \A U \in SUBSET T : U # T => U \in P
      PROVE  T \in P
  <2>1. CASE T = {}
    BY <2>1 DEF IsFold
  <2>2. CASE T # {}
    <3>1. Chosen(T) \in T
      BY <2>2 DEF Chosen
    <3>2. T \ {Chosen(T)} \in P
      BY <1>1, <3>1
    <3>. QED  BY <2>2, <3>2 DEF IsFold
  <2>. QED  BY <2>1, <2>2
<1>2. SUBSET S \subseteq P
  <2> HIDE DEF P
  <2>. QED  BY <1>1, SubsetInduction
<1>. QED  BY <1>2 DEF IsFold

LEMMA FoldExists ==
  ASSUME NEW S, IsFiniteSet(S), NEW g
  PROVE  \E f : IsFold(f, g, S)
<1> DEFINE P == {T \in SUBSET S : \E f : IsFold(f, g, T)}
<1>1. ASSUME NEW T \in SUBSET S, \A U \in SUBSET T : U # T => U \in P
      PROVE  T \in P
  <2> DEFINE Rest(U) == U \ {Chosen(U)}
             F == [U \in SUBSET T |-> IF U = {} THEN 0
                                      ELSE g[Chosen(U)] + SumFunctionOnSet(g, Rest(U))]
  <2>1. \A U \in SUBSET T : U # {} => Rest(U) \in SUBSET T /\ Rest(U) # T /\ Rest(U) \subseteq U
    BY DEF Chosen
  <2>2. ASSUME NEW U \in SUBSET T, U # T PROVE F[U] = SumFunctionOnSet(g, U)
    <3> DEFINE f == CHOOSE f : IsFold(f, g, U)
    <3>1. IsFold(f, g, U)
      BY <1>1, <2>2
    <3>2. SumFunctionOnSet(g, U) = f[U]
      BY SumIsFold
    <3> HIDE DEF f
    <3>3. CASE U = {}
      BY <3>1, <3>2, <3>3 DEF IsFold
    <3>4. CASE U # {}
      <4>1. Chosen(U) \in U
        BY <3>4 DEF Chosen
      <4>2. f[U] = g[Chosen(U)] + f[Rest(U)]
        BY <3>1, <3>4 DEF IsFold
      <4> DEFINE e == [V \in SUBSET Rest(U) |-> f[V]]
      <4>3. IsFold(e, g, Rest(U))
        <5>1. \A V \in SUBSET Rest(U) : V \in SUBSET U /\ V \ {Chosen(V)} \in SUBSET Rest(U)
          OBVIOUS
        <5>2. \A V \in SUBSET U : f[V] = IF V = {} THEN 0 ELSE g[Chosen(V)] + f[V \ {Chosen(V)}]
          BY <3>1 DEF IsFold
        <5>. QED  BY <5>1, <5>2 DEF IsFold
      <4>4. IsFiniteSet(Rest(U))
        BY FS_Subset
      <4>5. SumFunctionOnSet(g, Rest(U)) = (CHOOSE h : IsFold(h, g, Rest(U)))[Rest(U)]
        BY SumIsFold
      <4>6. IsFold(CHOOSE h : IsFold(h, g, Rest(U)), g, Rest(U))
        BY <4>3
      <4>7. (CHOOSE h : IsFold(h, g, Rest(U))) = e
        BY <4>3, <4>4, <4>6, FoldUnique
      <4>8. SumFunctionOnSet(g, Rest(U)) = f[Rest(U)]
        BY <4>5, <4>7
      <4>. QED  BY <3>2, <3>4, <4>2, <4>8
    <3>. QED  BY <3>3, <3>4
  <2>3. IsFold(F, g, T)
    <3>1. ASSUME NEW U \in SUBSET T, U # {}
          PROVE  F[U] = g[Chosen(U)] + F[Rest(U)]
      <4>1. Rest(U) \in SUBSET T /\ Rest(U) # T
        BY <2>1, <3>1
      <4>2. F[Rest(U)] = SumFunctionOnSet(g, Rest(U))
        BY <2>2, <4>1
      <4>. QED  BY <3>1, <4>2
    <3>2. F[{}] = 0
      OBVIOUS
    <3>. QED  BY <3>1, <3>2 DEF IsFold
  <2>. QED  BY <2>3
<1>2. SUBSET S \subseteq P
  <2> HIDE DEF P
  <2>. QED  BY <1>1, SubsetInduction
<1>. QED  BY <1>2

LEMMA SumStep ==
  ASSUME NEW S, IsFiniteSet(S), NEW g
  PROVE  SumFunctionOnSet(g, S) =
           IF S = {} THEN 0 ELSE g[Chosen(S)] + SumFunctionOnSet(g, S \ {Chosen(S)})
<1> DEFINE f == CHOOSE f : IsFold(f, g, S)
<1>1. IsFold(f, g, S)
  BY FoldExists
<1>2. SumFunctionOnSet(g, S) = f[S]
  BY SumIsFold
<1> HIDE DEF f
<1>3. CASE S = {}
  BY <1>1, <1>2, <1>3 DEF IsFold
<1>4. CASE S # {}
  <2> DEFINE R == S \ {Chosen(S)}
             e == [V \in SUBSET R |-> f[V]]
  <2>1. \A V \in SUBSET R : V \in SUBSET S /\ V \ {Chosen(V)} \in SUBSET R
    OBVIOUS
  <2>2. \A V \in SUBSET S : f[V] = IF V = {} THEN 0 ELSE g[Chosen(V)] + f[V \ {Chosen(V)}]
    BY <1>1 DEF IsFold
  <2>3. IsFold(e, g, R)
    BY <2>1, <2>2 DEF IsFold
  <2>4. IsFiniteSet(R)
    BY FS_Subset
  <2>5. IsFold(CHOOSE h : IsFold(h, g, R), g, R)
    BY <2>3
  <2>6. (CHOOSE h : IsFold(h, g, R)) = e
    BY <2>3, <2>4, <2>5, FoldUnique
  <2>7. SumFunctionOnSet(g, R) = f[R]
    BY <2>6, SumIsFold
  <2>8. f[S] = g[Chosen(S)] + f[R]
    BY <2>2, <1>4
  <2>. QED  BY <1>2, <1>4, <2>7, <2>8
<1>. QED  BY <1>3, <1>4

(* A sum of integers is one, whatever order it is taken in.                *)
LEMMA SumType ==
  ASSUME NEW S, IsFiniteSet(S), NEW g, \A x \in S : g[x] \in Int
  PROVE  SumFunctionOnSet(g, S) \in Int
<1> DEFINE P == {T \in SUBSET S : SumFunctionOnSet(g, T) \in Int}
<1>1. ASSUME NEW T \in SUBSET S, \A U \in SUBSET T : U # T => U \in P
      PROVE  T \in P
  <2>1. IsFiniteSet(T)
    BY FS_Subset
  <2>2. CASE T = {}
    BY <2>1, <2>2, SumStep
  <2>3. CASE T # {}
    <3>1. Chosen(T) \in T
      BY <2>3 DEF Chosen
    <3>2. T \ {Chosen(T)} \in P
      BY <1>1, <3>1
    <3>3. SumFunctionOnSet(g, T \ {Chosen(T)}) \in Int /\ g[Chosen(T)] \in Int
      BY <3>1, <3>2
    <3>. QED  BY <2>1, <2>3, <3>3, SumStep
  <2>. QED  BY <2>2, <2>3
<1>2. SUBSET S \subseteq P
  <2> HIDE DEF P
  <2>. QED  BY <1>1, SubsetInduction
<1>. QED  BY <1>2

(* Any element can be taken out of a sum.                                  *)
LEMMA SumSplit ==
  ASSUME NEW S, IsFiniteSet(S), NEW g, \A x \in S : g[x] \in Int, NEW y \in S
  PROVE  SumFunctionOnSet(g, S) = g[y] + SumFunctionOnSet(g, S \ {y})
<1> DEFINE P == {T \in SUBSET S : \A x \in T :
                   SumFunctionOnSet(g, T) = g[x] + SumFunctionOnSet(g, T \ {x})}
<1>1. ASSUME NEW T \in SUBSET S, \A U \in SUBSET T : U # T => U \in P
      PROVE  T \in P
  <2> SUFFICES ASSUME NEW x \in T
               PROVE  SumFunctionOnSet(g, T) = g[x] + SumFunctionOnSet(g, T \ {x})
    OBVIOUS
  <2> DEFINE c == Chosen(T)
  <2>1. IsFiniteSet(T) /\ c \in T
    BY FS_Subset DEF Chosen
  <2>2. SumFunctionOnSet(g, T) = g[c] + SumFunctionOnSet(g, T \ {c})
    BY <2>1, SumStep
  <2> HIDE DEF c
  <2>3. CASE x = c
    BY <2>2, <2>3
  <2>4. CASE x # c
    <3>1. T \ {c} \in P /\ T \ {x} \in P
      BY <1>1, <2>1
    <3>2. SumFunctionOnSet(g, T \ {c}) = g[x] + SumFunctionOnSet(g, (T \ {c}) \ {x})
      BY <3>1, <2>4
    <3>3. SumFunctionOnSet(g, T \ {x}) = g[c] + SumFunctionOnSet(g, (T \ {x}) \ {c})
      BY <3>1, <2>1, <2>4
    <3>4. (T \ {c}) \ {x} = (T \ {x}) \ {c}
      OBVIOUS
    <3>5. IsFiniteSet((T \ {x}) \ {c}) /\ g[x] \in Int /\ g[c] \in Int
      BY <2>1, FS_Subset
    <3>6. SumFunctionOnSet(g, (T \ {x}) \ {c}) \in Int
      BY <3>5, SumType
    <3>7. SumFunctionOnSet(g, T) = g[c] + (g[x] + SumFunctionOnSet(g, (T \ {x}) \ {c}))
      BY <2>2, <3>2, <3>4
    <3>8. \A a, b, r \in Int : a + (b + r) = b + (a + r)
      OBVIOUS
    <3>9. SumFunctionOnSet(g, T) = g[x] + (g[c] + SumFunctionOnSet(g, (T \ {x}) \ {c}))
      BY <3>5, <3>6, <3>7, <3>8, Zenon
    <3>. QED  BY <3>3, <3>9, Zenon
  <2>. QED  BY <2>3, <2>4
<1>2. SUBSET S \subseteq P
  <2> HIDE DEF P
  <2>. QED  BY <1>1, SubsetInduction
<1>. QED  BY <1>2

LEMMA SumEmpty ==
  ASSUME NEW g
  PROVE  SumFunctionOnSet(g, {}) = 0
  BY SumStep, FS_EmptySet

(* A sum grows with its terms.                                             *)
LEMMA SumMonotonic ==
  ASSUME NEW S, IsFiniteSet(S), NEW f, NEW g,
         \A x \in S : f[x] \in Int /\ g[x] \in Int /\ f[x] <= g[x]
  PROVE  SumFunctionOnSet(f, S) <= SumFunctionOnSet(g, S)
<1> DEFINE P == {T \in SUBSET S : SumFunctionOnSet(f, T) <= SumFunctionOnSet(g, T)}
<1>1. ASSUME NEW T \in SUBSET S, \A U \in SUBSET T : U # T => U \in P
      PROVE  T \in P
  <2>1. IsFiniteSet(T)
    BY FS_Subset
  <2>2. CASE T = {}
    BY <2>2, SumEmpty
  <2>3. CASE T # {}
    <3> DEFINE c == Chosen(T)
    <3>1. c \in T
      BY <2>3 DEF Chosen
    <3> HIDE DEF c
    <3>2. T \ {c} \in P /\ IsFiniteSet(T \ {c})
      BY <1>1, <2>1, <3>1, FS_Subset
    <3>3. /\ SumFunctionOnSet(f, T \ {c}) \in Int /\ SumFunctionOnSet(g, T \ {c}) \in Int
          /\ f[c] \in Int /\ g[c] \in Int /\ f[c] <= g[c]
      BY <3>1, <3>2, SumType
    <3>4. /\ SumFunctionOnSet(f, T) = f[c] + SumFunctionOnSet(f, T \ {c})
          /\ SumFunctionOnSet(g, T) = g[c] + SumFunctionOnSet(g, T \ {c})
      BY <2>1, <3>1, SumSplit
    <3>. QED  BY <3>2, <3>3, <3>4
  <2>. QED  BY <2>2, <2>3
<1>2. SUBSET S \subseteq P
  <2> HIDE DEF P
  <2>. QED  BY <1>1, SubsetInduction
<1>. QED  BY <1>2

(* What one term differs by is at least what the sums differ by.           *)
LEMMA SumMonotonicAt ==
  ASSUME NEW S, IsFiniteSet(S), NEW f, NEW g,
         \A x \in S : f[x] \in Int /\ g[x] \in Int,
         NEW y \in S, NEW d \in Int, f[y] + d <= g[y],
         \A x \in S \ {y} : f[x] <= g[x]
  PROVE  SumFunctionOnSet(f, S) + d <= SumFunctionOnSet(g, S)
<1> DEFINE R == S \ {y}
<1>1. IsFiniteSet(R)
  BY FS_Subset
<1>2. SumFunctionOnSet(f, R) <= SumFunctionOnSet(g, R)
  BY <1>1, SumMonotonic
<1>3. SumFunctionOnSet(f, R) \in Int /\ SumFunctionOnSet(g, R) \in Int
  BY <1>1, SumType
<1>4. /\ SumFunctionOnSet(f, S) = f[y] + SumFunctionOnSet(f, R)
      /\ SumFunctionOnSet(g, S) = g[y] + SumFunctionOnSet(g, R)
  BY SumSplit
<1>. QED  BY <1>2, <1>3, <1>4

LEMMA SumZero ==
  ASSUME NEW S, IsFiniteSet(S), NEW g, \A x \in S : g[x] = 0
  PROVE  SumFunctionOnSet(g, S) = 0
<1> DEFINE P == {T \in SUBSET S : SumFunctionOnSet(g, T) = 0}
<1>1. ASSUME NEW T \in SUBSET S, \A U \in SUBSET T : U # T => U \in P
      PROVE  T \in P
  <2>1. IsFiniteSet(T)
    BY FS_Subset
  <2>2. CASE T = {}
    BY <2>2, SumEmpty
  <2>3. CASE T # {}
    <3>1. Chosen(T) \in T
      BY <2>3 DEF Chosen
    <3>2. T \ {Chosen(T)} \in P
      BY <1>1, <3>1
    <3>. QED  BY <2>1, <2>3, <3>1, <3>2, SumStep
  <2>. QED  BY <2>2, <2>3
<1>2. SUBSET S \subseteq P
  <2> HIDE DEF P
  <2>. QED  BY <1>1, SubsetInduction
<1>. QED  BY <1>2

(* A term is at most the sum, and so are two, when none is negative.       *)
LEMMA SumNonNegative ==
  ASSUME NEW S, IsFiniteSet(S), NEW g, \A x \in S : g[x] \in Nat
  PROVE  SumFunctionOnSet(g, S) \in Nat
<1> DEFINE z == [x \in S |-> 0]
<1>1. SumFunctionOnSet(z, S) = 0
  BY SumZero
<1>2. SumFunctionOnSet(z, S) <= SumFunctionOnSet(g, S)
  BY SumMonotonic
<1>3. SumFunctionOnSet(g, S) \in Int
  BY SumType
<1>. QED  BY <1>1, <1>2, <1>3

LEMMA SumTerm ==
  ASSUME NEW S, IsFiniteSet(S), NEW g, \A x \in S : g[x] \in Nat, NEW y \in S
  PROVE  g[y] <= SumFunctionOnSet(g, S)
<1>1. IsFiniteSet(S \ {y})
  BY FS_Subset
<1>2. SumFunctionOnSet(g, S \ {y}) \in Nat
  BY <1>1, SumNonNegative
<1>3. SumFunctionOnSet(g, S) = g[y] + SumFunctionOnSet(g, S \ {y})
  BY SumSplit
<1>. QED  BY <1>2, <1>3

LEMMA SumTwoTerms ==
  ASSUME NEW S, IsFiniteSet(S), NEW g, \A x \in S : g[x] \in Nat,
         NEW y \in S, NEW z \in S, y # z
  PROVE  g[y] + g[z] <= SumFunctionOnSet(g, S)
<1>1. IsFiniteSet(S \ {y})
  BY FS_Subset
<1>2. g[z] <= SumFunctionOnSet(g, S \ {y}) /\ SumFunctionOnSet(g, S \ {y}) \in Nat
  BY <1>1, SumTerm, SumNonNegative
<1>3. SumFunctionOnSet(g, S) = g[y] + SumFunctionOnSet(g, S \ {y})
  BY SumSplit
<1>. QED  BY <1>2, <1>3

LEMMA SumScaled ==
  ASSUME NEW S, IsFiniteSet(S), NEW f, NEW g, NEW c \in Nat,
         \A x \in S : g[x] \in Int /\ f[x] = c * g[x]
  PROVE  SumFunctionOnSet(f, S) = c * SumFunctionOnSet(g, S)
<1> DEFINE P == {T \in SUBSET S : SumFunctionOnSet(f, T) = c * SumFunctionOnSet(g, T)}
<1>1. ASSUME NEW T \in SUBSET S, \A U \in SUBSET T : U # T => U \in P
      PROVE  T \in P
  <2>1. IsFiniteSet(T)
    BY FS_Subset
  <2>2. CASE T = {}
    <3>1. SumFunctionOnSet(f, T) = 0 /\ SumFunctionOnSet(g, T) = 0
      BY <2>1, <2>2, SumStep
    <3>. QED  BY <3>1
  <2>3. CASE T # {}
    <3> DEFINE y == Chosen(T)
               R == T \ {y}
               a == SumFunctionOnSet(f, R)
               b == SumFunctionOnSet(g, R)
    <3>1. y \in T /\ SumFunctionOnSet(f, T) = f[y] + a /\ SumFunctionOnSet(g, T) = g[y] + b
      BY <2>1, <2>3, SumStep DEF Chosen
    <3>2. R \in P /\ IsFiniteSet(R) /\ \A x \in R : g[x] \in Int
      BY <1>1, <2>1, <3>1, FS_Subset
    <3>3. b \in Int /\ a = c * b
      BY <3>2, SumType
    <3>4. g[y] \in Int /\ f[y] = c * g[y]
      BY <3>1
    <3> HIDE DEF a, b, y
    <3>5. SumFunctionOnSet(f, T) = c * (g[y] + b)
      BY <3>1, <3>3, <3>4
    <3>. QED  BY <3>1, <3>5
  <2>. QED  BY <2>2, <2>3
<1>2. SUBSET S \subseteq P
  <2> HIDE DEF P
  <2>. QED  BY <1>1, SubsetInduction
<1>. QED  BY <1>2

(* The pairs of an element and a member of its set are as many as the      *)
(* sizes of the sets add up to.                                            *)
LEMMA PairsCounted ==
  ASSUME NEW S, IsFiniteSet(S), NEW f, NEW g,
         \A x \in S : IsFiniteSet(f[x]) /\ g[x] = Cardinality(f[x])
  PROVE  LET pairs == UNION {{x} \X f[x] : x \in S}
         IN  IsFiniteSet(pairs) /\ Cardinality(pairs) = SumFunctionOnSet(g, S)
<1> DEFINE Pairs(T) == UNION {{x} \X f[x] : x \in T}
           P == {T \in SUBSET S : /\ IsFiniteSet(Pairs(T))
                                 /\ Cardinality(Pairs(T)) = SumFunctionOnSet(g, T)}
<1>1. ASSUME NEW T \in SUBSET S, \A U \in SUBSET T : U # T => U \in P
      PROVE  T \in P
  <2>1. IsFiniteSet(T)
    BY FS_Subset
  <2>2. CASE T = {}
    <3>1. Pairs(T) = {} /\ SumFunctionOnSet(g, T) = 0
      BY <2>1, <2>2, SumStep
    <3> HIDE DEF Pairs
    <3>. QED  BY <3>1, FS_EmptySet
  <2>3. CASE T # {}
    <3> DEFINE c == Chosen(T)
               R == T \ {c}
               A == {c} \X f[c]
    <3>1. c \in T /\ SumFunctionOnSet(g, T) = g[c] + SumFunctionOnSet(g, R)
      BY <2>1, <2>3, SumStep DEF Chosen
    <3> HIDE DEF c
    <3>2. IsFiniteSet(Pairs(R)) /\ Cardinality(Pairs(R)) = SumFunctionOnSet(g, R)
      <4>1. R \in P
        BY <1>1, <3>1
      <4>. QED  BY <4>1
    <3>3. IsFiniteSet(f[c]) /\ g[c] = Cardinality(f[c]) /\ g[c] \in Nat
      BY <3>1, FS_CardinalityType
    <3>4. IsFiniteSet(A) /\ Cardinality(A) = g[c]
      <4>1. IsFiniteSet({c}) /\ Cardinality({c}) = 1
        BY FS_Singleton
      <4>2. IsFiniteSet(A) /\ Cardinality(A) = Cardinality({c}) * Cardinality(f[c])
        BY <3>3, <4>1, FS_Product
      <4> HIDE DEF A
      <4>. QED  BY <3>3, <4>1, <4>2
    <3>5. Pairs(T) = A \cup Pairs(R)
      BY <3>1
    <3>6. A \cap Pairs(R) = {}
      OBVIOUS
    <3> HIDE DEF A, Pairs, R
    <3>7. Cardinality(A \cap Pairs(R)) = 0
      BY <3>6, FS_EmptySet
    <3>8. /\ IsFiniteSet(A \cup Pairs(R))
          /\ Cardinality(A \cup Pairs(R)) =
               Cardinality(A) + Cardinality(Pairs(R)) - Cardinality(A \cap Pairs(R))
      BY <3>2, <3>4, FS_Union
    <3>9. Cardinality(Pairs(R)) \in Nat
      BY <3>2, FS_CardinalityType
    <3>10. Cardinality(Pairs(T)) = SumFunctionOnSet(g, T)
      BY <3>1, <3>2, <3>3, <3>4, <3>5, <3>7, <3>8, <3>9
    <3>. QED  BY <3>5, <3>8, <3>10
  <2>. QED  BY <2>2, <2>3
<1>2. SUBSET S \subseteq P
  <2> HIDE DEF P
  <2>. QED  BY <1>1, SubsetInduction
<1>3. S \in P
  <2> HIDE DEF P
  <2>. QED  BY <1>2
<1>. QED  BY <1>3
=============================================================================
