----------------------------- MODULE SumProofs ------------------------------
(***************************************************************************)
(* What a sum over a finite set is, which the community modules define by a *)
(* recursive function.                                                     *)
(***************************************************************************)
EXTENDS Totals, Integers, FiniteSets, FiniteSetsExt, Functions, FiniteSetTheorems, WellFoundedInduction, TLAPS

\* A nonempty set of naturals has a least element.
LEMMA Least ==
  ASSUME NEW T \in SUBSET Nat, T # {}
  PROVE  \E x \in T : \A y \in T : x <= y
<1>1. PICK x \in T : \A y \in T : ~(<<y, x>> \in OpToRel(<, Nat))
  BY NatLessThanWellFounded, WFMin
<1>2. \A y \in T : ~(y < x)
  BY <1>1 DEF OpToRel
<1>3. QED
  BY <1>2

\* What holds of 0, and of n + 1 when it holds of n, holds of every natural.
LEMMA EveryNat ==
  ASSUME NEW P \in SUBSET Nat, 0 \in P, \A n \in P : n + 1 \in P
  PROVE  P = Nat
<1>1. SUFFICES ASSUME Nat \ P # {} PROVE FALSE
  OBVIOUS
<1>2. PICK n \in Nat \ P : \A m \in Nat \ P : n <= m
  BY <1>1, Least
<1>3. n # 0 /\ n - 1 \in Nat /\ ~(n <= n - 1) /\ (n - 1) + 1 = n
  BY <1>2
<1>4. n - 1 \in P
  BY <1>2, <1>3
<1>5. n \in P
  BY <1>3, <1>4
<1>6. QED
  BY <1>2, <1>5

\* One step of the sum over s of f, when r is the sum over smaller sets.
Some(s) == CHOOSE x \in s : TRUE
Added(f, r, s) == IF s = {} THEN 0 ELSE f[Some(s)] + r[s \ {Some(s)}]

LEMMA SmallerSet ==
  ASSUME NEW S, IsFiniteSet(S), NEW s \in SUBSET S, s # {}
  PROVE  /\ Some(s) \in s /\ s \ {Some(s)} \in SUBSET S
         /\ IsFiniteSet(s) /\ Cardinality(s) \in Nat /\ Cardinality(s \ {Some(s)}) \in Nat
         /\ Cardinality(s \ {Some(s)}) < Cardinality(s)
<1>1. Some(s) \in s
  BY DEF Some
<1>2. IsFiniteSet(s) /\ IsFiniteSet(s \ {Some(s)})
  BY FS_Subset
<1>3. Cardinality(s \ {Some(s)}) = Cardinality(s) - 1
  BY <1>1, <1>2, FS_RemoveElement
<1>4. QED
  BY <1>1, <1>2, <1>3, FS_CardinalityType

\* The sums over the subsets of a finite set exist.
LEMMA SumsExist ==
  ASSUME NEW S, IsFiniteSet(S), NEW f
  PROVE  \E r : r = [s \in SUBSET S |-> Added(f, r, s)]
<1> DEFINE Upto(r, n) == /\ DOMAIN r = SUBSET S
                         /\ \A s \in SUBSET S : Cardinality(s) <= n => r[s] = Added(f, r, s)
           Bad == {n \in Nat : ~ \E r : Upto(r, n)}
<1>1. Upto([s \in SUBSET S |-> 0], 0)
  <2>1. ASSUME NEW s \in SUBSET S, Cardinality(s) <= 0
        PROVE  s = {}
    <3>1. IsFiniteSet(s) /\ Cardinality(s) \in Nat
      BY FS_Subset, FS_CardinalityType
    <3>2. QED
      BY <2>1, <3>1, FS_EmptySet
  <2>2. QED
    BY <2>1 DEF Added
<1>2. ASSUME NEW n \in Nat, NEW r, Upto(r, n)
      PROVE  Upto([s \in SUBSET S |-> Added(f, r, s)], n + 1)
  <2> DEFINE q == [s \in SUBSET S |-> Added(f, r, s)]
  <2>1. ASSUME NEW s \in SUBSET S, Cardinality(s) <= n + 1
        PROVE  q[s] = Added(f, q, s)
    <3>1. CASE s = {}
      BY <3>1 DEF Added
    <3>2. CASE s # {}
      <4>1. Cardinality(s \ {Some(s)}) <= n /\ s \ {Some(s)} \in SUBSET S
        BY <2>1, <3>2, SmallerSet
      <4>2. q[s \ {Some(s)}] = r[s \ {Some(s)}]
        BY <1>2, <4>1
      <4>3. QED
        BY <3>2, <4>2 DEF Added
    <3>3. QED
      BY <3>1, <3>2
  <2>2. QED
    BY <2>1
<1>3. Bad = {}
  <2>1. SUFFICES ASSUME Bad # {} PROVE FALSE
    OBVIOUS
  <2>2. PICK n \in Bad : \A m \in Bad : n <= m
    BY <2>1, Least
  <2>3. n \in Nat /\ n # 0
    BY <1>1
  <2>4. PICK k \in Nat : n = k + 1
    <3>1. n - 1 \in Nat /\ n = (n - 1) + 1
      BY <2>3
    <3>2. QED
      BY <3>1
  <2>5. k \notin Bad
    <3>1. ~(n <= k)
      BY <2>3, <2>4
    <3>2. QED
      BY <2>2, <3>1
  <2> HIDE DEF Upto
  <2>6. PICK r : Upto(r, k)
    BY <2>5
  <2>7. Upto([s \in SUBSET S |-> Added(f, r, s)], k + 1)
    BY <1>2, <2>6
  <2>8. \E q : Upto(q, n)
    BY <2>4, <2>7
  <2>9. QED
    BY <2>8
<1>4. Cardinality(S) \in Nat
  BY FS_CardinalityType
<1>5. PICK r : Upto(r, Cardinality(S))
  BY <1>3, <1>4
<1>6. \A s \in SUBSET S : Cardinality(s) <= Cardinality(S)
  BY FS_Subset
<1> DEFINE q == [s \in SUBSET S |-> Added(f, r, s)]
<1>7. \A s \in SUBSET S : q[s] = r[s]
  BY <1>5, <1>6
<1>8. q = [s \in SUBSET S |-> Added(f, q, s)]
  <2>1. ASSUME NEW s \in SUBSET S PROVE Added(f, r, s) = Added(f, q, s)
    <3>1. CASE s = {}
      BY <3>1 DEF Added
    <3>2. CASE s # {}
      BY <1>7, <3>2 DEF Added
    <3>3. QED
      BY <3>1, <3>2
  <2>2. QED
    BY <2>1
<1>9. QED
  BY <1>8

\* A sum of elements of T is one when T is closed under addition.
LEMMA SumType ==
  ASSUME NEW T, 0 \in T, \A a, b \in T : a + b \in T,
         NEW f, IsFiniteSet(DOMAIN f), \A x \in DOMAIN f : f[x] \in T
  PROVE  SumFunction(f) \in T
<1> DEFINE S == DOMAIN f
           Is(r) == r = [s \in SUBSET S |-> Added(f, r, s)]
           sums == CHOOSE r : Is(r)
<1>1. SumFunction(f) = sums[S]
  BY DEF SumFunction, SumFunctionOnSet, FoldFunctionOnSet, MapThenFoldSet, Added, Some
<1>2. Is(sums)
  BY SumsExist
<1> HIDE DEF sums
<1>3. \A s \in SUBSET S : sums[s] = Added(f, sums, s)
  BY <1>2
<1> DEFINE Bad == {s \in SUBSET S : sums[s] \notin T}
<1>4. Bad = {}
  <2>1. SUFFICES ASSUME Bad # {} PROVE FALSE
    OBVIOUS
  <2> DEFINE Sizes == {Cardinality(s) : s \in Bad}
  <2>2. Sizes \in SUBSET Nat /\ Sizes # {}
    BY <2>1, FS_Subset, FS_CardinalityType
  <2>3. PICK n \in Sizes : \A m \in Sizes : n <= m
    BY <2>2, Least
  <2>4. PICK s \in Bad : \A r \in Bad : Cardinality(s) <= Cardinality(r)
    BY <2>3
  <2>5. s # {}
    BY <1>3 DEF Added
  <2>6. /\ Some(s) \in s /\ s \ {Some(s)} \in SUBSET S
        /\ Cardinality(s) \in Nat /\ Cardinality(s \ {Some(s)}) \in Nat
        /\ Cardinality(s \ {Some(s)}) < Cardinality(s)
    BY <2>5, SmallerSet
  <2>7. ~(Cardinality(s) <= Cardinality(s \ {Some(s)}))
    BY <2>6
  <2>8. s \ {Some(s)} \notin Bad
    BY <2>4, <2>7
  <2>9. sums[s] = f[Some(s)] + sums[s \ {Some(s)}]
    BY <1>3, <2>5 DEF Added
  <2>10. sums[s \ {Some(s)}] \in T /\ f[Some(s)] \in T
    BY <2>6, <2>8
  <2>11. QED
    BY <2>9, <2>10
<1>5. QED
  BY <1>1, <1>4

-----------------------------------------------------------------------------
(* Running totals.                                                         *)

Adds(sum, s, n) == sum = [k \in 0 .. n |-> IF k = 0 THEN 0 ELSE sum[k - 1] + s[k]]

LEMMA TotalsExist ==
  ASSUME NEW s, NEW n \in Nat
  PROVE  \E sum : Adds(sum, s, n)
<1> DEFINE P == {m \in Nat : \E sum : Adds(sum, s, m)}
<1>1. 0 \in P
  <2>1. Adds([k \in 0 .. 0 |-> 0], s, 0)
    BY DEF Adds
  <2>2. QED
    BY <2>1
<1>2. ASSUME NEW m \in P PROVE m + 1 \in P
  <2>1. PICK sum : Adds(sum, s, m)
    OBVIOUS
  <2> DEFINE next == [k \in 0 .. (m + 1) |-> IF k = m + 1 THEN sum[m] + s[m + 1] ELSE sum[k]]
  <2>2. m \in Nat /\ m + 1 \in Nat
    OBVIOUS
  <2>3. ASSUME NEW k \in 0 .. (m + 1)
        PROVE  next[k] = IF k = 0 THEN 0 ELSE next[k - 1] + s[k]
    <3>1. CASE k = m + 1
      <4>1. k # 0 /\ m \in 0 .. (m + 1) /\ k - 1 = m /\ m # m + 1
        BY <2>2, <3>1
      <4>2. next[m] = sum[m] /\ next[k] = sum[m] + s[k]
        BY <3>1, <4>1
      <4>3. QED
        BY <4>1, <4>2
    <3>2. CASE k # m + 1
      <4>1. k \in 0 .. m /\ (k # 0 => k - 1 \in 0 .. (m + 1) /\ k - 1 # m + 1)
        BY <2>2, <3>2
      <4>2. sum[k] = IF k = 0 THEN 0 ELSE sum[k - 1] + s[k]
        BY <2>1, <4>1 DEF Adds
      <4>3. next[k] = sum[k] /\ (k # 0 => next[k - 1] = sum[k - 1])
        BY <3>2, <4>1
      <4>4. QED
        BY <4>2, <4>3
    <3>3. QED
      BY <3>1, <3>2
  <2>4. Adds(next, s, m + 1)
    <3>1. next = [k \in 0 .. (m + 1) |-> next[k]]
      OBVIOUS
    <3> HIDE DEF next
    <3>2. QED
      BY <2>3, <3>1 DEF Adds
  <2>5. QED
    BY <2>2, <2>4
<1>3. P = Nat
  <2> HIDE DEF P
  <2>1. P \in SUBSET Nat
    BY DEF P
  <2>2. QED
    BY <1>1, <1>2, <2>1, EveryNat
<1>4. QED
  BY <1>3

LEMMA TotalsAre ==
  ASSUME NEW s, Len(s) \in Nat
  PROVE  /\ DOMAIN Accumulated(s) = 0 .. Len(s)
         /\ Accumulated(s)[0] = 0
         /\ \A k \in 0 .. Len(s) : k # 0 => Accumulated(s)[k] = Accumulated(s)[k - 1] + s[k]
<1> DEFINE A == Accumulated(s)
<1>1. A = CHOOSE sum : Adds(sum, s, Len(s))
  BY DEF Accumulated, Adds
<1>2. Adds(A, s, Len(s))
  <2> HIDE DEF A
  <2>1. QED
    BY <1>1, TotalsExist
<1> HIDE DEF A
<1>3. A = [k \in 0 .. Len(s) |-> IF k = 0 THEN 0 ELSE A[k - 1] + s[k]]
  BY <1>2 DEF Adds
<1>4. 0 \in 0 .. Len(s)
  OBVIOUS
<1>5. DOMAIN A = 0 .. Len(s) /\ A[0] = 0
  BY <1>3, <1>4
<1>6. \A k \in 0 .. Len(s) : k # 0 => A[k] = A[k - 1] + s[k]
  BY <1>3
<1>7. QED
  BY <1>5, <1>6 DEF A

\* Of numbers that are not negative they are none either, and do not fall.
LEMMA TotalsGrow ==
  ASSUME NEW s, Len(s) \in Nat, \A k \in 1 .. Len(s) : s[k] \in Nat
  PROVE  /\ \A k \in 0 .. Len(s) : Accumulated(s)[k] \in Nat
         /\ \A a, b \in 0 .. Len(s) : a <= b => Accumulated(s)[a] <= Accumulated(s)[b]
<1> DEFINE A == Accumulated(s)
           n == Len(s)
<1>1. /\ A[0] = 0
      /\ \A k \in 0 .. n : k # 0 => A[k] = A[k - 1] + s[k]
  BY TotalsAre
<1>2. n \in Nat /\ \A k \in 1 .. n : s[k] \in Nat
  OBVIOUS
<1> HIDE DEF A, n
<1> DEFINE P == {k \in Nat : k <= n => A[k] \in Nat}
<1>3. 0 \in P
  BY <1>1
<1>4. ASSUME NEW k \in P PROVE k + 1 \in P
  <2>1. k \in Nat /\ k + 1 \in Nat /\ k + 1 # 0 /\ (k + 1) - 1 = k
    OBVIOUS
  <2>2. CASE k + 1 <= n
    <3>1. k <= n /\ k + 1 \in 0 .. n /\ k + 1 \in 1 .. n
      BY <1>2, <2>1, <2>2
    <3>2. A[k + 1] = A[k] + s[k + 1] /\ A[k] \in Nat /\ s[k + 1] \in Nat
      BY <1>1, <1>2, <2>1, <3>1
    <3>3. QED
      BY <2>1, <3>2
  <2>3. QED
    BY <2>1, <2>2
<1>5. P = Nat
  <2> HIDE DEF P
  <2>1. P \in SUBSET Nat
    BY DEF P
  <2>2. QED
    BY <1>3, <1>4, <2>1, EveryNat
<1>6. \A k \in 0 .. n : A[k] \in Nat
  BY <1>2, <1>5
<1> HIDE DEF P
<1>7. ASSUME NEW a \in 0 .. n, NEW b \in 0 .. n, a <= b
      PROVE  A[a] <= A[b]
  <2> DEFINE Q == {d \in Nat : a + d <= n => A[a] <= A[a + d]}
  <2>1. 0 \in Q
    BY <1>2, <1>6
  <2>2. ASSUME NEW d \in Q PROVE d + 1 \in Q
    <3>1. d \in Nat /\ d + 1 \in Nat /\ a \in Nat
      BY <1>2
    <3>2. CASE a + (d + 1) <= n
      <4> DEFINE c == a + (d + 1)
      <4>1. /\ c \in 0 .. n /\ c \in 1 .. n /\ c # 0 /\ c - 1 = a + d /\ a + d <= n
            /\ a + d \in 0 .. n
        BY <1>2, <3>1, <3>2
      <4> HIDE DEF c
      <4>2. A[c] = A[a + d] + s[c] /\ s[c] \in Nat
        BY <1>1, <1>2, <4>1
      <4>3. A[a] <= A[a + d] /\ A[a] \in Nat /\ A[a + d] \in Nat
        BY <1>6, <4>1
      <4>4. A[a] <= A[c]
        BY <4>2, <4>3
      <4>5. QED
        BY <3>1, <4>4 DEF c
    <3>3. QED
      BY <3>1, <3>2
  <2>3. Q = Nat
    <3> HIDE DEF Q
    <3>1. Q \in SUBSET Nat
      BY DEF Q
    <3>2. QED
      BY <2>1, <2>2, <3>1, EveryNat
  <2>4. b - a \in Nat /\ a + (b - a) = b /\ b <= n
    BY <1>2, <1>7
  <2>5. b - a \in Q
    BY <2>3, <2>4
  <2>6. QED
    BY <2>4, <2>5
<1>8. QED
  BY <1>6, <1>7 DEF A, n

-----------------------------------------------------------------------------
(* Sums over sets that grow, are mapped and are divided.                   *)

\* What holds of the empty set, and of a set with one more element when it holds
\* of the set, holds of every finite set.
LEMMA EverySubset ==
  ASSUME NEW S, IsFiniteSet(S), NEW P \in SUBSET (SUBSET S), {} \in P,
         \A s \in P, x \in S : x \notin s => s \cup {x} \in P
  PROVE  S \in P
<1> DEFINE Bad == {s \in SUBSET S : s \notin P}
           Sizes == {Cardinality(s) : s \in Bad}
<1>1. SUFFICES ASSUME Bad # {} PROVE FALSE
  OBVIOUS
<1>2. Sizes \in SUBSET Nat /\ Sizes # {}
  BY <1>1, FS_Subset, FS_CardinalityType
<1>3. PICK n \in Sizes : \A m \in Sizes : n <= m
  BY <1>2, Least
<1>4. PICK s \in Bad : \A r \in Bad : Cardinality(s) <= Cardinality(r)
  BY <1>3
<1>5. s # {} /\ s \in SUBSET S
  BY <1>4
<1>6. /\ Some(s) \in s /\ s \ {Some(s)} \in SUBSET S
      /\ Cardinality(s) \in Nat /\ Cardinality(s \ {Some(s)}) \in Nat
      /\ Cardinality(s \ {Some(s)}) < Cardinality(s)
  BY <1>5, SmallerSet
<1>7. ~(Cardinality(s) <= Cardinality(s \ {Some(s)}))
  BY <1>6
<1>8. s \ {Some(s)} \in P
  BY <1>4, <1>6, <1>7
<1>9. s = (s \ {Some(s)}) \cup {Some(s)} /\ Some(s) \in S
  BY <1>5, <1>6
<1>10. QED
  BY <1>4, <1>8, <1>9

\* The sum over a subset is the same whichever sums it is taken from.
SumsOf(r, f, S) == r = [s \in SUBSET S |-> Added(f, r, s)]
LEMMA SumsAgree ==
  ASSUME NEW S, IsFiniteSet(S), NEW T, NEW f, NEW g, NEW r, NEW q,
         SumsOf(r, f, S), SumsOf(q, g, T), S \subseteq T, \A x \in S : f[x] = g[x]
  PROVE  r[S] = q[S]
<1> DEFINE Bad == {s \in SUBSET S : r[s] # q[s]}
           Sizes == {Cardinality(s) : s \in Bad}
<1>1. SUFFICES ASSUME Bad # {} PROVE FALSE
  OBVIOUS
<1>2. Sizes \in SUBSET Nat /\ Sizes # {}
  BY <1>1, FS_Subset, FS_CardinalityType
<1>3. PICK n \in Sizes : \A m \in Sizes : n <= m
  BY <1>2, Least
<1>4. PICK s \in Bad : \A t \in Bad : Cardinality(s) <= Cardinality(t)
  BY <1>3
<1>5. /\ \A t \in SUBSET S : r[t] = Added(f, r, t) /\ q[t] = Added(g, q, t)
  BY DEF SumsOf
<1>6. s # {} /\ s \in SUBSET S
  BY <1>4, <1>5 DEF Added
<1>7. /\ Some(s) \in s /\ s \ {Some(s)} \in SUBSET S
      /\ Cardinality(s) \in Nat /\ Cardinality(s \ {Some(s)}) \in Nat
      /\ Cardinality(s \ {Some(s)}) < Cardinality(s)
  BY <1>6, SmallerSet
<1>8. ~(Cardinality(s) <= Cardinality(s \ {Some(s)}))
  BY <1>7
<1>9. r[s \ {Some(s)}] = q[s \ {Some(s)}] /\ f[Some(s)] = g[Some(s)]
  BY <1>4, <1>6, <1>7, <1>8
<1>10. r[s] = q[s]
  BY <1>5, <1>6, <1>9 DEF Added
<1>11. QED
  BY <1>4, <1>10

LEMMA SumTaken ==
  ASSUME NEW f, IsFiniteSet(DOMAIN f)
  PROVE  \E r : SumsOf(r, f, DOMAIN f) /\ SumFunction(f) = r[DOMAIN f]
<1> DEFINE sums == CHOOSE r : SumsOf(r, f, DOMAIN f)
<1>1. SumFunction(f) = sums[DOMAIN f]
  BY DEF SumFunction, SumFunctionOnSet, FoldFunctionOnSet, MapThenFoldSet, Added, Some, SumsOf
<1>2. SumsOf(sums, f, DOMAIN f)
  BY SumsExist DEF SumsOf
<1>3. QED
  BY <1>1, <1>2

\* The order does not matter: any element can be taken last.
LEMMA TakenInAnyOrder ==
  ASSUME NEW S, IsFiniteSet(S), NEW f, \A x \in S : f[x] \in Int, NEW r, SumsOf(r, f, S)
  PROVE  /\ \A s \in SUBSET S : r[s] \in Int
         /\ \A s \in SUBSET S : \A x \in s : r[s] = f[x] + r[s \ {x}]
<1> DEFINE Good(s) == r[s] \in Int /\ \A x \in s : r[s] = f[x] + r[s \ {x}]
           Bad == {s \in SUBSET S : ~Good(s)}
           Sizes == {Cardinality(s) : s \in Bad}
<1>1. SUFFICES ASSUME Bad # {} PROVE FALSE
  OBVIOUS
<1> HIDE DEF Good
<1>2. Sizes \in SUBSET Nat /\ Sizes # {}
  BY <1>1, FS_Subset, FS_CardinalityType
<1>3. PICK n \in Sizes : \A m \in Sizes : n <= m
  BY <1>2, Least
<1>4. PICK s \in Bad : \A t \in Bad : Cardinality(s) <= Cardinality(t)
  BY <1>3
<1>5. \A t \in SUBSET S : r[t] = Added(f, r, t)
  BY DEF SumsOf
<1>6. s # {} /\ s \in SUBSET S
  <2>1. {} \in SUBSET S
    OBVIOUS
  <2>2. r[{}] = 0
    BY <1>5, <2>1 DEF Added
  <2>3. Good({})
    BY <2>2 DEF Good
  <2>4. QED
    BY <1>4, <2>3
<1> DEFINE c == Some(s)
<1>7. /\ c \in s /\ s \ {c} \in SUBSET S
      /\ Cardinality(s) \in Nat /\ Cardinality(s \ {c}) \in Nat
      /\ Cardinality(s \ {c}) < Cardinality(s) /\ IsFiniteSet(s)
  BY <1>6, SmallerSet
<1>8. \A x \in s : Good(s \ {x})
  <2>1. TAKE x \in s
  <2>2. Cardinality(s \ {x}) = Cardinality(s) - 1
    BY <1>7, FS_RemoveElement
  <2>3. ~(Cardinality(s) <= Cardinality(s \ {x})) /\ s \ {x} \in SUBSET S
    BY <1>6, <1>7, <2>2
  <2>4. QED
    BY <1>4, <2>3
<1>9. r[s] = f[c] + r[s \ {c}]
  BY <1>5, <1>6 DEF Added
<1> HIDE DEF c
<1>10. r[s] \in Int /\ f[c] \in Int
  <2>1. r[s \ {c}] \in Int
    BY <1>7, <1>8 DEF Good
  <2>2. f[c] \in Int
    BY <1>6, <1>7
  <2>3. QED
    BY <1>9, <2>1, <2>2
<1>11. ASSUME NEW x \in s PROVE r[s] = f[x] + r[s \ {x}]
  <2>1. CASE x = c
    BY <1>9, <2>1
  <2>2. CASE x # c
    <3>1. r[s \ {c}] = f[x] + r[(s \ {c}) \ {x}]
      BY <1>7, <1>8, <2>2 DEF Good
    <3>2. r[s \ {x}] = f[c] + r[(s \ {x}) \ {c}]
      BY <1>7, <1>8, <2>2 DEF Good
    <3>3. (s \ {c}) \ {x} = (s \ {x}) \ {c}
      OBVIOUS
    <3>4. r[(s \ {x}) \ {c}] \in Int
      <4>1. Cardinality((s \ {x}) \ {c}) < Cardinality(s)
        <5>1. IsFiniteSet(s \ {x}) /\ Cardinality(s \ {x}) = Cardinality(s) - 1
          BY <1>7, FS_RemoveElement
        <5>2. Cardinality((s \ {x}) \ {c}) = Cardinality(s \ {x}) - 1
          BY <1>7, <2>2, <5>1, FS_RemoveElement
        <5>3. QED
          BY <1>7, <5>1, <5>2
      <4>2. Cardinality((s \ {x}) \ {c}) \in Nat
        <5>1. IsFiniteSet((s \ {x}) \ {c})
          BY <1>7, FS_Subset
        <5>2. QED
          BY <5>1, FS_CardinalityType
      <4>3. ~(Cardinality(s) <= Cardinality((s \ {x}) \ {c}))
        BY <1>7, <4>1, <4>2
      <4>4. QED
        BY <1>4, <1>6, <4>3 DEF Good
    <3>5. f[x] \in Int
      BY <1>6
    <3> DEFINE u == r[(s \ {x}) \ {c}]
    <3>6. r[s] = f[c] + (f[x] + u) /\ r[s \ {x}] = f[c] + u
      BY <1>9, <3>1, <3>2, <3>3
    <3>7. u \in Int
      BY <3>4
    <3> HIDE DEF u
    <3>8. f[c] + (f[x] + u) = f[x] + (f[c] + u)
      BY <1>10, <3>5, <3>7
    <3>9. QED
      BY <3>6, <3>8
  <2>3. QED
    BY <2>1, <2>2
<1>12. Good(s)
  BY <1>10, <1>11 DEF Good
<1>13. QED
  BY <1>4, <1>12

\* A sum is that of one element and that of the others.
LEMMA SumStep ==
  ASSUME NEW f, IsFiniteSet(DOMAIN f), \A x \in DOMAIN f : f[x] \in Int, NEW x \in DOMAIN f,
         NEW g, DOMAIN g = DOMAIN f \ {x}, \A y \in DOMAIN g : g[y] = f[y]
  PROVE  SumFunction(f) = f[x] + SumFunction(g)
<1>1. PICK r : SumsOf(r, f, DOMAIN f) /\ SumFunction(f) = r[DOMAIN f]
  BY SumTaken
<1>2. r[DOMAIN f] = f[x] + r[DOMAIN f \ {x}]
  <2> DEFINE S == DOMAIN f
  <2>1. IsFiniteSet(S) /\ SumsOf(r, f, S) /\ (\A y \in S : f[y] \in Int) /\ x \in S
    BY <1>1
  <2> HIDE DEF S
  <2>2. /\ \A s \in SUBSET S : r[s] \in Int
        /\ \A s \in SUBSET S : \A y \in s : r[s] = f[y] + r[s \ {y}]
    BY <2>1, TakenInAnyOrder
  <2>3. r[S] = f[x] + r[S \ {x}]
    BY <2>1, <2>2
  <2>4. QED
    BY <2>3 DEF S
<1>3. IsFiniteSet(DOMAIN g)
  BY FS_Subset
<1>4. PICK q : SumsOf(q, g, DOMAIN g) /\ SumFunction(g) = q[DOMAIN g]
  BY <1>3, SumTaken
<1>5. q[DOMAIN g] = r[DOMAIN g]
  BY <1>1, <1>3, <1>4, SumsAgree
<1>6. QED
  BY <1>1, <1>2, <1>4, <1>5

LEMMA SumOfNone ==
  ASSUME NEW f, DOMAIN f = {}
  PROVE  SumFunction(f) = 0
<1>1. IsFiniteSet(DOMAIN f)
  BY FS_EmptySet
<1>2. PICK r : SumsOf(r, f, DOMAIN f) /\ SumFunction(f) = r[DOMAIN f]
  BY <1>1, SumTaken
<1>3. r[{}] = Added(f, r, {})
  BY <1>2 DEF SumsOf
<1>4. QED
  BY <1>2, <1>3 DEF Added

\* When one value grows, the sum grows as much.
LEMMA SumGrows ==
  ASSUME NEW f, IsFiniteSet(DOMAIN f), \A x \in DOMAIN f : f[x] \in Int, NEW x \in DOMAIN f,
         NEW v \in Int, NEW g, DOMAIN g = DOMAIN f, g[x] = f[x] + v,
         \A y \in DOMAIN f : y # x => g[y] = f[y]
  PROVE  SumFunction(g) = SumFunction(f) + v
<1> DEFINE h == [y \in DOMAIN f \ {x} |-> f[y]]
<1>1. DOMAIN h = DOMAIN f \ {x} /\ \A y \in DOMAIN h : h[y] = f[y] /\ h[y] = g[y]
  OBVIOUS
<1> HIDE DEF h
<1>2. SumFunction(f) = f[x] + SumFunction(h)
  BY <1>1, SumStep
<1>3. SumFunction(g) = g[x] + SumFunction(h)
  <2>1. \A y \in DOMAIN g : g[y] \in Int
    OBVIOUS
  <2>2. QED
    BY <1>1, <2>1, SumStep
<1>4. SumFunction(h) \in Int
  <2>1. IsFiniteSet(DOMAIN h)
    BY <1>1, FS_Subset
  <2>2. 0 \in Int /\ \A a, b \in Int : a + b \in Int
    OBVIOUS
  <2>3. \A y \in DOMAIN h : h[y] \in Int
    BY <1>1
  <2>4. QED
    BY <2>1, <2>2, <2>3, SumType
<1>5. f[x] \in Int
  OBVIOUS
<1>6. QED
  BY <1>2, <1>3, <1>4, <1>5

\* A sum can be taken in parts: part is what each element belongs to.
Partial(val, part, s, b) == SumFunction([a \in {c \in s : part[c] = b} |-> val[a]])
LEMMA SumInParts ==
  ASSUME NEW A, IsFiniteSet(A), NEW B, IsFiniteSet(B), NEW val, \A a \in A : val[a] \in Int,
         NEW part, \A a \in A : part[a] \in B
  PROVE  SumFunction([b \in B |-> Partial(val, part, A, b)]) = SumFunction([a \in A |-> val[a]])
<1> DEFINE parts(s) == [b \in B |-> Partial(val, part, s, b)]
           whole(s) == [a \in s |-> val[a]]
           P == {s \in SUBSET A : SumFunction(parts(s)) = SumFunction(whole(s))}
<1>0. \A s \in SUBSET A : IsFiniteSet(s)
  BY FS_Subset
<1>1. ASSUME NEW s \in SUBSET A
      PROVE  SumFunction(whole(s)) \in Int /\ \A b : Partial(val, part, s, b) \in Int
  <2>1. 0 \in Int /\ \A a, b \in Int : a + b \in Int
    OBVIOUS
  <2>2. ASSUME NEW t \in SUBSET A PROVE SumFunction([a \in t |-> val[a]]) \in Int
    <3> DEFINE f == [a \in t |-> val[a]]
    <3>1. IsFiniteSet(DOMAIN f) /\ \A x \in DOMAIN f : f[x] \in Int
      BY <1>0
    <3> HIDE DEF f
    <3>2. SumFunction(f) \in Int
      BY <2>1, <3>1, SumType
    <3>3. QED
      BY <3>2 DEF f
  <2>3. ASSUME NEW b PROVE Partial(val, part, s, b) \in Int
    <3>1. {c \in s : part[c] = b} \in SUBSET A
      OBVIOUS
    <3>2. QED
      BY <2>2, <3>1 DEF Partial
  <2>4. QED
    BY <2>2, <2>3
<1>2. {} \in P
  <2>1. \A b : Partial(val, part, {}, b) = 0
    <3>1. TAKE b
    <3> DEFINE f == [a \in {c \in {} : part[c] = b} |-> val[a]]
    <3>2. DOMAIN f = {}
      OBVIOUS
    <3> HIDE DEF f
    <3>3. SumFunction(f) = 0
      BY <3>2, SumOfNone
    <3>4. QED
      BY <3>3 DEF f, Partial
  <2>2. SumFunction(whole({})) = 0
    <3>1. DOMAIN whole({}) = {}
      OBVIOUS
    <3> HIDE DEF whole
    <3>2. QED
      BY <3>1, SumOfNone
  <2>3. SumFunction(parts({})) = 0
    <3> DEFINE f == parts({})
    <3>1. DOMAIN f = B /\ \A b \in DOMAIN f : f[b] \in {0}
      BY <2>1
    <3>2. 0 \in {0} /\ \A a, b \in {0} : a + b \in {0}
      OBVIOUS
    <3> HIDE DEF f
    <3>3. SumFunction(f) \in {0}
      BY <3>1, <3>2, SumType
    <3>4. QED
      BY <3>3 DEF f
  <2>4. QED
    BY <2>2, <2>3
<1>3. ASSUME NEW s \in P, NEW x \in A, x \notin s PROVE s \cup {x} \in P
  <2> DEFINE t == s \cup {x}
             e == part[x]
  <2>1. s \in SUBSET A /\ t \in SUBSET A /\ x \in t /\ e \in B /\ val[x] \in Int
    OBVIOUS
  <2>2. SumFunction(whole(t)) = val[x] + SumFunction(whole(s))
    <3>1. /\ DOMAIN whole(t) = t /\ DOMAIN whole(s) = t \ {x} /\ whole(t)[x] = val[x]
          /\ \A y \in t : whole(t)[y] \in Int /\ \A y1 \in t \ {x} : whole(s)[y1] = whole(t)[y1]
      BY <1>3, <2>1
    <3>2. IsFiniteSet(t)
      BY <1>0, <2>1
    <3> HIDE DEF whole, t
    <3>3. SumFunction(whole(t)) = whole(t)[x] + SumFunction(whole(s))
      BY <2>1, <3>1, <3>2, SumStep
    <3>4. QED
      BY <3>1, <3>3
  <2>3. ASSUME NEW b PROVE Partial(val, part, t, b) = IF b = e THEN Partial(val, part, s, b) + val[x]
                                                     ELSE Partial(val, part, s, b)
    <3> DEFINE old == {c \in s : part[c] = b}
               new == {c \in t : part[c] = b}
               f == [a \in new |-> val[a]]
               g == [a \in old |-> val[a]]
    <3>1. Partial(val, part, t, b) = SumFunction(f) /\ Partial(val, part, s, b) = SumFunction(g)
      BY DEF Partial
    <3>2. CASE b # e
      <4>1. new = old
        BY <3>2
      <4>2. QED
        BY <3>1, <3>2, <4>1
    <3>3. CASE b = e
      <4>1. /\ DOMAIN f = new /\ DOMAIN g = new \ {x} /\ x \in new /\ f[x] = val[x]
            /\ \A y \in new : f[y] \in Int /\ \A y1 \in new \ {x} : g[y1] = f[y1]
        BY <1>3, <2>1, <3>3
      <4>2. /\ IsFiniteSet(DOMAIN f) /\ DOMAIN g = DOMAIN f \ {x} /\ x \in DOMAIN f
            /\ \A y \in DOMAIN f : f[y] \in Int
            /\ \A y \in DOMAIN g : g[y] = f[y]
        BY <1>0, <2>1, <4>1
      <4>3. Partial(val, part, s, b) \in Int
        BY <1>1, <2>1
      <4> HIDE DEF f, g, new
      <4>4. SumFunction(f) = f[x] + SumFunction(g)
        BY <4>2, SumStep
      <4>5. QED
        BY <2>1, <3>1, <3>3, <4>1, <4>3, <4>4
    <3>4. QED
      BY <3>2, <3>3
  <2>4. SumFunction(parts(t)) = SumFunction(parts(s)) + val[x]
    <3> DEFINE f == parts(s)
               g == parts(t)
    <3>1. /\ DOMAIN f = B /\ DOMAIN g = B /\ g[e] = f[e] + val[x]
          /\ \A y \in B : y # e => g[y] = f[y]
          /\ \A y \in B : f[y] \in Int
      <4> HIDE DEF e, t
      <4>1. QED
        BY <1>1, <2>1, <2>3
    <3> HIDE DEF f, g, e
    <3>2. SumFunction(g) = SumFunction(f) + val[x]
      BY <2>1, <3>1, SumGrows
    <3>3. QED
      BY <3>2 DEF f, g
  <2>5. SumFunction(parts(s)) = SumFunction(whole(s)) /\ SumFunction(whole(s)) \in Int
    BY <1>1, <2>1
  <2> HIDE DEF parts, whole, t
  <2>6. SumFunction(parts(t)) = SumFunction(whole(t))
    BY <2>1, <2>2, <2>4, <2>5
  <2>7. QED
    BY <2>1, <2>6 DEF t
<1>4. A \in P
  <2> HIDE DEF P
  <2>1. P \in SUBSET (SUBSET A)
    BY DEF P
  <2>2. QED
    BY <1>2, <1>3, <2>1, EverySubset
<1>5. QED
  BY <1>4

\* The sum over a single element, and over the same values under other names.
LEMMA SumOfOne ==
  ASSUME NEW f, NEW x, DOMAIN f = {x}, f[x] \in Int
  PROVE  SumFunction(f) = f[x]
<1>1. IsFiniteSet(DOMAIN f)
  BY FS_Singleton
<1>2. PICK r : SumsOf(r, f, DOMAIN f) /\ SumFunction(f) = r[DOMAIN f]
  BY <1>1, SumTaken
<1>3. Some({x}) = x /\ {x} \ {x} = {}
  BY DEF Some
<1>4. r[{x}] = Added(f, r, {x}) /\ r[{}] = Added(f, r, {})
  BY <1>2 DEF SumsOf
<1>5. r[{x}] = f[x] + r[{}] /\ r[{}] = 0
  BY <1>3, <1>4 DEF Added
<1>6. QED
  BY <1>2, <1>5

LEMMA SumRenamed ==
  ASSUME NEW A, IsFiniteSet(A), NEW val, \A a \in A : val[a] \in Int, NEW name,
         \A a, b \in A : name[a] = name[b] => a = b,
         NEW g, DOMAIN g = {name[a] : a \in A}, \A a \in A : g[name[a]] = val[a]
  PROVE  SumFunction(g) = SumFunction([a \in A |-> val[a]])
<1> DEFINE B == {name[a] : a \in A}
<1>1. IsFiniteSet(B)
  <2> DEFINE h == [a \in A |-> name[a]]
  <2>1. h \in Surjection(A, B)
    BY DEF Surjection
  <2>2. QED
    BY <2>1, FS_Surjection
<1>2. ASSUME NEW b \in B PROVE Partial(val, name, A, b) = g[b]
  <2>1. PICK a \in A : b = name[a]
    OBVIOUS
  <2> DEFINE f == [c \in {d \in A : name[d] = b} |-> val[c]]
  <2>2. DOMAIN f = {a} /\ f[a] = val[a] /\ f[a] \in Int
    BY <2>1
  <2>3. Partial(val, name, A, b) = SumFunction(f)
    BY DEF Partial
  <2> HIDE DEF f
  <2>4. QED
    BY <2>1, <2>2, <2>3, SumOfOne
<1>3. \A a \in A : name[a] \in B
  OBVIOUS
<1> DEFINE k == [b \in B |-> Partial(val, name, A, b)]
<1>4. k = [b \in B |-> g[b]]
  BY <1>2
<1>5. SumFunction(k) = SumFunction([a \in A |-> val[a]])
  <2> HIDE DEF B
  <2>1. QED
    BY <1>1, <1>3, SumInParts
<1>6. IsFiniteSet(DOMAIN g) /\ DOMAIN g = B
  BY <1>1
<1>7. SumFunction(k) = SumFunction(g)
  <2>1. DOMAIN k = DOMAIN g /\ \A b \in DOMAIN g : k[b] = g[b]
    BY <1>4, <1>6
  <2> HIDE DEF k, B
  <2>2. IsFiniteSet(DOMAIN k)
    BY <1>6, <2>1
  <2>3. PICK r : SumsOf(r, k, DOMAIN k) /\ SumFunction(k) = r[DOMAIN k]
    BY <2>2, SumTaken
  <2>4. PICK q : SumsOf(q, g, DOMAIN g) /\ SumFunction(g) = q[DOMAIN g]
    BY <1>6, SumTaken
  <2>5. r[DOMAIN k] = q[DOMAIN k]
    BY <2>1, <2>2, <2>3, <2>4, SumsAgree
  <2>6. QED
    BY <2>1, <2>3, <2>4, <2>5
<1>8. QED
  BY <1>5, <1>7

\* Counting is adding ones.
LEMMA CountIsSum ==
  ASSUME NEW S, IsFiniteSet(S)
  PROVE  SumFunction([x \in S |-> 1]) = Cardinality(S)
<1> DEFINE ones(s) == [x \in s |-> 1]
           P == {s \in SUBSET S : SumFunction(ones(s)) = Cardinality(s)}
<1>1. {} \in P
  <2>1. DOMAIN ones({}) = {}
    OBVIOUS
  <2> HIDE DEF ones
  <2>2. SumFunction(ones({})) = 0
    BY <2>1, SumOfNone
  <2>3. Cardinality({}) = 0
    BY FS_EmptySet
  <2>4. QED
    BY <2>2, <2>3
<1>2. ASSUME NEW s \in P, NEW x \in S, x \notin s PROVE s \cup {x} \in P
  <2> DEFINE t == s \cup {x}
             f == ones(t)
             g == ones(s)
  <2>1. s \in SUBSET S /\ t \in SUBSET S /\ SumFunction(g) = Cardinality(s)
    OBVIOUS
  <2>2. /\ DOMAIN g = DOMAIN f \ {x} /\ x \in DOMAIN f
        /\ \A y \in DOMAIN f : f[y] \in Int
        /\ \A y \in DOMAIN g : g[y] = f[y]
    BY <1>2
  <2>0. f[x] = 1
    OBVIOUS
  <2>3. IsFiniteSet(s) /\ IsFiniteSet(t) /\ IsFiniteSet(DOMAIN f)
    BY <2>1, FS_Subset
  <2>4. Cardinality(t) = Cardinality(s) + 1 /\ Cardinality(s) \in Nat
    BY <1>2, <2>3, FS_AddElement, FS_CardinalityType
  <2> HIDE DEF f, g, t
  <2>5. SumFunction(f) = f[x] + SumFunction(g)
    BY <2>2, <2>3, SumStep
  <2>6. SumFunction(f) = Cardinality(t)
    BY <2>0, <2>1, <2>4, <2>5
  <2>7. QED
    BY <2>1, <2>6 DEF f, t
<1>3. S \in P
  <2> HIDE DEF P
  <2>1. P \in SUBSET (SUBSET S)
    BY DEF P
  <2>2. QED
    BY <1>1, <1>2, <2>1, EverySubset
<1>4. QED
  BY <1>3

\* A sum of numbers that are not large is not larger than there are numbers.
LEMMA SumWithin ==
  ASSUME NEW S, IsFiniteSet(S), NEW f, NEW M \in Nat, \A x \in S : f[x] \in -M .. M
  PROVE  /\ SumFunction([x \in S |-> f[x]]) \in Int
         /\ SumFunction([x \in S |-> f[x]]) <= Cardinality(S) * M
         /\ 0 - Cardinality(S) * M <= SumFunction([x \in S |-> f[x]])
<1> DEFINE of(s) == [x \in s |-> f[x]]
           Bounded(s) == /\ SumFunction(of(s)) \in Int
                         /\ SumFunction(of(s)) <= Cardinality(s) * M
                         /\ 0 - Cardinality(s) * M <= SumFunction(of(s))
           P == {s \in SUBSET S : Bounded(s)}
<1>1. {} \in P
  <2>1. DOMAIN of({}) = {}
    OBVIOUS
  <2> HIDE DEF of
  <2>2. SumFunction(of({})) = 0
    BY <2>1, SumOfNone
  <2>3. Cardinality({}) = 0
    BY FS_EmptySet
  <2>4. QED
    BY <2>2, <2>3
<1>2. ASSUME NEW s \in P, NEW x \in S, x \notin s PROVE s \cup {x} \in P
  <2> DEFINE t == s \cup {x}
             h == of(t)
             g == of(s)
  <2>1. s \in SUBSET S /\ t \in SUBSET S /\ Bounded(s)
    OBVIOUS
  <2>2. /\ DOMAIN h = t /\ DOMAIN g = DOMAIN h \ {x} /\ x \in DOMAIN h /\ h[x] = f[x]
        /\ \A y \in DOMAIN h : h[y] \in Int
        /\ \A y \in DOMAIN g : g[y] = h[y]
    BY <1>2
  <2>3. IsFiniteSet(s) /\ IsFiniteSet(t) /\ IsFiniteSet(DOMAIN h)
    BY <2>1, <2>2, FS_Subset
  <2>4. Cardinality(t) = Cardinality(s) + 1 /\ Cardinality(s) \in Nat
    BY <1>2, <2>3, FS_AddElement, FS_CardinalityType
  <2>5. /\ SumFunction(g) \in Int /\ SumFunction(g) <= Cardinality(s) * M
        /\ 0 - Cardinality(s) * M <= SumFunction(g)
    BY <2>1
  <2>6. f[x] \in Int /\ f[x] <= M /\ 0 - M <= f[x]
    OBVIOUS
  <2> HIDE DEF h, g, t, Bounded
  <2>7. SumFunction(h) = h[x] + SumFunction(g)
    BY <2>2, <2>3, SumStep
  <2>8. Cardinality(t) * M = Cardinality(s) * M + M /\ Cardinality(s) * M \in Nat
    BY <2>4
  <2>9. /\ SumFunction(h) \in Int /\ SumFunction(h) <= Cardinality(t) * M
        /\ 0 - Cardinality(t) * M <= SumFunction(h)
    <3> DEFINE c == Cardinality(s) * M
    <3>1. c \in Nat /\ SumFunction(g) <= c /\ 0 - c <= SumFunction(g) /\ Cardinality(t) * M = c + M
      BY <2>5, <2>8
    <3> HIDE DEF c
    <3>2. QED
      BY <2>2, <2>5, <2>6, <2>7, <3>1
  <2>10. Bounded(t)
    BY <2>9 DEF Bounded, h
  <2>11. QED
    BY <2>1, <2>10 DEF t
<1>3. S \in P
  <2> HIDE DEF P
  <2>1. P \in SUBSET (SUBSET S)
    BY DEF P
  <2>2. QED
    BY <1>1, <1>2, <2>1, EverySubset
<1>4. QED
  BY <1>3
=============================================================================
