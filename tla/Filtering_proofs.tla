--------------------------- MODULE Filtering_proofs ---------------------------
(***************************************************************************)
(* What filtering a sequence does, by induction on the number of entries   *)
(* that the loop has passed; and before that the facts about numbers and   *)
(* sums that it and the other proofs need.                                 *)
(*                                                                         *)
(* The provers cannot instantiate the library's theorems about induction,  *)
(* which take an operator. A set does in its place: LeastNumber takes the  *)
(* numbers that have no counterexample.                                    *)
(***************************************************************************)
EXTENDS Filtering, Doubling, SequenceTheorems, FiniteSetTheorems, WellFoundedInduction, TLAPS

NaturalOrder == {pair \in Nat \X Nat : pair[1] < pair[2]}

\* Every nonempty set of natural numbers has a least member.
LEMMA LeastNumber ==
  ASSUME NEW T \in SUBSET Nat, T # {}
  PROVE  \E n \in T : \A m \in T : n <= m
<1>1. OpToRel(<, Nat) = NaturalOrder
  BY Zenon DEF OpToRel, NaturalOrder
<1>2. IsWellFoundedOn(NaturalOrder, Nat)
  BY <1>1, NatLessThanWellFounded, Zenon
<1>3. PICK n \in T : \A m \in T : ~(<<m, n>> \in NaturalOrder)
  BY <1>2, WFMin
<1>4. \A m \in T : ~(m < n)
  BY <1>3 DEF NaturalOrder
<1> QED BY <1>4

\* A bounded set of natural numbers that is not empty has a greatest member.
LEMMA GreatestNumber ==
  ASSUME NEW n \in Nat, NEW T \in SUBSET (0 .. n), T # {}
  PROVE  \E k \in T : \A m \in T : m <= k
<1> DEFINE below == {x \in Nat : n - x \in T}
<1>1. below # {}
  <2>1. PICK k \in T : TRUE
    OBVIOUS
  <2>2. n - k \in Nat /\ n - (n - k) = k
    BY <2>1
  <2> QED BY <2>2
<1>2. PICK x \in below : \A y \in below : x <= y
  <2> HIDE DEF below
  <2>1. below \in SUBSET Nat
    BY DEF below
  <2> QED BY <1>1, <2>1, LeastNumber
<1>3. n - x \in T /\ x \in Nat
  BY <1>2
<1>4. ASSUME NEW m \in T PROVE m <= n - x
  <2>1. m \in Nat /\ m <= n /\ n - m \in Nat /\ n - (n - m) = m
    OBVIOUS
  <2>2. x <= n - m
    BY <1>2, <2>1
  <2> QED BY <1>3, <2>1, <2>2
<1> QED BY <1>3, <1>4

\* Induction up to a bound, for the numbers in a set.
LEMMA Counting ==
  ASSUME NEW last \in Nat, NEW T, 0 \in T, \A n \in 0 .. last - 1 : n \in T => n + 1 \in T
  PROVE  \A n \in 0 .. last : n \in T
<1> DEFINE missing == {n \in 0 .. last : n \notin T}
<1> SUFFICES ASSUME missing # {} PROVE FALSE
  OBVIOUS
<1>0. missing \in SUBSET Nat
  OBVIOUS
<1>1. PICK n \in missing : \A m \in missing : n <= m
  <2> HIDE DEF missing
  <2> QED BY <1>0, LeastNumber
<1>2. n # 0 /\ n \in 0 .. last /\ n - 1 \in 0 .. last - 1
  BY <1>1
<1>3. n - 1 \in T
  BY <1>1, <1>2
<1>4. n - 1 + 1 \in T
  BY <1>2, <1>3
<1> QED BY <1>1, <1>2, <1>4

\* Doubling, step by step.
LEMMA DoubledSteps ==
  ASSUME NEW first, NEW last \in Nat
  PROVE  /\ Doubled(first, last)[0] = first
         /\ \A k \in 1 .. last : Doubled(first, last)[k] = 2 * Doubled(first, last)[k - 1]
<1> DEFINE Step(g, i) == IF i = 0 THEN first ELSE 2 * g[i - 1]
           T == {n \in Nat : \E g : g = [i \in 0 .. n |-> Step(g, i)]}
<1>1. 0 \in T
  <2> DEFINE g == [i \in 0 .. 0 |-> first]
  <2>1. g = [i \in 0 .. 0 |-> Step(g, i)]
    OBVIOUS
  <2> QED BY <2>1
<1>2. ASSUME NEW n \in 0 .. last - 1, n \in T PROVE n + 1 \in T
  <2>1. PICK g : g = [i \in 0 .. n |-> Step(g, i)]
    BY <1>2
  <2>2. \A i \in 0 .. n : g[i] = Step(g, i)
    <3> HIDE DEF Step
    <3> QED BY <2>1
  <2> DEFINE next == 2 * g[n]
             h == [i \in 0 .. n + 1 |-> IF i <= n THEN g[i] ELSE next]
  <2>3. ASSUME NEW i \in 0 .. n + 1 PROVE h[i] = Step(h, i)
    <3> HIDE DEF next
    <3>1. CASE i = 0
      <4>1. h[0] = g[0] /\ g[0] = Step(g, 0)
        BY <2>2, <1>2
      <4> QED BY <3>1, <4>1
    <3>2. CASE i \in 1 .. n
      <4>1. h[i] = g[i] /\ h[i - 1] = g[i - 1] /\ i # 0
        BY <3>2, <1>2
      <4>2. g[i] = Step(g, i)
        BY <3>2, <2>2, <1>2
      <4> QED BY <4>1, <4>2
    <3>3. CASE i = n + 1
      <4>1. h[n] = g[n] /\ i - 1 = n /\ i # 0
        BY <3>3, <1>2
      <4>2. h[i] = next
        BY <3>3, <1>2
      <4> QED BY <4>1, <4>2 DEF next
    <3> QED BY <1>2, <3>1, <3>2, <3>3
  <2>4. h = [i \in 0 .. n + 1 |-> Step(h, i)]
    <3>1. h = [i \in 0 .. n + 1 |-> h[i]]
      OBVIOUS
    <3> HIDE DEF h
    <3> QED BY <3>1, <2>3
  <2> HIDE DEF h, next, Step
  <2> QED BY <2>4, <1>2
<1>3. last \in T
  <2> HIDE DEF T
  <2>1. \A n \in 0 .. last : n \in T
    BY <1>1, <1>2, Counting
  <2> QED BY <2>1
<1> DEFINE f == Doubled(first, last)
<1>4. f = [i \in 0 .. last |-> Step(f, i)]
  <2>1. f = CHOOSE g : g = [i \in 0 .. last |-> Step(g, i)]
    BY DEF Doubled
  <2>2. \E g : g = [i \in 0 .. last |-> Step(g, i)]
    BY <1>3
  <2> QED BY <2>1, <2>2
<1>5. \A i \in 0 .. last : f[i] = Step(f, i)
  <2> HIDE DEF f
  <2> QED BY <1>4
<1> HIDE DEF f
<1>6. f[0] = first /\ \A i \in 1 .. last : f[i] = 2 * f[i - 1]
  BY <1>5
<1> QED BY <1>6 DEF f

\* Doubling ends with room for what is needed.
LEMMA DoublingFits ==
  ASSUME NEW first \in Nat \ {0}, NEW size \in Nat
  PROVE  DoubledFor(first, size) \in Nat /\ size <= DoubledFor(first, size)
<1> DEFINE caps == Doubled(first, size)
           fits == {k \in 0 .. size : caps[k] >= size}
           large == {k \in Nat : k <= size => caps[k] \in Nat /\ k < caps[k]}
<1>1. first \in Nat /\ 0 < first
  OBVIOUS
<1>2. caps[0] = first /\ \A k \in 1 .. size : caps[k] = 2 * caps[k - 1]
  BY DoubledSteps
<1> HIDE DEF caps
<1>3. 0 \in large
  BY <1>1, <1>2
<1>4. ASSUME NEW n \in 0 .. size - 1, n \in large PROVE n + 1 \in large
  <2>1. n + 1 \in 1 .. size /\ (n + 1) - 1 = n /\ n \in Nat
    OBVIOUS
  <2>2. caps[n] \in Nat /\ n < caps[n]
    BY <1>4, <2>1
  <2>3. caps[n + 1] = 2 * caps[n]
    BY <1>2, <2>1
  <2> QED BY <2>1, <2>2, <2>3
<1>5. \A n \in 0 .. size : n \in large
  <2> HIDE DEF large
  <2> QED BY <1>3, <1>4, Counting
<1>6. fits # {} /\ fits \in SUBSET Nat
  <2>1. size \in fits
    BY <1>5
  <2> QED BY <2>1
<1>7. \A k \in fits : caps[k] \in Nat /\ size <= caps[k]
  BY <1>5
<1> HIDE DEF fits
<1>8. PICK k \in fits : \A j \in fits : k <= j
  BY <1>6, LeastNumber
<1> DEFINE best == CHOOSE i \in fits : \A j \in fits : i <= j
<1>9. best \in fits
  BY <1>8
<1>10. DoubledFor(first, size) = caps[best]
  BY DEF DoubledFor, fits, caps
<1> HIDE DEF best
<1> QED BY <1>7, <1>9, <1>10

\* A multiple of a that is not 0 is at least a away from it.
LEMMA MultiplesApart ==
  ASSUME NEW a \in Nat \ {0}, NEW k \in Int
  PROVE  /\ a * k \in Int
         /\ k >= 1 => a * k >= a
         /\ k <= -1 => a * k <= -a
  OBVIOUS

\* Quotient and remainder.
LEMMA DivMod ==
  ASSUME NEW a \in Nat \ {0}, NEW x \in Int
  PROVE  x \div a \in Int /\ x % a \in 0 .. a - 1 /\ x = a * (x \div a) + (x % a)
  OBVIOUS

\* They are the only ones there are.
LEMMA RemainderIs ==
  ASSUME NEW a \in Nat \ {0}, NEW x \in Int, NEW q \in Int, NEW m \in 0 .. a - 1,
         x = a * q + m
  PROVE  x % a = m
<1> DEFINE d == x \div a
           n == x % a
<1>1. d \in Int /\ n \in 0 .. a - 1 /\ x = a * d + n
  BY DivMod
<1> HIDE DEF d, n
<1>2. q - d \in Int /\ a * (q - d) = n - m
  BY <1>1
<1>3. q - d = 0
  BY <1>1, <1>2, MultiplesApart
<1>4. q = d
  BY <1>1, <1>3
<1> QED BY <1>1, <1>4 DEF n

\* The sizes of intervals.
LEMMA Intervals ==
  ASSUME NEW n \in Nat
  PROVE  /\ IsFiniteSet(1 .. n) /\ Cardinality(1 .. n) = n
         /\ IsFiniteSet(0 .. n - 1) /\ Cardinality(0 .. n - 1) = n
<1>1. 1 \in Int /\ 0 \in Int /\ n \in Int /\ n - 1 \in Int
  OBVIOUS
<1>2. IsFiniteSet(1 .. n) /\ Cardinality(1 .. n) = IF 1 > n THEN 0 ELSE n - 1 + 1
  BY <1>1, FS_Interval
<1>3. IsFiniteSet(0 .. n - 1) /\ Cardinality(0 .. n - 1) = IF 0 > n - 1 THEN 0 ELSE (n - 1) - 0 + 1
  <2> DEFINE m == n - 1
  <2> HIDE DEF m
  <2>1. m \in Int
    BY <1>1 DEF m
  <2>2. IsFiniteSet(0 .. m) /\ Cardinality(0 .. m) = IF 0 > m THEN 0 ELSE m - 0 + 1
    BY <2>1, FS_Interval
  <2> QED BY <2>2 DEF m
<1> QED BY <1>2, <1>3

-----------------------------------------------------------------------------
(* Sums over sets of positions.                                            *)

\* sum[S] is the sum of f over S, whichever member is taken first.
Adds(sum, f, n) ==
  /\ sum \in [SUBSET (1 .. n) -> Int]
  /\ sum[{}] = 0
  /\ \A S \in SUBSET (1 .. n) : \A x \in S : sum[S] = f[x] + sum[S \ {x}]

LEMMA SumsExist ==
  ASSUME NEW n \in Nat, NEW f \in [1 .. n -> Int]
  PROVE  \E sum : Adds(sum, f, n)
<1> DEFINE T == {m \in Nat : \E sum : Adds(sum, f, m)}
<1>1. 0 \in T
  <2> DEFINE none == [S \in {{}} |-> 0]
  <2>1. SUBSET (1 .. 0) = {{}}
    <3>1. 1 .. 0 = {}
      OBVIOUS
    <3> QED BY <3>1
  <2>2. Adds(none, f, 0)
    BY <2>1 DEF Adds
  <2> QED BY <2>2
<1>2. ASSUME NEW m \in 0 .. n - 1, m \in T PROVE m + 1 \in T
  <2>1. PICK sum : Adds(sum, f, m)
    BY <1>2
  <2> DEFINE e == m + 1
             next == [S \in SUBSET (1 .. e) |-> IF e \in S THEN f[e] + sum[S \ {e}] ELSE sum[S]]
  <2>2. e \in 1 .. n /\ e \in Nat /\ f[e] \in Int /\ 1 .. m = (1 .. e) \ {e}
    BY <1>2
  <2> HIDE DEF e
  <2>3. \A S \in SUBSET (1 .. e) : S \ {e} \in SUBSET (1 .. m) /\ (e \notin S => S \in SUBSET (1 .. m))
    BY <2>2
  <2>4. \A S \in SUBSET (1 .. m) : sum[S] \in Int
    BY <2>1 DEF Adds
  <2>5. next \in [SUBSET (1 .. e) -> Int]
    BY <2>2, <2>3, <2>4
  <2>6. next[{}] = 0
    BY <2>1 DEF Adds
  <2>7. ASSUME NEW S \in SUBSET (1 .. e), NEW x \in S PROVE next[S] = f[x] + next[S \ {x}]
    <3>1. CASE x = e
      <4>1. next[S] = f[e] + sum[S \ {e}] /\ next[S \ {e}] = sum[S \ {e}]
        BY <3>1
      <4> QED BY <3>1, <4>1
    <3>2. CASE x # e /\ e \in S
      <4> DEFINE R == S \ {e}
      <4>1. R \in SUBSET (1 .. m) /\ x \in R /\ R \ {x} \in SUBSET (1 .. m)
        BY <2>3, <3>2
      <4>2. sum[R] = f[x] + sum[R \ {x}]
        BY <2>1, <4>1 DEF Adds
      <4>3. (S \ {x}) \ {e} = R \ {x}
        OBVIOUS
      <4>4. next[S] = f[e] + sum[R] /\ next[S \ {x}] = f[e] + sum[R \ {x}]
        BY <3>2, <4>3
      <4>5. f[x] \in Int /\ sum[R \ {x}] \in Int
        <5>1. x \in 1 .. n
          BY <1>2, <4>1
        <5> QED BY <2>4, <4>1, <5>1
      <4> HIDE DEF next, R
      <4> QED BY <2>2, <4>2, <4>4, <4>5
    <3>3. CASE e \notin S
      <4>1. S \in SUBSET (1 .. m) /\ next[S] = sum[S] /\ next[S \ {x}] = sum[S \ {x}]
        BY <2>3, <3>3
      <4> QED BY <2>1, <4>1 DEF Adds
    <3> QED BY <3>1, <3>2, <3>3
  <2>8. Adds(next, f, e)
    <3> HIDE DEF next
    <3> QED BY <2>5, <2>6, <2>7 DEF Adds
  <2> HIDE DEF next
  <2> QED BY <2>2, <2>8 DEF e
<1>3. n \in T
  <2> HIDE DEF T
  <2>1. \A m \in 0 .. n : m \in T
    BY <1>1, <1>2, Counting
  <2> QED BY <2>1
<1> QED BY <1>3

\* What folds of the library compute, member by member, is that sum.
FoldsUp(iter, f, S) ==
  iter = [s \in SUBSET S |->
            IF s = {} THEN 0 ELSE f[CHOOSE x \in s : TRUE] + iter[s \ {CHOOSE x \in s : TRUE}]]

LEMMA FoldsAdd ==
  ASSUME NEW n \in Nat, NEW f \in [1 .. n -> Int], NEW sum, Adds(sum, f, n),
         NEW S \in SUBSET (1 .. n), NEW iter, FoldsUp(iter, f, S)
  PROVE  iter[S] = sum[S]
<1> DEFINE T == {m \in Nat : \A s \in SUBSET S : Cardinality(s) = m => iter[s] = sum[s]}
<1>0. IsFiniteSet(S) /\ Cardinality(S) \in Nat
  <2>1. IsFiniteSet(1 .. n)
    BY Intervals
  <2>2. IsFiniteSet(S)
    BY <2>1, FS_Subset
  <2> QED BY <2>2, FS_CardinalityType
<1>1. ASSUME NEW s \in SUBSET S
      PROVE  iter[s] = IF s = {} THEN 0 ELSE f[CHOOSE x \in s : TRUE] + iter[s \ {CHOOSE x \in s : TRUE}]
  BY DEF FoldsUp
<1>2. \A s \in SUBSET S : IsFiniteSet(s)
  BY <1>0, FS_Subset
<1>3. 0 \in T
  <2>1. \A s \in SUBSET S : Cardinality(s) = 0 => s = {}
    BY <1>2, FS_EmptySet
  <2> QED BY <1>1, <2>1 DEF Adds
<1>4. ASSUME NEW m \in 0 .. Cardinality(S) - 1, m \in T PROVE m + 1 \in T
  <2>0. m \in Nat /\ m + 1 \in Nat /\ m + 1 # 0 /\ (m + 1) - 1 = m
    BY <1>0
  <2> SUFFICES ASSUME NEW s \in SUBSET S, Cardinality(s) = m + 1 PROVE iter[s] = sum[s]
    BY <2>0
  <2> DEFINE c == CHOOSE x \in s : TRUE
  <2>1. s # {}
    <3>1. Cardinality({}) = 0
      BY FS_EmptySet
    <3>2. Cardinality(s) # 0
      BY <2>0
    <3> QED BY <3>1, <3>2
  <2>2. c \in s
    BY <2>1
  <2> HIDE DEF c
  <2>3. Cardinality(s \ {c}) = m /\ s \ {c} \in SUBSET S
    <3>1. Cardinality(s \ {c}) = Cardinality(s) - 1
      BY <1>2, <2>2, FS_RemoveElement
    <3> QED BY <2>0, <3>1
  <2>4. iter[s \ {c}] = sum[s \ {c}]
    BY <1>4, <2>3
  <2>5. iter[s] = f[c] + iter[s \ {c}]
    BY <1>1, <2>1 DEF c
  <2> QED BY <2>2, <2>4, <2>5 DEF Adds
<1>5. \A m \in 0 .. Cardinality(S) : m \in T
  <2> HIDE DEF T
  <2> QED BY <1>0, <1>3, <1>4, Counting
<1> QED BY <1>0, <1>5

\* What holds of no position and goes on holding with one more holds of all.
LEMMA SetsGrow ==
  ASSUME NEW n \in Nat, NEW S \in SUBSET (1 .. n), NEW P, {} \in P,
         \A R \in SUBSET S : \A x \in S \ R : R \in P => R \cup {x} \in P
  PROVE  S \in P
<1> DEFINE T == {m \in Nat : S \cap (1 .. m) \in P}
<1>1. 0 \in T
  <2>1. S \cap (1 .. 0) = {}
    OBVIOUS
  <2> QED BY <2>1
<1>2. ASSUME NEW m \in 0 .. n - 1, m \in T PROVE m + 1 \in T
  <2> DEFINE e == m + 1
             R == S \cap (1 .. m)
  <2>1. e \in Nat /\ R \in SUBSET S /\ e \notin R /\ R \in P
    BY <1>2
  <2>2. S \cap (1 .. e) = IF e \in S THEN R \cup {e} ELSE R
    OBVIOUS
  <2> HIDE DEF e, R
  <2>3. S \cap (1 .. e) \in P
    BY <2>1, <2>2
  <2> QED BY <2>1, <2>3 DEF e
<1>3. n \in T
  <2> HIDE DEF T
  <2>1. \A m \in 0 .. n : m \in T
    BY <1>1, <1>2, Counting
  <2> QED BY <2>1
<1>4. S \cap (1 .. n) = S
  OBVIOUS
<1> QED BY <1>3, <1>4

\* sum has the sums of f, a function on 1 .. n.
Tallies(sum, f, n) == n \in Nat /\ f \in [1 .. n -> Int] /\ Adds(sum, f, n)

\* One position more.
LEMMA SumWith ==
  ASSUME NEW n \in Nat, NEW f \in [1 .. n -> Int], NEW sum, Adds(sum, f, n)
  PROVE  \A R \in SUBSET (1 .. n) : \A x \in 1 .. n : x \notin R =>
           sum[R \cup {x}] = f[x] + sum[R] /\ sum[R] \in Int /\ f[x] \in Int
<1> SUFFICES ASSUME NEW R \in SUBSET (1 .. n), NEW x \in 1 .. n, x \notin R
             PROVE  sum[R \cup {x}] = f[x] + sum[R] /\ sum[R] \in Int /\ f[x] \in Int
  OBVIOUS
<1> DEFINE Q == R \cup {x}
<1>1. Q \in SUBSET (1 .. n) /\ x \in Q /\ Q \ {x} = R
  OBVIOUS
<1> HIDE DEF Q
<1>2. \A S \in SUBSET (1 .. n) : \A y \in S : sum[S] = f[y] + sum[S \ {y}]
  BY DEF Adds
<1>3. sum[Q] = f[x] + sum[Q \ {x}]
  BY <1>1, <1>2
<1>4. sum \in [SUBSET (1 .. n) -> Int]
  BY DEF Adds
<1>5. sum[R] \in Int /\ f[x] \in Int
  BY <1>4
<1> QED BY <1>1, <1>3, <1>5 DEF Q

\* The sum over two sets apart.
LEMMA SumOfParts ==
  ASSUME NEW n \in Nat, NEW f, NEW sum, Tallies(sum, f, n),
         NEW A \in SUBSET (1 .. n), NEW B \in SUBSET (1 .. n), A \cap B = {}
  PROVE  sum[A \cup B] = sum[A] + sum[B]
<1>t. n \in Nat /\ f \in [1 .. n -> Int] /\ Adds(sum, f, n)
  BY DEF Tallies
<1> USE <1>t
<1>a. \A R \in SUBSET (1 .. n) : \A x \in 1 .. n : x \notin R =>
        sum[R \cup {x}] = f[x] + sum[R] /\ sum[R] \in Int /\ f[x] \in Int
  BY SumWith
<1> DEFINE P == {R \in SUBSET B : sum[A \cup R] = sum[A] + sum[R]}
<1>1. sum[A] \in Int /\ sum[{}] = 0
  BY DEF Adds
<1>2. {} \in P
  <2>1. A \cup {} = A
    OBVIOUS
  <2> QED BY <1>1, <2>1
<1>3. ASSUME NEW R \in SUBSET B, NEW x \in B \ R, R \in P PROVE R \cup {x} \in P
  <2>1. R \in SUBSET (1 .. n) /\ A \cup R \in SUBSET (1 .. n) /\ x \in 1 .. n /\ x \notin R /\ x \notin A \cup R
    OBVIOUS
  <2>2. sum[R \cup {x}] = f[x] + sum[R] /\ sum[R] \in Int /\ f[x] \in Int
    BY <2>1, <1>a
  <2>3. sum[(A \cup R) \cup {x}] = f[x] + sum[A \cup R]
    BY <2>1, <1>a
  <2>4. (A \cup R) \cup {x} = A \cup (R \cup {x})
    OBVIOUS
  <2>5. sum[A \cup R] = sum[A] + sum[R]
    BY <1>3
  <2>6. sum[A \cup (R \cup {x})] = sum[A] + sum[R \cup {x}]
    <3>1. sum[A \cup (R \cup {x})] = f[x] + sum[A \cup R]
      BY <2>3, <2>4
    <3> DEFINE a == sum[A]
               r == sum[R]
               e == f[x]
               ar == sum[A \cup R]
               arx == sum[A \cup (R \cup {x})]
               rx == sum[R \cup {x}]
    <3>2. arx = e + ar /\ ar = a + r /\ rx = e + r /\ a \in Int /\ r \in Int /\ e \in Int
      BY <1>1, <2>2, <2>5, <3>1
    <3> HIDE DEF a, r, e, ar, arx, rx
    <3>3. arx = a + rx
      BY <3>2
    <3> QED BY <3>3 DEF a, arx, rx
  <2> QED BY <2>6
<1>4. B \in P
  <2> HIDE DEF P
  <2> QED BY <1>2, <1>3, SetsGrow
<1> QED BY <1>4

\* Larger summands, larger sum.
LEMMA SumsCompare ==
  ASSUME NEW n \in Nat, NEW f, NEW sum, Tallies(sum, f, n), NEW g, NEW tot, Tallies(tot, g, n),
         NEW S \in SUBSET (1 .. n), \A i \in S : f[i] <= g[i]
  PROVE  sum[S] <= tot[S]
<1>t. n \in Nat /\ f \in [1 .. n -> Int] /\ Adds(sum, f, n)
      /\ g \in [1 .. n -> Int] /\ Adds(tot, g, n)
  BY DEF Tallies
<1> USE <1>t
<1>a. \A R \in SUBSET (1 .. n) : \A x \in 1 .. n : x \notin R =>
        sum[R \cup {x}] = f[x] + sum[R] /\ sum[R] \in Int /\ f[x] \in Int
  BY SumWith
<1>b. \A R \in SUBSET (1 .. n) : \A x \in 1 .. n : x \notin R =>
        tot[R \cup {x}] = g[x] + tot[R] /\ tot[R] \in Int /\ g[x] \in Int
  BY SumWith
<1> DEFINE P == {R \in SUBSET S : sum[R] <= tot[R]}
<1>1. {} \in P
  BY DEF Adds
<1>2. ASSUME NEW R \in SUBSET S, NEW x \in S \ R, R \in P PROVE R \cup {x} \in P
  <2>1. R \in SUBSET (1 .. n) /\ x \in 1 .. n /\ x \notin R /\ f[x] <= g[x]
    OBVIOUS
  <2>2. sum[R \cup {x}] = f[x] + sum[R] /\ sum[R] \in Int /\ f[x] \in Int
    BY <2>1, <1>a
  <2>3. tot[R \cup {x}] = g[x] + tot[R] /\ tot[R] \in Int /\ g[x] \in Int
    BY <2>1, <1>b
  <2>4. sum[R \cup {x}] <= tot[R \cup {x}]
    BY <1>2, <2>1, <2>2, <2>3
  <2> QED BY <2>4
<1>3. S \in P
  <2> HIDE DEF P
  <2> QED BY <1>1, <1>2, SetsGrow
<1> QED BY <1>3

\* The sum of sums.
LEMMA SumsPlus ==
  ASSUME NEW n \in Nat, NEW f, NEW sum, Tallies(sum, f, n), NEW g, NEW tot, Tallies(tot, g, n),
         NEW h, NEW all, Tallies(all, h, n),
         NEW S \in SUBSET (1 .. n), \A i \in S : h[i] = f[i] + g[i]
  PROVE  all[S] = sum[S] + tot[S]
<1>t. n \in Nat /\ f \in [1 .. n -> Int] /\ Adds(sum, f, n)
      /\ g \in [1 .. n -> Int] /\ Adds(tot, g, n)
      /\ h \in [1 .. n -> Int] /\ Adds(all, h, n)
  BY DEF Tallies
<1> USE <1>t
<1>a. \A R \in SUBSET (1 .. n) : \A x \in 1 .. n : x \notin R =>
        sum[R \cup {x}] = f[x] + sum[R] /\ sum[R] \in Int /\ f[x] \in Int
  BY SumWith
<1>b. \A R \in SUBSET (1 .. n) : \A x \in 1 .. n : x \notin R =>
        tot[R \cup {x}] = g[x] + tot[R] /\ tot[R] \in Int /\ g[x] \in Int
  BY SumWith
<1>c. \A R \in SUBSET (1 .. n) : \A x \in 1 .. n : x \notin R =>
        all[R \cup {x}] = h[x] + all[R] /\ all[R] \in Int /\ h[x] \in Int
  BY SumWith
<1> DEFINE P == {R \in SUBSET S : all[R] = sum[R] + tot[R]}
<1>1. {} \in P
  BY DEF Adds
<1>2. ASSUME NEW R \in SUBSET S, NEW x \in S \ R, R \in P PROVE R \cup {x} \in P
  <2>1. R \in SUBSET (1 .. n) /\ x \in 1 .. n /\ x \notin R /\ h[x] = f[x] + g[x]
    OBVIOUS
  <2>2. sum[R \cup {x}] = f[x] + sum[R] /\ sum[R] \in Int /\ f[x] \in Int
    BY <2>1, <1>a
  <2>3. tot[R \cup {x}] = g[x] + tot[R] /\ tot[R] \in Int /\ g[x] \in Int
    BY <2>1, <1>b
  <2>4. all[R \cup {x}] = h[x] + all[R]
    BY <2>1, <1>c
  <2>5. all[R] = sum[R] + tot[R]
    BY <1>2
  <2>6. all[R \cup {x}] = sum[R \cup {x}] + tot[R \cup {x}]
    BY <2>1, <2>2, <2>3, <2>4, <2>5
  <2> QED BY <2>6
<1>3. S \in P
  <2> HIDE DEF P
  <2> QED BY <1>1, <1>2, SetsGrow
<1> QED BY <1>3

\* c times x is d times y.
Balanced(c, x, d, y) == c * x = d * y

\* So it is for all of S.
InProportion(f, c, g, d, S) == c \in Int /\ d \in Int /\ \A i \in S : c * f[i] = d * g[i]

\* The sum of multiples.
LEMMA SumsScale ==
  ASSUME NEW n \in Nat, NEW f, NEW sum, Tallies(sum, f, n), NEW g, NEW tot, Tallies(tot, g, n), NEW c, NEW d,
         NEW S \in SUBSET (1 .. n), InProportion(f, c, g, d, S)
  PROVE  Balanced(c, sum[S], d, tot[S])
<1>t. n \in Nat /\ f \in [1 .. n -> Int] /\ Adds(sum, f, n)
      /\ g \in [1 .. n -> Int] /\ Adds(tot, g, n)
  BY DEF Tallies
<1>u. c \in Int /\ d \in Int /\ \A i \in S : c * f[i] = d * g[i]
  BY DEF InProportion
<1> USE <1>t, <1>u DEF Balanced
<1>a. \A R \in SUBSET (1 .. n) : \A x \in 1 .. n : x \notin R =>
        sum[R \cup {x}] = f[x] + sum[R] /\ sum[R] \in Int /\ f[x] \in Int
  BY SumWith
<1>b. \A R \in SUBSET (1 .. n) : \A x \in 1 .. n : x \notin R =>
        tot[R \cup {x}] = g[x] + tot[R] /\ tot[R] \in Int /\ g[x] \in Int
  BY SumWith
<1> DEFINE P == {R \in SUBSET S : d * tot[R] = c * sum[R]}
<1>1. {} \in P
  BY DEF Adds
<1>2. ASSUME NEW R \in SUBSET S, NEW x \in S \ R, R \in P PROVE R \cup {x} \in P
  <2>1. R \in SUBSET (1 .. n) /\ x \in 1 .. n /\ x \notin R /\ d * g[x] = c * f[x]
    OBVIOUS
  <2>2. sum[R \cup {x}] = f[x] + sum[R] /\ sum[R] \in Int /\ f[x] \in Int
    BY <2>1, <1>a
  <2>3. tot[R \cup {x}] = g[x] + tot[R] /\ tot[R] \in Int /\ g[x] \in Int
    BY <2>1, <1>b
  <2>4. d * tot[R] = c * sum[R]
    BY <1>2
  <2>5. \A m, u, v \in Int : m * (u + v) = m * u + m * v
    OBVIOUS
  <2>6. d * (g[x] + tot[R]) = d * g[x] + d * tot[R] /\ c * (f[x] + sum[R]) = c * f[x] + c * sum[R]
    BY <2>2, <2>3, <2>5
  <2>7. d * tot[R \cup {x}] = c * sum[R \cup {x}]
    BY <2>1, <2>2, <2>3, <2>4, <2>6
  <2> QED BY <2>7
<1>3. S \in P
  <2> HIDE DEF P
  <2> QED BY <1>1, <1>2, SetsGrow
<1> QED BY <1>3

\* The sum of one number several times.
LEMMA SumOfSame ==
  ASSUME NEW n \in Nat, NEW f, NEW sum, Tallies(sum, f, n), NEW c \in Int,
         NEW S \in SUBSET (1 .. n), \A i \in S : f[i] = c
  PROVE  sum[S] = c * Cardinality(S)
<1>t. n \in Nat /\ f \in [1 .. n -> Int] /\ Adds(sum, f, n)
  BY DEF Tallies
<1> USE <1>t
<1>a. \A R \in SUBSET (1 .. n) : \A x \in 1 .. n : x \notin R =>
        sum[R \cup {x}] = f[x] + sum[R] /\ sum[R] \in Int /\ f[x] \in Int
  BY SumWith
<1> DEFINE P == {R \in SUBSET S : sum[R] = c * Cardinality(R)}
<1>0. \A R \in SUBSET S : IsFiniteSet(R)
  BY Intervals, FS_Subset
<1>1. {} \in P
  <2>1. Cardinality({}) = 0
    BY FS_EmptySet
  <2> QED BY <2>1 DEF Adds
<1>2. ASSUME NEW R \in SUBSET S, NEW x \in S \ R, R \in P PROVE R \cup {x} \in P
  <2>1. R \in SUBSET (1 .. n) /\ x \in 1 .. n /\ x \notin R /\ f[x] = c
    OBVIOUS
  <2>2. sum[R \cup {x}] = f[x] + sum[R] /\ sum[R] \in Int /\ f[x] \in Int
    BY <2>1, <1>a
  <2>3. Cardinality(R \cup {x}) = Cardinality(R) + 1
    BY <1>0, FS_AddElement
  <2>4. Cardinality(R) \in Nat
    BY <1>0, FS_CardinalityType
  <2>5. \A u \in Int : c * (u + 1) = c * u + c
    OBVIOUS
  <2> DEFINE u == Cardinality(R)
  <2>6. sum[R] = c * u
    BY <1>2
  <2>7. c * (u + 1) = c * u + c
    BY <2>4, <2>5
  <2>8. sum[R \cup {x}] = c * (u + 1)
    <3> HIDE DEF u
    <3> QED BY <2>1, <2>2, <2>6, <2>7
  <2>9. sum[R \cup {x}] = c * Cardinality(R \cup {x})
    BY <2>3, <2>8
  <2> QED BY <2>9
<1>3. S \in P
  <2> HIDE DEF P
  <2> QED BY <1>1, <1>2, SetsGrow
<1> QED BY <1>3

\* The sum of numbers that are all larger by the same amount.
LEMMA AllGrow ==
  ASSUME NEW n \in Nat, NEW f, NEW sum, Tallies(sum, f, n), NEW h, NEW all, Tallies(all, h, n),
         NEW more \in Int, \A i \in 1 .. n : h[i] = f[i] + more
  PROVE  all[1 .. n] = sum[1 .. n] + more * n
<1>t. n \in Nat /\ f \in [1 .. n -> Int] /\ Adds(sum, f, n)
      /\ h \in [1 .. n -> Int] /\ Adds(all, h, n)
  BY DEF Tallies
<1> USE <1>t
<1> DEFINE S == 1 .. n
<1>a. \A R \in SUBSET (1 .. n) : \A x \in 1 .. n : x \notin R =>
        sum[R \cup {x}] = f[x] + sum[R] /\ sum[R] \in Int /\ f[x] \in Int
  BY SumWith
<1>b. \A R \in SUBSET (1 .. n) : \A x \in 1 .. n : x \notin R =>
        all[R \cup {x}] = h[x] + all[R] /\ all[R] \in Int /\ h[x] \in Int
  BY SumWith
<1> DEFINE P == {R \in SUBSET S : all[R] = sum[R] + more * Cardinality(R)}
<1>0. \A R \in SUBSET S : IsFiniteSet(R)
  BY Intervals, FS_Subset
<1>1. {} \in P
  <2>1. Cardinality({}) = 0
    BY FS_EmptySet
  <2> QED BY <2>1 DEF Adds
<1>2. ASSUME NEW R \in SUBSET S, NEW x \in S \ R, R \in P PROVE R \cup {x} \in P
  <2>1. R \in SUBSET (1 .. n) /\ x \in 1 .. n /\ x \notin R /\ h[x] = f[x] + more
    OBVIOUS
  <2>2. sum[R \cup {x}] = f[x] + sum[R] /\ sum[R] \in Int /\ f[x] \in Int
    BY <2>1, <1>a
  <2>b. all[R \cup {x}] = h[x] + all[R]
    BY <2>1, <1>b
  <2>3. Cardinality(R \cup {x}) = Cardinality(R) + 1
    BY <1>0, FS_AddElement
  <2>4. Cardinality(R) \in Nat
    BY <1>0, FS_CardinalityType
  <2>5. \A u \in Int : more * (u + 1) = more * u + more
    OBVIOUS
  <2> DEFINE u == Cardinality(R)
             v == more * u
  <2>6. all[R] = sum[R] + v
    BY <1>2
  <2>7. more * (u + 1) = v + more /\ v \in Int
    BY <2>4, <2>5
  <2>8. all[R \cup {x}] = sum[R \cup {x}] + more * (u + 1)
    <3> HIDE DEF u, v
    <3> QED BY <2>1, <2>2, <2>b, <2>6, <2>7
  <2>9. all[R \cup {x}] = sum[R \cup {x}] + more * Cardinality(R \cup {x})
    BY <2>3, <2>8
  <2> QED BY <2>9
<1>3. S \in P
  <2> HIDE DEF P
  <2> QED BY <1>1, <1>2, SetsGrow
<1>4. Cardinality(S) = n
  BY Intervals
<1> QED BY <1>3, <1>4

-----------------------------------------------------------------------------
\* The recursive function exists: it is the one its definition describes.
LEMMA FilterSteps ==
  ASSUME NEW s, Len(s) \in Nat, NEW keep
  PROVE  /\ FilteredTo(s, keep)[0] = <<>>
         /\ \A i \in 1 .. Len(s) :
              FilteredTo(s, keep)[i] =
                IF s[i] \in keep THEN Append(FilteredTo(s, keep)[i - 1], s[i])
                ELSE FilteredTo(s, keep)[i - 1]
<1> DEFINE Step(g, i) ==
             IF i = 0 THEN <<>>
             ELSE IF s[i] \in keep THEN Append(g[i - 1], s[i])
             ELSE g[i - 1]
           last == Len(s)
           T == {n \in Nat : \E g : g = [i \in 0 .. n |-> Step(g, i)]}
<1>1. 0 \in T
  <2> DEFINE g == [i \in 0 .. 0 |-> <<>>]
  <2>1. g = [i \in 0 .. 0 |-> Step(g, i)]
    OBVIOUS
  <2> QED BY <2>1
<1>2. ASSUME NEW n \in 0 .. last - 1, n \in T PROVE n + 1 \in T
  <2>1. PICK g : g = [i \in 0 .. n |-> Step(g, i)]
    BY <1>2
  <2>0. \A i \in 0 .. n : g[i] = Step(g, i)
    <3> HIDE DEF Step
    <3> QED BY <2>1
  <2> DEFINE h == [i \in 0 .. n + 1 |->
                     IF i <= n THEN g[i]
                     ELSE IF s[n + 1] \in keep THEN Append(g[n], s[n + 1])
                     ELSE g[n]]
  <2>2. ASSUME NEW i \in 0 .. n + 1 PROVE h[i] = Step(h, i)
    <3>1. CASE i = 0
      <4>1. h[0] = g[0] /\ g[0] = Step(g, 0)
        BY <2>1, <1>2
      <4> QED BY <3>1, <4>1
    <3>2. CASE i \in 1 .. n
      <4>1. h[i] = g[i] /\ h[i - 1] = g[i - 1] /\ i # 0
        BY <3>2, <1>2
      <4>2. g[i] = Step(g, i)
        BY <3>2, <2>0, <1>2
      <4> QED BY <4>1, <4>2
    <3>3. CASE i = n + 1
      <4>1. h[n] = g[n] /\ i - 1 = n /\ i # 0
        BY <3>3, <1>2
      <4>2. h[i] = IF s[n + 1] \in keep THEN Append(g[n], s[n + 1]) ELSE g[n]
        BY <3>3, <1>2
      <4> QED BY <3>3, <4>1, <4>2
    <3> QED BY <1>2, <3>1, <3>2, <3>3
  <2>3. h = [i \in 0 .. n + 1 |-> Step(h, i)]
    <3>1. h = [i \in 0 .. n + 1 |-> h[i]]
      OBVIOUS
    <3> HIDE DEF h
    <3> QED BY <3>1, <2>2
  <2> HIDE DEF h, Step
  <2>4. n + 1 \in Nat
    BY <1>2
  <2> QED BY <2>3, <2>4
<1>3. last \in T
  <2> HIDE DEF T, last
  <2>1. last \in Nat
    BY DEF last
  <2>2. \A n \in 0 .. last : n \in T
    BY <1>1, <1>2, <2>1, Counting
  <2> QED BY <2>1, <2>2
<1> DEFINE f == FilteredTo(s, keep)
<1>4. f = [i \in 0 .. last |-> Step(f, i)]
  <2>1. f = CHOOSE g : g = [i \in 0 .. last |-> Step(g, i)]
    BY DEF FilteredTo
  <2>2. \E g : g = [i \in 0 .. last |-> Step(g, i)]
    BY <1>3
  <2> QED BY <2>1, <2>2
<1>5. \A i \in 0 .. last : f[i] = Step(f, i)
  <2> HIDE DEF f
  <2> QED BY <1>4
<1> HIDE DEF f
<1>6. f[0] = <<>> /\ \A i \in 1 .. last :
        f[i] = IF s[i] \in keep THEN Append(f[i - 1], s[i]) ELSE f[i - 1]
  BY <1>5
<1> QED BY <1>6 DEF f
\* What is kept comes from the sequence and is to be kept.
LEMMA FilterType ==
  ASSUME NEW T, NEW s \in Seq(T), NEW keep
  PROVE  /\ \A i \in 0 .. Len(s) : FilteredTo(s, keep)[i] \in Seq(T \cap keep)
         /\ Filtered(s, keep) \in Seq(T \cap keep)
<1> DEFINE f == FilteredTo(s, keep)
           good == {n \in Nat : n <= Len(s) => f[n] \in Seq(T \cap keep)}
<1>1. Len(s) \in Nat /\ \A i \in 1 .. Len(s) : s[i] \in T
  BY LenProperties
<1>2. f[0] = <<>> /\ \A i \in 1 .. Len(s) :
        f[i] = IF s[i] \in keep THEN Append(f[i - 1], s[i]) ELSE f[i - 1]
  BY <1>1, FilterSteps
<1> HIDE DEF f
<1>3. 0 \in good
  BY <1>2, EmptySeq
<1>4. ASSUME NEW n \in 0 .. Len(s) - 1, n \in good PROVE n + 1 \in good
  <2>1. n + 1 \in 1 .. Len(s) /\ n + 1 - 1 = n /\ f[n] \in Seq(T \cap keep)
    BY <1>1, <1>4
  <2>2. f[n + 1] = IF s[n + 1] \in keep THEN Append(f[n], s[n + 1]) ELSE f[n]
    BY <1>2, <2>1
  <2>3. CASE s[n + 1] \in keep
    <3>1. s[n + 1] \in T \cap keep
      BY <2>1, <2>3, <1>1
    <3>2. Append(f[n], s[n + 1]) \in Seq(T \cap keep)
      BY <3>1, <2>1, AppendProperties
    <3>3. f[n + 1] \in Seq(T \cap keep)
      BY <3>2, <2>2, <2>3
    <3> QED BY <3>3, <2>1
  <2>4. CASE s[n + 1] \notin keep
    BY <2>1, <2>2, <2>4
  <2> QED BY <2>3, <2>4
<1>5. \A i \in 0 .. Len(s) : i \in good
  <2> HIDE DEF good
  <2> QED BY <1>1, <1>3, <1>4, Counting
<1>6. \A i \in 0 .. Len(s) : f[i] \in Seq(T \cap keep)
  BY <1>1, <1>5
<1> QED BY <1>6, <1>1 DEF f, Filtered

\* Two sequences that agree on what is kept of their first n entries.
LEMMA FilterAgrees ==
  ASSUME NEW s, Len(s) \in Nat, NEW keep,
         NEW r, Len(r) \in Nat, NEW save,
         NEW n \in Nat, n <= Len(s), n <= Len(r),
         \A i \in 1 .. n : \/ s[i] \in keep /\ r[i] \in save /\ s[i] = r[i]
                           \/ s[i] \notin keep /\ r[i] \notin save
  PROVE  FilteredTo(s, keep)[n] = FilteredTo(r, save)[n]
<1> DEFINE f == FilteredTo(s, keep)
           g == FilteredTo(r, save)
           same == {m \in Nat : f[m] = g[m]}
<1>1. f[0] = <<>> /\ \A i \in 1 .. Len(s) :
        f[i] = IF s[i] \in keep THEN Append(f[i - 1], s[i]) ELSE f[i - 1]
  BY FilterSteps
<1>2. g[0] = <<>> /\ \A i \in 1 .. Len(r) :
        g[i] = IF r[i] \in save THEN Append(g[i - 1], r[i]) ELSE g[i - 1]
  BY FilterSteps
<1> HIDE DEF f, g
<1>3. 0 \in same
  BY <1>1, <1>2
<1>4. ASSUME NEW m \in 0 .. n - 1, m \in same PROVE m + 1 \in same
  <2>1. m + 1 \in 1 .. n /\ m + 1 \in 1 .. Len(s) /\ m + 1 \in 1 .. Len(r) /\ m + 1 - 1 = m
    OBVIOUS
  <2>2. /\ f[m + 1] = IF s[m + 1] \in keep THEN Append(f[m], s[m + 1]) ELSE f[m]
        /\ g[m + 1] = IF r[m + 1] \in save THEN Append(g[m], r[m + 1]) ELSE g[m]
        /\ f[m] = g[m]
    BY <1>1, <1>2, <1>4, <2>1
  <2>3. f[m + 1] = g[m + 1]
    BY <2>1, <2>2
  <2> QED BY <2>3
<1>5. n \in same
  <2> HIDE DEF same
  <2>1. \A i \in 0 .. n : i \in same
    BY <1>3, <1>4, Counting
  <2> QED BY <2>1
<1> QED BY <1>5 DEF f, g

\* The same of whole sequences.
LEMMA FilterSame ==
  ASSUME NEW s, Len(s) \in Nat, NEW keep,
         NEW r, Len(r) = Len(s), NEW save,
         \A i \in 1 .. Len(s) : \/ s[i] \in keep /\ r[i] \in save /\ s[i] = r[i]
                                \/ s[i] \notin keep /\ r[i] \notin save
  PROVE  Filtered(s, keep) = Filtered(r, save)
  BY FilterAgrees DEF Filtered

LEMMA FilterEmpty == \A keep : Filtered(<<>>, keep) = <<>>
  BY FilterSteps, Len(<<>>) = 0 DEF Filtered

LEMMA FilterAppend ==
  ASSUME NEW T, NEW s \in Seq(T), NEW x \in T, NEW keep
  PROVE  Filtered(Append(s, x), keep) =
           IF x \in keep THEN Append(Filtered(s, keep), x) ELSE Filtered(s, keep)
<1> DEFINE r == Append(s, x)
           n == Len(s)
<1>1. n \in Nat /\ Len(r) = n + 1 /\ r[n + 1] = x /\ \A i \in 1 .. n : r[i] = s[i]
  BY LenProperties, AppendProperties
<1> HIDE DEF r, n
<1>2. FilteredTo(r, keep)[n] = FilteredTo(s, keep)[n]
  <2>1. \A i \in 1 .. n : \/ r[i] \in keep /\ s[i] \in keep /\ r[i] = s[i]
                          \/ r[i] \notin keep /\ s[i] \notin keep
    BY <1>1
  <2>2. Len(r) \in Nat /\ Len(s) = n /\ n <= Len(r) /\ n <= n
    BY <1>1 DEF n
  <2> QED BY <1>1, <2>1, <2>2, FilterAgrees
<1>3. FilteredTo(r, keep)[n + 1] =
        IF r[n + 1] \in keep THEN Append(FilteredTo(r, keep)[n], r[n + 1]) ELSE FilteredTo(r, keep)[n]
  <2> DEFINE f == FilteredTo(r, keep)
  <2>1. n + 1 \in 1 .. Len(r) /\ n + 1 - 1 = n /\ Len(r) \in Nat
    BY <1>1
  <2>2. \A i \in 1 .. Len(r) : f[i] = IF r[i] \in keep THEN Append(f[i - 1], r[i]) ELSE f[i - 1]
    BY <2>1, FilterSteps
  <2> HIDE DEF f
  <2>3. f[n + 1] = IF r[n + 1] \in keep THEN Append(f[n], r[n + 1]) ELSE f[n]
    BY <1>1, <2>1, <2>2
  <2> QED BY <2>3 DEF f
<1> QED BY <1>1, <1>2, <1>3 DEF Filtered, r, n

\* Nothing happens to a sequence that is kept whole.
LEMMA FilterAll ==
  ASSUME NEW T, NEW s \in Seq(T), NEW keep, \A i \in 1 .. Len(s) : s[i] \in keep
  PROVE  Filtered(s, keep) = s
<1> DEFINE f == FilteredTo(s, keep)
           whole == {n \in Nat : n <= Len(s) => Len(f[n]) = n /\ \A j \in 1 .. n : f[n][j] = s[j]}
<1>1. Len(s) \in Nat
  BY LenProperties
<1>2. f[0] = <<>> /\ \A i \in 1 .. Len(s) : f[i] = Append(f[i - 1], s[i])
  BY <1>1, FilterSteps
<1>3. \A i \in 0 .. Len(s) : f[i] \in Seq(T)
  <2>1. \A i \in 0 .. Len(s) : f[i] \in Seq(T \cap keep)
    BY FilterType
  <2> HIDE DEF f
  <2>2. ASSUME NEW i \in 0 .. Len(s) PROVE f[i] \in Seq(T)
    <3>1. f[i] \in Seq(T \cap keep) /\ T \cap keep \subseteq T
      BY <2>1
    <3> QED BY <3>1, SeqMonotonic
  <2> QED BY <2>2
<1> HIDE DEF f
<1>4. 0 \in whole
  BY <1>2
<1>5. ASSUME NEW n \in 0 .. Len(s) - 1, n \in whole PROVE n + 1 \in whole
  <2>1. n + 1 \in 1 .. Len(s) /\ n + 1 - 1 = n /\ n \in 0 .. Len(s)
    BY <1>1, <1>5
  <2>2. f[n + 1] = Append(f[n], s[n + 1]) /\ f[n] \in Seq(T) /\ s[n + 1] \in T
    BY <1>2, <1>3, <2>1, ElementOfSeq
  <2>3. Len(f[n]) = n /\ \A j \in 1 .. n : f[n][j] = s[j]
    BY <1>5, <2>1
  <2>4. /\ Len(f[n + 1]) = n + 1
        /\ f[n + 1][n + 1] = s[n + 1]
        /\ \A j \in 1 .. n : f[n + 1][j] = f[n][j]
    BY <2>2, <2>3, AppendProperties
  <2>5. \A j \in 1 .. n + 1 : f[n + 1][j] = s[j]
    BY <2>1, <2>3, <2>4
  <2> QED BY <2>1, <2>4, <2>5
<1>6. Len(s) \in whole
  <2> HIDE DEF whole
  <2>1. \A i \in 0 .. Len(s) : i \in whole
    BY <1>1, <1>4, <1>5, Counting
  <2> QED BY <1>1, <2>1
<1>7. f[Len(s)] \in Seq(T) /\ Len(f[Len(s)]) = Len(s) /\ \A j \in 1 .. Len(s) : f[Len(s)][j] = s[j]
  BY <1>1, <1>3, <1>6
<1>8. f[Len(s)] = s
  BY <1>7, SeqEqual
<1> QED BY <1>8 DEF Filtered, f

\* Appending to the second of two sequences.
GoesBehind(u, v, e) == Append(u \o v, e) = u \o Append(v, e)

LEMMA AppendBehind ==
  ASSUME NEW U, NEW u \in Seq(U), NEW v \in Seq(U), NEW e \in U
  PROVE  GoesBehind(u, v, e)
<1>1. u \o v \in Seq(U) /\ <<e>> \in Seq(U)
  BY ConcatProperties
<1>2. Append(u \o v, e) = (u \o v) \o <<e>> /\ Append(v, e) = v \o <<e>>
  BY <1>1, AppendIsConcat
<1>3. (u \o v) \o <<e>> = u \o (v \o <<e>>)
  BY <1>1, ConcatAssociative
<1> QED BY <1>2, <1>3 DEF GoesBehind

\* Filtering what has been filtered.
LEMMA FilterTwice ==
  ASSUME NEW T, NEW s \in Seq(T), NEW keep, NEW save
  PROVE  Filtered(Filtered(s, keep), save) = Filtered(s, keep \cap save)
<1> DEFINE f == FilteredTo(s, keep)
           g == FilteredTo(s, keep \cap save)
           same == {n \in Nat : n <= Len(s) => Filtered(f[n], save) = g[n]}
<1>1. Len(s) \in Nat
  BY LenProperties
<1>2. f[0] = <<>> /\ \A i \in 1 .. Len(s) :
        f[i] = IF s[i] \in keep THEN Append(f[i - 1], s[i]) ELSE f[i - 1]
  BY <1>1, FilterSteps
<1>3. g[0] = <<>> /\ \A i \in 1 .. Len(s) :
        g[i] = IF s[i] \in keep \cap save THEN Append(g[i - 1], s[i]) ELSE g[i - 1]
  BY <1>1, FilterSteps
<1>4. \A i \in 0 .. Len(s) : f[i] \in Seq(T \cap keep)
  BY FilterType
<1> HIDE DEF f, g
<1>5. 0 \in same
  BY <1>2, <1>3, FilterEmpty
<1>6. ASSUME NEW n \in 0 .. Len(s) - 1, n \in same PROVE n + 1 \in same
  <2>1. n + 1 \in 1 .. Len(s) /\ n + 1 - 1 = n /\ n \in 0 .. Len(s)
    BY <1>1, <1>6
  <2>2. f[n] \in Seq(T \cap keep) /\ s[n + 1] \in T /\ Filtered(f[n], save) = g[n]
    BY <1>4, <1>6, <2>1, ElementOfSeq
  <2>3. /\ f[n + 1] = IF s[n + 1] \in keep THEN Append(f[n], s[n + 1]) ELSE f[n]
        /\ g[n + 1] = IF s[n + 1] \in keep \cap save THEN Append(g[n], s[n + 1]) ELSE g[n]
    BY <1>2, <1>3, <2>1
  <2>4. s[n + 1] \in keep =>
          Filtered(Append(f[n], s[n + 1]), save) =
            IF s[n + 1] \in save THEN Append(g[n], s[n + 1]) ELSE g[n]
    <3> SUFFICES ASSUME s[n + 1] \in keep
                 PROVE  Filtered(Append(f[n], s[n + 1]), save) =
                          IF s[n + 1] \in save THEN Append(g[n], s[n + 1]) ELSE g[n]
      OBVIOUS
    <3>1. s[n + 1] \in T \cap keep
      BY <2>2
    <3>2. \A e \in Seq(T \cap keep), y \in T \cap keep :
            Filtered(Append(e, y), save) =
              IF y \in save THEN Append(Filtered(e, save), y) ELSE Filtered(e, save)
      <4> DEFINE U == T \cap keep
      <4> TAKE e \in Seq(U), y \in U
      <4> HIDE DEF U
      <4> QED BY FilterAppend
    <3> QED BY <3>1, <3>2, <2>2
  <2>5. Filtered(f[n + 1], save) = g[n + 1]
    BY <2>2, <2>3, <2>4
  <2> QED BY <2>5
<1>7. Len(s) \in same
  <2> HIDE DEF same
  <2>1. \A i \in 0 .. Len(s) : i \in same
    BY <1>1, <1>5, <1>6, Counting
  <2> QED BY <1>1, <2>1
<1>8. Filtered(f[Len(s)], save) = g[Len(s)]
  BY <1>1, <1>7
<1>9. Filtered(s, keep) = f[Len(s)] /\ Filtered(s, keep \cap save) = g[Len(s)]
  BY DEF Filtered, f, g
<1> QED BY <1>8, <1>9

\* The first entry, and then the rest.
LEMMA FilterHead ==
  ASSUME NEW T, NEW s \in Seq(T), s # <<>>, NEW keep
  PROVE  Filtered(s, keep) =
           IF Head(s) \in keep THEN <<Head(s)>> \o Filtered(Tail(s), keep)
           ELSE Filtered(Tail(s), keep)
<1> DEFINE t == Tail(s)
           first == IF Head(s) \in keep THEN <<Head(s)>> ELSE <<>>
           f == FilteredTo(s, keep)
           g == FilteredTo(t, keep)
           same == {n \in Nat : n <= Len(t) => f[n + 1] = first \o g[n]}
<1>1. /\ Len(s) \in Nat \ {0} /\ Head(s) = s[1] /\ s[1] \in T
      /\ t \in Seq(T) /\ Len(t) = Len(s) - 1
      /\ \A i \in 1 .. Len(t) : t[i] = s[i + 1]
  <2>1. Len(s) \in Nat \ {0} /\ Head(s) = s[1]
    BY EmptySeq
  <2> QED BY <2>1, HeadTailProperties, ElementOfSeq
<1>2. f[0] = <<>> /\ \A i \in 1 .. Len(s) :
        f[i] = IF s[i] \in keep THEN Append(f[i - 1], s[i]) ELSE f[i - 1]
  BY <1>1, FilterSteps
<1>3. g[0] = <<>> /\ \A i \in 1 .. Len(t) :
        g[i] = IF t[i] \in keep THEN Append(g[i - 1], t[i]) ELSE g[i - 1]
  <2>1. Len(t) \in Nat
    BY <1>1
  <2> HIDE DEF t
  <2> QED BY <2>1, FilterSteps
<1>4. \A i \in 0 .. Len(t) : g[i] \in Seq(T)
  <2>1. \A i \in 0 .. Len(t) : g[i] \in Seq(T \cap keep)
    BY <1>1, FilterType
  <2> HIDE DEF g
  <2>2. ASSUME NEW i \in 0 .. Len(t) PROVE g[i] \in Seq(T)
    <3>1. g[i] \in Seq(T \cap keep) /\ T \cap keep \subseteq T
      BY <2>1
    <3> QED BY <3>1, SeqMonotonic
  <2> QED BY <2>2
<1>5. first \in Seq(T) /\ first = IF s[1] \in keep THEN Append(<<>>, s[1]) ELSE <<>>
  BY <1>1
<1> HIDE DEF f, g, first, t
<1>6. 0 \in same
  <2>1. f[1] = IF s[1] \in keep THEN Append(<<>>, s[1]) ELSE <<>>
    <3>1. 1 \in 1 .. Len(s) /\ 1 - 1 = 0
      BY <1>1
    <3>2. f[1] = IF s[1] \in keep THEN Append(f[1 - 1], s[1]) ELSE f[1 - 1]
      BY <3>1, <1>2
    <3> QED BY <3>1, <3>2, <1>2
  <2>2. first \o <<>> = first
    BY <1>5, ConcatEmptySeq
  <2>3. f[0 + 1] = first \o g[0]
    BY <2>1, <2>2, <1>3, <1>5
  <2> QED BY <2>3
<1>7. ASSUME NEW n \in 0 .. Len(t) - 1, n \in same PROVE n + 1 \in same
  <2>1. /\ n \in Nat /\ n + 1 \in 1 .. Len(t) /\ n + 1 - 1 = n /\ n \in 0 .. Len(t)
        /\ n + 2 \in 1 .. Len(s) /\ n + 2 - 1 = n + 1
    BY <1>1, <1>7
  <2>2. f[n + 1] = first \o g[n] /\ g[n] \in Seq(T) /\ t[n + 1] = s[n + 2] /\ t[n + 1] \in T
    <3>1. s[n + 1 + 1] = t[n + 1] /\ n + 1 + 1 = n + 2
      BY <1>1, <2>1
    <3> QED BY <3>1, <1>1, <1>4, <1>7, <2>1, ElementOfSeq
  <2>3. f[n + 2] = IF s[n + 2] \in keep THEN Append(f[n + 1], s[n + 2]) ELSE f[n + 1]
    BY <1>2, <2>1
  <2>4. g[n + 1] = IF t[n + 1] \in keep THEN Append(g[n], t[n + 1]) ELSE g[n]
    BY <1>3, <2>1
  <2>5. Append(first \o g[n], t[n + 1]) = first \o Append(g[n], t[n + 1])
    <3>1. first \in Seq(T) /\ g[n] \in Seq(T) /\ t[n + 1] \in T
      BY <1>5, <2>2
    <3> DEFINE b == g[n]
               x == t[n + 1]
    <3>2. first \in Seq(T) /\ b \in Seq(T) /\ x \in T
      BY <3>1
    <3> HIDE DEF b, x
    <3>3. GoesBehind(first, b, x)
      BY <3>2, AppendBehind
    <3> QED BY <3>3 DEF GoesBehind, b, x
  <2>6. f[n + 2] = first \o g[n + 1]
    BY <2>2, <2>3, <2>4, <2>5
  <2>7. f[n + 1 + 1] = first \o g[n + 1]
    BY <2>1, <2>6
  <2> QED BY <2>1, <2>7
<1>8. Len(t) \in Nat /\ Len(t) \in same
  <2> HIDE DEF same
  <2>1. Len(t) \in Nat
    BY <1>1
  <2>2. \A i \in 0 .. Len(t) : i \in same
    BY <2>1, <1>6, <1>7, Counting
  <2> QED BY <2>1, <2>2
<1>9. f[Len(s)] = first \o g[Len(t)]
  <2>1. f[Len(t) + 1] = first \o g[Len(t)]
    BY <1>8
  <2>2. Len(t) + 1 = Len(s)
    BY <1>1
  <2> QED BY <2>1, <2>2
<1>10. Filtered(s, keep) = f[Len(s)] /\ Filtered(t, keep) = g[Len(t)]
  BY DEF Filtered, f, g
<1>11. g[Len(t)] \in Seq(T)
  BY <1>4, <1>8
<1>12. <<>> \o g[Len(t)] = g[Len(t)]
  BY <1>11, ConcatEmptySeq
<1>13. CASE Head(s) \in keep
  BY <1>13, <1>9, <1>10 DEF first, t
<1>14. CASE Head(s) \notin keep
  BY <1>14, <1>9, <1>10, <1>12 DEF first, t
<1> QED BY <1>13, <1>14
-----------------------------------------------------------------------------
\* The places in the first n entries of s from which f was kept, in order.
Places(s, keep, n, f) ==
  {m \in [1 .. Len(f) -> 1 .. n] :
     /\ \A j, k \in 1 .. Len(f) : j < k => m[j] < m[k]
     /\ \A j \in 1 .. Len(f) : f[j] = s[m[j]] /\ f[j] \in keep
     /\ \A a \in 1 .. n : s[a] \in keep => \E j \in 1 .. Len(f) : m[j] = a}

\* What is kept are all the entries that are to be kept, in their order.
LEMMA FilterPlaces ==
  ASSUME NEW T, NEW s \in Seq(T), NEW keep
  PROVE  Places(s, keep, Len(s), Filtered(s, keep)) # {}
<1> DEFINE f == FilteredTo(s, keep)
           placed == {n \in Nat : n <= Len(s) => Places(s, keep, n, f[n]) # {}}
<1>1. Len(s) \in Nat
  BY LenProperties
<1>2. f[0] = <<>> /\ \A i \in 1 .. Len(s) :
        f[i] = IF s[i] \in keep THEN Append(f[i - 1], s[i]) ELSE f[i - 1]
  BY <1>1, FilterSteps
<1>3. \A i \in 0 .. Len(s) : f[i] \in Seq(T \cap keep)
  BY FilterType
<1> HIDE DEF f
<1>4. 0 \in placed
  <2> DEFINE m == [j \in 1 .. 0 |-> 0]
  <2>1. Len(f[0]) = 0
    BY <1>2
  <2>2. m \in [1 .. 0 -> 1 .. 0] /\ 1 .. 0 = {}
    OBVIOUS
  <2>3. m \in Places(s, keep, 0, f[0])
    BY <2>1, <2>2 DEF Places
  <2> QED BY <2>3
<1>5. ASSUME NEW n \in 0 .. Len(s) - 1, n \in placed PROVE n + 1 \in placed
  <2> DEFINE e == f[n]
             x == s[n + 1]
             l == Len(e)
  <2>1. n \in Nat /\ n + 1 \in 1 .. Len(s) /\ n + 1 - 1 = n /\ n \in 0 .. Len(s)
    BY <1>1, <1>5
  <2>2. e \in Seq(T \cap keep) /\ x \in T /\ l \in Nat
    BY <1>3, <2>1, ElementOfSeq
  <2>3. PICK m \in Places(s, keep, n, e) : TRUE
    BY <1>5, <2>1
  <2>4. /\ m \in [1 .. l -> 1 .. n]
        /\ \A j, k \in 1 .. l : j < k => m[j] < m[k]
        /\ \A j \in 1 .. l : e[j] = s[m[j]] /\ e[j] \in keep
        /\ \A a \in 1 .. n : s[a] \in keep => \E j \in 1 .. l : m[j] = a
    BY <2>3 DEF Places
  <2>5. f[n + 1] = IF x \in keep THEN Append(e, x) ELSE e
    BY <1>2, <2>1
  <2> HIDE DEF e, l
  <2>6. CASE x \notin keep
    <3>1. m \in [1 .. l -> 1 .. n + 1]
      BY <2>1, <2>2, <2>4
    <3>2. \A a \in 1 .. n + 1 : s[a] \in keep => \E j \in 1 .. l : m[j] = a
      BY <2>1, <2>4, <2>6
    <3>3. m \in Places(s, keep, n + 1, e)
      BY <3>1, <3>2, <2>4 DEF Places, l
    <3> QED BY <3>3, <2>5, <2>6
  <2>7. CASE x \in keep
    <3> DEFINE g == Append(e, x)
               q == [j \in 1 .. l + 1 |-> IF j <= l THEN m[j] ELSE n + 1]
    <3>1. x \in T \cap keep
      BY <2>2, <2>7
    <3>2. Len(g) = l + 1 /\ g[l + 1] = x /\ \A j \in 1 .. l : g[j] = e[j]
      BY <3>1, <2>2, AppendProperties DEF l
    <3>3. q \in [1 .. l + 1 -> 1 .. n + 1]
      BY <2>1, <2>2, <2>4
    <3>4. q[l + 1] = n + 1 /\ \A j \in 1 .. l : q[j] = m[j] /\ q[j] \in 1 .. n
      BY <2>2, <2>4
    <3> HIDE DEF g, q
    <3>5. \A j \in 1 .. l + 1 : j \in 1 .. l \/ j = l + 1
      BY <2>2
    <3>6. \A j, k \in 1 .. l + 1 : j < k => q[j] < q[k]
      <4> TAKE j, k \in 1 .. l + 1
      <4> HAVE j < k
      <4>1. j \in 1 .. l
        BY <2>2
      <4>2. CASE k \in 1 .. l
        <5>1. m[j] < m[k]
          BY <2>4, <4>1, <4>2
        <5> QED BY <5>1, <3>4, <4>1, <4>2
      <4>3. CASE k = l + 1
        <5>1. q[j] \in 1 .. n /\ q[k] = n + 1
          BY <3>4, <4>1, <4>3
        <5> QED BY <5>1, <2>1
      <4> QED BY <3>5, <4>2, <4>3
    <3>7. \A j \in 1 .. l + 1 : g[j] = s[q[j]] /\ g[j] \in keep
      BY <2>4, <2>7, <3>2, <3>4, <3>5
    <3>8. \A a \in 1 .. n + 1 : s[a] \in keep => \E j \in 1 .. l + 1 : q[j] = a
      <4> TAKE a \in 1 .. n + 1
      <4>1. CASE a = n + 1
        BY <4>1, <2>2, <3>4
      <4>2. CASE a \in 1 .. n
        <5> SUFFICES ASSUME s[a] \in keep PROVE \E j \in 1 .. l + 1 : q[j] = a
          OBVIOUS
        <5>1. PICK j \in 1 .. l : m[j] = a
          BY <4>2, <2>4
        <5>2. j \in 1 .. l + 1 /\ q[j] = a
          BY <5>1, <2>2, <3>4
        <5> QED BY <5>2
      <4> QED BY <4>1, <4>2, <2>1
    <3>9. q \in Places(s, keep, n + 1, g)
      BY <3>2, <3>3, <3>6, <3>7, <3>8 DEF Places
    <3>10. f[n + 1] = g
      BY <2>5, <2>7 DEF g
    <3> QED BY <3>9, <3>10
  <2> QED BY <2>6, <2>7
<1>6. Len(s) \in placed
  <2> HIDE DEF placed
  <2>1. \A i \in 0 .. Len(s) : i \in placed
    BY <1>1, <1>4, <1>5, Counting
  <2> QED BY <1>1, <2>1
<1>7. Places(s, keep, Len(s), f[Len(s)]) # {}
  BY <1>1, <1>6
<1> QED BY <1>7 DEF Filtered, f
=============================================================================
