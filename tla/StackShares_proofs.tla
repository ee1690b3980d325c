-------------------------- MODULE StackShares_proofs --------------------------
(***************************************************************************)
(* Proofs about StackShares, for any number of children of any sizes and   *)
(* priorities, in any room.  Sums over children, and where the children of *)
(* a row end, are those of Algorithms_proofs.                              *)
(*                                                                         *)
(* While groups are cut, those behind rank have what they asked for and    *)
(* those before it have nothing left, unless nothing is missing any more;  *)
(* what the children have together is what the stack has room for and what *)
(* is still missing (ShrinkOK, StackInv).  Each half of a group gives in   *)
(* proportion to what its children have (HalfIsCut).                       *)
(*                                                                         *)
(* The code shares out floats, the model integers: the theorems assume that*)
(* the shares are whole (StackExact).                                      *)
(***************************************************************************)
EXTENDS StackShares, Algorithms_proofs

-----------------------------------------------------------------------------
(* The children of a stack: what they ask for, and their order.            *)

\* What a child asks for, with its margins, and what it is worth.
PreferredList == [i \in 1 .. Len(kids) |-> Preferred(i)]
AroundList == [i \in 1 .. Len(kids) |-> Around(i)]
PriorityList == [i \in 1 .. Len(kids) |-> Priority(i)]

StackTypeOK ==
  /\ Len(kids) \in Nat \ {0} /\ kids \in [1 .. Len(kids) -> Kids]
  /\ stack \in [main : Nat, gap : Nat, height : Nat, baseline : BOOLEAN]
  /\ phase \in {"share", "shrink", "place", "placed"}
  /\ Numbers(mains, Len(kids))
  /\ rank \in Nat \ {0} /\ deficit \in Int

\* The numbers of a child.
LEMMA KidNumbers ==
  ASSUME StackTypeOK
  PROVE  /\ DOMAIN kids = 1 .. Len(kids)
         /\ \A i \in 1 .. Len(kids) :
              /\ Preferred(i) \in Nat /\ Around(i) \in Nat /\ Priority(i) \in Int
              /\ kids[i].preferred \in Nat /\ kids[i].fixed \in BOOLEAN /\ kids[i].spacer \in BOOLEAN
              /\ kids[i].spacer => Preferred(i) = 0
              /\ kids[i].margin * Unit \in Nat
              /\ Around(i) = kids[i].margin * Unit + kids[i].margin * Unit
<1>1. kids \in [1 .. Len(kids) -> Kids] /\ Unit \in Nat
  BY UnitAssumption DEF StackTypeOK
<1> SUFFICES ASSUME NEW i \in 1 .. Len(kids)
             PROVE  /\ Preferred(i) \in Nat /\ Around(i) \in Nat /\ Priority(i) \in Int
                    /\ kids[i].preferred \in Nat /\ kids[i].fixed \in BOOLEAN /\ kids[i].spacer \in BOOLEAN
                    /\ kids[i].spacer => Preferred(i) = 0
                    /\ kids[i].margin * Unit \in Nat
                    /\ Around(i) = kids[i].margin * Unit + kids[i].margin * Unit
  BY <1>1
<1>2. /\ kids[i] \in [preferred : Nat, min : Nat, max : Nat, margin : Nat, priority : Int, fixed : BOOLEAN,
                      spacer : BOOLEAN, height : Nat, low : Nat, high : Nat, above : Nat, below : Nat,
                      kind : {"text", "box"}]
      /\ kids[i].spacer => kids[i].preferred = 0
  <2>1. kids[i] \in Kids
    BY <1>1
  <2> QED BY <2>1, StackAssumption
<1>3. PICK p \in Nat, m \in Nat, u \in Nat : p = kids[i].preferred /\ m = kids[i].margin /\ u = Unit
  BY <1>1, <1>2
<1>4. p * u \in Nat /\ m * u \in Nat /\ 2 * m * u = m * u + m * u /\ 0 * u = 0
  OBVIOUS
<1>5. Preferred(i) = p * u /\ Around(i) = 2 * m * u /\ kids[i].margin * Unit = m * u
  BY <1>3 DEF Preferred, Around
<1>6. kids[i].spacer => Preferred(i) = 0
  BY <1>2, <1>3, <1>4, <1>5
<1>7. Priority(i) \in Int /\ kids[i].fixed \in BOOLEAN /\ kids[i].spacer \in BOOLEAN
  BY <1>2 DEF Priority
<1>8. /\ Preferred(i) \in Nat /\ Around(i) \in Nat /\ kids[i].preferred \in Nat
      /\ kids[i].margin * Unit \in Nat /\ Around(i) = kids[i].margin * Unit + kids[i].margin * Unit
  <2>1. PICK x, y : x = p * u /\ y = m * u
    OBVIOUS
  <2>2. x \in Nat /\ y \in Nat /\ Preferred(i) = x /\ kids[i].margin * Unit = y /\ Around(i) = y + y
    BY <1>4, <1>5, <2>1
  <2>3. kids[i].preferred \in Nat
    BY <1>3
  <2>4. Preferred(i) \in Nat
    BY <2>2
  <2>5. Around(i) \in Nat
    BY <2>2
  <2>6. kids[i].margin * Unit \in Nat
    BY <2>2
  <2>7. Around(i) = kids[i].margin * Unit + kids[i].margin * Unit
    BY Zenon, <2>2
  <2> QED BY <2>3, <2>4, <2>5, <2>6, <2>7
<1> QED BY Zenon, <1>6, <1>7, <1>8

\* So the lists are lists of numbers.
LEMMA KidListsAreNumbers ==
  ASSUME StackTypeOK
  PROVE  /\ Numbers(PreferredList, Len(kids)) /\ Numbers(AroundList, Len(kids)) /\ Numbers(PriorityList, Len(kids))
         /\ Numbers(mains, Len(kids)) /\ Len(kids) \in Nat \ {0}
<1>1. Len(kids) \in Nat \ {0} /\ Numbers(mains, Len(kids))
  BY DEF StackTypeOK
<1>2. \A i \in 1 .. Len(kids) : Preferred(i) \in Int /\ Around(i) \in Int /\ Priority(i) \in Int
  BY KidNumbers
<1> QED BY <1>1, <1>2 DEF Numbers, PreferredList, AroundList, PriorityList

\* What the children of S ask for together.
LEMMA PreferredAdd ==
  ASSUME StackTypeOK, NEW S \in SUBSET (1 .. Len(kids))
  PROVE  MapThenSumSet(Preferred, S) = SumFunctionOnSet(PreferredList, S)
<1>1. PICK n, f : n \in Nat /\ n = Len(kids) /\ f = PreferredList /\ Numbers(f, n)
  BY KidListsAreNumbers
<1> DEFINE terms == [s \in SUBSET S |-> Preferred(CHOOSE x \in s : TRUE)]
           iter == CHOOSE g : g = [s \in SUBSET S |->
             IF s = {} THEN 0 ELSE Preferred(CHOOSE x \in s : TRUE) + g[s \ {CHOOSE x \in s : TRUE}]]
<1>2. MapThenSumSet(Preferred, S) = iter[S]
  BY DEF MapThenSumSet, MapThenFoldSet
<1>3. ChosenFrom(terms, f, S)
  <2>1. \A i \in S : f[i] = Preferred(i)
    BY <1>1 DEF PreferredList
  <2>2. \A s \in SUBSET S : s # {} => (CHOOSE x \in s : TRUE) \in S
    OBVIOUS
  <2> QED BY <2>1, <2>2 DEF ChosenFrom
<1>4. \A g : SumsBy(g, terms, S) <=>
         g = [s \in SUBSET S |->
               IF s = {} THEN 0 ELSE Preferred(CHOOSE x \in s : TRUE) + g[s \ {CHOOSE x \in s : TRUE}]]
  BY DEF SumsBy
<1>5. S \in SUBSET (1 .. n)
  BY <1>1
<1> HIDE DEF terms
<1>6. (\E g : SumsBy(g, terms, S)) /\ (\A g : SumsBy(g, terms, S) => g[S] = SumFunctionOnSet(f, S))
  BY <1>1, <1>3, <1>5, SumsByChoice
<1>7. SumsBy(iter, terms, S)
  BY <1>4, <1>6
<1> HIDE DEF iter
<1> QED BY <1>1, <1>2, <1>6, <1>7

\* Their margins.
LEMMA AroundAdd ==
  ASSUME StackTypeOK, NEW S \in SUBSET (1 .. Len(kids))
  PROVE  MapThenSumSet(Around, S) = SumFunctionOnSet(AroundList, S)
<1>1. PICK n, f : n \in Nat /\ n = Len(kids) /\ f = AroundList /\ Numbers(f, n)
  BY KidListsAreNumbers
<1> DEFINE terms == [s \in SUBSET S |-> Around(CHOOSE x \in s : TRUE)]
           iter == CHOOSE g : g = [s \in SUBSET S |->
             IF s = {} THEN 0 ELSE Around(CHOOSE x \in s : TRUE) + g[s \ {CHOOSE x \in s : TRUE}]]
<1>2. MapThenSumSet(Around, S) = iter[S]
  BY DEF MapThenSumSet, MapThenFoldSet
<1>3. ChosenFrom(terms, f, S)
  <2>1. \A i \in S : f[i] = Around(i)
    BY <1>1 DEF AroundList
  <2>2. \A s \in SUBSET S : s # {} => (CHOOSE x \in s : TRUE) \in S
    OBVIOUS
  <2> QED BY <2>1, <2>2 DEF ChosenFrom
<1>4. \A g : SumsBy(g, terms, S) <=>
         g = [s \in SUBSET S |->
               IF s = {} THEN 0 ELSE Around(CHOOSE x \in s : TRUE) + g[s \ {CHOOSE x \in s : TRUE}]]
  BY DEF SumsBy
<1>5. S \in SUBSET (1 .. n)
  BY <1>1
<1> HIDE DEF terms
<1>6. (\E g : SumsBy(g, terms, S)) /\ (\A g : SumsBy(g, terms, S) => g[S] = SumFunctionOnSet(f, S))
  BY <1>1, <1>3, <1>5, SumsByChoice
<1>7. SumsBy(iter, terms, S)
  BY <1>4, <1>6
<1> HIDE DEF iter
<1> QED BY <1>1, <1>2, <1>6, <1>7

\* Their priorities.
LEMMA PrioritiesAdd ==
  ASSUME StackTypeOK, NEW S \in SUBSET (1 .. Len(kids))
  PROVE  MapThenSumSet(Priority, S) = SumFunctionOnSet(PriorityList, S)
<1>1. PICK n, f : n \in Nat /\ n = Len(kids) /\ f = PriorityList /\ Numbers(f, n)
  BY KidListsAreNumbers
<1> DEFINE terms == [s \in SUBSET S |-> Priority(CHOOSE x \in s : TRUE)]
           iter == CHOOSE g : g = [s \in SUBSET S |->
             IF s = {} THEN 0 ELSE Priority(CHOOSE x \in s : TRUE) + g[s \ {CHOOSE x \in s : TRUE}]]
<1>2. MapThenSumSet(Priority, S) = iter[S]
  BY DEF MapThenSumSet, MapThenFoldSet
<1>3. ChosenFrom(terms, f, S)
  <2>1. \A i \in S : f[i] = Priority(i)
    BY <1>1 DEF PriorityList
  <2>2. \A s \in SUBSET S : s # {} => (CHOOSE x \in s : TRUE) \in S
    OBVIOUS
  <2> QED BY <2>1, <2>2 DEF ChosenFrom
<1>4. \A g : SumsBy(g, terms, S) <=>
         g = [s \in SUBSET S |->
               IF s = {} THEN 0 ELSE Priority(CHOOSE x \in s : TRUE) + g[s \ {CHOOSE x \in s : TRUE}]]
  BY DEF SumsBy
<1>5. S \in SUBSET (1 .. n)
  BY <1>1
<1> HIDE DEF terms
<1>6. (\E g : SumsBy(g, terms, S)) /\ (\A g : SumsBy(g, terms, S) => g[S] = SumFunctionOnSet(f, S))
  BY <1>1, <1>3, <1>5, SumsByChoice
<1>7. SumsBy(iter, terms, S)
  BY <1>4, <1>6
<1> HIDE DEF iter
<1> QED BY <1>1, <1>2, <1>6, <1>7

\* What they have.
LEMMA MainsAdd == \A S : Total(S) = SumFunctionOnSet(mains, S) /\ Total(S)' = SumFunctionOnSet(mains, S)'
BY DEF Total, Main, MapThenSumSet, SumFunctionOnSet, FoldFunctionOnSet, MapThenFoldSet

\* What is left when every child has what it asks for, and what is between them.
LEMMA RemainderIsRest ==
  ASSUME StackTypeOK
  PROVE  /\ Between \in Int /\ Remainder \in Int /\ stack.main * Unit \in Nat
         /\ SumFunctionOnSet(PreferredList, 1 .. Len(kids)) \in Int
         /\ Remainder = stack.main * Unit - SumFunctionOnSet(PreferredList, 1 .. Len(kids)) - Between
         /\ Between = SumFunctionOnSet(AroundList, 1 .. Len(kids)) + KidGap * (Len(kids) - 1)
         /\ KidGap \in Nat
<1>1. PICK n \in Nat \ {0} : n = Len(kids)
  BY DEF StackTypeOK
<1>2. DOMAIN kids = 1 .. n /\ 1 .. n \in SUBSET (1 .. n)
  BY <1>1, KidNumbers
<1>3. Numbers(PreferredList, n) /\ Numbers(AroundList, n)
  BY <1>1, KidListsAreNumbers
<1>4. /\ MapThenSumSet(Preferred, 1 .. n) = SumFunctionOnSet(PreferredList, 1 .. n)
      /\ MapThenSumSet(Around, 1 .. n) = SumFunctionOnSet(AroundList, 1 .. n)
  BY <1>1, <1>2, PreferredAdd, AroundAdd
<1>5. SumFunctionOnSet(PreferredList, 1 .. n) \in Int /\ SumFunctionOnSet(AroundList, 1 .. n) \in Int
  BY <1>2, <1>3, TotalIs
<1>6. PICK p, a : p = SumFunctionOnSet(PreferredList, 1 .. n) /\ a = SumFunctionOnSet(AroundList, 1 .. n)
  OBVIOUS
<1>7. PICK m \in Nat, g \in Nat, u \in Nat : m = stack.main /\ g = stack.gap /\ u = Unit
  BY UnitAssumption DEF StackTypeOK
<1>8. m * u \in Nat /\ g * u \in Nat
  OBVIOUS
<1>9. KidGap \in Nat /\ stack.main * Unit \in Nat
  BY <1>7, <1>8 DEF KidGap
<1>10. KidGap * (n - 1) \in Int
  BY <1>9
<1>11. Between = a + KidGap * (n - 1)
  BY <1>1, <1>2, <1>4, <1>6 DEF Between
<1>12. Remainder = stack.main * Unit - p - Between
  BY <1>2, <1>4, <1>6 DEF Remainder
<1> QED BY <1>1, <1>5, <1>6, <1>9, <1>10, <1>11, <1>12

\* A child comes before or after any other, and the order leads one way.
LEMMA EarlierIsOrder ==
  ASSUME StackTypeOK
  PROVE  \A i, j \in 1 .. Len(kids) :
           /\ ~Earlier(i, i)
           /\ i # j => Earlier(i, j) \/ Earlier(j, i)
           /\ Earlier(i, j) => Priority(i) <= Priority(j)
           /\ Priority(i) < Priority(j) => Earlier(i, j)
           /\ \A k \in 1 .. Len(kids) : Earlier(i, j) /\ Earlier(j, k) => Earlier(i, k)
<1>1. \A i \in 1 .. Len(kids) : Priority(i) \in Int /\ i \in Int
  BY KidNumbers
<1> QED BY <1>1 DEF Earlier

\* How many come before a child, which is where it stands.
LEMMA BeforeIs ==
  ASSUME StackTypeOK
  PROVE  /\ \A i \in 1 .. Len(kids) : Before(i) \in 0 .. Len(kids) - 1
         /\ \A i, j \in 1 .. Len(kids) : Earlier(i, j) => Before(i) < Before(j)
         /\ \A p \in 0 .. Len(kids) - 1 : \E i \in 1 .. Len(kids) : Before(i) = p
<1>1. PICK n \in Nat \ {0} : n = Len(kids) /\ DOMAIN kids = 1 .. n
  BY KidNumbers DEF StackTypeOK
<1> DEFINE E(i) == {j \in 1 .. n : Earlier(j, i)}
<1>2. IsFiniteSet(1 .. n) /\ Cardinality(1 .. n) = n
  BY FS_Interval
<1>3. ASSUME NEW i \in 1 .. n, NEW T \in SUBSET (1 .. n), i \notin T
      PROVE  IsFiniteSet(T) /\ Cardinality(T) \in 0 .. n - 1
  <2>1. IsFiniteSet(T) /\ Cardinality(T) <= n /\ (Cardinality(T) = n => T = 1 .. n)
    BY <1>2, FS_Subset
  <2>2. Cardinality(T) \in Nat
    BY <2>1, FS_CardinalityType
  <2>3. Cardinality(T) # n
    BY <1>3, <2>1
  <2> QED BY <2>1, <2>2, <2>3
<1>4. \A i : Before(i) = Cardinality(E(i))
  BY <1>1 DEF Before
<1>5. \A i \in 1 .. n : E(i) \in SUBSET (1 .. n) /\ i \notin E(i)
  BY <1>1, EarlierIsOrder
<1>6. \A i \in 1 .. n : IsFiniteSet(E(i)) /\ Before(i) \in 0 .. n - 1
  <2> HIDE DEF E
  <2> QED BY <1>3, <1>4, <1>5
<1>7. ASSUME NEW i \in 1 .. n, NEW j \in 1 .. n, Earlier(i, j) PROVE Before(i) < Before(j)
  <2>1. E(i) \in SUBSET E(j) /\ i \in E(j) /\ i \notin E(i)
    BY <1>1, <1>7, EarlierIsOrder
  <2> HIDE DEF E
  <2>2. IsFiniteSet(E(j)) /\ Before(i) \in Nat /\ Before(j) \in Nat
    BY <1>6
  <2>3. Cardinality(E(i)) <= Cardinality(E(j)) /\ (Cardinality(E(j)) = Cardinality(E(i)) => E(j) = E(i))
    BY <2>1, <2>2, FS_Subset
  <2> QED BY <1>4, <2>1, <2>2, <2>3
<1> DEFINE place == [i \in 1 .. n |-> Before(i)]
<1>8. place \in Injection(1 .. n, 0 .. n - 1)
  <2>1. place \in [1 .. n -> 0 .. n - 1]
    BY <1>6
  <2>2. ASSUME NEW i \in 1 .. n, NEW j \in 1 .. n, place[i] = place[j] PROVE i = j
    <3>0. place[i] = Before(i) /\ place[j] = Before(j)
      OBVIOUS
    <3> HIDE DEF place, E
    <3>3. Before(i) = Before(j)
      BY <2>2, <3>0
    <3>4. Before(i) \in 0 .. n - 1
      BY <1>6
    <3>1. ~(Before(i) < Before(j)) /\ ~(Before(j) < Before(i))
      BY <3>3, <3>4
    <3>2. ~Earlier(i, j) /\ ~Earlier(j, i)
      BY <1>7, <3>1
    <3> QED BY <1>1, <3>2, EarlierIsOrder
  <2> HIDE DEF place
  <2> QED BY <2>1, <2>2 DEF Injection, IsInjective
<1>9. IsFiniteSet(0 .. n - 1) /\ Cardinality(0 .. n - 1) = n
  <2>1. n - 1 \in Int /\ 0 \in Int
    OBVIOUS
  <2> QED BY <2>1, FS_Interval
<1>10. place \in Surjection(1 .. n, 0 .. n - 1)
  <2> HIDE DEF place
  <2> QED BY <1>2, <1>8, <1>9, FS_Injection
<1>11. \A p \in 0 .. n - 1 : \E i \in 1 .. n : Before(i) = p
  <2>1. \A p \in 0 .. n - 1 : \E i \in 1 .. n : place[i] = p
    BY <1>10 DEF Surjection
  <2> QED BY <2>1
<1> QED BY <1>1, <1>6, <1>7, <1>11

\* Each child stands at one position of the order, and behind the earlier ones.
Sorts(o) ==
  /\ o \in [1 .. Len(kids) -> 1 .. Len(kids)]
  /\ \A i \in 1 .. Len(kids) : \E r \in 1 .. Len(kids) : o[r] = i
  /\ \A q, r \in 1 .. Len(kids) : q < r => Earlier(o[q], o[r])

LEMMA OrderIsSorted ==
  ASSUME StackTypeOK, NEW o, o = [r \in DOMAIN kids |-> CHOOSE i \in DOMAIN kids : Before(i) = r - 1]
  PROVE  Sorts(o)
<1>1. PICK n \in Nat \ {0} : n = Len(kids) /\ DOMAIN kids = 1 .. n
  BY KidNumbers DEF StackTypeOK
<1>2. \A r \in 1 .. n : r - 1 \in 0 .. n - 1
  OBVIOUS
<1>3. \A r \in 1 .. n : o[r] \in 1 .. n /\ Before(o[r]) = r - 1
  <2>1. \A r \in 1 .. n : \E i \in 1 .. n : Before(i) = r - 1
    BY <1>1, <1>2, BeforeIs
  <2>2. \A r \in 1 .. n : o[r] = CHOOSE i \in 1 .. n : Before(i) = r - 1
    BY <1>1
  <2> QED BY <2>1, <2>2
<1>4. o \in [1 .. n -> 1 .. n]
  BY <1>1, <1>3
<1>5. ASSUME NEW i \in 1 .. n PROVE \E r \in 1 .. n : o[r] = i
  <2>1. Before(i) \in 0 .. n - 1
    BY <1>1, BeforeIs
  <2>2. PICK r \in 1 .. n : r = Before(i) + 1
    BY <2>1
  <2>3. Before(o[r]) = Before(i) /\ o[r] \in 1 .. n
    BY <1>3, <2>1, <2>2
  <2>4. ~Earlier(o[r], i) /\ ~Earlier(i, o[r])
    <3>1. ~(Before(i) < Before(i))
      BY <2>1
    <3> QED BY <1>1, <2>3, <3>1, BeforeIs
  <2>5. o[r] = i
    BY <1>1, <2>3, <2>4, EarlierIsOrder
  <2> QED BY <2>5
<1>6. ASSUME NEW q \in 1 .. n, NEW r \in 1 .. n, q < r PROVE Earlier(o[q], o[r])
  <2>1. Before(o[q]) = q - 1 /\ Before(o[r]) = r - 1 /\ o[q] \in 1 .. n /\ o[r] \in 1 .. n
    BY <1>3
  <2>2. ~(Before(o[r]) < Before(o[q])) /\ Before(o[r]) # Before(o[q])
    BY <1>6, <2>1
  <2>3. ~Earlier(o[r], o[q]) /\ o[r] # o[q]
    BY <1>1, <2>1, <2>2, BeforeIs
  <2> QED BY <1>1, <2>1, <2>3, EarlierIsOrder
<1> QED BY <1>1, <1>4, <1>5, <1>6 DEF Sorts

-----------------------------------------------------------------------------
(* Taking from one half of a group.                                        *)

\* What is taken from a number in a sum, in proportion to it.
LEMMA ShareOfHalf ==
  ASSUME NEW t \in Nat \ {0}, NEW a \in Nat, a <= t, NEW x \in Nat, (a * x) % t = 0
  PROVE  /\ x - Least((a * x) \div t, x) \in 0 .. x
         /\ t * (x - Least((a * x) \div t, x)) = (t - a) * x
<1>1. a * x \in Nat
  OBVIOUS
<1>2. (a * x) \div t \in Nat /\ t * ((a * x) \div t) = a * x
  BY <1>1, ShareFits
<1>3. PICK q \in Nat : q = (a * x) \div t /\ t * q = a * x
  BY <1>2
<1>4. t * (x - q) = (t - a) * x
  <2>1. t * (x - q) = t * x - t * q /\ (t - a) * x = t * x - a * x
    OBVIOUS
  <2> QED BY <1>3, <2>1
<1>5. (t - a) * x >= 0
  <2>1. t - a \in Nat
    OBVIOUS
  <2>2. PICK d \in Nat : d = t - a
    BY <2>1
  <2>3. d * x \in Nat
    OBVIOUS
  <2> QED BY <2>2, <2>3
<1>6. ~(x - q <= -1)
  <2>1. x - q \in Int
    OBVIOUS
  <2>2. x - q <= -1 => t * (x - q) <= -t
    BY <2>1, MultiplesApart
  <2> QED BY <1>4, <1>5, <2>2
<1>7. q <= x
  BY <1>6
<1>8. Least(q, x) = q
  BY <1>7 DEF Least
<1>9. Least((a * x) \div t, x) = q /\ q \in Nat
  BY <1>3, <1>8
<1>10. x - q \in 0 .. x
  BY <1>7
<1> QED BY <1>4, <1>9, <1>10

\* Half H of a group has f and is left with g when a is taken from it.
CutFrom(f, g, H, a) ==
  LET t == SumFunctionOnSet(f, H)
  IN \A i \in H :
       /\ a = 0 \/ t = 0 => g[i] = f[i]
       /\ a > 0 /\ t > 0 => g[i] = f[i] - Least((a * f[i]) \div t, f[i])

Even(f, H, a) ==
  LET t == SumFunctionOnSet(f, H)
  IN a > 0 /\ t > 0 => \A i \in H : (a * f[i]) % t = 0

Holding(f, n) == Numbers(f, n) /\ \A i \in 1 .. n : 0 <= f[i]

\* It is taken from all of them in proportion, and together that is what was to
\* be taken.
LEMMA HalfIsCut ==
  ASSUME NEW n \in Nat, NEW f, Holding(f, n), NEW g, Numbers(g, n), NEW H \in SUBSET (1 .. n),
         NEW a \in Nat, a <= SumFunctionOnSet(f, H), CutFrom(f, g, H, a), Even(f, H, a)
  PROVE  /\ \A i \in H : 0 <= g[i] /\ g[i] <= f[i]
         /\ SumFunctionOnSet(g, H) = SumFunctionOnSet(f, H) - a
         /\ a = 0 => \A i \in H : g[i] = f[i]
         /\ a = SumFunctionOnSet(f, H) => \A i \in H : g[i] = 0
         /\ \A i, j \in H : g[i] * f[j] = g[j] * f[i]
<1>1. Numbers(f, n) /\ \A i \in 1 .. n : f[i] \in Nat
  BY DEF Holding, Numbers
<1>2. PICK t : t = SumFunctionOnSet(f, H)
  OBVIOUS
<1>3. t \in Int
  BY <1>1, <1>2, TotalIs
<1>4. t \in Nat
  <2>1. \A i \in H : 0 <= f[i]
    BY <1>1
  <2> QED BY <1>1, <1>2, <1>3, <2>1, TotalNotNegative
<1>5. CASE a = 0 \/ t = 0
  <2>0. a = 0
    BY <1>2, <1>4, <1>5
  <2>1. \A i \in H : g[i] = f[i]
    BY <1>2, <1>5 DEF CutFrom
  <2>2. SumFunctionOnSet(g, H) = SumFunctionOnSet(f, H)
    BY <1>1, <2>1, TotalsAgree
  <2>3. ASSUME t = 0, NEW i \in H PROVE f[i] = 0
    <3>1. i \in 1 .. n /\ {i} \in SUBSET (1 .. n) /\ H \ {i} \in SUBSET (1 .. n) /\ {i} \cap (H \ {i}) = {}
          /\ {i} \cup (H \ {i}) = H
      OBVIOUS
    <3>2. SumFunctionOnSet(f, {i} \cup (H \ {i})) = SumFunctionOnSet(f, {i}) + SumFunctionOnSet(f, H \ {i})
      BY <1>1, <3>1, TotalOfParts
    <3>3. SumFunctionOnSet(f, {i}) = f[i]
      BY <1>1, <3>1, TotalOfOne
    <3>4. 0 <= SumFunctionOnSet(f, H \ {i}) /\ SumFunctionOnSet(f, H \ {i}) \in Int
      <4>1. \A j \in H \ {i} : 0 <= f[j]
        BY <1>1
      <4> QED BY <1>1, <3>1, <4>1, TotalNotNegative, TotalIs
    <3>5. f[i] \in Nat
      BY <1>1, <3>1
    <3>6. PICK x \in Nat, r \in Int : x = f[i] /\ r = SumFunctionOnSet(f, H \ {i}) /\ 0 <= r
      BY <3>4, <3>5
    <3>7. t = x + r
      BY <1>2, <3>1, <3>2, <3>3, <3>6
    <3> QED BY <2>3, <3>6, <3>7
  <2>4. \A i \in H : f[i] \in Nat
    BY <1>1
  <2>5. a = t => \A i \in H : g[i] = 0
    BY <2>0, <2>1, <2>3
  <2>6. \A i \in H : 0 <= g[i] /\ g[i] <= f[i]
    BY <2>1, <2>4
  <2>7. \A i, j \in H : g[i] * f[j] = g[j] * f[i]
    BY <2>1, <2>4
  <2> QED BY <1>2, <1>3, <2>0, <2>1, <2>2, <2>5, <2>6, <2>7
<1>6. CASE a > 0 /\ t > 0
  <2>1. t \in Nat \ {0} /\ a <= t /\ t - a \in Int
    BY <1>2, <1>4, <1>6
  <2>2. \A i \in H : g[i] = f[i] - Least((a * f[i]) \div t, f[i]) /\ (a * f[i]) % t = 0
    BY <1>2, <1>6 DEF CutFrom, Even
  <2>3. \A i \in H : f[i] \in Nat /\ g[i] \in 0 .. f[i] /\ t * g[i] = (t - a) * f[i]
    <3> SUFFICES ASSUME NEW i \in H PROVE f[i] \in Nat /\ g[i] \in 0 .. f[i] /\ t * g[i] = (t - a) * f[i]
      OBVIOUS
    <3>1. f[i] \in Nat
      BY <1>1
    <3>2. PICK x \in Nat : x = f[i]
      BY <3>1
    <3>3. (a * x) % t = 0 /\ g[i] = x - Least((a * x) \div t, x)
      BY <2>2, <3>2
    <3>4. t \in Nat \ {0} /\ a <= t
      BY <2>1
    <3>5. /\ x - Least((a * x) \div t, x) \in 0 .. x
          /\ t * (x - Least((a * x) \div t, x)) = (t - a) * x
      BY <3>3, <3>4, ShareOfHalf
    <3> QED BY <3>1, <3>2, <3>3, <3>5
  <2>4. InProportion(g, t, f, t - a, H)
    BY <2>1, <2>3 DEF InProportion
  <2>5. Balanced(t, SumFunctionOnSet(g, H), t - a, SumFunctionOnSet(f, H))
    BY <1>1, <2>4, TotalsScale
  <2>6. SumFunctionOnSet(g, H) \in Int
    BY TotalIs
  <2>7. SumFunctionOnSet(g, H) = t - a
    <3>1. PICK s \in Int : s = SumFunctionOnSet(g, H)
      BY <2>6
    <3>2. t * s = (t - a) * t
      BY <1>2, <2>5, <3>1 DEF Balanced
    <3>3. t * s = t * (t - a)
      BY <2>1, <3>2
    <3>4. s = t - a
      BY <2>1, <3>3, Cancels
    <3> QED BY <3>1, <3>4
  <2>8. ASSUME a = t, NEW i \in H PROVE g[i] = 0
    <3>1. PICK x \in Nat, y \in Nat : x = f[i] /\ y = g[i] /\ t * y = (t - a) * x
      BY <2>3
    <3>2. t - a = 0 /\ 0 * x = 0 /\ t * 0 = 0
      BY <2>1, <2>8
    <3>3. t * y = t * 0
      BY <3>1, <3>2
    <3>4. y = 0
      BY <2>1, <3>3, Cancels
    <3> QED BY <3>1, <3>4
  <2>9. ASSUME NEW i \in H, NEW j \in H PROVE g[i] * f[j] = g[j] * f[i]
    <3>1. PICK x \in Nat, y \in Nat : x = f[i] /\ y = g[i] /\ t * y = (t - a) * x
      BY <2>3
    <3>2. PICK u \in Nat, v \in Nat : u = f[j] /\ v = g[j] /\ t * v = (t - a) * u
      BY <2>3
    <3>3. PICK d \in Int : d = t - a
      BY <2>1
    <3>4. t \in Nat \ {0} /\ t * y = d * x /\ t * v = d * u
      BY <2>1, <3>1, <3>2, <3>3
    <3>5. y * u = v * x
      BY <3>4, SharesAgree
    <3> QED BY <3>1, <3>2, <3>5
  <2> QED BY <1>2, <1>6, <2>1, <2>3, <2>7, <2>8, <2>9
<1> QED BY <1>4, <1>5, <1>6

-----------------------------------------------------------------------------
(* The invariant of a stack.                                               *)

\* The children whose turn is over, and the others.
Gone == {order[r] : r \in 1 .. rank - 1}
Rest == (1 .. Len(kids)) \ Gone

\* Nothing is taken from a child while there is something left of those that
\* have to give before it, and what is taken is taken in proportion.
Fairly ==
  \A i, j \in 1 .. Len(kids) :
    /\ /\ Cut(i)
       /\ \/ Priority(j) < Priority(i)
          \/ Priority(j) = Priority(i) /\ kids[i].fixed /\ ~kids[j].fixed
       => mains[j] = 0
    /\ Remainder < 0 /\ Priority(i) = Priority(j) /\ kids[i].fixed = kids[j].fixed =>
         mains[i] * kids[j].preferred = mains[j] * kids[i].preferred

\* Whole groups have had their turn, the lowest priorities first.  What is left
\* to be taken is what the stack is too long, and something of it stays.
ShrinkOK ==
  /\ Sorts(order)
  /\ Remainder < 0
  /\ \A i \in Rest : mains[i] = Preferred(i)
  /\ \A i \in Gone : \A j \in Rest : Priority(i) < Priority(j)
  /\ deficit >= 0
  /\ deficit > 0 => \A i \in Gone : mains[i] = 0
  /\ SumFunctionOnSet(mains, 1 .. Len(kids)) > deficit
  /\ SumFunctionOnSet(mains, 1 .. Len(kids)) + Between = stack.main * Unit + deficit

\* What the children have, with what is between them, is what the stack has.
FilledOK ==
  Between <= stack.main * Unit /\ (Remainder <= 0 \/ Spacers # {} \/ Eager # {}) =>
    SumFunctionOnSet(mains, 1 .. Len(kids)) + Between = stack.main * Unit

StackInv ==
  /\ StackTypeOK /\ Fairly
  /\ \A i \in 1 .. Len(kids) : 0 <= mains[i]
  /\ phase = "share" => rank = 1 /\ \A i \in 1 .. Len(kids) : mains[i] = Preferred(i)
  /\ phase = "shrink" => ShrinkOK
  /\ phase \in {"place", "placed"} => FilledOK

\* The shares of free space and of missing space are whole.
Reduced == Least(deficit, Total(InGroup(TRUE)) + Total(InGroup(FALSE)))
StackExact ==
  /\ phase = "share" /\ Remainder > 0 /\ Spacers # {} => Remainder % Cardinality(Spacers) = 0
  /\ phase = "share" /\ Remainder > 0 /\ Spacers = {} =>
       \A i \in Eager : (Remainder * Priority(i)) % MapThenSumSet(Priority, Eager) = 0
  /\ phase = "shrink" /\ rank <= Len(kids) /\ deficit > 0 =>
       /\ Even(mains, InGroup(FALSE), Halves(Reduced).flexible)
       /\ Even(mains, InGroup(TRUE), Halves(Reduced).fixed)

-----------------------------------------------------------------------------
(* The steps of a stack.                                                   *)

\* The same number added up.
LEMMA TotalOfSame ==
  ASSUME NEW n \in Nat, NEW f, Numbers(f, n), NEW S \in SUBSET (1 .. n), NEW c \in Int, \A i \in S : f[i] = c
  PROVE  SumFunctionOnSet(f, S) = c * Cardinality(S)
<1>1. PICK sum : Tallies(sum, f, n)
  BY NumbersTally
<1>2. SumFunctionOnSet(f, S) = sum[S]
  BY <1>1, SumsOver
<1>3. sum[S] = c * Cardinality(S)
  BY <1>1, SumOfSame
<1> QED BY <1>2, <1>3

\* Nothing, however often.
LEMMA TotalOfNothing ==
  ASSUME NEW n \in Nat, NEW f, Numbers(f, n), NEW S \in SUBSET (1 .. n), \A i \in S : f[i] = 0
  PROVE  SumFunctionOnSet(f, S) = 0
<1>1. 0 \in Int /\ SumFunctionOnSet(f, S) = 0 * Cardinality(S)
  BY TotalOfSame
<1>2. Cardinality(S) \in Nat
  <2>1. IsFiniteSet(1 .. n)
    BY FS_Interval
  <2>2. IsFiniteSet(S)
    BY <2>1, FS_Subset
  <2> QED BY <2>2, FS_CardinalityType
<1> QED BY <1>1, <1>2

\* Steps leave the children and the stack alone.
LEMMA StackKept ==
  ASSUME kids' = kids, stack' = stack
  PROVE  /\ \A i : Preferred(i)' = Preferred(i) /\ Priority(i)' = Priority(i) /\ Around(i)' = Around(i)
         /\ \A i, j : Earlier(i, j)' <=> Earlier(i, j)
         /\ Spacers' = Spacers /\ Eager' = Eager /\ Between' = Between /\ Remainder' = Remainder
         /\ KidGap' = KidGap /\ PreferredList' = PreferredList /\ AroundList' = AroundList
<1>1. \A i : Preferred(i)' = Preferred(i) /\ Priority(i)' = Priority(i) /\ Around(i)' = Around(i)
  BY DEF Preferred, Priority, Around
<1>2. Spacers' = Spacers /\ Eager' = Eager /\ KidGap' = KidGap
  BY DEF Spacers, Eager, KidGap
<1>3. Between' = Between
  BY <1>2 DEF Between, Around, MapThenSumSet, MapThenFoldSet
<1>4. Remainder' = Remainder
  BY <1>3 DEF Remainder, Preferred, MapThenSumSet, MapThenFoldSet
<1> QED BY <1>1, <1>2, <1>3, <1>4 DEF Earlier, PreferredList, AroundList

\* Types after a step.
LEMMA StackTypeKept ==
  ASSUME StackTypeOK, kids' = kids, stack' = stack, phase' \in {"share", "shrink", "place", "placed"},
         Numbers(mains', Len(kids)), rank' \in Nat \ {0}, deficit' \in Int
  PROVE  StackTypeOK'
BY DEF StackTypeOK, Numbers

\* While nobody is cut nothing is unfair.
LEMMA NobodyCut ==
  ASSUME StackTypeOK, \A i \in 1 .. Len(kids) : mains[i] \in Int /\ Preferred(i) <= mains[i],
         Remainder < 0 => \A i \in 1 .. Len(kids) : mains[i] = Preferred(i)
  PROVE  Fairly
<1>1. ASSUME NEW i \in 1 .. Len(kids) PROVE ~Cut(i)
  <2>1. Preferred(i) \in Int /\ mains[i] \in Int /\ Preferred(i) <= mains[i]
    BY KidNumbers
  <2> QED BY <2>1 DEF Cut
<1>2. ASSUME Remainder < 0, NEW i \in 1 .. Len(kids), NEW j \in 1 .. Len(kids)
      PROVE  mains[i] * kids[j].preferred = mains[j] * kids[i].preferred
  <2>1. PICK x \in Nat, y \in Nat, u \in Nat : x = kids[i].preferred /\ y = kids[j].preferred /\ u = Unit
    BY KidNumbers, UnitAssumption
  <2>2. mains[i] = x * u /\ mains[j] = y * u
    BY <1>2, <2>1 DEF Preferred
  <2>3. (x * u) * y = (y * u) * x
    OBVIOUS
  <2> QED BY <2>1, <2>2, <2>3
<1> QED BY <1>1, <1>2 DEF Fairly

\* The same after a step in which space was handed out.
LEMMA RaisedIsFair ==
  ASSUME StackTypeOK, kids' = kids, stack' = stack, Remainder >= 0,
         \A i \in 1 .. Len(kids) : mains'[i] \in Int /\ Preferred(i) <= mains'[i]
  PROVE  Fairly'
<1>1. ASSUME NEW i \in 1 .. Len(kids) PROVE ~Cut(i)'
  <2>1. Preferred(i) \in Int /\ Preferred(i)' = Preferred(i)
    BY KidNumbers, StackKept
  <2> QED BY <2>1 DEF Cut
<1>2. ~(Remainder' < 0) /\ Remainder' = Remainder
  <2>1. Remainder' = Remainder /\ Remainder \in Int
    BY StackKept, RemainderIsRest
  <2> QED BY <2>1
<1> QED BY <1>1, <1>2 DEF Fairly

LEMMA StackInvInit == StackInit => StackInv
<1> SUFFICES ASSUME StackInit PROVE StackInv
  OBVIOUS
<1>1. PICK n \in 1 .. MaxKids : kids \in [1 .. n -> Kids]
  BY DEF StackInit
<1>2. n \in Nat \ {0}
  BY <1>1, StackAssumption
<1>3. Len(kids) = n /\ DOMAIN kids = 1 .. n
  <2>1. kids \in Seq(Kids)
    BY <1>1, <1>2
  <2> QED BY <1>1, <1>2, <2>1
<1>4. stack \in [main : Nat, gap : Nat, height : Nat, baseline : BOOLEAN]
  BY StackAssumption DEF StackInit, Stacks
<1>5. ASSUME NEW i \in 1 .. n PROVE mains[i] = Preferred(i) /\ mains[i] \in Nat
  <2>1. kids[i] \in Kids
    BY <1>1
  <2>2. kids[i].preferred \in Nat
    BY <2>1, StackAssumption
  <2>3. kids[i].preferred * Unit \in Nat
    BY <2>2, UnitAssumption
  <2> QED BY <1>3, <2>3 DEF StackInit, Preferred
<1>6. Numbers(mains, n)
  <2>1. mains = [i \in 1 .. n |-> mains[i]]
    BY <1>3 DEF StackInit
  <2>2. \A i \in 1 .. n : mains[i] \in Int
    BY <1>5
  <2> QED BY <1>2, <2>1, <2>2 DEF Numbers
<1>7. StackTypeOK
  BY <1>1, <1>2, <1>3, <1>4, <1>6 DEF StackTypeOK, StackInit
<1>8. Fairly
  BY <1>3, <1>5, <1>7, NobodyCut
<1>9. phase = "share" /\ rank = 1
  BY DEF StackInit
<1>10. \A i \in 1 .. n : 0 <= mains[i]
  BY <1>5
<1> QED BY <1>3, <1>5, <1>7, <1>8, <1>9, <1>10 DEF StackInv

\* What the invariant says where the sharing begins.
LEMMA AtShare ==
  ASSUME StackInv, phase = "share"
  PROVE  /\ StackTypeOK /\ rank = 1 /\ \A i \in 1 .. Len(kids) : mains[i] = Preferred(i) /\ mains[i] \in Nat
         /\ SumFunctionOnSet(mains, 1 .. Len(kids)) = SumFunctionOnSet(PreferredList, 1 .. Len(kids))
<1>1. StackTypeOK /\ rank = 1 /\ \A i \in 1 .. Len(kids) : mains[i] = Preferred(i)
  BY DEF StackInv
<1>2. PICK n, f, g : n \in Nat /\ n = Len(kids) /\ f = mains /\ g = PreferredList /\ Numbers(f, n) /\ Numbers(g, n)
  BY <1>1, KidListsAreNumbers
<1>3. \A i \in 1 .. n : f[i] = g[i]
  BY <1>1, <1>2 DEF PreferredList
<1>4. SumFunctionOnSet(f, 1 .. n) = SumFunctionOnSet(g, 1 .. n)
  BY <1>2, <1>3, TotalsAgree
<1> QED BY <1>1, <1>2, <1>4, KidNumbers

LEMMA KeepSizesKeeps == ASSUME StackInv, KeepSizes PROVE StackInv'
<1>1. /\ phase = "share" /\ phase' = "place" /\ kids' = kids /\ stack' = stack /\ mains' = mains
      /\ rank' = rank /\ deficit' = deficit
      /\ Remainder = 0 \/ (Remainder > 0 /\ Spacers = {} /\ Eager = {})
  BY DEF KeepSizes
<1>2. /\ StackTypeOK /\ \A i \in 1 .. Len(kids) : mains[i] = Preferred(i) /\ mains[i] \in Nat
      /\ SumFunctionOnSet(mains, 1 .. Len(kids)) = SumFunctionOnSet(PreferredList, 1 .. Len(kids))
  BY <1>1, AtShare
<1>3. StackTypeOK'
  BY <1>1, <1>2 DEF StackTypeOK, Numbers
<1>4. Remainder >= 0 /\ Remainder \in Int
  <2>1. Remainder \in Int
    BY <1>2, RemainderIsRest
  <2> QED BY <1>1, <2>1
<1>5. Fairly'
  <2>1. \A i \in 1 .. Len(kids) : mains'[i] \in Int /\ Preferred(i) <= mains'[i]
    BY <1>1, <1>2
  <2> QED BY <1>1, <1>2, <1>4, <2>1, RaisedIsFair
<1>6. FilledOK'
  <2>1. /\ Between \in Int /\ Remainder \in Int /\ stack.main * Unit \in Nat
        /\ SumFunctionOnSet(PreferredList, 1 .. Len(kids)) \in Int
        /\ Remainder = stack.main * Unit - SumFunctionOnSet(PreferredList, 1 .. Len(kids)) - Between
    BY <1>2, RemainderIsRest
  <2>2. Remainder' = Remainder /\ Between' = Between /\ Spacers' = Spacers /\ Eager' = Eager
    BY <1>1, StackKept
  <2>3. Remainder = 0 => SumFunctionOnSet(mains, 1 .. Len(kids)) + Between = stack.main * Unit
    BY <1>2, <2>1
  <2>4. Remainder <= 0 \/ Spacers # {} \/ Eager # {} => Remainder = 0
    BY <1>1, <1>4
  <2>5. /\ SumFunctionOnSet(mains, 1 .. Len(kids))' = SumFunctionOnSet(mains, 1 .. Len(kids))
        /\ (stack.main * Unit)' = stack.main * Unit
    BY <1>1
  <2> QED BY <2>2, <2>3, <2>4, <2>5 DEF FilledOK
<1>7. \A i \in 1 .. Len(kids)' : 0 <= mains'[i]
  BY <1>1, <1>2
<1> QED BY <1>1, <1>3, <1>5, <1>6, <1>7 DEF StackInv

LEMMA ShrinkToNothingKeeps == ASSUME StackInv, ShrinkToNothing PROVE StackInv'
<1>1. /\ phase = "share" /\ phase' = "place" /\ kids' = kids /\ stack' = stack
      /\ mains' = [i \in DOMAIN kids |-> 0]
      /\ rank' = rank /\ deficit' = deficit /\ Remainder < 0 /\ -Remainder >= Shrinkable
  BY DEF ShrinkToNothing
<1>2. /\ StackTypeOK
      /\ SumFunctionOnSet(mains, 1 .. Len(kids)) = SumFunctionOnSet(PreferredList, 1 .. Len(kids))
  BY <1>1, AtShare
<1>3. PICK n \in Nat \ {0} : n = Len(kids) /\ DOMAIN kids = 1 .. n
  BY <1>2, KidNumbers DEF StackTypeOK
<1>4. Numbers(mains', n) /\ \A i \in 1 .. n : mains'[i] = 0
  BY <1>1, <1>3 DEF Numbers
<1>5. StackTypeOK'
  <2>1. rank' \in Nat \ {0} /\ deficit' \in Int
    BY <1>1, <1>2 DEF StackTypeOK
  <2> QED BY <1>1, <1>2, <1>3, <1>4, <2>1, StackTypeKept
<1>6. Fairly'
  <2>1. \A i \in 1 .. n : kids[i].preferred \in Nat
    BY <1>2, <1>3, KidNumbers
  <2> QED BY <1>1, <1>3, <1>4, <2>1 DEF Fairly
<1>7. SumFunctionOnSet(mains', 1 .. n) = 0
  <2>1. 1 .. n \in SUBSET (1 .. n)
    OBVIOUS
  <2> QED BY <1>4, <2>1, TotalOfNothing
<1>8. FilledOK'
  <2>1. /\ Between \in Int /\ Remainder \in Int /\ stack.main * Unit \in Nat
        /\ SumFunctionOnSet(PreferredList, 1 .. n) \in Int
        /\ Remainder = stack.main * Unit - SumFunctionOnSet(PreferredList, 1 .. n) - Between
    BY <1>2, <1>3, RemainderIsRest
  <2>2. Between' = Between
    BY <1>1, StackKept
  <2>3. Shrinkable = SumFunctionOnSet(PreferredList, 1 .. n)
    BY <1>2, <1>3, MainsAdd DEF Shrinkable, Total
  <2>4. Between <= stack.main * Unit => Between = stack.main * Unit
    BY <1>1, <2>1, <2>3
  <2>5. SumFunctionOnSet(mains, 1 .. Len(kids))' = 0
    BY <1>1, <1>3, <1>7
  <2> QED BY <1>1, <2>1, <2>2, <2>4, <2>5 DEF FilledOK
<1>9. \A i \in 1 .. Len(kids)' : 0 <= mains'[i]
  BY <1>1, <1>3, <1>4
<1> QED BY <1>1, <1>5, <1>6, <1>8, <1>9 DEF StackInv

\* The numbers f gain those of g, and get h, but only where S says.
Gaining(f, g, h, S, n) ==
  /\ Numbers(f, n) /\ Numbers(g, n) /\ Numbers(h, n) /\ S \in SUBSET (1 .. n)
  /\ \A i \in 1 .. n : h[i] = f[i] + g[i]
  /\ \A i \in (1 .. n) \ S : g[i] = 0

\* What the numbers of S gain is gained by all of them together.
LEMMA RaisedTotal ==
  ASSUME NEW n \in Nat, NEW f, NEW g, NEW h, NEW S, Gaining(f, g, h, S, n)
  PROVE  /\ SumFunctionOnSet(h, 1 .. n) = SumFunctionOnSet(f, 1 .. n) + SumFunctionOnSet(g, S)
         /\ SumFunctionOnSet(f, 1 .. n) \in Int /\ SumFunctionOnSet(g, S) \in Int
<1>0. /\ Numbers(f, n) /\ Numbers(g, n) /\ Numbers(h, n) /\ S \in SUBSET (1 .. n)
      /\ \A i \in 1 .. n : h[i] = f[i] + g[i]
      /\ \A i \in (1 .. n) \ S : g[i] = 0
  BY DEF Gaining
<1> DEFINE R == (1 .. n) \ S
<1>1. R \in SUBSET (1 .. n) /\ S \cap R = {} /\ S \cup R = 1 .. n /\ 1 .. n \in SUBSET (1 .. n)
  BY <1>0
<1>2. \A i \in R : g[i] = 0
  BY <1>0
<1> HIDE DEF R
<1>3. SumFunctionOnSet(h, 1 .. n) = SumFunctionOnSet(f, 1 .. n) + SumFunctionOnSet(g, 1 .. n)
  <2>1. \A i \in 1 .. n : h[i] = f[i] + g[i]
    BY <1>0
  <2> QED BY <1>0, <1>1, <2>1, TotalsPlus
<1>4. SumFunctionOnSet(g, S \cup R) = SumFunctionOnSet(g, S) + SumFunctionOnSet(g, R)
  BY <1>0, <1>1, TotalOfParts
<1>5. SumFunctionOnSet(g, R) = 0
  BY <1>0, <1>1, <1>2, TotalOfNothing
<1>6. SumFunctionOnSet(g, S) \in Int /\ SumFunctionOnSet(f, 1 .. n) \in Int
  BY <1>0, <1>1, TotalIs
<1>7. SumFunctionOnSet(g, 1 .. n) = SumFunctionOnSet(g, S)
  <2>1. SumFunctionOnSet(g, S \cup R) = SumFunctionOnSet(g, S)
    BY <1>4, <1>5, <1>6
  <2> QED BY <1>1, <2>1
<1> QED BY <1>3, <1>6, <1>7

\* The children gain what is left, and there is nothing more to share.
LEMMA SharingKeeps ==
  ASSUME StackInv, phase = "share", phase' = "place", kids' = kids, stack' = stack, rank' = rank, deficit' = deficit,
         Remainder > 0, NEW S \in SUBSET (1 .. Len(kids)), NEW g, Numbers(g, Len(kids)),
         \A i \in 1 .. Len(kids) : 0 <= g[i], \A i \in (1 .. Len(kids)) \ S : g[i] = 0,
         mains' = [i \in DOMAIN kids |-> mains[i] + g[i]],
         SumFunctionOnSet(g, S) = Remainder
  PROVE  StackInv'
<1>1. /\ StackTypeOK /\ \A i \in 1 .. Len(kids) : mains[i] = Preferred(i) /\ mains[i] \in Nat
      /\ SumFunctionOnSet(mains, 1 .. Len(kids)) = SumFunctionOnSet(PreferredList, 1 .. Len(kids))
  BY AtShare
<1>2. PICK n \in Nat \ {0} : n = Len(kids) /\ DOMAIN kids = 1 .. n
  BY <1>1, KidNumbers DEF StackTypeOK
<1>3. \A i \in 1 .. n : g[i] \in Int /\ 0 <= g[i]
  BY <1>2 DEF Numbers
<1>4. \A i \in 1 .. n : mains'[i] = mains[i] + g[i] /\ mains'[i] \in Int /\ mains[i] <= mains'[i] /\ 0 <= mains'[i]
  BY <1>1, <1>2, <1>3
<1>5. Numbers(mains', n) /\ Numbers(mains, n) /\ Numbers(g, n)
  <2>1. mains' = [i \in 1 .. n |-> mains'[i]]
    BY <1>2
  <2> QED BY <1>1, <1>2, <1>4, <2>1 DEF Numbers, StackTypeOK
<1>6. StackTypeOK'
  <2>1. rank' \in Nat \ {0} /\ deficit' \in Int
    BY <1>1 DEF StackTypeOK
  <2> QED BY <1>1, <1>2, <1>5, <2>1, StackTypeKept
<1>7. Fairly'
  <2>1. \A i \in 1 .. Len(kids) : mains'[i] \in Int /\ Preferred(i) <= mains'[i]
    BY <1>1, <1>2, <1>4
  <2>2. Remainder >= 0
    <3>1. Remainder \in Int
      BY <1>1, RemainderIsRest
    <3> QED BY <3>1
  <2> QED BY <1>1, <2>1, <2>2, RaisedIsFair
<1>8. SumFunctionOnSet(mains', 1 .. n) = SumFunctionOnSet(mains, 1 .. n) + SumFunctionOnSet(g, S)
  <2>1. PICK h : h = mains'
    OBVIOUS
  <2>2. /\ Numbers(h, n) /\ S \in SUBSET (1 .. n) /\ \A i \in 1 .. n : h[i] = mains[i] + g[i]
        /\ \A i \in (1 .. n) \ S : g[i] = 0
    BY <1>2, <1>4, <1>5, <2>1
  <2>4. PICK f : f = mains
    OBVIOUS
  <2>5. Numbers(f, n) /\ \A i \in 1 .. n : h[i] = f[i] + g[i]
    BY <1>5, <2>2, <2>4
  <2>6. SumFunctionOnSet(h, 1 .. n) = SumFunctionOnSet(f, 1 .. n) + SumFunctionOnSet(g, S)
    <3>1. Gaining(f, g, h, S, n)
      BY <1>5, <2>2, <2>5 DEF Gaining
    <3> QED BY <3>1, RaisedTotal
  <2>3. SumFunctionOnSet(h, 1 .. n) = SumFunctionOnSet(mains, 1 .. n) + SumFunctionOnSet(g, S)
    BY <2>4, <2>6
  <2> QED BY <2>1, <2>3
<1>9. FilledOK'
  <2>1. /\ Between \in Int /\ Remainder \in Int /\ stack.main * Unit \in Nat
        /\ SumFunctionOnSet(PreferredList, 1 .. n) \in Int
        /\ Remainder = stack.main * Unit - SumFunctionOnSet(PreferredList, 1 .. n) - Between
    BY <1>1, <1>2, RemainderIsRest
  <2>2. Between' = Between
    BY StackKept
  <2>3. SumFunctionOnSet(mains', 1 .. n) + Between = stack.main * Unit
    BY <1>1, <1>2, <1>8, <2>1
  <2>4. SumFunctionOnSet(mains, 1 .. Len(kids))' = SumFunctionOnSet(mains', 1 .. n) /\ (stack.main * Unit)' = stack.main * Unit
    BY <1>2
  <2> QED BY <2>2, <2>3, <2>4 DEF FilledOK
<1>10. \A i \in 1 .. Len(kids)' : 0 <= mains'[i]
  BY <1>2, <1>4
<1> QED BY <1>6, <1>7, <1>9, <1>10 DEF StackInv

LEMMA ExpandSpacersKeeps == ASSUME StackInv, StackExact, ExpandSpacers PROVE StackInv'
<1>1. /\ phase = "share" /\ phase' = "place" /\ kids' = kids /\ stack' = stack
      /\ rank' = rank /\ deficit' = deficit /\ Remainder > 0 /\ Spacers # {}
      /\ mains' = [i \in DOMAIN kids |->
                 IF i \in Spacers THEN mains[i] + Remainder \div Cardinality(Spacers) ELSE mains[i]]
  BY DEF ExpandSpacers
<1>2. StackTypeOK /\ \A i \in 1 .. Len(kids) : mains[i] \in Nat
  BY <1>1, AtShare
<1>3. PICK n \in Nat \ {0} : n = Len(kids) /\ DOMAIN kids = 1 .. n
  BY <1>2, KidNumbers DEF StackTypeOK
<1>4. Spacers \in SUBSET (1 .. n)
  BY <1>3 DEF Spacers
<1>5. Cardinality(Spacers) \in Nat \ {0}
  <2>1. IsFiniteSet(1 .. n)
    BY FS_Interval
  <2>2. IsFiniteSet(Spacers)
    BY <1>4, <2>1, FS_Subset
  <2> QED BY <1>1, <2>2, FS_CardinalityType, FS_EmptySet
<1>6. PICK c \in Nat \ {0}, r \in Nat : c = Cardinality(Spacers) /\ r = Remainder /\ r % c = 0
  <2>1. Remainder \in Nat
    BY <1>1, <1>2, RemainderIsRest
  <2>2. Remainder % Cardinality(Spacers) = 0
    BY <1>1 DEF StackExact
  <2> QED BY <1>5, <2>1, <2>2
<1>7. PICK q \in Nat : q = r \div c /\ q * c = r
  <2>1. r \div c \in Nat /\ c * (r \div c) = r
    BY <1>6, ShareFits
  <2>2. PICK q \in Nat : q = r \div c /\ c * q = r
    BY <2>1
  <2>3. q * c = c * q
    OBVIOUS
  <2> QED BY <2>2, <2>3
<1> DEFINE g == [i \in 1 .. n |-> IF i \in Spacers THEN q ELSE 0]
<1>8. Numbers(g, n) /\ (\A i \in 1 .. n : 0 <= g[i]) /\ (\A i \in (1 .. n) \ Spacers : g[i] = 0)
      /\ (\A i \in Spacers : g[i] = q)
  BY <1>4 DEF Numbers
<1>9. mains' = [i \in DOMAIN kids |-> mains[i] + g[i]]
  <2>1. \A i \in DOMAIN kids : (IF i \in Spacers THEN mains[i] + Remainder \div Cardinality(Spacers) ELSE mains[i])
                               = mains[i] + g[i]
    BY <1>2, <1>3, <1>6, <1>7
  <2> QED BY <1>1, <2>1
<1> HIDE DEF g
<1>10. SumFunctionOnSet(g, Spacers) = Remainder
  <2>1. SumFunctionOnSet(g, Spacers) = q * Cardinality(Spacers)
    BY <1>4, <1>8, TotalOfSame
  <2> QED BY <1>6, <1>7, <2>1
<1> QED BY <1>1, <1>3, <1>4, <1>8, <1>9, <1>10, SharingKeeps

LEMMA ExpandPrioritiesKeeps == ASSUME StackInv, StackExact, ExpandPriorities PROVE StackInv'
<1>1. /\ phase = "share" /\ phase' = "place" /\ kids' = kids /\ stack' = stack
      /\ rank' = rank /\ deficit' = deficit /\ Remainder > 0 /\ Spacers = {} /\ Eager # {}
      /\ mains' = [i \in DOMAIN kids |->
                 IF i \in Eager
                 THEN mains[i] + (Remainder * Priority(i)) \div MapThenSumSet(Priority, Eager)
                 ELSE mains[i]]
  BY DEF ExpandPriorities
<1>2. StackTypeOK /\ \A i \in 1 .. Len(kids) : mains[i] \in Nat
  BY <1>1, AtShare
<1>3. PICK n \in Nat \ {0} : n = Len(kids) /\ DOMAIN kids = 1 .. n
  BY <1>2, KidNumbers DEF StackTypeOK
<1>4. Eager \in SUBSET (1 .. n) /\ \A i \in Eager : Priority(i) \in Nat \ {0}
  <2>1. \A i \in 1 .. n : Priority(i) \in Int
    BY <1>2, <1>3, KidNumbers
  <2> QED BY <1>3, <2>1 DEF Eager, Priority
<1>5. PICK p : p = PriorityList /\ Numbers(p, n) /\ \A i \in Eager : p[i] = Priority(i)
  BY <1>2, <1>3, <1>4, KidListsAreNumbers DEF PriorityList
<1>6. PICK w \in Nat \ {0} : w = SumFunctionOnSet(p, Eager) /\ w = MapThenSumSet(Priority, Eager)
  <2>1. Cardinality(Eager) \in Nat \ {0}
    <3>1. IsFiniteSet(1 .. n)
      BY FS_Interval
    <3>2. IsFiniteSet(Eager)
      BY <1>4, <3>1, FS_Subset
    <3> QED BY <1>1, <3>2, FS_CardinalityType, FS_EmptySet
  <2>2. 1 * Cardinality(Eager) <= SumFunctionOnSet(p, Eager)
    <3>1. \A i \in Eager : 1 <= p[i]
      BY <1>4, <1>5
    <3> QED BY <1>4, <1>5, <3>1, TotalAtLeast
  <2>3. SumFunctionOnSet(p, Eager) \in Int
    BY <1>4, <1>5, TotalIs
  <2>4. MapThenSumSet(Priority, Eager) = SumFunctionOnSet(p, Eager)
    BY <1>2, <1>3, <1>4, <1>5, PrioritiesAdd
  <2> QED BY <2>1, <2>2, <2>3, <2>4
<1>7. PICK r \in Nat : r = Remainder
  BY <1>1, <1>2, RemainderIsRest
<1> DEFINE Part(i) == (r * p[i]) \div w
<1>8. \A i \in Eager : Part(i) \in Nat /\ w * Part(i) = r * p[i]
  <2> SUFFICES ASSUME NEW i \in Eager PROVE Part(i) \in Nat /\ w * Part(i) = r * p[i]
    OBVIOUS
  <2>1. PICK x \in Nat : x = p[i]
    BY <1>4, <1>5
  <2>2. r * x \in Nat
    OBVIOUS
  <2>3. (r * x) % w = 0
    BY <1>1, <1>5, <1>6, <1>7, <2>1 DEF StackExact
  <2>4. PICK y \in Nat : y = r * x
    BY <2>2
  <2>5. y \div w \in Nat /\ w * (y \div w) = y
    BY <2>3, <2>4, ShareFits
  <2> QED BY <2>1, <2>4, <2>5
<1> DEFINE g == [i \in 1 .. n |-> IF i \in Eager THEN Part(i) ELSE 0]
<1>9. \A i \in 1 .. n : g[i] \in Nat
  <2> HIDE DEF Part
  <2> QED BY <1>8
<1>10. \A i \in Eager : g[i] = Part(i)
  <2> HIDE DEF Part
  <2> QED BY <1>4
<1>11. \A i \in (1 .. n) \ Eager : g[i] = 0
  <2> HIDE DEF Part
  <2> QED OBVIOUS
<1>12. mains' = [i \in DOMAIN kids |-> mains[i] + g[i]]
  <2>1. \A i \in Eager : (Remainder * Priority(i)) \div MapThenSumSet(Priority, Eager) = Part(i)
    BY <1>5, <1>6, <1>7
  <2> HIDE DEF Part
  <2>2. \A i \in DOMAIN kids : (IF i \in Eager
                 THEN mains[i] + (Remainder * Priority(i)) \div MapThenSumSet(Priority, Eager)
                 ELSE mains[i]) = mains[i] + g[i]
    <3> HIDE DEF g
    <3>1. \A i \in 1 .. n : mains[i] \in Nat
      BY <1>2, <1>3
    <3>2. \A i \in (1 .. n) \ Eager : mains[i] = mains[i] + g[i]
      BY <1>11, <3>1
    <3>3. \A i \in Eager : (Remainder * Priority(i)) \div MapThenSumSet(Priority, Eager) = g[i]
      BY <1>10, <2>1
    <3> QED BY <1>3, <3>2, <3>3, Zenon
  <2> HIDE DEF g
  <2> QED BY <1>1, <2>2
<1>13. Numbers(g, n)
  <2>1. g = [i \in 1 .. n |-> g[i]]
    <3> HIDE DEF Part
    <3> QED OBVIOUS
  <2> HIDE DEF g
  <2> QED BY <1>9, <2>1 DEF Numbers
<1> HIDE DEF g
<1>14. SumFunctionOnSet(g, Eager) = Remainder
  <2>1. InProportion(g, w, p, r, Eager)
    <3> HIDE DEF Part
    <3> QED BY <1>8, <1>10 DEF InProportion
  <2>2. Balanced(w, SumFunctionOnSet(g, Eager), r, SumFunctionOnSet(p, Eager))
    BY <1>4, <1>5, <1>13, <2>1, TotalsScale
  <2>3. PICK s \in Int : s = SumFunctionOnSet(g, Eager)
    BY <1>4, <1>13, TotalIs
  <2>4. w * s = r * w
    BY <1>6, <2>2, <2>3 DEF Balanced
  <2>5. w * s = w * r
    BY <2>4
  <2>6. s = r
    BY <2>5, Cancels
  <2> QED BY <1>7, <2>3, <2>6
<1>15. \A i \in 1 .. n : 0 <= g[i]
  BY <1>9
<1> QED BY <1>1, <1>3, <1>4, <1>11, <1>12, <1>13, <1>14, <1>15, SharingKeeps

\* The children are sorted.
LEMMA BeginShrinkKeeps == ASSUME StackInv, BeginShrink PROVE StackInv'
<1>1. /\ phase = "share" /\ phase' = "shrink" /\ kids' = kids /\ stack' = stack /\ mains' = mains /\ rank' = rank
      /\ order' = [r \in DOMAIN kids |-> CHOOSE i \in DOMAIN kids : Before(i) = r - 1]
      /\ deficit' = -Remainder /\ Remainder < 0 /\ -Remainder < Shrinkable
  BY DEF BeginShrink
<1>2. /\ StackTypeOK /\ rank = 1 /\ \A i \in 1 .. Len(kids) : mains[i] = Preferred(i) /\ mains[i] \in Nat
      /\ SumFunctionOnSet(mains, 1 .. Len(kids)) = SumFunctionOnSet(PreferredList, 1 .. Len(kids))
  BY <1>1, AtShare
<1>3. PICK n \in Nat \ {0} : n = Len(kids) /\ DOMAIN kids = 1 .. n
  BY <1>2, KidNumbers DEF StackTypeOK
<1>4. /\ Between \in Int /\ Remainder \in Int /\ stack.main * Unit \in Nat
      /\ SumFunctionOnSet(PreferredList, 1 .. n) \in Int
      /\ Remainder = stack.main * Unit - SumFunctionOnSet(PreferredList, 1 .. n) - Between
  BY <1>2, <1>3, RemainderIsRest
<1>5. /\ Between' = Between /\ Remainder' = Remainder
      /\ \A i : Preferred(i)' = Preferred(i) /\ Priority(i)' = Priority(i)
      /\ \A i, j : Earlier(i, j)' <=> Earlier(i, j)
  BY <1>1, StackKept
<1>6. StackTypeOK'
  <2>1. rank' \in Nat \ {0} /\ deficit' \in Int /\ Numbers(mains', Len(kids))
    BY <1>1, <1>2, <1>4 DEF StackTypeOK
  <2> QED BY <1>1, <1>2, <2>1, StackTypeKept
<1>7. Fairly'
  <2>1. Fairly
    BY DEF StackInv
  <2> QED BY <1>1, <1>5, <2>1 DEF Fairly, Cut
<1>8. Sorts(order)'
  <2>1. Sorts(order')
    BY <1>1, <1>2, OrderIsSorted
  <2> QED BY <1>1, <1>5, <2>1 DEF Sorts
<1>9. Gone' = {} /\ Rest' \in SUBSET (1 .. n)
  <2>1. 1 .. rank' - 1 = {}
    BY <1>1, <1>2
  <2> QED BY <1>1, <1>3, <2>1 DEF Gone, Rest
<1>10. Shrinkable = SumFunctionOnSet(mains, 1 .. n)
  BY <1>3, MainsAdd DEF Shrinkable, Total
<1>11. ShrinkOK'
  <2>1. \A i \in Rest' : mains'[i] = Preferred(i)'
    BY <1>1, <1>2, <1>3, <1>5, <1>9
  <2>2. deficit' >= 0 /\ Remainder' < 0
    BY <1>1, <1>4, <1>5
  <2>3. /\ SumFunctionOnSet(mains, 1 .. n) > -Remainder
        /\ SumFunctionOnSet(mains, 1 .. n) + Between = stack.main * Unit + (-Remainder)
    BY <1>1, <1>2, <1>3, <1>4, <1>10
  <2>4. /\ SumFunctionOnSet(mains, 1 .. Len(kids))' = SumFunctionOnSet(mains, 1 .. n)
        /\ (stack.main * Unit)' = stack.main * Unit
    BY <1>1, <1>3
  <2> QED BY <1>1, <1>5, <1>8, <1>9, <2>1, <2>2, <2>3, <2>4 DEF ShrinkOK
<1>12. \A i \in 1 .. Len(kids)' : 0 <= mains'[i]
  BY <1>1, <1>2
<1> QED BY <1>1, <1>6, <1>7, <1>11, <1>12 DEF StackInv

\* Nothing is missing any more.
LEMMA EndShrinkKeeps == ASSUME StackInv, EndShrink PROVE StackInv'
<1>1. /\ phase = "shrink" /\ phase' = "place" /\ kids' = kids /\ stack' = stack /\ mains' = mains /\ rank' = rank
      /\ deficit' = deficit /\ (rank > Len(kids) \/ deficit <= 0)
  BY DEF EndShrink
<1>2. StackTypeOK /\ Fairly /\ ShrinkOK /\ \A i \in 1 .. Len(kids) : 0 <= mains[i]
  BY <1>1 DEF StackInv
<1>3. PICK n \in Nat \ {0} : n = Len(kids) /\ DOMAIN kids = 1 .. n
  BY <1>2, KidNumbers DEF StackTypeOK
<1>4. Numbers(mains, n)
  BY <1>2, <1>3 DEF StackTypeOK
<1>5. deficit \in Int /\ rank \in Nat \ {0}
  BY <1>2 DEF StackTypeOK
<1>6. deficit = 0
  <2> SUFFICES ASSUME deficit > 0 PROVE FALSE
    BY <1>2, <1>5 DEF ShrinkOK
  <2>1. rank > n
    BY <1>1, <1>3, <1>5
  <2>2. \A i \in 1 .. n : mains[i] = 0
    <3>1. \A i \in 1 .. n : \E r \in 1 .. n : order[r] = i
      BY <1>2, <1>3 DEF ShrinkOK, Sorts
    <3>2. 1 .. n \subseteq 1 .. rank - 1
      BY <1>5, <2>1
    <3>3. \A i \in 1 .. n : i \in Gone
      BY <3>1, <3>2 DEF Gone
    <3> QED BY <1>2, <3>3 DEF ShrinkOK
  <2>3. SumFunctionOnSet(mains, 1 .. n) = 0
    <3>1. 1 .. n \in SUBSET (1 .. n)
      OBVIOUS
    <3> QED BY <1>4, <2>2, <3>1, TotalOfNothing
  <2> QED BY <1>2, <1>3, <1>5, <2>3 DEF ShrinkOK
<1>7. /\ Between' = Between /\ Remainder' = Remainder
      /\ \A i : Preferred(i)' = Preferred(i) /\ Priority(i)' = Priority(i)
  BY <1>1, StackKept
<1>8. StackTypeOK'
  <2>1. Numbers(mains', Len(kids))
    BY <1>1, <1>3, <1>4
  <2> QED BY <1>1, <1>2, <1>5, <2>1, StackTypeKept
<1>9. Fairly'
  BY <1>1, <1>2, <1>7 DEF Fairly, Cut
<1>10. FilledOK'
  <2>1. SumFunctionOnSet(mains, 1 .. Len(kids)) + Between = stack.main * Unit
    <3>1. stack.main * Unit \in Nat
      BY <1>2, RemainderIsRest
    <3>2. SumFunctionOnSet(mains, 1 .. Len(kids)) + Between = stack.main * Unit + deficit
      BY <1>2 DEF ShrinkOK
    <3> QED BY <1>6, <3>1, <3>2
  <2>2. /\ SumFunctionOnSet(mains, 1 .. Len(kids))' = SumFunctionOnSet(mains, 1 .. Len(kids))
        /\ (stack.main * Unit)' = stack.main * Unit
    BY <1>1
  <2> QED BY <1>7, <2>1, <2>2 DEF FilledOK
<1>11. \A i \in 1 .. Len(kids)' : 0 <= mains'[i]
  BY <1>1, <1>2
<1> QED BY <1>1, <1>8, <1>9, <1>10, <1>11 DEF StackInv

\* What placing and doing nothing leave alone.
LEMMA StackStays ==
  ASSUME StackInv, kids' = kids, stack' = stack, mains' = mains, order' = order, rank' = rank, deficit' = deficit,
         phase' = phase \/ (phase = "place" /\ phase' = "placed")
  PROVE  StackInv'
<1>1. /\ Between' = Between /\ Remainder' = Remainder /\ Spacers' = Spacers /\ Eager' = Eager
      /\ \A i : Preferred(i)' = Preferred(i) /\ Priority(i)' = Priority(i)
      /\ \A i, j : Earlier(i, j)' <=> Earlier(i, j)
  BY StackKept
<1>2. StackTypeOK'
  BY DEF StackInv, StackTypeOK, Numbers
<1>3. Fairly'
  <2>1. Fairly
    BY DEF StackInv
  <2> QED BY <1>1, <2>1 DEF Fairly, Cut
<1>4. /\ SumFunctionOnSet(mains, 1 .. Len(kids))' = SumFunctionOnSet(mains, 1 .. Len(kids))
      /\ (stack.main * Unit)' = stack.main * Unit
  OBVIOUS
<1>5. Gone' = Gone /\ Rest' = Rest
  BY DEF Gone, Rest
<1>6. ShrinkOK => ShrinkOK'
  <2>1. Sorts(order) => Sorts(order)'
    BY <1>1 DEF Sorts
  <2> QED BY <1>1, <1>4, <1>5, <2>1 DEF ShrinkOK
<1>7. FilledOK => FilledOK'
  BY <1>1, <1>4 DEF FilledOK
<1> QED BY <1>1, <1>2, <1>3, <1>6, <1>7 DEF StackInv

-----------------------------------------------------------------------------
(* A group is cut.                                                         *)

\* The children of the group whose turn it is.
Turn == {i \in Rest : Priority(i) = Priority(order[rank])}

LEMMA GroupIs ==
  ASSUME StackInv, phase = "shrink", rank <= Len(kids)
  PROVE  /\ Max(Group) \in rank .. Len(kids)
         /\ {order[r] : r \in Group} = Turn
         /\ {order[r] : r \in 1 .. Max(Group)} = Gone \cup Turn
         /\ \A i \in Rest \ Turn : Priority(order[rank]) < Priority(i)
<1>1. StackTypeOK /\ ShrinkOK
  BY DEF StackInv
<1>2. PICK n \in Nat \ {0} : n = Len(kids) /\ DOMAIN kids = 1 .. n
  BY <1>1, KidNumbers DEF StackTypeOK
<1>3. PICK k \in 1 .. n : k = rank
  BY <1>1, <1>2 DEF StackTypeOK
<1>4. /\ order \in [1 .. n -> 1 .. n]
      /\ \A i \in 1 .. n : \E r \in 1 .. n : order[r] = i
      /\ \A q, r \in 1 .. n : q < r => Earlier(order[q], order[r])
  BY <1>1, <1>2 DEF ShrinkOK, Sorts
<1>5. \A r \in 1 .. n : order[r] \in 1 .. n /\ Priority(order[r]) \in Int
  BY <1>1, <1>2, <1>4, KidNumbers
<1>6. \A q, r \in 1 .. n : q <= r => Priority(order[q]) <= Priority(order[r])
  <2> SUFFICES ASSUME NEW q \in 1 .. n, NEW r \in 1 .. n, q <= r PROVE Priority(order[q]) <= Priority(order[r])
    OBVIOUS
  <2>1. CASE q = r
    BY <1>5, <2>1
  <2>2. CASE q < r
    <3>1. Earlier(order[q], order[r]) /\ order[q] \in 1 .. n /\ order[r] \in 1 .. n
      BY <1>4, <1>5, <2>2
    <3> QED BY <1>1, <1>2, <3>1, EarlierIsOrder
  <2> QED BY <2>1, <2>2
<1>7. \A q, r \in 1 .. n : order[q] = order[r] => q = r
  <2> SUFFICES ASSUME NEW q \in 1 .. n, NEW r \in 1 .. n, order[q] = order[r], q # r PROVE FALSE
    OBVIOUS
  <2>1. ~Earlier(order[q], order[q])
    BY <1>1, <1>2, <1>5, EarlierIsOrder
  <2>2. q < r \/ r < q
    OBVIOUS
  <2> QED BY <1>4, <2>1, <2>2
<1>8. Gone = {order[r] : r \in 1 .. k - 1}
  BY <1>3 DEF Gone
<1>9. \A i : i \in Rest <=> \E r \in k .. n : order[r] = i
  <2>1. ASSUME NEW i \in Rest PROVE \E r \in k .. n : order[r] = i
    <3>1. i \in 1 .. n /\ i \notin Gone
      BY <1>2 DEF Rest
    <3>2. PICK r \in 1 .. n : order[r] = i
      BY <1>4, <3>1
    <3>3. r \notin 1 .. k - 1
      BY <1>8, <3>1, <3>2
    <3> QED BY <3>2, <3>3
  <2>2. ASSUME NEW r \in k .. n PROVE order[r] \in Rest
    <3>1. r \in 1 .. n /\ order[r] \in 1 .. n
      BY <1>5
    <3>2. ASSUME order[r] \in Gone PROVE FALSE
      <4>1. PICK q \in 1 .. k - 1 : order[q] = order[r]
        BY <1>8, <3>2
      <4>2. q \in 1 .. n /\ q # r
        OBVIOUS
      <4> QED BY <1>7, <3>1, <4>1, <4>2
    <3> QED BY <1>2, <3>1, <3>2 DEF Rest
  <2> QED BY <2>1, <2>2
<1>10. PICK p \in Int : p = Priority(order[k]) /\ p = Priority(order[rank])
  BY <1>3, <1>5
<1>11. Group = {r \in k .. n : Priority(order[r]) = p}
  <2>1. Group = {r \in k .. n : \A q \in k .. r : Priority(order[q]) = p}
    BY <1>2, <1>3, <1>10 DEF Group
  <2>2. ASSUME NEW r \in k .. n, Priority(order[r]) = p, NEW q \in k .. r PROVE Priority(order[q]) = p
    <3>1. q \in 1 .. n /\ r \in 1 .. n /\ k \in 1 .. n /\ k <= q /\ q <= r
      OBVIOUS
    <3>2. Priority(order[k]) <= Priority(order[q]) /\ Priority(order[q]) <= Priority(order[r])
      BY <1>6, <3>1
    <3> QED BY <1>5, <1>10, <2>2, <3>1, <3>2
  <2>3. \A r \in k .. n : r \in k .. r
    OBVIOUS
  <2> QED BY <2>1, <2>2, <2>3
<1>12. {order[r] : r \in Group} = Turn
  BY <1>9, <1>10, <1>11 DEF Turn
<1>13. \A i \in Rest \ Turn : p < Priority(i)
  <2> SUFFICES ASSUME NEW i \in Rest \ Turn PROVE p < Priority(i)
    OBVIOUS
  <2>1. PICK r \in k .. n : order[r] = i
    BY <1>9
  <2>2. r \in 1 .. n /\ k <= r
    OBVIOUS
  <2>3. p <= Priority(i) /\ Priority(i) \in Int
    BY <1>5, <1>6, <1>10, <2>1, <2>2
  <2>4. Priority(i) # p
    BY <1>10 DEF Turn
  <2> QED BY <2>3, <2>4
<1>14. k \in Group /\ Group \in SUBSET Int /\ \A r \in Group : r \in k .. n
  <2>1. k \in k .. n /\ Priority(order[k]) = p
    BY <1>10
  <2>2. \A r \in k .. n : r \in Int
    OBVIOUS
  <2> QED BY <1>11, <2>1, <2>2
<1>15. PICK m \in Group : \A r \in Group : r <= m
  <2>1. Group \in SUBSET (0 .. n) /\ Group # {} /\ n \in Nat
    BY <1>14
  <2> QED BY <2>1, GreatestNumber
<1>16. Max(Group) \in Group /\ \A r \in Group : r <= Max(Group)
  BY <1>14, <1>15, MaxOf
<1>17. PICK x \in k .. n : x = Max(Group) /\ x \in Group /\ \A r \in Group : r <= x
  BY <1>14, <1>16
<1>18. Group = k .. x
  <2>1. \A r \in Group : r \in k .. x
    BY <1>14, <1>17
  <2>2. ASSUME NEW r \in k .. x PROVE r \in Group
    <3>1. r \in 1 .. n /\ x \in 1 .. n /\ r \in k .. n /\ k <= r /\ r <= x /\ k \in 1 .. n
      OBVIOUS
    <3>2. Priority(order[k]) <= Priority(order[r]) /\ Priority(order[r]) <= Priority(order[x])
      BY <1>6, <3>1
    <3>3. Priority(order[x]) = p
      BY <1>11, <1>17
    <3> QED BY <1>5, <1>10, <1>11, <3>1, <3>2, <3>3
  <2> QED BY <2>1, <2>2
<1>19. {order[r] : r \in 1 .. x} = Gone \cup Turn
  <2>1. 1 .. x = (1 .. k - 1) \cup (k .. x)
    OBVIOUS
  <2> QED BY <1>8, <1>12, <1>18, <2>1
<1> QED BY <1>2, <1>3, <1>10, <1>12, <1>13, <1>17, <1>19

\* The halves of the group.
LEMMA HalvesAre ==
  ASSUME StackInv, phase = "shrink", rank <= Len(kids)
  PROVE  /\ InGroup(FALSE) = {i \in Turn : ~kids[i].fixed} /\ InGroup(TRUE) = {i \in Turn : kids[i].fixed}
         /\ InGroup(FALSE) \in SUBSET (1 .. Len(kids)) /\ InGroup(TRUE) \in SUBSET (1 .. Len(kids))
         /\ InGroup(FALSE) \cap InGroup(TRUE) = {} /\ InGroup(FALSE) \cup InGroup(TRUE) = Turn
         /\ Turn \in SUBSET (1 .. Len(kids))
<1>1. StackTypeOK
  BY DEF StackInv
<1>2. Turn \in SUBSET (1 .. Len(kids))
  BY DEF Turn, Rest
<1>3. \A i \in Turn : kids[i].fixed \in BOOLEAN
  BY <1>1, <1>2, KidNumbers
<1>4. \A fixed \in BOOLEAN : InGroup(fixed) = {i \in Turn : kids[i].fixed = fixed}
  BY GroupIs DEF InGroup
<1>5. InGroup(FALSE) = {i \in Turn : ~kids[i].fixed} /\ InGroup(TRUE) = {i \in Turn : kids[i].fixed}
  BY <1>3, <1>4
<1> QED BY <1>2, <1>5

\* What is taken from the two halves of a group.
Halved(d, x, y, reduce, a, b) == reduce = Least(d, x + y) /\ a = Least(reduce, y) /\ b = reduce - a

LEMMA HalvesTake ==
  ASSUME NEW d \in Nat, NEW x \in Nat, NEW y \in Nat, NEW reduce, NEW a, NEW b, Halved(d, x, y, reduce, a, b)
  PROVE  /\ reduce \in Nat /\ a \in Nat /\ b \in Nat /\ reduce <= d /\ a <= y /\ b <= x /\ a + b = reduce
         /\ d - reduce > 0 => a = y /\ b = x
         /\ b > 0 => a = y
BY DEF Halved, Least

LEMMA GroupIsCut ==
  ASSUME StackInv, StackExact, ShrinkGroup
  PROVE  /\ Numbers(mains', Len(kids))
         /\ \A i \in (1 .. Len(kids)) \ Turn : mains'[i] = mains[i]
         /\ \A i \in Turn : 0 <= mains'[i]
         /\ Reduced \in Nat /\ Reduced <= deficit /\ deficit' = deficit - Reduced /\ deficit \in Nat \ {0}
         /\ SumFunctionOnSet(mains, 1 .. Len(kids)) \in Int
         /\ SumFunctionOnSet(mains', 1 .. Len(kids)) = SumFunctionOnSet(mains, 1 .. Len(kids)) - Reduced
         /\ deficit' > 0 => \A i \in Turn : mains'[i] = 0
         /\ \A i, j \in Turn : kids[i].fixed /\ ~kids[j].fixed /\ mains'[i] # mains[i] => mains'[j] = 0
         /\ \A i, j \in Turn : kids[i].fixed = kids[j].fixed => mains'[i] * mains[j] = mains'[j] * mains[i]
<1> DEFINE A == InGroup(FALSE)
           B == InGroup(TRUE)
           a == Halves(Reduced).flexible
           b == Halves(Reduced).fixed
<1>1. /\ phase = "shrink" /\ rank <= Len(kids) /\ deficit > 0 /\ deficit' = deficit - Reduced
      /\ mains' = [i \in DOMAIN kids |->
          CASE i \in A /\ a > 0 /\ Total(A) > 0 -> ReducedBy(i, a, A)
            [] i \in B /\ b > 0 /\ Total(B) > 0 -> ReducedBy(i, b, B)
            [] OTHER -> mains[i]]
  BY DEF ShrinkGroup, Reduced
<1>2. StackTypeOK /\ ShrinkOK /\ \A i \in 1 .. Len(kids) : 0 <= mains[i]
  BY <1>1 DEF StackInv
<1>3. PICK n \in Nat \ {0} : n = Len(kids) /\ DOMAIN kids = 1 .. n
  BY <1>2, KidNumbers DEF StackTypeOK
<1>4. Holding(mains, n) /\ Numbers(mains, n)
  BY <1>2, <1>3 DEF Holding, StackTypeOK
<1>5. /\ A = {i \in Turn : ~kids[i].fixed} /\ B = {i \in Turn : kids[i].fixed}
      /\ A \in SUBSET (1 .. n) /\ B \in SUBSET (1 .. n) /\ A \cap B = {} /\ A \cup B = Turn /\ Turn \in SUBSET (1 .. n)
  BY <1>1, <1>3, HalvesAre
<1>6. Total(A) = SumFunctionOnSet(mains, A) /\ Total(B) = SumFunctionOnSet(mains, B)
  BY MainsAdd
<1>7. a = Least(Reduced, Total(A)) /\ b = Reduced - a /\ Reduced = Least(deficit, Total(B) + Total(A))
  BY DEF Halves, Reduced
<1>8. Even(mains, A, a) /\ Even(mains, B, b)
  BY <1>1 DEF StackExact
<1>9. deficit \in Nat \ {0}
  BY <1>1, <1>2 DEF StackTypeOK
<1> HIDE DEF A, B, a, b
<1>10. PICK x \in Nat, y \in Nat : x = SumFunctionOnSet(mains, B) /\ y = SumFunctionOnSet(mains, A)
  <2>1. \A S \in SUBSET (1 .. n) : SumFunctionOnSet(mains, S) \in Int
    BY <1>4, TotalIs
  <2>2. (\A i \in A : 0 <= mains[i]) /\ (\A i \in B : 0 <= mains[i])
    BY <1>2, <1>3, <1>5
  <2>3. 0 <= SumFunctionOnSet(mains, A) /\ 0 <= SumFunctionOnSet(mains, B)
    BY <1>4, <1>5, <2>2, TotalNotNegative
  <2>4. SumFunctionOnSet(mains, A) \in Int /\ SumFunctionOnSet(mains, B) \in Int
    BY <1>5, <2>1
  <2>5. SumFunctionOnSet(mains, A) \in Nat /\ SumFunctionOnSet(mains, B) \in Nat
    BY <2>3, <2>4
  <2> QED BY <2>5
<1>11. /\ Reduced \in Nat /\ a \in Nat /\ b \in Nat /\ Reduced <= deficit /\ a <= y /\ b <= x /\ a + b = Reduced
       /\ deficit - Reduced > 0 => a = y /\ b = x
       /\ b > 0 => a = y
  <2>1. PICK d, r, s, t : d \in Nat /\ d = deficit /\ r = Reduced /\ s = a /\ t = b
    BY <1>9
  <2>2. d \in Nat /\ Halved(d, x, y, r, s, t)
    BY <1>6, <1>7, <1>10, <2>1 DEF Halved
  <2>3. /\ r \in Nat /\ s \in Nat /\ t \in Nat /\ r <= d /\ s <= y /\ t <= x /\ s + t = r
        /\ d - r > 0 => s = y /\ t = x
        /\ t > 0 => s = y
    BY <2>2, HalvesTake
  <2> QED BY <2>1, <2>3
<1>12. /\ \A i \in A : mains'[i] = IF a > 0 /\ y > 0 THEN ReducedBy(i, a, A) ELSE mains[i]
       /\ \A i \in B : mains'[i] = IF b > 0 /\ x > 0 THEN ReducedBy(i, b, B) ELSE mains[i]
       /\ \A i \in (1 .. n) \ Turn : mains'[i] = mains[i]
  BY <1>1, <1>3, <1>5, <1>6, <1>10
<1>13. CutFrom(mains, mains', A, a)
  BY <1>6, <1>10, <1>11, <1>12 DEF CutFrom, ReducedBy
<1>14. CutFrom(mains, mains', B, b)
  BY <1>6, <1>10, <1>11, <1>12 DEF CutFrom, ReducedBy
<1>15. Numbers(mains', n)
  <2>1. mains' = [i \in 1 .. n |-> mains'[i]]
    BY <1>1, <1>3
  <2>2. ASSUME NEW S \in SUBSET (1 .. n), NEW c \in Nat, NEW t \in Nat, Total(S) = t, t > 0, NEW i \in S
        PROVE  ReducedBy(i, c, S) \in Int
    <3>1. PICK u \in Nat : u = mains[i]
      BY <1>4 DEF Holding, Numbers
    <3>2. (c * u) \div t \in Nat
      <4>1. c * u \in Nat /\ t \in Nat \ {0}
        BY <2>2
      <4> QED BY <4>1, ShareFits
    <3> QED BY <2>2, <3>1, <3>2 DEF ReducedBy, Least
  <2>3. \A i \in 1 .. n : mains[i] \in Int
    BY <1>4 DEF Numbers
  <2>4. \A i \in A : mains'[i] \in Int
    <3>1. y > 0 => \A i \in A : ReducedBy(i, a, A) \in Int
      BY <1>5, <1>6, <1>10, <1>11, <2>2
    <3> QED BY <1>5, <1>12, <2>3, <3>1
  <2>5. \A i \in B : mains'[i] \in Int
    <3>1. x > 0 => \A i \in B : ReducedBy(i, b, B) \in Int
      BY <1>5, <1>6, <1>10, <1>11, <2>2
    <3> QED BY <1>5, <1>12, <2>3, <3>1
  <2>6. \A i \in 1 .. n : mains'[i] \in Int
    BY <1>5, <1>12, <2>3, <2>4, <2>5
  <2> QED BY <2>1, <2>6 DEF Numbers
<1>16. PICK f, g : f = mains /\ g = mains'
  OBVIOUS
<1>17. Holding(f, n) /\ Numbers(f, n) /\ Numbers(g, n)
  BY <1>4, <1>15, <1>16
<1>18. /\ \A i \in A : 0 <= g[i] /\ g[i] <= f[i]
       /\ SumFunctionOnSet(g, A) = y - a
       /\ a = 0 => \A i \in A : g[i] = f[i]
       /\ a = y => \A i \in A : g[i] = 0
       /\ \A i, j \in A : g[i] * f[j] = g[j] * f[i]
  <2>1. /\ a \in Nat /\ a <= SumFunctionOnSet(f, A) /\ CutFrom(f, g, A, a) /\ Even(f, A, a)
        /\ SumFunctionOnSet(f, A) = y
    BY <1>8, <1>10, <1>11, <1>13, <1>16
  <2> QED BY <1>5, <1>17, <2>1, HalfIsCut
<1>19. /\ \A i \in B : 0 <= g[i] /\ g[i] <= f[i]
       /\ SumFunctionOnSet(g, B) = x - b
       /\ b = 0 => \A i \in B : g[i] = f[i]
       /\ b = x => \A i \in B : g[i] = 0
       /\ \A i, j \in B : g[i] * f[j] = g[j] * f[i]
  <2>1. /\ b \in Nat /\ b <= SumFunctionOnSet(f, B) /\ CutFrom(f, g, B, b) /\ Even(f, B, b)
        /\ SumFunctionOnSet(f, B) = x
    BY <1>8, <1>10, <1>11, <1>14, <1>16
  <2> QED BY <1>5, <1>17, <2>1, HalfIsCut
<1>20. SumFunctionOnSet(f, 1 .. n) \in Int /\ SumFunctionOnSet(g, 1 .. n) = SumFunctionOnSet(f, 1 .. n) - Reduced
  <2> DEFINE O == (1 .. n) \ Turn
  <2>1. /\ O \in SUBSET (1 .. n) /\ Turn \cap O = {} /\ Turn \cup O = 1 .. n /\ 1 .. n \in SUBSET (1 .. n)
        /\ \A i \in O : g[i] = f[i]
    BY <1>5, <1>12, <1>16
  <2> HIDE DEF O
  <2>2. SumFunctionOnSet(f, Turn \cup O) = SumFunctionOnSet(f, Turn) + SumFunctionOnSet(f, O)
        /\ SumFunctionOnSet(g, Turn \cup O) = SumFunctionOnSet(g, Turn) + SumFunctionOnSet(g, O)
    BY <1>5, <1>17, <2>1, TotalOfParts
  <2>3. SumFunctionOnSet(f, A \cup B) = SumFunctionOnSet(f, A) + SumFunctionOnSet(f, B)
        /\ SumFunctionOnSet(g, A \cup B) = SumFunctionOnSet(g, A) + SumFunctionOnSet(g, B)
    BY <1>5, <1>17, TotalOfParts
  <2>4. SumFunctionOnSet(f, O) = SumFunctionOnSet(g, O)
    BY <1>17, <2>1, TotalsAgree
  <2>5. SumFunctionOnSet(f, O) \in Int
    BY <1>17, <2>1, TotalIs
  <2>6. SumFunctionOnSet(f, Turn) = y + x /\ SumFunctionOnSet(g, Turn) = (y - a) + (x - b)
    BY <1>5, <1>10, <1>16, <1>18, <1>19, <2>3
  <2>7. PICK o \in Int : o = SumFunctionOnSet(f, O)
    BY <2>5
  <2>8. SumFunctionOnSet(f, 1 .. n) = y + x + o /\ SumFunctionOnSet(g, 1 .. n) = (y - a) + (x - b) + o
    BY <2>1, <2>2, <2>4, <2>6, <2>7
  <2> QED BY <1>11, <2>8
<1>21. \A i \in Turn : 0 <= g[i]
  BY <1>5, <1>18, <1>19
<1>22. deficit' > 0 => \A i \in Turn : g[i] = 0
  BY <1>1, <1>5, <1>11, <1>18, <1>19
<1>23. ASSUME NEW i \in Turn, NEW j \in Turn, kids[i].fixed, ~kids[j].fixed, g[i] # f[i] PROVE g[j] = 0
  <2>1. i \in B /\ j \in A
    BY <1>5, <1>23
  <2>2. b # 0
    BY <1>19, <1>23, <2>1
  <2>3. b > 0
    BY <1>11, <2>2
  <2> QED BY <1>11, <1>18, <2>1, <2>3
<1>24. ASSUME NEW i \in Turn, NEW j \in Turn, kids[i].fixed = kids[j].fixed PROVE g[i] * f[j] = g[j] * f[i]
  <2>1. (i \in A /\ j \in A) \/ (i \in B /\ j \in B)
    BY <1>5, <1>24
  <2> QED BY <1>18, <1>19, <2>1
<1>25. \A i \in (1 .. Len(kids)) \ Turn : mains'[i] = mains[i]
  BY <1>3, <1>12
<1>26. /\ Numbers(mains', Len(kids))
       /\ Reduced \in Nat /\ Reduced <= deficit /\ deficit' = deficit - Reduced /\ deficit \in Nat \ {0}
  BY <1>1, <1>3, <1>9, <1>11, <1>15
<1> QED BY <1>3, <1>16, <1>20, <1>21, <1>22, <1>23, <1>24, <1>25, <1>26

LEMMA ShrinkGroupKeeps == ASSUME StackInv, StackExact, ShrinkGroup PROVE StackInv'
<1>1. /\ phase = "shrink" /\ phase' = phase /\ kids' = kids /\ stack' = stack /\ order' = order
      /\ rank <= Len(kids) /\ deficit > 0 /\ rank' = Max(Group) + 1
  BY DEF ShrinkGroup
<1>2. StackTypeOK /\ Fairly /\ ShrinkOK /\ \A i \in 1 .. Len(kids) : 0 <= mains[i]
  BY <1>1 DEF StackInv
<1>3. PICK n \in Nat \ {0} : n = Len(kids) /\ DOMAIN kids = 1 .. n
  BY <1>2, KidNumbers DEF StackTypeOK
<1>4. /\ Max(Group) \in rank .. n
      /\ {order[r] : r \in 1 .. Max(Group)} = Gone \cup Turn
      /\ \A i \in Rest \ Turn : Priority(order[rank]) < Priority(i)
  BY <1>1, <1>3, GroupIs
<1>5. PICK p : p = Priority(order[rank])
  OBVIOUS
<1>6. /\ Turn = {i \in Rest : Priority(i) = p} /\ Turn \in SUBSET Rest
      /\ Rest \in SUBSET (1 .. n) /\ Rest = (1 .. n) \ Gone
  BY <1>3, <1>5 DEF Turn, Rest
<1>7. /\ Numbers(mains', n)
      /\ \A i \in (1 .. n) \ Turn : mains'[i] = mains[i]
      /\ \A i \in Turn : 0 <= mains'[i]
      /\ Reduced \in Nat /\ Reduced <= deficit /\ deficit' = deficit - Reduced /\ deficit \in Nat \ {0}
      /\ SumFunctionOnSet(mains, 1 .. n) \in Int
      /\ SumFunctionOnSet(mains', 1 .. n) = SumFunctionOnSet(mains, 1 .. n) - Reduced
  BY <1>3, GroupIsCut
<1>8. /\ deficit' > 0 => \A i \in Turn : mains'[i] = 0
      /\ \A i, j \in Turn : kids[i].fixed /\ ~kids[j].fixed /\ mains'[i] # mains[i] => mains'[j] = 0
      /\ \A i, j \in Turn : kids[i].fixed = kids[j].fixed => mains'[i] * mains[j] = mains'[j] * mains[i]
  BY GroupIsCut
<1>9. /\ Between' = Between /\ Remainder' = Remainder
      /\ \A i : Preferred(i)' = Preferred(i) /\ Priority(i)' = Priority(i)
      /\ \A i, j : Earlier(i, j)' <=> Earlier(i, j)
  BY <1>1, StackKept
<1>10. Gone' = Gone \cup Turn /\ Rest' = Rest \ Turn
  <2>1. rank' - 1 = Max(Group)
    <3>1. rank \in Int
      BY <1>2 DEF StackTypeOK
    <3>2. Max(Group) \in Int
      BY <1>4, <3>1
    <3> QED BY <1>1, <3>2
  <2>2. Gone' = {order[r] : r \in 1 .. Max(Group)}
    BY <1>1, <2>1 DEF Gone
  <2>3. Rest' = (1 .. n) \ Gone'
    BY <1>1, <1>3 DEF Rest
  <2> QED BY <1>4, <1>6, <2>2, <2>3
<1>11. StackTypeOK'
  <2>1. rank' \in Nat \ {0} /\ deficit' \in Int
    <3>1. rank \in Nat \ {0}
      BY <1>2 DEF StackTypeOK
    <3>2. Max(Group) \in Nat
      BY <1>4, <3>1
    <3> QED BY <1>1, <1>7, <3>2
  <2> QED BY <1>1, <1>2, <1>3, <1>7, <2>1, StackTypeKept
<1>12. /\ \A i \in Rest : mains[i] = Preferred(i)
       /\ \A i \in Gone : \A j \in Rest : Priority(i) < Priority(j)
       /\ \A i \in Gone : mains[i] = 0
  BY <1>2, <1>1 DEF ShrinkOK
<1>13. \A i \in 1 .. n : Priority(i) \in Int /\ Preferred(i) \in Nat /\ kids[i].preferred \in Nat
  BY <1>2, <1>3, KidNumbers
<1>14. ASSUME NEW i \in 1 .. n, NEW j \in 1 .. n, mains'[i] < Preferred(i),
              Priority(j) < Priority(i) \/ (Priority(j) = Priority(i) /\ kids[i].fixed /\ ~kids[j].fixed)
       PROVE  mains'[j] = 0
  <2>1. CASE j \in Gone
    BY <1>6, <1>7, <1>12, <2>1
  <2>2. CASE j \in Rest
    <3>1. i \notin Gone
      <4>1. i \in Gone => Priority(i) < Priority(j)
        BY <1>12, <2>2
      <4> QED BY <1>13, <1>14, <4>1
    <3>2. i \in Rest /\ mains[i] = Preferred(i) /\ Preferred(i) \in Nat
      BY <1>6, <1>12, <1>13, <3>1
    <3>3. i \in Turn /\ mains'[i] # mains[i]
      BY <1>7, <1>14, <3>2
    <3>4. j \in Turn /\ Priority(j) = Priority(i)
      <4>1. Priority(i) = p
        BY <1>6, <3>3
      <4>2. j \notin Turn => p < Priority(j)
        BY <1>4, <1>5, <2>2
      <4>3. j \in Turn => Priority(j) = p
        BY <1>6
      <4> QED BY <1>13, <1>14, <4>1, <4>2, <4>3
    <3>5. kids[i].fixed /\ ~kids[j].fixed
      BY <1>13, <1>14, <3>4
    <3> QED BY <1>8, <3>3, <3>4, <3>5
  <2> QED BY <1>6, <2>1, <2>2
<1>15. ASSUME NEW i \in 1 .. n, NEW j \in 1 .. n, Priority(i) = Priority(j), kids[i].fixed = kids[j].fixed
       PROVE  mains'[i] * kids[j].preferred = mains'[j] * kids[i].preferred
  <2>1. mains[i] * kids[j].preferred = mains[j] * kids[i].preferred
    <3>1. Remainder < 0
      BY <1>2 DEF ShrinkOK
    <3> QED BY <1>2, <1>3, <1>15, <3>1 DEF Fairly
  <2>2. CASE i \notin Turn /\ j \notin Turn
    <3>1. mains'[i] = mains[i] /\ mains'[j] = mains[j]
      BY <1>7, <2>2
    <3> QED BY <2>1, <3>1
  <2>3. CASE i \in Turn \/ j \in Turn
    <3>1. i \in Turn /\ j \in Turn
      <4>1. ASSUME NEW k \in 1 .. n, NEW l \in 1 .. n, Priority(k) = Priority(l), k \in Turn PROVE l \in Turn
        <5>1. k \in Rest /\ Priority(k) = p /\ Priority(l) = p
          BY <1>6, <4>1
        <5>2. l \notin Gone
          BY <1>12, <1>13, <4>1, <5>1
        <5> QED BY <1>6, <5>1, <5>2
      <4> QED BY <1>15, <2>3, <4>1
    <3>2. mains'[i] * mains[j] = mains'[j] * mains[i] /\ mains[i] = Preferred(i) /\ mains[j] = Preferred(j)
      BY <1>6, <1>8, <1>12, <1>15, <3>1
    <3>3. PICK x \in Int, y \in Int, u \in Nat \ {0} : x = mains'[i] /\ y = mains'[j] /\ u = Unit
      BY <1>7, UnitAssumption DEF Numbers
    <3>4. PICK s \in Nat, t \in Nat : s = kids[i].preferred /\ t = kids[j].preferred
      BY <1>13
    <3>5. x * (t * u) = y * (s * u)
      BY <3>2, <3>3, <3>4 DEF Preferred
    <3>6. x * (t * u) = u * (x * t) /\ y * (s * u) = u * (y * s) /\ x * t \in Int /\ y * s \in Int
      OBVIOUS
    <3>7. PICK v \in Int, w \in Int : v = x * t /\ w = y * s
      BY <3>6
    <3>8. u * v = u * w
      BY <3>5, <3>6, <3>7
    <3>9. v = w
      BY <3>8, Cancels
    <3> QED BY <3>3, <3>4, <3>7, <3>9
  <2> QED BY <2>2, <2>3
<1>16. Fairly'
  <2>1. \A i \in 1 .. n : Cut(i)' <=> mains'[i] < Preferred(i)
    BY <1>9 DEF Cut
  <2> QED BY <1>1, <1>3, <1>9, <1>14, <1>15, <2>1 DEF Fairly
<1>17. \A i \in 1 .. n : 0 <= mains'[i]
  BY <1>2, <1>3, <1>7
<1>18. ShrinkOK'
  <2>1. Sorts(order)'
    <3>1. Sorts(order)
      BY <1>2 DEF ShrinkOK
    <3> QED BY <1>1, <1>9, <3>1 DEF Sorts
  <2>2. \A i \in Rest' : mains'[i] = Preferred(i)'
    BY <1>6, <1>7, <1>9, <1>10, <1>12
  <2>3. \A i \in Gone' : \A j \in Rest' : Priority(i)' < Priority(j)'
    <3>1. ASSUME NEW i \in Turn, NEW j \in Rest \ Turn PROVE Priority(i) < Priority(j)
      <4>1. Priority(i) = p
        BY <1>6
      <4> QED BY <1>4, <1>5, <4>1
    <3> QED BY <1>9, <1>10, <1>12, <3>1
  <2>4. deficit' >= 0 /\ (deficit' > 0 => \A i \in Gone' : mains'[i] = 0)
    <3>1. \A i \in Gone : mains'[i] = mains[i] \/ i \notin 1 .. n
      BY <1>6, <1>7
    <3>2. \A i \in Gone : i \in 1 .. n
      <4>1. order \in [1 .. n -> 1 .. n] /\ rank - 1 \in Nat /\ rank - 1 <= n
        <5>1. order \in [1 .. n -> 1 .. n]
          BY <1>2, <1>3 DEF ShrinkOK, Sorts
        <5>2. rank \in Nat \ {0} /\ rank <= n
          BY <1>1, <1>2, <1>3 DEF StackTypeOK
        <5> QED BY <5>1, <5>2
      <4> QED BY <4>1 DEF Gone
    <3> QED BY <1>7, <1>8, <1>10, <1>12, <3>1, <3>2
  <2>5. Remainder' < 0
    BY <1>2, <1>9 DEF ShrinkOK
  <2>6. /\ SumFunctionOnSet(mains', 1 .. n) > deficit'
        /\ SumFunctionOnSet(mains', 1 .. n) + Between = stack.main * Unit + deficit'
    <3>1. /\ SumFunctionOnSet(mains, 1 .. n) > deficit
          /\ SumFunctionOnSet(mains, 1 .. n) + Between = stack.main * Unit + deficit
      BY <1>2, <1>3 DEF ShrinkOK
    <3>2. Between \in Int /\ stack.main * Unit \in Nat
      BY <1>2, RemainderIsRest
    <3> QED BY <1>7, <3>1, <3>2
  <2>7. SumFunctionOnSet(mains, 1 .. Len(kids))' = SumFunctionOnSet(mains', 1 .. n)
        /\ (stack.main * Unit)' = stack.main * Unit
    BY <1>1, <1>3
  <2> QED BY <1>9, <2>1, <2>2, <2>3, <2>4, <2>5, <2>6, <2>7 DEF ShrinkOK
<1> QED BY <1>1, <1>3, <1>11, <1>16, <1>17, <1>18 DEF StackInv

LEMMA StackInvStep == StackInv /\ StackExact /\ [StackNext]_stackVars => StackInv'
<1> SUFFICES ASSUME StackInv, StackExact, [StackNext]_stackVars PROVE StackInv'
  OBVIOUS
<1>1. CASE ExpandSpacers
  BY <1>1, ExpandSpacersKeeps
<1>2. CASE ExpandPriorities
  BY <1>2, ExpandPrioritiesKeeps
<1>3. CASE KeepSizes
  BY <1>3, KeepSizesKeeps
<1>4. CASE ShrinkToNothing
  BY <1>4, ShrinkToNothingKeeps
<1>5. CASE BeginShrink
  BY <1>5, BeginShrinkKeeps
<1>6. CASE ShrinkGroup
  BY <1>6, ShrinkGroupKeeps
<1>7. CASE EndShrink
  BY <1>7, EndShrinkKeeps
<1>8. CASE PlaceKids
  <2>1. /\ kids' = kids /\ stack' = stack /\ mains' = mains /\ order' = order /\ rank' = rank
        /\ deficit' = deficit /\ phase = "place" /\ phase' = "placed"
    BY <1>8 DEF PlaceKids
  <2> QED BY <2>1, StackStays
<1>9. CASE UNCHANGED stackVars
  <2>1. /\ kids' = kids /\ stack' = stack /\ mains' = mains /\ order' = order /\ rank' = rank
        /\ deficit' = deficit /\ phase' = phase
    BY <1>9 DEF stackVars
  <2> QED BY <2>1, StackStays
<1> QED BY <1>1, <1>2, <1>3, <1>4, <1>5, <1>6, <1>7, <1>8, <1>9 DEF StackNext

(***************************************************************************)
(* stack_shrink_sizes, for any number of children of any priorities and    *)
(* sizes, in any room: who has to give first gives all it has before the   *)
(* next one gives anything, and those that give together give in           *)
(* proportion.  The shares are whole, as StackExact says.                  *)
(***************************************************************************)
THEOREM ShrinkingStaysFair == StackSpec /\ []StackExact => []ShrinksByPriority
<1>1. StackInv => ShrinksByPriority
  <2> SUFFICES ASSUME StackInv PROVE ShrinksByPriority
    OBVIOUS
  <2>1. StackTypeOK /\ Fairly
    BY DEF StackInv
  <2>2. DOMAIN kids = 1 .. Len(kids)
    BY <2>1, KidNumbers
  <2> QED BY <2>1, <2>2 DEF Fairly, ShrinksByPriority
<1> QED BY <1>1, StackInvInit, StackInvStep, PTL DEF StackSpec

-----------------------------------------------------------------------------
(* Where the children of a stack are placed.                               *)

\* Along the stack: the margin on one side, and what a child takes with both.
KidSides == [i \in 1 .. Len(kids) |-> kids[i].margin * Unit]
KidTakes == [i \in 1 .. Len(kids) |-> mains[i] + kids[i].margin * Unit + kids[i].margin * Unit]

KidEdges ==
  CHOOSE e : e = [i \in DOMAIN kids |->
    IF i = 1
    THEN kids[1].margin * Unit
    ELSE e[i - 1] + mains[i - 1] + (kids[i - 1].margin + kids[i].margin) * Unit + KidGap]

\* The last child ends where all the children and what is between them end.
LEMMA LastKidEnds ==
  ASSUME StackTypeOK
  PROVE  /\ KidEdges[Len(kids)] + mains[Len(kids)] + kids[Len(kids)].margin * Unit =
              SumFunctionOnSet(mains, 1 .. Len(kids)) + Between
         /\ \A i \in 1 .. Len(kids) : KidEdges[i] \in Int
         /\ \A i \in 1 .. Len(kids) - 1 :
              KidEdges[i + 1] = KidEdges[i] + mains[i] + (kids[i].margin + kids[i + 1].margin) * Unit + KidGap
<1>1. PICK n \in Nat \ {0} : n = Len(kids) /\ DOMAIN kids = 1 .. n
  BY KidNumbers DEF StackTypeOK
<1>2. PICK step : step \in Nat /\ step = KidGap
  BY RemainderIsRest
<1> DEFINE join == [i \in 2 .. n |-> (kids[i - 1].margin + kids[i].margin) * Unit]
<1>3. PICK z, m, w, f : z = mains /\ m = KidSides /\ w = KidTakes /\ f = AroundList
  OBVIOUS
<1>4. \A i \in 1 .. n : /\ m[i] = kids[i].margin * Unit /\ m[i] \in Int /\ z[i] \in Int
                        /\ w[i] = z[i] + m[i] + m[i] /\ f[i] = m[i] + m[i] /\ kids[i].margin \in Nat
  <2> SUFFICES ASSUME NEW i \in 1 .. n
               PROVE  /\ m[i] = kids[i].margin * Unit /\ m[i] \in Int /\ z[i] \in Int
                      /\ w[i] = z[i] + m[i] + m[i] /\ f[i] = m[i] + m[i] /\ kids[i].margin \in Nat
    OBVIOUS
  <2>1. m[i] = kids[i].margin * Unit /\ w[i] = z[i] + m[i] + m[i] /\ f[i] = Around(i)
    BY <1>1, <1>3 DEF KidSides, KidTakes, AroundList
  <2>2. kids[i].margin * Unit \in Nat /\ Around(i) = kids[i].margin * Unit + kids[i].margin * Unit
    BY <1>1, KidNumbers
  <2>3. z[i] \in Int
    BY <1>1, <1>3 DEF StackTypeOK, Numbers
  <2>4. kids[i].margin \in Nat
    <3>1. kids[i] \in Kids
      BY <1>1 DEF StackTypeOK
    <3> QED BY <3>1, StackAssumption
  <2> QED BY <2>1, <2>2, <2>3, <2>4
<1>5. Numbers(m, n) /\ Numbers(z, n) /\ Numbers(w, n) /\ Numbers(f, n)
  <2>1. \A i \in 1 .. n : w[i] \in Int /\ f[i] \in Int
    BY <1>4
  <2>2. m = [i \in 1 .. n |-> m[i]] /\ w = [i \in 1 .. n |-> w[i]]
    BY <1>1, <1>3 DEF KidSides, KidTakes
  <2>3. Numbers(z, n) /\ Numbers(f, n)
    BY <1>1, <1>3, KidListsAreNumbers
  <2> QED BY <1>4, <2>1, <2>2, <2>3 DEF Numbers
<1>6. \A i \in 2 .. n : join[i] = m[i - 1] + m[i] /\ join[i] = (kids[i - 1].margin + kids[i].margin) * Unit
  <2> SUFFICES ASSUME NEW i \in 2 .. n
               PROVE  join[i] = m[i - 1] + m[i] /\ join[i] = (kids[i - 1].margin + kids[i].margin) * Unit
    OBVIOUS
  <2>1. i \in 1 .. n /\ i - 1 \in 1 .. n
    OBVIOUS
  <2>2. PICK x \in Nat, y \in Nat, u \in Nat : x = kids[i - 1].margin /\ y = kids[i].margin /\ u = Unit
    BY <1>4, <2>1, UnitAssumption
  <2>3. (x + y) * u = x * u + y * u
    OBVIOUS
  <2> QED BY <1>4, <2>1, <2>2, <2>3
<1> HIDE DEF join
<1>7. Taking(w, z, m, join, n)
  BY <1>4, <1>5, <1>6 DEF Taking
<1>8. /\ \E e : EdgeSteps(e, 1, n, 0 + m[1], z, join, step)
      /\ \A e : EdgeSteps(e, 1, n, 0 + m[1], z, join, step) =>
           \A i \in 1 .. 1 + n - 1 : e[i] = EndOf(0, w, 1, step, i) - z[i] - m[i]
  <2>1. 1 \in Nat \ {0} /\ n \in Nat \ {0} /\ n \in Nat /\ 1 + n <= n + 1 /\ 0 \in Int /\ step \in Int
    BY <1>2
  <2> QED BY <1>7, <2>1, EdgesAre
<1>9. \A e : EdgeSteps(e, 1, n, 0 + m[1], z, join, step) <=>
         e = [i \in DOMAIN kids |->
               IF i = 1
               THEN kids[1].margin * Unit
               ELSE e[i - 1] + mains[i - 1] + (kids[i - 1].margin + kids[i].margin) * Unit + KidGap]
  <2> DEFINE Edge(e, i) == IF i = 1 THEN 0 + m[1] ELSE e[i - 1] + z[i - 1] + join[i] + step
             Asked(e, i) == IF i = 1 THEN kids[1].margin * Unit
                            ELSE e[i - 1] + z[i - 1] + (kids[i - 1].margin + kids[i].margin) * Unit + step
  <2>1. ASSUME NEW e, NEW i \in 1 .. n PROVE Edge(e, i) = Asked(e, i)
    <3>1. i # 1 => i \in 2 .. n
      OBVIOUS
    <3>2. 0 + m[1] = kids[1].margin * Unit
      <4>1. 1 \in 1 .. n
        OBVIOUS
      <4> QED BY <1>4, <4>1
    <3> QED BY <1>6, <3>1, <3>2
  <2>2. \A e : EdgeSteps(e, 1, n, 0 + m[1], z, join, step) <=> e = [i \in 1 .. 1 + n - 1 |-> Edge(e, i)]
    BY DEF EdgeSteps
  <2>3. \A e : [i \in 1 .. 1 + n - 1 |-> Edge(e, i)] = [i \in 1 .. n |-> Edge(e, i)]
    <3>1. 1 .. 1 + n - 1 = 1 .. n
      OBVIOUS
    <3> QED BY <3>1
  <2> SUFFICES ASSUME NEW e
               PROVE  EdgeSteps(e, 1, n, 0 + m[1], z, join, step) <=>
                        e = [i \in DOMAIN kids |->
                              IF i = 1
                              THEN kids[1].margin * Unit
                              ELSE e[i - 1] + mains[i - 1] + (kids[i - 1].margin + kids[i].margin) * Unit + KidGap]
    OBVIOUS
  <2>4. PICK asked : asked =
          [i \in DOMAIN kids |->
            IF i = 1
            THEN kids[1].margin * Unit
            ELSE e[i - 1] + mains[i - 1] + (kids[i - 1].margin + kids[i].margin) * Unit + KidGap]
    OBVIOUS
  <2>5. asked = [i \in 1 .. n |-> Asked(e, i)]
    BY <1>1, <1>2, <1>3, <2>4
  <2>6. PICK taken : taken = [i \in 1 .. n |-> Edge(e, i)]
    OBVIOUS
  <2> HIDE DEF Edge, Asked
  <2>7. taken = asked
    BY <2>1, <2>5, <2>6
  <2>8. EdgeSteps(e, 1, n, 0 + m[1], z, join, step) <=> e = taken
    BY Zenon, <2>2, <2>3, <2>6
  <2> QED BY Zenon, <2>4, <2>7, <2>8
<1>10. EdgeSteps(KidEdges, 1, n, 0 + m[1], z, join, step)
  BY <1>8, <1>9 DEF KidEdges
<1>11. n \in 1 .. 1 + n - 1 /\ n \in 1 .. n
  OBVIOUS
<1>12. KidEdges[n] = EndOf(0, w, 1, step, n) - z[n] - m[n]
  BY <1>8, <1>10, <1>11
<1>13. SumFunctionOnSet(w, 1 .. n) = SumFunctionOnSet(z, 1 .. n) + SumFunctionOnSet(f, 1 .. n)
  <2>1. 1 .. n \in SUBSET (1 .. n) /\ n \in Nat
    OBVIOUS
  <2>2. \A i \in 1 .. n : w[i] = z[i] + f[i]
    BY <1>4
  <2> QED BY <1>5, <2>1, <2>2, TotalsPlus
<1>14. PICK s \in Int, t \in Int : s = SumFunctionOnSet(z, 1 .. n) /\ t = SumFunctionOnSet(f, 1 .. n)
  <2>1. 1 .. n \in SUBSET (1 .. n) /\ n \in Nat
    OBVIOUS
  <2>2. SumFunctionOnSet(z, 1 .. n) \in Int /\ SumFunctionOnSet(f, 1 .. n) \in Int
    BY <1>5, <2>1, TotalIs
  <2> QED BY <2>2
<1>15. Between = t + step * (n - 1) /\ step * (n - 1) \in Int
  <2>1. step * (n - 1) \in Int
    BY <1>2
  <2> QED BY <1>1, <1>2, <1>3, <1>14, <2>1, RemainderIsRest
<1>16. EndOf(0, w, 1, step, n) = s + Between /\ s + Between \in Int
  BY <1>13, <1>14, <1>15 DEF EndOf
<1>17. PICK x \in Int, y \in Int, b \in Int : x = z[n] /\ y = m[n] /\ b = s + Between
  BY <1>4, <1>11, <1>16
<1>18. KidEdges[n] = b - x - y
  BY <1>12, <1>16, <1>17
<1>19. KidEdges[n] + x + y = b /\ KidEdges[n] \in Int
  BY <1>18
<1>20. \A i \in 1 .. n : KidEdges[i] \in Int
  <2> SUFFICES ASSUME NEW i \in 1 .. n PROVE KidEdges[i] \in Int
    OBVIOUS
  <2>1. i \in 1 .. 1 + n - 1 /\ z[i] \in Int /\ m[i] \in Int
    BY <1>4
  <2>2. KidEdges[i] = EndOf(0, w, 1, step, i) - z[i] - m[i]
    BY <1>8, <1>10, <2>1
  <2>3. EndOf(0, w, 1, step, i) \in Int
    <3>1. SumFunctionOnSet(w, 1 .. i) \in Int
      <4>1. 1 .. i \in SUBSET (1 .. n) /\ n \in Nat
        OBVIOUS
      <4> QED BY <1>5, <4>1, TotalIs
    <3>2. step * (i - 1) \in Int
      BY <1>2
    <3> QED BY <3>1, <3>2 DEF EndOf
  <2> QED BY <2>1, <2>2, <2>3
<1>21. ASSUME NEW i \in 1 .. n - 1
       PROVE  KidEdges[i + 1] = KidEdges[i] + mains[i] + (kids[i].margin + kids[i + 1].margin) * Unit + KidGap
  <2>1. KidEdges = [j \in 1 .. n |->
                      IF j = 1
                      THEN kids[1].margin * Unit
                      ELSE KidEdges[j - 1] + mains[j - 1] + (kids[j - 1].margin + kids[j].margin) * Unit + KidGap]
    BY <1>1, <1>9, <1>10
  <2>2. i + 1 \in 1 .. n /\ i + 1 # 1 /\ (i + 1) - 1 = i
    OBVIOUS
  <2>3. KidEdges[i + 1] =
          KidEdges[(i + 1) - 1] + mains[(i + 1) - 1] + (kids[(i + 1) - 1].margin + kids[i + 1].margin) * Unit + KidGap
    BY <2>1, <2>2
  <2> QED BY <2>2, <2>3
<1> QED BY <1>1, <1>3, <1>4, <1>11, <1>14, <1>17, <1>19, <1>20, <1>21

-----------------------------------------------------------------------------
(* Across the stack.                                                       *)

\* Where a child is that has height h and stays clear of a above and b below.
KeptIn(o, want, a, b, h, room) ==
  /\ a \in Nat /\ b \in Nat /\ h \in Nat /\ room \in Nat /\ want \in Int
  /\ o = Clamp(want, a, a + AtLeastZero(room - h - a - b))

\* A child is kept within the room it has.
LEMMA ClampKeepsIn ==
  ASSUME NEW a, NEW b, NEW h, NEW room, NEW want, NEW o, KeptIn(o, want, a, b, h, room)
  PROVE  /\ o \in Int /\ a <= o
         /\ a + h + b <= room => o + h + b <= room
         /\ a + h + b <= room /\ a <= want /\ want + h + b <= room => o = want
BY DEF KeptIn, Clamp, AtLeastZero

\* The greatest of some values is one of them.
LEMMA MaxIsOne ==
  ASSUME NEW n \in Nat, NEW f, NEW S \in SUBSET (1 .. n), S # {}, \A i \in S : f[i] \in Int
  PROVE  (\E i \in S : Max({f[j] : j \in S}) = f[i]) /\ \A i \in S : f[i] <= Max({f[j] : j \in S})
<1> DEFINE V == {f[j] : j \in S}
<1>1. PICK i \in S : \A j \in S : f[j] <= f[i]
  BY GreatestValue
<1>2. V \in SUBSET Int /\ f[i] \in V /\ \A y \in V : y <= f[i]
  BY <1>1
<1>3. (\A j \in S : f[j] \in V) /\ \A y \in V : \E j \in S : y = f[j]
  OBVIOUS
<1> HIDE DEF V
<1>4. Max(V) \in V /\ \A y \in V : y <= Max(V)
  BY <1>2, MaxOf
<1>5. (\E j \in S : Max(V) = f[j]) /\ \A j \in S : f[j] <= Max(V)
  BY <1>3, <1>4
<1> QED BY <1>5 DEF V

\* The numbers of a child across the stack.
LEMMA KidHeights ==
  ASSUME StackTypeOK
  PROVE  /\ stack.height * Unit \in Nat
         /\ \A i \in 1 .. Len(kids) :
              /\ Above(i) \in Nat /\ Below(i) \in Nat /\ Height(i) \in Nat /\ Full(i) \in Nat
              /\ KidBaseline(i) \in Int
              /\ kids[i].below * Unit = Below(i)
<1>1. stack.height * Unit \in Nat
  <2>1. stack.height \in Nat /\ Unit \in Nat
    BY UnitAssumption DEF StackTypeOK
  <2> QED BY <2>1
<1> SUFFICES ASSUME NEW i \in 1 .. Len(kids)
             PROVE  /\ Above(i) \in Nat /\ Below(i) \in Nat /\ Height(i) \in Nat /\ Full(i) \in Nat
                    /\ KidBaseline(i) \in Int
                    /\ kids[i].below * Unit = Below(i)
  BY <1>1
<1>2. kids[i] \in Kids
  BY DEF StackTypeOK
<1>3. kids[i].above \in Nat /\ kids[i].below \in Nat /\ kids[i].height \in Nat /\ kids[i].kind \in {"text", "box"}
  BY <1>2, StackAssumption
<1>4. kids[i].above * Unit \in Nat /\ kids[i].below * Unit \in Nat /\ kids[i].height * Unit \in Nat
  BY <1>3, UnitAssumption
<1>5. Above(i) \in Nat /\ Below(i) \in Nat /\ kids[i].below * Unit = Below(i)
  BY <1>4 DEF Above, Below
<1>6. Full(i) \in Nat
  <2>1. \A x \in Int : AtLeastZero(x) \in Nat
    BY DEF AtLeastZero
  <2>2. stack.height * Unit - Above(i) - Below(i) \in Int
    BY <1>1, <1>5
  <2> QED BY <2>1, <2>2 DEF Full
<1>7. Height(i) \in Nat
  BY <1>4, <1>6 DEF Height
<1>8. KidBaseline(i) \in Int
  <2>1. PICK h \in Nat : h = Height(i)
    BY <1>7
  <2>2. (4 * h) \div 5 \in Int
    <3>1. PICK x \in Int : x = 4 * h
      OBVIOUS
    <3>2. 5 \in Nat \ {0}
      OBVIOUS
    <3>3. x \div 5 \in Int
      BY <3>2, DivMod
    <3> QED BY <3>1, <3>3
  <2>3. Baseline(kids[i].kind, h, 0) = IF h <= 0 THEN 0 ELSE IF kids[i].kind = "text" THEN (4 * h) \div 5 ELSE h
    BY <1>3 DEF Baseline
  <2> QED BY <2>1, <2>2, <2>3 DEF KidBaseline
<1> QED BY <1>5, <1>6, <1>7, <1>8

\* The lowest baseline is that of a child, and none is lower.
LEMMA LowestIs ==
  ASSUME StackTypeOK, Standing # {}
  PROVE  /\ Lowest \in Int /\ Standing \in SUBSET (1 .. Len(kids))
         /\ \E k \in Standing : Lowest = Above(k) + KidBaseline(k)
         /\ \A k \in Standing : Above(k) + KidBaseline(k) <= Lowest
<1>1. PICK n \in Nat \ {0} : n = Len(kids) /\ DOMAIN kids = 1 .. n
  BY KidNumbers DEF StackTypeOK
<1>2. Standing \in SUBSET (1 .. n)
  BY <1>1 DEF Standing
<1>3. PICK f : f = [i \in 1 .. n |-> Above(i) + KidBaseline(i)]
  OBVIOUS
<1>4. \A i \in 1 .. n : f[i] = Above(i) + KidBaseline(i) /\ f[i] \in Int
  BY <1>1, <1>3, KidHeights
<1>5. Lowest = Max({f[i] : i \in Standing})
  <2>1. {f[i] : i \in Standing} = {Above(i) + KidBaseline(i) : i \in Standing}
    BY <1>2, <1>4
  <2> QED BY <2>1 DEF Lowest
<1>6. PICK S : S = Standing
  OBVIOUS
<1>7. (\E i \in S : Max({f[j] : j \in S}) = f[i]) /\ \A i \in S : f[i] <= Max({f[j] : j \in S})
  <2>1. n \in Nat /\ S \in SUBSET (1 .. n) /\ S # {} /\ \A i \in S : f[i] \in Int
    BY <1>2, <1>4, <1>6
  <2> QED BY <2>1, MaxIsOne
<1>8. (\E i \in S : Lowest = f[i]) /\ \A i \in S : f[i] <= Lowest
  BY <1>5, <1>6, <1>7
<1> QED BY <1>1, <1>2, <1>4, <1>6, <1>8

\* What a child has below its baseline.
Under(i) == Below(i) + Height(i) - KidBaseline(i)

\* Every child has room for the lowest baseline.
RoomForLowest == \A i, j \in Standing : Above(i) + KidBaseline(i) + Under(j) <= stack.height * Unit

\* So the baselines meet at the lowest.
LEMMA BaselinesMeet ==
  ASSUME StackTypeOK, RoomForLowest
  PROVE  \A i \in Standing : /\ Across(i).height = Height(i)
                             /\ Across(i).offset + KidBaseline(i) = Lowest
<1> SUFFICES ASSUME NEW i \in Standing
             PROVE  /\ Across(i).height = Height(i)
                    /\ Across(i).offset + KidBaseline(i) = Lowest
  OBVIOUS
<1>1. Lowest \in Int /\ Standing \in SUBSET (1 .. Len(kids)) /\ Above(i) + KidBaseline(i) <= Lowest
  BY LowestIs
<1>2. PICK k \in Standing : Lowest = Above(k) + KidBaseline(k)
  BY LowestIs
<1>3. PICK room \in Nat, a \in Nat, b \in Nat, h \in Nat, base \in Int, l \in Int :
        /\ room = stack.height * Unit /\ a = Above(i) /\ b = Below(i) /\ h = Height(i)
        /\ base = KidBaseline(i) /\ l = Lowest
  BY <1>1, KidHeights
<1>4. PICK want, o : /\ want = l - base
                     /\ o = Clamp(want, a, a + AtLeastZero(room - h - a - b))
                     /\ Across(i).offset = o /\ Across(i).height = h
  BY <1>3 DEF Across
<1>5. a + base <= l /\ l + (b + h - base) <= room
  <2>1. Above(k) + KidBaseline(k) + Under(i) <= stack.height * Unit
    BY <1>2 DEF RoomForLowest
  <2>2. Under(i) = b + h - base
    BY <1>3 DEF Under
  <2> QED BY <1>1, <1>2, <1>3, <2>1, <2>2
<1>6. want \in Int /\ a + h + b <= room /\ a <= want /\ want + h + b <= room
  BY <1>4, <1>5
<1>7. KeptIn(o, want, a, b, h, room)
  BY <1>4, <1>6 DEF KeptIn
<1>8. o = want
  BY <1>6, <1>7, ClampKeepsIn
<1>9. o + base = l
  BY <1>4, <1>8
<1> QED BY <1>3, <1>4, <1>9

\* The end of a step that leaves the children and the stack alone.
LEMMA AcrossKept ==
  ASSUME kids' = kids, stack' = stack
  PROVE  /\ \A i : Above(i)' = Above(i) /\ Below(i)' = Below(i) /\ KidBaseline(i)' = KidBaseline(i)
         /\ Standing' = Standing /\ Spacers' = Spacers /\ Eager' = Eager
         /\ Between' = Between /\ Remainder' = Remainder
<1>1. \A i : Above(i)' = Above(i) /\ Below(i)' = Below(i)
  BY DEF Above, Below
<1>2. \A i : Full(i)' = Full(i)
  BY <1>1 DEF Full
<1>3. \A i : Height(i)' = Height(i)
  BY <1>2 DEF Height
<1>4. \A i : KidBaseline(i)' = KidBaseline(i)
  BY <1>3 DEF KidBaseline
<1>5. Spacers' = Spacers /\ Eager' = Eager /\ Between' = Between /\ Remainder' = Remainder
  BY StackKept
<1>6. Standing' = Standing
  BY <1>5 DEF Standing
<1> QED BY <1>1, <1>4, <1>5, <1>6

\* The limits of a child, and its box once it has been given its space.
LEMMA KidLimits ==
  ASSUME StackTypeOK
  PROVE  \A i \in 1 .. Len(kids) :
           \E least \in Nat, most \in Nat, low \in Nat, high \in Nat :
             /\ least = kids[i].min * Unit /\ most = kids[i].max * Unit
             /\ low = kids[i].low * Unit /\ high = kids[i].high * Unit
             /\ least <= most /\ low <= high
             /\ kids[i].height > 0 => low <= Height(i) /\ Height(i) <= high
             /\ ~(kids[i].height > 0) => Height(i) = Full(i)
<1> SUFFICES ASSUME NEW i \in 1 .. Len(kids)
             PROVE  \E least \in Nat, most \in Nat, low \in Nat, high \in Nat :
                      /\ least = kids[i].min * Unit /\ most = kids[i].max * Unit
                      /\ low = kids[i].low * Unit /\ high = kids[i].high * Unit
                      /\ least <= most /\ low <= high
                      /\ kids[i].height > 0 => low <= Height(i) /\ Height(i) <= high
                      /\ ~(kids[i].height > 0) => Height(i) = Full(i)
  OBVIOUS
<1>1. kids[i] \in Kids
  BY DEF StackTypeOK
<1>2. /\ kids[i].min \in Nat /\ kids[i].max \in Nat /\ kids[i].low \in Nat /\ kids[i].high \in Nat
      /\ kids[i].height \in Nat /\ kids[i].min <= kids[i].max /\ kids[i].low <= kids[i].high
      /\ kids[i].height > 0 => kids[i].low <= kids[i].height /\ kids[i].height <= kids[i].high
  BY <1>1, StackAssumption
<1>3. \A x \in Nat, y \in Nat : x <= y => x * Unit <= y * Unit
  <2> SUFFICES ASSUME NEW x \in Nat, NEW y \in Nat, x <= y PROVE x * Unit <= y * Unit
    OBVIOUS
  <2>1. PICK d \in Nat, u \in Nat : d = y - x /\ u = Unit
    BY UnitAssumption
  <2>2. y * u = x * u + d * u /\ d * u \in Nat /\ x * u \in Nat
    <3>1. y = x + d
      BY <2>1
    <3>2. (x + d) * u = x * u + d * u
      OBVIOUS
    <3> QED BY <3>1, <3>2
  <2> QED BY <2>1, <2>2
<1>4. \A x \in Nat : x * Unit \in Nat
  BY UnitAssumption
<1>5. kids[i].height > 0 => Height(i) = kids[i].height * Unit
  BY DEF Height
<1>6. ~(kids[i].height > 0) => Height(i) = Full(i)
  BY DEF Height
<1>7. PICK least \in Nat, most \in Nat, low \in Nat, high \in Nat, h \in Nat :
        /\ least = kids[i].min * Unit /\ most = kids[i].max * Unit
        /\ low = kids[i].low * Unit /\ high = kids[i].high * Unit
        /\ h = kids[i].height * Unit
  BY <1>2, <1>4
<1>8. least <= most /\ low <= high /\ (kids[i].height > 0 => low <= h /\ h <= high)
  BY <1>2, <1>3, <1>7
<1> QED BY <1>5, <1>6, <1>7, <1>8

\* A size within limits is left alone, one below them is raised.
LEMMA ClampIs ==
  ASSUME NEW x \in Int, NEW low \in Nat, NEW high \in Nat, low <= high
  PROVE  /\ Clamp(x, low, high) \in Nat
         /\ low <= x => Clamp(x, low, high) <= x
         /\ low <= x /\ x <= high => Clamp(x, low, high) = x
BY DEF Clamp

\* A box that fits is within the stack, its limits applied.
LEMMA BoxesAreWithin ==
  ASSUME StackTypeOK, NEW i \in 1 .. Len(kids)
  PROVE  /\ Across(i).offset \in Int /\ High(i) \in Nat
         /\ Above(i) <= Across(i).offset
         /\ High(i) + Below(i) + Above(i) <= stack.height * Unit =>
              Across(i).offset + High(i) + Below(i) <= stack.height * Unit
<1>1. PICK room \in Nat, a \in Nat, b \in Nat, h \in Nat, f \in Nat :
        /\ room = stack.height * Unit /\ a = Above(i) /\ b = Below(i) /\ h = Height(i) /\ f = Full(i)
  BY KidHeights
<1>2. PICK low \in Nat, high \in Nat :
        /\ low = kids[i].low * Unit /\ high = kids[i].high * Unit /\ low <= high
        /\ kids[i].height > 0 => low <= h /\ h <= high
        /\ ~(kids[i].height > 0) => h = f
  BY <1>1, KidLimits
<1>3. f = AtLeastZero(room - a - b)
  BY <1>1 DEF Full
<1>4. CASE i \in Standing
  <2>1. PICK want, o, c : /\ want = Lowest - KidBaseline(i)
                          /\ o = Clamp(want, a, a + AtLeastZero(room - h - a - b))
                          /\ c = Clamp(h, low, high)
                          /\ Across(i).offset = o /\ High(i) = c
    BY <1>1, <1>2, <1>4 DEF Across, High
  <2>2. want \in Int
    <3>1. Lowest \in Int
      BY <1>4, LowestIs
    <3> QED BY <2>1, <3>1, KidHeights
  <2>3. c \in Nat /\ (low <= h => c <= h) /\ (low <= h /\ h <= high => c = h)
    <3>1. h \in Int /\ low \in Nat /\ high \in Nat /\ low <= high
      BY <1>2
    <3>2. /\ Clamp(h, low, high) \in Nat
          /\ low <= h => Clamp(h, low, high) <= h
          /\ low <= h /\ h <= high => Clamp(h, low, high) = h
      BY <3>1, ClampIs
    <3>3. c = Clamp(h, low, high)
      BY <2>1
    <3> QED BY <3>2, <3>3
  <2>4. o \in Int /\ a <= o /\ o <= a + AtLeastZero(room - h - a - b)
    BY <2>1, <2>2 DEF Clamp, AtLeastZero
  <2>5. c + b + a <= room => o + c + b <= room
    <3>1. CASE kids[i].height > 0
      <4>1. c = h
        BY <1>2, <2>3, <3>1
      <4> QED BY <2>4, <4>1 DEF AtLeastZero
    <3>2. CASE ~(kids[i].height > 0)
      <4>1. o = a
        BY <1>2, <1>3, <2>4, <3>2 DEF AtLeastZero
      <4> QED BY <2>3, <4>1
    <3> QED BY <3>1, <3>2
  <2> QED BY <1>1, <2>1, <2>3, <2>4, <2>5
<1>5. CASE i \notin Standing
  <2>1. PICK c : c = Clamp(f, low, high) /\ Across(i).offset = a /\ High(i) = c
    BY <1>1, <1>2, <1>5 DEF Across, High
  <2>2. c \in Nat
    BY <1>2, <2>1, ClampIs
  <2>3. c + b + a = a + c + b
    BY <2>2
  <2> QED BY <1>1, <2>1, <2>2, <2>3
<1> QED BY <1>4, <1>5

\* Placed children fill the stack.
LEMMA PlaceKidsFills == ASSUME StackInv, PlaceKids PROVE StackIsFilled'
<1>1. StackTypeOK /\ FilledOK /\ \A i \in 1 .. Len(kids) : 0 <= mains[i]
  BY DEF StackInv, PlaceKids
<1>2. PICK n \in Nat \ {0} : n = Len(kids) /\ DOMAIN kids = 1 .. n
  BY <1>1, KidNumbers DEF StackTypeOK
<1>3. kids' = kids /\ stack' = stack /\ mains' = mains /\ edges' = KidEdges
  BY DEF PlaceKids, KidEdges
<1>4. across' = [i \in 1 .. n |-> Across(i)] /\ boxes' = [i \in 1 .. n |-> [long |-> Long(i), high |-> High(i)]]
  BY <1>2 DEF PlaceKids
<1>5. \A i \in 1 .. n : across'[i] = Across(i) /\ boxes'[i].long = Long(i) /\ boxes'[i].high = High(i)
  BY <1>4
<1>6. /\ \A i : Above(i)' = Above(i) /\ Below(i)' = Below(i) /\ KidBaseline(i)' = KidBaseline(i)
      /\ Standing' = Standing /\ Spacers' = Spacers /\ Eager' = Eager
      /\ Between' = Between /\ Remainder' = Remainder
  BY <1>3, AcrossKept
<1>7. \A i \in 1 .. n : /\ mains[i] \in Int /\ 0 <= mains[i] /\ Long(i) \in Nat
                        /\ kids[i].min * Unit <= mains[i] => Long(i) <= mains[i]
  <2> SUFFICES ASSUME NEW i \in 1 .. n
               PROVE  /\ mains[i] \in Int /\ 0 <= mains[i] /\ Long(i) \in Nat
                      /\ kids[i].min * Unit <= mains[i] => Long(i) <= mains[i]
    OBVIOUS
  <2>1. mains[i] \in Int /\ 0 <= mains[i]
    BY <1>1, <1>2 DEF StackTypeOK, Numbers
  <2>2. PICK least \in Nat, most \in Nat : least = kids[i].min * Unit /\ most = kids[i].max * Unit /\ least <= most
    BY <1>1, <1>2, KidLimits
  <2>3. Long(i) = Clamp(mains[i], least, most)
    BY <2>2 DEF Long
  <2> QED BY <2>1, <2>2, <2>3, ClampIs
<1>8. Between <= stack.main * Unit /\ (Remainder <= 0 \/ Spacers # {} \/ Eager # {}) /\ boxes'[n].long = mains[n] =>
        edges'[n] + boxes'[n].long + kids[n].margin * Unit = stack.main * Unit
  <2>1. KidEdges[n] + mains[n] + kids[n].margin * Unit =
          SumFunctionOnSet(mains, 1 .. Len(kids)) + Between
    BY <1>1, <1>2, LastKidEnds
  <2> QED BY <1>1, <1>3, <2>1 DEF FilledOK
<1>9. ASSUME NEW i \in 1 .. n - 1
      PROVE  LET begin == edges'[i + 1] - kids[i + 1].margin * Unit
                 end == edges'[i] + boxes'[i].long + kids[i].margin * Unit
             IN /\ boxes'[i].long = mains[i] => begin = end + KidGap
                /\ mains[i] >= kids[i].min * Unit => begin >= end + KidGap
  <2>1. i \in 1 .. n /\ i + 1 \in 1 .. n
    OBVIOUS
  <2>2. PICK e \in Int, f \in Int, z \in Int, c \in Nat :
          e = KidEdges[i] /\ f = KidEdges[i + 1] /\ z = mains[i] /\ c = boxes'[i].long
    BY <1>1, <1>2, <1>5, <1>7, <2>1, LastKidEnds
  <2>3. PICK x \in Nat, y \in Nat, step \in Nat :
          x = kids[i].margin * Unit /\ y = kids[i + 1].margin * Unit /\ step = KidGap
    BY <1>1, <1>2, <2>1, KidNumbers, RemainderIsRest
  <2>4. (kids[i].margin + kids[i + 1].margin) * Unit = x + y
    <3>1. kids[i] \in Kids /\ kids[i + 1] \in Kids
      BY <1>1, <1>2, <2>1 DEF StackTypeOK
    <3>2. PICK p \in Nat, q \in Nat, u \in Nat : p = kids[i].margin /\ q = kids[i + 1].margin /\ u = Unit
      BY <3>1, StackAssumption, UnitAssumption
    <3>3. (p + q) * u = p * u + q * u
      OBVIOUS
    <3> QED BY <2>3, <3>2, <3>3
  <2>5. f = e + z + (x + y) + step
    BY <1>1, <1>2, <2>2, <2>3, <2>4, LastKidEnds
  <2>6. kids[i].min * Unit <= z => c <= z
    BY <1>5, <1>7, <2>1, <2>2
  <2>7. PICK low \in Nat : low = kids[i].min * Unit
    BY <1>1, <1>2, <2>1, KidLimits
  <2>8. (c = z => f - y = e + c + x + step) /\ (z >= low => f - y >= e + c + x + step)
    BY <2>5, <2>6, <2>7
  <2> QED BY <1>3, <2>2, <2>3, <2>7, <2>8
<1>10. ASSUME NEW i \in 1 .. n,
              (across'[i].offset + boxes'[i].high + Below(i)) - (across'[i].offset - Above(i)) <= stack.height * Unit
       PROVE  /\ across'[i].offset - Above(i) >= 0
              /\ across'[i].offset + boxes'[i].high + Below(i) <= stack.height * Unit
  <2>1. /\ Across(i).offset \in Int /\ High(i) \in Nat
        /\ Above(i) <= Across(i).offset
        /\ High(i) + Below(i) + Above(i) <= stack.height * Unit =>
             Across(i).offset + High(i) + Below(i) <= stack.height * Unit
    BY <1>1, <1>2, BoxesAreWithin
  <2>2. PICK o \in Int, h \in Nat, a \in Nat, b \in Nat, room \in Nat :
          /\ o = Across(i).offset /\ h = High(i) /\ a = Above(i) /\ b = Below(i)
          /\ room = stack.height * Unit
    BY <1>1, <1>2, <2>1, KidHeights
  <2>3. (o + h + b) - (o - a) <= room
    BY <1>5, <1>10, <2>2
  <2>4. a <= o /\ (h + b + a <= room => o + h + b <= room)
    BY <2>1, <2>2
  <2>5. h + b + a <= room
    BY <2>3
  <2>6. o - a >= 0 /\ o + h + b <= room
    BY <2>4, <2>5
  <2> QED BY <1>5, <2>2, <2>6
<1>11. ASSUME \A i, j \in Standing :
                /\ boxes'[i].high = across'[i].height
                /\ Above(i) + KidBaseline(i) +
                     (kids[j].below * Unit + boxes'[j].high - Baseline(kids[j].kind, boxes'[j].high, 0))
                       <= stack.height * Unit
       PROVE  \A i, j \in Standing :
                across'[i].offset + Baseline(kids[i].kind, boxes'[i].high, 0) =
                across'[j].offset + Baseline(kids[j].kind, boxes'[j].high, 0)
  <2>1. \A i \in Standing : i \in 1 .. n
    BY <1>2 DEF Standing
  <2>2. \A i \in Standing : boxes'[i].high = Height(i)
    <3> SUFFICES ASSUME NEW i \in Standing PROVE boxes'[i].high = Height(i)
      OBVIOUS
    <3>1. across'[i] = Across(i) /\ boxes'[i].high = across'[i].height
      BY <1>5, <1>11, <2>1
    <3>2. Across(i).height = Height(i)
      BY DEF Across
    <3> QED BY <3>1, <3>2
  <2>3. \A i \in Standing : Baseline(kids[i].kind, boxes'[i].high, 0) = KidBaseline(i)
    BY <2>2 DEF KidBaseline
  <2>4. \A j \in Standing :
          kids[j].below * Unit + boxes'[j].high - Baseline(kids[j].kind, boxes'[j].high, 0) = Under(j)
    BY <1>1, <1>2, <2>1, <2>2, <2>3, KidHeights DEF Under
  <2>5. RoomForLowest
    BY <1>11, <2>4 DEF RoomForLowest
  <2>6. \A i \in Standing : Across(i).offset + KidBaseline(i) = Lowest
    BY <1>1, <2>5, BaselinesMeet
  <2>7. \A i \in Standing : across'[i].offset + Baseline(kids[i].kind, boxes'[i].high, 0) = Lowest
    BY <1>5, <2>1, <2>3, <2>6
  <2> QED BY <2>7
<1>12. Len(kids') = n /\ DOMAIN kids' = 1 .. n /\ KidGap' = KidGap
  BY <1>2, <1>3 DEF KidGap
<1>13. \A i \in 1 .. n : boxes'[i].long >= 0 /\ boxes'[i].high >= 0
  <2> SUFFICES ASSUME NEW i \in 1 .. n PROVE boxes'[i].long >= 0 /\ boxes'[i].high >= 0
    OBVIOUS
  <2>1. Long(i) \in Nat /\ High(i) \in Nat
    BY <1>1, <1>2, <1>7, BoxesAreWithin
  <2> QED BY <1>5, <2>1
<1> QED BY <1>3, <1>6, <1>8, <1>9, <1>10, <1>11, <1>12, <1>13 DEF StackIsFilled, Suits

\* Nothing is placed but by the last step, and nothing moves after it.
LEMMA StackFilledStep ==
  ASSUME StackInv, StackIsFilled, [StackNext]_stackVars
  PROVE  StackIsFilled'
<1>1. CASE PlaceKids
  BY <1>1, PlaceKidsFills
<1>2. CASE UNCHANGED stackVars
  <2>1. /\ kids' = kids /\ stack' = stack /\ mains' = mains /\ phase' = phase
        /\ edges' = edges /\ across' = across /\ boxes' = boxes
    BY <1>2 DEF stackVars
  <2>2. /\ \A i : Above(i)' = Above(i) /\ Below(i)' = Below(i) /\ KidBaseline(i)' = KidBaseline(i)
        /\ Standing' = Standing /\ Spacers' = Spacers /\ Eager' = Eager
        /\ Between' = Between /\ Remainder' = Remainder
    BY <2>1, AcrossKept
  <2>3. KidGap' = KidGap
    BY <2>1 DEF KidGap
  <2> QED BY <2>1, <2>2, <2>3 DEF StackIsFilled, Suits
<1>3. CASE ~PlaceKids /\ StackNext
  <2>1. phase' # "placed"
    BY <1>3 DEF StackNext, ExpandSpacers, ExpandPriorities, KeepSizes, ShrinkToNothing, BeginShrink,
                ShrinkGroup, EndShrink
  <2> QED BY <2>1 DEF StackIsFilled
<1> QED BY <1>1, <1>2, <1>3

(***************************************************************************)
(* stack_distribute_main_sizes, stack_shrink_sizes and                     *)
(* stack_layout_children, for any number of children with any limits: the  *)
(* boxes fill a stack somebody shares the space of to its end, unless the  *)
(* limits of the last one forbid it, follow one another, and reach into    *)
(* the next only from below their minimum; none is shorter than nothing,   *)
(* none that fits leaves the stack across it, and the baselines meet if    *)
(* there is room.  The shares are whole, as StackExact says.               *)
(***************************************************************************)
THEOREM StackStaysFilled == StackSpec /\ []StackExact => []StackIsFilled
<1>1. StackInit => StackIsFilled
  BY DEF StackInit, StackIsFilled
<1>2. StackInv /\ StackIsFilled /\ [StackNext]_stackVars => StackIsFilled'
  BY StackFilledStep
<1> QED BY <1>1, <1>2, StackInvInit, StackInvStep, PTL DEF StackSpec
=============================================================================
