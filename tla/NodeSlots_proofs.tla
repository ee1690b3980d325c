--------------------------- MODULE NodeSlots_proofs ---------------------------
(***************************************************************************)
(* Proofs about NodeSlots, for every number of slots and generations and   *)
(* with or without allocation failures.                                    *)
(*                                                                         *)
(* What makes them inductive: no handle was issued for a slot above count  *)
(* or with a generation beyond the one stored in its slot, and the node in *)
(* a live slot, like the one whose DESTROY observers run, carries exactly  *)
(* the stored generation.                                                  *)
(***************************************************************************)
EXTENDS NodeSlots, SequenceTheorems, TLAPS

IssuedBounded ==
  \A h \in issued : Index(h) <= count /\ Generation(h) <= generation[Index(h)]

LiveIssued ==
  \A i \in Slots : alive[i] => i <= count /\ <<i, generation[i]>> \in issued

DyingIssued ==
  dying # Null =>
    /\ dying \in issued
    /\ ~alive[Index(dying)]
    /\ generation[Index(dying)] = Generation(dying)

SlotsInv ==
  /\ SlotsTypeOK
  /\ IssuedBounded
  /\ LiveIssued
  /\ DyingIssued
  /\ FreeListSound

-----------------------------------------------------------------------------
\* A handle is the pair of its index and its generation.
LEMMA HandlePair ==
  ASSUME NEW h \in Handles
  PROVE  /\ Index(h) \in Slots
         /\ Generation(h) \in Generations
         /\ h = <<Index(h), Generation(h)>>
  BY DEF Handles, Index, Generation

\* No slot has the index of the null handle.
LEMMA NullOutside == Index(Null) = 0 /\ Index(Null) \notin Slots /\ Null \notin Handles
  BY DEF Null, Index, Slots, Handles

\* Popping the free list keeps the entries below the top.
LEMMA Popped ==
  ASSUME NEW s \in Seq(Slots), s # <<>>, NEW t, t = SubSeq(s, 1, Len(s) - 1)
  PROVE  /\ t \in Seq(Slots)
         /\ Len(t) = Len(s) - 1
         /\ \A j \in 1 .. Len(t) : t[j] = s[j]
         /\ Len(s) \in Nat \ {0}
         /\ s[Len(s)] \in Slots
<1>1. Len(s) \in Nat \ {0} /\ \A j \in 1 .. Len(s) : s[j] \in Slots
  OBVIOUS
<1>2. /\ t \in Seq(Slots)
      /\ Len(t) = Len(s) - 1
      /\ \A j \in 1 .. Len(s) - 1 : t[j] = s[j]
  <2> DEFINE n == Len(s) - 1
  <2>1. n \in Nat /\ \A j \in 1 .. n : s[j] \in Slots
    BY <1>1
  <2>2. /\ SubSeq(s, 1, n) \in Seq(Slots)
        /\ Len(SubSeq(s, 1, n)) = IF 1 <= n THEN n - 1 + 1 ELSE 0
        /\ \A j \in 1 .. n - 1 + 1 : SubSeq(s, 1, n)[j] = s[1 + j - 1]
    <3> HIDE DEF n
    <3> QED BY <2>1, SubSeqProperties
  <2>3. n - 1 + 1 = n /\ \A j \in 1 .. n : 1 + j - 1 = j
    BY <2>1
  <2>4. t = SubSeq(s, 1, n)
    OBVIOUS
  <2>5. Len(t) = n
    BY <2>1, <2>2, <2>3, <2>4
  <2>6. \A j \in 1 .. n : t[j] = s[j]
    BY <2>2, <2>3, <2>4
  <2> QED BY <2>2, <2>4, <2>5, <2>6
<1> QED BY <1>1, <1>2

\* The top of a free list with entries.
LEMMA TopIsSlot ==
  ASSUME SlotsTypeOK, freeList # <<>>
  PROVE  Len(freeList) \in 1 .. Len(freeList) /\ Top \in Slots
<1>1. freeList \in Seq(Slots)
  BY DEF SlotsTypeOK
<1>2. Len(freeList) \in Nat \ {0} /\ freeList[Len(freeList)] \in Slots
  BY <1>1
<1> QED BY <1>2 DEF Top

\* Reusing a slot pops the free list.
LEMMA ReusePops ==
  ASSUME SlotsTypeOK, CreateReused
  PROVE  /\ freeList' \in Seq(Slots)
         /\ Len(freeList') = Len(freeList) - 1
         /\ \A j \in 1 .. Len(freeList') : freeList'[j] = freeList[j]
         /\ Len(freeList) \in Nat \ {0}
         /\ Top \in Slots
<1> DEFINE t == freeList'
<1>1. freeList \in Seq(Slots) /\ freeList # <<>> /\ t = SubSeq(freeList, 1, Len(freeList) - 1)
  BY DEF SlotsTypeOK, CreateReused
<1> HIDE DEF t
<1>2. /\ t \in Seq(Slots)
      /\ Len(t) = Len(freeList) - 1
      /\ \A j \in 1 .. Len(t) : t[j] = freeList[j]
      /\ Len(freeList) \in Nat \ {0}
  BY <1>1, Popped
<1> QED BY <1>1, <1>2, TopIsSlot DEF t

-----------------------------------------------------------------------------
\* The invariant holds in the empty store.
LEMMA InitInv == SlotsInit => SlotsInv
  BY SlotsAssumption, NullOutside
  DEF SlotsInit, SlotsInv, SlotsTypeOK, IssuedBounded, LiveIssued, DyingIssued,
      FreeListSound, Slots, Null

\* Giving out a slot that nothing was issued for keeps it.
LEMMA CreateFreshInv == SlotsInv /\ CreateFresh => SlotsInv'
<1> SUFFICES ASSUME SlotsInv, CreateFresh PROVE SlotsInv'
  OBVIOUS
<1> DEFINE n == count + 1
<1> USE SlotsAssumption DEF SlotsInv
<1>1. /\ n \in Slots
      /\ 1 \in Generations
      /\ <<n, 1>> \in Handles
      /\ count' = n
      /\ dying = Null /\ dying' = Null
      /\ freeList = <<>> /\ freeList' = <<>> /\ freeCap' = freeCap
      /\ alive' = [alive EXCEPT ![n] = TRUE]
      /\ generation' = [generation EXCEPT ![n] = 1]
      /\ issued' = issued \cup {<<n, 1>>}
  BY DEF CreateFresh, Revive, SlotsTypeOK, Slots, Generations, Handles
<1> HIDE DEF n
<1>2. \A h \in issued : Index(h) # n /\ Index(h) \in Slots
  BY <1>1, HandlePair DEF IssuedBounded, SlotsTypeOK, n, Slots
<1>3. SlotsTypeOK'
  BY <1>1 DEF SlotsTypeOK, Slots, Generations, n
<1>4. IssuedBounded'
  <2> SUFFICES ASSUME NEW h \in issued'
               PROVE  Index(h) <= count' /\ Generation(h) <= generation'[Index(h)]
    BY DEF IssuedBounded
  <2>1. CASE h \in issued
    BY <2>1, <1>1, <1>2 DEF IssuedBounded, SlotsTypeOK, n, Slots
  <2>2. CASE h = <<n, 1>>
    BY <2>2, <1>1 DEF SlotsTypeOK, n, Index, Generation
  <2> QED BY <2>1, <2>2, <1>1
<1>5. LiveIssued'
  BY <1>1 DEF LiveIssued, SlotsTypeOK, n, Slots
<1>6. DyingIssued' /\ FreeListSound'
  BY <1>1 DEF DyingIssued, FreeListSound
<1> QED BY <1>3, <1>4, <1>5, <1>6

(***************************************************************************)
(* Giving out the top of the free list keeps it: that slot is not live, no *)
(* other entry names it, and its next handle was never issued.             *)
(***************************************************************************)
LEMMA CreateReusedInv == SlotsInv /\ CreateReused => SlotsInv'
<1> SUFFICES ASSUME SlotsInv, CreateReused PROVE SlotsInv'
  OBVIOUS
<1> DEFINE g == generation[Top]
<1> USE SlotsAssumption DEF SlotsInv
<1>1. /\ freeList' \in Seq(Slots)
      /\ Len(freeList') = Len(freeList) - 1
      /\ \A j \in 1 .. Len(freeList') : freeList'[j] = freeList[j]
      /\ Len(freeList) \in Nat \ {0}
      /\ Top \in Slots
  BY ReusePops
<1>2. /\ Top <= count
      /\ <<Top, g>> \in Handles \ issued
      /\ g \in Generations
      /\ \A j \in 1 .. Len(freeList') : freeList'[j] # Top
  BY <1>1 DEF FreeListSound, Top, Handles
<1>3. /\ alive' = [alive EXCEPT ![Top] = TRUE]
      /\ generation' = generation
      /\ issued' = issued \cup {<<Top, g>>}
      /\ dying = Null /\ dying' = Null
      /\ UNCHANGED <<count, freeCap>>
  BY <1>1, <1>2 DEF CreateReused, Revive, SlotsTypeOK, Generations
<1> HIDE DEF g
<1>4. SlotsTypeOK'
  BY <1>1, <1>2, <1>3 DEF SlotsTypeOK
<1>5. IssuedBounded'
  <2> SUFFICES ASSUME NEW h \in issued'
               PROVE  Index(h) <= count' /\ Generation(h) <= generation'[Index(h)]
    BY DEF IssuedBounded
  <2>1. CASE h \in issued
    BY <2>1, <1>3 DEF IssuedBounded
  <2>2. CASE h = <<Top, g>>
    BY <2>2, <1>2, <1>3 DEF Index, Generation, Generations, g
  <2> QED BY <2>1, <2>2, <1>3
<1>6. LiveIssued'
  BY <1>1, <1>2, <1>3 DEF LiveIssued, SlotsTypeOK, g
<1>7. DyingIssued'
  BY <1>3 DEF DyingIssued
<1>8. FreeListSound'
  <2>1. \A j, k \in 1 .. Len(freeList') : freeList'[j] = freeList'[k] => j = k
    BY <1>1 DEF FreeListSound
  <2>2. ASSUME NEW j \in 1 .. Len(freeList')
        PROVE  /\ freeList'[j] <= count'
               /\ ~alive'[freeList'[j]]
               /\ freeList'[j] # Index(dying')
               /\ <<freeList'[j], generation'[freeList'[j]]>> \in Handles \ issued'
    <3> DEFINE i == freeList'[j]
    <3>1. j \in 1 .. Len(freeList) /\ i = freeList[j] /\ i \in Slots /\ i # Top
      BY <1>1, <1>2
    <3>2. i <= count /\ ~alive[i] /\ i # Index(dying) /\ <<i, generation[i]>> \in Handles \ issued
      BY <3>1 DEF FreeListSound
    <3> QED BY <3>1, <3>2, <1>3 DEF SlotsTypeOK
  <2> QED BY <2>1, <2>2 DEF FreeListSound
<1> QED BY <1>4, <1>5, <1>6, <1>7, <1>8

\* A node that dies leaves its slot to its observers, not to the free list.
LEMMA KillInv == ASSUME SlotsInv, NEW h \in issued, Kill(h) PROVE SlotsInv'
<1> USE SlotsAssumption DEF SlotsInv
<1>1. h \in Handles /\ Index(h) \in Slots
  BY HandlePair DEF SlotsTypeOK
<1>2. /\ alive[Index(h)] /\ generation[Index(h)] = Generation(h)
      /\ alive' = [alive EXCEPT ![Index(h)] = FALSE]
      /\ dying' = h
      /\ UNCHANGED <<generation, count, freeList, freeCap, issued>>
  BY DEF Kill, Live
<1>3. SlotsTypeOK'
  BY <1>1, <1>2 DEF SlotsTypeOK
<1>4. IssuedBounded' /\ LiveIssued'
  BY <1>1, <1>2 DEF IssuedBounded, LiveIssued, SlotsTypeOK
<1>5. DyingIssued'
  BY <1>1, <1>2 DEF DyingIssued, SlotsTypeOK
<1>6. FreeListSound'
  BY <1>1, <1>2 DEF FreeListSound, SlotsTypeOK
<1> QED BY <1>3, <1>4, <1>5, <1>6

\* A slot that has used its last generation is not offered again.
LEMMA RetireInv == SlotsInv /\ Retire => SlotsInv'
<1> SUFFICES ASSUME SlotsInv, Retire PROVE SlotsInv'
  OBVIOUS
<1>1. FreeListSound'
  BY NullOutside DEF SlotsInv, Retire, FreeListSound, SlotsTypeOK
<1>2. SlotsTypeOK' /\ IssuedBounded' /\ LiveIssued' /\ DyingIssued'
  BY DEF SlotsInv, Retire, SlotsTypeOK, IssuedBounded, LiveIssued, DyingIssued
<1> QED BY <1>1, <1>2 DEF SlotsInv

(***************************************************************************)
(* Recycling keeps it: the slot of the dead node gets a generation beyond  *)
(* all those issued for it before it is offered.                           *)
(***************************************************************************)
LEMMA RecycleInv == SlotsInv /\ Recycle => SlotsInv'
<1> SUFFICES ASSUME SlotsInv, Recycle PROVE SlotsInv'
  OBVIOUS
<1> DEFINE d == Index(dying)
           g == Generation(dying) + 1
<1> USE SlotsAssumption DEF SlotsInv
<1>1. /\ dying \in issued /\ dying \in Handles
      /\ d \in Slots /\ d <= count
      /\ ~alive[d]
      /\ generation[d] = g - 1
      /\ g \in Generations
  <2>1. /\ dying \in issued
        /\ dying \in Handles
        /\ ~alive[d]
        /\ generation[d] = Generation(dying)
        /\ Generation(dying) # MaxGen
    BY DEF Recycle, DyingIssued, SlotsTypeOK
  <2>2. d \in Slots /\ Generation(dying) \in 1 .. MaxGen
    BY <2>1, HandlePair DEF Generations
  <2> QED BY <2>1, <2>2 DEF IssuedBounded, Generations
<1>2. /\ generation' = [generation EXCEPT ![d] = g]
      /\ dying' = Null
      /\ UNCHANGED <<alive, count, issued>>
  BY DEF Recycle
<1>3. \/ freeList' = Append(freeList, d) /\ freeCap' \in Nat
      \/ freeList' = freeList /\ freeCap' = freeCap
  BY DEF Recycle, PushFree, SlotsTypeOK
<1>4. \A h \in issued : h # <<d, g>>
  BY <1>1 DEF IssuedBounded, Index, Generation, Generations
<1> HIDE DEF d, g
<1>5. SlotsTypeOK'
  <2>1. freeList' \in Seq(Slots) /\ freeCap' \in Nat
    <3>1. Append(freeList, d) \in Seq(Slots) /\ freeList \in Seq(Slots) /\ freeCap \in Nat
      BY <1>1 DEF SlotsTypeOK
    <3> QED BY <3>1, <1>3
  <2>2. generation' \in [Slots -> 0 .. MaxGen]
    BY <1>1, <1>2 DEF SlotsTypeOK, Generations
  <2> QED BY <2>1, <2>2, <1>2 DEF SlotsTypeOK
<1>6. IssuedBounded'
  BY <1>1, <1>2, HandlePair DEF IssuedBounded, SlotsTypeOK, Generations
<1>7. LiveIssued'
  BY <1>1, <1>2 DEF LiveIssued, SlotsTypeOK
<1>8. DyingIssued'
  BY <1>2 DEF DyingIssued
<1>9. FreeListSound'
  <2>1. \A i \in Slots : i # Index(dying')
    BY <1>2, NullOutside
  <2>2. /\ \A j, k \in 1 .. Len(freeList) : freeList[j] = freeList[k] => j = k
        /\ \A j \in 1 .. Len(freeList) :
             LET i == freeList[j]
             IN /\ i \in Slots
                /\ i <= count'
                /\ ~alive'[i]
                /\ i # d
                /\ <<i, generation'[i]>> \in Handles \ issued'
    <3>1. ASSUME NEW j \in 1 .. Len(freeList)
          PROVE  /\ freeList[j] \in Slots
                 /\ freeList[j] <= count
                 /\ ~alive[freeList[j]]
                 /\ freeList[j] # d
                 /\ <<freeList[j], generation[freeList[j]]>> \in Handles \ issued
      BY DEF FreeListSound, SlotsTypeOK, d
    <3>2. \A i \in Slots : i # d => generation'[i] = generation[i]
      BY <1>1, <1>2 DEF SlotsTypeOK
    <3>3. \A j, k \in 1 .. Len(freeList) : freeList[j] = freeList[k] => j = k
      BY DEF FreeListSound
    <3> QED BY <3>1, <3>2, <3>3, <1>2
  <2>3. CASE freeList' = freeList
    BY <2>1, <2>2, <2>3 DEF FreeListSound
  <2>4. CASE freeList' = Append(freeList, d)
    <3>1. /\ Len(freeList') = Len(freeList) + 1
          /\ Len(freeList) \in Nat
          /\ \A j \in 1 .. Len(freeList) : freeList'[j] = freeList[j]
          /\ freeList'[Len(freeList) + 1] = d
      BY <2>4, <1>1, AppendProperties DEF SlotsTypeOK
    <3>2. /\ d <= count'
          /\ ~alive'[d]
          /\ <<d, generation'[d]>> \in Handles \ issued'
      BY <1>1, <1>2, <1>4 DEF SlotsTypeOK, Handles
    <3>3. \A j \in 1 .. Len(freeList') : j \in 1 .. Len(freeList) \/ j = Len(freeList) + 1
      BY <3>1
    <3>4. \A j, k \in 1 .. Len(freeList') : freeList'[j] = freeList'[k] => j = k
      BY <2>2, <3>1, <3>3
    <3>5. ASSUME NEW j \in 1 .. Len(freeList')
          PROVE  /\ freeList'[j] <= count'
                 /\ ~alive'[freeList'[j]]
                 /\ freeList'[j] # Index(dying')
                 /\ <<freeList'[j], generation'[freeList'[j]]>> \in Handles \ issued'
      <4>1. CASE j \in 1 .. Len(freeList)
        BY <4>1, <2>1, <2>2, <3>1
      <4>2. CASE j = Len(freeList) + 1
        BY <4>2, <2>1, <3>1, <3>2, <1>1
      <4> QED BY <4>1, <4>2, <3>3
    <3> QED BY <3>4, <3>5 DEF FreeListSound
  <2> QED BY <2>3, <2>4, <1>3
<1> QED BY <1>5, <1>6, <1>7, <1>8, <1>9

\* xent_node_create revives the next slot, which was dead, with a handle that
\* was not issued before.
LEMMA CreateRevives ==
  ASSUME SlotsInv, CreateReused \/ CreateFresh
  PROVE  /\ NextSlot \in Slots /\ NextSlot <= count'
         /\ count' = IF freeList # <<>> THEN count ELSE NextSlot
         /\ ~alive[NextSlot]
         /\ <<NextSlot, generation'[NextSlot]>> \in Handles
         /\ \A h \in Handles : Live(h)' <=> Live(h) \/ h = <<NextSlot, generation'[NextSlot]>>
<1> DEFINE i == NextSlot
           g == generation'[i]
<1> USE SlotsAssumption DEF SlotsInv
<1>1. CASE CreateReused
  <2>1. Len(freeList) \in 1 .. Len(freeList) /\ Top \in Slots /\ i = Top /\ freeList # <<>>
    BY <1>1, TopIsSlot DEF CreateReused, NextSlot
  <2>2. Top <= count /\ ~alive[Top] /\ <<Top, generation[Top]>> \in Handles
    BY <2>1 DEF Top, FreeListSound
  <2>3. generation[Top] # 0
    BY <2>2 DEF Handles, Generations
  <2>4. /\ alive' = [alive EXCEPT ![i] = TRUE]
        /\ generation' = generation
        /\ count' = count
    BY <1>1, <2>1, <2>3 DEF CreateReused, Revive, SlotsTypeOK
  <2>5. \A h \in Handles : h = <<Index(h), Generation(h)>>
    BY HandlePair
  <2>6. \A h \in Handles : Live(h)' <=> Live(h) \/ h = <<i, g>>
    BY <2>1, <2>2, <2>4, <2>5 DEF Live, SlotsTypeOK, Index, Generation
  <2> QED BY <2>1, <2>2, <2>4, <2>6
<1>2. CASE CreateFresh
  <2>1. freeList = <<>> /\ i = count + 1 /\ count' = i /\ i \in Slots /\ 1 \in Generations
    BY <1>2 DEF CreateFresh, NextSlot, SlotsTypeOK, Slots, Generations
  <2>2. ~alive[i]
    <3>1. count \in Nat /\ ~(count + 1 <= count)
      BY DEF SlotsTypeOK
    <3>2. alive[i] => i <= count
      BY <2>1 DEF LiveIssued
    <3> QED BY <2>1, <3>1, <3>2
  <2>3. alive' = [alive EXCEPT ![i] = TRUE] /\ generation' = [generation EXCEPT ![i] = 1]
    BY <1>2, <2>1 DEF CreateFresh, Revive
  <2>4. \A h \in Handles : h = <<Index(h), Generation(h)>> /\ Index(h) \in Slots
    BY HandlePair
  <2>5. g = 1 /\ <<i, g>> \in Handles
    BY <2>1, <2>3 DEF SlotsTypeOK, Handles
  <2>6. \A h \in Handles : Live(h)' <=> Live(h) \/ h = <<i, g>>
    BY <2>1, <2>2, <2>3, <2>4, <2>5 DEF Live, SlotsTypeOK, Index, Generation
  <2> QED BY <2>1, <2>2, <2>5, <2>6 DEF SlotsTypeOK
<1> QED BY <1>1, <1>2

-----------------------------------------------------------------------------
\* Every step of the store keeps the invariant.
LEMMA StepInv == SlotsInv /\ [SlotsNext]_slotVars => SlotsInv'
<1> SUFFICES ASSUME SlotsInv, [SlotsNext]_slotVars PROVE SlotsInv'
  OBVIOUS
<1>1. CASE UNCHANGED slotVars
  BY <1>1 DEF slotVars, SlotsInv, SlotsTypeOK, IssuedBounded, LiveIssued, DyingIssued, FreeListSound
<1>2. ASSUME NEW h \in issued, Kill(h) PROVE SlotsInv'
  BY <1>2, KillInv
<1> QED BY <1>1, <1>2, CreateReusedInv, CreateFreshInv, RetireInv, RecycleInv DEF SlotsNext

\* The invariant holds in every reachable state.
THEOREM Invariance == SlotsSpec => []SlotsInv
  BY InitInv, StepInv, PTL DEF SlotsSpec

\* Type correctness of the slot columns, for every size of the store.
THEOREM TypeCorrect == SlotsSpec => []SlotsTypeOK
<1>1. SlotsInv => SlotsTypeOK
  BY DEF SlotsInv
<1> QED BY <1>1, Invariance, PTL

\* push_free_index and alloc_slot keep the free list sound: it never offers
\* a slot twice, a slot in use, or a handle that was issued before.
THEOREM FreeListCorrect == SlotsSpec => []FreeListSound
<1>1. SlotsInv => FreeListSound
  BY DEF SlotsInv
<1> QED BY <1>1, Invariance, PTL

(***************************************************************************)
(* A handle that no longer resolves never resolves again: only             *)
(* xent_node_create revives a slot, under a handle that is new.            *)
(***************************************************************************)
THEOREM HandlesStayDead == SlotsSpec => NoRevival
<1>1. ASSUME SlotsInv, [SlotsNext]_slotVars
      PROVE  [\A h \in issued : StaysDead(h)]_slotVars
  <2> SUFFICES ASSUME SlotsNext, NEW h \in issued, ~Live(h), Live(h)' PROVE FALSE
    BY <1>1 DEF StaysDead
  <2> USE <1>1, SlotsAssumption DEF SlotsInv
  <2>1. h \in Handles /\ Index(h) \in Slots /\ h = <<Index(h), Generation(h)>>
    BY HandlePair DEF SlotsTypeOK
  <2>2. alive'[Index(h)] /\ generation'[Index(h)] = Generation(h)
    BY DEF Live
  <2>3. CASE CreateReused
    <3>1. Top \in Slots /\ <<Top, generation[Top]>> \in Handles \ issued
      BY <2>3, ReusePops DEF Top, FreeListSound
    <3>2. alive' = [alive EXCEPT ![Top] = TRUE] /\ generation' = generation
      BY <2>3, <3>1 DEF CreateReused, Revive, SlotsTypeOK, Handles, Generations
    <3>3. Index(h) # Top
      BY <3>1, <3>2, <2>1, <2>2
    <3> QED BY <3>2, <3>3, <2>1, <2>2 DEF Live, SlotsTypeOK
  <2>4. CASE CreateFresh
    <3>1. Index(h) # count + 1
      BY <2>1 DEF IssuedBounded, SlotsTypeOK, Slots
    <3> QED BY <3>1, <2>4, <2>1, <2>2 DEF CreateFresh, Revive, Live, SlotsTypeOK
  <2>5. ASSUME NEW x \in issued, Kill(x) PROVE FALSE
    BY <2>5, <2>1, <2>2, HandlePair DEF Kill, Live, SlotsTypeOK
  <2>6. CASE Retire
    BY <2>6, <2>1, <2>2 DEF Retire, Live
  <2>7. CASE Recycle
    BY <2>7, <2>1, <2>2, HandlePair DEF Recycle, Live, DyingIssued, SlotsTypeOK
  <2> QED BY <2>3, <2>4, <2>5, <2>6, <2>7 DEF SlotsNext
<1> QED BY <1>1, Invariance, PTL DEF SlotsSpec, NoRevival

-----------------------------------------------------------------------------
\* Whether slot i is accounted for: the body of NoSlotLost.
Found(i) ==
  \/ alive[i]
  \/ i = Index(dying)
  \/ Retired(i)
  \/ \E j \in 1 .. Len(freeList) : freeList[j] = i

\* Without failures every step keeps every slot accounted for.
LEMMA StepLosesNoSlot ==
  ASSUME SlotsInv, [SlotsNext]_slotVars, ~Faults, \A i \in 1 .. count : Found(i)
  PROVE  (\A i \in 1 .. count : Found(i))'
<1> SUFFICES ASSUME NEW i \in 1 .. count' PROVE Found(i)'
  OBVIOUS
<1> USE SlotsAssumption DEF SlotsInv
<1>0. i \in Slots
  <2>1. SlotsTypeOK'
    BY StepInv
  <2> QED BY <2>1 DEF SlotsTypeOK, Slots
<1>1. CASE UNCHANGED slotVars
  BY <1>1 DEF slotVars, Found, Retired
<1>2. CASE CreateReused
  <2>1. /\ Len(freeList') = Len(freeList) - 1
        /\ \A j \in 1 .. Len(freeList') : freeList'[j] = freeList[j]
        /\ Len(freeList) \in Nat \ {0}
    BY <1>2, ReusePops
  <2>2. /\ alive' = [alive EXCEPT ![Top] = TRUE]
        /\ issued \subseteq issued'
        /\ UNCHANGED <<count, dying>>
    BY <1>2 DEF CreateReused, Revive
  <2>3. CASE i = Top
    BY <2>2, <2>3, <1>0 DEF Found, SlotsTypeOK
  <2>4. CASE i # Top
    <3>1. alive'[i] = alive[i]
      BY <2>2, <2>4, <1>0 DEF SlotsTypeOK
    <3>2. ASSUME NEW j \in 1 .. Len(freeList), freeList[j] = i
          PROVE  \E k \in 1 .. Len(freeList') : freeList'[k] = i
      BY <3>2, <2>1, <2>4 DEF Top
    <3> QED BY <3>1, <3>2, <2>2 DEF Found, Retired
  <2> QED BY <2>3, <2>4
<1>3. CASE CreateFresh
  <2>1. CASE i = count + 1
    BY <1>0, <1>3, <2>1 DEF CreateFresh, Revive, Found, SlotsTypeOK
  <2>2. CASE i # count + 1
    <3>1. i \in 1 .. count
      BY <1>3, <2>2 DEF CreateFresh, SlotsTypeOK
    <3>2. alive'[i] = alive[i] /\ issued \subseteq issued' /\ UNCHANGED <<freeList, dying>>
      BY <1>0, <1>3, <2>2 DEF CreateFresh, Revive, SlotsTypeOK
    <3> QED BY <3>1, <3>2 DEF Found, Retired
  <2> QED BY <2>1, <2>2
<1>4. ASSUME NEW h \in issued, Kill(h) PROVE Found(i)'
  <2>1. CASE i = Index(h)
    BY <2>1, <1>4 DEF Kill, Found
  <2>2. CASE i # Index(h)
    BY <2>2, <1>0, <1>4, NullOutside DEF Kill, Found, Retired, SlotsTypeOK
  <2> QED BY <2>1, <2>2
<1>5. CASE Retire
  <2>1. dying \in issued /\ ~alive[Index(dying)] /\ Generation(dying) = MaxGen /\ dying \in Handles
    BY <1>5 DEF Retire, DyingIssued, SlotsTypeOK
  <2>2. i = Index(dying) => <<i, MaxGen>> \in issued
    BY <2>1, HandlePair
  <2> QED BY <2>1, <2>2, <1>0, <1>5, NullOutside DEF Retire, Found, Retired
<1>6. CASE Recycle
  <2>1. /\ freeList' = Append(freeList, Index(dying))
        /\ UNCHANGED <<alive, count, issued>>
        /\ dying' = Null
    BY <1>6 DEF Recycle, PushFree
  <2>2. Index(dying) \in Slots
    BY <1>6, HandlePair DEF Recycle, SlotsTypeOK
  <2>3. /\ Len(freeList') = Len(freeList) + 1
        /\ Len(freeList) \in Nat
        /\ \A j \in 1 .. Len(freeList) : freeList'[j] = freeList[j]
        /\ freeList'[Len(freeList) + 1] = Index(dying)
    BY <2>1, <2>2, AppendProperties DEF SlotsTypeOK
  <2>4. CASE i = Index(dying)
    BY <2>3, <2>4 DEF Found
  <2>5. CASE i # Index(dying)
    <3>1. ASSUME NEW j \in 1 .. Len(freeList), freeList[j] = i
          PROVE  \E k \in 1 .. Len(freeList') : freeList'[k] = i
      BY <3>1, <2>3
    <3>2. Retired(i) => Retired(i)'
      BY <2>1, <1>0, NullOutside DEF Retired
    <3> QED BY <3>1, <3>2, <2>1, <2>5 DEF Found
  <2> QED BY <2>4, <2>5
<1> QED BY <1>1, <1>2, <1>3, <1>4, <1>5, <1>6 DEF SlotsNext

(***************************************************************************)
(* Without allocation failures xent_node_destroy and xent_node_create lose *)
(* no slot.                                                                *)
(***************************************************************************)
THEOREM SlotsAreKept == SlotsSpec => []NoSlotLost
<1>1. SlotsInit => NoSlotLost
  BY DEF SlotsInit, NoSlotLost
<1>2. SlotsInv /\ NoSlotLost /\ [SlotsNext]_slotVars => NoSlotLost'
  <2>1. NoSlotLost <=> (~Faults => \A i \in 1 .. count : Found(i))
    BY DEF NoSlotLost, Found
  <2>2. NoSlotLost' <=> (~Faults => (\A i \in 1 .. count : Found(i))')
    BY DEF NoSlotLost, Found
  <2> QED BY <2>1, <2>2, StepLosesNoSlot
<1> QED BY <1>1, <1>2, Invariance, PTL DEF SlotsSpec
=============================================================================
