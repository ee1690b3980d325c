---------------------------- MODULE Stores_proofs -----------------------------
(***************************************************************************)
(* Proofs about the stores beside the tree: the external measure callbacks *)
(* (ExternalMeasure), the node observers (Observers) and the columns of    *)
(* what a node holds (NodeColumns).                                        *)
(*                                                                         *)
(* The callbacks, for every number of slots, generations and callbacks.    *)
(* The slots under the array behave as NodeSlots says, so SlotsInv holds;  *)
(* the array adds that an entry in use belongs to a live node of that very *)
(* slot, within the capacity.                                              *)
(*                                                                         *)
(* The observers, for every number of ids and events: the walk over the    *)
(* array is sound although those it calls add and remove entries, and it   *)
(* keeps the promise of ObserverPromise. What makes it inductive (ObsInv): *)
(* an id that is registered is in the array once, so the one entry that    *)
(* xent_node_delobs buries is all of it; no id in the array is still to be *)
(* given out; and the tombstone count decides correctly whether there is   *)
(* anything to compact, so that compacting always yields the live entries. *)
(*                                                                         *)
(* The columns, for every number of slots, styles, texts and definitions:  *)
(* the blocks on the heap are counted by what each slot owns, and a slot   *)
(* starts with the defaults because nothing is asked for a handle before   *)
(* its node is there (ColumnsInv).                                         *)
(***************************************************************************)
EXTENDS ExternalMeasure, Observers, NodeColumns, NodeSlots_proofs, Filtering_proofs

-----------------------------------------------------------------------------
(***************************************************************************)
(* The external measure callbacks.                                         *)
(***************************************************************************)

\* An entry in use is that of the live node in its slot.
EntriesAreLive ==
  \A i \in Slots :
    LET m == measures[i]
    IN m.owner # Null => /\ Index(m.owner) = i
                         /\ Live(m.owner)
                         /\ i < measureCap
                         /\ m.fn # Nobody
                         /\ m.fn = wanted[m.owner]

\* A handle with a callback owns the entry of its slot.
WantedIsKept ==
  \A h \in Handles : wanted[h] # Nobody => measures[Index(h)].owner = h

MeasureInv ==
  /\ SlotsInv
  /\ MeasureTypeOK
  /\ EntriesAreLive
  /\ WantedIsKept

-----------------------------------------------------------------------------
\* Every step of the module is a step of the slots, or none.
LEMMA StepsOfSlots == [MeasureNext]_allVars => [SlotsNext]_slotVars
  BY DEF MeasureNext, MeasureCreate, MeasureRelease, MeasureKill, ClearMeasure, SetMeasure,
         SlotsNext, allVars, slotVars

\* xent_node_create revives its slot alone, and the slot was dead.
LEMMA CreateKeepsLive ==
  ASSUME SlotsInv, CreateReused \/ CreateFresh, NEW h \in Handles, Live(h)
  PROVE  Live(h)'
<1> USE SlotsAssumption DEF SlotsInv
<1>1. Index(h) \in Slots /\ alive[Index(h)] /\ generation[Index(h)] = Generation(h)
  BY DEF Live
<1>2. CASE CreateReused
  <2>1. Len(freeList) \in 1 .. Len(freeList) /\ Top \in Slots
    BY <1>2, TopIsSlot DEF CreateReused
  <2>2. ~alive[Top]
    BY <2>1 DEF Top, FreeListSound
  <2> QED BY <1>1, <1>2, <2>1, <2>2 DEF CreateReused, Revive, Live, SlotsTypeOK
<1>3. CASE CreateFresh
  <2>1. Index(h) <= count
    BY <1>1 DEF LiveIssued
  <2>2. Index(h) # count + 1
    BY <1>1, <2>1 DEF SlotsTypeOK
  <2> QED BY <1>1, <1>3, <2>2 DEF CreateFresh, Revive, Live, SlotsTypeOK
<1> QED BY <1>2, <1>3

\* Retiring or recycling the slot of a dead node leaves the live ones alone.
LEMMA ReleaseKeepsLive ==
  ASSUME SlotsInv, Retire \/ Recycle, NEW h \in Handles, Live(h)
  PROVE  Live(h)'
<1> USE DEF SlotsInv
<1>1. Index(h) \in Slots /\ alive[Index(h)] /\ generation[Index(h)] = Generation(h)
  BY DEF Live
<1>2. CASE Retire
  BY <1>1, <1>2 DEF Retire, Live
<1>3. CASE Recycle
  <2>1. Index(dying) # Index(h)
    BY <1>1, <1>3 DEF Recycle, DyingIssued
  <2> QED BY <1>1, <1>3, <2>1 DEF Recycle, Live, SlotsTypeOK
<1> QED BY <1>2, <1>3

\* The array never shrinks, and grows beyond the slot asked for.
LEMMA GrownEnough ==
  ASSUME measureCap \in Nat, NEW i \in Nat
  PROVE  Grown(i) \in Nat /\ i < Grown(i) /\ measureCap <= Grown(i)
<1> DEFINE first == IF measureCap = 0 THEN MeasureChunk ELSE 2 * measureCap
           n == i + 1
<1>1. first \in Nat \ {0} /\ n \in Nat /\ i < n
  BY MeasureAssumption
<1> HIDE DEF first, n
<1>2. DoubledFor(first, n) \in Nat /\ n <= DoubledFor(first, n)
  BY <1>1, DoublingFits
<1>3. Grown(i) = IF i < measureCap THEN measureCap ELSE DoubledFor(first, n)
  BY DEF Grown, first, n
<1> QED BY <1>1, <1>2, <1>3

\* Initially nobody has a callback.
LEMMA MeasureInitInv == MeasureInit => MeasureInv
<1> SUFFICES ASSUME MeasureInit PROVE MeasureInv
  OBVIOUS
<1>1. SlotsInv
  BY InitInv DEF MeasureInit
<1>2. MeasureTypeOK /\ EntriesAreLive /\ WantedIsKept
  BY DEF MeasureInit, MeasureTypeOK, EntriesAreLive, WantedIsKept, Free
<1> QED BY <1>1, <1>2 DEF MeasureInv

\* A step that leaves the array alone and kills nobody keeps the invariant.
LEMMA QuietStepInv ==
  ASSUME MeasureInv, SlotsInv', UNCHANGED measureVars,
         \A h \in Handles : Live(h) => Live(h)'
  PROVE  MeasureInv'
<1> USE DEF MeasureInv
<1>1. MeasureTypeOK' /\ WantedIsKept'
  BY DEF MeasureTypeOK, WantedIsKept, measureVars
<1>2. EntriesAreLive'
  <2>1. ASSUME NEW i \in Slots, NEW o, o = measures[i].owner, o # Null PROVE Live(o)'
    <3>1. o \in Handles /\ Live(o)
      BY <2>1 DEF EntriesAreLive, MeasureTypeOK
    <3> QED BY <3>1
  <2> QED BY <2>1 DEF EntriesAreLive, measureVars
<1> QED BY <1>1, <1>2

\* xent_node_setmeasure takes the entry of a live node's slot.
LEMMA SetMeasureInv ==
  ASSUME MeasureInv, SlotsInv', NEW h \in issued, NEW fn \in Callbacks, SetMeasure(h, fn)
  PROVE  MeasureInv'
<1> USE DEF MeasureInv
<1>1. h \in Handles /\ Index(h) \in Slots /\ Live(h)
  BY HandlePair DEF SetMeasure, SlotsInv, SlotsTypeOK
<1>2. measureCap' \in Nat /\ Index(h) < measureCap' /\ measureCap <= measureCap'
  BY <1>1, GrownEnough DEF SetMeasure, MeasureTypeOK, Slots
<1>3. \A x : Live(x)' <=> Live(x)
  BY DEF SetMeasure, slotVars, Live
<1>4. MeasureTypeOK'
  BY <1>1, <1>2 DEF SetMeasure, MeasureTypeOK
<1>5. EntriesAreLive'
  <2> SUFFICES ASSUME NEW i \in Slots, NEW o, o = measures'[i].owner, o # Null
               PROVE  /\ Index(o) = i
                      /\ Live(o)
                      /\ i < measureCap'
                      /\ measures'[i].fn # Nobody
                      /\ measures'[i].fn = wanted'[o]
    BY <1>3 DEF EntriesAreLive
  <2>1. CASE i = Index(h)
    <3>1. measures'[i] = [owner |-> h, fn |-> fn] /\ wanted'[h] = fn
      BY <2>1, <1>1 DEF SetMeasure, MeasureTypeOK
    <3> QED BY <2>1, <3>1, <1>1, <1>2, <1>3, MeasureAssumption
  <2>2. CASE i # Index(h)
    <3>1. measures'[i] = measures[i] /\ o \in Handles
      BY <2>2, <1>1 DEF SetMeasure, MeasureTypeOK
    <3>2. wanted'[o] = wanted[o]
      BY <2>2, <3>1, <1>1 DEF SetMeasure, MeasureTypeOK, EntriesAreLive
    <3>3. i < measureCap'
      BY <3>1, <1>2 DEF EntriesAreLive, MeasureTypeOK, Slots
    <3> QED BY <3>1, <3>2, <3>3, <1>3 DEF EntriesAreLive
  <2> QED BY <2>1, <2>2
<1>6. WantedIsKept'
  <2> SUFFICES ASSUME NEW x \in Handles, wanted'[x] # Nobody
               PROVE  measures'[Index(x)].owner = x
    BY DEF WantedIsKept
  <2>1. Index(x) \in Slots
    BY HandlePair
  <2>2. CASE x = h
    BY <2>2, <1>1 DEF SetMeasure, MeasureTypeOK
  <2>3. CASE x # h
    <3>1. measures[Index(x)].owner = x
      BY <2>3, <1>1 DEF SetMeasure, MeasureTypeOK, WantedIsKept
    <3>2. Live(x)
      BY <2>1, <3>1, NullOutside DEF EntriesAreLive
    <3>3. Index(x) # Index(h)
      BY <2>3, <3>2, <1>1, HandlePair DEF Live
    <3> QED BY <2>1, <3>1, <3>3, <1>1 DEF SetMeasure, MeasureTypeOK
  <2> QED BY <2>2, <2>3
<1> QED BY <1>4, <1>5, <1>6

\* Taking the callback from a handle frees its entry if it has one.
LEMMA ForgetInv ==
  ASSUME MeasureInv, SlotsInv', NEW h \in Handles,
         measures' = OnDestroy(h),
         wanted' = [wanted EXCEPT ![h] = Nobody],
         UNCHANGED measureCap,
         \A x \in Handles : x # h /\ Live(x) => Live(x)'
  PROVE  MeasureInv'
<1> USE DEF MeasureInv
<1>1. Index(h) \in Slots /\ h # Null
  BY HandlePair, NullOutside
<1>2. MeasureTypeOK'
  BY <1>1 DEF MeasureTypeOK, OnDestroy, Free
<1>3. \A i \in Slots : measures'[i].owner # Null =>
        measures'[i] = measures[i] /\ measures[i].owner # h
  <2> SUFFICES ASSUME NEW i \in Slots, measures'[i].owner # Null
               PROVE  measures'[i] = measures[i] /\ measures[i].owner # h
    OBVIOUS
  <2>1. measures[i].owner = h => Owned(h) # Nobody /\ i = Index(h)
    BY <1>1 DEF EntriesAreLive, Owned
  <2> QED BY <2>1, <1>1 DEF OnDestroy, Free, MeasureTypeOK
<1>4. EntriesAreLive'
  <2>1. ASSUME NEW i \in Slots, NEW o, o = measures'[i].owner, o # Null
        PROVE  /\ Index(o) = i
               /\ Live(o)'
               /\ i < measureCap
               /\ measures[i].fn # Nobody
               /\ measures[i].fn = wanted'[o]
    <3>1. o = measures[i].owner /\ o \in Handles /\ o # h
      BY <1>3, <2>1 DEF MeasureTypeOK
    <3>2. wanted'[o] = wanted[o]
      BY <3>1 DEF MeasureTypeOK
    <3> QED BY <2>1, <3>1, <3>2 DEF EntriesAreLive
  <2> QED BY <1>3, <2>1 DEF EntriesAreLive
<1>5. WantedIsKept'
  <2> SUFFICES ASSUME NEW x \in Handles, wanted'[x] # Nobody
               PROVE  measures'[Index(x)].owner = x
    BY DEF WantedIsKept
  <2>1. x # h /\ measures[Index(x)].owner = x /\ Index(x) \in Slots /\ x # Null
    BY HandlePair, NullOutside DEF WantedIsKept, MeasureTypeOK
  <2>2. Owned(h) # Nobody => measures[Index(h)].owner = h
    BY DEF Owned
  <2>3. Owned(h) # Nobody => Index(x) # Index(h)
    BY <2>1, <2>2
  <2> QED BY <2>1, <2>3, <1>1 DEF OnDestroy, MeasureTypeOK
<1> QED BY <1>2, <1>4, <1>5

\* Every step keeps the invariant.
LEMMA MeasureStepInv == MeasureInv /\ [MeasureNext]_allVars => MeasureInv'
<1> SUFFICES ASSUME MeasureInv, [MeasureNext]_allVars PROVE MeasureInv'
  OBVIOUS
<1>0. SlotsInv /\ SlotsInv'
  BY StepsOfSlots, StepInv DEF MeasureInv
<1>1. CASE UNCHANGED allVars
  BY <1>0, <1>1, QuietStepInv DEF allVars, measureVars, Live
<1>2. CASE MeasureCreate
  BY <1>0, <1>2, QuietStepInv, CreateKeepsLive DEF MeasureCreate
<1>3. CASE MeasureRelease
  BY <1>0, <1>3, QuietStepInv, ReleaseKeepsLive DEF MeasureRelease
<1>4. ASSUME NEW h \in issued, MeasureKill(h) PROVE MeasureInv'
  <2>1. h \in Handles
    BY <1>0 DEF SlotsInv, SlotsTypeOK
  <2>2. ASSUME NEW x \in Handles, x # h, Live(x) PROVE Live(x)'
    <3>1. Index(x) # Index(h)
      BY <1>4, <2>1, <2>2, HandlePair DEF MeasureKill, Kill, Live
    <3> QED BY <1>0, <1>4, <2>2, <3>1 DEF MeasureKill, Kill, Live, SlotsInv, SlotsTypeOK
  <2> QED BY <1>0, <1>4, <2>1, <2>2, ForgetInv DEF MeasureKill
<1>5. ASSUME NEW h \in issued, ClearMeasure(h) PROVE MeasureInv'
  <2>1. h \in Handles
    BY <1>0 DEF SlotsInv, SlotsTypeOK
  <2>2. measures' = OnDestroy(h)
    BY <1>5 DEF ClearMeasure, OnDestroy
  <2>3. \A x \in Handles : x # h /\ Live(x) => Live(x)'
    BY <1>5 DEF ClearMeasure, slotVars, Live
  <2> QED BY <1>0, <1>5, <2>1, <2>2, <2>3, ForgetInv DEF ClearMeasure
<1>6. ASSUME NEW h \in issued, NEW fn \in Callbacks, SetMeasure(h, fn) PROVE MeasureInv'
  BY <1>0, <1>6, SetMeasureInv
<1> QED BY <1>1, <1>2, <1>3, <1>4, <1>5, <1>6 DEF MeasureNext

(***************************************************************************)
(* xent_resolve_external_measure calls the callback that the node itself   *)
(* was given, whatever node had its slot before, and a dead handle has     *)
(* none.                                                                   *)
(***************************************************************************)
THEOREM MeasuresCorrect == MeasureSpec => []MeasuresAreOwn
<1>1. MeasureInv => MeasuresAreOwn
  <2> SUFFICES ASSUME MeasureInv, NEW h \in Handles
               PROVE  Owned(h) = wanted[h] /\ (wanted[h] # Nobody => Live(h))
    BY DEF MeasuresAreOwn
  <2> USE DEF MeasureInv
  <2>1. Index(h) \in Slots /\ h # Null
    BY HandlePair, NullOutside
  <2>2. CASE measures[Index(h)].owner = h
    BY <2>1, <2>2 DEF EntriesAreLive, Owned
  <2>3. CASE measures[Index(h)].owner # h
    BY <2>1, <2>3 DEF WantedIsKept, Owned, MeasureTypeOK
  <2> QED BY <2>2, <2>3
<1> QED BY <1>1, MeasureInitInv, MeasureStepInv, PTL DEF MeasureSpec

\* The slots under the array are those of NodeSlots, so all that is proved
\* of them holds here.
THEOREM MeasureUsesSlots == MeasureSpec => SlotsSpec
<1>1. MeasureInit => SlotsInit
  BY DEF MeasureInit
<1> QED BY <1>1, StepsOfSlots, PTL DEF MeasureSpec, SlotsSpec

-----------------------------------------------------------------------------
(***************************************************************************)
(* The node observers.                                                     *)
(***************************************************************************)

ObsTypeOK ==
  /\ entries \in Seq(0 .. MaxId)
  /\ dead \in Nat
  /\ nextId \in 0 .. MaxId
  /\ depth \in {0, 1}
  /\ cursor \in Nat \ {0}
  /\ limit \in Nat
  /\ running \in 0 .. MaxId
  /\ events \in Nat

IdsGivenOut == \A i \in 1 .. Len(entries) : entries[i] <= nextId

EachOnce ==
  \A i, j \in 1 .. Len(entries) :
    entries[i] = entries[j] /\ entries[i] # Invalid => i = j

\* Outside a dispatch there is no walk.
AtRest == depth = 0 => cursor = 1 /\ limit = 0 /\ running = Invalid

ObsInv ==
  /\ ObsTypeOK
  /\ IdsGivenOut
  /\ EachOnce
  /\ AtRest
  /\ ObserversSound

-----------------------------------------------------------------------------
Tombstones(e) == {k \in 1 .. Len(e) : e[k] = Invalid}

LEMMA TombstonesFinite ==
  ASSUME NEW e \in Seq(0 .. MaxId)
  PROVE  IsFiniteSet(Tombstones(e)) /\ Cardinality(Tombstones(e)) \in Nat
<1>1. Len(e) \in Nat /\ Tombstones(e) \in SUBSET (1 .. Len(e))
  BY LenProperties DEF Tombstones
<1>2. IsFiniteSet(1 .. Len(e))
  BY <1>1, FS_Interval
<1> QED BY <1>1, <1>2, FS_Subset, FS_CardinalityType

\* An exact count of the tombstones makes compaction yield the live entries.
LEMMA CompactedIsLive ==
  ASSUME NEW e \in Seq(0 .. MaxId), NEW d, d = Cardinality(Tombstones(e))
  PROVE  CompactedEntries(e, d) = LiveEntries(e)
<1>1. CASE d # 0
  BY <1>1 DEF CompactedEntries
<1>2. CASE d = 0
  <2>1. Tombstones(e) = {}
    BY <1>2, TombstonesFinite, FS_EmptySet
  <2>2. \A i \in 1 .. Len(e) : e[i] \in Ids
    BY <2>1, ElementOfSeq, ObserversAssumption DEF Tombstones, Ids, Invalid
  <2> QED BY <1>2, <2>2, FilterAll DEF CompactedEntries, LiveEntries
<1> QED BY <1>1, <1>2

\* The live entries are a part of the array without tombstones.
LEMMA LivePart ==
  ASSUME NEW e \in Seq(0 .. MaxId), NEW n \in 0 .. MaxId,
         \A i \in 1 .. Len(e) : e[i] <= n,
         \A i, j \in 1 .. Len(e) : e[i] = e[j] /\ e[i] # Invalid => i = j
  PROVE  LET l == LiveEntries(e)
         IN /\ l \in Seq(0 .. MaxId)
            /\ Tombstones(l) = {}
            /\ \A i \in 1 .. Len(l) : l[i] <= n
            /\ \A i, j \in 1 .. Len(l) : l[i] = l[j] => i = j
<1> DEFINE l == LiveEntries(e)
<1>1. l \in Seq((0 .. MaxId) \cap Ids)
  BY FilterType DEF LiveEntries
<1>2. l \in Seq(0 .. MaxId)
  BY <1>1, SeqMonotonic
<1>3. PICK m : m \in Places(e, Ids, Len(e), l)
  BY FilterPlaces DEF LiveEntries
<1> HIDE DEF l
<1>4. Len(l) \in Nat /\ Len(e) \in Nat
  BY <1>2, LenProperties
<1>5. /\ m \in [1 .. Len(l) -> 1 .. Len(e)]
      /\ \A j, k \in 1 .. Len(l) : j < k => m[j] < m[k]
      /\ \A j \in 1 .. Len(l) : l[j] = e[m[j]] /\ l[j] \in Ids
  BY <1>3 DEF Places
<1>6. Tombstones(l) = {}
  BY <1>5 DEF Tombstones, Ids, Invalid
<1>7. \A i \in 1 .. Len(l) : l[i] <= n
  BY <1>5
<1>8. ASSUME NEW i \in 1 .. Len(l), NEW j \in 1 .. Len(l), l[i] = l[j] PROVE i = j
  <2>1. e[m[i]] = e[m[j]] /\ e[m[i]] # Invalid /\ m[i] \in 1 .. Len(e) /\ m[j] \in 1 .. Len(e)
    BY <1>5, <1>8 DEF Ids, Invalid
  <2>2. m[i] = m[j]
    BY <2>1
  <2>3. ~(i < j) /\ ~(j < i)
    BY <1>5, <2>2
  <2> QED BY <1>4, <2>3
<1> QED BY <1>2, <1>6, <1>7, <1>8 DEF l
-----------------------------------------------------------------------------
LEMMA ObsInitInv == ObsInit => ObsInv
<1> SUFFICES ASSUME ObsInit PROVE ObsInv
  OBVIOUS
<1>1. ObsTypeOK /\ IdsGivenOut /\ EachOnce /\ AtRest
  BY ObserversAssumption
  DEF ObsInit, ObsTypeOK, IdsGivenOut, EachOnce, AtRest, Invalid
<1>2. {k \in 1 .. Len(entries) : entries[k] = Invalid} = {}
  BY DEF ObsInit
<1>3. ObserversSound
  BY <1>2, FS_EmptySet DEF ObsInit, ObserversSound, WalkInBounds, TombstonesCounted
<1> QED BY <1>1, <1>3 DEF ObsInv

\* What the counted tombstones say about compaction in a state of ObsInv.
LEMMA Compaction ==
  ASSUME ObsInv
  PROVE  /\ dead = Cardinality(Tombstones(entries))
         /\ CompactedEntries(entries, dead) = LiveEntries(entries)
         /\ depth = 0 => CompactedEntries(entries, dead) = entries
<1>1. dead = Cardinality(Tombstones(entries)) /\ entries \in Seq(0 .. MaxId)
  BY DEF ObsInv, ObserversSound, TombstonesCounted, Tombstones, ObsTypeOK
<1>2. depth = 0 => dead = 0
  BY DEF ObsInv, ObserversSound
<1> QED BY <1>1, <1>2, CompactedIsLive DEF CompactedEntries

\* A registration appends an id that no entry has.
LEMMA AddObsInv == ASSUME ObsInv, AddObs PROVE ObsInv'
<1> DEFINE x == nextId + 1
           n == Len(entries)
<1>1. /\ entries' = Append(entries, x) /\ nextId' = x /\ dead' = dead
      /\ UNCHANGED <<depth, cursor, limit, running, events>>
  BY Compaction DEF AddObs, ObsInv, ObserversSound
<1>2. x \in 1 .. MaxId /\ x \in 0 .. MaxId /\ entries \in Seq(0 .. MaxId) /\ n \in Nat
  BY LenProperties, ObserversAssumption DEF AddObs, ObsInv, ObsTypeOK
<1>3. /\ entries' \in Seq(0 .. MaxId)
      /\ Len(entries') = n + 1
      /\ \A i \in 1 .. n : entries'[i] = entries[i]
      /\ entries'[n + 1] = x
  BY <1>1, <1>2, AppendProperties
<1>4. \A i \in 1 .. n : entries[i] \in 0 .. MaxId /\ entries[i] <= nextId
  BY <1>2, ElementOfSeq DEF ObsInv, IdsGivenOut
<1>5. nextId \in Nat
  BY DEF ObsInv, ObsTypeOK
<1> HIDE DEF n
<1>6. \A i \in 1 .. n + 1 : i \in 1 .. n \/ i = n + 1
  BY <1>2
<1>7. ObsTypeOK'
  BY <1>1, <1>2, <1>3 DEF ObsInv, ObsTypeOK
<1>8. IdsGivenOut'
  BY <1>1, <1>3, <1>4, <1>5, <1>6 DEF IdsGivenOut
<1>9. EachOnce'
  <2> SUFFICES ASSUME NEW i \in 1 .. n + 1, NEW j \in 1 .. n + 1,
                      entries'[i] = entries'[j], entries'[i] # Invalid
               PROVE  i = j
    BY <1>3 DEF EachOnce
  <2>1. CASE i \in 1 .. n /\ j \in 1 .. n
    BY <2>1, <1>3 DEF ObsInv, EachOnce, n
  <2>2. \A k \in 1 .. n : entries'[k] # x
    BY <1>3, <1>4, <1>5
  <2> QED BY <2>1, <2>2, <1>3, <1>6
<1>10. AtRest' /\ WalkInBounds' /\ (depth = 0 => dead = 0)'
  BY <1>1, <1>2, <1>3 DEF ObsInv, AtRest, ObserversSound, WalkInBounds, ObsTypeOK, n
<1>11. TombstonesCounted'
  <2>1. Tombstones(entries') = Tombstones(entries)
    BY <1>2, <1>3, <1>6 DEF Tombstones, Invalid, n
  <2> QED BY <2>1, <1>1, Compaction DEF TombstonesCounted, Tombstones
<1> QED BY <1>7, <1>8, <1>9, <1>10, <1>11 DEF ObsInv, ObserversSound

Buried(k) == [entries EXCEPT ![k] = Invalid]

\* The entry that a removal finds is the only one with its id.
LEMMA DelObsBuries ==
  ASSUME ObsInv, NEW id \in Ids, DelObs(id)
  PROVE  \E only \in 1 .. Len(entries) :
           /\ entries[only] = id
           /\ \A k \in 1 .. Len(entries) : k # only => entries[k] # id
           /\ entries' = IF depth = 0 THEN CompactedEntries(Buried(only), dead + 1) ELSE Buried(only)
           /\ Buried(only) \in Seq(0 .. MaxId)
           /\ Len(Buried(only)) = Len(entries)
           /\ \A k \in 1 .. Len(entries) : Buried(only)[k] = IF k = only THEN Invalid ELSE entries[k]
           /\ Cardinality(Tombstones(Buried(only))) = dead + 1
<1> DEFINE hits == {k \in 1 .. Len(entries) : entries[k] = id}
           first == CHOOSE k \in hits : \A m \in hits : k <= m
<1>1. /\ hits # {} /\ id # Invalid
      /\ entries' = IF depth = 0 THEN CompactedEntries(Buried(first), dead + 1) ELSE Buried(first)
  BY DEF DelObs, Buried
<1>2. PICK only \in hits : TRUE
  BY <1>1
<1>3. only \in 1 .. Len(entries) /\ entries[only] = id
      /\ \A k \in 1 .. Len(entries) : entries[k] = id => k = only
  BY <1>1, <1>2 DEF ObsInv, EachOnce
<1>4. hits = {only} /\ entries \in Seq(0 .. MaxId) /\ Len(entries) \in Nat
  BY <1>3, LenProperties DEF ObsInv, ObsTypeOK
<1>5. first = only
  <2>1. \E k \in hits : \A m \in hits : k <= m
    BY <1>3, <1>4
  <2>2. first \in hits
    BY <2>1
  <2> QED BY <2>2, <1>4
<1> HIDE DEF first, hits
<1>6. /\ Buried(only) \in Seq(0 .. MaxId)
      /\ Len(Buried(only)) = Len(entries)
      /\ \A k \in 1 .. Len(entries) : Buried(only)[k] = IF k = only THEN Invalid ELSE entries[k]
  <2>1. Invalid \in 0 .. MaxId
    BY ObserversAssumption DEF Invalid
  <2> QED BY <2>1, <1>3, <1>4, ExceptSeq DEF Buried
<1>7. Tombstones(Buried(only)) = Tombstones(entries) \cup {only} /\ only \notin Tombstones(entries)
  BY <1>1, <1>3, <1>6 DEF Tombstones
<1>8. Cardinality(Tombstones(Buried(only))) = dead + 1
  <2>1. IsFiniteSet(Tombstones(entries)) /\ dead = Cardinality(Tombstones(entries))
    BY <1>4, TombstonesFinite, Compaction
  <2> QED BY <2>1, <1>7, FS_AddElement
<1> QED BY <1>1, <1>3, <1>5, <1>6, <1>8

\* What every compaction leaves behind is sound at rest.
LEMMA LiveInv ==
  ASSUME NEW e \in Seq(0 .. MaxId), NEW n \in 0 .. MaxId,
         \A i \in 1 .. Len(e) : e[i] <= n,
         \A i, j \in 1 .. Len(e) : e[i] = e[j] /\ e[i] # Invalid => i = j,
         entries' = LiveEntries(e), dead' = 0, nextId' = n,
         depth' = 0, cursor' = 1, limit' = 0, running' = Invalid, events' \in Nat
  PROVE  ObsInv'
<1>1. /\ entries' \in Seq(0 .. MaxId)
      /\ Tombstones(entries') = {}
      /\ \A i \in 1 .. Len(entries') : entries'[i] <= n
      /\ \A i, j \in 1 .. Len(entries') : entries'[i] = entries'[j] => i = j
  BY LivePart
<1>2. ObsTypeOK' /\ IdsGivenOut' /\ EachOnce' /\ AtRest' /\ WalkInBounds'
  BY <1>1, ObserversAssumption
  DEF ObsTypeOK, IdsGivenOut, EachOnce, AtRest, WalkInBounds, Invalid
<1>3. TombstonesCounted'
  BY <1>1, FS_EmptySet DEF TombstonesCounted, Tombstones
<1> QED BY <1>2, <1>3 DEF ObsInv, ObserversSound

LEMMA DelObsInv == ASSUME ObsInv, NEW id \in Ids, DelObs(id) PROVE ObsInv'
<1>1. PICK only \in 1 .. Len(entries) :
           /\ entries' = IF depth = 0 THEN CompactedEntries(Buried(only), dead + 1) ELSE Buried(only)
           /\ Buried(only) \in Seq(0 .. MaxId)
           /\ Len(Buried(only)) = Len(entries)
           /\ \A k \in 1 .. Len(entries) : Buried(only)[k] = IF k = only THEN Invalid ELSE entries[k]
           /\ Cardinality(Tombstones(Buried(only))) = dead + 1
  BY DelObsBuries
<1> DEFINE e == Buried(only)
<1>2. /\ dead' = IF depth = 0 THEN 0 ELSE dead + 1
      /\ UNCHANGED <<nextId, depth, cursor, limit, running, events>>
  BY DEF DelObs
<1>3. nextId \in 0 .. MaxId
  BY DEF ObsInv, ObsTypeOK
<1> HIDE DEF e
<1>4. /\ e \in Seq(0 .. MaxId)
      /\ \A i \in 1 .. Len(e) : e[i] <= nextId
      /\ \A i, j \in 1 .. Len(e) : e[i] = e[j] /\ e[i] # Invalid => i = j
      /\ dead + 1 = Cardinality(Tombstones(e))
  BY <1>1, <1>3 DEF ObsInv, IdsGivenOut, EachOnce, Invalid, e
<1>5. CASE depth = 0
  <2>1. entries' = LiveEntries(e)
    BY <1>1, <1>4, <1>5, CompactedIsLive DEF e
  <2>2. dead' = 0 /\ depth' = 0 /\ cursor' = 1 /\ limit' = 0 /\ running' = Invalid
        /\ nextId' = nextId /\ events' \in Nat
    BY <1>2, <1>5 DEF ObsInv, AtRest, ObsTypeOK
  <2> QED BY <2>1, <2>2, <1>3, <1>4, LiveInv
<1>6. CASE depth # 0
  <2>1. entries' = e /\ dead' = dead + 1 /\ Len(entries') = Len(entries)
    BY <1>1, <1>2, <1>6 DEF e
  <2>2. ObsTypeOK' /\ IdsGivenOut' /\ EachOnce' /\ AtRest' /\ WalkInBounds'
    BY <2>1, <1>2, <1>4, <1>6
    DEF ObsInv, ObsTypeOK, IdsGivenOut, EachOnce, AtRest, ObserversSound, WalkInBounds
  <2>3. TombstonesCounted'
    BY <2>1, <1>4 DEF TombstonesCounted, Tombstones
  <2> QED BY <2>2, <2>3, <1>2, <1>6 DEF ObsInv, ObserversSound
<1> QED BY <1>5, <1>6

\* The steps of a dispatch but for its end leave the array alone.
LEMMA WalkInv ==
  ASSUME ObsInv, NotifyBegin \/ NotifySkip \/ NotifyCall \/ NotifyReturn
  PROVE  ObsInv'
<1>1. entries' = entries /\ dead' = dead /\ nextId' = nextId
  BY DEF NotifyBegin, NotifySkip, NotifyCall, NotifyReturn
<1>2. entries \in Seq(0 .. MaxId) /\ Len(entries) \in Nat
  BY LenProperties DEF ObsInv, ObsTypeOK
<1>3. IdsGivenOut' /\ EachOnce' /\ TombstonesCounted'
  BY <1>1 DEF ObsInv, IdsGivenOut, EachOnce, ObserversSound, TombstonesCounted
<1>4. CASE NotifyBegin
  BY <1>1, <1>2, <1>3, <1>4
  DEF NotifyBegin, ObsInv, ObsTypeOK, AtRest, ObserversSound, WalkInBounds
<1>5. CASE NotifySkip
  BY <1>1, <1>2, <1>3, <1>5
  DEF NotifySkip, ObsInv, ObsTypeOK, AtRest, ObserversSound, WalkInBounds
<1>6. CASE NotifyCall
  <2>1. cursor \in 1 .. Len(entries)
    BY <1>2, <1>6 DEF NotifyCall, ObsInv, ObsTypeOK, ObserversSound, WalkInBounds
  <2>2. entries[cursor] \in 0 .. MaxId
    BY <2>1, <1>2, ElementOfSeq
  <2> QED BY <2>2, <1>1, <1>3, <1>6
          DEF NotifyCall, ObsInv, ObsTypeOK, AtRest, ObserversSound, WalkInBounds
<1>7. CASE NotifyReturn
  BY <1>1, <1>3, <1>7, ObserversAssumption
  DEF NotifyReturn, ObsInv, ObsTypeOK, AtRest, ObserversSound, WalkInBounds, Invalid
<1> QED BY <1>4, <1>5, <1>6, <1>7

\* The end of a dispatch compacts.
LEMMA NotifyEndInv == ASSUME ObsInv, NotifyEnd PROVE ObsInv'
<1>1. /\ entries' = LiveEntries(entries) /\ dead' = 0 /\ depth' = 0 /\ cursor' = 1 /\ limit' = 0
      /\ nextId' = nextId /\ running' = Invalid /\ events' = events
  BY Compaction DEF NotifyEnd
<1>2. /\ entries \in Seq(0 .. MaxId) /\ nextId \in 0 .. MaxId /\ events \in Nat
      /\ \A i \in 1 .. Len(entries) : entries[i] <= nextId
      /\ \A i, j \in 1 .. Len(entries) : entries[i] = entries[j] /\ entries[i] # Invalid => i = j
  BY DEF ObsInv, ObsTypeOK, IdsGivenOut, EachOnce
<1> QED BY <1>1, <1>2, LiveInv

LEMMA ObsStepInv == ObsInv /\ [ObsNext]_obsVars => ObsInv'
<1> SUFFICES ASSUME ObsInv, [ObsNext]_obsVars PROVE ObsInv'
  OBVIOUS
<1>1. CASE UNCHANGED obsVars
  BY <1>1
  DEF obsVars, ObsInv, ObsTypeOK, IdsGivenOut, EachOnce, AtRest, ObserversSound, WalkInBounds,
      TombstonesCounted
<1> QED BY <1>1, AddObsInv, DelObsInv, WalkInv, NotifyEndInv DEF ObsNext, NotifyStep

\* The invariant holds in every reachable state.
THEOREM ObsInvariance == ObsSpec => []ObsInv
  BY ObsInitInv, ObsStepInv, PTL DEF ObsSpec

(***************************************************************************)
(* Whatever the observers that xent_notify_node_observers calls add and    *)
(* remove, its walk stays inside the array, the tombstones are counted     *)
(* exactly, and none is left when no dispatch runs.                        *)
(***************************************************************************)
THEOREM ObserversStaySound == ObsSpec => []ObserversSound
<1>1. ObsInv => ObserversSound
  BY DEF ObsInv
<1> QED BY <1>1, ObsInvariance, PTL
-----------------------------------------------------------------------------
(* The promise: the mapped state takes a step of ObserverPromise or none.  *)

Registered == LiveEntries(entries)
Todo == LiveEntries(SubSeq(entries, cursor, limit))

\* Array s is the part of e from c to l.
IsPart(s, e, c, l) ==
  /\ s \in Seq(0 .. MaxId)
  /\ Len(s) = IF c <= l THEN l - c + 1 ELSE 0
  /\ \A i \in 1 .. Len(s) : s[i] = e[c + i - 1] /\ c + i - 1 \in 1 .. Len(e)

\* What is left of the walk is part of the array, entry by entry.
LEMMA TodoPart ==
  ASSUME NEW e \in Seq(0 .. MaxId), NEW c \in Nat \ {0}, NEW l \in Nat, l <= Len(e)
  PROVE  IsPart(SubSeq(e, c, l), e, c, l)
<1>1. \A i \in c .. l : i \in 1 .. Len(e)
  BY LenProperties
<1>2. \A i \in c .. l : e[i] \in 0 .. MaxId
  BY <1>1, ElementOfSeq
<1>3. /\ SubSeq(e, c, l) \in Seq(0 .. MaxId)
      /\ Len(SubSeq(e, c, l)) = IF c <= l THEN l - c + 1 ELSE 0
      /\ \A i \in 1 .. l - c + 1 : SubSeq(e, c, l)[i] = e[c + i - 1]
  BY <1>2, SubSeqProperties
<1>4. \A i \in 1 .. Len(SubSeq(e, c, l)) : i \in 1 .. l - c + 1 /\ c + i - 1 \in c .. l
  BY <1>3
<1> QED BY <1>1, <1>3, <1>4 DEF IsPart

\* Nothing is left of a walk that is over or has not begun.
LEMMA TodoEmpty ==
  ASSUME NEW e, NEW c \in Nat, NEW l \in Nat, c > l
  PROVE  LiveEntries(SubSeq(e, c, l)) = <<>>
<1>1. SubSeq(e, c, l) = <<>>
  BY SubSeqEmpty
<1> QED BY <1>1, FilterEmpty DEF LiveEntries

LEMMA TodoAtRest == ASSUME ObsInv, depth = 0 PROVE Todo = <<>>
  BY TodoEmpty DEF ObsInv, AtRest, Todo

\* Filtering the live entries of e is filtering e.
LEMMA LiveThenFiltered ==
  ASSUME NEW e \in Seq(0 .. MaxId), NEW keep \in SUBSET Ids
  PROVE  Filtered(LiveEntries(e), keep) = Filtered(e, keep)
  BY FilterTwice, Ids \cap keep = keep DEF LiveEntries

LEMMA AddObsKeeps == ASSUME ObsInv, AddObs PROVE Promise!Register
<1> DEFINE x == nextId + 1
<1>1. /\ entries' = Append(entries, x) /\ nextId' = x /\ nextId < MaxId
      /\ UNCHANGED <<depth, cursor, limit, running>>
  BY Compaction DEF AddObs
<1>2. /\ x \in Ids /\ x \in 0 .. MaxId /\ entries \in Seq(0 .. MaxId) /\ Len(entries) \in Nat
      /\ cursor \in Nat \ {0} /\ limit \in Nat
  BY <1>1, LenProperties, ObserversAssumption DEF ObsInv, ObsTypeOK, Ids
<1>3. limit <= Len(entries)
  BY <1>2 DEF ObsInv, ObsTypeOK, AtRest, ObserversSound, WalkInBounds
<1>4. /\ entries' \in Seq(0 .. MaxId)
      /\ Len(entries') = Len(entries) + 1
      /\ \A i \in 1 .. Len(entries) : entries'[i] = entries[i]
  BY <1>1, <1>2, AppendProperties
<1>5. Registered' = Append(Registered, x)
  <2>1. Filtered(Append(entries, x), Ids) = Append(Filtered(entries, Ids), x)
    <3>1. entries \in Seq(0 .. MaxId) /\ x \in 0 .. MaxId /\ x \in Ids
      BY <1>2
    <3> HIDE DEF x
    <3>2. \A U : entries \in Seq(U) /\ x \in U =>
            Filtered(Append(entries, x), Ids) = Append(Filtered(entries, Ids), x)
      BY <3>1, FilterAppend
    <3> QED BY <3>1, <3>2
  <2> QED BY <1>1, <2>1 DEF Registered, LiveEntries, Ids
<1>6. Todo' = Todo
  <2> DEFINE s == SubSeq(entries, cursor, limit)
             t == SubSeq(entries', cursor, limit)
  <2>1. IsPart(s, entries, cursor, limit)
    BY <1>2, <1>3, TodoPart
  <2>2. IsPart(t, entries', cursor, limit)
    <3>1. limit <= Len(entries')
      BY <1>2, <1>3, <1>4
    <3> QED BY <1>2, <1>4, <3>1, TodoPart
  <2> HIDE DEF s, t
  <2>3. Len(s) = Len(t) /\ \A i \in 1 .. Len(s) : s[i] = t[i]
    BY <1>4, <2>1, <2>2 DEF IsPart
  <2>4. s = t
    BY <2>1, <2>2, <2>3, SeqEqual DEF IsPart
  <2>5. Todo' = LiveEntries(t)
    BY <1>1 DEF Todo, LiveEntries, Ids, t
  <2> QED BY <2>4, <2>5 DEF Todo, s
<1> QED BY <1>1, <1>5, <1>6 DEF Promise!Register, Registered, Todo

\* The promise filters as the array does.
LEMMA PromiseFilters == \A s, id : Promise!WithoutId(s, id) = Filtered(s, Ids \ {id})
  BY DEF Promise!WithoutId, Promise!Filtered, Promise!FilteredTo, Filtered, FilteredTo, Ids

\* Without the entry that is buried, wherever it is.
LEMMA BuriedIsGone ==
  ASSUME NEW e \in Seq(0 .. MaxId), NEW f \in Seq(0 .. MaxId), Len(f) = Len(e), NEW id \in Ids,
         \A i \in 1 .. Len(e) : IF e[i] = id THEN f[i] = Invalid ELSE f[i] = e[i]
  PROVE  LiveEntries(f) = Filtered(LiveEntries(e), Ids \ {id})
<1>1. Len(e) \in Nat /\ Len(f) \in Nat
  BY LenProperties
<1>2. \A i \in 1 .. Len(f) :
        \/ f[i] \in Ids /\ e[i] \in Ids \ {id} /\ f[i] = e[i]
        \/ f[i] \notin Ids /\ e[i] \notin Ids \ {id}
  BY DEF Ids, Invalid
<1>3. Filtered(f, Ids) = Filtered(e, Ids \ {id})
  BY <1>1, <1>2, FilterSame
<1>4. Filtered(LiveEntries(e), Ids \ {id}) = Filtered(e, Ids \ {id})
  BY LiveThenFiltered
<1> QED BY <1>3, <1>4 DEF LiveEntries

LEMMA DelObsKeeps == ASSUME ObsInv, NEW id \in Ids, DelObs(id) PROVE Promise!Unregister(id)
<1>1. PICK only \in 1 .. Len(entries) :
           /\ entries[only] = id
           /\ \A k \in 1 .. Len(entries) : k # only => entries[k] # id
           /\ entries' = IF depth = 0 THEN CompactedEntries(Buried(only), dead + 1) ELSE Buried(only)
           /\ Buried(only) \in Seq(0 .. MaxId)
           /\ Len(Buried(only)) = Len(entries)
           /\ \A k \in 1 .. Len(entries) : Buried(only)[k] = IF k = only THEN Invalid ELSE entries[k]
           /\ Cardinality(Tombstones(Buried(only))) = dead + 1
  BY DelObsBuries
<1> DEFINE f == Buried(only)
<1>2. UNCHANGED <<nextId, depth, cursor, limit, running>>
  BY DEF DelObs
<1>3. entries \in Seq(0 .. MaxId) /\ cursor \in Nat \ {0} /\ limit \in Nat /\ Len(entries) \in Nat
      /\ depth \in {0, 1}
  BY LenProperties DEF ObsInv, ObsTypeOK
<1>4. /\ f \in Seq(0 .. MaxId) /\ Len(f) = Len(entries)
      /\ \A i \in 1 .. Len(entries) : IF entries[i] = id THEN f[i] = Invalid ELSE f[i] = entries[i]
  BY <1>1
<1> HIDE DEF f
<1>5. LiveEntries(f) = Filtered(Registered, Ids \ {id})
  BY <1>3, <1>4, BuriedIsGone DEF Registered
<1>6. Registered' = LiveEntries(entries')
  BY DEF Registered, LiveEntries, Ids
<1>7. Todo' = LiveEntries(SubSeq(entries', cursor, limit))
  BY <1>2 DEF Todo, LiveEntries, Ids
<1>8. Registered' = Filtered(Registered, Ids \ {id}) /\ Todo' = Filtered(Todo, Ids \ {id})
  <2>1. CASE depth = 0
    <3>1. entries' = LiveEntries(f)
      BY <1>1, <2>1, CompactedIsLive DEF f
    <3>2. LiveEntries(LiveEntries(f)) = LiveEntries(f)
      BY <1>4, LiveThenFiltered DEF LiveEntries
    <3>3. cursor > limit
      BY <2>1 DEF ObsInv, AtRest
    <3>4. Todo = <<>> /\ Todo' = <<>>
      BY <1>3, <1>7, <3>3, TodoEmpty DEF Todo
    <3> QED BY <3>1, <3>2, <3>4, <1>5, <1>6, FilterEmpty
  <2>2. CASE depth = 1
    <3> DEFINE s == SubSeq(entries, cursor, limit)
               t == SubSeq(f, cursor, limit)
    <3>1. entries' = f
      BY <1>1, <2>2 DEF f
    <3>2. limit <= Len(entries)
      BY <2>2 DEF ObsInv, ObserversSound, WalkInBounds
    <3>3. IsPart(s, entries, cursor, limit)
      BY <1>3, <3>2, TodoPart
    <3>4. IsPart(t, f, cursor, limit)
      <4>1. limit <= Len(f)
        BY <1>4, <3>2
      <4> QED BY <1>3, <1>4, <4>1, TodoPart
    <3> HIDE DEF s, t
    <3>5. Len(t) = Len(s) /\ \A i \in 1 .. Len(s) : IF s[i] = id THEN t[i] = Invalid ELSE t[i] = s[i]
      BY <1>4, <3>3, <3>4 DEF IsPart
    <3>6. LiveEntries(t) = Filtered(LiveEntries(s), Ids \ {id})
      BY <3>3, <3>4, <3>5, BuriedIsGone DEF IsPart
    <3> QED BY <3>1, <3>6, <1>5, <1>6, <1>7 DEF Todo, s, t
  <2> QED BY <2>1, <2>2, <1>3
<1> QED BY <1>2, <1>8, PromiseFilters DEF Promise!Unregister, Registered, Todo

\* An event begins with the whole array, none of it tombstones.
LEMMA BeginKeeps == ASSUME ObsInv, NotifyBegin PROVE Promise!Happen
<1>1. /\ depth = 0 /\ cursor' = 1 /\ limit' = Len(entries)
      /\ UNCHANGED <<entries, nextId, running>>
  BY DEF NotifyBegin
<1>2. Todo = <<>> /\ running = 0
  BY <1>1, TodoAtRest DEF ObsInv, AtRest, Invalid
<1>3. SubSeq(entries, 1, Len(entries)) = entries
  BY SubSeqFull DEF ObsInv, ObsTypeOK
<1>4. Todo' = Registered
  BY <1>1, <1>3 DEF Todo, Registered, LiveEntries, Ids
<1>5. Registered' = Registered
  BY <1>1 DEF Registered, LiveEntries, Ids
<1> QED BY <1>1, <1>2, <1>4, <1>5 DEF Promise!Happen, Registered, Todo

\* The walk takes the first entry of what is left of it.
LEMMA TodoHead ==
  ASSUME ObsInv, depth = 1, cursor <= limit
  PROVE  /\ entries[cursor] \in 0 .. MaxId
         /\ Todo = IF entries[cursor] \in Ids
                   THEN <<entries[cursor]>> \o LiveEntries(SubSeq(entries, cursor + 1, limit))
                   ELSE LiveEntries(SubSeq(entries, cursor + 1, limit))
         /\ LiveEntries(SubSeq(entries, cursor + 1, limit)) \in Seq(0 .. MaxId)
<1> DEFINE s == SubSeq(entries, cursor, limit)
<1>1. entries \in Seq(0 .. MaxId) /\ cursor \in Nat \ {0} /\ limit \in Nat /\ Len(entries) \in Nat
  BY LenProperties DEF ObsInv, ObsTypeOK
<1>2. limit <= Len(entries) /\ cursor \in 1 .. Len(entries)
  BY <1>1 DEF ObsInv, ObserversSound, WalkInBounds
<1>3. /\ s \in Seq(0 .. MaxId)
      /\ Len(s) = limit - cursor + 1
      /\ \A i \in 1 .. Len(s) : s[i] = entries[cursor + i - 1]
  <2>1. IsPart(s, entries, cursor, limit)
    BY <1>1, <1>2, TodoPart
  <2> HIDE DEF s
  <2> QED BY <1>1, <1>2, <2>1 DEF IsPart
<1>4. s # <<>> /\ Head(s) = entries[cursor] /\ Tail(s) = SubSeq(entries, cursor + 1, limit)
  <2>1. s # <<>>
    <3>1. Len(s) # 0
      BY <1>1, <1>3
    <3> HIDE DEF s
    <3> QED BY <3>1
  <2>2. cursor \in 1 .. Len(entries) /\ limit \in cursor .. Len(entries)
    BY <1>1, <1>2
  <2> QED BY <1>1, <2>1, <2>2, HeadTailOfSubSeq
<1>5. Filtered(s, Ids) = IF Head(s) \in Ids THEN <<Head(s)>> \o Filtered(Tail(s), Ids)
                         ELSE Filtered(Tail(s), Ids)
  <2> HIDE DEF s
  <2> QED BY <1>3, <1>4, FilterHead
<1>6. SubSeq(entries, cursor + 1, limit) \in Seq(0 .. MaxId)
  <2>1. cursor + 1 \in Nat \ {0}
    BY <1>1
  <2>2. IsPart(SubSeq(entries, cursor + 1, limit), entries, cursor + 1, limit)
    BY <1>1, <1>2, <2>1, TodoPart
  <2> QED BY <2>2 DEF IsPart
<1>7. Filtered(SubSeq(entries, cursor + 1, limit), Ids) \in Seq((0 .. MaxId) \cap Ids)
  BY <1>6, FilterType
<1>8. Filtered(SubSeq(entries, cursor + 1, limit), Ids) \in Seq(0 .. MaxId)
  BY <1>7, SeqMonotonic
<1> QED BY <1>1, <1>2, <1>4, <1>5, <1>8, ElementOfSeq DEF Todo, LiveEntries

LEMMA SkipKeeps == ASSUME ObsInv, NotifySkip PROVE UNCHANGED Promise!promiseVars
<1>1. /\ depth = 1 /\ cursor <= limit /\ entries[cursor] = Invalid /\ cursor' = cursor + 1
      /\ UNCHANGED <<entries, nextId, limit, running>>
  BY DEF NotifySkip
<1>2. Todo = LiveEntries(SubSeq(entries, cursor + 1, limit))
  BY <1>1, TodoHead DEF Ids, Invalid
<1>3. Todo' = LiveEntries(SubSeq(entries, cursor + 1, limit))
  BY <1>1 DEF Todo, LiveEntries, Ids
<1>4. Registered' = Registered
  BY <1>1 DEF Registered, LiveEntries, Ids
<1> QED BY <1>1, <1>2, <1>3, <1>4 DEF Promise!promiseVars, Registered, Todo

LEMMA CallKeeps == ASSUME ObsInv, NotifyCall PROVE Promise!Tell
<1> DEFINE rest == LiveEntries(SubSeq(entries, cursor + 1, limit))
           x == entries[cursor]
<1>1. /\ depth = 1 /\ running = 0 /\ cursor <= limit /\ x # Invalid
      /\ running' = x /\ cursor' = cursor + 1
      /\ UNCHANGED <<entries, nextId, limit>>
  BY DEF NotifyCall, Invalid
<1>2. x \in Ids
  BY <1>1, TodoHead, ObserversAssumption DEF Ids, Invalid
<1>3. Todo = <<x>> \o rest /\ rest \in Seq(0 .. MaxId) /\ x \in 0 .. MaxId
  BY <1>1, <1>2, TodoHead
<1>4. Todo' = rest
  BY <1>1 DEF Todo, LiveEntries, Ids
<1>5. Registered' = Registered
  BY <1>1 DEF Registered, LiveEntries, Ids
<1> HIDE DEF rest, x
<1>6. Todo # <<>> /\ Head(Todo) = x /\ Tail(Todo) = rest
  BY <1>3
<1> QED BY <1>1, <1>4, <1>5, <1>6 DEF Promise!Tell, Registered, Todo

LEMMA ReturnKeeps == ASSUME NotifyReturn PROVE Promise!Told
<1>1. running # 0 /\ running' = 0 /\ UNCHANGED <<entries, nextId, cursor, limit>>
  BY DEF NotifyReturn, Invalid
<1>2. Registered' = Registered /\ Todo' = Todo
  BY <1>1 DEF Registered, Todo, LiveEntries, Ids
<1> QED BY <1>1, <1>2 DEF Promise!Told, Registered, Todo

LEMMA EndKeeps == ASSUME ObsInv, NotifyEnd PROVE UNCHANGED Promise!promiseVars
<1>1. /\ depth = 1 /\ cursor > limit /\ cursor' = 1 /\ limit' = 0
      /\ entries' = LiveEntries(entries)
      /\ UNCHANGED <<nextId, running>>
  BY Compaction DEF NotifyEnd
<1>2. entries \in Seq(0 .. MaxId) /\ cursor \in Nat /\ limit \in Nat
  BY DEF ObsInv, ObsTypeOK
<1>3. Registered' = Registered
  <2>1. LiveEntries(LiveEntries(entries)) = LiveEntries(entries)
    BY <1>2, LiveThenFiltered DEF LiveEntries
  <2> QED BY <1>1, <2>1 DEF Registered, LiveEntries, Ids
<1>4. Todo = <<>> /\ Todo' = <<>>
  <2>1. \A e : LiveEntries(SubSeq(e, 1, 0)) = <<>>
    BY TodoEmpty
  <2>2. Todo' = LiveEntries(SubSeq(entries', 1, 0))
    BY <1>1 DEF Todo, LiveEntries, Ids
  <2> QED BY <1>1, <1>2, <2>1, <2>2, TodoEmpty DEF Todo
<1> QED BY <1>1, <1>3, <1>4 DEF Promise!promiseVars, Registered, Todo

LEMMA ObsInitKeeps == ASSUME ObsInit PROVE Promise!PromiseInit
<1>1. Registered = <<>>
  BY FilterEmpty DEF ObsInit, Registered, LiveEntries
<1>2. Todo = <<>>
  BY TodoEmpty DEF ObsInit, Todo
<1> QED BY <1>1, <1>2 DEF Promise!PromiseInit, ObsInit, Invalid, Registered, Todo

LEMMA ObsStepKeeps ==
  ObsInv /\ [ObsNext]_obsVars => [Promise!PromiseNext]_(Promise!promiseVars)
<1> SUFFICES ASSUME ObsInv, [ObsNext]_obsVars
             PROVE  Promise!PromiseNext \/ UNCHANGED Promise!promiseVars
  OBVIOUS
<1>1. CASE UNCHANGED obsVars
  BY <1>1 DEF obsVars, Promise!promiseVars, LiveEntries, Ids
<1>2. CASE AddObs
  BY <1>2, AddObsKeeps DEF Promise!PromiseNext
<1>3. CASE \E id \in Ids : DelObs(id)
  BY <1>3, DelObsKeeps DEF Promise!PromiseNext, Ids
<1>4. CASE NotifyBegin
  BY <1>4, BeginKeeps DEF Promise!PromiseNext
<1>5. CASE NotifyCall
  BY <1>5, CallKeeps DEF Promise!PromiseNext
<1>6. CASE NotifyReturn
  BY <1>6, ReturnKeeps DEF Promise!PromiseNext
<1> QED BY <1>1, <1>2, <1>3, <1>4, <1>5, <1>6, SkipKeeps, EndKeeps DEF ObsNext, NotifyStep

(***************************************************************************)
(* The array walked by index implements the promise of xent.h: every event *)
(* reaches exactly the observers registered when it happened and not       *)
(* removed before their turn, in order and once.                           *)
(***************************************************************************)
THEOREM ObserversKeepPromise == ObsSpec => KeepsPromise
<1>1. ObsInit => Promise!PromiseInit
  BY ObsInitKeeps
<1>2. ObsInv /\ [ObsNext]_obsVars => [Promise!PromiseNext]_(Promise!promiseVars)
  BY ObsStepKeeps
<1> QED BY <1>1, <1>2, ObsInvariance, PTL DEF ObsSpec, KeepsPromise, Promise!PromiseSpec

-----------------------------------------------------------------------------
(***************************************************************************)
(* The columns of the nodes.                                               *)
(***************************************************************************)
ColumnSlot ==
  [style : Styles, font : Fonts, text : Texts \cup {NoText}, grid : Grids \cup {NoGrid, EmptyGrid}]

ColumnsTypeOK ==
  /\ open \in BOOLEAN
  /\ capacity \in Nat
  /\ columns \in [0 .. capacity - 1 -> ColumnSlot]
  /\ given \in [Handles -> ColumnSlot]

\* Whatever slot was handed out is inside the columns.
RoomForAll == open => \A i \in Slots : i <= count => i < capacity

\* What the columns hold for a node that want was asked for.
Holds(slot, want) ==
  slot = want \/ (want.grid = NoGrid /\ slot = [want EXCEPT !.grid = EmptyGrid])

LiveHold == open => \A h \in Handles : Live(h) => Holds(columns[Index(h)], given[h])

\* Nothing is asked for a node before it is created or after it died.
DeadWantNothing == \A h \in Handles : ~Live(h) => given[h] = Fresh

ColumnsInv ==
  /\ SlotsInv
  /\ ColumnsTypeOK
  /\ RoomForAll
  /\ LiveHold
  /\ DeadWantNothing
  /\ NothingLeaks

-----------------------------------------------------------------------------
\* The null pointers and the empty definition are nothing that callers pass.
LEMMA Nulls ==
  /\ NoText # Blank /\ Blank \in Texts /\ NoText \notin Texts
  /\ NoGrid # EmptyGrid /\ NoGrid \notin Grids /\ EmptyGrid \notin Grids
  BY ColumnsAssumption DEF NoText, NoGrid, EmptyGrid

LEMMA FreshSlot == Fresh \in ColumnSlot /\ Owns(Fresh) = 0
  BY ColumnsAssumption DEF Fresh, ColumnSlot, Owns, OwnsText, OwnsGrid

\* Of S, one slot was counted or not (was), and is counted or not (is) in T.
Recounts(S, T, was, is) ==
  /\ Cardinality(S) \in Nat
  /\ Cardinality(T) = Cardinality(S) - was + is

LEMMA Recounted ==
  ASSUME NEW S, IsFiniteSet(S), NEW T, NEW i, NEW was, NEW is,
         was = IF i \in S THEN 1 ELSE 0,
         \/ is = 1 /\ T = S \cup {i}
         \/ is = 0 /\ T = S \ {i}
  PROVE  Recounts(S, T, was, is)
<1>1. Cardinality(S) \in Nat
  BY FS_CardinalityType
<1>2. CASE is = 1 /\ T = S \cup {i}
  <2>1. Cardinality(T) = IF i \in S THEN Cardinality(S) ELSE Cardinality(S) + 1
    BY <1>2, FS_AddElement
  <2> QED BY <1>1, <1>2, <2>1 DEF Recounts
<1>3. CASE is = 0 /\ T = S \ {i}
  <2>1. Cardinality(T) = IF i \in S THEN Cardinality(S) - 1 ELSE Cardinality(S)
    BY <1>3, FS_RemoveElement
  <2> QED BY <1>1, <1>3, <2>1 DEF Recounts
<1> QED BY <1>2, <1>3

\* Writing one slot frees and allocates what that slot owned and owns.
LEMMA OwnedAfterWrite ==
  ASSUME NEW n \in Nat, NEW cols \in [0 .. n - 1 -> ColumnSlot],
         NEW i \in 0 .. n - 1, NEW s \in ColumnSlot
  PROVE  /\ OwnedBlocks(cols) \in Int
         /\ OwnedBlocks([cols EXCEPT ![i] = s]) = OwnedBlocks(cols) - Owns(cols[i]) + Owns(s)
<1> DEFINE after == [cols EXCEPT ![i] = s]
           T(c) == {j \in 0 .. n - 1 : c[j].text # NoText}
           G(c) == {j \in 0 .. n - 1 : c[j].grid # NoGrid}
<1>1. DOMAIN cols = 0 .. n - 1 /\ DOMAIN after = 0 .. n - 1
  OBVIOUS
<1>2. OwnedBlocks(cols) = Cardinality(T(cols)) + Cardinality(G(cols))
  BY <1>1 DEF OwnedBlocks
<1>3. OwnedBlocks(after) = Cardinality(T(after)) + Cardinality(G(after))
  BY <1>1 DEF OwnedBlocks
<1>4. IsFiniteSet(T(cols)) /\ IsFiniteSet(G(cols))
  <2>1. IsFiniteSet(0 .. n - 1)
    BY FS_Interval
  <2>2. T(cols) \in SUBSET (0 .. n - 1) /\ G(cols) \in SUBSET (0 .. n - 1)
    OBVIOUS
  <2> HIDE DEF T, G
  <2> QED BY <2>1, <2>2, FS_Subset
<1>5. after[i] = s /\ \A j \in 0 .. n - 1 : j # i => after[j] = cols[j]
  OBVIOUS
<1>6. T(after) = IF s.text # NoText THEN T(cols) \cup {i} ELSE T(cols) \ {i}
  <2> HIDE DEF after
  <2> QED BY <1>5
<1>7. G(after) = IF s.grid # NoGrid THEN G(cols) \cup {i} ELSE G(cols) \ {i}
  <2> HIDE DEF after
  <2> QED BY <1>5
<1>8. /\ (i \in T(cols)) <=> cols[i].text # NoText
      /\ (i \in G(cols)) <=> cols[i].grid # NoGrid
  OBVIOUS
<1> HIDE DEF T, G, after
<1>9. Recounts(T(cols), T(after), OwnsText(cols[i]), OwnsText(s))
  <2>1. OwnsText(cols[i]) = IF i \in T(cols) THEN 1 ELSE 0
    BY <1>8 DEF OwnsText
  <2>2. \/ OwnsText(s) = 1 /\ T(after) = T(cols) \cup {i}
        \/ OwnsText(s) = 0 /\ T(after) = T(cols) \ {i}
    BY <1>6 DEF OwnsText
  <2> QED BY <2>1, <2>2, <1>4, Recounted
<1>10. Recounts(G(cols), G(after), OwnsGrid(cols[i]), OwnsGrid(s))
  <2>1. OwnsGrid(cols[i]) = IF i \in G(cols) THEN 1 ELSE 0
    BY <1>8 DEF OwnsGrid
  <2>2. \/ OwnsGrid(s) = 1 /\ G(after) = G(cols) \cup {i}
        \/ OwnsGrid(s) = 0 /\ G(after) = G(cols) \ {i}
    BY <1>7 DEF OwnsGrid
  <2> QED BY <2>1, <2>2, <1>4, Recounted
<1>11. /\ OwnsText(cols[i]) \in Int /\ OwnsText(s) \in Int
       /\ OwnsGrid(cols[i]) \in Int /\ OwnsGrid(s) \in Int
  BY DEF OwnsText, OwnsGrid
<1> QED BY <1>2, <1>3, <1>9, <1>10, <1>11 DEF Owns, Recounts, after

LEMMA OwnedIsNumber ==
  ASSUME NEW n \in Nat, NEW cols \in [0 .. n - 1 -> ColumnSlot]
  PROVE  OwnedBlocks(cols) \in Int
<1> DEFINE T == {j \in 0 .. n - 1 : cols[j].text # NoText}
           G == {j \in 0 .. n - 1 : cols[j].grid # NoGrid}
<1>1. OwnedBlocks(cols) = Cardinality(T) + Cardinality(G)
  BY DEF OwnedBlocks
<1>2. IsFiniteSet(0 .. n - 1) /\ T \in SUBSET (0 .. n - 1) /\ G \in SUBSET (0 .. n - 1)
  BY FS_Interval
<1> HIDE DEF T, G
<1>3. IsFiniteSet(T) /\ IsFiniteSet(G)
  BY <1>2, FS_Subset
<1>4. Cardinality(T) \in Nat /\ Cardinality(G) \in Nat
  BY <1>3, FS_CardinalityType
<1> QED BY <1>1, <1>4

\* Growing the columns allocates nothing but the columns.
LEMMA OwnedAfterGrowth ==
  ASSUME ColumnsTypeOK, NEW size \in Nat, capacity <= size
  PROVE  /\ GrownTo(size) \in [0 .. size - 1 -> ColumnSlot]
         /\ \A i \in 0 .. capacity - 1 : GrownTo(size)[i] = columns[i]
         /\ OwnedBlocks(GrownTo(size)) = OwnedBlocks(columns)
<1> DEFINE after == GrownTo(size)
<1>1. capacity \in Nat /\ columns \in [0 .. capacity - 1 -> ColumnSlot]
  BY DEF ColumnsTypeOK
<1>2. \A i \in 0 .. size - 1 : i < capacity => i \in 0 .. capacity - 1
  BY <1>1
<1>3. after \in [0 .. size - 1 -> ColumnSlot]
  BY <1>1, <1>2, FreshSlot DEF GrownTo
<1>4. \A i \in 0 .. capacity - 1 : i \in 0 .. size - 1 /\ after[i] = columns[i]
  BY <1>1 DEF GrownTo
<1>5. \A i \in 0 .. size - 1 : i \notin 0 .. capacity - 1 => after[i] = Fresh
  BY <1>1 DEF GrownTo
<1>6. DOMAIN after = 0 .. size - 1 /\ DOMAIN columns = 0 .. capacity - 1
  BY <1>1, <1>3
<1> HIDE DEF after
<1>7. Fresh.text = NoText /\ Fresh.grid = NoGrid
  BY DEF Fresh
<1>8. {i \in DOMAIN after : after[i].text # NoText} = {i \in DOMAIN columns : columns[i].text # NoText}
  BY <1>4, <1>5, <1>6, <1>7
<1>9. {i \in DOMAIN after : after[i].grid # NoGrid} = {i \in DOMAIN columns : columns[i].grid # NoGrid}
  BY <1>4, <1>5, <1>6, <1>7
<1>10. OwnedBlocks(after) = OwnedBlocks(columns)
  BY <1>8, <1>9 DEF OwnedBlocks
<1> QED BY <1>3, <1>4, <1>10 DEF after

\* There is room for the index asked for, and the columns never shrink.
LEMMA GrownIsEnough ==
  ASSUME capacity \in Nat, NEW needed \in Nat
  PROVE  /\ EnoughFor(needed) \in Nat
         /\ needed <= EnoughFor(needed)
         /\ capacity <= EnoughFor(needed)
         /\ needed < NextCapacity(capacity, needed)
         /\ NextCapacity(capacity, needed) \in Nat
<1> DEFINE first == IF capacity = 0 THEN FirstCap ELSE capacity
           n == needed + 1
<1>1. first \in Nat \ {0} /\ n \in Nat /\ needed < n
  BY ColumnsAssumption
<1>2. NextCapacity(capacity, needed) = DoubledFor(first, n)
  BY DEF NextCapacity
<1> HIDE DEF first, n
<1>3. DoubledFor(first, n) \in Nat /\ n <= DoubledFor(first, n)
  BY <1>1, DoublingFits
<1> QED BY <1>1, <1>2, <1>3 DEF EnoughFor

\* A slot holds one live node at most.
LEMMA OneLiveNode ==
  ASSUME NEW g \in Handles, NEW h \in Handles, Live(g), Live(h), Index(g) = Index(h)
  PROVE  g = h
  BY HandlePair DEF Live

\* The handles of live nodes are issued ones, and their slots are in the columns.
LEMMA LiveInside ==
  ASSUME SlotsInv, ColumnsTypeOK, RoomForAll, open, NEW h \in Handles, h \in issued \/ Live(h)
  PROVE  h \in issued /\ Index(h) \in Slots /\ Index(h) <= count /\ Index(h) \in 0 .. capacity - 1
<1>1. Index(h) \in Slots /\ h = <<Index(h), Generation(h)>>
  BY HandlePair
<1>2. h \in issued
  BY <1>1 DEF Live, LiveIssued, SlotsInv
<1>3. Index(h) <= count
  BY <1>2 DEF IssuedBounded, SlotsInv
<1>4. Index(h) \in Nat /\ capacity \in Nat
  BY <1>1 DEF Slots, ColumnsTypeOK
<1> QED BY <1>1, <1>2, <1>3, <1>4 DEF RoomForAll

-----------------------------------------------------------------------------
(***************************************************************************)
(* Writing slot i, with what the slot of no other node wants left alone,   *)
(* keeps the invariant when the node in it, if one is, gets what it wants, *)
(* and the blocks are counted.                                             *)
(***************************************************************************)
LEMMA WriteInv ==
  ASSUME ColumnsInv, open, UNCHANGED <<slotVars, open, capacity>>,
         NEW i \in 0 .. capacity - 1, NEW s \in ColumnSlot,
         columns' = [columns EXCEPT ![i] = s],
         heap' = heap - Owns(columns[i]) + Owns(s),
         given' \in [Handles -> ColumnSlot],
         \A h \in Handles : Live(h) /\ Index(h) = i => Holds(s, given'[h]),
         \A h \in Handles : (Live(h) /\ Index(h) = i) \/ given'[h] = given[h]
  PROVE  ColumnsInv'
<1> USE DEF ColumnsInv
<1>1. /\ capacity \in Nat
      /\ columns \in [0 .. capacity - 1 -> ColumnSlot]
  BY DEF ColumnsTypeOK
<1>2. ColumnsTypeOK' /\ RoomForAll' /\ SlotsInv'
  BY <1>1 DEF ColumnsTypeOK, RoomForAll, slotVars, SlotsInv, SlotsTypeOK, IssuedBounded,
              LiveIssued, DyingIssued, FreeListSound
<1>3. \A h : Live(h)' <=> Live(h)
  BY DEF slotVars, Live
<1>4. LiveHold'
  <2>1. ASSUME NEW h \in Handles, Live(h) PROVE Holds(columns'[Index(h)], given'[h])
    <3>1. Index(h) \in 0 .. capacity - 1 /\ Holds(columns[Index(h)], given[h])
      BY <2>1, LiveInside DEF LiveHold
    <3>2. CASE Index(h) = i
      BY <2>1, <3>1, <3>2, <1>1
    <3>3. CASE Index(h) # i
      BY <3>1, <3>3, <1>1
    <3> QED BY <3>2, <3>3
  <2> QED BY <2>1, <1>3 DEF LiveHold
<1>5. DeadWantNothing'
  BY <1>3 DEF DeadWantNothing
<1>6. NothingLeaks'
  <2>1. /\ OwnedBlocks(columns) \in Int
        /\ OwnedBlocks(columns') = OwnedBlocks(columns) - Owns(columns[i]) + Owns(s)
    BY <1>1, OwnedAfterWrite
  <2>2. ArraysHeld' = ArraysHeld /\ ArraysHeld \in Int
    BY DEF ArraysHeld, Arrays
  <2>3. Owns(columns[i]) \in Int /\ Owns(s) \in Int
    BY DEF Owns, OwnsText, OwnsGrid
  <2>4. heap = OwnedBlocks(columns) + ArraysHeld
    BY DEF NothingLeaks
  <2>5. heap' = OwnedBlocks(columns') + ArraysHeld'
    BY <2>1, <2>2, <2>3, <2>4
  <2> QED BY <2>5 DEF NothingLeaks
<1> QED BY <1>2, <1>4, <1>5, <1>6

\* A call with the handle of a live node gives it slot and asks for want.
Gives(h, slot, want) ==
  /\ open
  /\ Live(h)
  /\ slot \in ColumnSlot
  /\ want \in ColumnSlot
  /\ Holds(slot, want)
  /\ columns' = [columns EXCEPT ![Index(h)] = slot]
  /\ given' = [given EXCEPT ![h] = want]
  /\ heap' = heap - Owns(columns[Index(h)]) + Owns(slot)
  /\ UNCHANGED <<slotVars, open, capacity>>

LEMMA GivesInv ==
  ASSUME ColumnsInv, NEW h \in issued, NEW slot, NEW want, Gives(h, slot, want)
  PROVE  ColumnsInv'
<1> DEFINE i == Index(h)
<1> USE DEF ColumnsInv
<1>1. h \in Handles
  BY DEF SlotsInv, SlotsTypeOK
<1>2. i \in 0 .. capacity - 1 /\ open /\ Live(h)
  BY <1>1, LiveInside DEF Gives
<1>3. given \in [Handles -> ColumnSlot]
  BY DEF ColumnsTypeOK
<1>4. given' \in [Handles -> ColumnSlot]
  BY <1>1, <1>3 DEF Gives
<1>5. ASSUME NEW g \in Handles, Live(g), Index(g) = i PROVE Holds(slot, given'[g])
  <2>1. g = h
    BY <1>1, <1>2, <1>5, OneLiveNode
  <2> QED BY <1>1, <1>3, <2>1 DEF Gives
<1>6. ASSUME NEW g \in Handles, ~(Live(g) /\ Index(g) = i) PROVE given'[g] = given[g]
  BY <1>1, <1>2, <1>3, <1>6 DEF Gives
<1>7. /\ slot \in ColumnSlot
      /\ columns' = [columns EXCEPT ![i] = slot]
      /\ heap' = heap - Owns(columns[i]) + Owns(slot)
      /\ UNCHANGED <<slotVars, open, capacity>>
  BY DEF Gives
<1> HIDE DEF i
<1> QED BY <1>2, <1>4, <1>5, <1>6, <1>7, WriteInv

\* What the columns hold and what is given of a live node.
LEMMA HeldSlot ==
  ASSUME ColumnsInv, open, NEW h \in issued, Live(h)
  PROVE  /\ h \in Handles
         /\ Index(h) \in 0 .. capacity - 1
         /\ columns[Index(h)] \in ColumnSlot
         /\ given[h] \in ColumnSlot
         /\ Holds(columns[Index(h)], given[h])
         /\ heap \in Int
<1> USE DEF ColumnsInv
<1>1. h \in Handles
  BY DEF SlotsInv, SlotsTypeOK
<1>2. Index(h) \in 0 .. capacity - 1
  BY <1>1, LiveInside
<1>3. heap \in Int
  <2>1. OwnedBlocks(columns) \in Int
    BY OwnedIsNumber DEF ColumnsTypeOK
  <2> QED BY <2>1 DEF NothingLeaks, ArraysHeld, Arrays
<1> QED BY <1>1, <1>2, <1>3 DEF ColumnsTypeOK, LiveHold

LEMMA SetStyleInv ==
  ASSUME ColumnsInv, NEW h \in issued, NEW s \in Styles, SetStyle(h, s)
  PROVE  ColumnsInv'
<1> DEFINE slot == [columns[Index(h)] EXCEPT !.style = s]
           want == [given[h] EXCEPT !.style = s]
<1>1. open /\ Live(h)
  BY DEF SetStyle, Put
<1>2. slot \in ColumnSlot /\ want \in ColumnSlot /\ Holds(slot, want)
  BY <1>1, HeldSlot DEF ColumnSlot, Holds
<1>3. Owns(slot) = Owns(columns[Index(h)]) /\ Owns(slot) \in Int
  BY <1>1, HeldSlot DEF ColumnSlot, Owns, OwnsText, OwnsGrid
<1>4. given' = [given EXCEPT ![h] = want]
  BY DEF SetStyle
<1>5. /\ columns' = [columns EXCEPT ![Index(h)] = slot]
      /\ UNCHANGED <<slotVars, open, capacity, heap>>
  BY DEF SetStyle, Put
<1> HIDE DEF slot, want
<1>6. heap' = heap - Owns(columns[Index(h)]) + Owns(slot)
  BY <1>1, <1>3, <1>5, HeldSlot
<1> QED BY <1>1, <1>2, <1>4, <1>5, <1>6, GivesInv DEF Gives

LEMMA SetFontInv ==
  ASSUME ColumnsInv, NEW h \in issued, NEW f \in Fonts, SetFont(h, f)
  PROVE  ColumnsInv'
<1> DEFINE slot == [columns[Index(h)] EXCEPT !.font = f]
           want == [given[h] EXCEPT !.font = f]
<1>1. open /\ Live(h)
  BY DEF SetFont, Put
<1>2. slot \in ColumnSlot /\ want \in ColumnSlot /\ Holds(slot, want)
  BY <1>1, HeldSlot DEF ColumnSlot, Holds
<1>3. Owns(slot) = Owns(columns[Index(h)]) /\ Owns(slot) \in Int
  BY <1>1, HeldSlot DEF ColumnSlot, Owns, OwnsText, OwnsGrid
<1>4. given' = [given EXCEPT ![h] = want]
  BY DEF SetFont
<1>5. /\ columns' = [columns EXCEPT ![Index(h)] = slot]
      /\ UNCHANGED <<slotVars, open, capacity, heap>>
  BY DEF SetFont, Put
<1> HIDE DEF slot, want
<1>6. heap' = heap - Owns(columns[Index(h)]) + Owns(slot)
  BY <1>1, <1>3, <1>5, HeldSlot
<1> QED BY <1>1, <1>2, <1>4, <1>5, <1>6, GivesInv DEF Gives

LEMMA SetTextInv ==
  ASSUME ColumnsInv, NEW h \in issued, NEW t \in Texts, SetText(h, t)
  PROVE  ColumnsInv'
<1> DEFINE old == columns[Index(h)]
           slot == [old EXCEPT !.text = t]
           want == [given[h] EXCEPT !.text = t]
<1>1. open /\ Live(h)
  BY DEF SetText, Put
<1>2. slot \in ColumnSlot /\ want \in ColumnSlot /\ Holds(slot, want)
  BY <1>1, HeldSlot DEF ColumnSlot, Holds
<1>3. /\ OwnsText(slot) = 1 /\ OwnsGrid(slot) = OwnsGrid(old)
      /\ OwnsText(old) \in Int /\ OwnsGrid(old) \in Int
  BY <1>1, HeldSlot, Nulls DEF ColumnSlot, OwnsText, OwnsGrid
<1>4. given' = [given EXCEPT ![h] = want]
  BY DEF SetText
<1>5. /\ columns' = [columns EXCEPT ![Index(h)] = slot]
      /\ heap' = heap + 1 - OwnsText(old)
      /\ UNCHANGED <<slotVars, open, capacity>>
  BY DEF SetText, Put
<1> HIDE DEF slot, want, old
<1>6. heap' = heap - Owns(old) + Owns(slot)
  BY <1>1, <1>3, <1>5, HeldSlot DEF Owns
<1> QED BY <1>1, <1>2, <1>4, <1>5, <1>6, GivesInv DEF Gives, old

\* xent_grid_def_ensure gives a slot a definition if it has none.
LEMMA EnsuredSlot ==
  ASSUME NEW slot \in ColumnSlot
  PROVE  /\ Ensured(slot) \in ColumnSlot
         /\ HeapEnsured(slot) = heap - OwnsGrid(slot) + 1 \/ heap \notin Int
         /\ OwnsGrid(slot) \in Int
         /\ OwnsText(Ensured(slot)) = OwnsText(slot)
         /\ OwnsText(slot) \in Int
         /\ OwnsGrid(Ensured(slot)) = 1
         /\ \A want \in ColumnSlot : Holds(slot, want) => Holds(Ensured(slot), want)
  BY Nulls DEF ColumnSlot, Ensured, HeapEnsured, OwnsGrid, OwnsText, Holds

LEMMA SetGridInv ==
  ASSUME ColumnsInv, NEW h \in issued, NEW g \in Grids, SetGrid(h, g)
  PROVE  ColumnsInv'
<1> DEFINE old == columns[Index(h)]
           slot == [Ensured(old) EXCEPT !.grid = g]
           want == [given[h] EXCEPT !.grid = g]
<1>1. open /\ Live(h)
  BY DEF SetGrid, Put
<1>2. slot \in ColumnSlot /\ want \in ColumnSlot /\ Holds(slot, want)
  BY <1>1, HeldSlot DEF ColumnSlot, Holds, Ensured
<1>3. /\ OwnsText(slot) = OwnsText(old) /\ OwnsGrid(slot) = 1
      /\ OwnsText(old) \in Int /\ OwnsGrid(old) \in Int
  BY <1>1, HeldSlot, Nulls DEF ColumnSlot, OwnsText, OwnsGrid, Ensured
<1>4. given' = [given EXCEPT ![h] = want]
  BY DEF SetGrid
<1>5. /\ columns' = [columns EXCEPT ![Index(h)] = slot]
      /\ heap' = HeapEnsured(old)
      /\ UNCHANGED <<slotVars, open, capacity>>
  BY DEF SetGrid, Put
<1>6. heap' = heap - OwnsGrid(old) + 1
  BY <1>1, <1>5, HeldSlot, EnsuredSlot
<1> HIDE DEF slot, want, old
<1>7. heap' = heap - Owns(old) + Owns(slot)
  BY <1>1, <1>3, <1>6, HeldSlot DEF Owns
<1> QED BY <1>1, <1>2, <1>4, <1>5, <1>7, GivesInv DEF Gives, old

\* A refused call may be with the handle of a dead node, and reach a slot that
\* another node lives in.
LEMMA SetGridRefusedInv ==
  ASSUME ColumnsInv, NEW h \in issued, SetGridRefused(h)
  PROVE  ColumnsInv'
<1> DEFINE i == Index(h)
           slot == Ensured(columns[i])
<1> USE DEF ColumnsInv
<1>1. open /\ h \in Handles
  BY DEF SetGridRefused, SlotsInv, SlotsTypeOK
<1>2. i \in 0 .. capacity - 1 /\ columns[i] \in ColumnSlot
  BY <1>1, LiveInside DEF ColumnsTypeOK
<1>3. slot \in ColumnSlot
  BY <1>2, EnsuredSlot
<1>4. /\ columns' = [columns EXCEPT ![i] = slot]
      /\ heap' = HeapEnsured(columns[i])
      /\ UNCHANGED <<slotVars, open, capacity, given>>
  BY DEF SetGridRefused
<1>5. heap' = heap - Owns(columns[i]) + Owns(slot)
  <2>1. OwnedBlocks(columns) \in Int
    BY OwnedIsNumber DEF ColumnsTypeOK
  <2>2. heap \in Int
    BY <2>1 DEF NothingLeaks, ArraysHeld, Arrays
  <2>3. /\ heap' = heap - OwnsGrid(columns[i]) + 1
        /\ OwnsText(slot) = OwnsText(columns[i]) /\ OwnsGrid(slot) = 1
        /\ OwnsText(columns[i]) \in Int /\ OwnsGrid(columns[i]) \in Int
    BY <1>2, <1>4, <2>2, EnsuredSlot
  <2> HIDE DEF slot
  <2> QED BY <2>2, <2>3 DEF Owns
<1>6. ASSUME NEW g \in Handles, Live(g), Index(g) = i PROVE Holds(slot, given'[g])
  <2>1. Holds(columns[i], given[g]) /\ given[g] \in ColumnSlot
    BY <1>1, <1>6 DEF LiveHold, ColumnsTypeOK
  <2> QED BY <2>1, <1>2, <1>4, EnsuredSlot
<1>7. given' \in [Handles -> ColumnSlot]
  BY <1>4 DEF ColumnsTypeOK
<1> HIDE DEF i, slot
<1> QED BY <1>1, <1>2, <1>3, <1>4, <1>5, <1>6, <1>7, WriteInv

\* What a copy writes: into the columns, and into what is given.
LEMMA CopiedSlots ==
  ASSUME NEW to \in ColumnSlot, NEW from \in ColumnSlot
  PROVE  /\ WithStyle(to, from) \in ColumnSlot
         /\ WithText(WithStyle(to, from), from) \in ColumnSlot
         /\ [WithStyle(to, from) EXCEPT !.grid = NoGrid] \in ColumnSlot
  BY Nulls DEF ColumnSlot, WithStyle, WithText

LEMMA CopiedHold ==
  ASSUME NEW to \in ColumnSlot, NEW from \in ColumnSlot,
         NEW wto \in ColumnSlot, NEW wfrom \in ColumnSlot,
         Holds(to, wto), Holds(from, wfrom)
  PROVE  /\ Holds(WithStyle(to, from), WithStyle(wto, wfrom))
         /\ Holds(WithText(WithStyle(to, from), from), WithText(WithStyle(wto, wfrom), wfrom))
         /\ Holds([WithStyle(to, from) EXCEPT !.grid = NoGrid], [WithStyle(wto, wfrom) EXCEPT !.grid = NoGrid])
<1>1. /\ to = [style |-> to.style, font |-> to.font, text |-> to.text, grid |-> to.grid]
      /\ from = [style |-> from.style, font |-> from.font, text |-> from.text, grid |-> from.grid]
      /\ wto = [style |-> wto.style, font |-> wto.font, text |-> wto.text, grid |-> wto.grid]
      /\ wfrom = [style |-> wfrom.style, font |-> wfrom.font, text |-> wfrom.text, grid |-> wfrom.grid]
  BY DEF ColumnSlot
<1>2. /\ from.style = wfrom.style /\ from.font = wfrom.font /\ from.text = wfrom.text
      /\ from.grid = wfrom.grid \/ (wfrom.grid = NoGrid /\ from.grid = EmptyGrid)
  BY DEF Holds, ColumnSlot
<1>3. to.font = wto.font /\ to.text = wto.text
  BY DEF Holds, ColumnSlot
<1>4. Holds(WithStyle(to, from), WithStyle(wto, wfrom))
  BY <1>1, <1>2, <1>3 DEF WithStyle, Holds
<1>5. Holds(WithText(WithStyle(to, from), from), WithText(WithStyle(wto, wfrom), wfrom))
  BY <1>1, <1>2, <1>3 DEF WithStyle, WithText, Holds
<1>6. Holds([WithStyle(to, from) EXCEPT !.grid = NoGrid], [WithStyle(wto, wfrom) EXCEPT !.grid = NoGrid])
  BY <1>1, <1>2, <1>3 DEF WithStyle, Holds
<1> QED BY <1>4, <1>5, <1>6

\* What the copies own.
LEMMA CopiedOwn ==
  ASSUME NEW to \in ColumnSlot, NEW from \in ColumnSlot
  PROVE  /\ OwnsText(WithStyle(to, from)) = OwnsText(to)
         /\ OwnsGrid(WithStyle(to, from)) = OwnsGrid(from)
         /\ OwnsText(WithText(WithStyle(to, from), from)) = 1
         /\ OwnsGrid(WithText(WithStyle(to, from), from)) = OwnsGrid(from)
         /\ OwnsText([WithStyle(to, from) EXCEPT !.grid = NoGrid]) = OwnsText(to)
         /\ OwnsGrid([WithStyle(to, from) EXCEPT !.grid = NoGrid]) = 0
         /\ OwnsText(to) \in Int /\ OwnsGrid(to) \in Int /\ OwnsGrid(from) \in Int
  BY Nulls DEF ColumnSlot, WithStyle, WithText, OwnsText, OwnsGrid

\* xent_copystyle, and its two failures.
LEMMA CopyInv ==
  ASSUME ColumnsInv, NEW dst \in issued, NEW src \in issued,
         CopyStyle(dst, src) \/ CopyLosesText(dst, src) \/ CopyLosesGrid(dst, src)
  PROVE  ColumnsInv'
<1> DEFINE to == columns[Index(dst)]
           from == columns[Index(src)]
           wto == given[dst]
           wfrom == given[src]
<1>1. CanCopy(dst, src)
  BY DEF CopyStyle, CopyLosesText, CopyLosesGrid
<1>2. open /\ Live(dst) /\ Live(src)
  BY <1>1 DEF CanCopy
<1>3. /\ to \in ColumnSlot /\ wto \in ColumnSlot /\ Holds(to, wto) /\ heap \in Int
      /\ from \in ColumnSlot /\ wfrom \in ColumnSlot /\ Holds(from, wfrom)
  BY <1>2, HeldSlot
<1>4. CASE CopyStyle(dst, src)
  <2> DEFINE slot == WithText(WithStyle(to, from), from)
             want == WithText(WithStyle(wto, wfrom), wfrom)
  <2>1. /\ columns' = [columns EXCEPT ![Index(dst)] = slot]
        /\ given' = [given EXCEPT ![dst] = want]
        /\ heap' = heap - OwnsGrid(to) + OwnsGrid(from) + 1 - OwnsText(to)
        /\ UNCHANGED <<slotVars, open, capacity>>
    BY <1>4 DEF CopyStyle, Put, HeapWithGrid
  <2> HIDE DEF to, from, wto, wfrom
  <2>2. slot \in ColumnSlot /\ want \in ColumnSlot /\ Holds(slot, want)
    BY <1>3, CopiedSlots, CopiedHold
  <2>3. heap' = heap - Owns(to) + Owns(slot)
    <3>1. /\ OwnsText(slot) = 1 /\ OwnsGrid(slot) = OwnsGrid(from)
          /\ OwnsText(to) \in Int /\ OwnsGrid(to) \in Int /\ OwnsGrid(from) \in Int
      BY <1>3, CopiedOwn
    <3> HIDE DEF slot
    <3> QED BY <1>3, <2>1, <3>1 DEF Owns
  <2> HIDE DEF slot, want
  <2> QED BY <1>2, <2>1, <2>2, <2>3, GivesInv DEF Gives, to
<1>5. CASE CopyLosesText(dst, src)
  <2> DEFINE slot == WithStyle(to, from)
             want == WithStyle(wto, wfrom)
  <2>1. /\ columns' = [columns EXCEPT ![Index(dst)] = slot]
        /\ given' = [given EXCEPT ![dst] = want]
        /\ heap' = heap - OwnsGrid(to) + OwnsGrid(from)
        /\ UNCHANGED <<slotVars, open, capacity>>
    BY <1>5 DEF CopyLosesText, HeapWithGrid
  <2> HIDE DEF to, from, wto, wfrom
  <2>2. slot \in ColumnSlot /\ want \in ColumnSlot /\ Holds(slot, want)
    BY <1>3, CopiedSlots, CopiedHold
  <2>3. heap' = heap - Owns(to) + Owns(slot)
    <3>1. /\ OwnsText(slot) = OwnsText(to) /\ OwnsGrid(slot) = OwnsGrid(from)
          /\ OwnsText(to) \in Int /\ OwnsGrid(to) \in Int /\ OwnsGrid(from) \in Int
      BY <1>3, CopiedOwn
    <3> HIDE DEF slot
    <3> QED BY <1>3, <2>1, <3>1 DEF Owns
  <2> HIDE DEF slot, want
  <2> QED BY <1>2, <2>1, <2>2, <2>3, GivesInv DEF Gives, to
<1>6. CASE CopyLosesGrid(dst, src)
  <2> DEFINE slot == [WithStyle(to, from) EXCEPT !.grid = NoGrid]
             want == [WithStyle(wto, wfrom) EXCEPT !.grid = NoGrid]
  <2>1. /\ columns' = [columns EXCEPT ![Index(dst)] = slot]
        /\ given' = [given EXCEPT ![dst] = want]
        /\ heap' = heap - OwnsGrid(to)
        /\ UNCHANGED <<slotVars, open, capacity>>
    BY <1>6 DEF CopyLosesGrid
  <2> HIDE DEF to, from, wto, wfrom
  <2>2. slot \in ColumnSlot /\ want \in ColumnSlot /\ Holds(slot, want)
    BY <1>3, CopiedSlots, CopiedHold
  <2>3. heap' = heap - Owns(to) + Owns(slot)
    <3>1. /\ OwnsText(slot) = OwnsText(to) /\ OwnsGrid(slot) = 0
          /\ OwnsText(to) \in Int /\ OwnsGrid(to) \in Int
      BY <1>3, CopiedOwn
    <3> HIDE DEF slot
    <3> QED BY <1>3, <2>1, <3>1 DEF Owns
  <2> HIDE DEF slot, want
  <2> QED BY <1>2, <2>1, <2>2, <2>3, GivesInv DEF Gives, to
<1> QED BY <1>4, <1>5, <1>6

-----------------------------------------------------------------------------
\* Initially the columns hold defaults.
LEMMA ColumnsInitInv == ColumnsInit => ColumnsInv
<1> SUFFICES ASSUME ColumnsInit PROVE ColumnsInv
  OBVIOUS
<1>1. SlotsInv
  BY InitInv DEF ColumnsInit
<1>2. capacity \in Nat
  <2>1. PICK n \in Initial : capacity = IF n = 0 THEN 0 ELSE NextCapacity(0, n + 1)
    BY DEF ColumnsInit
  <2> DEFINE more == n + 2
  <2>2. more \in Nat /\ FirstCap \in Nat \ {0} /\ n \in Nat
    BY ColumnsAssumption
  <2>3. NextCapacity(0, n + 1) = DoubledFor(FirstCap, more)
    BY <2>2 DEF NextCapacity
  <2> HIDE DEF more
  <2>4. DoubledFor(FirstCap, more) \in Nat
    BY <2>2, DoublingFits
  <2> QED BY <2>1, <2>3, <2>4
<1>3. columns = [i \in 0 .. capacity - 1 |-> Fresh] /\ heap = ArraysHeld /\ count = 0
  BY DEF ColumnsInit, SlotsInit
<1>4. ColumnsTypeOK /\ DeadWantNothing
  BY <1>2, <1>3, FreshSlot DEF ColumnsInit, ColumnsTypeOK, DeadWantNothing
<1>5. RoomForAll /\ LiveHold
  BY <1>3 DEF RoomForAll, LiveHold, Slots, Live, ColumnsInit, SlotsInit
<1>6. NothingLeaks
  <2>1. {i \in DOMAIN columns : columns[i].text # NoText} = {}
    BY <1>3 DEF Fresh
  <2>2. {i \in DOMAIN columns : columns[i].grid # NoGrid} = {}
    BY <1>3 DEF Fresh
  <2>3. OwnedBlocks(columns) = 0
    BY <2>1, <2>2, FS_EmptySet DEF OwnedBlocks
  <2> QED BY <1>3, <2>3 DEF NothingLeaks, ArraysHeld, Arrays
<1> QED BY <1>1, <1>4, <1>5, <1>6 DEF ColumnsInv

\* Growing the columns, with the slots as they are.
LEMMA ReserveInv ==
  ASSUME ColumnsInv, NEW n \in Slots, Reserve(n)
  PROVE  ColumnsInv'
<1> USE DEF ColumnsInv
<1>1. /\ open /\ UNCHANGED <<slotVars, open, given>>
      /\ capacity \in Nat /\ columns \in [0 .. capacity - 1 -> ColumnSlot]
  BY DEF Reserve, ColumnsTypeOK
<1>2. SlotsInv' /\ \A h : Live(h)' <=> Live(h)
  BY <1>1 DEF slotVars, Live, SlotsInv, SlotsTypeOK, IssuedBounded, LiveIssued, DyingIssued, FreeListSound
<1>3. DeadWantNothing'
  BY <1>1, <1>2 DEF DeadWantNothing
<1>4. OwnedBlocks(columns) \in Int /\ ArraysHeld \in Int /\ heap \in Int
  <2>1. OwnedBlocks(columns) \in Int
    BY <1>1, OwnedIsNumber
  <2> QED BY <2>1 DEF NothingLeaks, ArraysHeld, Arrays
<1>5. CASE UNCHANGED <<capacity, columns>> /\ \E k \in 0 .. Arrays - 1 : heap' = heap + k - FreedNew(k)
  <2>1. heap' = heap
    BY <1>4, <1>5 DEF FreedNew, Arrays
  <2>2. NothingLeaks'
    BY <1>5, <2>1 DEF NothingLeaks, ArraysHeld
  <2> QED BY <1>1, <1>2, <1>3, <1>5, <2>2 DEF ColumnsTypeOK, RoomForAll, LiveHold, slotVars
<1>6. CASE /\ capacity' = NextCapacity(capacity, n + 1)
           /\ columns' = GrownTo(capacity')
           /\ heap' = HeapAt(capacity')
           /\ n + 1 > capacity
  <2> DEFINE needed == n + 1
  <2>1. needed \in Nat /\ needed > capacity
    BY <1>6 DEF Slots
  <2>2. capacity' = NextCapacity(capacity, needed)
    BY <1>6
  <2> HIDE DEF needed
  <2>3. capacity' \in Nat /\ needed < capacity'
    BY <1>1, <2>1, <2>2, GrownIsEnough
  <2>4. capacity' # 0 /\ capacity <= capacity' /\ capacity' # capacity
    BY <1>1, <2>1, <2>3
  <2>5. /\ columns' \in [0 .. capacity' - 1 -> ColumnSlot]
        /\ \A i \in 0 .. capacity - 1 : columns'[i] = columns[i]
        /\ OwnedBlocks(columns') = OwnedBlocks(columns)
    BY <1>6, <2>3, <2>4, OwnedAfterGrowth
  <2>6. NothingLeaks'
    <3>1. heap' = heap + Arrays - ArraysHeld /\ ArraysHeld' = Arrays
      BY <1>6, <2>4 DEF HeapAt, ArraysHeld
    <3> QED BY <1>4, <2>5, <3>1 DEF NothingLeaks, Arrays
  <2>7. ColumnsTypeOK' /\ RoomForAll'
    <3>1. ColumnsTypeOK'
      BY <1>1, <2>3, <2>5 DEF ColumnsTypeOK
    <3>2. ASSUME NEW i \in Slots, i <= count PROVE i < capacity'
      <4>1. i < capacity /\ i \in Nat
        BY <1>1, <3>2 DEF RoomForAll, Slots
      <4> QED BY <1>1, <2>3, <2>4, <4>1
    <3> QED BY <1>1, <3>1, <3>2 DEF RoomForAll, slotVars
  <2>8. LiveHold'
    <3>1. ASSUME NEW h \in Handles, Live(h) PROVE Holds(columns'[Index(h)], given'[h])
      BY <1>1, <2>5, <3>1, LiveInside DEF LiveHold
    <3> QED BY <1>2, <3>1 DEF LiveHold
  <2> QED BY <1>2, <1>3, <2>6, <2>7, <2>8
<1> QED BY <1>5, <1>6 DEF Reserve

\* xent_node_create resets the slot, and frees what was left there.
LEMMA ColumnsCreateInv ==
  ASSUME ColumnsInv, ColumnsCreate
  PROVE  ColumnsInv'
<1> DEFINE i == NextSlot
           new == <<i, generation'[i]>>
           size == IF freeList # <<>> THEN capacity ELSE EnoughFor(EnsuredFor(i))
           grown == GrownTo(size)
<1> USE DEF ColumnsInv
<1>1. /\ open /\ open' /\ given' = given
      /\ CreateReused \/ CreateFresh
      /\ capacity' = size
      /\ heap' = HeapAt(capacity') - Owns(GrownTo(capacity')[i])
      /\ capacity \in Nat /\ columns \in [0 .. capacity - 1 -> ColumnSlot]
      /\ given \in [Handles -> ColumnSlot]
  BY DEF ColumnsCreate, ColumnsTypeOK
<1>2. columns' = [grown EXCEPT ![i] = Fresh]
  BY <1>1 DEF ColumnsCreate, ResetNode
<1>3. SlotsInv'
  BY <1>1, CreateReusedInv, CreateFreshInv
<1>4. /\ i \in Slots /\ i <= count'
      /\ count' = IF freeList # <<>> THEN count ELSE i
      /\ ~alive[i]
      /\ new \in Handles
      /\ \A h \in Handles : Live(h)' <=> Live(h) \/ h = new
  BY <1>1, CreateRevives
<1>5. /\ size \in Nat /\ capacity <= size /\ i \in 0 .. size - 1
      /\ freeList = <<>> => i + 1 <= size
  <2>1. CASE freeList # <<>>
    <3>1. i < capacity /\ i \in Nat
      BY <1>1, <1>4, <2>1 DEF RoomForAll, Slots
    <3> QED BY <1>1, <2>1, <3>1
  <2>2. CASE freeList = <<>>
    <3> DEFINE n == i + 1
    <3>1. n \in Nat /\ size = EnoughFor(n) /\ i \in Nat
      BY <1>4, <2>2 DEF EnsuredFor, Slots
    <3> HIDE DEF i, size
    <3>2. size \in Nat /\ n <= size /\ capacity <= size
      <4> HIDE DEF n
      <4> QED BY <1>1, <3>1, GrownIsEnough
    <3> QED BY <3>1, <3>2
  <2> QED BY <2>1, <2>2
<1> HIDE DEF size
<1>6. /\ grown \in [0 .. size - 1 -> ColumnSlot]
      /\ \A j \in 0 .. capacity - 1 : grown[j] = columns[j]
      /\ OwnedBlocks(grown) = OwnedBlocks(columns)
  BY <1>5, OwnedAfterGrowth
<1>7. GrownTo(capacity')[i] = grown[i]
  BY <1>1
<1> HIDE DEF grown, i
<1>8. ColumnsTypeOK'
  BY <1>1, <1>2, <1>5, <1>6, FreshSlot DEF ColumnsTypeOK
<1>9. RoomForAll'
  <2>1. ASSUME NEW j \in Slots, j <= count' PROVE j < size
    <3>1. j \in Nat /\ i \in Nat /\ count \in Nat
      BY <1>4 DEF Slots, SlotsTypeOK, SlotsInv
    <3>2. CASE j <= count
      BY <1>1, <1>5, <3>1, <3>2 DEF RoomForAll
    <3>3. CASE ~(j <= count)
      BY <1>4, <1>5, <2>1, <3>1, <3>3
    <3> QED BY <3>2, <3>3
  <2> QED BY <1>1, <2>1 DEF RoomForAll
<1>10. LiveHold'
  <2>1. ASSUME NEW h \in Handles, Live(h) PROVE Holds(columns'[Index(h)], given'[h])
    <3>1. Index(h) \in 0 .. capacity - 1 /\ Holds(columns[Index(h)], given[h]) /\ Index(h) # i
      BY <1>1, <1>4, <2>1, LiveInside DEF LiveHold, Live
    <3>2. Index(h) \in 0 .. size - 1 /\ grown[Index(h)] = columns[Index(h)]
      BY <1>1, <1>5, <1>6, <3>1
    <3> QED BY <1>1, <1>2, <1>6, <3>1, <3>2
  <2>2. ASSUME ~Live(new) PROVE Holds(columns'[Index(new)], given'[new])
    <3>1. given[new] = Fresh /\ Index(new) = i
      BY <1>4, <2>2 DEF DeadWantNothing, Index
    <3> QED BY <1>1, <1>2, <1>5, <1>6, <3>1 DEF Holds
  <2> HIDE DEF new
  <2> QED BY <1>4, <2>1, <2>2 DEF LiveHold
<1>11. DeadWantNothing'
  <2> HIDE DEF new
  <2> QED BY <1>1, <1>4 DEF DeadWantNothing
<1>12. NothingLeaks'
  <2>1. /\ OwnedBlocks(grown) \in Int
        /\ OwnedBlocks(columns') = OwnedBlocks(grown) - Owns(grown[i]) + Owns(Fresh)
    <3>1. size \in Nat /\ grown \in [0 .. size - 1 -> ColumnSlot] /\ i \in 0 .. size - 1 /\ Fresh \in ColumnSlot
      BY <1>5, <1>6, FreshSlot
    <3> QED BY <1>2, <3>1, OwnedAfterWrite
  <2>2. Owns(grown[i]) \in Int /\ Owns(Fresh) = 0 /\ ArraysHeld \in Int
    BY FreshSlot DEF Owns, OwnsText, OwnsGrid, ArraysHeld, Arrays
  <2>3. HeapAt(capacity') = heap - ArraysHeld + ArraysHeld'
    <3>1. heap \in Int
      BY <1>6, <2>1, <2>2 DEF NothingLeaks
    <3>2. CASE capacity' = capacity
      BY <2>2, <3>1, <3>2 DEF HeapAt, ArraysHeld
    <3>3. CASE capacity' # capacity
      <4>1. capacity' # 0
        BY <1>1, <1>5, <3>3
      <4> QED BY <2>2, <3>1, <3>3, <4>1 DEF HeapAt, ArraysHeld, Arrays
    <3> QED BY <3>2, <3>3
  <2>4. ArraysHeld' \in Int
    BY DEF ArraysHeld, Arrays
  <2>5. heap = OwnedBlocks(columns) + ArraysHeld
    BY DEF NothingLeaks
  <2>6. heap' = HeapAt(capacity') - Owns(grown[i])
    BY <1>1, <1>7
  <2>7. heap' = OwnedBlocks(columns') + ArraysHeld'
    BY <1>6, <2>1, <2>2, <2>3, <2>4, <2>5, <2>6
  <2> QED BY <2>7 DEF NothingLeaks
<1> QED BY <1>3, <1>8, <1>9, <1>10, <1>11, <1>12

\* destroy_single_node frees what the slot owns; nobody wants anything of it.
LEMMA ColumnsKillInv ==
  ASSUME ColumnsInv, NEW h \in issued, ColumnsKill(h)
  PROVE  ColumnsInv'
<1> DEFINE i == Index(h)
           slot == [columns[i] EXCEPT !.text = NoText, !.grid = NoGrid]
<1> USE DEF ColumnsInv
<1>1. /\ open /\ Live(h) /\ Kill(h)
      /\ alive' = [alive EXCEPT ![i] = FALSE] /\ generation' = generation /\ count' = count
      /\ heap' = heap - Owns(columns[i])
      /\ given' = [given EXCEPT ![h] = Fresh]
      /\ UNCHANGED <<open, capacity>>
  BY DEF ColumnsKill, Kill
<1>2. /\ h \in Handles /\ i \in 0 .. capacity - 1 /\ columns[i] \in ColumnSlot /\ heap \in Int
      /\ i \in Slots
  BY <1>1, HeldSlot DEF Live
<1>3. columns' = [columns EXCEPT ![i] = slot]
  BY DEF ColumnsKill
<1>4. slot \in ColumnSlot /\ Owns(slot) = 0
  <2> DEFINE old == columns[i]
  <2> HIDE DEF old
  <2>1. old \in ColumnSlot /\ slot = [old EXCEPT !.text = NoText, !.grid = NoGrid]
    BY <1>2 DEF old
  <2> HIDE DEF slot
  <2>2. slot \in ColumnSlot
    BY <2>1 DEF ColumnSlot
  <2>3. slot.text = NoText /\ slot.grid = NoGrid
    BY <2>1 DEF ColumnSlot
  <2> QED BY <2>2, <2>3 DEF Owns, OwnsText, OwnsGrid
<1>5. SlotsInv'
  BY <1>1, KillInv
<1>6. \A g \in Handles : Live(g)' <=> Live(g) /\ g # h
  <2>1. ASSUME NEW g \in Handles, Live(g), g # h PROVE Index(g) # i
    BY <1>1, <1>2, <2>1, OneLiveNode
  <2>2. alive \in [Slots -> BOOLEAN]
    BY DEF SlotsInv, SlotsTypeOK
  <2> QED BY <1>1, <1>2, <2>1, <2>2 DEF Live
<1>7. /\ capacity \in Nat /\ columns \in [0 .. capacity - 1 -> ColumnSlot]
      /\ given \in [Handles -> ColumnSlot]
  BY DEF ColumnsTypeOK
<1> HIDE DEF slot
<1>8. ColumnsTypeOK' /\ RoomForAll'
  BY <1>1, <1>2, <1>3, <1>4, <1>7, FreshSlot DEF ColumnsTypeOK, RoomForAll
<1>9. LiveHold'
  <2>1. ASSUME NEW g \in Handles, Live(g), g # h PROVE Holds(columns'[Index(g)], given'[g])
    <3>1. Index(g) \in 0 .. capacity - 1 /\ Holds(columns[Index(g)], given[g]) /\ Index(g) # i
      BY <1>1, <1>2, <2>1, OneLiveNode, LiveInside DEF LiveHold
    <3> QED BY <1>1, <1>3, <1>7, <2>1, <3>1
  <2> QED BY <1>6, <2>1 DEF LiveHold
<1>10. DeadWantNothing'
  BY <1>1, <1>2, <1>6, <1>7 DEF DeadWantNothing
<1>11. NothingLeaks'
  <2>1. OwnedBlocks(columns) \in Int /\ OwnedBlocks(columns') = OwnedBlocks(columns) - Owns(columns[i]) + Owns(slot)
    BY <1>2, <1>3, <1>4, <1>7, OwnedAfterWrite
  <2>2. Owns(columns[i]) \in Int /\ ArraysHeld \in Int /\ ArraysHeld' = ArraysHeld
    BY <1>1 DEF Owns, OwnsText, OwnsGrid, ArraysHeld, Arrays
  <2>3. heap = OwnedBlocks(columns) + ArraysHeld
    BY DEF NothingLeaks
  <2>4. heap' = OwnedBlocks(columns') + ArraysHeld'
    BY <1>1, <1>4, <2>1, <2>2, <2>3
  <2> QED BY <2>4 DEF NothingLeaks
<1> QED BY <1>5, <1>8, <1>9, <1>10, <1>11

\* The steps that free no slot's columns and write none.
LEMMA QuietColumnsInv ==
  ASSUME ColumnsInv, ColumnsRelease \/ Layout \/ UNCHANGED <<slotVars, columnVars>>
  PROVE  ColumnsInv'
<1> USE DEF ColumnsInv
<1>1. UNCHANGED <<open, capacity, columns, heap, given>>
  BY DEF ColumnsRelease, Layout, columnVars
<1>2. /\ SlotsInv'
      /\ count' = count
      /\ \A h \in Handles : Live(h)' <=> Live(h)
  <2>1. CASE Retire
    BY <2>1, RetireInv DEF Retire, Live
  <2>2. CASE Recycle
    <3>1. Index(dying) \in Slots /\ ~alive[Index(dying)]
      BY <2>2, HandlePair DEF Recycle, DyingIssued, SlotsInv, SlotsTypeOK
    <3> QED BY <2>2, <3>1, RecycleInv DEF Recycle, Live, SlotsInv, SlotsTypeOK
  <2>3. CASE UNCHANGED slotVars
    BY <2>3 DEF slotVars, Live, SlotsInv, SlotsTypeOK, IssuedBounded, LiveIssued, DyingIssued, FreeListSound
  <2> QED BY <2>1, <2>2, <2>3 DEF ColumnsRelease, Layout
<1>3. ColumnsTypeOK' /\ RoomForAll' /\ NothingLeaks'
  BY <1>1, <1>2 DEF ColumnsTypeOK, RoomForAll, NothingLeaks, ArraysHeld
<1>4. LiveHold' /\ DeadWantNothing'
  BY <1>1, <1>2 DEF LiveHold, DeadWantNothing
<1> QED BY <1>2, <1>3, <1>4

\* xent_ctx_destroy frees it all.
LEMMA ColumnsDestroyInv ==
  ASSUME ColumnsInv, ColumnsDestroy
  PROVE  ColumnsInv'
<1> USE DEF ColumnsInv
<1>1. /\ ~open' /\ open' \in BOOLEAN /\ capacity' = 0 /\ columns' = [i \in {} |-> Fresh]
      /\ heap' = heap - OwnedBlocks(columns) - ArraysHeld
      /\ UNCHANGED <<slotVars, given>>
  BY DEF ColumnsDestroy
<1>2. SlotsInv' /\ \A h : Live(h)' <=> Live(h)
  BY <1>1 DEF slotVars, Live, SlotsInv, SlotsTypeOK, IssuedBounded, LiveIssued, DyingIssued, FreeListSound
<1>3. DOMAIN columns' = {}
  BY <1>1
<1>4. ColumnsTypeOK' /\ RoomForAll' /\ LiveHold'
  <2>1. 0 .. capacity' - 1 = {}
    BY <1>1
  <2>2. columns' \in [0 .. capacity' - 1 -> ColumnSlot]
    BY <1>1, <2>1
  <2> QED BY <1>1, <2>2 DEF ColumnsTypeOK, RoomForAll, LiveHold
<1>5. DeadWantNothing'
  BY <1>1, <1>2 DEF DeadWantNothing
<1>6. NothingLeaks'
  <2>1. /\ {i \in DOMAIN columns' : columns'[i].text # NoText} = {}
        /\ {i \in DOMAIN columns' : columns'[i].grid # NoGrid} = {}
    BY <1>3
  <2>2. OwnedBlocks(columns') = 0
    BY <2>1, FS_EmptySet DEF OwnedBlocks
  <2>3. OwnedBlocks(columns) \in Int /\ ArraysHeld \in Int /\ ArraysHeld' = 0
    BY <1>1, OwnedIsNumber DEF ColumnsTypeOK, ArraysHeld, Arrays
  <2>4. heap = OwnedBlocks(columns) + ArraysHeld
    BY DEF NothingLeaks
  <2>5. heap' = OwnedBlocks(columns') + ArraysHeld'
    BY <1>1, <2>2, <2>3, <2>4
  <2> QED BY <2>5 DEF NothingLeaks
<1> QED BY <1>2, <1>4, <1>5, <1>6

LEMMA ColumnsStepInv == ColumnsInv /\ [ColumnsNext]_<<slotVars, columnVars>> => ColumnsInv'
<1> SUFFICES ASSUME ColumnsInv, [ColumnsNext]_<<slotVars, columnVars>> PROVE ColumnsInv'
  OBVIOUS
<1>1. CASE ColumnsRelease \/ Layout \/ UNCHANGED <<slotVars, columnVars>>
  BY <1>1, QuietColumnsInv
<1>2. CASE \E n \in Slots : Reserve(n)
  BY <1>2, ReserveInv
<1>3. CASE ColumnsCreate
  BY <1>3, ColumnsCreateInv
<1>4. CASE ColumnsDestroy
  BY <1>4, ColumnsDestroyInv
<1>5. ASSUME NEW h \in issued, ColumnsKill(h) PROVE ColumnsInv'
  BY <1>5, ColumnsKillInv
<1>6. ASSUME NEW h \in issued, SetLayoutStyle(h) \/ SetFlexStyle(h) \/ SetStackStyle(h) \/ SetPlacement(h)
      PROVE  ColumnsInv'
  BY <1>6, SetStyleInv DEF SetLayoutStyle, SetFlexStyle, SetStackStyle, SetPlacement
<1>7. ASSUME NEW h \in issued, NEW f \in Fonts, SetFont(h, f) PROVE ColumnsInv'
  BY <1>7, SetFontInv
<1>8. ASSUME NEW h \in issued, NEW t \in Texts, SetText(h, t) PROVE ColumnsInv'
  BY <1>8, SetTextInv
<1>9. ASSUME NEW h \in issued, NEW g \in Grids, SetGrid(h, g) PROVE ColumnsInv'
  BY <1>9, SetGridInv
<1>10. ASSUME NEW h \in issued, SetGridRefused(h) PROVE ColumnsInv'
  BY <1>10, SetGridRefusedInv
<1>11. ASSUME NEW h \in issued, NEW src \in issued,
              CopyStyle(h, src) \/ CopyLosesText(h, src) \/ CopyLosesGrid(h, src)
       PROVE  ColumnsInv'
  BY <1>11, CopyInv
<1> QED BY <1>1, <1>2, <1>3, <1>4, <1>5, <1>6, <1>7, <1>8, <1>9, <1>10, <1>11 DEF ColumnsNext

\* The invariant holds in every reachable state.
THEOREM ColumnsInvariance == ColumnsSpec => []ColumnsInv
  BY ColumnsInitInv, ColumnsStepInv, PTL DEF ColumnsSpec

\* A live node's columns hold what was asked of it, with nothing of the nodes
\* that had its slot before: xent_arena_reset_node, the setters and the growth
\* of the columns keep them apart.
THEOREM ColumnsStayOwn == ColumnsSpec => []ColumnsAreOwn
<1>1. ColumnsInv => ColumnsAreOwn
  <2> SUFFICES ASSUME ColumnsInv, open, NEW h \in LiveHandles
               PROVE  Index(h) < capacity /\ Holds(columns[Index(h)], given[h])
    BY DEF ColumnsAreOwn, Holds
  <2>1. h \in Handles /\ Live(h)
    BY DEF LiveHandles, ColumnsInv, SlotsInv, SlotsTypeOK
  <2>2. Index(h) \in 0 .. capacity - 1
    BY <2>1, LiveInside DEF ColumnsInv
  <2>3. Index(h) < capacity
    BY <2>2 DEF ColumnsInv, ColumnsTypeOK
  <2> QED BY <2>1, <2>3 DEF ColumnsInv, LiveHold
<1> QED BY <1>1, ColumnsInvariance, PTL

\* Every block that the store allocates is owned by one slot, or is a column,
\* and destroying the context frees them all, whichever allocations fail.
THEOREM EverythingIsFreed == ColumnsSpec => []NothingLeaks
<1>1. ColumnsInv => NothingLeaks
  BY DEF ColumnsInv
<1> QED BY <1>1, ColumnsInvariance, PTL

\* A step that writes the columns of one slot changes those of no live node
\* but the one in it.
LEMMA WritesOneNode ==
  ASSUME ColumnsInv, open, NEW h \in issued, Live(h), NEW g \in issued, Live(g), g # h,
         NEW slot, columns' = [columns EXCEPT ![Index(g)] = slot]
  PROVE  columns'[Index(h)] = columns[Index(h)]
<1>1. h \in Handles /\ g \in Handles
  BY DEF ColumnsInv, SlotsInv, SlotsTypeOK
<1>2. Index(h) # Index(g)
  BY <1>1, OneLiveNode
<1> QED BY <1>2, HeldSlot DEF ColumnsInv, ColumnsTypeOK

\* Nothing happens after xent_ctx_destroy.
LEMMA StepsAreOpen == ColumnsNext => open
<1> SUFFICES ASSUME ColumnsNext PROVE open
  OBVIOUS
<1>1. ASSUME NEW h \in issued, NEW slot, Put(h, slot) PROVE open
  BY <1>1 DEF Put
<1>2. CASE (\E n \in Slots : Reserve(n)) \/ ColumnsCreate \/ ColumnsRelease \/ ColumnsDestroy \/ Layout
  BY <1>2 DEF Reserve, ColumnsCreate, ColumnsRelease, ColumnsDestroy, Layout
<1>3. ASSUME NEW h \in issued, ColumnsKill(h) \/ SetGridRefused(h) PROVE open
  BY <1>3 DEF ColumnsKill, SetGridRefused
<1>4. ASSUME NEW h \in issued, NEW src \in issued, CopyLosesText(h, src) \/ CopyLosesGrid(h, src)
      PROVE  open
  BY <1>4 DEF CopyLosesText, CopyLosesGrid, CanCopy
<1>5. ASSUME NEW h \in issued,
             \/ \E s \in Styles : SetStyle(h, s)
             \/ \E f \in Fonts : SetFont(h, f)
             \/ \E t \in Texts : SetText(h, t)
             \/ \E d \in Grids : SetGrid(h, d)
             \/ \E src \in issued : CopyStyle(h, src)
      PROVE  open
  BY <1>1, <1>5 DEF SetStyle, SetFont, SetText, SetGrid, CopyStyle
<1> QED BY <1>2, <1>3, <1>4, <1>5
        DEF ColumnsNext, SetLayoutStyle, SetFlexStyle, SetStackStyle, SetPlacement

\* No setter, copy, growth or reuse changes the columns of a live node without
\* marking it, but for a copy that fails halfway and a refused grid setter.
THEOREM ChangesStayMarked == ColumnsSpec => ChangesAreMarked
<1> DEFINE Told(h) ==
      open' /\ Live(h) /\ Live(h)' /\ columns'[Index(h)] # columns[Index(h)] =>
        \/ h \in marked' \cup halfway'
        \/ columns'[Index(h)] = [columns[Index(h)] EXCEPT !.grid = EmptyGrid]
<1>1. ASSUME ColumnsInv, [ColumnsNext]_<<slotVars, columnVars>>, NEW h \in issued
      PROVE  Told(h)
  <2> SUFFICES ASSUME open', Live(h), Live(h)', columns'[Index(h)] # columns[Index(h)]
               PROVE  \/ h \in marked' \cup halfway'
                      \/ columns'[Index(h)] = [columns[Index(h)] EXCEPT !.grid = EmptyGrid]
    OBVIOUS
  <2> USE <1>1
  <2>0. open
    BY StepsAreOpen DEF columnVars
  <2>1. CASE ColumnsRelease \/ Layout \/ ColumnsDestroy \/ UNCHANGED <<slotVars, columnVars>>
    BY <2>1 DEF ColumnsRelease, Layout, ColumnsDestroy, columnVars
  <2>2. h \in Handles /\ Index(h) \in 0 .. capacity - 1 /\ columns[Index(h)] \in ColumnSlot
    BY <2>0, HeldSlot
  <2>3. CASE \E n \in Slots : Reserve(n)
    <3>1. /\ capacity \in Nat /\ \A i \in Slots : i + 1 \in Nat
          /\ \/ columns' = columns
             \/ \E n \in Slots : columns' = GrownTo(NextCapacity(capacity, n + 1)) /\ n + 1 > capacity
      BY <2>3 DEF Reserve, ColumnsInv, ColumnsTypeOK, Slots
    <3>2. PICK n \in Slots : columns' = GrownTo(NextCapacity(capacity, n + 1)) /\ n + 1 > capacity
      BY <3>1
    <3> DEFINE needed == n + 1
    <3>3. needed \in Nat /\ needed > capacity /\ columns' = GrownTo(NextCapacity(capacity, needed))
      BY <3>1, <3>2
    <3> HIDE DEF needed
    <3>4. NextCapacity(capacity, needed) \in Nat /\ capacity <= NextCapacity(capacity, needed)
      BY <3>1, <3>3, GrownIsEnough
    <3> QED BY <2>2, <3>3, <3>4, OwnedAfterGrowth DEF ColumnsInv
  <2>4. CASE ColumnsCreate
    <3> DEFINE i == NextSlot
               grown == GrownTo(capacity')
    <3>1. columns' = [grown EXCEPT ![i] = Fresh] /\ (CreateReused \/ CreateFresh)
      BY <2>4 DEF ColumnsCreate, ResetNode
    <3>2. i \in Slots /\ Index(h) # i
      BY <3>1, CreateRevives DEF ColumnsInv, Live
    <3>3. capacity' \in Nat /\ capacity \in Nat /\ capacity <= capacity'
      <4>1. i + 1 \in Nat /\ capacity \in Nat
        BY <3>2 DEF ColumnsInv, ColumnsTypeOK, Slots
      <4>2. EnoughFor(i + 1) \in Nat /\ capacity <= EnoughFor(i + 1)
        BY <4>1, GrownIsEnough
      <4> QED BY <2>4, <4>1, <4>2 DEF ColumnsCreate, EnsuredFor
    <3>4. /\ grown \in [0 .. capacity' - 1 -> ColumnSlot]
          /\ grown[Index(h)] = columns[Index(h)]
      BY <2>2, <3>3, OwnedAfterGrowth DEF ColumnsInv
    <3> HIDE DEF i, grown
    <3>5. Index(h) \in 0 .. capacity' - 1
      BY <2>2, <3>3
    <3> QED BY <3>1, <3>2, <3>4, <3>5
  <2>5. ASSUME NEW g \in issued, ColumnsKill(g) PROVE FALSE
    <3>1. Live(g) /\ columns' = [columns EXCEPT ![Index(g)].text = NoText, ![Index(g)].grid = NoGrid]
      BY <2>5 DEF ColumnsKill, Kill
    <3>2. g # h
      BY <2>5 DEF ColumnsKill, Kill, Live, ColumnsInv, SlotsInv, SlotsTypeOK
    <3> QED BY <2>0, <3>1, <3>2, WritesOneNode
  <2>6. ASSUME NEW g \in issued, NEW slot, Put(g, slot) PROVE h \in marked'
    <3>1. Live(g) /\ columns' = [columns EXCEPT ![Index(g)] = slot] /\ g \in marked'
      BY <2>6 DEF Put
    <3> QED BY <2>0, <3>1, WritesOneNode
  <2>7. ASSUME NEW g \in issued, NEW slot, Live(g), columns' = [columns EXCEPT ![Index(g)] = slot],
               halfway' = halfway \cup {g}
        PROVE  h \in halfway'
    BY <2>0, <2>7, WritesOneNode
  <2>8. ASSUME NEW g \in issued, SetGridRefused(g)
        PROVE  columns'[Index(h)] = [columns[Index(h)] EXCEPT !.grid = EmptyGrid]
    <3>1. columns' = [columns EXCEPT ![Index(g)] = Ensured(columns[Index(g)])]
      BY <2>8 DEF SetGridRefused
    <3>2. columns \in [0 .. capacity - 1 -> ColumnSlot]
      BY DEF ColumnsInv, ColumnsTypeOK
    <3>3. columns'[Index(h)] = Ensured(columns[Index(h)])
      BY <2>2, <3>1, <3>2
    <3> QED BY <3>3 DEF Ensured
  <2>9. ASSUME NEW g \in issued, NEW src \in issued, CopyLosesText(g, src) \/ CopyLosesGrid(g, src)
        PROVE  h \in halfway'
    BY <2>7, <2>9 DEF CopyLosesText, CopyLosesGrid, CanCopy
  <2>10. ASSUME NEW g \in issued,
                \/ \E s \in Styles : SetStyle(g, s)
                \/ \E f \in Fonts : SetFont(g, f)
                \/ \E t \in Texts : SetText(g, t)
                \/ \E d \in Grids : SetGrid(g, d)
                \/ \E src \in issued : CopyStyle(g, src)
         PROVE  h \in marked'
    BY <2>6, <2>10 DEF SetStyle, SetFont, SetText, SetGrid, CopyStyle
  <2> QED BY <2>1, <2>3, <2>4, <2>5, <2>8, <2>9, <2>10
          DEF ColumnsNext, SetLayoutStyle, SetFlexStyle, SetStackStyle, SetPlacement
<1>2. ColumnsInv /\ [ColumnsNext]_<<slotVars, columnVars>> => [\A h \in issued : Told(h)]_columnVars
  BY <1>1
<1> QED BY <1>2, ColumnsInvariance, PTL DEF ColumnsSpec, ChangesAreMarked
=============================================================================
