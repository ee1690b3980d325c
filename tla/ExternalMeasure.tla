--------------------------- MODULE ExternalMeasure ---------------------------
(***************************************************************************)
(* The external measure callbacks of src/core/xent_measure.c: an array     *)
(* indexed by slot whose entries name the node that owns them, so that a   *)
(* node created in a reused slot is not measured by its predecessor's      *)
(* callback.  The array grows on demand, apart from the node store.        *)
(*                                                                         *)
(* Setting and clearing mark the node dirty, which is DirtyTree's          *)
(* SetColumn; both are allowed inside observers.                           *)
(***************************************************************************)
EXTENDS NodeSlots, Doubling

CONSTANTS
  Callbacks,    \* the callbacks of a client
  Nobody,       \* no callback (a null pointer)
  MeasureChunk  \* the first capacity of the array (32 in the code)

ASSUME MeasureAssumption ==
  /\ Nobody \notin Callbacks
  /\ MeasureChunk \in Nat \ {0}

VARIABLES
  measures,    \* external_measures: owner and fn of every slot
  measureCap,  \* external_measure_cap
  wanted       \* history: the callback each handle was last given

measureVars == <<measures, measureCap, wanted>>
allVars == <<alive, generation, count, freeList, freeCap, dying, issued,
             measures, measureCap, wanted>>

Free == [owner |-> Null, fn |-> Nobody]

MeasureInit ==
  /\ SlotsInit
  /\ measures = [i \in Slots |-> Free]
  /\ measureCap = 0
  /\ wanted = [h \in Handles |-> Nobody]

-----------------------------------------------------------------------------
\* measure_owned: the callback of a handle.
OwnedBySlot(h) == measures[Index(h)].fn  \* faulty: does not compare handles
Owned(h) ==
  IF Index(h) < measureCap /\ measures[Index(h)].owner = h THEN measures[Index(h)].fn ELSE Nobody

\* measure_reserve, for index i.  Entries beyond the old capacity are zero.
Grown(i) ==
  IF i < measureCap THEN measureCap
  ELSE DoubledFor(IF measureCap = 0 THEN MeasureChunk ELSE 2 * measureCap, i + 1)

\* xent_node_setmeasure.  When the array cannot grow nothing changes.
SetMeasure(h, fn) ==
  /\ Live(h)
  /\ measureCap' = Grown(Index(h))
  /\ measures' = [measures EXCEPT ![Index(h)] = [owner |-> h, fn |-> fn]]
  /\ wanted' = [wanted EXCEPT ![h] = fn]
  /\ UNCHANGED slotVars

\* xent_node_clearmeasure
ClearMeasure(h) ==
  /\ Owned(h) # Nobody
  /\ measures' = [measures EXCEPT ![Index(h)] = Free]
  /\ wanted' = [wanted EXCEPT ![h] = Nobody]
  /\ UNCHANGED <<slotVars, measureCap>>

\* xent_extmeasure_on_destroy
OnDestroy(h) == IF Owned(h) = Nobody THEN measures ELSE [measures EXCEPT ![Index(h)] = Free]

\* destroy_single_node forgets the callback before the observers run.
MeasureKill(h) ==
  /\ Kill(h)
  /\ measures' = OnDestroy(h)
  /\ wanted' = [wanted EXCEPT ![h] = Nobody]
  /\ UNCHANGED measureCap

MeasureCreate == (CreateReused \/ CreateFresh) /\ UNCHANGED measureVars

MeasureRelease == (Retire \/ Recycle) /\ UNCHANGED measureVars

MeasureNext ==
  \/ MeasureCreate
  \/ MeasureRelease
  \/ \E h \in issued :
       \/ MeasureKill(h)
       \/ ClearMeasure(h)
       \/ \E fn \in Callbacks : SetMeasure(h, fn)

MeasureSpec == MeasureInit /\ [][MeasureNext]_allVars

-----------------------------------------------------------------------------
MeasureTypeOK ==
  /\ measures \in [Slots -> [owner : Handles \cup {Null}, fn : Callbacks \cup {Nobody}]]
  /\ measureCap \in Nat
  /\ wanted \in [Handles -> Callbacks \cup {Nobody}]

(***************************************************************************)
(* A handle is measured by the callback it was last given, if it was not   *)
(* cleared since, and by none when it is dead or was given none: never by  *)
(* that of another node that had, or now has, its slot.                    *)
(***************************************************************************)
MeasuresAreOwn ==
  \A h \in Handles :
    /\ Owned(h) = wanted[h]
    /\ wanted[h] # Nobody => Live(h)
=============================================================================
