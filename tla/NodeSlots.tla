------------------------------ MODULE NodeSlots ------------------------------
(***************************************************************************)
(* The lifetime of the slots of the node store (src/core/xent_tree.c):     *)
(* which slots hold a live node, the generation stored in each, and the    *)
(* LIFO list of slots to reuse.                                            *)
(*                                                                         *)
(* A node id packs a slot index and a generation; the module keeps the two *)
(* as a pair <<index, generation>>.  The packing is injective, so nothing  *)
(* is lost.  Column data (styles, text, grid definitions) plays no part in *)
(* the lifetime and is left out.                                           *)
(***************************************************************************)
EXTENDS Integers, Sequences

CONSTANTS
  MaxSlots,   \* the last usable slot index (UINT32_MAX - 1 in the code)
  MaxGen,     \* the last generation of a slot (UINT32_MAX in the code)
  FreeChunk,  \* the first capacity of free_indices (64 in the code)
  Faults      \* may allocations fail?

ASSUME SlotsAssumption ==
  /\ MaxSlots \in Nat \ {0}
  /\ MaxGen \in Nat \ {0}
  /\ FreeChunk \in Nat \ {0}
  /\ Faults \in BOOLEAN

Slots == 1 .. MaxSlots
Generations == 1 .. MaxGen
Handles == Slots \X Generations

\* XENT_NODE_INVALID: no slot has index 0.
Null == <<0, 0>>
Index(h) == h[1]
Generation(h) == h[2]

VARIABLES
  alive,       \* alive[i]: slot i holds a live node
  generation,  \* the generation stored in slot i (0: never used)
  count,       \* the highest slot index ever handed out
  freeList,    \* free_indices, a stack: the last entry is reused first
  freeCap,     \* its allocated capacity
  dying,       \* the handle whose DESTROY observers run, or Null
  issued       \* history: every handle xent_node_create has returned

slotVars == <<alive, generation, count, freeList, freeCap, dying, issued>>

(***************************************************************************)
(* xent_live_index: a handle resolves only in a slot that is alive with    *)
(* the handle's own generation.                                            *)
(***************************************************************************)
Live(h) ==
  /\ Index(h) \in Slots
  /\ alive[Index(h)]
  /\ generation[Index(h)] = Generation(h)

HandleOf(i) == IF alive[i] THEN <<i, generation[i]>> ELSE Null

LiveHandles == {h \in issued : Live(h)}

SlotsInit ==
  /\ alive = [i \in Slots |-> FALSE]
  /\ generation = [i \in Slots |-> 0]
  /\ count = 0
  /\ freeList = <<>>
  /\ freeCap = 0
  /\ dying = Null
  /\ issued = {}

-----------------------------------------------------------------------------
(***************************************************************************)
(* alloc_slot and the lifetime part of xent_node_create.  A failed         *)
(* allocation, and a call while observers run, return XENT_NODE_INVALID    *)
(* and leave the store as it was.                                          *)
(***************************************************************************)
Revive(i, g) ==
  /\ alive' = [alive EXCEPT ![i] = TRUE]
  /\ generation' = [generation EXCEPT ![i] = g]
  /\ issued' = issued \cup {<<i, g>>}
  /\ UNCHANGED <<freeCap, dying>>

Top == freeList[Len(freeList)]

CreateReused ==
  /\ dying = Null
  /\ freeList # <<>>
  /\ freeList' = SubSeq(freeList, 1, Len(freeList) - 1)
  /\ Revive(Top, IF generation[Top] = 0 THEN 1 ELSE generation[Top])
  /\ UNCHANGED count

CreateFresh ==
  /\ dying = Null
  /\ freeList = <<>>
  /\ count < MaxSlots
  /\ count' = count + 1
  /\ Revive(count + 1, 1)
  /\ UNCHANGED freeList

\* The slot the next successful create takes.
NextSlot == IF freeList # <<>> THEN Top ELSE count + 1

(***************************************************************************)
(* destroy_single_node up to its notification: the slot dies, and the      *)
(* observers of the DESTROY event run with the slot still holding the      *)
(* generation of the dead node.                                            *)
(***************************************************************************)
Kill(h) ==
  /\ dying = Null
  /\ Live(h)
  /\ alive' = [alive EXCEPT ![Index(h)] = FALSE]
  /\ dying' = h
  /\ UNCHANGED <<generation, count, freeList, freeCap, issued>>

(***************************************************************************)
(* push_free_index: the stack doubles when it is full, and the slot is     *)
(* lost when that allocation fails (destroy_single_node ignores the        *)
(* result).                                                                *)
(***************************************************************************)
PushFreeUpToCapacity(i) ==  \* faulty: never grows the stack
  IF Len(freeList) < FreeChunk
  THEN freeList' = Append(freeList, i) /\ freeCap' = FreeChunk
  ELSE UNCHANGED <<freeList, freeCap>>

PushFree(i) ==
  IF Len(freeList) < freeCap
  THEN /\ freeList' = Append(freeList, i)
       /\ UNCHANGED freeCap
  ELSE \/ /\ freeList' = Append(freeList, i)
          /\ freeCap' = IF freeCap = 0 THEN FreeChunk ELSE 2 * freeCap
       \/ /\ Faults
          /\ UNCHANGED <<freeList, freeCap>>

(***************************************************************************)
(* destroy_single_node after its notification: a slot at the last          *)
(* generation is retired, any other gets the next one and is offered for   *)
(* reuse.                                                                  *)
(***************************************************************************)
Retire ==
  /\ dying # Null
  /\ Generation(dying) = MaxGen
  /\ dying' = Null
  /\ UNCHANGED <<alive, generation, count, freeList, freeCap, issued>>

RecyclePastTheLast ==  \* faulty: does not retire a slot
  /\ dying # Null
  /\ generation' = [generation EXCEPT ![Index(dying)] = Generation(dying) + 1]
  /\ PushFree(Index(dying))
  /\ dying' = Null
  /\ UNCHANGED <<alive, count, issued>>

RecycleSameGeneration ==  \* faulty: the next node gets the old handle
  /\ dying # Null
  /\ PushFree(Index(dying))
  /\ dying' = Null
  /\ UNCHANGED <<alive, generation, count, issued>>

Recycle ==
  /\ dying # Null
  /\ Generation(dying) # MaxGen
  /\ generation' = [generation EXCEPT ![Index(dying)] = Generation(dying) + 1]
  /\ PushFree(Index(dying))
  /\ dying' = Null
  /\ UNCHANGED <<alive, count, issued>>

SlotsNext ==
  \/ CreateReused
  \/ CreateFresh
  \/ \E h \in issued : Kill(h)
  \/ Retire
  \/ Recycle

SlotsSpec == SlotsInit /\ [][SlotsNext]_slotVars

-----------------------------------------------------------------------------
\* Every variable ranges over what its C field can hold.
SlotsTypeOK ==
  /\ alive \in [Slots -> BOOLEAN]
  /\ generation \in [Slots -> 0 .. MaxGen]
  /\ count \in 0 .. MaxSlots
  /\ freeList \in Seq(Slots)
  /\ freeCap \in Nat
  /\ dying \in Handles \cup {Null}
  /\ issued \in SUBSET Handles

(***************************************************************************)
(* The free list never offers a slot twice, never one that holds a node    *)
(* or whose DESTROY observers still run, never one that was not handed out *)
(* before, and the handle it would give out was never issued: pushing a    *)
(* slot early, twice or after its last generation breaks this.             *)
(***************************************************************************)
FreeListSound ==
  /\ \A j, k \in 1 .. Len(freeList) : freeList[j] = freeList[k] => j = k
  /\ \A j \in 1 .. Len(freeList) :
       LET i == freeList[j]
       IN /\ i <= count
          /\ ~alive[i]
          /\ i # Index(dying)
          /\ <<i, generation[i]>> \in Handles \ issued

(***************************************************************************)
(* Without allocation failures no slot is ever lost: every slot handed out *)
(* is live, in the middle of its DESTROY event, on the free list, or       *)
(* retired at the last generation.                                         *)
(***************************************************************************)
Retired(i) == ~alive[i] /\ i # Index(dying) /\ <<i, MaxGen>> \in issued

NoSlotLost ==
  ~Faults => \A i \in 1 .. count :
                \/ alive[i]
                \/ i = Index(dying)
                \/ Retired(i)
                \/ \E j \in 1 .. Len(freeList) : freeList[j] = i

(***************************************************************************)
(* A handle that died never resolves again, however often its slot is      *)
(* reused (README.md: "XentNodeId detects stale handles after a slot is    *)
(* reused").                                                               *)
(***************************************************************************)
StaysDead(h) == ~Live(h) => ~Live(h)'
NoRevival == [][\A h \in issued : StaysDead(h)]_slotVars
=============================================================================
