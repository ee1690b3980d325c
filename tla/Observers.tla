------------------------------ MODULE Observers ------------------------------
(***************************************************************************)
(* The node observers of src/core/xent_observer.c: an array of entries     *)
(* that is walked by index while the observers it calls add and remove     *)
(* entries.  A removal leaves a tombstone during a dispatch, and the array *)
(* is compacted when no dispatch runs.                                     *)
(*                                                                         *)
(* The mutators of the tree are rejected while a dispatch runs, so one     *)
(* never starts inside another (module NodeTree).  A call that fails to    *)
(* allocate changes nothing.                                               *)
(***************************************************************************)
EXTENDS Filtering, FiniteSets

CONSTANTS
  MaxId,     \* the last observer id (UINT64_MAX in the code)
  MaxEvents  \* bound on the number of events of a behaviour

ASSUME ObserversAssumption ==
  /\ MaxId \in Nat
  /\ MaxEvents \in Nat

\* XENT_NODE_OBSERVER_INVALID, the id of a tombstone, and those of entries.
Invalid == 0
Ids == 1 .. MaxId

VARIABLES
  entries,  \* the ids of node_observers
  dead,     \* node_observer_dead
  nextId,   \* next_node_observer_id
  depth,    \* node_observer_dispatch_depth
  cursor,   \* i of the running xent_notify_node_observers
  limit,    \* its count
  running,  \* the id of the observer that is running, or Invalid
  events    \* the number of events so far

obsVars == <<entries, dead, nextId, depth, cursor, limit, running, events>>

ObsInit ==
  /\ entries = <<>>
  /\ dead = 0
  /\ nextId = 0
  /\ depth = 0
  /\ cursor = 1
  /\ limit = 0
  /\ running = Invalid
  /\ events = 0

-----------------------------------------------------------------------------
\* compact_node_observers
LiveEntries(e) == Filtered(e, Ids)
CompactedEntries(e, d) == IF d = 0 THEN e ELSE LiveEntries(e)

\* The program is single threaded: clients run outside a dispatch or inside
\* the observer it calls.
ObsClientRuns == depth = 0 \/ running # Invalid

\* xent_node_addobs
AddObs ==
  LET base == IF depth = 0 THEN CompactedEntries(entries, dead) ELSE entries
  IN /\ ObsClientRuns
     /\ nextId < MaxId
     /\ nextId' = nextId + 1
     /\ entries' = Append(base, nextId + 1)
     /\ dead' = IF depth = 0 THEN 0 ELSE dead
     /\ UNCHANGED <<depth, cursor, limit, running, events>>

DelObsCompacts(id) ==  \* faulty: compacts during a dispatch too
  /\ ObsClientRuns
  /\ \E k \in 1 .. Len(entries) : entries[k] = id
  /\ entries' = Filtered(entries, Ids \ {id})
  /\ UNCHANGED <<dead, nextId, depth, cursor, limit, running, events>>

DelObsUncounted(id) ==  \* faulty: does not count the tombstone
  /\ ObsClientRuns
  /\ \E k \in 1 .. Len(entries) : entries[k] = id
  /\ entries' = [k \in 1 .. Len(entries) |-> IF entries[k] = id THEN Invalid ELSE entries[k]]
  /\ UNCHANGED <<dead, nextId, depth, cursor, limit, running, events>>

\* xent_node_delobs: the first entry with that id becomes a tombstone.
DelObs(id) ==
  LET hits == {k \in 1 .. Len(entries) : entries[k] = id}
      first == CHOOSE k \in hits : \A m \in hits : k <= m
      buried == [entries EXCEPT ![first] = Invalid]
  IN /\ ObsClientRuns
     /\ id # Invalid
     /\ hits # {}
     /\ entries' = IF depth = 0 THEN CompactedEntries(buried, dead + 1) ELSE buried
     /\ dead' = IF depth = 0 THEN 0 ELSE dead + 1
     /\ UNCHANGED <<nextId, depth, cursor, limit, running, events>>

-----------------------------------------------------------------------------
(* xent_notify_node_observers, one step per iteration of its loop.         *)

NotifyBegin ==
  /\ depth = 0
  /\ events < MaxEvents
  /\ events' = events + 1
  /\ depth' = 1
  /\ cursor' = 1
  /\ limit' = Len(entries)
  /\ UNCHANGED <<entries, dead, nextId, running>>

NotifySkipStays ==  \* faulty: waits at a tombstone
  /\ depth = 1
  /\ running = Invalid
  /\ cursor <= limit
  /\ entries[cursor] = Invalid
  /\ UNCHANGED obsVars

NotifySkip ==
  /\ depth = 1
  /\ running = Invalid
  /\ cursor <= limit
  /\ entries[cursor] = Invalid
  /\ cursor' = cursor + 1
  /\ UNCHANGED <<entries, dead, nextId, depth, limit, running, events>>

NotifyCallLatest ==  \* faulty: also runs observers added during the event
  /\ depth = 1
  /\ running = Invalid
  /\ cursor <= Len(entries)
  /\ entries[cursor] # Invalid
  /\ running' = entries[cursor]
  /\ cursor' = cursor + 1
  /\ UNCHANGED <<entries, dead, nextId, depth, limit, events>>

NotifyCall ==
  /\ depth = 1
  /\ running = Invalid
  /\ cursor <= limit
  /\ entries[cursor] # Invalid
  /\ running' = entries[cursor]
  /\ cursor' = cursor + 1
  /\ UNCHANGED <<entries, dead, nextId, depth, limit, events>>

NotifyReturn ==
  /\ running # Invalid
  /\ running' = Invalid
  /\ UNCHANGED <<entries, dead, nextId, depth, cursor, limit, events>>

NotifyEnd ==
  /\ depth = 1
  /\ running = Invalid
  /\ cursor > limit
  /\ depth' = 0
  /\ entries' = CompactedEntries(entries, dead)
  /\ dead' = 0
  /\ cursor' = 1
  /\ limit' = 0
  /\ UNCHANGED <<nextId, running, events>>

NotifyStep == NotifySkip \/ NotifyCall \/ NotifyReturn \/ NotifyEnd

ObsNext ==
  \/ AddObs
  \/ \E id \in Ids : DelObs(id)
  \/ NotifyBegin
  \/ NotifyStep

ObsSpec == ObsInit /\ [][ObsNext]_obsVars

\* A dispatch is a loop inside one call and observers return.
FairObsSpec == ObsSpec /\ WF_obsVars(NotifyStep)

-----------------------------------------------------------------------------
WalkInBounds == depth = 1 => limit <= Len(entries) /\ cursor <= limit + 1
TombstonesCounted == dead = Cardinality({k \in 1 .. Len(entries) : entries[k] = Invalid})

(***************************************************************************)
(* Whatever observers add and remove while they run, the walk stays inside *)
(* the array, its tombstones are counted exactly, since compaction skips   *)
(* the array when the count is 0, and outside a dispatch there are none.   *)
(***************************************************************************)
ObserversSound == WalkInBounds /\ TombstonesCounted /\ (depth = 0 => dead = 0)

Promise == INSTANCE ObserverPromise WITH
  registered <- LiveEntries(entries),
  todo <- LiveEntries(SubSeq(entries, cursor, limit)),
  ids <- nextId

(***************************************************************************)
(* Whatever observers add and remove while they run: every event reaches   *)
(* exactly the observers registered when it happened and not removed       *)
(* before their turn, in order and once, and an observer that registers    *)
(* during an event hears of the next one first.                            *)
(***************************************************************************)
KeepsPromise == Promise!PromiseSpec

\* A dispatch ends although its observers register others.
DispatchReturns == depth = 1 ~> depth = 0
=============================================================================
