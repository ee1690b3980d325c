--------------------------- MODULE ObserverPromise ---------------------------
(***************************************************************************)
(* What registering a node observer promises (include/xent/xent.h): an     *)
(* event is told to the observers registered when it happened, in the      *)
(* order they registered, each once, except those that are removed before  *)
(* their turn.                                                             *)
(***************************************************************************)
EXTENDS Filtering

CONSTANT MaxId   \* the last observer id

VARIABLES
  registered,  \* the ids registered now, in order
  todo,        \* the ids that the current event has yet to be told to
  running,     \* the observer that is being told, or 0
  ids          \* the number of ids given out

promiseVars == <<registered, todo, running, ids>>

PromiseInit ==
  /\ registered = <<>>
  /\ todo = <<>>
  /\ running = 0
  /\ ids = 0

WithoutId(s, id) == Filtered(s, (1 .. MaxId) \ {id})

Register ==
  /\ ids < MaxId
  /\ ids' = ids + 1
  /\ registered' = Append(registered, ids + 1)
  /\ UNCHANGED <<todo, running>>

Unregister(id) ==
  /\ registered' = WithoutId(registered, id)
  /\ todo' = WithoutId(todo, id)
  /\ UNCHANGED <<running, ids>>

\* Events do not nest: the previous one has been told to everyone.
Happen ==
  /\ todo = <<>>
  /\ running = 0
  /\ todo' = registered
  /\ UNCHANGED <<registered, running, ids>>

Tell ==
  /\ todo # <<>>
  /\ running = 0
  /\ running' = Head(todo)
  /\ todo' = Tail(todo)
  /\ UNCHANGED <<registered, ids>>

Told ==
  /\ running # 0
  /\ running' = 0
  /\ UNCHANGED <<registered, todo, ids>>

PromiseNext ==
  \/ Register
  \/ \E id \in 1 .. MaxId : Unregister(id)
  \/ Happen
  \/ Tell
  \/ Told

PromiseSpec == PromiseInit /\ [][PromiseNext]_promiseVars
=============================================================================
