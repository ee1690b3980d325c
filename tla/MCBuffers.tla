------------------------------ MODULE MCBuffers ------------------------------
(***************************************************************************)
(* The growing stores of bytes side by side, for TLC: the scratch arena,   *)
(* the cache of measurements and the display list.  They share nothing,    *)
(* and a behaviour is about one of them.                                   *)
(***************************************************************************)
EXTENDS Scratch, TextCache, DisplayList

VARIABLE store  \* the store a behaviour is about

bufferVars == <<scratchVars, cacheVars, displayVars, store>>

\* Collisions, and wrapping at the end of the table.
MCHash == [k \in Keys |-> 3 + k.text + k.fit * k.font]

MCStrings == {<<>>, <<"a", "b">>}

BufferInit ==
  /\ store \in {"scratch", "cache", "display"}
  /\ ScratchInit /\ CacheInit /\ DisplayInit
  /\ store # "cache" => node = CHOOSE n \in [text : Texts, font : Fonts, memo : {Nothing}] : TRUE

BufferNext ==
  \/ store = "scratch" /\ ScratchNext /\ UNCHANGED <<cacheVars, displayVars, store>>
  \/ store = "cache" /\ CacheNext /\ UNCHANGED <<scratchVars, displayVars, store>>
  \/ store = "display" /\ DisplayNext /\ UNCHANGED <<scratchVars, cacheVars, store>>

BufferSpec == BufferInit /\ [][BufferNext]_bufferVars
=============================================================================
