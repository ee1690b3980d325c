------------------------------- MODULE Scratch -------------------------------
(***************************************************************************)
(* The scratch arena of a context (src/core/xent_scratch.c).  A layout     *)
(* call resets it and its algorithms take blocks from a list of chunks;    *)
(* nothing is given back one by one.  Chunks are kept across resets and    *)
(* never move.                                                             *)
(*                                                                         *)
(* Addresses are numbers; base is where malloc put the data of a chunk.  A *)
(* block is known by its chunk and its offsets there: [from, to).          *)
(***************************************************************************)
EXTENDS Integers, Sequences, SequencesExt

CONSTANTS
  ChunkSize,   \* scratch_chunk_size
  Sizes,       \* sizes of the blocks asked for
  Alignments,  \* alignments asked for, 0 having been replaced already
  Bases,       \* addresses at which the data of a chunk may begin
  MaxBytes,    \* the greatest size there is (SIZE_MAX less a chunk header)
  MaxChunks,   \* bound on the number of chunks: allocating another fails
  MaxAsked     \* bound on the number of blocks of a frame

ASSUME ScratchAssumption ==
  /\ ChunkSize \in Nat \ {0}
  /\ Sizes \subseteq Nat \ {0}
  /\ Alignments \subseteq Nat \ {0}
  /\ Bases \subseteq Nat
  /\ MaxBytes \in Nat
  /\ ChunkSize <= MaxBytes
  /\ MaxChunks \in Nat
  /\ MaxAsked \in Nat

VARIABLES
  chunks,   \* the list from scratch_head on
  current,  \* the number of the chunk scratch_current points to, 0 for none
  blocks,   \* history: the blocks handed out since the last reset
  asked,    \* history: the requests answered since the last reset
  before    \* history: the requests answered between the last two resets

scratchVars == <<chunks, current, blocks, asked, before>>

Request == [bytes : Sizes, align : Alignments]

ScratchInit ==
  /\ chunks = <<>>
  /\ current = 0
  /\ blocks = {}
  /\ asked = <<>>
  /\ before = <<>>

-----------------------------------------------------------------------------
\* The first multiple of a that is not below x.
AlignUp(x, a) == (x + (a - 1)) - ((x + (a - 1)) % a)

\* chunk_aligned_offset
OffsetOfData(chunk, a) == AlignUp(chunk.used, a)  \* faulty: aligns the offset, not the address
Offset(chunk, a) == AlignUp(chunk.base + chunk.used, a) - chunk.base

Fits(chunk, r) == Offset(chunk, r.align) + r.bytes <= chunk.cap

\* scratch_request_size: the padding in front of the block may be needed.
Need(r) == r.bytes + (r.align - 1)

Capacity(r) == IF ChunkSize > Need(r) THEN ChunkSize ELSE Need(r)

\* chunk_take from chunk k of list list.
Take(list, k, r) ==
  LET from == Offset(list[k], r.align)
  IN /\ chunks' = [list EXCEPT ![k].used = from + r.bytes]
     /\ current' = k
     /\ blocks' = blocks \cup {[chunk |-> k, from |-> from, to |-> from + r.bytes, align |-> r.align]}
     /\ asked' = Append(asked, r)
     /\ UNCHANGED before

\* take_existing_scratch: the first chunk from the current one on with room.
Candidates(r) == {k \in 1 .. Len(chunks) : current # 0 /\ k >= current /\ Fits(chunks[k], r)}

AllocExisting(r) ==
  \E k \in Candidates(r) :
    /\ \A c \in Candidates(r) : k <= c
    /\ Take(chunks, k, r)

\* No chunk has room: another one goes to the end of the list.
AllocFresh(r) ==
  /\ Candidates(r) = {}
  /\ Need(r) <= MaxBytes
  /\ Len(chunks) < MaxChunks
  /\ \E base \in Bases :
       Take(Append(chunks, [base |-> base, cap |-> Capacity(r), used |-> 0]), Len(chunks) + 1, r)

\* xent_scratch_alloc.  A failure changes nothing.
Alloc(r) == Len(asked) < MaxAsked /\ (AllocExisting(r) \/ AllocFresh(r))

\* xent_scratch_reset
ResetInPlace ==  \* faulty: does not go back to the head of the list
  /\ chunks' = [k \in 1 .. Len(chunks) |-> [chunks[k] EXCEPT !.used = 0]]
  /\ blocks' = {}
  /\ asked' = <<>>
  /\ before' = asked
  /\ UNCHANGED current

ResetToFirst ==  \* faulty: takes it that there is a chunk
  /\ chunks' = [k \in 1 .. Len(chunks) |-> [chunks[k] EXCEPT !.used = 0]]
  /\ current' = 1
  /\ blocks' = {}
  /\ asked' = <<>>
  /\ before' = asked

Reset ==
  /\ chunks' = [k \in 1 .. Len(chunks) |-> [chunks[k] EXCEPT !.used = 0]]
  /\ current' = IF chunks = <<>> THEN 0 ELSE 1
  /\ blocks' = {}
  /\ asked' = <<>>
  /\ before' = asked

ScratchNext == (\E r \in Request : Alloc(r)) \/ Reset

ScratchSpec == ScratchInit /\ [][ScratchNext]_scratchVars

-----------------------------------------------------------------------------
Chunk == [base : Nat, cap : Nat, used : Nat]
Block == [chunk : Nat, from : Nat, to : Nat, align : Nat]

ScratchTypeOK ==
  /\ chunks \in Seq(Chunk)
  /\ current \in 0 .. Len(chunks)
  /\ blocks \in SUBSET Block
  /\ asked \in Seq(Request)
  /\ before \in Seq(Request)

(***************************************************************************)
(* Every block handed out since the reset lies within its chunk, at an     *)
(* address as aligned as asked for, and no two blocks overlap, wherever    *)
(* malloc put the chunks and however far the list was searched.            *)
(***************************************************************************)
Overlap(b, c) == b.chunk = c.chunk /\ b.from < c.to /\ c.from < b.to

BlocksInside ==
  \A b \in blocks :
    /\ b.chunk \in 1 .. Len(chunks)
    /\ b.from < b.to
    /\ b.to <= chunks[b.chunk].cap

BlocksAligned == \A b \in blocks : (chunks[b.chunk].base + b.from) % b.align = 0

BlocksApart == \A b, c \in blocks : b # c => ~Overlap(b, c)

BlocksSound == BlocksInside /\ BlocksAligned /\ BlocksApart

(***************************************************************************)
(* A frame that asks for what the frame before it asked for needs no other *)
(* chunk: the arena stops growing when layouts repeat.  (Chunks are        *)
(* "retained across resets", says the comment at the top of the file.)     *)
(***************************************************************************)
SteadyFrames ==
  [][asked' # <<>> /\ IsPrefix(asked', before) => Len(chunks') = Len(chunks)]_scratchVars
=============================================================================
