---------------------------- MODULE Buffers_proofs ----------------------------
(***************************************************************************)
(* Proofs about the buffers that a context keeps and grows: the scratch    *)
(* arena (Scratch), the display list (DisplayList) and the cache of text   *)
(* measurements (TextCache).                                               *)
(*                                                                         *)
(* The arena, for every chunk size and for blocks of any size and          *)
(* alignment, wherever malloc puts the chunks. What makes its bounds       *)
(* inductive (ScratchInv): a chunk is used up to the end of its last       *)
(* block, so that a block that begins there meets none.                    *)
(*                                                                         *)
(* The display list, for strings of any length, first capacities of any    *)
(* size and whichever allocations fail. What makes it inductive            *)
(* (DisplayInv): the pool only ever grows at its end, so that a string     *)
(* stays where its range says; capacities keep up with what is held; and   *)
(* the depth of a kind is what its commands so far have entered and not    *)
(* left.                                                                   *)
(*                                                                         *)
(* The text cache, for every hash, every capacity and whichever            *)
(* allocations fail. What makes it inductive (CacheInv): no gap lies on    *)
(* the way from where the hash of an entry points to the entry, so that a  *)
(* probe that stops at a gap has missed nothing; no key is held twice;     *)
(* every entry is what the current backend answers to its key; and the     *)
(* keys in the order of their last use are those in the slots, each once,  *)
(* so that counting the one counts the other. Growing, evicting and        *)
(* clearing build the table anew, entry by entry, by the insertion that    *)
(* keeps all this.                                                         *)
(***************************************************************************)
EXTENDS Scratch, DisplayList, TextCache, Filtering_proofs, FunctionTheorems

-----------------------------------------------------------------------------
(***************************************************************************)
(* The scratch arena.                                                      *)
(***************************************************************************)

\* No chunk is used beyond its capacity, and its blocks end where it is
\* used up to.
UsedInside == \A k \in 1 .. Len(chunks) : chunks[k].used <= chunks[k].cap

BlocksBelowUsed ==
  \A b \in blocks :
    /\ b.chunk \in 1 .. Len(chunks)
    /\ b.from < b.to
    /\ b.to <= chunks[b.chunk].used

ScratchInv ==
  /\ ScratchTypeOK
  /\ UsedInside
  /\ BlocksBelowUsed
  /\ BlocksAligned
  /\ BlocksApart

-----------------------------------------------------------------------------
\* Rounding up to a multiple adds less than the alignment.
LEMMA AlignUpBounds ==
  ASSUME NEW x \in Nat, NEW a \in Nat \ {0}
  PROVE  AlignUp(x, a) \in Nat /\ x <= AlignUp(x, a) /\ AlignUp(x, a) <= x + (a - 1)
<1> DEFINE y == x + (a - 1)
<1>1. y \in Nat
  OBVIOUS
<1>2. y % a \in 0 .. a - 1
  <2> HIDE DEF y
  <2> QED BY <1>1
<1>3. AlignUp(x, a) = y - (y % a)
  BY DEF AlignUp
<1> QED
  <2> DEFINE m == y % a
  <2>1. m \in 0 .. a - 1 /\ AlignUp(x, a) = y - m
    BY <1>2, <1>3
  <2> HIDE DEF m
  <2> QED BY <2>1

\* What rounding up returns is a multiple of the alignment.
LEMMA AlignUpAligns ==
  ASSUME NEW x \in Nat, NEW a \in Nat \ {0}
  PROVE  AlignUp(x, a) % a = 0
<1> DEFINE y == x + (a - 1)
           q == y \div a
           m == y % a
<1>1. y \in Int
  OBVIOUS
<1>2. q \in Int /\ m \in 0 .. a - 1 /\ y = a * q + m
  <2> HIDE DEF y
  <2> QED BY <1>1, DivMod
<1>3. AlignUp(x, a) = y - m
  BY DEF AlignUp
<1> HIDE DEF y, q, m
<1>4. AlignUp(x, a) = a * q + 0 /\ a * q \in Int
  BY <1>1, <1>2, <1>3, MultiplesApart
<1>5. AlignUp(x, a) \in Int
  BY <1>4
<1> QED BY <1>2, <1>4, <1>5, RemainderIs

\* A block begins at an address as aligned as asked for.
LEMMA OffsetAligns ==
  ASSUME NEW c \in Chunk, NEW a \in Nat \ {0}
  PROVE  (c.base + Offset(c, a)) % a = 0
<1>1. c.base \in Nat /\ c.base + c.used \in Nat
  BY DEF Chunk
<1>2. AlignUp(c.base + c.used, a) \in Nat /\ AlignUp(c.base + c.used, a) % a = 0
  BY <1>1, AlignUpBounds, AlignUpAligns
<1>3. c.base + Offset(c, a) = AlignUp(c.base + c.used, a)
  BY <1>1, <1>2 DEF Offset
<1> QED BY <1>2, <1>3

\* The padding in front of a block.
LEMMA OffsetBounds ==
  ASSUME NEW c \in Chunk, NEW a \in Nat \ {0}
  PROVE  Offset(c, a) \in Nat /\ c.used <= Offset(c, a) /\ Offset(c, a) <= c.used + (a - 1)
<1>1. c.base \in Nat /\ c.used \in Nat /\ c.base + c.used \in Nat
  BY DEF Chunk
<1>2. /\ AlignUp(c.base + c.used, a) \in Nat
      /\ c.base + c.used <= AlignUp(c.base + c.used, a)
      /\ AlignUp(c.base + c.used, a) <= c.base + c.used + (a - 1)
  BY <1>1, AlignUpBounds
<1> QED BY <1>1, <1>2 DEF Offset

\* A fresh chunk has room for the request it was made for, wherever it is.
LEMMA FreshFits ==
  ASSUME NEW r \in Request, NEW base \in Bases,
         NEW c, c = [base |-> base, cap |-> Capacity(r), used |-> 0]
  PROVE  c \in Chunk /\ Fits(c, r)
<1>1. r.bytes \in Nat \ {0} /\ r.align \in Nat \ {0} /\ base \in Nat /\ ChunkSize \in Nat
  BY ScratchAssumption DEF Request
<1>2. Capacity(r) \in Nat /\ r.bytes + (r.align - 1) <= Capacity(r)
  BY <1>1 DEF Capacity, Need
<1>3. c \in Chunk /\ c.used = 0 /\ c.cap = Capacity(r)
  BY <1>1, <1>2 DEF Chunk
<1>4. Offset(c, r.align) \in Nat /\ Offset(c, r.align) <= 0 + (r.align - 1)
  BY <1>1, <1>3, OffsetBounds
<1> QED BY <1>1, <1>2, <1>3, <1>4 DEF Fits

(***************************************************************************)
(* chunk_take keeps the invariant in any list of chunks that holds the     *)
(* current blocks, the chunk taken from having room.                       *)
(***************************************************************************)
LEMMA TakeInv ==
  ASSUME ScratchInv, NEW r \in Request,
         NEW list \in Seq(Chunk), NEW k \in 1 .. Len(list),
         Len(chunks) <= Len(list),
         \A i \in 1 .. Len(chunks) : list[i] = chunks[i],
         \A i \in 1 .. Len(list) : list[i].used <= list[i].cap,
         Fits(list[k], r),
         Take(list, k, r)
  PROVE  ScratchInv'
<1> DEFINE from == Offset(list[k], r.align)
           to == from + r.bytes
           new == [chunk |-> k, from |-> from, to |-> to, align |-> r.align]
<1>1. /\ list[k] \in Chunk
      /\ \A i \in 1 .. Len(list) : list[i] \in Chunk
      /\ r.bytes \in Nat \ {0}
      /\ r.align \in Nat \ {0}
      /\ Len(list) \in Nat
      /\ Len(chunks) \in Nat
  <2>1. r.bytes \in Nat \ {0} /\ r.align \in Nat \ {0}
    BY ScratchAssumption DEF Request
  <2>2. list[k] \in Chunk /\ (\A i \in 1 .. Len(list) : list[i] \in Chunk) /\ Len(list) \in Nat
    OBVIOUS
  <2>3. Len(chunks) \in Nat
    BY DEF ScratchInv, ScratchTypeOK
  <2> QED BY <2>1, <2>2, <2>3
<1>2. from \in Nat /\ list[k].used <= from
  BY <1>1, OffsetBounds
<1>3. to \in Nat /\ from < to /\ to <= list[k].cap
  BY <1>1, <1>2 DEF Fits
<1>4. /\ chunks' = [list EXCEPT ![k].used = to]
      /\ current' = k
      /\ blocks' = blocks \cup {new}
      /\ asked' = Append(asked, r)
      /\ before' = before
  BY DEF Take
<1>0. (list[k].base + from) % r.align = 0
  BY <1>1, OffsetAligns
<1> HIDE DEF from, to
<1>5. /\ chunks' \in Seq(Chunk)
      /\ Len(chunks') = Len(list)
      /\ \A i \in 1 .. Len(list) : i # k => chunks'[i] = list[i]
      /\ chunks'[k] = [list[k] EXCEPT !.used = to]
  <2>1. [list[k] EXCEPT !.used = to] \in Chunk
    BY <1>1, <1>3 DEF Chunk
  <2>2. chunks' = [list EXCEPT ![k] = [list[k] EXCEPT !.used = to]]
    BY <1>4
  <2> QED BY <2>1, <2>2, ExceptSeq
<1>6. chunks'[k].used = to /\ chunks'[k].cap = list[k].cap
  BY <1>1, <1>5 DEF Chunk
<1>7. ScratchTypeOK'
  <2>1. new \in Block
    BY <1>1, <1>2, <1>3 DEF Block
  <2>2. asked' \in Seq(Request)
    BY <1>4, AppendProperties DEF ScratchInv, ScratchTypeOK
  <2> QED BY <1>1, <1>4, <1>5, <2>1, <2>2 DEF ScratchInv, ScratchTypeOK
<1>8. UsedInside'
  BY <1>1, <1>3, <1>5, <1>6 DEF UsedInside
<1>9. \A b \in blocks : /\ b.chunk \in 1 .. Len(list)
                        /\ b.from < b.to
                        /\ b.to <= list[b.chunk].used
                        /\ b.to \in Nat
  <2> SUFFICES ASSUME NEW b \in blocks
               PROVE  /\ b.chunk \in 1 .. Len(list) /\ b.from < b.to
                      /\ b.to <= list[b.chunk].used /\ b.to \in Nat
    OBVIOUS
  <2>1. b.to \in Nat
    BY DEF ScratchInv, ScratchTypeOK, Block
  <2>2. b.chunk \in 1 .. Len(chunks) /\ b.from < b.to /\ b.to <= chunks[b.chunk].used
    BY DEF ScratchInv, BlocksBelowUsed
  <2> QED BY <2>1, <2>2, <1>1
<1>10. BlocksBelowUsed'
  <2> SUFFICES ASSUME NEW b \in blocks'
               PROVE  b.chunk \in 1 .. Len(list) /\ b.from < b.to /\ b.to <= chunks'[b.chunk].used
    BY <1>5 DEF BlocksBelowUsed
  <2>1. CASE b = new
    BY <2>1, <1>3, <1>6
  <2>2. CASE b \in blocks /\ b.chunk = k
    <3>1. b.to <= list[k].used /\ list[k].used \in Nat /\ b.to \in Nat
      BY <2>2, <1>1, <1>9 DEF Chunk
    <3>2. b.to <= to
      BY <3>1, <1>2, <1>3
    <3> QED BY <2>2, <3>2, <1>6, <1>9
  <2>3. CASE b \in blocks /\ b.chunk # k
    BY <2>3, <1>5, <1>9
  <2> QED BY <2>1, <2>2, <2>3, <1>4
<1>11. BlocksApart'
  <2>1. ASSUME NEW b \in blocks, b.chunk = k PROVE b.to <= from
    <3>1. b.to <= list[k].used /\ list[k].used \in Nat /\ b.to \in Nat
      BY <2>1, <1>1, <1>9 DEF Chunk
    <3> QED BY <3>1, <1>2
  <2>2. ASSUME NEW b \in blocks PROVE ~Overlap(b, new) /\ ~Overlap(new, b)
    <3>1. CASE b.chunk = k
      BY <2>1, <3>1, <1>2, <1>9 DEF Overlap
    <3>2. CASE b.chunk # k
      BY <3>2 DEF Overlap
    <3> QED BY <3>1, <3>2
  <2> QED BY <2>2, <1>4 DEF ScratchInv, BlocksApart, Overlap
<1>12. BlocksAligned'
  <2> SUFFICES ASSUME NEW b \in blocks'
               PROVE  (chunks'[b.chunk].base + b.from) % b.align = 0
    BY DEF BlocksAligned
  <2>1. CASE b = new
    <3>1. chunks'[k].base = list[k].base
      BY <1>1, <1>5 DEF Chunk
    <3> QED BY <2>1, <3>1, <1>0
  <2>2. CASE b \in blocks
    <3>1. /\ b.chunk \in 1 .. Len(chunks)
          /\ b.chunk \in 1 .. Len(list)
          /\ (chunks[b.chunk].base + b.from) % b.align = 0
      BY <2>2, <1>9 DEF ScratchInv, BlocksAligned, BlocksBelowUsed
    <3>2. list[b.chunk] = chunks[b.chunk]
      BY <3>1
    <3>3. chunks'[b.chunk].base = list[b.chunk].base
      BY <3>1, <1>1, <1>5 DEF Chunk
    <3> QED BY <3>1, <3>2, <3>3
  <2> QED BY <2>1, <2>2, <1>4
<1> QED BY <1>7, <1>8, <1>10, <1>11, <1>12 DEF ScratchInv

-----------------------------------------------------------------------------
\* An empty arena.
LEMMA ScratchInitInv == ScratchInit => ScratchInv
  BY DEF ScratchInit, ScratchInv, ScratchTypeOK, UsedInside, BlocksBelowUsed, BlocksAligned, BlocksApart

\* A chunk of the list has room.
LEMMA ExistingInv ==
  ASSUME ScratchInv, NEW r \in Request, AllocExisting(r)
  PROVE  ScratchInv'
<1>1. PICK k \in Candidates(r) : Take(chunks, k, r)
  BY DEF AllocExisting
<1>2. k \in 1 .. Len(chunks) /\ Fits(chunks[k], r)
  BY DEF Candidates
<1> QED BY <1>1, <1>2, TakeInv DEF ScratchInv, ScratchTypeOK, UsedInside

\* Another chunk goes to the end of the list.
LEMMA FreshInv ==
  ASSUME ScratchInv, NEW r \in Request, AllocFresh(r)
  PROVE  ScratchInv'
<1>1. PICK base \in Bases :
        Take(Append(chunks, [base |-> base, cap |-> Capacity(r), used |-> 0]), Len(chunks) + 1, r)
  BY DEF AllocFresh
<1> DEFINE c == [base |-> base, cap |-> Capacity(r), used |-> 0]
           list == Append(chunks, c)
<1>2. c \in Chunk /\ Fits(c, r) /\ c.used = 0
  BY FreshFits
<1> HIDE DEF c
<1>3. chunks \in Seq(Chunk) /\ Len(chunks) \in Nat
  BY DEF ScratchInv, ScratchTypeOK
<1>4. /\ list \in Seq(Chunk)
      /\ Len(list) = Len(chunks) + 1
      /\ \A i \in 1 .. Len(chunks) : list[i] = chunks[i]
      /\ list[Len(chunks) + 1] = c
  BY <1>2, <1>3, AppendProperties
<1>5. Take(list, Len(chunks) + 1, r)
  BY <1>1 DEF c
<1> HIDE DEF list
<1>6. \A i \in 1 .. Len(list) : list[i].used <= list[i].cap
  <2>1. c.used <= c.cap
    BY <1>2 DEF Chunk
  <2> QED BY <2>1, <1>3, <1>4 DEF ScratchInv, UsedInside
<1> QED BY <1>2, <1>3, <1>4, <1>5, <1>6, TakeInv

\* A reset keeps the chunks and forgets the blocks.
LEMMA ResetInv ==
  ASSUME ScratchInv, Reset
  PROVE  ScratchInv'
<1>1. chunks \in Seq(Chunk) /\ Len(chunks) \in Nat
  BY DEF ScratchInv, ScratchTypeOK
<1>2. \A k \in 1 .. Len(chunks) :
        [chunks[k] EXCEPT !.used = 0] \in Chunk /\ [chunks[k] EXCEPT !.used = 0].used = 0
  <2> SUFFICES ASSUME NEW c \in Chunk
               PROVE  [c EXCEPT !.used = 0] \in Chunk /\ [c EXCEPT !.used = 0].used = 0
    BY <1>1, ElementOfSeq
  <2> QED BY DEF Chunk
<1>3. /\ chunks' \in Seq(Chunk)
      /\ Len(chunks') = Len(chunks)
      /\ \A k \in 1 .. Len(chunks) : chunks'[k] = [chunks[k] EXCEPT !.used = 0]
  BY <1>1, <1>2 DEF Reset
<1>4. ScratchTypeOK'
  BY <1>1, <1>3 DEF Reset, ScratchInv, ScratchTypeOK
<1>5. UsedInside'
  <2> SUFFICES ASSUME NEW k \in 1 .. Len(chunks)
               PROVE  chunks'[k].used <= chunks'[k].cap
    BY <1>3 DEF UsedInside
  <2>1. chunks'[k] \in Chunk /\ chunks'[k].used = 0
    BY <1>2, <1>3
  <2> QED BY <2>1 DEF Chunk
<1> QED BY <1>4, <1>5 DEF Reset, ScratchInv, BlocksBelowUsed, BlocksAligned, BlocksApart

\* Every step keeps the invariant.
LEMMA ScratchStepInv == ScratchInv /\ [ScratchNext]_scratchVars => ScratchInv'
<1> SUFFICES ASSUME ScratchInv, [ScratchNext]_scratchVars PROVE ScratchInv'
  OBVIOUS
<1>1. CASE UNCHANGED scratchVars
  BY <1>1 DEF scratchVars, ScratchInv, ScratchTypeOK, UsedInside, BlocksBelowUsed, BlocksAligned, BlocksApart
<1>2. ASSUME NEW r \in Request, Alloc(r) PROVE ScratchInv'
  BY <1>2, ExistingInv, FreshInv DEF Alloc
<1>3. CASE Reset
  BY <1>3, ResetInv
<1> QED BY <1>1, <1>2, <1>3 DEF ScratchNext

\* The arena in every reachable state.
THEOREM ScratchInvariance == ScratchSpec => []ScratchInv
  BY ScratchInitInv, ScratchStepInv, PTL DEF ScratchSpec

(***************************************************************************)
(* xent_scratch_alloc returns blocks that lie within their chunks, a fresh *)
(* chunk always being large enough for the padding its address calls for.  *)
(***************************************************************************)
THEOREM BlocksStayInside == ScratchSpec => []BlocksInside
<1>1. ScratchInv => BlocksInside
  <2> SUFFICES ASSUME ScratchInv, NEW b \in blocks
               PROVE  b.chunk \in 1 .. Len(chunks) /\ b.from < b.to /\ b.to <= chunks[b.chunk].cap
    BY DEF BlocksInside
  <2>1. b.chunk \in 1 .. Len(chunks) /\ b.from < b.to /\ b.to <= chunks[b.chunk].used /\ b.to \in Nat
    BY DEF ScratchInv, BlocksBelowUsed, ScratchTypeOK, Block
  <2>2. chunks[b.chunk] \in Chunk /\ chunks[b.chunk].used <= chunks[b.chunk].cap
    BY <2>1 DEF ScratchInv, UsedInside, ScratchTypeOK
  <2> QED BY <2>1, <2>2 DEF Chunk
<1> QED BY <1>1, ScratchInvariance, PTL

(***************************************************************************)
(* Every block handed out since the reset lies within its chunk, at an     *)
(* address as aligned as asked for, and no two blocks overlap, wherever    *)
(* malloc put the chunks.                                                  *)
(***************************************************************************)
THEOREM BlocksStaySound == ScratchSpec => []BlocksSound
<1>1. ScratchInv => BlocksAligned /\ BlocksApart
  BY DEF ScratchInv
<1>2. BlocksInside /\ BlocksAligned /\ BlocksApart => BlocksSound
  BY DEF BlocksSound
<1> QED BY <1>1, <1>2, ScratchInvariance, BlocksStayInside, PTL

\* Type correctness of the arena.
THEOREM ScratchTypes == ScratchSpec => []ScratchTypeOK
<1>1. ScratchInv => ScratchTypeOK
  BY DEF ScratchInv
<1> QED BY <1>1, ScratchInvariance, PTL

-----------------------------------------------------------------------------
(***************************************************************************)
(* Frames that repeat.  What a frame does to the chunks is written down as *)
(* a trace: at[j] is the chunk its j-th request was given, end[j] how far  *)
(* that chunk was used then; at[0] and end[0] are where a reset leaves the *)
(* search.  A trace says nothing of the chunks behind at[j], so that it    *)
(* stays one when chunks are added, and nothing of what is used now, so    *)
(* that it survives the reset.                                             *)
(***************************************************************************)

\* Where request r ends in a chunk used up to u.
EndOf(chunk, u, r) == (AlignUp(chunk.base + u, r.align) - chunk.base) + r.bytes

HasRoom(chunk, u, r) == EndOf(chunk, u, r) <= chunk.cap

\* The search of take_existing_scratch for r, begun at chunk k used up to u
\* with the chunks behind it empty, ends with chunk i used up to v.
Found(list, r, k, u, i, v) ==
  /\ i \in k .. Len(list)
  /\ \A n \in k .. i - 1 : ~HasRoom(list[n], IF n = k THEN u ELSE 0, r)
  /\ HasRoom(list[i], IF i = k THEN u ELSE 0, r)
  /\ v = EndOf(list[i], IF i = k THEN u ELSE 0, r)

Trace(list, requests, at, end) ==
  /\ at[0] = 1 /\ end[0] = 0
  /\ \A j \in 0 .. Len(requests) : at[j] \in Nat \ {0}
  /\ \A j \in 1 .. Len(requests) : Found(list, requests[j], at[j - 1], end[j - 1], at[j], end[j])

\* The chunks are what the trace of this frame makes of them.
Traced(at, end) ==
  /\ Trace(chunks, asked, at, end)
  /\ chunks # <<>> => /\ at[Len(asked)] = current
                      /\ end[Len(asked)] = chunks[current].used
  /\ chunks = <<>> => asked = <<>>
  /\ \A k \in 1 .. Len(chunks) : k > current => chunks[k].used = 0

SteadyInv ==
  /\ ScratchInv
  /\ \E at, end : Traced(at, end)
  /\ \E at, end : Trace(chunks, before, at, end)

LEMMA FoundOnce ==
  ASSUME NEW list, NEW r, NEW k \in Nat, NEW u, NEW i, NEW v, NEW j, NEW w,
         Found(list, r, k, u, i, v), Found(list, r, k, u, j, w)
  PROVE  i = j /\ v = w
<1>1. i \in Int /\ j \in Int /\ k <= i /\ k <= j
  BY DEF Found
<1>2. ~(i < j)
  <2> SUFFICES ASSUME i < j PROVE FALSE
    OBVIOUS
  <2>1. i \in k .. j - 1
    BY <1>1
  <2> QED BY <2>1 DEF Found
<1>3. ~(j < i)
  <2> SUFFICES ASSUME j < i PROVE FALSE
    OBVIOUS
  <2>1. j \in k .. i - 1
    BY <1>1
  <2> QED BY <2>1 DEF Found
<1>4. i = j
  BY <1>1, <1>2, <1>3
<1> QED BY <1>4 DEF Found

\* Two traces agree on their first n requests.
Agree(n, at, end, at2, end2) == \A j \in 0 .. n : at[j] = at2[j] /\ end[j] = end2[j]

\* Two traces of the same requests are the same.
LEMMA TracesAgree ==
  ASSUME NEW list, NEW p \in Seq(Request), NEW q \in Seq(Request),
         Len(p) <= Len(q), \A j \in 1 .. Len(p) : p[j] = q[j],
         NEW at, NEW end, Trace(list, p, at, end),
         NEW at2, NEW end2, Trace(list, q, at2, end2)
  PROVE  Agree(Len(p), at, end, at2, end2)
<1> DEFINE T == {j \in Nat : at[j] = at2[j] /\ end[j] = end2[j]}
<1>1. Len(p) \in Nat /\ Len(q) \in Nat
  OBVIOUS
<1>2. 0 \in T
  BY DEF Trace
<1>3. ASSUME NEW n \in 0 .. Len(p) - 1, n \in T PROVE n + 1 \in T
  <2>1. /\ n \in Nat /\ n + 1 \in 1 .. Len(p) /\ n + 1 \in 1 .. Len(q) /\ (n + 1) - 1 = n
        /\ n \in 0 .. Len(p)
    BY <1>1
  <2>2. at[n] = at2[n] /\ end[n] = end2[n]
    BY <1>3
  <2>3. Found(list, p[n + 1], at[n], end[n], at[n + 1], end[n + 1]) /\ at[n] \in Nat
    BY <2>1 DEF Trace
  <2>4. Found(list, p[n + 1], at[n], end[n], at2[n + 1], end2[n + 1])
    <3>1. Found(list, q[n + 1], at2[n], end2[n], at2[n + 1], end2[n + 1])
      BY <2>1 DEF Trace
    <3> QED BY <2>1, <2>2, <3>1
  <2>5. at[n + 1] = at2[n + 1] /\ end[n + 1] = end2[n + 1]
    BY <2>3, <2>4, FoundOnce
  <2> QED BY <2>1, <2>5
<1> HIDE DEF T
<1>4. \A n \in 0 .. Len(p) : n \in T
  BY <1>1, <1>2, <1>3, Counting
<1> QED BY <1>4 DEF T, Agree

\* Bases and capacities are all that a search looks at.
LEMMA FoundStays ==
  ASSUME NEW list, NEW more, NEW r, NEW k \in Nat \ {0}, NEW u, NEW i, NEW v,
         Len(list) \in Nat, Len(more) \in Nat, Len(list) <= Len(more),
         \A n \in 1 .. Len(list) : more[n].base = list[n].base /\ more[n].cap = list[n].cap,
         Found(list, r, k, u, i, v)
  PROVE  Found(more, r, k, u, i, v)
<1>1. i \in k .. Len(list) /\ i \in 1 .. Len(list) /\ i \in k .. Len(more)
  BY DEF Found
<1>2. \A n \in k .. i - 1 : n \in 1 .. Len(list)
  BY <1>1
<1>3. \A n \in 1 .. Len(list) : \A x : EndOf(more[n], x, r) = EndOf(list[n], x, r)
  BY DEF EndOf
<1>4. \A n \in 1 .. Len(list) : \A x : HasRoom(more[n], x, r) <=> HasRoom(list[n], x, r)
  BY <1>3 DEF HasRoom
<1> QED BY <1>1, <1>2, <1>3, <1>4 DEF Found

LEMMA TraceStays ==
  ASSUME NEW list, NEW more, NEW q \in Seq(Request), NEW at, NEW end,
         Len(list) \in Nat, Len(more) \in Nat, Len(list) <= Len(more),
         \A n \in 1 .. Len(list) : more[n].base = list[n].base /\ more[n].cap = list[n].cap,
         Trace(list, q, at, end)
  PROVE  Trace(more, q, at, end)
<1>1. ASSUME NEW j \in 1 .. Len(q)
      PROVE  Found(more, q[j], at[j - 1], end[j - 1], at[j], end[j])
  <2>1. Len(q) \in Nat
    OBVIOUS
  <2>2. j - 1 \in 0 .. Len(q)
    BY <2>1
  <2>3. at[j - 1] \in Nat \ {0} /\ Found(list, q[j], at[j - 1], end[j - 1], at[j], end[j])
    BY <2>2 DEF Trace
  <2> QED BY <2>3, FoundStays
<1> QED BY <1>1 DEF Trace

\* A trace of requests whose last takes chunk i up to v.
Ends(list, requests, i, v) ==
  \E at, end : /\ Trace(list, requests, at, end)
               /\ at[Len(requests)] = i /\ end[Len(requests)] = v

\* A request more.
LEMMA TraceGrows ==
  ASSUME NEW list, NEW q \in Seq(Request), NEW r \in Request, NEW at, NEW end,
         Trace(list, q, at, end), NEW i \in Nat \ {0}, NEW v,
         Found(list, r, at[Len(q)], end[Len(q)], i, v)
  PROVE  Ends(list, Append(q, r), i, v)
<1> DEFINE l == Len(q)
           at2 == [j \in Nat |-> IF j = l + 1 THEN i ELSE at[j]]
           end2 == [j \in Nat |-> IF j = l + 1 THEN v ELSE end[j]]
           qr == Append(q, r)
<1>1. /\ l \in Nat /\ Len(qr) = l + 1
      /\ (\A j \in 1 .. l : qr[j] = q[j]) /\ qr[l + 1] = r
  BY AppendProperties
<1>2. at2[l + 1] = i /\ end2[l + 1] = v
  BY <1>1
<1>3. \A j \in 0 .. l : at2[j] = at[j] /\ end2[j] = end[j]
  BY <1>1
<1> HIDE DEF at2, end2, qr
<1>4. at2[0] = 1 /\ end2[0] = 0
  BY <1>1, <1>3 DEF Trace
<1>5. ASSUME NEW j \in 0 .. l + 1 PROVE at2[j] \in Nat \ {0}
  <2>1. CASE j = l + 1
    BY <1>2, <2>1
  <2>2. CASE j \in 0 .. l
    BY <1>3, <2>2 DEF Trace
  <2> QED BY <1>1, <2>1, <2>2
<1>6. ASSUME NEW j \in 1 .. l + 1 PROVE Found(list, qr[j], at2[j - 1], end2[j - 1], at2[j], end2[j])
  <2>1. CASE j = l + 1
    <3>1. j - 1 = l /\ l \in 0 .. l
      BY <1>1, <2>1
    <3>2. at2[j - 1] = at[l] /\ end2[j - 1] = end[l] /\ qr[j] = r /\ at2[j] = i /\ end2[j] = v
      BY <1>1, <1>2, <1>3, <2>1, <3>1
    <3> QED BY <3>2
  <2>2. CASE j \in 1 .. l
    <3>1. j - 1 \in 0 .. l /\ j \in 0 .. l
      BY <1>1, <2>2
    <3>2. /\ at2[j - 1] = at[j - 1] /\ end2[j - 1] = end[j - 1] /\ qr[j] = q[j]
          /\ at2[j] = at[j] /\ end2[j] = end[j]
      BY <1>1, <1>3, <2>2, <3>1
    <3>3. Found(list, q[j], at[j - 1], end[j - 1], at[j], end[j])
      BY <2>2 DEF Trace
    <3> QED BY <3>2, <3>3
  <2> QED BY <1>1, <2>1, <2>2
<1>7. Trace(list, qr, at2, end2)
  BY <1>1, <1>4, <1>5, <1>6 DEF Trace
<1>8. Ends(list, qr, i, v)
  BY <1>1, <1>2, <1>7 DEF Ends
<1> QED BY <1>8 DEF qr

\* What the search sees of the chunks from the current one on.
LEMMA TracedUse ==
  ASSUME ScratchInv, NEW at, NEW end, Traced(at, end), chunks # <<>>
  PROVE  /\ current \in 1 .. Len(chunks) /\ at[Len(asked)] = current
         /\ \A n \in current .. Len(chunks) : chunks[n].used = IF n = current THEN end[Len(asked)] ELSE 0
<1>1. Len(asked) \in Nat /\ current \in 0 .. Len(chunks) /\ Len(chunks) \in Nat
  BY DEF ScratchInv, ScratchTypeOK
<1>2. Len(asked) \in 0 .. Len(asked)
  BY <1>1
<1>3. /\ at[Len(asked)] \in Nat \ {0} /\ at[Len(asked)] = current
      /\ end[Len(asked)] = chunks[current].used
  BY <1>2 DEF Traced, Trace
<1>4. ASSUME NEW n \in current .. Len(chunks)
      PROVE  chunks[n].used = IF n = current THEN end[Len(asked)] ELSE 0
  <2>1. CASE n = current
    BY <1>3, <2>1
  <2>2. CASE n # current
    <3>1. n \in 1 .. Len(chunks) /\ n > current
      BY <1>1, <2>2
    <3> QED BY <2>2, <3>1 DEF Traced
  <2> QED BY <2>1, <2>2
<1> QED BY <1>1, <1>3, <1>4

LEMMA FitsIs == \A chunk, r : Fits(chunk, r) <=> HasRoom(chunk, chunk.used, r)
  BY DEF Fits, HasRoom, EndOf, Offset

\* chunk_take from the chunk at which the search ended.
LEMMA TakeTraces ==
  ASSUME ScratchInv, NEW r \in Request, NEW list \in Seq(Chunk), NEW k \in 1 .. Len(list),
         Len(chunks) <= Len(list),
         \A i \in 1 .. Len(chunks) : list[i] = chunks[i],
         \A i \in 1 .. Len(list) : i > Len(chunks) => list[i].used = 0,
         current <= k, k <= Len(chunks) + 1, chunks = <<>> => k = 1,
         \A n \in 1 .. Len(chunks) : current <= n /\ n < k => ~Fits(chunks[n], r),
         Fits(list[k], r),
         Take(list, k, r),
         NEW at, NEW end, Traced(at, end)
  PROVE  /\ \E at2, end2 : Traced(at2, end2)'
         /\ \A q \in Seq(Request) : \A a, e : Trace(chunks, q, a, e) => Trace(chunks', q, a, e)
<1> DEFINE l == Len(asked)
           from == Offset(list[k], r.align)
           to == from + r.bytes
<1>1. /\ Len(chunks) \in Nat /\ Len(list) \in Nat /\ l \in Nat /\ asked \in Seq(Request)
      /\ current \in 0 .. Len(chunks) /\ chunks \in Seq(Chunk) /\ k \in Nat \ {0}
      /\ \A i \in 1 .. Len(list) : list[i] \in Chunk
  BY DEF ScratchInv, ScratchTypeOK
<1>2. to \in Nat
  <2>1. from \in Nat
    <3>1. r.align \in Nat \ {0}
      BY ScratchAssumption DEF Request
    <3> QED BY <1>1, <3>1, OffsetBounds
  <2>2. r.bytes \in Nat
    BY ScratchAssumption DEF Request
  <2> HIDE DEF from
  <2> QED BY <2>1, <2>2
<1>3. chunks' = [list EXCEPT ![k].used = to] /\ current' = k /\ asked' = Append(asked, r)
  BY DEF Take
<1>4. to = EndOf(list[k], list[k].used, r)
  BY DEF EndOf, Offset
<1> HIDE DEF from, to
<1>5. /\ chunks' \in Seq(Chunk)
      /\ Len(chunks') = Len(list)
      /\ \A i \in 1 .. Len(list) : i # k => chunks'[i] = list[i]
      /\ chunks'[k] = [list[k] EXCEPT !.used = to]
  <2>1. [list[k] EXCEPT !.used = to] \in Chunk
    BY <1>1, <1>2 DEF Chunk
  <2>2. chunks' = [list EXCEPT ![k] = [list[k] EXCEPT !.used = to]]
    BY <1>3
  <2> QED BY <2>1, <2>2, ExceptSeq
<1>6. chunks'[k].used = to /\ chunks'[k].base = list[k].base /\ chunks'[k].cap = list[k].cap
  BY <1>1, <1>5 DEF Chunk
<1>7. \A i \in 1 .. Len(list) : chunks'[i].base = list[i].base /\ chunks'[i].cap = list[i].cap
  BY <1>5, <1>6
<1>8. \A q \in Seq(Request) : \A a, e : Trace(list, q, a, e) => Trace(chunks', q, a, e)
  <2> SUFFICES ASSUME NEW q \in Seq(Request), NEW a, NEW e, Trace(list, q, a, e)
               PROVE  Trace(chunks', q, a, e)
    OBVIOUS
  <2>1. Len(chunks') \in Nat /\ Len(list) \in Nat /\ Len(list) <= Len(chunks')
    BY <1>1, <1>5
  <2> QED BY <1>7, <2>1, TraceStays
<1>9. \A q \in Seq(Request) : \A a, e : Trace(chunks, q, a, e) => Trace(list, q, a, e)
  BY <1>1, TraceStays
<1>10. Found(list, r, at[l], end[l], k, to)
  <2>1. CASE chunks = <<>>
    <3>1. asked = <<>> /\ l = 0 /\ at[0] = 1 /\ end[0] = 0
      BY <2>1 DEF Traced, Trace
    <3>2. k = 1 /\ list[k].used = 0
      BY <1>1, <2>1
    <3> QED BY <1>1, <1>4, <3>1, <3>2, FitsIs DEF Found
  <2>2. CASE chunks # <<>>
    <3>1. /\ current \in 1 .. Len(chunks) /\ at[l] = current
          /\ \A n \in current .. Len(chunks) : chunks[n].used = IF n = current THEN end[l] ELSE 0
      BY <2>2, TracedUse
    <3>2. \A n \in current .. Len(list) : list[n].used = IF n = current THEN end[l] ELSE 0
      <4> SUFFICES ASSUME NEW n \in current .. Len(list)
                   PROVE  list[n].used = IF n = current THEN end[l] ELSE 0
        OBVIOUS
      <4>1. CASE n <= Len(chunks)
        <5>1. n \in 1 .. Len(chunks) /\ n \in current .. Len(chunks)
          BY <1>1, <3>1, <4>1
        <5> QED BY <3>1, <5>1
      <4>2. CASE n > Len(chunks)
        <5>1. n \in 1 .. Len(list) /\ n # current
          BY <1>1, <3>1, <4>2
        <5> QED BY <4>2, <5>1
      <4> QED BY <1>1, <4>1, <4>2
    <3>3. ASSUME NEW n \in current .. k - 1 PROVE ~Fits(list[n], r)
      <4>1. CASE n <= Len(chunks)
        <5>1. n \in 1 .. Len(chunks) /\ current <= n /\ n < k
          BY <1>1, <3>1, <4>1
        <5> QED BY <5>1
      <4>2. CASE n > Len(chunks)
        BY <1>1, <3>1, <4>2
      <4> QED BY <1>1, <3>1, <4>1, <4>2
    <3>4. k \in current .. Len(list)
      BY <1>1, <3>1
    <3>5. \A n \in current .. k - 1 : n \in current .. Len(list)
      BY <1>1, <3>1
    <3>6. \A n \in current .. k - 1 : ~HasRoom(list[n], IF n = current THEN end[l] ELSE 0, r)
      BY <3>2, <3>3, <3>5, FitsIs
    <3>7. HasRoom(list[k], IF k = current THEN end[l] ELSE 0, r)
      BY <3>2, <3>4, FitsIs
    <3>8. to = EndOf(list[k], IF k = current THEN end[l] ELSE 0, r)
      BY <1>4, <3>2, <3>4
    <3> QED BY <3>1, <3>4, <3>6, <3>7, <3>8 DEF Found
  <2> QED BY <2>1, <2>2
<1>11. PICK at2, end2 : /\ Trace(list, Append(asked, r), at2, end2)
                        /\ at2[l + 1] = k /\ end2[l + 1] = to
  <2>1. Trace(list, asked, at, end)
    BY <1>1, <1>9 DEF Traced
  <2>2. asked \in Seq(Request) /\ k \in Nat \ {0}
    BY <1>1
  <2>3. Found(list, r, at[Len(asked)], end[Len(asked)], k, to)
    BY <1>10
  <2>4. Ends(list, Append(asked, r), k, to)
    BY <1>2, <2>1, <2>2, <2>3, TraceGrows
  <2>5. Len(Append(asked, r)) = l + 1
    BY <2>2, AppendProperties
  <2> QED BY <2>4, <2>5 DEF Ends
<1>12. asked' \in Seq(Request) /\ Len(asked') = l + 1
  BY <1>1, <1>3, AppendProperties
<1>13. Trace(chunks', asked', at2, end2)
  BY <1>3, <1>8, <1>11, <1>12
<1>14. chunks' # <<>>
  BY <1>1, <1>5
<1>15. ASSUME NEW n \in 1 .. Len(chunks'), n > k PROVE chunks'[n].used = 0
  <2>1. n \in 1 .. Len(list) /\ n # k /\ chunks'[n] = list[n]
    BY <1>1, <1>5, <1>15
  <2>2. CASE n <= Len(chunks)
    <3>1. n \in 1 .. Len(chunks) /\ n > current
      BY <1>1, <1>15, <2>1, <2>2
    <3> QED BY <2>1, <3>1 DEF Traced
  <2>3. CASE n > Len(chunks)
    BY <2>1, <2>3
  <2> QED BY <1>1, <2>1, <2>2, <2>3
<1>16. Traced(at2, end2)'
  BY <1>3, <1>6, <1>11, <1>12, <1>13, <1>14, <1>15 DEF Traced
<1> QED BY <1>8, <1>9, <1>16

LEMMA ExistingSteady ==
  ASSUME SteadyInv, NEW r \in Request, AllocExisting(r)
  PROVE  SteadyInv' /\ Len(chunks') = Len(chunks)
<1>1. PICK at, end : Traced(at, end)
  BY DEF SteadyInv
<1>2. PICK k \in Candidates(r) : (\A c \in Candidates(r) : k <= c) /\ Take(chunks, k, r)
  BY DEF AllocExisting
<1>3. /\ ScratchInv /\ chunks \in Seq(Chunk) /\ Len(chunks) \in Nat /\ current \in 0 .. Len(chunks)
      /\ before \in Seq(Request)
  BY DEF SteadyInv, ScratchInv, ScratchTypeOK
<1>4. k \in 1 .. Len(chunks) /\ current # 0 /\ current <= k /\ Fits(chunks[k], r)
  BY <1>3 DEF Candidates
<1>5. \A n \in 1 .. Len(chunks) : current <= n /\ n < k => ~Fits(chunks[n], r)
  <2> SUFFICES ASSUME NEW n \in 1 .. Len(chunks), current <= n, n < k, Fits(chunks[n], r) PROVE FALSE
    OBVIOUS
  <2>1. n \in Candidates(r)
    BY <1>3, <1>4 DEF Candidates
  <2> QED BY <1>2, <1>3, <1>4, <2>1
<1>6. k <= Len(chunks) + 1 /\ chunks # <<>> /\ Len(chunks) <= Len(chunks)
  BY <1>3, <1>4
<1>7. \A i \in 1 .. Len(chunks) : i > Len(chunks) => chunks[i].used = 0
  BY <1>3
<1>8. /\ \E at2, end2 : Traced(at2, end2)'
      /\ \A q \in Seq(Request) : \A a, e : Trace(chunks, q, a, e) => Trace(chunks', q, a, e)
  BY <1>1, <1>2, <1>3, <1>4, <1>5, <1>6, <1>7, TakeTraces
<1>9. ScratchInv'
  BY <1>3, ExistingInv
<1>10. before' = before /\ Len(chunks') = Len(chunks)
  BY <1>2, <1>3, <1>4 DEF Take
<1> QED BY <1>3, <1>8, <1>9, <1>10 DEF SteadyInv

LEMMA FreshSteady ==
  ASSUME SteadyInv, NEW r \in Request, AllocFresh(r)
  PROVE  SteadyInv'
<1>1. PICK at, end : Traced(at, end)
  BY DEF SteadyInv
<1>2. PICK base \in Bases :
        Take(Append(chunks, [base |-> base, cap |-> Capacity(r), used |-> 0]), Len(chunks) + 1, r)
  BY DEF AllocFresh
<1> DEFINE c == [base |-> base, cap |-> Capacity(r), used |-> 0]
           list == Append(chunks, c)
           k == Len(chunks) + 1
<1>3. c \in Chunk /\ Fits(c, r) /\ c.used = 0
  BY FreshFits
<1> HIDE DEF c
<1>4. /\ ScratchInv /\ chunks \in Seq(Chunk) /\ Len(chunks) \in Nat /\ current \in 0 .. Len(chunks)
      /\ before \in Seq(Request)
  BY DEF SteadyInv, ScratchInv, ScratchTypeOK
<1>5. /\ list \in Seq(Chunk) /\ Len(list) = Len(chunks) + 1
      /\ \A i \in 1 .. Len(chunks) : list[i] = chunks[i]
      /\ list[k] = c
  BY <1>3, <1>4, AppendProperties
<1>6. Take(list, k, r)
  BY <1>2 DEF c
<1> HIDE DEF list
<1>7. chunks # <<>> => current # 0
  BY <1>1, <1>4, TracedUse
<1>8. \A n \in 1 .. Len(chunks) : current <= n /\ n < k => ~Fits(chunks[n], r)
  <2> SUFFICES ASSUME NEW n \in 1 .. Len(chunks), current <= n, Fits(chunks[n], r) PROVE FALSE
    OBVIOUS
  <2>1. chunks # <<>>
    BY <1>4
  <2>2. n \in Candidates(r)
    BY <1>4, <1>7, <2>1 DEF Candidates
  <2> QED BY <2>2 DEF AllocFresh
<1>9. /\ current <= k /\ k <= Len(chunks) + 1 /\ (chunks = <<>> => k = 1) /\ k \in 1 .. Len(list)
      /\ Len(chunks) <= Len(list)
  BY <1>4, <1>5
<1>10. \A i \in 1 .. Len(list) : i > Len(chunks) => list[i].used = 0
  <2> SUFFICES ASSUME NEW i \in 1 .. Len(list), i > Len(chunks) PROVE list[i].used = 0
    OBVIOUS
  <2>1. i = k
    BY <1>4, <1>5
  <2> QED BY <1>3, <1>5, <2>1
<1>11. Fits(list[k], r)
  BY <1>3, <1>5
<1> HIDE DEF k
<1>12. /\ \E at2, end2 : Traced(at2, end2)'
       /\ \A q \in Seq(Request) : \A a, e : Trace(chunks, q, a, e) => Trace(chunks', q, a, e)
  BY <1>1, <1>4, <1>5, <1>6, <1>8, <1>9, <1>10, <1>11, TakeTraces
<1>13. ScratchInv'
  BY <1>4, FreshInv
<1>14. before' = before
  BY <1>6 DEF Take
<1> QED BY <1>4, <1>12, <1>13, <1>14 DEF SteadyInv

\* A trace of no requests.
LEMMA TraceStarts == \E at, end : at[0] = 1 /\ end[0] = 0 /\ \A list : Trace(list, <<>>, at, end)
<1> DEFINE at == [j \in {0} |-> 1]
           end == [j \in {0} |-> 0]
<1>1. at[0] = 1 /\ end[0] = 0
  OBVIOUS
<1> HIDE DEF at, end
<1>2. \A list : Trace(list, <<>>, at, end)
  BY <1>1 DEF Trace
<1> QED BY <1>1, <1>2

LEMMA ResetSteady == ASSUME SteadyInv, Reset PROVE SteadyInv'
<1>1. /\ ScratchInv /\ chunks \in Seq(Chunk) /\ Len(chunks) \in Nat /\ asked \in Seq(Request)
  BY DEF SteadyInv, ScratchInv, ScratchTypeOK
<1>2. /\ chunks' = [k \in 1 .. Len(chunks) |-> [chunks[k] EXCEPT !.used = 0]]
      /\ current' = IF chunks = <<>> THEN 0 ELSE 1
      /\ asked' = <<>> /\ before' = asked
  BY DEF Reset
<1>3. ScratchInv'
  BY <1>1, ResetInv
<1>4. \A c \in Chunk : LET d == [c EXCEPT !.used = 0] IN d.used = 0 /\ d.base = c.base /\ d.cap = c.cap
  BY DEF Chunk
<1>5. /\ chunks' \in Seq(Chunk) /\ Len(chunks') = Len(chunks)
      /\ \A k \in 1 .. Len(chunks) :
           chunks'[k].used = 0 /\ chunks'[k].base = chunks[k].base /\ chunks'[k].cap = chunks[k].cap
  <2>1. chunks' \in Seq(Chunk)
    BY <1>3 DEF ScratchInv, ScratchTypeOK
  <2>2. Len(chunks') = Len(chunks)
    BY <1>1, <1>2, <2>1, LenProperties
  <2>3. \A k \in 1 .. Len(chunks) : chunks'[k] = [chunks[k] EXCEPT !.used = 0] /\ chunks[k] \in Chunk
    BY <1>1, <1>2
  <2>4. ASSUME NEW k \in 1 .. Len(chunks)
        PROVE  chunks'[k].used = 0 /\ chunks'[k].base = chunks[k].base /\ chunks'[k].cap = chunks[k].cap
    <3> DEFINE c == chunks[k]
               d == [c EXCEPT !.used = 0]
    <3>1. c \in Chunk /\ chunks'[k] = d
      BY <2>3
    <3>2. d.used = 0 /\ d.base = c.base /\ d.cap = c.cap
      BY <1>4, <3>1
    <3> QED BY <3>1, <3>2
  <2> QED BY <2>1, <2>2, <2>4
<1>6. \E at, end : Trace(chunks, before, at, end)'
  <2>1. PICK at, end : Trace(chunks, asked, at, end)
    BY DEF SteadyInv, Traced
  <2>2. Len(chunks') \in Nat /\ Len(chunks) <= Len(chunks')
    BY <1>1, <1>5
  <2>3. Trace(chunks', asked, at, end)
    BY <1>1, <1>5, <2>1, <2>2, TraceStays
  <2> QED BY <1>2, <2>3
<1>7. \E at, end : Traced(at, end)'
  <2>1. PICK at, end : at[0] = 1 /\ end[0] = 0 /\ \A list : Trace(list, <<>>, at, end)
    BY TraceStarts
  <2>2. Len(asked') = 0
    BY <1>2
  <2>3. chunks' # <<>> => current' = 1 /\ 1 \in 1 .. Len(chunks)
    BY <1>1, <1>2, <1>5, EmptySeq
  <2>4. Traced(at, end)'
    BY <1>2, <1>5, <2>1, <2>2, <2>3 DEF Traced
  <2> QED BY <2>4
<1> QED BY <1>3, <1>6, <1>7 DEF SteadyInv

LEMMA SteadyInit == ScratchInit => SteadyInv
<1> SUFFICES ASSUME ScratchInit PROVE SteadyInv
  OBVIOUS
<1>1. chunks = <<>> /\ asked = <<>> /\ before = <<>> /\ Len(chunks) = 0
  BY DEF ScratchInit
<1>2. PICK at, end : at[0] = 1 /\ end[0] = 0 /\ \A list : Trace(list, <<>>, at, end)
  BY TraceStarts
<1>3. Traced(at, end) /\ Trace(chunks, before, at, end)
  BY <1>1, <1>2 DEF Traced
<1> QED BY <1>3, ScratchInitInv DEF SteadyInv

\* A request that the frame before also made here finds room.
LEMMA AskedAgain ==
  ASSUME SteadyInv, NEW r \in Request, IsPrefix(Append(asked, r), before)
  PROVE  Candidates(r) # {}
<1>1. PICK at, end : Traced(at, end)
  BY DEF SteadyInv
<1>2. PICK at2, end2 : Trace(chunks, before, at2, end2)
  BY DEF SteadyInv
<1> DEFINE l == Len(asked)
           more == Append(asked, r)
<1>3. /\ ScratchInv /\ l \in Nat /\ asked \in Seq(Request) /\ before \in Seq(Request)
      /\ Len(before) \in Nat /\ Len(chunks) \in Nat
  BY DEF SteadyInv, ScratchInv, ScratchTypeOK
<1>4. /\ more \in Seq(Request) /\ Len(more) = l + 1 /\ more[l + 1] = r
      /\ \A j \in 1 .. l : more[j] = asked[j]
  BY <1>3, AppendProperties
<1> HIDE DEF more
<1>5. /\ l + 1 <= Len(before)
      /\ \A j \in 1 .. l + 1 : before[j] = more[j]
  <2>1. Len(more) <= Len(before) /\ SubSeq(more, 1, Len(more)) = SubSeq(before, 1, Len(more))
    BY DEF IsPrefix, more
  <2>2. \A j \in 1 .. l + 1 : /\ SubSeq(more, 1, l + 1)[j] = more[j]
                              /\ SubSeq(before, 1, l + 1)[j] = before[j]
    BY <1>3, <1>4, <2>1
  <2> QED BY <1>4, <2>1, <2>2
<1>6. l <= Len(before) /\ \A j \in 1 .. l : asked[j] = before[j]
  BY <1>3, <1>4, <1>5
<1>7. at[l] = at2[l] /\ end[l] = end2[l] /\ at[l] \in Nat \ {0}
  <2>1. Agree(l, at, end, at2, end2)
    <3>1. Trace(chunks, asked, at, end)
      BY <1>1 DEF Traced
    <3>2. asked \in Seq(Request) /\ before \in Seq(Request)
      BY <1>3
    <3>3. Len(asked) <= Len(before) /\ \A j \in 1 .. Len(asked) : asked[j] = before[j]
      BY <1>6
    <3> QED BY <1>2, <3>1, <3>2, <3>3, TracesAgree
  <2>2. l \in 0 .. l
    BY <1>3
  <2> QED BY <1>1, <2>1, <2>2 DEF Agree, Traced, Trace
<1>8. Found(chunks, r, at[l], end[l], at2[l + 1], end2[l + 1])
  <2>1. l + 1 \in 1 .. Len(before) /\ (l + 1) - 1 = l /\ l + 1 \in 1 .. l + 1
    BY <1>3, <1>5
  <2>2. Found(chunks, before[l + 1], at2[l], end2[l], at2[l + 1], end2[l + 1])
    BY <1>2, <2>1 DEF Trace
  <2> QED BY <1>4, <1>5, <1>7, <2>1, <2>2
<1> DEFINE k == at2[l + 1]
<1>9. k \in at[l] .. Len(chunks) /\ HasRoom(chunks[k], IF k = at[l] THEN end[l] ELSE 0, r)
  BY <1>8 DEF Found
<1> HIDE DEF k
<1>10. chunks # <<>>
  BY <1>3, <1>7, <1>9
<1>11. /\ current \in 1 .. Len(chunks) /\ at[l] = current
       /\ \A n \in current .. Len(chunks) : chunks[n].used = IF n = current THEN end[l] ELSE 0
  BY <1>1, <1>3, <1>10, TracedUse
<1>12. Fits(chunks[k], r)
  BY <1>9, <1>11, FitsIs
<1>13. k \in 1 .. Len(chunks) /\ current # 0 /\ k >= current
  BY <1>3, <1>9, <1>11
<1> QED BY <1>12, <1>13 DEF Candidates

LEMMA SteadyStep ==
  SteadyInv /\ [ScratchNext]_scratchVars
    => /\ SteadyInv'
       /\ (asked' # <<>> /\ IsPrefix(asked', before) => Len(chunks') = Len(chunks))
          \/ UNCHANGED scratchVars
<1> SUFFICES ASSUME SteadyInv, [ScratchNext]_scratchVars
             PROVE  /\ SteadyInv'
                    /\ (asked' # <<>> /\ IsPrefix(asked', before) => Len(chunks') = Len(chunks))
                       \/ UNCHANGED scratchVars
  OBVIOUS
<1>1. CASE UNCHANGED scratchVars
  <2>1. ScratchInv'
    BY <1>1, ScratchStepInv DEF SteadyInv
  <2>2. chunks' = chunks /\ asked' = asked /\ before' = before /\ current' = current
    BY <1>1 DEF scratchVars
  <2>3. (\E at, end : Traced(at, end)') /\ (\E at, end : Trace(chunks, before, at, end)')
    BY <2>2 DEF SteadyInv, Traced
  <2> QED BY <1>1, <2>1, <2>3 DEF SteadyInv
<1>2. ASSUME NEW r \in Request, AllocExisting(r)
      PROVE  SteadyInv' /\ Len(chunks') = Len(chunks)
  BY <1>2, ExistingSteady
<1>3. ASSUME NEW r \in Request, AllocFresh(r)
      PROVE  SteadyInv' /\ ~IsPrefix(asked', before)
  <2>1. SteadyInv'
    BY <1>3, FreshSteady
  <2>2. asked' = Append(asked, r) /\ Candidates(r) = {}
    BY <1>3 DEF AllocFresh, Take
  <2> QED BY <2>1, <2>2, AskedAgain
<1>4. CASE Reset
  <2>1. SteadyInv'
    BY <1>4, ResetSteady
  <2>2. asked' = <<>>
    BY <1>4 DEF Reset
  <2> QED BY <2>1, <2>2
<1> QED BY <1>1, <1>2, <1>3, <1>4 DEF ScratchNext, Alloc

(***************************************************************************)
(* Layouts that repeat do not make the arena grow: a frame that begins     *)
(* like the one before it takes every block from the chunk, and the place, *)
(* that the frame before took it from, so that no further chunk is needed, *)
(* however many requests there are and of whatever sizes.                  *)
(***************************************************************************)
THEOREM FramesStaySteady == ScratchSpec => SteadyFrames
<1>1. SteadyInv /\ [ScratchNext]_scratchVars
        => [asked' # <<>> /\ IsPrefix(asked', before) => Len(chunks') = Len(chunks)]_scratchVars
  BY SteadyStep
<1>2. SteadyInv /\ [ScratchNext]_scratchVars => SteadyInv'
  BY SteadyStep
<1> QED BY <1>1, <1>2, SteadyInit, PTL DEF ScratchSpec, SteadyFrames

-----------------------------------------------------------------------------
(***************************************************************************)
(* The display list.                                                       *)
(***************************************************************************)

\* What the commands can be.
Ops == {"draw", "push", "pop"} \X
       {"rect", "image", "shape", "text", "clip", "transform", "opacity"}
\* What the pool holds.
Contents == Bytes \cup {NUL}

Ranges == [offset : Nat, length : Nat]
Commands == [op : Ops, text : Ranges, font : Ranges]
Calls == [op : Ops, text : Strings, font : Strings]

\* s is in pool p at a range, with a NUL behind it.
HeldAt(p, range, s) ==
  /\ range.length = Len(s)
  /\ range.offset + range.length < Len(p)
  /\ \A i \in 1 .. Len(s) : p[range.offset + i] = s[i]
  /\ p[range.offset + range.length + 1] = NUL

\* Pool q begins with what pool p holds.
Extends(q, p) ==
  /\ q \in Seq(Contents)
  /\ Len(p) <= Len(q)
  /\ \A i \in 1 .. Len(p) : q[i] = p[i]

\* Command c, with the strings in pool p, is what call d asked for.
Records(c, d, p) ==
  /\ c.op = d.op
  /\ d.op = <<"draw", "text">> => HeldAt(p, c.text, d.text)
  /\ d.font # <<>> => HeldAt(p, c.font, d.font)

CountIn(s, op, n) == Cardinality({i \in 1 .. n : s[i].op = op})

\* The first n commands leave nothing they have not entered.
Nested(s, k, n) == CountIn(s, <<"pop", k>>, n) <= CountIn(s, <<"push", k>>, n)

DisplayTypeOK ==
  /\ life \in {"none", "builder", "list"}
  /\ cmds \in Seq(Commands)
  /\ cap \in Nat
  /\ pool \in Seq(Contents)
  /\ poolCap \in Nat
  /\ depth \in [Kinds -> Nat]
  /\ drawn \in Seq(Calls)

CallsAnswered ==
  /\ Len(cmds) = Len(drawn)
  /\ \A i \in 1 .. Len(drawn) : Records(cmds[i], drawn[i], pool)

RoomHeld == Len(cmds) <= cap /\ Len(pool) <= poolCap

DepthsCounted ==
  \A k \in Kinds :
    /\ \A n \in 1 .. Len(cmds) : Nested(cmds, k, n)
    /\ depth[k] + CountIn(cmds, <<"pop", k>>, Len(cmds)) = CountIn(cmds, <<"push", k>>, Len(cmds))

ListsAreLeft == life = "list" => \A k \in Kinds : depth[k] = 0

DisplayInv ==
  /\ DisplayTypeOK
  /\ CallsAnswered
  /\ RoomHeld
  /\ DepthsCounted
  /\ ListsAreLeft

-----------------------------------------------------------------------------
\* Doubling ends with room for what is needed.
LEMMA NextStringCapFits ==
  ASSUME NEW room \in Nat, NEW needed \in Nat
  PROVE  NextStringCap(room, needed) \in Nat /\ needed <= NextStringCap(room, needed)
<1> DEFINE first == IF room = 0 THEN FirstBytes ELSE 2 * room
<1>1. first \in Nat \ {0}
  BY DisplayAssumption
<1> HIDE DEF first
<1> QED BY <1>1, DoublingFits DEF NextStringCap, first

\* What display_append_string leaves in the pool.
LEMMA InternHolds ==
  ASSUME NEW held \in Seq(Contents), NEW s \in Strings
  PROVE  /\ Intern(held, s) \in Seq(Contents)
         /\ Len(Intern(held, s)) = Len(held) + Len(s) + 1
         /\ Extends(Intern(held, s), held)
         /\ RangeAt(held, s) \in Ranges
         /\ HeldAt(Intern(held, s), RangeAt(held, s), s)
<1> DEFINE both == held \o s
           p == Intern(held, s)
           m == Len(held)
           n == Len(s)
<1>1. s \in Seq(Contents) /\ NUL \in Contents
  <2>1. s \in Seq(Bytes) /\ Bytes \subseteq Contents /\ NUL \in Contents
    BY DisplayAssumption DEF Contents
  <2>2. Len(s) \in Nat /\ \A i \in 1 .. Len(s) : s[i] \in Contents
    BY <2>1, LenProperties
  <2> QED BY <2>1, <2>2
<1>2. m \in Nat /\ n \in Nat
  BY <1>1, LenProperties
<1>3. /\ both \in Seq(Contents)
      /\ Len(both) = m + n
      /\ \A i \in 1 .. m + n : both[i] = IF i <= m THEN held[i] ELSE s[i - m]
  BY <1>1, ConcatProperties
<1> HIDE DEF both
<1>4. /\ p \in Seq(Contents)
      /\ Len(p) = m + n + 1
      /\ p[m + n + 1] = NUL
      /\ \A i \in 1 .. m + n : p[i] = both[i]
  <2>1. p = Append(both, NUL)
    BY DEF Intern, both
  <2> HIDE DEF p, m, n
  <2> QED BY <2>1, <1>1, <1>3, AppendProperties
<1> HIDE DEF p
<1>5. Extends(p, held)
  <2>1. \A i \in 1 .. m : i \in 1 .. m + n /\ p[i] = held[i]
    <3> HIDE DEF m, n
    <3> QED BY <1>2, <1>3, <1>4
  <2> QED BY <2>1, <1>2, <1>4 DEF Extends
<1>6. RangeAt(held, s) \in Ranges /\ RangeAt(held, s).offset = m /\ RangeAt(held, s).length = n
  BY <1>2 DEF RangeAt, Ranges
<1>7. \A i \in 1 .. n : p[m + i] = s[i]
  <2> HIDE DEF m, n
  <2> SUFFICES ASSUME NEW i \in 1 .. n PROVE p[m + i] = s[i]
    OBVIOUS
  <2>1. m + i \in 1 .. m + n /\ ~(m + i <= m) /\ (m + i) - m = i
    BY <1>2
  <2> QED BY <2>1, <1>3, <1>4
<1>8. HeldAt(p, RangeAt(held, s), s)
  BY <1>2, <1>4, <1>6, <1>7 DEF HeldAt
<1> QED BY <1>4, <1>5, <1>6, <1>8 DEF p

\* It stays there when more is appended.
LEMMA HeldStays ==
  ASSUME NEW p \in Seq(Contents), NEW q, Extends(q, p),
         NEW range \in Ranges, NEW s \in Strings, HeldAt(p, range, s)
  PROVE  HeldAt(q, range, s)
<1>1. /\ Len(p) \in Nat /\ Len(q) \in Nat /\ Len(s) \in Nat
      /\ range.offset \in Nat /\ range.length \in Nat
  BY DisplayAssumption, LenProperties DEF Extends, Ranges
<1>2. \A i \in 1 .. Len(s) : range.offset + i \in 1 .. Len(p)
  BY <1>1 DEF HeldAt
<1>3. range.offset + range.length + 1 \in 1 .. Len(p)
  BY <1>1 DEF HeldAt
<1>4. \A i \in 1 .. Len(s) : q[range.offset + i] = s[i]
  BY <1>2 DEF HeldAt, Extends
<1>5. q[range.offset + range.length + 1] = NUL
  BY <1>3 DEF HeldAt, Extends
<1>6. range.offset + range.length < Len(q)
  BY <1>1 DEF HeldAt, Extends
<1> QED BY <1>4, <1>5, <1>6 DEF HeldAt

LEMMA ExtendsTwice ==
  ASSUME NEW p \in Seq(Contents), NEW q, Extends(q, p), NEW r, Extends(r, q)
  PROVE  Extends(r, p)
<1>1. Len(p) \in Nat /\ Len(q) \in Nat /\ Len(r) \in Nat
  BY LenProperties DEF Extends
<1> QED BY <1>1 DEF Extends

\* display_grow_strings has made room.
LEMMA RoomIsEnough ==
  ASSUME NEW held \in Seq(Contents), NEW room \in Nat, NEW s \in Strings
  PROVE  RoomFor(held, room, s) \in Nat /\ Len(Intern(held, s)) <= RoomFor(held, room, s)
<1>1. Len(Intern(held, s)) \in Nat
  BY InternHolds, LenProperties
<1> QED BY <1>1, NextStringCapFits DEF RoomFor, GrowMayFail

-----------------------------------------------------------------------------
\* How many commands of a kind there are, when one more comes.
LEMMA CountSteps ==
  ASSUME NEW s \in Seq(Commands), NEW c \in Commands, NEW op
  PROVE  /\ \A n \in 0 .. Len(s) : /\ CountIn(s, op, n) \in Nat
                                  /\ CountIn(Append(s, c), op, n) = CountIn(s, op, n)
         /\ CountIn(Append(s, c), op, Len(s) + 1)
            = IF c.op = op THEN CountIn(s, op, Len(s)) + 1 ELSE CountIn(s, op, Len(s))
<1> DEFINE t == Append(s, c)
           m == Len(s)
           held(seq, n) == {i \in 1 .. n : seq[i].op = op}
<1>1. m \in Nat /\ t[m + 1] = c /\ \A i \in 1 .. m : t[i] = s[i]
  BY LenProperties, AppendProperties
<1> HIDE DEF t, m
<1>2. ASSUME NEW n \in 0 .. m
      PROVE  held(t, n) = held(s, n) /\ IsFiniteSet(held(s, n)) /\ Cardinality(held(s, n)) \in Nat
  <2>0. n \in Nat /\ 1 .. n \subseteq 1 .. m
    BY <1>1
  <2>1. held(t, n) = held(s, n)
    BY <2>0, <1>1
  <2>2. IsFiniteSet(1 .. n)
    BY <2>0, Intervals
  <2>3. held(s, n) \in SUBSET (1 .. n)
    OBVIOUS
  <2>4. IsFiniteSet(held(s, n))
    <3> HIDE DEF held
    <3> QED BY <2>2, <2>3, FS_Subset
  <2>5. Cardinality(held(s, n)) \in Nat
    <3> HIDE DEF held
    <3> QED BY <2>4, FS_CardinalityType
  <2> QED BY <2>1, <2>4, <2>5
<1>3. m \in 0 .. m
  BY <1>1
<1>4. held(t, m + 1) = IF c.op = op THEN held(s, m) \cup {m + 1} ELSE held(s, m)
  <2>1. 1 .. m + 1 = (1 .. m) \cup {m + 1}
    BY <1>1
  <2> QED BY <2>1, <1>1
<1>5. m + 1 \notin held(s, m)
  BY <1>1
<1>6. IsFiniteSet(held(s, m))
  BY <1>2, <1>3
<1>7. Cardinality(held(t, m + 1)) =
        IF c.op = op THEN Cardinality(held(s, m)) + 1 ELSE Cardinality(held(s, m))
  <2> HIDE DEF held
  <2>1. Cardinality(held(s, m) \cup {m + 1}) = Cardinality(held(s, m)) + 1
    BY <1>5, <1>6, FS_AddElement
  <2> QED BY <2>1, <1>4
<1> QED BY <1>2, <1>7 DEF CountIn, t, m

\* Depths follow the commands.
LEMMA DepthSteps ==
  ASSUME DisplayTypeOK, DepthsCounted, NEW cmd \in Commands, cmds' = Append(cmds, cmd),
         \A k \in Kinds :
           \/ cmd.op = <<"push", k>> /\ depth'[k] = depth[k] + 1
           \/ cmd.op = <<"pop", k>> /\ depth[k] > 0 /\ depth'[k] = depth[k] - 1
           \/ cmd.op \notin {<<"push", k>>, <<"pop", k>>} /\ depth'[k] = depth[k]
  PROVE  DepthsCounted'
<1> SUFFICES ASSUME NEW k \in Kinds
             PROVE  /\ \A n \in 1 .. Len(cmds') : Nested(cmds', k, n)
                    /\ depth'[k] + CountIn(cmds', <<"pop", k>>, Len(cmds'))
                       = CountIn(cmds', <<"push", k>>, Len(cmds'))
  BY DEF DepthsCounted
<1> DEFINE push == <<"push", k>>
           pop == <<"pop", k>>
           m == Len(cmds)
           t == Append(cmds, cmd)
<1>0. push # pop
  OBVIOUS
<1> HIDE DEF push, pop
<1>1. m \in Nat /\ Len(t) = m + 1 /\ cmds \in Seq(Commands) /\ depth[k] \in Nat
  BY LenProperties, AppendProperties DEF DisplayTypeOK
<1>2. /\ \A n \in 0 .. m : /\ CountIn(cmds, push, n) \in Nat
                           /\ CountIn(t, push, n) = CountIn(cmds, push, n)
      /\ CountIn(t, push, m + 1) =
           IF cmd.op = push THEN CountIn(cmds, push, m) + 1 ELSE CountIn(cmds, push, m)
  BY <1>1, CountSteps
<1>3. /\ \A n \in 0 .. m : /\ CountIn(cmds, pop, n) \in Nat
                           /\ CountIn(t, pop, n) = CountIn(cmds, pop, n)
      /\ CountIn(t, pop, m + 1) =
           IF cmd.op = pop THEN CountIn(cmds, pop, m) + 1 ELSE CountIn(cmds, pop, m)
  BY <1>1, CountSteps
<1>4. /\ \A n \in 1 .. m : CountIn(cmds, pop, n) <= CountIn(cmds, push, n)
      /\ depth[k] + CountIn(cmds, pop, m) = CountIn(cmds, push, m)
  BY DEF DepthsCounted, Nested, push, pop
<1>5. cmds' = t /\ (\/ cmd.op = push /\ depth'[k] = depth[k] + 1
                    \/ cmd.op = pop /\ depth[k] > 0 /\ depth'[k] = depth[k] - 1
                    \/ cmd.op # push /\ cmd.op # pop /\ depth'[k] = depth[k])
  BY DEF push, pop
<1> HIDE DEF t, m
<1>6. m \in 0 .. m
  BY <1>1
<1>7. depth'[k] + CountIn(t, pop, m + 1) = CountIn(t, push, m + 1) /\ depth'[k] \in Nat
  <2> DEFINE in == CountIn(cmds, push, m)
             out == CountIn(cmds, pop, m)
             in1 == CountIn(t, push, m + 1)
             out1 == CountIn(t, pop, m + 1)
             d == depth[k]
             d1 == depth'[k]
  <2>1. in \in Nat /\ out \in Nat /\ d \in Nat /\ d + out = in
    BY <1>1, <1>2, <1>3, <1>4, <1>6
  <2>2. in1 = (IF cmd.op = push THEN in + 1 ELSE in) /\ out1 = IF cmd.op = pop THEN out + 1 ELSE out
    BY <1>2, <1>3
  <2>3. \/ cmd.op = push /\ d1 = d + 1
        \/ cmd.op = pop /\ d > 0 /\ d1 = d - 1
        \/ cmd.op # push /\ cmd.op # pop /\ d1 = d
    BY <1>5
  <2> HIDE DEF in, out, in1, out1, d, d1
  <2>4. d1 + out1 = in1 /\ d1 \in Nat
    <3>1. CASE cmd.op = push /\ d1 = d + 1
      <4>1. in1 = in + 1 /\ out1 = out
        BY <3>1, <2>2, <1>0
      <4> QED BY <3>1, <4>1, <2>1
    <3>2. CASE cmd.op = pop /\ d > 0 /\ d1 = d - 1
      <4>1. in1 = in /\ out1 = out + 1
        BY <3>2, <2>2, <1>0
      <4> QED BY <3>2, <4>1, <2>1
    <3>3. CASE cmd.op # push /\ cmd.op # pop /\ d1 = d
      <4>1. in1 = in /\ out1 = out
        BY <3>3, <2>2
      <4> QED BY <3>3, <4>1, <2>1
    <3> QED BY <3>1, <3>2, <3>3, <2>3
  <2> QED BY <2>4 DEF d1, in1, out1
<1>8. CountIn(t, pop, m + 1) \in Nat /\ CountIn(t, push, m + 1) \in Nat
  BY <1>2, <1>3, <1>6
<1>9. ASSUME NEW n \in 1 .. m + 1 PROVE CountIn(t, pop, n) <= CountIn(t, push, n)
  <2>1. CASE n = m + 1
    BY <2>1, <1>7, <1>8
  <2>2. CASE n \in 1 .. m
    BY <2>2, <1>2, <1>3, <1>4
  <2> QED BY <2>1, <2>2, <1>1
<1> QED BY <1>1, <1>5, <1>7, <1>9 DEF Nested, push, pop

\* What was answered stays so while the pool grows.
LEMMA AnswersStay ==
  ASSUME NEW c \in Commands, NEW d \in Calls, NEW p \in Seq(Contents), NEW q, Extends(q, p),
         Records(c, d, p)
  PROVE  Records(c, d, q)
<1>1. c.text \in Ranges /\ c.font \in Ranges /\ d.text \in Strings /\ d.font \in Strings
  BY DEF Commands, Calls
<1> QED BY <1>1, HeldStays DEF Records

\* A command is pushed, and the call that drew it has its answer.
LEMMA PushAnswers ==
  ASSUME DisplayInv, NEW cmd \in Commands, Push(cmd),
         NEW call \in Calls, drawn' = Append(drawn, call),
         Extends(pool', pool), Records(cmd, call, pool')
  PROVE  /\ cmds' \in Seq(Commands)
         /\ cmds' = Append(cmds, cmd)
         /\ drawn' \in Seq(Calls)
         /\ cap' \in Nat
         /\ CallsAnswered'
         /\ Len(cmds') <= cap'
<1> DEFINE m == Len(cmds)
<1>1. /\ cmds \in Seq(Commands) /\ drawn \in Seq(Calls) /\ pool \in Seq(Contents)
      /\ cap \in Nat /\ Len(drawn) = m /\ m \in Nat /\ m <= cap
      /\ \A i \in 1 .. m : Records(cmds[i], drawn[i], pool)
  BY LenProperties DEF DisplayInv, DisplayTypeOK, CallsAnswered, RoomHeld
<1> HIDE DEF m
<1>2. cmds' = Append(cmds, cmd)
  BY DEF Push
<1>3. /\ cmds' \in Seq(Commands) /\ Len(cmds') = m + 1 /\ cmds'[m + 1] = cmd
      /\ \A i \in 1 .. m : cmds'[i] = cmds[i]
  BY <1>1, <1>2, AppendProperties DEF m
<1>4. /\ drawn' \in Seq(Calls) /\ Len(drawn') = m + 1 /\ drawn'[m + 1] = call
      /\ \A i \in 1 .. m : drawn'[i] = drawn[i]
  <2> DEFINE d == Append(drawn, call)
  <2>1. /\ d \in Seq(Calls) /\ Len(d) = Len(drawn) + 1 /\ d[Len(drawn) + 1] = call
        /\ \A i \in 1 .. Len(drawn) : d[i] = drawn[i]
    <3>1. drawn \in Seq(Calls)
      BY <1>1
    <3> QED BY <3>1, AppendProperties
  <2> HIDE DEF d
  <2>2. drawn' = d /\ Len(drawn) = m
    BY <1>1 DEF d
  <2> QED BY <2>1, <2>2
<1>5. ASSUME NEW i \in 1 .. m + 1 PROVE Records(cmds'[i], drawn'[i], pool')
  <2>1. CASE i = m + 1
    BY <2>1, <1>3, <1>4
  <2>2. CASE i \in 1 .. m
    <3>1. cmds[i] \in Commands /\ drawn[i] \in Calls
      BY <2>2, <1>1 DEF m
    <3>2. Records(cmds[i], drawn[i], pool')
      BY <2>2, <3>1, <1>1, AnswersStay
    <3> QED BY <2>2, <3>2, <1>3, <1>4
  <2> QED BY <2>1, <2>2, <1>1
<1>6. CallsAnswered'
  BY <1>3, <1>4, <1>5 DEF CallsAnswered
<1>7. cap' \in Nat /\ m + 1 <= cap'
  BY <1>1, DisplayAssumption DEF Push, m
<1> QED BY <1>2, <1>3, <1>4, <1>6, <1>7

\* A text, and a font that has a name, are interned.
LEMMA TextInterned ==
  ASSUME DisplayInv, NEW text \in Strings, NEW font \in Strings,
         pool' = (IF font # <<>> THEN Intern(Intern(pool, text), font) ELSE Intern(pool, text)),
         poolCap' = (IF font # <<>>
                     THEN RoomFor(Intern(pool, text), RoomFor(pool, poolCap, text), font)
                     ELSE RoomFor(pool, poolCap, text))
  PROVE  /\ Extends(pool', pool)
         /\ poolCap' \in Nat
         /\ Len(pool') <= poolCap'
         /\ RangeAt(pool, text) \in Ranges
         /\ RangeAt(Intern(pool, text), font) \in Ranges
         /\ HeldAt(pool', RangeAt(pool, text), text)
         /\ font # <<>> => HeldAt(pool', RangeAt(Intern(pool, text), font), font)
<1> DEFINE p == Intern(pool, text)
           room == RoomFor(pool, poolCap, text)
<1>1. pool \in Seq(Contents) /\ poolCap \in Nat
  BY DEF DisplayInv, DisplayTypeOK
<1>2. /\ p \in Seq(Contents)
      /\ Extends(p, pool)
      /\ RangeAt(pool, text) \in Ranges
      /\ HeldAt(p, RangeAt(pool, text), text)
      /\ room \in Nat
      /\ Len(p) <= room
  BY <1>1, InternHolds, RoomIsEnough
<1> DEFINE q == Intern(p, font)
           more == RoomFor(p, room, font)
<1>3. pool' = (IF font # <<>> THEN q ELSE p) /\ poolCap' = (IF font # <<>> THEN more ELSE room)
  OBVIOUS
<1> HIDE DEF p, room
<1>4. /\ q \in Seq(Contents)
      /\ Extends(q, p)
      /\ RangeAt(p, font) \in Ranges
      /\ HeldAt(q, RangeAt(p, font), font)
      /\ more \in Nat
      /\ Len(q) <= more
  BY <1>2, InternHolds, RoomIsEnough
<1> HIDE DEF q, more
<1>5. HeldAt(q, RangeAt(pool, text), text)
  BY <1>2, <1>4, HeldStays
<1>6. Extends(q, pool)
  BY <1>1, <1>2, <1>4, ExtendsTwice
<1> QED BY <1>2, <1>3, <1>4, <1>5, <1>6 DEF p

-----------------------------------------------------------------------------
\* What a push leaves of the invariant when pool, depths and history follow.
LEMMA PushInv ==
  ASSUME DisplayInv, Building, life' = life,
         NEW cmd \in Commands, Push(cmd),
         NEW call \in Calls, drawn' = Append(drawn, call),
         pool' \in Seq(Contents), poolCap' \in Nat, Len(pool') <= poolCap',
         Extends(pool', pool), Records(cmd, call, pool'),
         depth' \in [Kinds -> Nat],
         \A k \in Kinds :
           \/ cmd.op = <<"push", k>> /\ depth'[k] = depth[k] + 1
           \/ cmd.op = <<"pop", k>> /\ depth[k] > 0 /\ depth'[k] = depth[k] - 1
           \/ cmd.op \notin {<<"push", k>>, <<"pop", k>>} /\ depth'[k] = depth[k]
  PROVE  DisplayInv'
<1>1. /\ cmds' \in Seq(Commands)
      /\ cmds' = Append(cmds, cmd)
      /\ drawn' \in Seq(Calls)
      /\ cap' \in Nat
      /\ CallsAnswered'
      /\ Len(cmds') <= cap'
  BY PushAnswers
<1>2. DepthsCounted'
  BY <1>1, DepthSteps DEF DisplayInv
<1>3. DisplayTypeOK' /\ RoomHeld' /\ ListsAreLeft'
  BY <1>1 DEF DisplayInv, DisplayTypeOK, RoomHeld, ListsAreLeft, Building
<1> QED BY <1>1, <1>2, <1>3 DEF DisplayInv

\* A pool is the beginning of itself.
LEMMA ExtendsItself == \A p \in Seq(Contents) : Extends(p, p)
  BY LenProperties DEF Extends

\* The pool grows and nothing is drawn.
LEMMA PoolInv ==
  ASSUME DisplayInv, UNCHANGED <<life, cmds, cap, depth, drawn>>,
         poolCap' \in Nat, Len(pool') <= poolCap', Extends(pool', pool)
  PROVE  DisplayInv'
<1>1. /\ cmds \in Seq(Commands) /\ drawn \in Seq(Calls) /\ pool \in Seq(Contents)
      /\ Len(cmds) = Len(drawn)
  BY DEF DisplayInv, DisplayTypeOK, CallsAnswered
<1>2. ASSUME NEW i \in 1 .. Len(drawn) PROVE Records(cmds[i], drawn[i], pool')
  <2>1. cmds[i] \in Commands /\ drawn[i] \in Calls /\ Records(cmds[i], drawn[i], pool)
    BY <1>1 DEF DisplayInv, CallsAnswered
  <2> QED BY <2>1, <1>1, AnswersStay
<1>3. CallsAnswered'
  BY <1>1, <1>2 DEF CallsAnswered
<1>4. pool' \in Seq(Contents)
  BY DEF Extends
<1>5. DisplayTypeOK' /\ RoomHeld' /\ ListsAreLeft'
  BY <1>4 DEF DisplayInv, DisplayTypeOK, RoomHeld, ListsAreLeft
<1>6. DepthsCounted'
  BY DEF DisplayInv, DepthsCounted
<1> QED BY <1>3, <1>5, <1>6 DEF DisplayInv

\* A command without texts answers a call without texts.
LEMMA PlainAnswers ==
  ASSUME NEW op \in Ops, op # <<"draw", "text">>, NEW p
  PROVE  /\ Plain(op) \in Commands
         /\ Plain(op).op = op
         /\ [op |-> op, text |-> <<>>, font |-> <<>>] \in Calls
         /\ Records(Plain(op), [op |-> op, text |-> <<>>, font |-> <<>>], p)
<1>1. NoRange \in Ranges
  BY DEF NoRange, Ranges
<1> QED BY <1>1, DisplayAssumption DEF Plain, Command, Commands, Calls, Records

LEMMA DrawInv ==
  ASSUME DisplayInv, NEW what \in {"rect", "image", "shape"}, Draw(<<"draw", what>>)
  PROVE  DisplayInv'
<1> DEFINE op == <<"draw", what>>
           call == [op |-> op, text |-> <<>>, font |-> <<>>]
<1>1. /\ op \in Ops
      /\ op # <<"draw", "text">>
      /\ \A k \in Kinds : op \notin {<<"push", k>>, <<"pop", k>>}
  BY DEF Ops
<1>2. Building /\ Push(Plain(op)) /\ drawn' = Append(drawn, call)
      /\ UNCHANGED <<life, pool, poolCap, depth>>
  BY DEF Draw
<1>3. /\ pool \in Seq(Contents) /\ poolCap \in Nat /\ Len(pool) <= poolCap
      /\ depth \in [Kinds -> Nat]
  BY DEF DisplayInv, DisplayTypeOK, RoomHeld
<1> HIDE DEF op
<1>4. Plain(op) \in Commands /\ Plain(op).op = op /\ call \in Calls /\ Records(Plain(op), call, pool)
  BY <1>1, PlainAnswers
<1>5. Extends(pool, pool)
  BY <1>3, ExtendsItself
<1> HIDE DEF call
<1> QED BY <1>1, <1>2, <1>3, <1>4, <1>5, PushInv

LEMMA DrawTextInv ==
  ASSUME DisplayInv, NEW text \in Strings, NEW font \in Strings, DrawText(text, font)
  PROVE  DisplayInv'
<1> DEFINE p == Intern(pool, text)
           fontRange == IF font # <<>> THEN RangeAt(p, font) ELSE NoRange
           op == <<"draw", "text">>
           cmd == Command(op, RangeAt(pool, text), fontRange)
           call == [op |-> op, text |-> text, font |-> font]
<1>1. /\ Building
      /\ Push(cmd)
      /\ pool' = (IF font # <<>> THEN Intern(p, font) ELSE p)
      /\ poolCap' = (IF font # <<>>
                     THEN RoomFor(p, RoomFor(pool, poolCap, text), font)
                     ELSE RoomFor(pool, poolCap, text))
      /\ drawn' = Append(drawn, call)
      /\ UNCHANGED <<life, depth>>
  BY DEF DrawText
<1>2. /\ Extends(pool', pool)
      /\ poolCap' \in Nat
      /\ Len(pool') <= poolCap'
      /\ RangeAt(pool, text) \in Ranges
      /\ RangeAt(p, font) \in Ranges
      /\ HeldAt(pool', RangeAt(pool, text), text)
      /\ font # <<>> => HeldAt(pool', RangeAt(p, font), font)
  BY <1>1, TextInterned
<1> HIDE DEF p
<1>3. fontRange \in Ranges
  BY <1>2 DEF NoRange, Ranges
<1>4. /\ op \in Ops
      /\ \A k \in Kinds : op \notin {<<"push", k>>, <<"pop", k>>}
  BY DEF Ops
<1>5. /\ cmd \in Commands /\ cmd.op = op /\ cmd.text = RangeAt(pool, text)
      /\ font # <<>> => cmd.font = RangeAt(p, font)
  BY <1>2, <1>3, <1>4 DEF Command, Commands
<1>6. call \in Calls /\ call.op = op /\ call.text = text /\ call.font = font
  BY <1>4 DEF Calls
<1> HIDE DEF cmd, call, op
<1>7. Records(cmd, call, pool')
  BY <1>2, <1>5, <1>6 DEF Records
<1>8. pool' \in Seq(Contents) /\ depth' \in [Kinds -> Nat]
  BY <1>1, <1>2 DEF Extends, DisplayInv, DisplayTypeOK
<1> QED BY <1>1, <1>2, <1>4, <1>5, <1>6, <1>7, <1>8, PushInv

LEMMA LosesFontInv ==
  ASSUME DisplayInv, NEW text \in Strings, NEW font \in Strings, DrawTextLosesFont(text, font)
  PROVE  DisplayInv'
<1>1. pool \in Seq(Contents) /\ poolCap \in Nat
  BY DEF DisplayInv, DisplayTypeOK
<1>2. /\ pool' = Intern(pool, text)
      /\ poolCap' = RoomFor(pool, poolCap, text)
      /\ UNCHANGED <<life, cmds, cap, depth, drawn>>
  BY DEF DrawTextLosesFont
<1>3. Extends(pool', pool) /\ poolCap' \in Nat /\ Len(pool') <= poolCap'
  BY <1>1, <1>2, InternHolds, RoomIsEnough
<1> QED BY <1>2, <1>3, PoolInv

LEMMA LosesCommandInv ==
  ASSUME DisplayInv, NEW text \in Strings, NEW font \in Strings, DrawTextLosesCommand(text, font)
  PROVE  DisplayInv'
<1>1. /\ pool' = (IF font # <<>> THEN Intern(Intern(pool, text), font) ELSE Intern(pool, text))
      /\ poolCap' = (IF font # <<>>
                     THEN RoomFor(Intern(pool, text), RoomFor(pool, poolCap, text), font)
                     ELSE RoomFor(pool, poolCap, text))
      /\ UNCHANGED <<life, cmds, cap, depth, drawn>>
  BY DEF DrawTextLosesCommand
<1>2. Extends(pool', pool) /\ poolCap' \in Nat /\ Len(pool') <= poolCap'
  BY <1>1, TextInterned
<1> QED BY <1>1, <1>2, PoolInv

LEMMA EnterInv ==
  ASSUME DisplayInv, NEW kind \in Kinds, Enter(kind)
  PROVE  DisplayInv'
<1> DEFINE op == <<"push", kind>>
           call == [op |-> op, text |-> <<>>, font |-> <<>>]
<1>1. op \in Ops /\ op # <<"draw", "text">>
  BY DEF Ops, Kinds
<1>2. Building /\ Push(Plain(op)) /\ drawn' = Append(drawn, call)
      /\ depth' = [depth EXCEPT ![kind] = @ + 1] /\ UNCHANGED <<life, pool, poolCap>>
  BY DEF Enter
<1>3. /\ pool \in Seq(Contents) /\ poolCap \in Nat /\ Len(pool) <= poolCap
      /\ depth \in [Kinds -> Nat]
  BY DEF DisplayInv, DisplayTypeOK, RoomHeld
<1>4. /\ depth' \in [Kinds -> Nat]
      /\ \A k \in Kinds :
           \/ op = <<"push", k>> /\ depth'[k] = depth[k] + 1
           \/ op \notin {<<"push", k>>, <<"pop", k>>} /\ depth'[k] = depth[k]
  <2>1. depth' \in [Kinds -> Nat] /\ depth'[kind] = depth[kind] + 1
        /\ \A k \in Kinds : k # kind => depth'[k] = depth[k]
    BY <1>2, <1>3
  <2>2. \A k \in Kinds : k # kind => op \notin {<<"push", k>>, <<"pop", k>>}
    OBVIOUS
  <2> QED BY <2>1, <2>2
<1> HIDE DEF op
<1>5. Plain(op) \in Commands /\ Plain(op).op = op /\ call \in Calls /\ Records(Plain(op), call, pool)
  BY <1>1, PlainAnswers
<1>6. Extends(pool, pool)
  BY <1>3, ExtendsItself
<1> HIDE DEF call
<1> QED BY <1>2, <1>3, <1>4, <1>5, <1>6, PushInv

LEMMA LeaveInv ==
  ASSUME DisplayInv, NEW kind \in Kinds, Leave(kind)
  PROVE  DisplayInv'
<1> DEFINE op == <<"pop", kind>>
           call == [op |-> op, text |-> <<>>, font |-> <<>>]
<1>1. op \in Ops /\ op # <<"draw", "text">>
  BY DEF Ops, Kinds
<1>2. Building /\ Push(Plain(op)) /\ drawn' = Append(drawn, call) /\ depth[kind] > 0
      /\ depth' = [depth EXCEPT ![kind] = @ - 1] /\ UNCHANGED <<life, pool, poolCap>>
  BY DEF Leave
<1>3. /\ pool \in Seq(Contents) /\ poolCap \in Nat /\ Len(pool) <= poolCap
      /\ depth \in [Kinds -> Nat]
  BY DEF DisplayInv, DisplayTypeOK, RoomHeld
<1>4. /\ depth' \in [Kinds -> Nat]
      /\ \A k \in Kinds :
           \/ op = <<"pop", k>> /\ depth[k] > 0 /\ depth'[k] = depth[k] - 1
           \/ op \notin {<<"push", k>>, <<"pop", k>>} /\ depth'[k] = depth[k]
  <2>1. depth' \in [Kinds -> Nat] /\ depth'[kind] = depth[kind] - 1
        /\ \A k \in Kinds : k # kind => depth'[k] = depth[k]
    BY <1>2, <1>3
  <2>2. \A k \in Kinds : k # kind => op \notin {<<"push", k>>, <<"pop", k>>}
    OBVIOUS
  <2> QED BY <2>1, <2>2, <1>2
<1> HIDE DEF op
<1>5. Plain(op) \in Commands /\ Plain(op).op = op /\ call \in Calls /\ Records(Plain(op), call, pool)
  BY <1>1, PlainAnswers
<1>6. Extends(pool, pool)
  BY <1>3, ExtendsItself
<1> HIDE DEF call
<1> QED BY <1>2, <1>3, <1>4, <1>5, <1>6, PushInv

\* No builder and no list.
LEMMA GoneInv == DisplayInit => DisplayInv
<1> SUFFICES ASSUME DisplayInit PROVE DisplayInv
  OBVIOUS
<1>1. cmds = <<>> /\ drawn = <<>> /\ pool = <<>> /\ Len(<<>>) = 0
  BY DEF DisplayInit
<1>2. cmds \in Seq(Commands) /\ drawn \in Seq(Calls) /\ pool \in Seq(Contents)
  BY <1>1
<1>3. DisplayTypeOK
  BY <1>2 DEF DisplayInit, DisplayTypeOK
<1>4. CallsAnswered /\ RoomHeld /\ ListsAreLeft
  BY <1>1 DEF DisplayInit, CallsAnswered, RoomHeld, ListsAreLeft
<1>5. \A op : CountIn(cmds, op, 0) = 0
  <2>1. \A op : {i \in 1 .. 0 : cmds[i].op = op} = {}
    OBVIOUS
  <2> QED BY <2>1, FS_EmptySet DEF CountIn
<1>6. DepthsCounted
  BY <1>1, <1>5 DEF DisplayInit, DepthsCounted
<1> QED BY <1>3, <1>4, <1>6 DEF DisplayInv

LEMMA DisplayStepInv == DisplayInv /\ [DisplayNext]_displayVars => DisplayInv'
<1> SUFFICES ASSUME DisplayInv, [DisplayNext]_displayVars PROVE DisplayInv'
  OBVIOUS
<1>1. CASE Begin
  BY <1>1 DEF Begin, DisplayInv, DisplayTypeOK, CallsAnswered, RoomHeld, DepthsCounted, ListsAreLeft
<1>2. CASE DrawRect
  BY <1>2, DrawInv DEF DrawRect
<1>3. CASE DrawImage
  BY <1>3, DrawInv DEF DrawImage
<1>4. CASE DrawShape
  BY <1>4, DrawInv DEF DrawShape
<1>5. ASSUME NEW text \in Strings, NEW font \in Strings, DrawText(text, font) PROVE DisplayInv'
  BY <1>5, DrawTextInv
<1>6. ASSUME NEW text \in Strings, NEW font \in Strings, DrawTextLosesFont(text, font) PROVE DisplayInv'
  BY <1>6, LosesFontInv
<1>7. ASSUME NEW text \in Strings, NEW font \in Strings, DrawTextLosesCommand(text, font) PROVE DisplayInv'
  BY <1>7, LosesCommandInv
<1>8. ASSUME NEW k \in Kinds, Enter(k) PROVE DisplayInv'
  BY <1>8, EnterInv
<1>9. ASSUME NEW k \in Kinds, Leave(k) PROVE DisplayInv'
  BY <1>9, LeaveInv
<1>10. CASE End
  BY <1>10 DEF End, DisplayInv, DisplayTypeOK, CallsAnswered, RoomHeld, DepthsCounted, ListsAreLeft
<1>11. CASE Gone
  <2>1. DisplayInit'
    BY <1>11 DEF Gone, DisplayInit
  <2> QED BY <2>1, GoneInv, PTL
<1>12. CASE UNCHANGED displayVars
  BY <1>12 DEF displayVars, DisplayInv, DisplayTypeOK, CallsAnswered, RoomHeld, DepthsCounted, ListsAreLeft
<1> QED BY <1>1, <1>2, <1>3, <1>4, <1>5, <1>6, <1>7, <1>8, <1>9, <1>10, <1>11, <1>12
        DEF DisplayNext, Abort, Free

\* Builder and list in every reachable state.
THEOREM DisplayInvariance == DisplaySpec => []DisplayInv
  BY GoneInv, DisplayStepInv, PTL DEF DisplaySpec

(***************************************************************************)
(* The range of a text or a font reads the string its own call was given,  *)
(* with a NUL behind it, for strings of any length and however many calls  *)
(* failed in between.                                                      *)
(***************************************************************************)
THEOREM TextsStayReadable == DisplaySpec => []TextsReadBack
<1>1. DisplayInv => TextsReadBack
  <2> SUFFICES ASSUME DisplayInv PROVE TextsReadBack
    OBVIOUS
  <2>1. ASSUME NEW range \in Ranges, NEW s \in Strings, HeldAt(pool, range, s)
        PROVE  Reads(range, s)
    <3> DEFINE from == range.offset + 1
               to == range.offset + range.length
               t == SubSeq(pool, from, to)
    <3>1. /\ range.offset \in Nat /\ range.length \in Nat /\ Len(pool) \in Nat /\ Len(s) \in Nat
          /\ pool \in Seq(Contents) /\ s \in Seq(Bytes)
      BY DisplayAssumption, LenProperties DEF Ranges, DisplayInv, DisplayTypeOK
    <3>2. /\ range.length = Len(s) /\ to < Len(pool)
          /\ \A i \in 1 .. Len(s) : pool[range.offset + i] = s[i]
          /\ pool[to + 1] = NUL
      BY <2>1 DEF HeldAt
    <3>3. /\ from \in Int /\ to \in Int /\ to - from + 1 = Len(s)
          /\ 1 <= from /\ \A i \in from .. to : i \in 1 .. Len(pool)
      <4> HIDE DEF t
      <4>1. from \in Int /\ to \in Int /\ to - from + 1 = Len(s) /\ 1 <= from
        <5> DEFINE o == range.offset
                   m == Len(s)
        <5>1. o \in Nat /\ m \in Nat /\ from = o + 1 /\ to = o + m
          BY <3>1, <3>2
        <5> HIDE DEF from, to, o, m
        <5>2. from \in Int /\ to \in Int /\ to - from + 1 = m /\ 1 <= from
          BY <5>1
        <5> QED BY <5>2 DEF m
      <4>2. to < Len(pool)
        BY <3>2
      <4> HIDE DEF from, to
      <4> QED BY <3>1, <4>1, <4>2
    <3>4. \A i \in from .. to : pool[i] \in Contents
      BY <3>1, <3>3
    <3>5. \A i \in 1 .. Len(s) : from + i - 1 = range.offset + i
      BY <3>1
    <3> HIDE DEF from, to
    <3>6. /\ t \in Seq(Contents)
          /\ Len(t) = IF from <= to THEN to - from + 1 ELSE 0
          /\ \A i \in 1 .. to - from + 1 : t[i] = pool[from + i - 1]
      BY <3>3, <3>4, SubSeqProperties
    <3> HIDE DEF t
    <3>7. Len(t) = Len(s) /\ \A i \in 1 .. Len(s) : t[i] = s[i]
      <4>1. Len(t) = Len(s)
        <5> DEFINE m == Len(s)
        <5>1. m \in Nat /\ to - from + 1 = m
          BY <3>1, <3>3
        <5> HIDE DEF m
        <5>2. from <= to => to - from + 1 = m
          BY <5>1
        <5>3. ~(from <= to) => m = 0
          BY <5>1, <3>3
        <5> QED BY <5>2, <5>3, <3>6 DEF m
      <4>2. ASSUME NEW i \in 1 .. Len(s) PROVE t[i] = s[i]
        <5>1. t[i] = pool[from + i - 1]
          BY <3>3, <3>6
        <5>2. from + i - 1 = range.offset + i
          BY <3>5
        <5>3. pool[range.offset + i] = s[i]
          BY <3>2
        <5> QED BY <5>1, <5>2, <5>3
      <4> QED BY <4>1, <4>2
    <3>8. s \in Seq(Contents)
      <4>1. \A i \in 1 .. Len(s) : s[i] \in Contents
        BY <3>1 DEF Contents
      <4> QED BY <3>1, <4>1
    <3>9. t = s
      BY <3>6, <3>7, <3>8, SeqEqual
    <3>10. InPool(range)
      BY <3>1, <3>2 DEF InPool, to
    <3>11. TextAt(range) = s
      BY <3>9 DEF TextAt, t, from, to
    <3> QED BY <3>2, <3>10, <3>11 DEF Reads, to
  <2>2. ASSUME NEW i \in 1 .. Len(drawn)
        PROVE  /\ cmds[i].op = drawn[i].op
               /\ drawn[i].op = <<"draw", "text">> => Reads(cmds[i].text, drawn[i].text)
               /\ drawn[i].font # <<>> => Reads(cmds[i].font, drawn[i].font)
    <3>1. cmds[i] \in Commands /\ drawn[i] \in Calls
      BY DEF DisplayInv, DisplayTypeOK, CallsAnswered
    <3>2. /\ cmds[i].text \in Ranges /\ cmds[i].font \in Ranges
          /\ drawn[i].text \in Strings /\ drawn[i].font \in Strings
      BY <3>1 DEF Commands, Calls
    <3>3. Records(cmds[i], drawn[i], pool)
      BY DEF DisplayInv, CallsAnswered
    <3> QED BY <2>1, <3>2, <3>3 DEF Records
  <2> QED BY <2>2 DEF DisplayInv, CallsAnswered, RoomHeld, TextsReadBack
<1> QED BY <1>1, DisplayInvariance, PTL

(***************************************************************************)
(* A finished list never leaves a clip, a transform or an opacity it has   *)
(* not entered, and has left all of them at the end, for lists of any      *)
(* length and whichever calls failed.                                      *)
(***************************************************************************)
THEOREM ListsStayBalanced == DisplaySpec => []ListIsBalanced
<1>1. DisplayInv => ListIsBalanced
  <2> SUFFICES ASSUME DisplayInv, life = "list", NEW k \in Kinds
               PROVE  /\ \A n \in 1 .. Len(cmds) : Count(<<"pop", k>>, n) <= Count(<<"push", k>>, n)
                      /\ Count(<<"pop", k>>, Len(cmds)) = Count(<<"push", k>>, Len(cmds))
    BY DEF ListIsBalanced
  <2>1. \A op, n : Count(op, n) = CountIn(cmds, op, n)
    BY DEF Count, CountIn
  <2>2. \A n \in 1 .. Len(cmds) : Nested(cmds, k, n)
    BY DEF DisplayInv, DepthsCounted
  <2> DEFINE out == CountIn(cmds, <<"pop", k>>, Len(cmds))
  <2>3. depth[k] + out = CountIn(cmds, <<"push", k>>, Len(cmds)) /\ depth[k] = 0
    BY DEF DisplayInv, DepthsCounted, ListsAreLeft
  <2>4. out \in Nat
    <3>1. Len(cmds) \in Nat
      BY LenProperties DEF DisplayInv, DisplayTypeOK
    <3>2. IsFiniteSet(1 .. Len(cmds))
      BY <3>1, Intervals
    <3> DEFINE held == {i \in 1 .. Len(cmds) : cmds[i].op = <<"pop", k>>}
    <3>3. held \in SUBSET (1 .. Len(cmds))
      OBVIOUS
    <3>4. IsFiniteSet(held)
      <4> HIDE DEF held
      <4> QED BY <3>2, <3>3, FS_Subset
    <3> QED BY <3>4, FS_CardinalityType DEF CountIn
  <2> HIDE DEF out
  <2>5. out = CountIn(cmds, <<"push", k>>, Len(cmds))
    BY <2>3, <2>4
  <2> QED BY <2>1, <2>2, <2>5 DEF Nested, out
<1> QED BY <1>1, DisplayInvariance, PTL
-----------------------------------------------------------------------------
(***************************************************************************)
(* The text cache.                                                         *)
(***************************************************************************)

Entries == [key : Keys, metrics : Answers]
Slots(size) == [0 .. size - 1 -> Entries \cup {Empty}]

Taken(slots, size) == {s \in 0 .. size - 1 : slots[s] # Empty}

\* Every entry is found before the first gap on the way of its key.
Reached(slots, size) ==
  \A s \in Taken(slots, size) :
    \E p \in 0 .. size - 1 :
      /\ Probe(size, slots[s].key, p) = s
      /\ \A q \in 0 .. p - 1 : slots[Probe(size, slots[s].key, q)] # Empty

\* No key has two entries.
Distinct(slots, size) ==
  \A s, t \in Taken(slots, size) : slots[s].key = slots[t].key => s = t

Held(slots, size) == {slots[s].key : s \in Taken(slots, size)}

SlotsSound(slots, size) ==
  /\ slots \in Slots(size)
  /\ Reached(slots, size)
  /\ Distinct(slots, size)

\* Every entry is what backend b answers to its key.
AllTrue(b, slots, size) ==
  \A s \in Taken(slots, size) : slots[s].metrics = [by |-> b, of |-> slots[s].key]

Duplicateless(seq) == \A i, j \in 1 .. Len(seq) : seq[i] = seq[j] => i = j

Tables == [slots : UNION {Slots(m) : m \in Nat}, cap : 0 .. MaxCap, count : Nat, byUse : Seq(Keys)]

TableInv(b, c) ==
  /\ c \in Tables
  /\ SlotsSound(c.slots, c.cap)
  /\ AllTrue(b, c.slots, c.cap)
  /\ Duplicateless(c.byUse)
  /\ Held(c.slots, c.cap) = ToSet(c.byUse)
  /\ c.count = Len(c.byUse)

-----------------------------------------------------------------------------
\* A probe is a slot, and every slot is probed.
LEMMA ProbesAreSlots ==
  ASSUME NEW size \in Nat \ {0}, NEW k \in Keys, NEW p \in Nat
  PROVE  Probe(size, k, p) \in 0 .. size - 1
<1>1. Hash[k] + p \in Int
  BY CacheAssumption
<1> QED BY <1>1, DivMod DEF Probe

LEMMA ProbesReachAll ==
  ASSUME NEW size \in Nat \ {0}, NEW k \in Keys, NEW s \in 0 .. size - 1
  PROVE  \E p \in 0 .. size - 1 : Probe(size, k, p) = s
<1> DEFINE h == Hash[k]
           d == h \div size
           m == h % size
<1>1. h \in Int
  BY CacheAssumption
<1>2. d \in Int /\ m \in 0 .. size - 1 /\ h = size * d + m
  <2> HIDE DEF h
  <2> QED BY <1>1, DivMod
<1> HIDE DEF h, d, m
<1>3. size * d \in Int /\ size * (d + 1) = size * d + size
  BY <1>2
<1>4. CASE s >= m
  <2>1. s - m \in 0 .. size - 1 /\ h + (s - m) \in Int /\ h + (s - m) = size * d + s
    BY <1>1, <1>2, <1>3, <1>4
  <2>2. (h + (s - m)) % size = s
    BY <2>1, <1>2, RemainderIs
  <2> QED BY <2>1, <2>2 DEF Probe, h
<1>5. CASE s < m
  <2> DEFINE p == s - m + size
  <2>1. p \in 0 .. size - 1 /\ h + p \in Int /\ h + p = size * (d + 1) + s
    BY <1>1, <1>2, <1>3, <1>5
  <2>2. (h + p) % size = s
    <3> DEFINE x == h + p
               q == d + 1
    <3>1. x \in Int /\ q \in Int /\ x = size * q + s
      BY <2>1, <1>2
    <3> HIDE DEF x, q
    <3>2. x % size = s
      BY <3>1, RemainderIs
    <3> QED BY <3>2 DEF x
  <2> QED BY <2>1, <2>2 DEF Probe, h
<1> QED BY <1>2, <1>4, <1>5

\* The first slot on the way: it is there when there is one at all.
LEMMA FirstSlotIs ==
  ASSUME NEW size \in Nat, NEW k, NEW slots
  PROVE  \/ /\ FirstSlot(size, k, slots) = {}
            /\ \A p \in 0 .. size - 1 : Probe(size, k, p) \notin slots
         \/ \E p \in 0 .. size - 1 :
              /\ FirstSlot(size, k, slots) = {Probe(size, k, p)}
              /\ Probe(size, k, p) \in slots
              /\ \A q \in 0 .. p - 1 : Probe(size, k, q) \notin slots
<1> DEFINE hits == {p \in 0 .. size - 1 : Probe(size, k, p) \in slots}
           least == {q \in hits : \A r \in hits : q <= r}
<1>0. FirstSlot(size, k, slots) = {Probe(size, k, p) : p \in least}
  BY DEF FirstSlot
<1>1. CASE hits = {}
  BY <1>0, <1>1
<1>2. CASE hits # {}
  <2>1. hits \in SUBSET Nat
    OBVIOUS
  <2>2. PICK p \in hits : \A r \in hits : p <= r
    <3> HIDE DEF hits
    <3> QED BY <1>2, <2>1, LeastNumber
  <2>3. least = {p}
    <3>1. ASSUME NEW q \in least PROVE q = p
      <4>1. q <= p /\ p <= q /\ p \in Nat /\ q \in Nat
        BY <2>1, <2>2, <3>1
      <4> QED BY <4>1
    <3>2. p \in least
      BY <2>2
    <3> QED BY <3>1, <3>2
  <2>4. FirstSlot(size, k, slots) = {Probe(size, k, p)}
    <3> HIDE DEF least
    <3> QED BY <1>0, <2>3
  <2>5. p \in 0 .. size - 1 /\ Probe(size, k, p) \in slots
    BY <2>2
  <2>6. ASSUME NEW q \in 0 .. p - 1 PROVE Probe(size, k, q) \notin slots
    <3>1. q \in 0 .. size - 1 /\ q \in Nat /\ p \in Nat /\ q < p
      BY <2>5
    <3>2. q \notin hits
      <4> HIDE DEF hits
      <4> QED BY <3>1, <2>2
    <3> QED BY <3>1, <3>2
  <2> QED BY <2>4, <2>5, <2>6
<1> QED BY <1>1, <1>2

\* What is no key is no entry.
LEMMA EmptyIsNoEntry == Empty \notin Entries /\ Nothing \notin Keys
<1>1. DOMAIN Nothing = {"by"}
  BY DEF Nothing
<1>2. \A k \in Keys : DOMAIN k = {"text", "font", "fit"}
  BY DEF Keys
<1>3. Nothing \notin Keys
  BY <1>1, <1>2
<1>4. \A e \in Entries : e.key \in Keys
  BY DEF Entries
<1> QED BY <1>3, <1>4 DEF Empty

\* A sound table finds exactly what it holds.
LEMMA LookupFinds ==
  ASSUME NEW c, c.cap \in Nat, SlotsSound(c.slots, c.cap), NEW s \in Taken(c.slots, c.cap)
  PROVE  SlotFor(c, c.slots[s].key) = {s} /\ Lookup(c, c.slots[s].key) = {c.slots[s]}
<1> DEFINE k == c.slots[s].key
           stops == {t \in 0 .. c.cap - 1 : c.slots[t] = Empty \/ c.slots[t].key = k}
<1>1. s \in 0 .. c.cap - 1 /\ c.slots[s] # Empty
  BY DEF Taken
<1>2. PICK p \in 0 .. c.cap - 1 :
        /\ Probe(c.cap, k, p) = s
        /\ \A q \in 0 .. p - 1 : c.slots[Probe(c.cap, k, q)] # Empty
  BY DEF SlotsSound, Reached
<1>3. SlotFor(c, k) = FirstSlot(c.cap, k, stops)
  BY DEF SlotFor
<1>4. s \in stops
  BY <1>1
<1>5. PICK r \in 0 .. c.cap - 1 :
        /\ SlotFor(c, k) = {Probe(c.cap, k, r)}
        /\ Probe(c.cap, k, r) \in stops
        /\ \A q \in 0 .. r - 1 : Probe(c.cap, k, q) \notin stops
  <2> HIDE DEF stops, k
  <2> QED BY <1>2, <1>3, <1>4, FirstSlotIs
<1>6. r <= p
  <2>1. ~(p \in 0 .. r - 1)
    BY <1>2, <1>4, <1>5
  <2> QED BY <2>1, <1>2, <1>5
<1>7. Probe(c.cap, k, r) = s
  <2>1. CASE r = p
    BY <2>1, <1>2
  <2>2. CASE r < p
    <3> DEFINE t == Probe(c.cap, k, r)
    <3>1. c.slots[t] # Empty
      BY <2>2, <1>2, <1>5
    <3>2. t \in 0 .. c.cap - 1 /\ c.slots[t].key = k
      BY <3>1, <1>5
    <3>3. t \in Taken(c.slots, c.cap)
      BY <3>1, <3>2 DEF Taken
    <3> QED BY <3>2, <3>3 DEF SlotsSound, Distinct
  <2> QED BY <2>1, <2>2, <1>6, <1>2, <1>5
<1> QED BY <1>1, <1>5, <1>7 DEF Lookup

\* What a lookup finds is there, under the key asked for.
LEMMA LookupIsHeld ==
  ASSUME NEW c, c.cap \in Nat, NEW k, NEW e \in Lookup(c, k)
  PROVE  \E s \in Taken(c.slots, c.cap) : c.slots[s] = e /\ e.key = k
<1> DEFINE stops == {t \in 0 .. c.cap - 1 : c.slots[t] = Empty \/ c.slots[t].key = k}
<1>1. PICK s \in FirstSlot(c.cap, k, stops) : c.slots[s] = e /\ e # Empty
  BY DEF Lookup, SlotFor
<1>2. s \in stops
  <2> HIDE DEF stops
  <2> QED BY <1>1, FirstSlotIs
<1> QED BY <1>1, <1>2 DEF Taken

\* The slot of a key that the table does not hold is a free one.
LEMMA SlotForNew ==
  ASSUME NEW c, c.cap \in Nat, NEW k, k \notin Held(c.slots, c.cap)
  PROVE  SlotFor(c, k) = FirstSlot(c.cap, k, {s \in 0 .. c.cap - 1 : c.slots[s] = Empty})
<1>1. \A s \in 0 .. c.cap - 1 : c.slots[s].key = k => c.slots[s] = Empty
  BY DEF Held, Taken
<1>2. {s \in 0 .. c.cap - 1 : c.slots[s] = Empty \/ c.slots[s].key = k}
      = {s \in 0 .. c.cap - 1 : c.slots[s] = Empty}
  BY <1>1
<1> QED BY <1>2 DEF SlotFor

\* There is one slot for e, and the table is sound with e there.
PlacesEntry(slots, size, e) ==
  \E s \in (0 .. size - 1) \ Taken(slots, size) :
    /\ FirstSlot(size, e.key, {t \in 0 .. size - 1 : slots[t] = Empty}) = {s}
    /\ Placed(slots, size, e) = [slots EXCEPT ![s] = e]
    /\ SlotsSound([slots EXCEPT ![s] = e], size)
    /\ Taken([slots EXCEPT ![s] = e], size) = Taken(slots, size) \cup {s}

(***************************************************************************)
(* Placing an entry with a key of its own in a table with a free slot.     *)
(***************************************************************************)
LEMMA PlacedSound ==
  ASSUME NEW size \in Nat, NEW slots, SlotsSound(slots, size),
         NEW e \in Entries, e.key \notin Held(slots, size),
         Taken(slots, size) # 0 .. size - 1
  PROVE  PlacesEntry(slots, size, e)
<1> DEFINE k == e.key
           free == {s \in 0 .. size - 1 : slots[s] = Empty}
<1>0. k \in Keys /\ e # Empty /\ DOMAIN slots = 0 .. size - 1
  BY EmptyIsNoEntry DEF Entries, SlotsSound, Slots
<1>1. PICK f \in 0 .. size - 1 : f \in free
  BY DEF Taken
<1>2. size \in Nat \ {0}
  BY <1>1
<1>3. PICK o \in 0 .. size - 1 : Probe(size, k, o) = f
  BY <1>0, <1>2, ProbesReachAll
<1>4. PICK p \in 0 .. size - 1 :
        /\ FirstSlot(size, k, free) = {Probe(size, k, p)}
        /\ Probe(size, k, p) \in free
        /\ \A q \in 0 .. p - 1 : Probe(size, k, q) \notin free
  <2> HIDE DEF free, k
  <2> QED BY <1>1, <1>2, <1>3, FirstSlotIs
<1> DEFINE s == Probe(size, k, p)
           new == [slots EXCEPT ![s] = e]
<1>5. s \in 0 .. size - 1 /\ slots[s] = Empty /\ s \notin Taken(slots, size)
  BY <1>4 DEF Taken
<1>6. Placed(slots, size, e) = new
  <2>1. Placed(slots, size, e) = [t \in 0 .. size - 1 |-> IF t \in {s} THEN e ELSE slots[t]]
    BY <1>4 DEF Placed
  <2> HIDE DEF s
  <2> QED BY <2>1, <1>0, <1>5
<1>7. \A q \in 0 .. p - 1 : slots[Probe(size, k, q)] # Empty
  <2> SUFFICES ASSUME NEW q \in 0 .. p - 1 PROVE slots[Probe(size, k, q)] # Empty
    OBVIOUS
  <2>1. Probe(size, k, q) \notin free
    BY <1>4
  <2>2. Probe(size, k, q) \in 0 .. size - 1
    <3>1. q \in Nat
      OBVIOUS
    <3> HIDE DEF k, s, new
    <3> QED BY <3>1, <1>0, <1>2, ProbesAreSlots
  <2> QED BY <2>1, <2>2
<1>8. Probe(size, k, p) = s /\ FirstSlot(size, k, free) = {s}
  BY <1>4
<1> HIDE DEF s
<1>9. /\ new[s] = e
      /\ \A t \in 0 .. size - 1 : t # s => new[t] = slots[t]
      /\ \A t \in 0 .. size - 1 : slots[t] # Empty => new[t] = slots[t] /\ t # s
      /\ \A t \in 0 .. size - 1 : slots[t] # Empty => new[t] # Empty
  BY <1>0, <1>5
<1>10. new \in Slots(size)
  BY <1>5 DEF SlotsSound, Slots
<1>11. Taken(new, size) = Taken(slots, size) \cup {s}
  <2> HIDE DEF new
  <2> QED BY <1>0, <1>5, <1>9 DEF Taken
<1> HIDE DEF new
<1>12. Reached(new, size)
  <2> SUFFICES ASSUME NEW t \in Taken(new, size)
               PROVE  \E q \in 0 .. size - 1 :
                        /\ Probe(size, new[t].key, q) = t
                        /\ \A r \in 0 .. q - 1 : new[Probe(size, new[t].key, r)] # Empty
    BY DEF Reached
  <2>1. CASE t = s
    <3>1. new[t].key = k
      BY <2>1, <1>9
    <3>2. \A r \in 0 .. p - 1 : new[Probe(size, k, r)] # Empty
      <4> SUFFICES ASSUME NEW r \in 0 .. p - 1 PROVE new[Probe(size, k, r)] # Empty
        OBVIOUS
      <4>1. Probe(size, k, r) \in 0 .. size - 1
        <5>1. r \in Nat
          OBVIOUS
        <5> HIDE DEF k
        <5> QED BY <5>1, <1>0, <1>2, ProbesAreSlots
      <4> QED BY <4>1, <1>7, <1>9
    <3> HIDE DEF k
    <3> QED BY <3>1, <3>2, <1>4, <1>8, <2>1
  <2>2. CASE t \in Taken(slots, size)
    <3>1. new[t] = slots[t] /\ slots[t] \in Entries /\ slots[t].key \in Keys
      BY <2>2, <1>9 DEF Taken, SlotsSound, Slots, Entries
    <3>2. PICK q \in 0 .. size - 1 :
            /\ Probe(size, slots[t].key, q) = t
            /\ \A r \in 0 .. q - 1 : slots[Probe(size, slots[t].key, r)] # Empty
      BY <2>2 DEF SlotsSound, Reached
    <3>3. \A r \in 0 .. q - 1 : new[Probe(size, slots[t].key, r)] # Empty
      <4> SUFFICES ASSUME NEW r \in 0 .. q - 1 PROVE new[Probe(size, slots[t].key, r)] # Empty
        OBVIOUS
      <4>1. Probe(size, slots[t].key, r) \in 0 .. size - 1
        <5>1. r \in Nat
          OBVIOUS
        <5> QED BY <5>1, <1>2, <3>1, ProbesAreSlots
      <4> QED BY <4>1, <3>2, <1>9
    <3> QED BY <3>1, <3>2, <3>3
  <2> QED BY <2>1, <2>2, <1>11
<1>13. Distinct(new, size)
  <2>1. \A t \in Taken(slots, size) : t # s /\ new[t] = slots[t] /\ slots[t].key # k
    BY <1>9 DEF Taken, Held
  <2>2. new[s].key = k
    BY <1>9
  <2> HIDE DEF k
  <2> QED BY <2>1, <2>2, <1>11 DEF SlotsSound, Distinct
<1>14. SlotsSound(new, size)
  BY <1>10, <1>12, <1>13 DEF SlotsSound
<1> QED BY <1>5, <1>6, <1>8, <1>11, <1>14 DEF new, PlacesEntry

-----------------------------------------------------------------------------
\* A table of free slots.
LEMMA EmptyTableSound ==
  ASSUME NEW size \in Nat, NEW b
  PROVE  /\ SlotsSound(EmptyTable(size), size)
         /\ AllTrue(b, EmptyTable(size), size)
         /\ Taken(EmptyTable(size), size) = {}
         /\ Held(EmptyTable(size), size) = {}
<1> DEFINE t == EmptyTable(size)
<1>1. t \in Slots(size) /\ \A s \in 0 .. size - 1 : t[s] = Empty
  BY DEF EmptyTable, Slots
<1> HIDE DEF t
<1>2. Taken(t, size) = {}
  BY <1>1 DEF Taken
<1> QED BY <1>1, <1>2 DEF t, SlotsSound, Reached, Distinct, AllTrue, Held

\* cache_rehash and cache_retain_newer, slot by slot.
LEMMA RebuiltSteps ==
  ASSUME NEW c, c.cap \in Nat, NEW size, NEW keep
  PROVE  /\ RebuiltTo(c, size, keep)[0] = EmptyTable(size)
         /\ \A n \in 1 .. c.cap :
              RebuiltTo(c, size, keep)[n] =
                IF c.slots[n - 1].key \in keep
                THEN Placed(RebuiltTo(c, size, keep)[n - 1], size, c.slots[n - 1])
                ELSE RebuiltTo(c, size, keep)[n - 1]
<1> DEFINE Step(g, i) ==
             IF i = 0 THEN EmptyTable(size)
             ELSE IF c.slots[i - 1].key \in keep THEN Placed(g[i - 1], size, c.slots[i - 1])
             ELSE g[i - 1]
           last == c.cap
           T == {n \in Nat : \E g : g = [i \in 0 .. n |-> Step(g, i)]}
<1>1. 0 \in T
  <2> DEFINE g == [i \in 0 .. 0 |-> EmptyTable(size)]
  <2>1. g = [i \in 0 .. 0 |-> Step(g, i)]
    OBVIOUS
  <2> QED BY <2>1
<1>2. ASSUME NEW n \in 0 .. last - 1, n \in T PROVE n + 1 \in T
  <2>1. PICK g : g = [i \in 0 .. n |-> Step(g, i)]
    BY <1>2
  <2>0. \A i \in 0 .. n : g[i] = Step(g, i)
    <3> HIDE DEF Step
    <3> QED BY <2>1
  <2> DEFINE next == IF c.slots[n].key \in keep THEN Placed(g[n], size, c.slots[n]) ELSE g[n]
             h == [i \in 0 .. n + 1 |-> IF i <= n THEN g[i] ELSE next]
  <2>2. ASSUME NEW i \in 0 .. n + 1 PROVE h[i] = Step(h, i)
    <3> HIDE DEF next
    <3>1. CASE i = 0
      <4>1. h[0] = g[0] /\ g[0] = Step(g, 0)
        BY <2>0, <1>2
      <4> QED BY <3>1, <4>1
    <3>2. CASE i \in 1 .. n
      <4>1. h[i] = g[i] /\ h[i - 1] = g[i - 1] /\ i # 0
        BY <3>2, <1>2
      <4>2. g[i] = Step(g, i)
        BY <3>2, <2>0, <1>2
      <4> QED BY <4>1, <4>2
    <3>3. CASE i = n + 1
      <4>1. h[n] = g[n] /\ i - 1 = n /\ i # 0
        BY <3>3, <1>2
      <4>2. h[i] = next
        BY <3>3, <1>2
      <4> QED BY <4>1, <4>2 DEF next
    <3> QED BY <1>2, <3>1, <3>2, <3>3
  <2>3. h = [i \in 0 .. n + 1 |-> Step(h, i)]
    <3>1. h = [i \in 0 .. n + 1 |-> h[i]]
      OBVIOUS
    <3> HIDE DEF h
    <3> QED BY <3>1, <2>2
  <2> HIDE DEF h, next, Step, last
  <2> QED BY <2>3, <1>2
<1>3. last \in T
  <2> HIDE DEF T, last
  <2>1. last \in Nat
    BY DEF last
  <2>2. \A n \in 0 .. last : n \in T
    BY <1>1, <1>2, <2>1, Counting
  <2> QED BY <2>1, <2>2
<1> DEFINE f == RebuiltTo(c, size, keep)
<1>4. f = [i \in 0 .. last |-> Step(f, i)]
  <2>1. f = CHOOSE g : g = [i \in 0 .. last |-> Step(g, i)]
    BY DEF RebuiltTo
  <2>2. \E g : g = [i \in 0 .. last |-> Step(g, i)]
    BY <1>3
  <2> QED BY <2>1, <2>2
<1>5. \A i \in 0 .. last : f[i] = Step(f, i)
  <2> HIDE DEF f
  <2> QED BY <1>4
<1> HIDE DEF f
<1>6. f[0] = EmptyTable(size) /\ \A i \in 1 .. last :
        f[i] = IF c.slots[i - 1].key \in keep THEN Placed(f[i - 1], size, c.slots[i - 1]) ELSE f[i - 1]
  BY <1>5
<1> QED BY <1>6 DEF f

\* What a rebuilding loop has made of the first n slots of c.
RebuiltOK(b, c, size, keep, n) ==
  LET t == RebuiltTo(c, size, keep)[n]
  IN /\ SlotsSound(t, size)
     /\ AllTrue(b, t, size)
     /\ Held(t, size) = {c.slots[s].key : s \in {u \in Taken(c.slots, c.cap) : u < n}} \cap keep
     /\ IsFiniteSet(Taken(t, size))
     /\ Cardinality(Taken(t, size)) <= n

LEMMA RebuiltInv ==
  ASSUME NEW b, NEW c, c.cap \in Nat, SlotsSound(c.slots, c.cap), AllTrue(b, c.slots, c.cap),
         NEW size \in Nat, size >= c.cap, NEW keep \in SUBSET Keys,
         NEW n \in 0 .. c.cap - 1, RebuiltOK(b, c, size, keep, n)
  PROVE  RebuiltOK(b, c, size, keep, n + 1)
<1> DEFINE t == RebuiltTo(c, size, keep)[n]
           u == RebuiltTo(c, size, keep)[n + 1]
           e == c.slots[n]
           old(m) == {c.slots[s].key : s \in {v \in Taken(c.slots, c.cap) : v < m}}
<1>0. n \in Nat /\ n + 1 \in 1 .. c.cap /\ (n + 1) - 1 = n /\ n < size
  OBVIOUS
<1>1. u = IF e.key \in keep THEN Placed(t, size, e) ELSE t
  BY <1>0, RebuiltSteps
<1>2. /\ SlotsSound(t, size)
      /\ AllTrue(b, t, size)
      /\ Held(t, size) = old(n) \cap keep
      /\ IsFiniteSet(Taken(t, size))
      /\ Cardinality(Taken(t, size)) <= n
  BY DEF RebuiltOK
<1>3. Cardinality(Taken(t, size)) \in Nat
  BY <1>2, FS_CardinalityType
<1>4. e \in Entries \cup {Empty} /\ (e # Empty <=> n \in Taken(c.slots, c.cap))
  BY <1>0 DEF SlotsSound, Slots, Taken
<1>5. Taken(c.slots, c.cap) \subseteq Nat
  BY DEF Taken
<1> HIDE DEF t, u
<1>6. old(n + 1) = old(n) \cup {c.slots[s].key : s \in Taken(c.slots, c.cap) \cap {n}}
  <2>1. \A v \in Taken(c.slots, c.cap) : v < n + 1 <=> v < n \/ v = n
    BY <1>0, <1>5
  <2> QED BY <2>1
<1> SUFFICES /\ SlotsSound(u, size)
             /\ AllTrue(b, u, size)
             /\ Held(u, size) = old(n + 1) \cap keep
             /\ IsFiniteSet(Taken(u, size))
             /\ Cardinality(Taken(u, size)) <= n + 1
  BY DEF RebuiltOK, u
<1>7. CASE e.key \notin keep
  <2>1. u = t
    BY <1>1, <1>7
  <2>2. old(n + 1) \cap keep = old(n) \cap keep
    BY <1>6, <1>7
  <2> HIDE DEF old
  <2> QED BY <2>1, <2>2, <1>0, <1>2, <1>3
<1>8. CASE e.key \in keep
  <2>1. e # Empty /\ e \in Entries /\ n \in Taken(c.slots, c.cap)
    BY <1>4, <1>8, EmptyIsNoEntry DEF Empty
  <2>2. e.key \notin Held(t, size)
    <3> SUFFICES ASSUME e.key \in old(n) PROVE FALSE
      BY <1>2
    <3>1. PICK v \in Taken(c.slots, c.cap) : v < n /\ c.slots[v].key = e.key
      OBVIOUS
    <3>2. v = n
      BY <2>1, <3>1 DEF SlotsSound, Distinct
    <3> QED BY <3>1, <3>2, <1>0
  <2>3. Taken(t, size) # 0 .. size - 1
    <3>1. Cardinality(0 .. size - 1) = size
      BY FS_Interval
    <3> QED BY <3>1, <1>0, <1>2, <1>3
  <2> HIDE DEF e
  <2>4. PICK s \in (0 .. size - 1) \ Taken(t, size) :
           /\ SlotsSound([t EXCEPT ![s] = e], size)
           /\ Placed(t, size, e) = [t EXCEPT ![s] = e]
           /\ Taken([t EXCEPT ![s] = e], size) = Taken(t, size) \cup {s}
    <3>1. PlacesEntry(t, size, e)
      BY <1>2, <2>1, <2>2, <2>3, PlacedSound
    <3> QED BY <3>1 DEF PlacesEntry
  <2>5. SlotsSound(u, size) /\ Taken(u, size) = Taken(t, size) \cup {s}
    BY <1>1, <1>8, <2>4
  <2>6. u[s] = e /\ \A v \in Taken(t, size) : u[v] = t[v]
    <3>1. DOMAIN t = 0 .. size - 1
      BY <1>2 DEF SlotsSound, Slots
    <3> QED BY <3>1, <1>1, <1>8, <2>4 DEF Taken
  <2>7. AllTrue(b, u, size)
    BY <2>1, <2>5, <2>6, <1>2 DEF AllTrue, e
  <2>8. Held(u, size) = Held(t, size) \cup {e.key}
    BY <2>5, <2>6 DEF Held
  <2>9. old(n + 1) = old(n) \cup {e.key}
    BY <1>6, <2>1 DEF e
  <2>10. Held(u, size) = old(n + 1) \cap keep
    <3> HIDE DEF old
    <3> QED BY <2>8, <2>9, <1>2, <1>8
  <2>11. IsFiniteSet(Taken(u, size)) /\ Cardinality(Taken(u, size)) <= n + 1
    <3>1. /\ IsFiniteSet(Taken(t, size) \cup {s})
          /\ Cardinality(Taken(t, size) \cup {s}) =
               IF s \in Taken(t, size) THEN Cardinality(Taken(t, size)) ELSE Cardinality(Taken(t, size)) + 1
      BY <1>2, FS_AddElement
    <3> QED BY <3>1, <2>5, <1>0, <1>2, <1>3
  <2> QED BY <2>5, <2>7, <2>10, <2>11
<1> QED BY <1>7, <1>8

\* What rebuilding is for.
KeepsEntries(b, c, size, keep) ==
  /\ SlotsSound(Rebuilt(c, size, keep), size)
  /\ AllTrue(b, Rebuilt(c, size, keep), size)
  /\ Held(Rebuilt(c, size, keep), size) = Held(c.slots, c.cap) \cap keep

(***************************************************************************)
(* A table rebuilt with no fewer slots holds the entries that were to be   *)
(* kept, and is sound when the old one was.                                *)
(***************************************************************************)
LEMMA RebuiltSound ==
  ASSUME NEW b, NEW c, c.cap \in Nat, SlotsSound(c.slots, c.cap), AllTrue(b, c.slots, c.cap),
         NEW size \in Nat, size >= c.cap, NEW keep \in SUBSET Keys
  PROVE  KeepsEntries(b, c, size, keep)
<1> DEFINE good == {n \in Nat : RebuiltOK(b, c, size, keep, n)}
<1>1. 0 \in good
  <2> DEFINE t == RebuiltTo(c, size, keep)[0]
  <2>1. t = EmptyTable(size)
    BY RebuiltSteps
  <2>2. SlotsSound(t, size) /\ AllTrue(b, t, size) /\ Held(t, size) = {} /\ Taken(t, size) = {}
    <3> HIDE DEF t
    <3> QED BY <2>1, EmptyTableSound
  <2>3. {u \in Taken(c.slots, c.cap) : u < 0} = {}
    BY DEF Taken
  <2>4. IsFiniteSet(Taken(t, size)) /\ Cardinality(Taken(t, size)) <= 0
    <3> HIDE DEF t
    <3> QED BY <2>2, FS_EmptySet
  <2>5. RebuiltOK(b, c, size, keep, 0)
    BY <2>2, <2>3, <2>4 DEF RebuiltOK
  <2> QED BY <2>5
<1>2. ASSUME NEW n \in 0 .. c.cap - 1, n \in good PROVE n + 1 \in good
  BY <1>2, RebuiltInv
<1>3. c.cap \in good
  <2> HIDE DEF good
  <2> DEFINE last == c.cap
  <2>1. last \in Nat /\ \A n \in 0 .. last - 1 : n \in good => n + 1 \in good
    BY <1>2
  <2>2. last \in 0 .. last
    BY <2>1
  <2> HIDE DEF last
  <2>3. \A n \in 0 .. last : n \in good
    BY <1>1, <2>1, Counting
  <2>4. last \in good
    BY <2>2, <2>3
  <2> QED BY <2>4 DEF last
<1>4. {u \in Taken(c.slots, c.cap) : u < c.cap} = Taken(c.slots, c.cap)
  BY DEF Taken
<1> QED BY <1>3, <1>4 DEF RebuiltOK, Rebuilt, Held, KeepsEntries

-----------------------------------------------------------------------------
\* A sequence without duplicates is as long as its set is large.
LEMMA DuplicatelessLength ==
  ASSUME NEW T, NEW seq \in Seq(T), Duplicateless(seq)
  PROVE  IsFiniteSet(ToSet(seq)) /\ Cardinality(ToSet(seq)) = Len(seq)
<1>1. Len(seq) \in Nat /\ DOMAIN seq = 1 .. Len(seq) /\ ToSet(seq) = {seq[i] : i \in 1 .. Len(seq)}
  BY LenProperties DEF ToSet
<1>2. seq \in Bijection(1 .. Len(seq), ToSet(seq))
  <2>1. seq \in [1 .. Len(seq) -> ToSet(seq)]
    BY <1>1
  <2>2. \A x \in ToSet(seq) : \E i \in 1 .. Len(seq) : seq[i] = x
    BY <1>1
  <2>3. \A i, j \in 1 .. Len(seq) : seq[i] = seq[j] => i = j
    BY DEF Duplicateless
  <2> QED BY <2>1, <2>2, <2>3, Fun_IsBij
<1>3. IsFiniteSet(1 .. Len(seq)) /\ Cardinality(1 .. Len(seq)) = Len(seq)
  BY <1>1, Intervals
<1>4. ExistsBijection(1 .. Len(seq), ToSet(seq))
  BY <1>2 DEF ExistsBijection
<1> QED BY <1>3, <1>4, FS_Bijection

\* A key that is used becomes the one used last.
LEMMA UsedKeys ==
  ASSUME NEW seq \in Seq(Keys), Duplicateless(seq), NEW k \in Keys
  PROVE  /\ Used(seq, k) \in Seq(Keys)
         /\ Duplicateless(Used(seq, k))
         /\ ToSet(Used(seq, k)) = ToSet(seq) \cup {k}
         /\ Len(Used(seq, k)) = IF k \in ToSet(seq) THEN Len(seq) ELSE Len(seq) + 1
<1> DEFINE f == Filtered(seq, Keys \ {k})
           n == Len(f)
           u == Append(f, k)
<1>1. f \in Seq(Keys \ {k}) /\ f \in Seq(Keys)
  <2>1. f \in Seq(Keys \cap (Keys \ {k}))
    BY FilterType
  <2>2. Keys \cap (Keys \ {k}) = Keys \ {k} /\ Keys \ {k} \subseteq Keys
    OBVIOUS
  <2> HIDE DEF f
  <2> QED BY <2>1, <2>2
<1>2. PICK m \in Places(seq, Keys \ {k}, Len(seq), f) : TRUE
  BY FilterPlaces
<1>3. /\ m \in [1 .. n -> 1 .. Len(seq)]
      /\ \A i, j \in 1 .. n : i < j => m[i] < m[j]
      /\ \A j \in 1 .. n : f[j] = seq[m[j]]
      /\ \A a \in 1 .. Len(seq) : seq[a] # k => \E j \in 1 .. n : m[j] = a
  <2>1. \A a \in 1 .. Len(seq) : seq[a] \in Keys
    OBVIOUS
  <2> HIDE DEF f
  <2> QED BY <1>2, <2>1 DEF Places
<1>4. /\ n \in Nat
      /\ Len(seq) \in Nat
      /\ Len(u) = n + 1
      /\ u[n + 1] = k
      /\ \A j \in 1 .. n : u[j] = f[j] /\ f[j] # k
      /\ u \in Seq(Keys)
  <2> HIDE DEF f
  <2>1. n \in Nat /\ Len(seq) \in Nat
    BY <1>1, LenProperties
  <2>2. Len(u) = n + 1 /\ u[n + 1] = k /\ u \in Seq(Keys) /\ \A j \in 1 .. n : u[j] = f[j]
    BY <1>1, AppendProperties
  <2>3. \A j \in 1 .. n : f[j] # k
    BY <1>1
  <2> QED BY <2>1, <2>2, <2>3
<1>5. \A i, j \in 1 .. n : f[i] = f[j] => i = j
  <2> HIDE DEF f, n
  <2> SUFFICES ASSUME NEW i \in 1 .. n, NEW j \in 1 .. n, f[i] = f[j], i # j
               PROVE  FALSE
    OBVIOUS
  <2>1. m[i] \in 1 .. Len(seq) /\ m[j] \in 1 .. Len(seq) /\ seq[m[i]] = seq[m[j]]
    BY <1>3
  <2>2. m[i] = m[j]
    BY <2>1 DEF Duplicateless
  <2>3. i < j \/ j < i
    BY <1>4
  <2> QED BY <2>1, <2>2, <2>3, <1>3
<1>6. u = Used(seq, k)
  BY DEF Used
<1> HIDE DEF u, f, n
<1>7. Duplicateless(u)
  <2> SUFFICES ASSUME NEW i \in 1 .. n + 1, NEW j \in 1 .. n + 1, u[i] = u[j]
               PROVE  i = j
    BY <1>4 DEF Duplicateless
  <2>1. CASE i \in 1 .. n /\ j \in 1 .. n
    BY <2>1, <1>4, <1>5
  <2>2. CASE i = n + 1 /\ j \in 1 .. n
    BY <2>2, <1>4
  <2>3. CASE i \in 1 .. n /\ j = n + 1
    BY <2>3, <1>4
  <2>4. CASE i = n + 1 /\ j = n + 1
    BY <2>4
  <2> QED BY <2>1, <2>2, <2>3, <2>4, <1>4
<1>8. DOMAIN u = 1 .. n + 1 /\ DOMAIN seq = 1 .. Len(seq)
  BY <1>4, LenProperties
<1>9. ToSet(u) = ToSet(seq) \cup {k}
  <2>1. ASSUME NEW x \in ToSet(u) PROVE x \in ToSet(seq) \cup {k}
    <3>1. PICK i \in 1 .. n + 1 : u[i] = x
      BY <1>8 DEF ToSet
    <3>2. CASE i = n + 1
      BY <3>1, <3>2, <1>4
    <3>3. CASE i \in 1 .. n
      BY <3>1, <3>3, <1>3, <1>4, <1>8 DEF ToSet
    <3> QED BY <3>2, <3>3, <1>4
  <2>2. ASSUME NEW x \in ToSet(seq), x # k PROVE x \in ToSet(u)
    <3>1. PICK a \in 1 .. Len(seq) : seq[a] = x
      BY <1>8 DEF ToSet
    <3>2. PICK j \in 1 .. n : m[j] = a
      BY <2>2, <3>1, <1>3
    <3>3. u[j] = x /\ j \in 1 .. n + 1
      BY <3>1, <3>2, <1>3, <1>4
    <3> QED BY <3>3, <1>8 DEF ToSet
  <2>3. k \in ToSet(u)
    <3>1. n + 1 \in 1 .. n + 1
      BY <1>4
    <3> QED BY <3>1, <1>4, <1>8 DEF ToSet
  <2> QED BY <2>1, <2>2, <2>3
<1>10. Len(u) = IF k \in ToSet(seq) THEN Len(seq) ELSE Len(seq) + 1
  <2>1. IsFiniteSet(ToSet(seq)) /\ Cardinality(ToSet(seq)) = Len(seq)
    BY DuplicatelessLength
  <2>2. Cardinality(ToSet(u)) = Len(u)
    BY <1>4, <1>7, DuplicatelessLength
  <2>3. Cardinality(ToSet(seq) \cup {k}) =
          IF k \in ToSet(seq) THEN Cardinality(ToSet(seq)) ELSE Cardinality(ToSet(seq)) + 1
    BY <2>1, FS_AddElement
  <2> QED BY <2>1, <2>2, <2>3, <1>9
<1> QED BY <1>4, <1>6, <1>7, <1>9, <1>10

\* As many slots are taken as keys are known, so that count is right.
LEMMA CountIsTaken ==
  ASSUME NEW b, NEW c, TableInv(b, c)
  PROVE  /\ IsFiniteSet(Taken(c.slots, c.cap))
         /\ c.count = Cardinality(Taken(c.slots, c.cap))
         /\ c.count \in 0 .. c.cap
<1> DEFINE taken == Taken(c.slots, c.cap)
           held == Held(c.slots, c.cap)
           f == [s \in taken |-> c.slots[s].key]
<1>1. c.cap \in Nat /\ c.byUse \in Seq(Keys)
  BY CacheAssumption DEF TableInv, Tables
<1>2. IsFiniteSet(0 .. c.cap - 1) /\ Cardinality(0 .. c.cap - 1) = c.cap
  BY <1>1, Intervals
<1>3. taken \in SUBSET (0 .. c.cap - 1)
  BY DEF Taken
<1>4. IsFiniteSet(taken) /\ Cardinality(taken) <= c.cap
  <2> HIDE DEF taken
  <2> QED BY <1>2, <1>3, FS_Subset
<1>5. f \in Bijection(taken, held)
  <2>1. f \in [taken -> held] /\ \A x \in held : \E s \in taken : f[s] = x
    BY DEF Held
  <2>2. \A s, t \in taken : f[s] = f[t] => s = t
    BY DEF TableInv, SlotsSound, Distinct
  <2> HIDE DEF f, taken, held
  <2> QED BY <2>1, <2>2, Fun_IsBij
<1>6. ExistsBijection(taken, held)
  <2> HIDE DEF f
  <2> QED BY <1>5 DEF ExistsBijection
<1>7. Cardinality(held) = Cardinality(taken)
  <2> HIDE DEF taken, held
  <2> QED BY <1>4, <1>6, FS_Bijection
<1>8. held = ToSet(c.byUse) /\ c.count = Len(c.byUse) /\ Duplicateless(c.byUse)
  BY DEF TableInv
<1>9. Cardinality(held) = c.count
  <2> HIDE DEF held
  <2> QED BY <1>1, <1>8, DuplicatelessLength
<1>10. c.count \in Nat
  BY DEF TableInv, Tables
<1> HIDE DEF taken
<1> QED BY <1>1, <1>4, <1>7, <1>9, <1>10 DEF taken

-----------------------------------------------------------------------------
\* The limits of the table.
LEMMA Limits ==
  /\ MaxCap \in Nat \ {0}
  /\ FirstCap \in Nat \ {0}
  /\ FirstCap <= MaxCap
  /\ Half \in Nat
  /\ Half < MaxCap
<1>1. MaxCap \in Nat \ {0} /\ FirstCap \in Nat \ {0} /\ FirstCap <= MaxCap
  BY CacheAssumption
<1>2. MaxCap = 2 * (MaxCap \div 2) + (MaxCap % 2) /\ MaxCap \div 2 \in Int /\ MaxCap % 2 \in 0 .. 1
  BY <1>1, DivMod
<1> QED BY <1>1, <1>2 DEF Half

\* The keys that an eviction keeps.
LEMMA KeptKeys ==
  ASSUME NEW c, c.byUse \in Seq(Keys), Duplicateless(c.byUse), Half <= Len(c.byUse)
  PROVE  /\ KeepNewest(c) \in Seq(Keys)
         /\ Len(KeepNewest(c)) = Half
         /\ \A i \in 1 .. Half : KeepNewest(c)[i] = c.byUse[Len(c.byUse) - Half + i]
         /\ Duplicateless(KeepNewest(c))
         /\ ToSet(KeepNewest(c)) \subseteq ToSet(c.byUse)
<1> DEFINE u == c.byUse
           n == Len(u)
           from == n - Half + 1
           kept == KeepNewest(c)
<1>1. n \in Nat /\ Half \in Nat /\ Half <= n
  BY Limits, LenProperties
<1>2. kept = SubSeq(u, from, n)
  BY DEF KeepNewest, Cutoff
<1>3. from \in 1 .. n + 1 /\ n \in from - 1 .. n
  BY <1>1
<1>4. /\ kept \in Seq(Keys)
      /\ Len(kept) = n - from + 1
      /\ \A i \in 1 .. (n - from + 1) : kept[i] = u[from + i - 1]
  <2> HIDE DEF from, kept, n
  <2>1. u \in Seq(Keys) /\ n = Len(u)
    BY DEF n
  <2> HIDE DEF u
  <2> QED BY <1>1, <1>2, <1>3, <2>1, SubSeqProperties
<1>5. Len(kept) = Half /\ \A i \in 1 .. Half : kept[i] = u[n - Half + i] /\ n - Half + i \in 1 .. n
  <2>1. n - from + 1 = Half
    BY <1>1
  <2>2. ASSUME NEW i \in 1 .. Half PROVE from + i - 1 = n - Half + i /\ n - Half + i \in 1 .. n
    BY <1>1
  <2> HIDE DEF from, kept
  <2> QED BY <1>4, <2>1, <2>2
<1> HIDE DEF kept
<1>6. Duplicateless(kept)
  <2> SUFFICES ASSUME NEW i \in 1 .. Half, NEW j \in 1 .. Half, kept[i] = kept[j]
               PROVE  i = j
    BY <1>5 DEF Duplicateless
  <2>1. n - Half + i = n - Half + j
    BY <1>5 DEF Duplicateless
  <2> QED BY <2>1, <1>1
<1>7. DOMAIN kept = 1 .. Half /\ DOMAIN u = 1 .. n
  BY <1>4, <1>5, LenProperties
<1>8. ToSet(kept) \subseteq ToSet(u)
  BY <1>5, <1>7 DEF ToSet
<1> QED BY <1>4, <1>5, <1>6, <1>8 DEF kept

\* A table without entries.
LEMMA NoEntriesInv ==
  ASSUME NEW b, NEW c \in Tables,
         c.slots = EmptyTable(c.cap), c.count = 0, c.byUse = <<>>
  PROVE  TableInv(b, c)
<1>1. c.cap \in Nat
  BY Limits DEF Tables
<1>2. SlotsSound(c.slots, c.cap) /\ AllTrue(b, c.slots, c.cap) /\ Held(c.slots, c.cap) = {}
  BY <1>1, EmptyTableSound
<1>3. Len(<<>>) = 0 /\ ToSet(<<>>) = {}
  BY DEF ToSet
<1>4. Duplicateless(<<>>)
  BY <1>3 DEF Duplicateless
<1> QED BY <1>2, <1>3, <1>4 DEF TableInv

\* A fresh one.
LEMMA EmptyTableInv ==
  ASSUME NEW b, NEW size \in 0 .. MaxCap
  PROVE  TableInv(b, [slots |-> EmptyTable(size), cap |-> size, count |-> 0, byUse |-> <<>>])
<1> DEFINE c == [slots |-> EmptyTable(size), cap |-> size, count |-> 0, byUse |-> <<>>]
<1>1. size \in Nat
  BY Limits
<1>2. EmptyTable(size) \in Slots(size)
  BY <1>1, EmptyTableSound DEF SlotsSound
<1>3. c \in Tables
  BY <1>1, <1>2 DEF Tables
<1> QED BY <1>3, NoEntriesInv

\* No table at all.
LEMMA NoCacheInv == \A b : TableInv(b, NoCache)
<1>1. EmptyTable(0) = <<>>
  BY DEF EmptyTable
<1>2. 0 \in 0 .. MaxCap
  BY Limits
<1> QED BY <1>1, <1>2, EmptyTableInv DEF NoCache

\* cache_evict_half keeps the newest half, or nothing for want of memory.
LEMMA EvictInv ==
  ASSUME NEW b, NEW c, TableInv(b, c), c.count >= MaxCap, NEW d \in EvictHalf(c)
  PROVE  /\ TableInv(b, d)
         /\ d.count < MaxCap
         /\ \/ d.byUse = KeepNewest(c)
            \/ Faults /\ d.byUse = <<>>
         /\ ToSet(d.byUse) \subseteq ToSet(c.byUse)
<1> DEFINE kept == KeepNewest(c)
           table == [c EXCEPT !.slots = Rebuilt(c, c.cap, ToSet(kept)),
                              !.count = Len(kept),
                              !.byUse = kept]
           all == [c EXCEPT !.slots = EmptyTable(c.cap), !.count = 0, !.byUse = <<>>]
<1>1. /\ c \in Tables
      /\ c.cap \in Nat
      /\ c.cap \in 0 .. MaxCap
      /\ SlotsSound(c.slots, c.cap)
      /\ AllTrue(b, c.slots, c.cap)
      /\ Held(c.slots, c.cap) = ToSet(c.byUse)
      /\ c.count = Len(c.byUse)
      /\ c.byUse \in Seq(Keys)
      /\ Duplicateless(c.byUse)
  BY Limits DEF TableInv, Tables
<1>2. Half <= Len(c.byUse) /\ ~(c.count <= Half) /\ Len(c.byUse) \in Nat
  BY <1>1, Limits, LenProperties
<1>3. /\ kept \in Seq(Keys)
      /\ Len(kept) = Half
      /\ Duplicateless(kept)
      /\ ToSet(kept) \subseteq ToSet(c.byUse)
  BY <1>1, <1>2, KeptKeys
<1>4. d = table \/ (Faults /\ d = all)
  BY <1>2 DEF EvictHalf
<1>5. CASE d = table
  <2> DEFINE keep == ToSet(kept)
  <2>0. keep \in SUBSET Keys
    <3>1. \A i \in DOMAIN kept : kept[i] \in Keys
      BY <1>3
    <3> QED BY <3>1 DEF ToSet
  <2> HIDE DEF kept, keep
  <2>1. /\ SlotsSound(Rebuilt(c, c.cap, keep), c.cap)
        /\ AllTrue(b, Rebuilt(c, c.cap, keep), c.cap)
        /\ Held(Rebuilt(c, c.cap, keep), c.cap) = Held(c.slots, c.cap) \cap keep
    <3> DEFINE size == c.cap
    <3>1. size >= c.cap /\ size \in Nat
      BY <1>1
    <3> HIDE DEF size, table, all
    <3>2. KeepsEntries(b, c, size, keep)
      BY <3>1, <2>0, <1>1, RebuiltSound
    <3> QED BY <3>2 DEF KeepsEntries, size
  <2>2. /\ d.slots = Rebuilt(c, c.cap, keep)
        /\ d.cap = c.cap
        /\ d.count = Half
        /\ d.byUse = kept
        /\ d = [slots |-> Rebuilt(c, c.cap, keep), cap |-> c.cap, count |-> Half, byUse |-> kept]
    BY <1>1, <1>3, <1>5 DEF Tables, keep
  <2>3. d \in Tables
    BY <2>1, <2>2, <1>1, <1>3, Limits DEF Tables, SlotsSound
  <2>4. Held(d.slots, d.cap) = ToSet(d.byUse)
    BY <2>1, <2>2, <1>1, <1>3 DEF keep
  <2>5. TableInv(b, d)
    BY <2>1, <2>2, <2>3, <2>4, <1>3 DEF TableInv
  <2> QED BY <2>2, <2>5, <1>3, Limits DEF kept
<1>6. CASE Faults /\ d = all
  <2> DEFINE slots == EmptyTable(c.cap)
  <2>0. slots \in Slots(c.cap)
    BY <1>1, EmptyTableSound DEF SlotsSound
  <2>1. d = [c EXCEPT !.slots = slots, !.count = 0, !.byUse = <<>>]
    BY <1>6
  <2> HIDE DEF slots, kept, table, all
  <2>2. /\ d.slots = slots
        /\ d.cap = c.cap
        /\ d.count = 0
        /\ d.byUse = <<>>
        /\ d \in Tables
    <3> DEFINE none == <<>>
    <3>1. none \in Seq(Keys)
      OBVIOUS
    <3>2. c \in Tables
      BY <1>1
    <3>3. d = [c EXCEPT !.slots = slots, !.count = 0, !.byUse = none]
      BY <2>1
    <3> HIDE DEF none
    <3>4. /\ d.slots = slots
          /\ d.cap = c.cap
          /\ d.count = 0
          /\ d.byUse = none
      BY <3>2, <3>3 DEF Tables
    <3>5. d \in Tables
      BY <2>0, <1>1, <3>1, <3>2, <3>3 DEF Tables
    <3> QED BY <3>4, <3>5 DEF none
  <2>4. TableInv(b, d)
    BY <2>2, NoEntriesInv DEF slots
  <2>3. d.count = 0 /\ d.byUse = <<>> /\ ToSet(d.byUse) = {}
    BY <2>2 DEF ToSet
  <2> QED BY <2>3, <2>4, <1>6, Limits
<1> QED BY <1>4, <1>5, <1>6

\* What cache_ensure_space answers with leaves a free slot, and no key goes.
LEMMA GrownInv ==
  ASSUME NEW b, NEW c, TableInv(b, c), c.count < MaxCap
  PROVE  /\ TableInv(b, Grown(c))
         /\ Grown(c).byUse = c.byUse
         /\ Grown(c).count < Grown(c).cap
<1>1. /\ c \in Tables
      /\ c.cap \in 0 .. MaxCap
      /\ c.cap \in Nat
      /\ SlotsSound(c.slots, c.cap)
      /\ AllTrue(b, c.slots, c.cap)
      /\ Duplicateless(c.byUse)
      /\ Held(c.slots, c.cap) = ToSet(c.byUse)
      /\ c.byUse \in Seq(Keys)
      /\ c.count = Len(c.byUse)
  BY Limits DEF TableInv, Tables
<1>2. c.count \in 0 .. c.cap
  BY CountIsTaken
<1>3. CASE c.cap = 0
  <2>1. c.count = 0 /\ c.byUse = <<>>
    BY <1>1, <1>2, <1>3, EmptySeq
  <2> DEFINE slots == EmptyTable(FirstCap)
  <2>2. Grown(c) = [c EXCEPT !.slots = slots, !.cap = FirstCap]
    BY <1>1, <1>2, <1>3, Limits DEF Grown
  <2>3. Grown(c) = [slots |-> slots, cap |-> FirstCap, count |-> 0, byUse |-> <<>>]
    <3> HIDE DEF slots
    <3> QED BY <2>1, <2>2, <1>1 DEF Tables
  <2>4. FirstCap \in 0 .. MaxCap /\ 0 < FirstCap
    BY Limits
  <2> QED BY <2>1, <2>3, <2>4, EmptyTableInv
<1>4. CASE c.cap # 0 /\ (c.count * 4 < c.cap * 3 \/ c.cap >= MaxCap)
  <2>1. Grown(c) = c
    BY <1>4 DEF Grown
  <2>2. c.count < c.cap
    BY <1>1, <1>2, <1>4, Limits
  <2> QED BY <2>1, <2>2
<1>5. CASE c.cap # 0 /\ ~(c.count * 4 < c.cap * 3 \/ c.cap >= MaxCap)
  <2> DEFINE size == IF 2 * c.cap > MaxCap THEN MaxCap ELSE 2 * c.cap
             keep == ToSet(c.byUse)
             slots == Rebuilt(c, size, keep)
  <2>1. size \in Nat /\ size \in 0 .. MaxCap /\ size >= c.cap /\ c.count < size
    BY <1>1, <1>2, <1>5, Limits
  <2>2. keep \in SUBSET Keys
    <3>1. \A i \in DOMAIN c.byUse : c.byUse[i] \in Keys
      BY <1>1
    <3> QED BY <3>1 DEF ToSet
  <2>3. Grown(c) = [c EXCEPT !.slots = slots, !.cap = size]
    BY <1>5 DEF Grown
  <2> HIDE DEF size, keep, slots
  <2>4. /\ SlotsSound(slots, size)
        /\ AllTrue(b, slots, size)
        /\ Held(slots, size) = Held(c.slots, c.cap) \cap keep
    <3>1. KeepsEntries(b, c, size, keep)
      BY <2>1, <2>2, <1>1, RebuiltSound
    <3> QED BY <3>1 DEF KeepsEntries, slots
  <2>5. Grown(c) = [slots |-> slots, cap |-> size, count |-> c.count, byUse |-> c.byUse]
    BY <2>3, <1>1 DEF Tables
  <2>6. Grown(c) \in Tables
    BY <2>1, <2>4, <2>5, <1>1 DEF Tables, SlotsSound
  <2>7. Held(Grown(c).slots, Grown(c).cap) = ToSet(Grown(c).byUse)
    <3>1. Held(slots, size) = ToSet(c.byUse)
      BY <2>4, <1>1 DEF keep
    <3> QED BY <3>1, <2>5
  <2> QED BY <2>1, <2>4, <2>5, <2>6, <2>7, <1>1 DEF TableInv
<1> QED BY <1>3, <1>4, <1>5

\* A new entry, in a table with room for it.
LEMMA StoredInv ==
  ASSUME NEW b, NEW c, TableInv(b, c), c.count < c.cap,
         NEW k \in Keys, k \notin ToSet(c.byUse),
         NEW metrics \in Answers, metrics = [by |-> b, of |-> k],
         NEW d \in Stored(c, k, metrics)
  PROVE  TableInv(b, d) /\ (d.byUse = Used(c.byUse, k) \/ d.byUse = c.byUse)
<1> DEFINE e == [key |-> k, metrics |-> metrics]
           taken == Taken(c.slots, c.cap)
<1>1. /\ c \in Tables
      /\ c.cap \in 0 .. MaxCap
      /\ c.cap \in Nat
      /\ SlotsSound(c.slots, c.cap)
      /\ AllTrue(b, c.slots, c.cap)
      /\ Duplicateless(c.byUse)
      /\ Held(c.slots, c.cap) = ToSet(c.byUse)
      /\ c.byUse \in Seq(Keys)
      /\ c.count = Len(c.byUse)
      /\ DOMAIN c.slots = 0 .. c.cap - 1
  BY Limits DEF TableInv, Tables, SlotsSound, Slots
<1>2. e \in Entries /\ e.key = k /\ e.metrics = metrics
  BY DEF Entries
<1>3. k \notin Held(c.slots, c.cap)
  BY <1>1
<1>4. Lookup(c, k) = {}
  BY <1>1, <1>3, LookupIsHeld DEF Held
<1>5. taken # 0 .. c.cap - 1
  <2>1. Cardinality(0 .. c.cap - 1) = c.cap
    BY <1>1, Intervals
  <2>2. Cardinality(taken) = c.count
    BY CountIsTaken
  <2>3. c.count \in Nat
    BY <1>1 DEF Tables
  <2> HIDE DEF taken
  <2> QED BY <2>1, <2>2, <2>3, <1>1
<1> HIDE DEF e, taken
<1>55. PlacesEntry(c.slots, c.cap, e)
  BY <1>1, <1>2, <1>3, <1>5, PlacedSound DEF taken
<1>6. PICK s \in (0 .. c.cap - 1) \ taken :
        /\ FirstSlot(c.cap, k, {t \in 0 .. c.cap - 1 : c.slots[t] = Empty}) = {s}
        /\ SlotsSound([c.slots EXCEPT ![s] = e], c.cap)
        /\ Taken([c.slots EXCEPT ![s] = e], c.cap) = taken \cup {s}
  BY <1>2, <1>55 DEF PlacesEntry, taken
<1> USE DEF taken
<1> DEFINE slots == [c.slots EXCEPT ![s] = e]
           byUse == Used(c.byUse, k)
           new == [slots |-> slots, cap |-> c.cap, count |-> c.count + 1, byUse |-> byUse]
<1>7. SlotFor(c, k) = {s}
  BY <1>1, <1>3, <1>6, SlotForNew
<1>8. [t \in 0 .. c.cap - 1 |-> IF t \in {s} THEN e ELSE c.slots[t]] = slots
  BY <1>1, <1>6
<1>9. d = c \/ d = new
  <2> DEFINE stored == [c EXCEPT
               !.slots = [t \in 0 .. c.cap - 1 |-> IF t \in SlotFor(c, k) THEN e ELSE c.slots[t]],
               !.count = IF Lookup(c, k) # {} THEN @ ELSE @ + 1,
               !.byUse = Used(@, k)]
  <2>1. d = c \/ d = stored
    BY DEF Stored, e
  <2>2. stored = [c EXCEPT !.slots = slots, !.count = c.count + 1, !.byUse = byUse]
    <3> HIDE DEF slots
    <3> QED BY <1>1, <1>4, <1>7, <1>8 DEF Tables
  <2>3. stored = new
    <3> HIDE DEF slots, byUse, stored
    <3> QED BY <2>2, <1>1 DEF Tables
  <2> QED BY <2>1, <2>3
<1>10. TableInv(b, new)
  <2>1. /\ byUse \in Seq(Keys)
        /\ Duplicateless(byUse)
        /\ ToSet(byUse) = ToSet(c.byUse) \cup {k}
        /\ Len(byUse) = Len(c.byUse) + 1
    BY <1>1, UsedKeys
  <2>2. slots[s] = e /\ \A t \in taken : slots[t] = c.slots[t]
    BY <1>1, <1>6 DEF Taken
  <2> HIDE DEF slots, byUse, taken
  <2>3. SlotsSound(slots, c.cap) /\ Taken(slots, c.cap) = taken \cup {s}
    BY <1>6 DEF slots
  <2>4. Held(slots, c.cap) = ToSet(c.byUse) \cup {k}
    BY <2>2, <2>3, <1>1, <1>2 DEF Held, taken
  <2>5. AllTrue(b, slots, c.cap)
    BY <2>2, <2>3, <1>1, <1>2 DEF AllTrue, taken
  <2>6. c.count + 1 \in Nat /\ slots \in Slots(c.cap)
    BY <2>3, <1>1 DEF Tables, SlotsSound
  <2>7. new \in Tables
    BY <2>1, <2>6, <1>1 DEF Tables
  <2> QED BY <2>1, <2>3, <2>4, <2>5, <2>7, <1>1 DEF TableInv
<1> QED BY <1>9, <1>10

\* A key of the current request, and what the backend answers to it.
LEMMA KeyFacts ==
  ASSUME NEW b \in Backends, NEW r \in Requests
  PROVE  /\ Key(b, r) \in Keys
         /\ Truth(b, r) = [by |-> b, of |-> Key(b, r)]
         /\ Truth(b, r) \in Answers
<1>1. r \in Keys
  BY DEF Requests
<1>2. [r EXCEPT !.font = AnyFont] \in Keys
  BY <1>1 DEF Keys
<1>3. Key(b, r) \in Keys
  BY <1>1, <1>2 DEF Key
<1>4. Truth(b, r) \in Answers
  BY DEF Answers
<1> QED BY <1>3, <1>4 DEF Key, Truth

(***************************************************************************)
(* xent_text_cache_insert of a key the table does not hold, through        *)
(* eviction, growth and failures.                                          *)
(***************************************************************************)
LEMMA InsertedInv ==
  ASSUME NEW b, NEW c, TableInv(b, c),
         NEW k \in Keys, k \notin ToSet(c.byUse),
         NEW metrics \in Answers, metrics = [by |-> b, of |-> k],
         NEW d \in Inserted(c, k, metrics)
  PROVE  /\ TableInv(b, d)
         /\ \E e \in (IF c.count >= MaxCap THEN EvictHalf(c) ELSE {c}) :
              d.byUse = e.byUse \/ d.byUse = Used(e.byUse, k)
<1> DEFINE evicted == IF c.count >= MaxCap THEN EvictHalf(c) ELSE {c}
<1>1. PICK s \in EnsureSpace(c) : d \in IF s.room THEN Stored(s.table, k, metrics) ELSE {s.table}
  BY DEF Inserted
<1>2. \/ \E e \in evicted : s = [room |-> TRUE, table |-> Grown(e)]
      \/ \E e \in evicted : s = [room |-> FALSE, table |-> e]
  BY DEF EnsureSpace
<1>3. c.count \in Nat
  BY DEF TableInv, Tables
<1>4. ASSUME NEW e \in evicted
      PROVE  TableInv(b, e) /\ e.count < MaxCap /\ k \notin ToSet(e.byUse)
  <2>1. CASE c.count >= MaxCap
    BY <1>4, <2>1, EvictInv
  <2>2. CASE ~(c.count >= MaxCap)
    BY <1>3, <1>4, <2>2, Limits
  <2> QED BY <2>1, <2>2
<1> HIDE DEF evicted
<1>5. ASSUME NEW e \in evicted, s = [room |-> TRUE, table |-> Grown(e)]
      PROVE  TableInv(b, d) /\ (d.byUse = e.byUse \/ d.byUse = Used(e.byUse, k))
  <2> DEFINE g == Grown(e)
  <2>1. TableInv(b, g) /\ g.byUse = e.byUse /\ g.count < g.cap
    BY <1>4, GrownInv
  <2>2. d \in Stored(g, k, metrics)
    BY <1>1, <1>5
  <2> HIDE DEF g
  <2>3. k \notin ToSet(g.byUse)
    BY <1>4, <2>1
  <2>4. TableInv(b, d) /\ (d.byUse = Used(g.byUse, k) \/ d.byUse = g.byUse)
    BY <2>1, <2>2, <2>3, StoredInv
  <2> QED BY <2>1, <2>4
<1>6. ASSUME NEW e \in evicted, s = [room |-> FALSE, table |-> e]
      PROVE  TableInv(b, d) /\ d.byUse = e.byUse
  BY <1>1, <1>4, <1>6
<1> QED BY <1>2, <1>5, <1>6 DEF evicted

\* A hit only makes the key the one used last.
LEMMA TouchedInv ==
  ASSUME NEW b, NEW c, TableInv(b, c), NEW k \in Keys, k \in ToSet(c.byUse)
  PROVE  TableInv(b, [c EXCEPT !.byUse = Used(@, k)])
<1> DEFINE byUse == Used(c.byUse, k)
           d == [c EXCEPT !.byUse = Used(@, k)]
<1>1. c \in Tables /\ c.byUse \in Seq(Keys) /\ Duplicateless(c.byUse)
  BY DEF TableInv, Tables
<1>2. /\ byUse \in Seq(Keys)
      /\ Duplicateless(byUse)
      /\ ToSet(byUse) = ToSet(c.byUse) \cup {k}
      /\ Len(byUse) = Len(c.byUse)
  BY <1>1, UsedKeys
<1>3. d = [c EXCEPT !.byUse = byUse]
  OBVIOUS
<1> HIDE DEF byUse, d
<1>4. /\ d.slots = c.slots
      /\ d.cap = c.cap
      /\ d.count = c.count
      /\ d.byUse = byUse
      /\ d \in Tables
  BY <1>1, <1>2, <1>3 DEF Tables
<1>5. ToSet(d.byUse) = ToSet(c.byUse)
  BY <1>2, <1>4
<1>6. TableInv(b, d)
  BY <1>2, <1>4, <1>5 DEF TableInv
<1> QED BY <1>6 DEF d

(***************************************************************************)
(* xent_text_measure answers what the backend answers, and leaves a sound  *)
(* cache.                                                                  *)
(***************************************************************************)
LEMMA MeasuredInv ==
  ASSUME NEW r \in Requests, backend \in Backends, TableInv(backend, cache),
         NEW m \in Measured(r)
  PROVE  /\ m.metrics = Truth(backend, r)
         /\ TableInv(backend, m.cache)
<1> DEFINE k == Key(backend, r)
           answer == Truth(backend, r)
<1>1. k \in Keys /\ answer \in Answers /\ answer = [by |-> backend, of |-> k]
  BY KeyFacts
<1>2. /\ cache \in Tables
      /\ cache.cap \in Nat
      /\ AllTrue(backend, cache.slots, cache.cap)
      /\ SlotsSound(cache.slots, cache.cap)
      /\ Held(cache.slots, cache.cap) = ToSet(cache.byUse)
  BY Limits DEF TableInv, Tables
<1>3. CASE Lookup(cache, k) # {}
  <2>1. PICK e \in Lookup(cache, k) :
          m = [metrics |-> e.metrics, cache |-> [cache EXCEPT !.byUse = Used(@, k)]]
    BY <1>3 DEF Measured
  <2> HIDE DEF k, answer
  <2>2. PICK s \in Taken(cache.slots, cache.cap) : cache.slots[s] = e /\ e.key = k
    BY <1>2, LookupIsHeld
  <2>3. e.metrics = answer
    BY <1>1, <1>2, <2>2 DEF AllTrue
  <2>4. k \in ToSet(cache.byUse)
    BY <1>2, <2>2 DEF Held
  <2>5. TableInv(backend, m.cache)
    BY <1>1, <2>1, <2>4, TouchedInv
  <2> QED BY <2>1, <2>3, <2>5 DEF answer
<1>4. CASE Lookup(cache, k) = {}
  <2>1. PICK d \in Inserted(cache, k, answer) : m = [metrics |-> answer, cache |-> d]
    BY <1>4 DEF Measured
  <2> HIDE DEF k, answer
  <2>2. k \notin ToSet(cache.byUse)
    <3> SUFFICES ASSUME k \in ToSet(cache.byUse) PROVE FALSE
      OBVIOUS
    <3>1. PICK s \in Taken(cache.slots, cache.cap) : cache.slots[s].key = k
      BY <1>2 DEF Held
    <3>2. Lookup(cache, k) = {cache.slots[s]}
      BY <1>2, <3>1, LookupFinds
    <3> QED BY <3>2, <1>4
  <2>3. TableInv(backend, d)
    BY <1>1, <2>2, InsertedInv
  <2> QED BY <2>1, <2>3 DEF answer
<1> QED BY <1>3, <1>4

-----------------------------------------------------------------------------
\* What a node remembers is what the current backend answers for its text.
MemoTrue ==
  node.memo # Nothing =>
    node.memo.metrics =
      Truth(backend, [text |-> node.text, font |-> node.memo.font, fit |-> node.memo.fit])

NodeOK == node \in [text : Texts, font : Fonts, memo : Memos]

CacheInv ==
  /\ backend \in Backends
  /\ TableInv(backend, cache)
  /\ NodeOK
  /\ MemoTrue

LEMMA CacheInitInv == CacheInit => CacheInv
<1> SUFFICES ASSUME CacheInit PROVE CacheInv
  OBVIOUS
<1>1. backend \in Backends /\ TableInv(backend, cache)
  BY NoCacheInv DEF CacheInit, Backends
<1>2. NodeOK /\ MemoTrue
  BY DEF CacheInit, NodeOK, MemoTrue, Memos
<1> QED BY <1>1, <1>2 DEF CacheInv

LEMMA NodeMeasureInv ==
  ASSUME CacheInv, NEW fit \in Settings, NodeMeasure(fit)
  PROVE  CacheInv'
<1> DEFINE r == [text |-> node.text, font |-> node.font, fit |-> fit]
<1>1. PICK m \in Measured(r) :
        /\ cache' = m.cache
        /\ node' = [node EXCEPT !.memo = [font |-> node.font, fit |-> fit, metrics |-> m.metrics]]
  BY DEF NodeMeasure
<1>2. backend' = backend /\ node.text \in Texts /\ node.font \in Fonts
  BY DEF NodeMeasure, CacheInv, NodeOK
<1>3. r \in Requests
  BY <1>2, CacheAssumption DEF Requests, Keys
<1> HIDE DEF r
<1>4. m.metrics = Truth(backend, r) /\ TableInv(backend, m.cache)
  BY <1>3, MeasuredInv DEF CacheInv
<1>5. m.metrics \in Answers
  BY <1>3, <1>4 DEF Answers, CacheInv
<1> DEFINE memo == [font |-> node.font, fit |-> fit, metrics |-> m.metrics]
<1>6. memo \in Memos /\ memo.font = node.font /\ memo.fit = fit /\ memo.metrics = m.metrics
  BY <1>2, <1>5 DEF Memos
<1> HIDE DEF memo
<1>7. node' = [node EXCEPT !.memo = memo]
  BY <1>1 DEF memo
<1>8. NodeOK' /\ node'.text = node.text /\ node'.memo = memo
  BY <1>6, <1>7 DEF CacheInv, NodeOK
<1>9. MemoTrue'
  BY <1>2, <1>4, <1>6, <1>8 DEF MemoTrue, r
<1> QED BY <1>1, <1>2, <1>4, <1>8, <1>9 DEF CacheInv

LEMMA CacheStepInv == CacheInv /\ [CacheNext]_cacheVars => CacheInv'
<1> SUFFICES ASSUME CacheInv, [CacheNext]_cacheVars PROVE CacheInv'
  OBVIOUS
<1>1. ASSUME NEW r \in Requests, Measure(r) PROVE CacheInv'
  <2>1. PICK m \in Measured(r) : cache' = m.cache
    BY <1>1 DEF Measure
  <2>2. TableInv(backend, m.cache)
    BY MeasuredInv DEF CacheInv
  <2> QED BY <1>1, <2>1, <2>2 DEF Measure, CacheInv, NodeOK, MemoTrue
<1>2. ASSUME NEW fit \in Settings, NodeMeasure(fit) PROVE CacheInv'
  BY <1>2, NodeMeasureInv
<1>3. ASSUME NEW t \in Texts, SetText(t) PROVE CacheInv'
  <2>1. NodeOK' /\ node'.memo = Nothing
    BY <1>3 DEF SetText, CacheInv, NodeOK, Memos
  <2> QED BY <1>3, <2>1 DEF SetText, CacheInv, MemoTrue
<1>4. ASSUME NEW f \in Fonts, SetFont(f) PROVE CacheInv'
  <2>1. NodeOK' /\ node'.memo = Nothing
    BY <1>4 DEF SetFont, CacheInv, NodeOK, Memos
  <2> QED BY <1>4, <2>1 DEF SetFont, CacheInv, MemoTrue
<1>5. ASSUME NEW b \in Backends, SetBackend(b) PROVE CacheInv'
  <2>1. NodeOK' /\ node'.memo = Nothing
    BY <1>5 DEF SetBackend, CacheInv, NodeOK, Memos
  <2> QED BY <1>5, <2>1, NoCacheInv DEF SetBackend, CacheInv, MemoTrue
<1>6. CASE UNCHANGED cacheVars
  BY <1>6 DEF cacheVars, CacheInv, NodeOK, MemoTrue
<1> QED BY <1>1, <1>2, <1>3, <1>4, <1>5, <1>6 DEF CacheNext

\* The cache and the memory of a node, in every reachable state.
THEOREM CacheInvariance == CacheSpec => []CacheInv
  BY CacheInitInv, CacheStepInv, PTL DEF CacheSpec

(***************************************************************************)
(* cache_slot finds exactly what the table holds, none of it twice, and    *)
(* count is the number of the entries, for every hash, every capacity and  *)
(* whichever allocations fail.                                             *)
(***************************************************************************)
THEOREM TableStaysSound == CacheSpec => []TableSound
<1>1. CacheInv => TableSound
  <2> SUFFICES ASSUME CacheInv PROVE TableSound
    OBVIOUS
  <2> DEFINE taken == Taken(cache.slots, cache.cap)
  <2>1. /\ cache \in Tables
        /\ cache.cap \in Nat
        /\ cache.cap \in 0 .. MaxCap
        /\ SlotsSound(cache.slots, cache.cap)
        /\ cache.slots \in Slots(cache.cap)
        /\ Held(cache.slots, cache.cap) = ToSet(cache.byUse)
        /\ cache.byUse \in Seq(Keys)
    BY Limits DEF CacheInv, TableInv, Tables, SlotsSound
  <2>2. cache.count = Cardinality(taken) /\ cache.count \in 0 .. cache.cap
    BY CountIsTaken DEF CacheInv
  <2>3. CacheTypeOK
    BY <2>1, <2>2 DEF CacheInv, NodeOK, CacheTypeOK, Slots, Entries
  <2>4. \A s \in taken : Lookup(cache, cache.slots[s].key) = {cache.slots[s]}
    BY <2>1, LookupFinds
  <2>5. \A s, t \in taken : cache.slots[s].key = cache.slots[t].key => s = t
    BY <2>1 DEF SlotsSound, Distinct
  <2>6. {cache.slots[s].key : s \in taken} = ToSet(cache.byUse)
    BY <2>1 DEF Held
  <2>7. taken = {s \in 0 .. cache.cap - 1 : cache.slots[s] # Empty}
    BY DEF Taken
  <2> HIDE DEF taken
  <2> QED BY <2>2, <2>3, <2>4, <2>5, <2>6, <2>7 DEF TableSound
<1> QED BY <1>1, CacheInvariance, PTL

(***************************************************************************)
(* What xent_text_measure finds in the cache, and what a node remembers,   *)
(* is what the current backend answers to the request.                     *)
(***************************************************************************)
THEOREM AnswersStayTrue == CacheSpec => []AnswersAreTrue
<1>1. CacheInv => AnswersAreTrue
  <2> SUFFICES ASSUME CacheInv PROVE AnswersAreTrue
    OBVIOUS
  <2>1. ASSUME NEW r \in Requests, NEW e \in Lookup(cache, Key(backend, r))
        PROVE  e.metrics = Truth(backend, r)
    <3>1. cache.cap \in Nat /\ AllTrue(backend, cache.slots, cache.cap)
      BY Limits DEF CacheInv, TableInv, Tables
    <3>2. PICK s \in Taken(cache.slots, cache.cap) : cache.slots[s] = e /\ e.key = Key(backend, r)
      BY <3>1, LookupIsHeld
    <3>3. e.metrics = [by |-> backend, of |-> Key(backend, r)]
      BY <3>1, <3>2 DEF AllTrue
    <3> QED BY <3>3, KeyFacts DEF CacheInv
  <2>2. ASSUME NEW fit \in Settings, Remembered(fit)
        PROVE  node.memo.metrics = Truth(backend, [text |-> node.text, font |-> node.font, fit |-> fit])
    BY <2>2 DEF Remembered, CacheInv, MemoTrue
  <2> QED BY <2>1, <2>2 DEF AnswersAreTrue
<1> QED BY <1>1, CacheInvariance, PTL

-----------------------------------------------------------------------------
\* The place of a key in the order of last use.
Age(seq, k) == CHOOSE i \in 1 .. Len(seq) : seq[i] = k

LEMMA AgeIs ==
  ASSUME NEW seq, Duplicateless(seq), NEW i \in 1 .. Len(seq)
  PROVE  Age(seq, seq[i]) = i
<1>1. \E j \in 1 .. Len(seq) : seq[j] = seq[i]
  OBVIOUS
<1>2. Age(seq, seq[i]) \in 1 .. Len(seq) /\ seq[Age(seq, seq[i])] = seq[i]
  BY <1>1 DEF Age
<1> QED BY <1>2 DEF Duplicateless

\* The half that an eviction keeps was used after the other one.
LEMMA KeptAreNewer ==
  ASSUME NEW c, c.byUse \in Seq(Keys), Duplicateless(c.byUse), Half <= Len(c.byUse)
  PROVE  /\ Cardinality(ToSet(KeepNewest(c))) = Half
         /\ \A k \in ToSet(KeepNewest(c)), gone \in ToSet(c.byUse) \ ToSet(KeepNewest(c)) :
              Age(c.byUse, gone) < Age(c.byUse, k)
<1> DEFINE u == c.byUse
           n == Len(u)
           kept == KeepNewest(c)
<1>1. /\ kept \in Seq(Keys)
      /\ Len(kept) = Half
      /\ \A i \in 1 .. Half : kept[i] = u[n - Half + i]
      /\ Duplicateless(kept)
  BY KeptKeys
<1>2. n \in Nat /\ Half \in Nat /\ Half <= n
  BY Limits, LenProperties
<1> HIDE DEF kept
<1>3. DOMAIN kept = 1 .. Half /\ DOMAIN u = 1 .. n
  BY <1>1, LenProperties
<1>4. Cardinality(ToSet(kept)) = Half
  BY <1>1, DuplicatelessLength
<1>5. ASSUME NEW k \in ToSet(kept), NEW gone \in ToSet(u) \ ToSet(kept)
      PROVE  Age(u, gone) < Age(u, k)
  <2>1. PICK i \in 1 .. Half : kept[i] = k
    BY <1>3 DEF ToSet
  <2>2. PICK j \in 1 .. n : u[j] = gone
    BY <1>3 DEF ToSet
  <2>3. n - Half + i \in 1 .. n /\ u[n - Half + i] = k
    BY <1>1, <1>2, <2>1
  <2>4. j <= n - Half
    <3> SUFFICES ASSUME j > n - Half PROVE FALSE
      BY <1>2
    <3> DEFINE o == j - (n - Half)
    <3>1. o \in 1 .. Half /\ n - Half + o = j
      <4> HIDE DEF n
      <4> QED BY <1>2
    <3> HIDE DEF o
    <3>2. kept[o] = gone
      BY <3>1, <1>1, <2>2
    <3> QED BY <3>1, <3>2, <1>3 DEF ToSet
  <2>5. Age(u, gone) = j
    BY <2>2, AgeIs
  <2>6. Age(u, k) = n - Half + i
    <3> DEFINE o == n - Half + i
    <3> HIDE DEF o
    <3>1. o \in 1 .. Len(u) /\ u[o] = k
      BY <2>3 DEF o
    <3>2. Age(u, u[o]) = o
      BY <3>1, AgeIs
    <3> QED BY <3>1, <3>2 DEF o
  <2> QED BY <2>1, <2>4, <2>5, <2>6, <1>2
<1> QED BY <1>4, <1>5 DEF kept

\* The keys that are still there after a measurement.
Stays(d) == ToSet(cache.byUse) \cap ToSet(d.byUse)

LEMMA MeasuredKeeps ==
  ASSUME NEW r \in Requests, CacheInv, NEW m \in Measured(r)
  PROVE  \/ Stays(m.cache) = ToSet(cache.byUse)
         \/ Faults /\ Stays(m.cache) = {}
         \/ Half <= Len(cache.byUse) /\ Stays(m.cache) = ToSet(KeepNewest(cache))
<1> DEFINE k == Key(backend, r)
           answer == Truth(backend, r)
           was == ToSet(cache.byUse)
<1>1. k \in Keys /\ answer \in Answers /\ answer = [by |-> backend, of |-> k]
  BY KeyFacts DEF CacheInv
<1>2. /\ TableInv(backend, cache)
      /\ cache \in Tables
      /\ cache.cap \in Nat
      /\ SlotsSound(cache.slots, cache.cap)
      /\ Held(cache.slots, cache.cap) = was
      /\ cache.byUse \in Seq(Keys)
      /\ Duplicateless(cache.byUse)
      /\ cache.count = Len(cache.byUse)
  BY Limits DEF CacheInv, TableInv, Tables
<1>3. CASE Lookup(cache, k) # {}
  <2>1. m.cache = [cache EXCEPT !.byUse = Used(@, k)]
    BY <1>3 DEF Measured
  <2>2. m.cache.byUse = Used(cache.byUse, k)
    BY <2>1, <1>2 DEF Tables
  <2> HIDE DEF k, answer
  <2>3. ToSet(Used(cache.byUse, k)) = was \cup {k}
    BY <1>1, <1>2, UsedKeys
  <2> QED BY <2>2, <2>3 DEF Stays
<1>4. CASE Lookup(cache, k) = {}
  <2>1. PICK d \in Inserted(cache, k, answer) : m.cache = d
    BY <1>4 DEF Measured
  <2> HIDE DEF k, answer
  <2>2. k \notin was
    <3> SUFFICES ASSUME k \in was PROVE FALSE
      OBVIOUS
    <3>1. PICK s \in Taken(cache.slots, cache.cap) : cache.slots[s].key = k
      BY <1>2 DEF Held
    <3>2. Lookup(cache, k) = {cache.slots[s]}
      BY <1>2, <3>1, LookupFinds
    <3> QED BY <3>2, <1>4
  <2>3. PICK e \in (IF cache.count >= MaxCap THEN EvictHalf(cache) ELSE {cache}) :
          d.byUse = e.byUse \/ d.byUse = Used(e.byUse, k)
    BY <1>1, <1>2, <2>2, InsertedInv
  <2>4. \/ e = cache
        \/ /\ cache.count >= MaxCap
           /\ TableInv(backend, e)
           /\ e.byUse = KeepNewest(cache) \/ (Faults /\ e.byUse = <<>>)
    BY <1>2, <2>3, EvictInv
  <2>5. e.byUse \in Seq(Keys) /\ Duplicateless(e.byUse)
    BY <1>2, <2>4 DEF TableInv, Tables
  <2>6. was \cap ToSet(d.byUse) = was \cap ToSet(e.byUse)
    <3>1. CASE d.byUse = Used(e.byUse, k)
      <4>1. ToSet(Used(e.byUse, k)) = ToSet(e.byUse) \cup {k}
        BY <1>1, <2>5, UsedKeys
      <4> QED BY <3>1, <4>1, <2>2
    <3> QED BY <3>1, <2>3
  <2>7. Stays(m.cache) = was \cap ToSet(e.byUse)
    BY <2>1, <2>6 DEF Stays
  <2>8. CASE e = cache
    BY <2>7, <2>8
  <2>9. CASE cache.count >= MaxCap /\ e.byUse = KeepNewest(cache)
    <3>1. Half <= Len(cache.byUse) /\ Len(cache.byUse) \in Nat
      BY <1>2, <2>9, Limits, LenProperties
    <3>2. ToSet(KeepNewest(cache)) \subseteq was
      BY <1>2, <3>1, KeptKeys
    <3> QED BY <2>7, <2>9, <3>1, <3>2
  <2>10. CASE Faults /\ e.byUse = <<>>
    <3>1. ToSet(<<>>) = {}
      BY DEF ToSet
    <3> QED BY <2>7, <2>10, <3>1
  <2> QED BY <2>4, <2>8, <2>9, <2>10
<1> QED BY <1>3, <1>4

(***************************************************************************)
(* cache_evict_half drops the entries used least recently: whatever the    *)
(* order of the slots, the half that stays was used after the other one.   *)
(***************************************************************************)
THEOREM NewestStay == CacheSpec => KeepsNewest
<1>1. CacheInv /\ [CacheNext]_cacheVars => [DropsOldest]_cacheVars
  <2> SUFFICES ASSUME CacheInv, CacheNext, backend' = backend, Stays(cache') # ToSet(cache.byUse)
               PROVE  \/ Faults /\ Stays(cache') = {}
                      \/ /\ Cardinality(Stays(cache')) = Half
                         /\ \A k \in Stays(cache'), gone \in ToSet(cache.byUse) \ Stays(cache') :
                              Age(cache.byUse, gone) < Age(cache.byUse, k)
    BY DEF DropsOldest, Stays, Age
  <2>1. \/ \E r \in Requests : \E m \in Measured(r) : cache' = m.cache
        \/ cache' = cache
    <3>1. ASSUME NEW fit \in Settings, NodeMeasure(fit)
          PROVE  \E r \in Requests : \E m \in Measured(r) : cache' = m.cache
      <4> DEFINE r == [text |-> node.text, font |-> node.font, fit |-> fit]
      <4>1. \E m \in Measured(r) : cache' = m.cache
        BY <3>1 DEF NodeMeasure
      <4>2. r \in Requests
        <5>1. node.text \in Texts /\ node.font \in Fonts
          BY DEF CacheInv, NodeOK
        <5> QED BY <5>1, CacheAssumption DEF Requests, Keys
      <4> HIDE DEF r
      <4> QED BY <4>1, <4>2
    <3> QED BY <3>1 DEF CacheNext, Measure, SetText, SetFont, SetBackend
  <2>2. PICK r \in Requests : \E m \in Measured(r) : cache' = m.cache
    BY <2>1 DEF Stays
  <2>3. \/ Faults /\ Stays(cache') = {}
        \/ Half <= Len(cache.byUse) /\ Stays(cache') = ToSet(KeepNewest(cache))
    BY <2>2, MeasuredKeeps
  <2>4. cache.byUse \in Seq(Keys) /\ Duplicateless(cache.byUse)
    BY DEF CacheInv, TableInv, Tables
  <2> QED BY <2>3, <2>4, KeptAreNewer
<1> QED BY <1>1, CacheInvariance, PTL DEF CacheSpec, KeepsNewest
=============================================================================
