-------------------------- MODULE LayoutDriver_proofs --------------------------
(***************************************************************************)
(* Proofs about the dirty flags, the dirty queue and the layout driver.    *)
(*                                                                         *)
(* What a step does to the flags is split in two.  Marking and forgetting  *)
(* work on a dirty state whose tree and slots are given, MarkSound and     *)
(* ForgetSound, and know nothing of the calls; the calls then differ in    *)
(* what they do to the chains of ancestors (ChainHung, CutKnows) and in    *)
(* whom they mark.  Compacting is one lemma, CompactSound, used twice in a *)
(* layout pass: the second time the column has been cleared and the queue  *)
(* has not, so that the lemma asks for less than it promises.              *)
(*                                                                         *)
(* LayoutIsComplete is about the state a pass leaves; what makes it true   *)
(* of the next pass has to be known all the time.  That is Covering: below *)
(* the last layout root, every node that is dirty or whose box is out of   *)
(* date stands at or below a queued one.  Every call keeps it, because it  *)
(* queues the node at which it changes the tree (CutCovers, HungCovers,    *)
(* LeafCovers) or the node whose style it changes.  A partial pass then    *)
(* starts at or above each of these.  What a box depends on comes from the *)
(* layout protocols (Influences); DecidedClosed shows that no box outside  *)
(* those a partial pass decides depends on one of them, because of where   *)
(* the climbs stop, if the tree is steady.                                 *)
(***************************************************************************)
EXTENDS LayoutDriver, NodeTree_proofs


\* The dirty states: the two columns and the array.
Dirts == [flags  : [Slots -> SUBSET Flags],
          queued : [Slots -> BOOLEAN],
          queue  : Seq(Handles),
          cap    : Nat]

\* h has an entry in q.
Has(q, h) == \E k \in 1 .. Len(q) : q[k] = h

\* StaleEntriesFirst of a queue.
StaleFirst(q) ==
  \A j, k \in 1 .. Len(q) :
    j < k /\ Index(q[j]) = Index(q[k]) => Generation(q[j]) < Generation(q[k])

(***************************************************************************)
(* The queue of the dirty state d, for nodes alive in a with generations g *)
(* when the handles s were issued: it names issued handles, those of one   *)
(* slot in the order of their generations, and the column says which nodes *)
(* it names; those need a pass.                                            *)
(***************************************************************************)
Entered(s, d) ==
  /\ \A k \in 1 .. Len(d.queue) : d.queue[k] \in s
  /\ StaleFirst(d.queue)

QueueSound(a, g, s, d) ==
  /\ Entered(s, d)
  /\ \A i \in Slots : d.queued[i] <=> a[i] /\ Has(d.queue, <<i, g[i]>>)
  /\ \A i \in Slots : d.queued[i] => Direct(d.flags[i])

\* The handles of s are no younger than their slots.
Bounded(g, s) == \A h \in s : h \in Handles /\ Generation(h) <= g[Index(h)]

-----------------------------------------------------------------------------
(* Marking.                                                                *)

\* h enters the queue, or the queue stays as it is.
Enters(d, e, h) ==
  /\ ~d.queued[Index(h)]
  /\ Direct(e.flags[Index(h)])
  /\ e.queued = [d.queued EXCEPT ![Index(h)] = TRUE]
  /\ e.queue = Append(d.queue, h)

SameQueue(d, e) == e.queued = d.queued /\ e.queue = d.queue

\* What marking writes to the flags.
Spreads(d, e, t, h, flags) ==
  \A j \in Slots :
    e.flags[j] = IF j = Index(h) THEN d.flags[j] \cup flags \cup {"self"}
                 ELSE IF OnChain(t, Index(h), j) THEN d.flags[j] \cup {"subtree"}
                 ELSE d.flags[j]

\* What xent_mark_dirty writes.
MarksIn(d, e, t, h, flags) ==
  /\ e \in Dirts
  /\ Spreads(d, e, t, h, flags)
  /\ SameQueue(d, e) \/ Enters(d, e, h)

\* Marked is one of the outcomes that MarksIn allows.
LEMMA MarkWrites ==
  ASSUME NEW d \in Dirts, NEW t, NEW h \in Handles, NEW flags \in SUBSET Flags,
         NEW e \in Marked(d, t, h, flags)
  PROVE  MarksIn(d, e, t, h, flags)
<1> DEFINE i == Index(h)
           spread == [j \in Slots |->
                        IF j = i THEN d.flags[j] \cup flags \cup {"self"}
                        ELSE IF OnChain(t, i, j) THEN d.flags[j] \cup {"subtree"}
                        ELSE d.flags[j]]
           m == [d EXCEPT !.flags = spread]
           put(cap) == [m EXCEPT !.queued[i] = TRUE, !.queue = Append(@, h), !.cap = cap]
           room == IF m.cap = 0 THEN QueueChunk ELSE 2 * m.cap
<1>1. i \in Slots
  BY HandlePair
<1>2. spread \in [Slots -> SUBSET Flags]
  BY DEF Flags, Dirts
<1>3. /\ m \in Dirts /\ m.flags = spread /\ m.queued = d.queued /\ m.queue = d.queue
  <2> HIDE DEF spread
  <2> QED BY <1>2 DEF Dirts
<1>4. room \in Nat
  BY <1>3, QueueAssumption DEF Dirts
<1>5. ASSUME NEW cap \in Nat
      PROVE  /\ put(cap) \in Dirts /\ put(cap).flags = spread
             /\ put(cap).queued = [d.queued EXCEPT ![i] = TRUE]
             /\ put(cap).queue = Append(d.queue, h)
  <2> HIDE DEF m, spread, i
  <2>1. Append(m.queue, h) \in Seq(Handles)
    BY <1>3, AppendProperties DEF Dirts
  <2>2. [m.queued EXCEPT ![i] = TRUE] \in [Slots -> BOOLEAN]
    BY <1>3 DEF Dirts
  <2> QED BY <1>3, <1>5, <2>1, <2>2 DEF Dirts
<1>6. \/ e = m
      \/ ~m.queued[i] /\ Direct(m.flags[i]) /\ \E cap \in Nat : e = put(cap)
  <2>1. e \in Queued(m, h)
    BY DEF Marked
  <2>2. m.cap \in Nat
    BY <1>3 DEF Dirts
  <2> HIDE DEF m
  <2> QED BY <1>4, <2>1, <2>2 DEF Queued
<1>7. e.flags = spread => Spreads(d, e, t, h, flags)
  BY DEF Spreads
<1> HIDE DEF put, m, spread
<1>8. CASE e = m
  BY <1>8, <1>3, <1>7 DEF MarksIn, SameQueue
<1>9. ASSUME ~m.queued[i], Direct(m.flags[i]), NEW cap \in Nat, e = put(cap) PROVE MarksIn(d, e, t, h, flags)
  BY <1>9, <1>3, <1>5, <1>7 DEF MarksIn, Enters
<1> QED BY <1>6, <1>8, <1>9

\* A live node that enters gets the last entry of its slot.
LEMMA MarkKeepsQueue ==
  ASSUME NEW a \in [Slots -> BOOLEAN], NEW g, NEW s, Bounded(g, s), NEW d \in Dirts, QueueSound(a, g, s, d),
         NEW h \in s, a[Index(h)], g[Index(h)] = Generation(h), NEW e, NEW t, NEW flags, MarksIn(d, e, t, h, flags)
  PROVE  QueueSound(a, g, s, e)
<1> DEFINE i == Index(h)
           q == d.queue
           n == Len(q)
<1>1. i \in Slots /\ h \in Handles /\ h = <<i, g[i]>>
  BY HandlePair DEF Bounded
<1>2. \A j \in Slots : Direct(d.flags[j]) => Direct(e.flags[j])
  BY DEF MarksIn, Spreads, Direct
<1>3. CASE SameQueue(d, e)
  BY <1>2, <1>3 DEF QueueSound, Entered, SameQueue
<1>4. CASE Enters(d, e, h)
  <2>1. /\ q \in Seq(Handles) /\ n \in Nat /\ d.queued \in [Slots -> BOOLEAN]
    BY LenProperties DEF Dirts
  <2>2. /\ Len(e.queue) = n + 1 /\ e.queue[n + 1] = h
        /\ \A k \in 1 .. n : e.queue[k] = q[k] /\ q[k] \in Handles
    BY <1>1, <1>4, <2>1, AppendProperties, ElementOfSeq DEF Enters
  <2>3. /\ e.queued[i] = TRUE
        /\ \A j \in Slots : j # i => e.queued[j] = d.queued[j]
    BY <1>1, <1>4, <2>1 DEF Enters
  <2>4. ~Has(q, h)
    BY <1>1, <1>4 DEF QueueSound, Enters
  <2> HIDE DEF i, n, q
  <2>5. \A x : Has(e.queue, x) <=> Has(q, x) \/ x = h
    <3>1. \A k \in 1 .. n + 1 : k \in 1 .. n \/ k = n + 1
      BY <2>1
    <3>2. 1 .. n \in SUBSET (1 .. n + 1) /\ n + 1 \in 1 .. n + 1
      BY <2>1
    <3> QED BY <2>2, <3>1, <3>2 DEF Has, n
  <2>6. Entered(s, e)
    <3>1. \A k \in 1 .. Len(e.queue) : e.queue[k] \in s
      <4>1. \A k \in 1 .. n + 1 : k \in 1 .. n \/ k = n + 1
        BY <2>1
      <4> QED BY <2>2, <4>1 DEF QueueSound, Entered, n, q
    <3>2. ASSUME NEW j \in 1 .. Len(e.queue), NEW k \in 1 .. Len(e.queue),
                 j < k, Index(e.queue[j]) = Index(e.queue[k])
          PROVE  Generation(e.queue[j]) < Generation(e.queue[k])
      <4>1. j \in 1 .. n
        BY <2>1, <2>2, <3>2
      <4>2. CASE k \in 1 .. n
        BY <2>2, <3>2, <4>1, <4>2 DEF QueueSound, Entered, StaleFirst, n, q
      <4>3. CASE k = n + 1
        <5>1. q[j] \in s /\ q[j] \in Handles /\ q[j] # h /\ Index(q[j]) = i
          BY <2>2, <2>4, <3>2, <4>1, <4>3 DEF QueueSound, Entered, Has, n, q, i
        <5>2. Generation(q[j]) <= g[i] /\ Generation(q[j]) # g[i]
          BY <1>1, <5>1, HandlePair DEF Bounded
        <5>3. Generation(q[j]) \in Int /\ Generation(h) \in Int
          BY <1>1, <5>1, HandlePair DEF Generations
        <5> QED BY <2>2, <4>1, <4>3, <5>2, <5>3 DEF i
      <4> QED BY <2>1, <2>2, <4>2, <4>3
    <3> QED BY <3>1, <3>2 DEF Entered, StaleFirst
  <2>7. ASSUME NEW j \in Slots PROVE e.queued[j] <=> a[j] /\ Has(e.queue, <<j, g[j]>>)
    <3>1. CASE j = i
      BY <1>1, <2>3, <2>5, <3>1 DEF i
    <3>2. CASE j # i
      <4>1. <<j, g[j]>> # h
        BY <1>1, <3>2
      <4>2. d.queued[j] <=> a[j] /\ Has(q, <<j, g[j]>>)
        BY DEF QueueSound, q
      <4> QED BY <2>3, <2>5, <3>2, <4>1, <4>2
    <3> QED BY <3>1, <3>2
  <2>8. ASSUME NEW j \in Slots, e.queued[j] PROVE Direct(e.flags[j])
    <3>1. CASE j = i
      BY <1>4, <3>1 DEF Enters, i
    <3>2. CASE j # i
      BY <1>2, <2>3, <2>8, <3>2 DEF QueueSound
    <3> QED BY <3>1, <3>2
  <2> QED BY <2>6, <2>7, <2>8 DEF QueueSound
<1> QED BY <1>3, <1>4 DEF MarksIn

-----------------------------------------------------------------------------
(* Compacting.                                                             *)

\* Where the entries of slot i stand in q.
Entries(q, i) == {k \in 1 .. Len(q) : Index(q[k]) = i}

\* The entry whose test the loop leaves in dirty_queued.
LastEntry(q, i) == CHOOSE k \in Entries(q, i) : \A m \in Entries(q, i) : m <= k

\* There is one if the slot has any entry.
LEMMA LastEntryIs ==
  ASSUME NEW q \in Seq(Handles), NEW i, Entries(q, i) # {}
  PROVE  /\ LastEntry(q, i) \in Entries(q, i)
         /\ \A m \in Entries(q, i) : m <= LastEntry(q, i)
<1>1. Len(q) \in Nat /\ Entries(q, i) \in SUBSET (0 .. Len(q))
  BY LenProperties DEF Entries
<1>2. \E k \in Entries(q, i) : \A m \in Entries(q, i) : m <= k
  BY <1>1, GreatestNumber
<1> QED BY <1>2 DEF LastEntry

\* A live node with an entry has the last one of its slot.
LEMMA LastIsCurrent ==
  ASSUME NEW g, NEW s, Bounded(g, s), NEW d \in Dirts, Entered(s, d),
         NEW i \in Slots, Has(d.queue, <<i, g[i]>>)
  PROVE  /\ LastEntry(d.queue, i) \in Entries(d.queue, i)
         /\ d.queue[LastEntry(d.queue, i)] = <<i, g[i]>>
<1> DEFINE q == d.queue
           l == LastEntry(q, i)
<1>1. q \in Seq(Handles) /\ Len(q) \in Nat
  BY LenProperties DEF Dirts
<1>2. PICK k \in 1 .. Len(q) : q[k] = <<i, g[i]>>
  BY DEF Has
<1>3. k \in Entries(q, i) /\ q[k] \in s
  BY <1>2 DEF Entries, Entered, Index
<1>4. l \in Entries(q, i) /\ k <= l
  BY <1>1, <1>3, LastEntryIs
<1> HIDE DEF l
<1>5. l \in 1 .. Len(q) /\ Index(q[l]) = i /\ q[l] \in s
  BY <1>4 DEF Entries, Entered
<1>6. q[l] \in Handles /\ Generation(q[l]) <= g[i] /\ q[k] \in Handles
  BY <1>3, <1>5 DEF Bounded
<1>7. CASE k = l
  BY <1>2, <1>4, <1>7 DEF l
<1>8. CASE k < l
  <2>1. Generation(q[k]) < Generation(q[l])
    BY <1>2, <1>5, <1>8 DEF Entered, StaleFirst, Index
  <2>2. Generation(q[k]) = g[i] /\ Generation(q[k]) \in Int /\ Generation(q[l]) \in Int
    BY <1>2, <1>6, HandlePair DEF Generation, Generations
  <2> QED BY <1>6, <2>1, <2>2
<1> QED BY <1>1, <1>4, <1>5, <1>7, <1>8

(***************************************************************************)
(* Compacting makes the queue sound, even when nodes that have an entry    *)
(* are no longer marked as queued, and drops no node that needs a pass.    *)
(***************************************************************************)
LEMMA CompactSound ==
  ASSUME Bounded(generation, issued), NEW d \in Dirts, Entered(issued, d),
         \A i \in Slots : d.queued[i] => Has(d.queue, <<i, generation[i]>>)
  PROVE  /\ Compacted(d) \in Dirts
         /\ Compacted(d).flags = d.flags
         /\ QueueSound(alive, generation, issued, Compacted(d))
         /\ \A i \in Slots :
              alive[i] /\ Direct(d.flags[i]) /\ Has(d.queue, <<i, generation[i]>>)
                => Compacted(d).queued[i]
<1> DEFINE q == d.queue
           keep == {h \in Handles : Kept(d, h)}
           f == Filtered(q, keep)
           e == Compacted(d)
           column == [i \in Slots |-> IF Entries(q, i) = {} THEN d.queued[i]
                                      ELSE Kept(d, q[LastEntry(q, i)])]
<1>1. q \in Seq(Handles) /\ Len(q) \in Nat /\ \A k \in 1 .. Len(q) : q[k] \in Handles
  BY LenProperties, ElementOfSeq DEF Dirts
<1>2. f \in Seq(Handles) /\ Len(f) \in Nat
  <2>1. f \in Seq(Handles \cap keep)
    BY <1>1, FilterType
  <2>2. Handles \cap keep \in SUBSET Handles
    OBVIOUS
  <2> HIDE DEF f, keep
  <2>3. f \in Seq(Handles)
    BY <2>1, <2>2
  <2> QED BY <2>3, LenProperties
<1>3. PICK m \in Places(q, keep, Len(q), f) : TRUE
  BY <1>1, FilterPlaces
<1>4. /\ \A j \in 1 .. Len(f) : m[j] \in 1 .. Len(q) /\ f[j] = q[m[j]] /\ f[j] \in keep
      /\ \A j, k \in 1 .. Len(f) : j < k => m[j] < m[k]
      /\ \A a \in 1 .. Len(q) : q[a] \in keep => \E j \in 1 .. Len(f) : m[j] = a
  <2> HIDE DEF f, keep, q
  <2> QED BY <1>3 DEF Places
<1>5. column \in [Slots -> BOOLEAN]
  BY DEF Dirts, Kept
<1>6. e = [d EXCEPT !.queue = f, !.queued = column]
  BY DEF Compacted, KeptEntries, Entries, LastEntry
<1> HIDE DEF f, column, e
<1>7. e \in Dirts /\ e.flags = d.flags /\ e.queue = f /\ e.queued = column
  BY <1>2, <1>5, <1>6 DEF Dirts
<1>8. \A x : Has(f, x) <=> Has(q, x) /\ x \in keep
  <2> HIDE DEF q, keep
  <2> QED BY <1>4 DEF Has
<1>9. Entered(issued, e)
  <2>1. \A j \in 1 .. Len(f) : f[j] \in issued
    BY <1>4 DEF Entered
  <2>2. StaleFirst(f)
    <3> HIDE DEF q, keep
    <3> SUFFICES ASSUME NEW j \in 1 .. Len(f), NEW k \in 1 .. Len(f),
                        j < k, Index(f[j]) = Index(f[k])
                 PROVE  Generation(f[j]) < Generation(f[k])
      BY DEF StaleFirst
    <3>1. /\ m[j] \in 1 .. Len(q) /\ m[k] \in 1 .. Len(q) /\ m[j] < m[k]
          /\ f[j] = q[m[j]] /\ f[k] = q[m[k]]
      BY <1>4
    <3>2. StaleFirst(q)
      BY DEF Entered, q
    <3> QED BY <3>1, <3>2 DEF StaleFirst
  <2> QED BY <1>7, <2>1, <2>2 DEF Entered
<1>10. ASSUME NEW i \in Slots
       PROVE  /\ e.queued[i] <=> alive[i] /\ Has(f, <<i, generation[i]>>)
              /\ e.queued[i] => Direct(d.flags[i])
              /\ alive[i] /\ Direct(d.flags[i]) /\ Has(q, <<i, generation[i]>>) => e.queued[i]
  <2> DEFINE h == <<i, generation[i]>>
             l == LastEntry(q, i)
  <2>0. Index(h) = i /\ Generation(h) = generation[i]
    BY DEF Index, Generation
  <2>1. CASE Entries(q, i) = {}
    <3>1. ~Has(q, h)
      BY <2>0, <2>1 DEF Has, Entries
    <3>2. ~d.queued[i]
      BY <3>1
    <3>3. ~e.queued[i]
      BY <1>7, <2>1, <3>2 DEF column
    <3> QED BY <1>8, <3>1, <3>3
  <2>2. CASE Entries(q, i) # {}
    <3>1. l \in Entries(q, i)
      BY <1>1, <2>2, LastEntryIs
    <3>2. l \in 1 .. Len(q) /\ Index(q[l]) = i /\ q[l] \in Handles
      BY <1>1, <3>1 DEF Entries
    <3>3. e.queued[i] <=> Kept(d, q[l])
      BY <1>7, <2>2 DEF column
    <3>4. Has(q, h) => q[l] = h
      BY LastIsCurrent
    <3> HIDE DEF l
    <3>5. Kept(d, q[l]) <=> alive[i] /\ q[l] = h /\ Direct(d.flags[i])
      BY <2>0, <3>2, HandlePair DEF Kept, Live
    <3>6. q[l] = h => Has(q, h) /\ h \in Handles
      BY <3>2 DEF Has
    <3>7. h \in Handles => (h \in keep <=> alive[i] /\ Direct(d.flags[i]))
      BY <2>0 DEF Kept, Live
    <3>8. Has(f, h) <=> Has(q, h) /\ h \in keep
      BY <1>8
    <3>9. h \in keep => h \in Handles
      OBVIOUS
    <3> HIDE DEF h, keep
    <3> QED BY <3>3, <3>4, <3>5, <3>6, <3>7, <3>8, <3>9 DEF h
  <2> QED BY <2>1, <2>2
<1> QED BY <1>7, <1>9, <1>10 DEF QueueSound, e

-----------------------------------------------------------------------------
(* What the ancestors know.                                                *)

\* As AncestorsKnow, of all ancestors but those in T.
KnowsBut(a, t, flags, T) ==
  \A i, j \in Slots :
    /\ a[i]
    /\ Direct(flags[i])
    /\ i # j
    /\ OnChain(t, i, j)
    /\ j \notin T
    => "subtree" \in flags[j]

\* A dirty state d fits slots and tree, but that the nodes in T need not know.
DirtySound(a, g, s, t, T, d) ==
  /\ d \in Dirts
  /\ QueueSound(a, g, s, d)
  /\ KnowsBut(a, t, d.flags, T)

\* Nobody leaves the queue.
StaysQueued(d, e) == \A i \in Slots : d.queued[i] => e.queued[i]

\* Above what is above a slot is above the slot.
LEMMA ChainTransitive ==
  \A t, i, j, k : OnChain(t, i, j) /\ OnChain(t, j, k) => OnChain(t, i, k)
BY DEF OnChain

\* When c is hung below p, the slots above a slot are those that were there
\* before and those from p upwards.
LEMMA ChainHung ==
  ASSUME NEW t, NEW u, NEW c, Cut(u, t, c), NEW i, NEW j, OnChain(u, i, j),
         ~OnChain(u, Index(u.parent[c]), j)
  PROVE  OnChain(t, i, j)
<1> SUFFICES ASSUME NEW S \in SUBSET Slots, i \in S, UpClosed(t, S) PROVE j \in S
  BY DEF OnChain
<1>1. PICK T \in SUBSET Slots : Index(u.parent[c]) \in T /\ UpClosed(u, T) /\ j \notin T
  BY DEF OnChain
<1>2. UpClosed(u, S \cup T)
  BY <1>1 DEF UpClosed, Cut
<1>3. j \in S \cup T
  BY <1>2 DEF OnChain
<1> QED BY <1>1, <1>3

\* Marking a node tells its ancestors, and takes nothing back.
LEMMA MarkTells ==
  ASSUME NEW a, NEW t, NEW T, NEW d \in Dirts, NEW h \in Handles, NEW flags \in SUBSET Flags,
         NEW e, Spreads(d, e, t, h, flags), KnowsBut(a, t, d.flags, T)
  PROVE  /\ KnowsBut(a, t, e.flags, T)
         /\ "subtree" \in flags /\ (\A j \in T : OnChain(t, Index(h), j)) => KnowsBut(a, t, e.flags, {})
<1>1. \A j \in Slots : d.flags[j] \subseteq e.flags[j]
  BY DEF Spreads
<1>2. \A j \in Slots : j # Index(h) /\ OnChain(t, Index(h), j) => "subtree" \in e.flags[j]
  BY DEF Spreads
<1>3. \A i \in Slots : i # Index(h) /\ Direct(e.flags[i]) => Direct(d.flags[i])
  BY DEF Spreads, Direct
<1>4. "subtree" \in flags => "subtree" \in e.flags[Index(h)]
  BY HandlePair DEF Spreads
<1>5. \A i, j \in Slots : /\ a[i] /\ Direct(e.flags[i]) /\ i # j /\ OnChain(t, i, j)
                          /\ "subtree" \notin e.flags[j]
                          => j \in T /\ i # Index(h)
  BY <1>1, <1>2, <1>3 DEF KnowsBut
<1>6. KnowsBut(a, t, e.flags, T)
  BY <1>5 DEF KnowsBut
<1>7. ASSUME "subtree" \in flags, \A j \in T : OnChain(t, Index(h), j)
      PROVE  KnowsBut(a, t, e.flags, {})
  BY <1>2, <1>4, <1>5, <1>7 DEF KnowsBut
<1> QED BY <1>6, <1>7

\* Marking a live node keeps the dirty state sound; marking the node that T
\* lies above, with SUBTREE, lets T know.
LEMMA MarkSound ==
  ASSUME NEW a \in [Slots -> BOOLEAN], NEW g, NEW s, Bounded(g, s), NEW t, NEW T, NEW d,
         DirtySound(a, g, s, t, T, d),
         NEW h \in s, a[Index(h)], g[Index(h)] = Generation(h), NEW flags \in SUBSET Flags,
         NEW e \in Marked(d, t, h, flags)
  PROVE  /\ DirtySound(a, g, s, t, T, e)
         /\ StaysQueued(d, e)
         /\ "subtree" \in flags /\ (\A j \in T : OnChain(t, Index(h), j)) => DirtySound(a, g, s, t, {}, e)
<1>1. h \in Handles /\ d \in Dirts
  BY DEF Bounded, DirtySound
<1>2. MarksIn(d, e, t, h, flags)
  BY <1>1, MarkWrites
<1>3. QueueSound(a, g, s, e)
  BY <1>1, <1>2, MarkKeepsQueue DEF DirtySound
<1>4. e \in Dirts /\ Spreads(d, e, t, h, flags)
  BY <1>2 DEF MarksIn
<1>5. StaysQueued(d, e)
  BY <1>1, <1>2 DEF MarksIn, SameQueue, Enters, StaysQueued, Dirts
<1> QED BY <1>1, <1>3, <1>4, <1>5, MarkTells DEF DirtySound

-----------------------------------------------------------------------------
(* The steps.                                                              *)

(***************************************************************************)
(* The inductive invariant: beside the properties of the queue and of the  *)
(* ancestors it says that a queued node needs a pass (a compaction would   *)
(* drop it otherwise) and that an entry is no younger than its slot (the   *)
(* entry of the slot's node is then its last).                             *)
(***************************************************************************)
DirtyInv ==
  /\ TreeInv
  /\ DirtySound(alive, generation, issued, topo, {}, dirt)

\* What OnlyPassesDequeue says of a step.
Dequeues ==
  \A i \in Slots :
    dirt.queued[i] /\ alive[i] /\ alive'[i] /\ ~dirt'.queued[i] => dirt'.flags[i] = {}

LEMMA StaysIsEnough == ASSUME StaysQueued(dirt, dirt') PROVE Dequeues
BY DEF StaysQueued, Dequeues

LEMMA IssuedBound == SlotsInv => Bounded(generation, issued)
BY DEF SlotsInv, SlotsTypeOK, IssuedBounded, Bounded

LEMMA TreeFacts ==
  ASSUME TreeInv
  PROVE  /\ LinksInv /\ SlotsInv /\ topo \in Columns /\ alive \in [Slots -> BOOLEAN]
         /\ issued \in SUBSET Handles /\ Forest(topo)
         /\ Bounded(generation, issued)
BY IssuedBound DEF TreeInv, LinksInv, SlotsInv, SlotsTypeOK

\* A node a link of the tree names may be marked.
LEMMA LiveMarkable ==
  ASSUME TreeInv, NEW h \in Link, Live(h)
  PROVE  h \in issued /\ alive[Index(h)] /\ generation[Index(h)] = Generation(h) /\ Index(h) \in Slots
BY LiveLink DEF TreeInv, Live

LEMMA DirtyStepsAreTreeSteps == [DirtyNext]_dirtyVars => [TreeNext]_treeVars
<1> SUFFICES ASSUME [DirtyNext]_dirtyVars PROVE [TreeNext]_treeVars
  OBVIOUS
<1>1. CASE UNCHANGED dirtyVars
  BY <1>1 DEF dirtyVars, treeVars
<1>2. CASE DirtyCreate
  BY <1>2 DEF DirtyCreate, TreeNext
<1>3. ASSUME NEW p \in LiveHandles, NEW c \in LiveHandles, DirtyRemove(p, c) PROVE TreeNext
  BY <1>3 DEF DirtyRemove, TreeNext
<1>4. ASSUME NEW p \in LiveHandles, NEW c \in LiveHandles, DirtyPlace(p, c, Null, "any") PROVE TreeNext
  BY <1>4 DEF DirtyPlace, NodeAppend, TreeNext
<1>5. ASSUME NEW p \in LiveHandles, NEW c \in LiveHandles, NEW b \in LiveHandles \cup {Null},
             NEW mode \in {"insert", "move", "reparent"}, DirtyPlace(p, c, b, mode)
      PROVE  TreeNext
  <2>1. PlaceBefore(p, c, b, mode)
    BY <1>5 DEF DirtyPlace
  <2>2. NodeInsert(p, c, b) \/ NodeMove(p, c, b) \/ NodeReparent(p, c, b)
    BY <2>1 DEF NodeInsert, NodeMove, NodeReparent
  <2> QED BY <2>2 DEF TreeNext
<1>6. ASSUME NEW h \in issued, DirtyDestroyBegin(h) PROVE TreeNext
  BY <1>6 DEF DirtyDestroyBegin, TreeNext
<1>7. ASSUME NEW h \in issued, NEW marks, SetColumn(h, marks) PROVE UNCHANGED treeVars
  BY <1>7 DEF SetColumn
<1>8. CASE DirtyWalkStep
  BY <1>8 DEF DirtyWalkStep, DirtyVisit, WalkStep, TreeNext
<1>9. CASE InvalidateAll
  BY <1>9 DEF InvalidateAll
<1>10. ASSUME NEW roots, LayoutPass(roots) PROVE UNCHANGED treeVars
  BY <1>10 DEF LayoutPass
<1>11. CASE LayoutFailure
  BY <1>11 DEF LayoutFailure
<1> QED
  BY <1>1, <1>2, <1>3, <1>4, <1>5, <1>6, <1>7, <1>8, <1>9, <1>10, <1>11 DEF DirtyNext

LEMMA DirtyInvInit == DirtyInit => DirtyInv
<1> SUFFICES ASSUME DirtyInit PROVE DirtyInv
  OBVIOUS
<1>1. TreeInv
  BY TreeInvInit DEF DirtyInit
<1>2. /\ dirt.flags = [i \in Slots |-> {}] /\ dirt.queued = [i \in Slots |-> FALSE]
      /\ dirt.queue = <<>> /\ dirt \in Dirts /\ Len(dirt.queue) = 0
  BY DEF DirtyInit, Dirts
<1>3. QueueSound(alive, generation, issued, dirt)
  BY <1>2 DEF QueueSound, Entered, StaleFirst, Has
<1>4. KnowsBut(alive, topo, dirt.flags, {})
  BY <1>2 DEF KnowsBut, Direct
<1> QED BY <1>1, <1>2, <1>3, <1>4 DEF DirtyInv, DirtySound

LEMMA SetColumnSound ==
  ASSUME DirtyInv, TreeInv', NEW h \in issued, NEW flags \in SUBSET Flags, SetColumn(h, flags)
  PROVE  DirtyInv' /\ Dequeues
<1>1. UNCHANGED <<alive, generation, issued, topo>> /\ Live(h) /\ dirt' \in Marked(dirt, topo, h, flags)
  BY DEF SetColumn, treeVars
<1>2. /\ alive \in [Slots -> BOOLEAN] /\ Bounded(generation, issued)
      /\ alive[Index(h)] /\ generation[Index(h)] = Generation(h)
  BY <1>1, TreeFacts DEF DirtyInv, Live
<1>3. DirtySound(alive, generation, issued, topo, {}, dirt') /\ StaysQueued(dirt, dirt')
  BY <1>1, <1>2, MarkSound DEF DirtyInv
<1> QED BY <1>1, <1>3, StaysIsEnough DEF DirtyInv

LEMMA InvalidateAllSound == ASSUME DirtyInv, TreeInv', InvalidateAll PROVE DirtyInv' /\ Dequeues
<1>1. /\ UNCHANGED <<alive, generation, issued, topo>>
      /\ dirt' = [dirt EXCEPT !.flags = [i \in Slots |-> IF alive[i] THEN Flags ELSE dirt.flags[i]]]
  BY DEF InvalidateAll, treeVars
<1>2. dirt \in Dirts /\ QueueSound(alive, generation, issued, dirt)
  BY DEF DirtyInv, DirtySound
<1>3. /\ dirt' \in Dirts /\ dirt'.queue = dirt.queue /\ dirt'.queued = dirt.queued
      /\ \A i \in Slots : dirt'.flags[i] = IF alive[i] THEN Flags ELSE dirt.flags[i]
  BY <1>1, <1>2 DEF Dirts
<1>4. QueueSound(alive, generation, issued, dirt')
  BY <1>2, <1>3 DEF QueueSound, Entered, Direct, Flags
<1>5. KnowsBut(alive, topo, dirt'.flags, {})
  <2>1. {i \in Slots : alive[i]} \in SUBSET Slots /\ UpClosed(topo, {i \in Slots : alive[i]})
    BY LiveNode DEF DirtyInv, TreeInv, AllLive, ColumnLive, UpClosed, Live
  <2>2. \A i, j \in Slots : alive[i] /\ OnChain(topo, i, j) => alive[j]
    BY <2>1 DEF OnChain
  <2> QED BY <1>3, <2>2 DEF KnowsBut, Flags
<1>6. StaysQueued(dirt, dirt')
  BY <1>3 DEF StaysQueued
<1> QED BY <1>1, <1>3, <1>4, <1>5, <1>6, StaysIsEnough DEF DirtyInv, DirtySound

LEMMA LayoutFailureSound == ASSUME DirtyInv, TreeInv', LayoutFailure PROVE DirtyInv' /\ Dequeues
<1>1. UNCHANGED <<alive, generation, issued, topo>> /\ dirt' = Compacted(dirt)
  BY DEF LayoutFailure, treeVars
<1>2. dirt \in Dirts /\ QueueSound(alive, generation, issued, dirt) /\ Bounded(generation, issued)
  BY TreeFacts DEF DirtyInv, DirtySound
<1>3. /\ dirt' \in Dirts /\ dirt'.flags = dirt.flags
      /\ QueueSound(alive, generation, issued, dirt')
      /\ \A i \in Slots :
           alive[i] /\ Direct(dirt.flags[i]) /\ Has(dirt.queue, <<i, generation[i]>>) => dirt'.queued[i]
  BY <1>1, <1>2, CompactSound DEF QueueSound
<1>4. StaysQueued(dirt, dirt')
  BY <1>2, <1>3 DEF QueueSound, StaysQueued
<1> QED BY <1>1, <1>3, <1>4, StaysIsEnough DEF DirtyInv, DirtySound

\* The nodes that a pass clears have their subtrees cleared with them.
LEMMA ClearedDownwards ==
  ASSUME TreeInv, NEW roots, NEW i \in Slots, alive[i], NEW j, OnChain(topo, i, j),
         NEW h \in UNION {Subtree(r) : r \in roots}, Index(h) = j
  PROVE  \E g \in UNION {Subtree(r) : r \in roots} : Index(g) = i
<1>1. PICK r \in roots : h \in Subtree(r)
  OBVIOUS
<1>2. OnChain(topo, i, Index(r))
  BY <1>1, ChainTransitive DEF Subtree
<1> DEFINE g == <<i, generation[i]>>
<1>3. g \in issued /\ Live(g) /\ Index(g) = i
  BY DEF TreeInv, LinksInv, SlotsInv, LiveIssued, Live, Index, Generation
<1>4. g \in Subtree(r)
  BY <1>2, <1>3 DEF Subtree, LiveHandles
<1> QED BY <1>3, <1>4

LEMMA LayoutPassSound ==
  ASSUME DirtyInv, TreeInv', NEW roots, LayoutPass(roots)
  PROVE  DirtyInv' /\ Dequeues
<1> DEFINE work == UNION {Subtree(r) : r \in roots}
           slots == {Index(h) : h \in work}
           d == Compacted(dirt)
           e == [d EXCEPT !.flags = [i \in Slots |-> IF i \in slots THEN {} ELSE d.flags[i]],
                          !.queued = [i \in Slots |-> i \notin slots /\ d.queued[i]]]
           f == Compacted(e)
<1>1. UNCHANGED <<alive, generation, issued, topo>> /\ dirt' = f
  BY DEF LayoutPass, Cleared, treeVars
<1>2. /\ dirt \in Dirts /\ QueueSound(alive, generation, issued, dirt) /\ Bounded(generation, issued)
      /\ KnowsBut(alive, topo, dirt.flags, {})
  BY TreeFacts DEF DirtyInv, DirtySound
<1>3. /\ d \in Dirts /\ d.flags = dirt.flags
      /\ QueueSound(alive, generation, issued, d)
      /\ \A i \in Slots :
           alive[i] /\ Direct(dirt.flags[i]) /\ Has(dirt.queue, <<i, generation[i]>>) => d.queued[i]
  <2> HIDE DEF d
  <2> QED BY <1>2, CompactSound DEF QueueSound, d
<1> HIDE DEF d, slots
<1>4. /\ e \in Dirts /\ e.queue = d.queue
      /\ \A i \in Slots : /\ e.flags[i] = IF i \in slots THEN {} ELSE dirt.flags[i]
                          /\ e.queued[i] <=> i \notin slots /\ d.queued[i]
  BY <1>3 DEF Dirts
<1> HIDE DEF e
<1>5. /\ Entered(issued, e)
      /\ \A i \in Slots : e.queued[i] => Has(e.queue, <<i, generation[i]>>)
  BY <1>3, <1>4 DEF QueueSound, Entered
<1>6. /\ f \in Dirts /\ f.flags = e.flags
      /\ QueueSound(alive, generation, issued, f)
      /\ \A i \in Slots :
           alive[i] /\ Direct(e.flags[i]) /\ Has(e.queue, <<i, generation[i]>>) => f.queued[i]
  <2> HIDE DEF f
  <2> QED BY <1>2, <1>4, <1>5, CompactSound DEF f
<1> HIDE DEF f
<1>7. KnowsBut(alive, topo, f.flags, {})
  <2> SUFFICES ASSUME NEW i \in Slots, NEW j \in Slots,
                      alive[i], Direct(f.flags[i]), i # j, OnChain(topo, i, j)
               PROVE  "subtree" \in f.flags[j]
    BY DEF KnowsBut
  <2>1. i \notin slots /\ Direct(dirt.flags[i])
    BY <1>4, <1>6 DEF Direct
  <2>2. j \notin slots
    BY <2>1, ClearedDownwards DEF slots, DirtyInv
  <2>3. "subtree" \in dirt.flags[j]
    BY <1>2, <2>1 DEF KnowsBut
  <2> QED BY <1>4, <1>6, <2>2, <2>3
<1>8. Dequeues
  <2> SUFFICES ASSUME NEW i \in Slots, dirt.queued[i], alive[i], ~f.queued[i], i \notin slots
               PROVE  FALSE
    BY <1>1, <1>4, <1>6 DEF Dequeues
  <2>1. Direct(dirt.flags[i]) /\ Has(dirt.queue, <<i, generation[i]>>)
    BY <1>2 DEF QueueSound
  <2>2. d.queued[i]
    BY <1>3, <2>1
  <2>3. Has(e.queue, <<i, generation[i]>>) /\ Direct(e.flags[i])
    BY <1>3, <1>4, <2>1, <2>2 DEF QueueSound
  <2> QED BY <1>6, <2>3
<1> QED BY <1>1, <1>6, <1>7, <1>8 DEF DirtyInv, DirtySound

\* Cutting a node off leaves its old ancestors knowing more than they must.
LEMMA CutKnows ==
  ASSUME NEW a, NEW t, NEW u, NEW n, Cut(t, u, n), NEW flags, NEW T, KnowsBut(a, t, flags, T)
  PROVE  KnowsBut(a, u, flags, T)
BY ChainCut DEF KnowsBut

\* A topology call ends by marking the parent whose ancestors, T, may not know yet.
LEMMA SameSlotsSound ==
  ASSUME DirtyInv, TreeInv', UNCHANGED slotVars, NEW T,
         NEW h \in Link, Live(h), \A j \in T : OnChain(topo', Index(h), j),
         NEW d, DirtySound(alive, generation, issued, topo', T, d), StaysQueued(dirt, d),
         dirt' \in Marked(d, topo', h, ParentMarks)
  PROVE  DirtyInv' /\ Dequeues
<1>1. /\ h \in issued /\ alive[Index(h)] /\ generation[Index(h)] = Generation(h)
      /\ alive \in [Slots -> BOOLEAN] /\ Bounded(generation, issued)
  BY LiveMarkable, TreeFacts DEF DirtyInv
<1>2. ParentMarks \in SUBSET Flags /\ "subtree" \in ParentMarks
  BY DEF ParentMarks, Flags
<1>3. DirtySound(alive, generation, issued, topo', {}, dirt') /\ StaysQueued(d, dirt')
  BY <1>1, <1>2, MarkSound
<1>4. StaysQueued(dirt, dirt')
  BY <1>3 DEF StaysQueued
<1> QED BY <1>3, <1>4, StaysIsEnough DEF DirtyInv, slotVars

LEMMA RemoveSound ==
  ASSUME DirtyInv, TreeInv', NEW p \in LiveHandles, NEW c \in LiveHandles, DirtyRemove(p, c)
  PROVE  DirtyInv' /\ Dequeues
<1>1. /\ topo.parent[Index(c)] = p /\ topo' = Unlink(topo, Index(p), Index(c))
      /\ UNCHANGED slotVars /\ Live(p) /\ Live(c)
      /\ dirt' \in Marked(dirt, topo', p, ParentMarks)
  BY DEF DirtyRemove, NodeRemove
<1>2. Index(c) \in Slots /\ p # Null /\ p \in Link /\ LinksInv
  BY <1>1, LiveNode, TreeFacts DEF LiveHandles, Link, DirtyInv
<1>3. topo' = Loose(Index(c))
  BY <1>1, <1>2 DEF Loose
<1>4. Cut(topo, topo', Index(c))
  BY <1>2, <1>3, LooseTree DEF DirtyInv, TreeInv
<1>5. KnowsBut(alive, topo', dirt.flags, {}) /\ DirtySound(alive, generation, issued, topo', {}, dirt)
  BY <1>4, CutKnows DEF DirtyInv, DirtySound
<1>6. StaysQueued(dirt, dirt)
  BY DEF StaysQueued
<1> QED BY <1>1, <1>2, <1>5, <1>6, SameSlotsSound

LEMMA DestroyBeginSound ==
  ASSUME DirtyInv, TreeInv', NEW h \in issued, DirtyDestroyBegin(h)
  PROVE  DirtyInv' /\ Dequeues
<1> DEFINE i == Index(h)
           p == topo.parent[i]
<1>1. /\ topo' = Loose(i) /\ Live(h) /\ UNCHANGED slotVars
      /\ dirt' \in IF p = Null THEN {dirt} ELSE Marked(dirt, topo', p, ParentMarks)
  BY DEF DirtyDestroyBegin, DestroyBegin, Loose
<1>2. i \in Slots /\ p \in Link /\ LinksInv /\ (p # Null => Live(p))
  BY <1>1, LiveNode, TreeFacts, ColumnsSpotted DEF DirtyInv, TreeInv, AllLive, ColumnLive
<1>3. Cut(topo, topo', i)
  BY <1>1, <1>2, LooseTree DEF DirtyInv, TreeInv
<1>4. KnowsBut(alive, topo', dirt.flags, {}) /\ DirtySound(alive, generation, issued, topo', {}, dirt)
  BY <1>3, CutKnows DEF DirtyInv, DirtySound
<1>5. StaysQueued(dirt, dirt)
  BY DEF StaysQueued
<1>6. CASE p = Null
  BY <1>1, <1>4, <1>5, <1>6, StaysIsEnough DEF DirtyInv, slotVars
<1>7. CASE p # Null
  BY <1>1, <1>2, <1>4, <1>5, <1>7, SameSlotsSound
<1> QED BY <1>6, <1>7

LEMMA PlaceSound ==
  ASSUME DirtyInv, TreeInv', NEW p \in LiveHandles, NEW c \in LiveHandles, NEW b, NEW mode,
         DirtyPlace(p, c, b, mode)
  PROVE  DirtyInv' /\ Dequeues
<1> DEFINE j == Index(c)
           old == topo.parent[j]
           u == Loose(j)
           T == {k \in Slots : OnChain(topo', Index(p), k)}
<1>1. /\ topo' = LinkBefore(u, p, c, b) /\ UNCHANGED slotVars /\ Live(p) /\ Live(c)
  BY DEF DirtyPlace, PlaceBefore, Loose
<1>2. PICK d \in IF old \in {Null, p} THEN {dirt} ELSE Marked(dirt, topo', old, ParentMarks) :
        dirt' \in Marked(d, topo', p, ParentMarks)
  BY DEF DirtyPlace
<1>3. /\ j \in Slots /\ p \in Link /\ LinksInv /\ old \in Link /\ (old # Null => Live(old))
      /\ alive \in [Slots -> BOOLEAN] /\ Bounded(generation, issued)
  BY <1>1, LiveNode, TreeFacts, ColumnsSpotted DEF LiveHandles, Link, DirtyInv, TreeInv, AllLive, ColumnLive
<1>4. u \in Columns /\ Cut(topo, u, j) /\ u.parent[j] = Null
  BY <1>3, LooseTree DEF DirtyInv, TreeInv
<1> HIDE DEF u
<1>5. Cut(topo', u, j) /\ topo'.parent[j] = p
  BY <1>1, <1>3, <1>4 DEF LinkBefore, Cut, Columns
<1>6. KnowsBut(alive, topo', dirt.flags, T)
  <2>1. KnowsBut(alive, u, dirt.flags, {})
    BY <1>4, CutKnows DEF DirtyInv, DirtySound
  <2>2. \A i, k \in Slots : OnChain(topo', i, k) /\ k \notin T => OnChain(u, i, k)
    BY <1>5, ChainHung
  <2> QED BY <2>1, <2>2 DEF KnowsBut
<1>7. DirtySound(alive, generation, issued, topo', T, dirt)
  BY <1>6 DEF DirtyInv, DirtySound
<1> HIDE DEF T
<1>8. DirtySound(alive, generation, issued, topo', T, d) /\ StaysQueued(dirt, d)
  <2>1. CASE old \in {Null, p}
    BY <1>2, <1>7, <2>1 DEF StaysQueued
  <2>2. CASE old \notin {Null, p}
    <3>1. old \in issued /\ alive[Index(old)] /\ generation[Index(old)] = Generation(old)
      BY <1>3, <2>2, LiveMarkable DEF DirtyInv
    <3>2. ParentMarks \in SUBSET Flags
      BY DEF ParentMarks, Flags
    <3> QED BY <1>2, <1>3, <1>7, <2>2, <3>1, <3>2, MarkSound
  <2> QED BY <2>1, <2>2
<1>9. \A k \in T : OnChain(topo', Index(p), k)
  BY DEF T
<1> QED BY <1>1, <1>2, <1>3, <1>6, <1>8, <1>9, SameSlotsSound

\* A new handle is one that was never issued.
LEMMA CreateIssues ==
  ASSUME TreeInv, Create
  PROVE  \E h \in Handles : /\ Index(h) = NextSlot /\ h \notin issued
                            /\ issued' = issued \cup {h}
                            /\ alive' = [alive EXCEPT ![NextSlot] = TRUE]
                            /\ generation' = [generation EXCEPT ![NextSlot] = Generation(h)]
<1>1. SlotsInv /\ NextSlot \in Slots
  BY TreeFacts, CreateSparesLive
<1>2. CASE CreateReused
  <2>1. freeList # <<>> /\ Revive(Top, IF generation[Top] = 0 THEN 1 ELSE generation[Top])
    BY <1>2 DEF CreateReused
  <2>2. Len(freeList) \in 1 .. Len(freeList) /\ NextSlot = Top /\ Top = freeList[Len(freeList)]
    BY <1>1, <2>1, TopIsSlot DEF SlotsInv, NextSlot, Top
  <2>3. <<Top, generation[Top]>> \in Handles \ issued
    BY <1>1, <2>2 DEF SlotsInv, FreeListSound
  <2> DEFINE h == <<Top, generation[Top]>>
  <2>4. generation[Top] # 0 /\ Index(h) = Top /\ Generation(h) = generation[Top]
    BY <2>3 DEF Handles, Generations, Index, Generation
  <2> QED BY <2>1, <2>2, <2>3, <2>4 DEF Revive
<1>3. CASE CreateFresh
  <2> DEFINE h == <<count + 1, 1>>
  <2>1. freeList = <<>> /\ Revive(count + 1, 1) /\ NextSlot = count + 1
    BY <1>3 DEF CreateFresh, NextSlot
  <2>2. Index(h) = count + 1 /\ Generation(h) = 1 /\ h \in Handles
    BY <1>1, <2>1, SlotsAssumption DEF Index, Generation, Handles, Generations
  <2>3. h \notin issued
    BY <1>1, <2>2 DEF SlotsInv, SlotsTypeOK, IssuedBounded
  <2> QED BY <2>1, <2>2, <2>3 DEF Revive
<1> QED BY <1>2, <1>3 DEF Create

\* The columns of a slot that changes hands are reset.
LEMMA ForgetWrites ==
  ASSUME NEW d \in Dirts, NEW i \in Slots
  PROVE  /\ Forgotten(d, i) \in Dirts /\ Forgotten(d, i).queue = d.queue
         /\ \A j \in Slots : /\ Forgotten(d, i).flags[j] = IF j = i THEN {} ELSE d.flags[j]
                             /\ Forgotten(d, i).queued[j] <=> j # i /\ d.queued[j]
<1> DEFINE flags == [d.flags EXCEPT ![i] = {}]
           queued == [d.queued EXCEPT ![i] = FALSE]
<1>1. flags \in [Slots -> SUBSET Flags] /\ queued \in [Slots -> BOOLEAN]
  BY DEF Dirts
<1>2. /\ Forgotten(d, i) \in Dirts /\ Forgotten(d, i).queue = d.queue
      /\ Forgotten(d, i).flags = flags /\ Forgotten(d, i).queued = queued
  BY <1>1 DEF Forgotten, Dirts
<1>3. \A j \in Slots : /\ flags[j] = IF j = i THEN {} ELSE d.flags[j]
                       /\ queued[j] <=> j # i /\ d.queued[j]
  BY DEF Dirts
<1> HIDE DEF flags, queued
<1> QED BY <1>2, <1>3

(***************************************************************************)
(* A slot with no node below it may change hands once its columns are      *)
(* reset, if its node is dead or of a handle that has no entry yet.        *)
(***************************************************************************)
LEMMA ForgetSound ==
  ASSUME NEW a, NEW g, NEW s, NEW t \in Columns, NEW d, DirtySound(a, g, s, t, {}, d),
         NEW i \in Slots, Childless(t, i), NEW u, Cut(t, u, i),
         NEW b, NEW f, NEW r, s \subseteq r,
         \A j \in Slots : j # i => b[j] = a[j] /\ f[j] = g[j],
         b[i] => <<i, f[i]>> \notin s
  PROVE  DirtySound(b, f, r, u, {}, Forgotten(d, i))
<1> DEFINE e == Forgotten(d, i)
<1>1. /\ e \in Dirts /\ e.queue = d.queue
      /\ \A j \in Slots : /\ e.flags[j] = IF j = i THEN {} ELSE d.flags[j]
                          /\ e.queued[j] <=> j # i /\ d.queued[j]
  BY ForgetWrites DEF DirtySound
<1> HIDE DEF e
<1>2. Entered(s, d)
  BY DEF DirtySound, QueueSound
<1>3. Entered(r, e)
  BY <1>1, <1>2 DEF Entered
<1>4. ASSUME NEW j \in Slots PROVE e.queued[j] <=> b[j] /\ Has(e.queue, <<j, f[j]>>)
  <2>1. CASE j = i
    BY <1>1, <1>2, <2>1 DEF Has, Entered
  <2>2. CASE j # i
    BY <1>1, <2>2 DEF DirtySound, QueueSound
  <2> QED BY <2>1, <2>2
<1>5. \A j \in Slots : e.queued[j] => Direct(e.flags[j])
  BY <1>1 DEF DirtySound, QueueSound
<1>6. KnowsBut(b, u, e.flags, {})
  <2> SUFFICES ASSUME NEW j \in Slots, NEW k \in Slots,
                      b[j], Direct(e.flags[j]), j # k, OnChain(u, j, k)
               PROVE  "subtree" \in e.flags[k]
    BY DEF KnowsBut
  <2>1. j # i
    BY <1>1 DEF Direct
  <2>2. OnChain(t, j, k)
    BY ChainCut
  <2>3. k # i
    BY <2>1, <2>2, ChainLeaf
  <2> QED BY <1>1, <2>1, <2>2, <2>3 DEF DirtySound, KnowsBut
<1> QED BY <1>1, <1>3, <1>4, <1>5, <1>6 DEF DirtySound, QueueSound, e

LEMMA DeadSlotChildless == ASSUME TreeInv, NEW i \in Slots, ~alive[i] PROVE Childless(topo, i)
BY NullOutside DEF TreeInv, AllLive, ColumnLive, Live, Childless

LEMMA CreateSound == ASSUME DirtyInv, TreeInv', DirtyCreate PROVE DirtyInv' /\ Dequeues
<1> DEFINE n == NextSlot
<1>1. Create /\ TreeInv /\ DirtySound(alive, generation, issued, topo, {}, dirt)
  BY DEF DirtyCreate, DirtyInv
<1>2. n \in Slots /\ ~alive[n] /\ topo \in Columns /\ alive \in [Slots -> BOOLEAN]
      /\ generation \in [Slots -> 0 .. MaxGen]
  BY <1>1, CreateSparesLive, TreeFacts DEF SlotsInv, SlotsTypeOK
<1>3. PICK h \in Handles : /\ Index(h) = n /\ h \notin issued
                           /\ issued' = issued \cup {h}
                           /\ alive' = [alive EXCEPT ![n] = TRUE]
                           /\ generation' = [generation EXCEPT ![n] = Generation(h)]
  BY <1>1, CreateIssues
<1>4. topo' = ClearLinks(topo, n)
  BY <1>1 DEF Create
<1> HIDE DEF n
<1>5. h = <<n, generation'[n]>> /\ alive'[n] /\ generation'[n] = Generation(h)
  BY <1>2, <1>3, HandlePair
<1>6. dirt' \in Marked(Forgotten(dirt, n), topo', h, {"layout"})
  BY <1>5 DEF DirtyCreate, n
<1>7. Cut(topo, topo', n)
  BY <1>2, <1>4 DEF ClearLinks, Cut, Columns
<1>8. Childless(topo, n)
  BY <1>1, <1>2, DeadSlotChildless
<1>9. DirtySound(alive', generation', issued', topo', {}, Forgotten(dirt, n))
  <2>1. issued \subseteq issued' /\ \A j \in Slots : j # n => alive'[j] = alive[j] /\ generation'[j] = generation[j]
    BY <1>2, <1>3
  <2>2. <<n, generation'[n]>> \notin issued
    BY <1>3, <1>5
  <2> QED BY <1>1, <1>2, <1>7, <1>8, <2>1, <2>2, ForgetSound
<1>10. alive' \in [Slots -> BOOLEAN] /\ Bounded(generation', issued')
  <2>1. (TreeInv => alive \in [Slots -> BOOLEAN] /\ Bounded(generation, issued))'
    BY TreeFacts, PTL
  <2> QED BY <2>1 DEF Bounded
<1>11. h \in issued' /\ {"layout"} \in SUBSET Flags
  BY <1>3 DEF Flags
<1>12. DirtySound(alive', generation', issued', topo', {}, dirt') /\ StaysQueued(Forgotten(dirt, n), dirt')
  <2>1. alive'[Index(h)] /\ generation'[Index(h)] = Generation(h)
    BY <1>3, <1>5
  <2> DEFINE d == Forgotten(dirt, n)
  <2> HIDE DEF d
  <2>2. DirtySound(alive', generation', issued', topo', {}, d) /\ dirt' \in Marked(d, topo', h, {"layout"})
    BY <1>6, <1>9 DEF d
  <2>3. DirtySound(alive', generation', issued', topo', {}, dirt') /\ StaysQueued(d, dirt')
    BY <1>10, <1>11, <2>1, <2>2, MarkSound
  <2> QED BY <2>3 DEF d
<1>13. Dequeues
  BY <1>1, <1>2, <1>12, ForgetWrites DEF DirtySound, StaysQueued, Dequeues
<1> QED BY <1>12, <1>13 DEF DirtyInv

LEMMA VisitSound == ASSUME DirtyInv, TreeInv', DirtyVisit PROVE DirtyInv' /\ Dequeues
<1> DEFINE i == Index(walk.cursor)
           u == Loose(i)
<1>1. /\ WalkVisit /\ TreeInv /\ DirtySound(alive, generation, issued, topo, {}, dirt)
      /\ dirt' = Forgotten(dirt, i)
  BY DEF DirtyVisit, DirtyInv
<1>2. /\ topo' = ClearLinks(u, i) /\ topo.first[i] = Null
      /\ Live(walk.cursor)
      /\ alive' = [alive EXCEPT ![i] = FALSE] /\ UNCHANGED <<generation, issued>>
  BY <1>1 DEF WalkVisit, Walking, FirstChild, Loose, Kill
<1>3. i \in Slots /\ topo \in Columns /\ LinksInv /\ alive \in [Slots -> BOOLEAN]
  BY <1>1, <1>2, LiveNode, TreeFacts
<1>4. u \in Columns /\ Cut(topo, u, i)
  BY <1>1, <1>3, LooseTree DEF TreeInv
<1>5. Childless(topo, i)
  <2>1. Spotted(topo.first)[i] = 0
    BY <1>2, <1>3, NullOutside DEF Spotted
  <2>2. Kids(Spotted(topo.parent), i) = {}
    BY <1>1, <1>3, <2>1, ColumnsSpotted, EndsMeet DEF TreeInv, Forest
  <2> QED BY <2>2 DEF Kids, Childless, Spotted
<1> HIDE DEF i, u
<1>6. Cut(topo, topo', i)
  BY <1>2, <1>3, <1>4 DEF ClearLinks, Cut, Columns
<1>7. DirtySound(alive', generation', issued', topo', {}, dirt')
  <2>1. ~alive'[i] /\ \A j \in Slots : j # i => alive'[j] = alive[j]
    BY <1>2, <1>3
  <2> QED BY <1>1, <1>2, <1>3, <1>5, <1>6, <2>1, ForgetSound
<1>8. Dequeues
  BY <1>1, <1>2, <1>3, ForgetWrites DEF DirtySound, Dequeues
<1> QED BY <1>7, <1>8 DEF DirtyInv

LEMMA WalkStepSound == ASSUME DirtyInv, TreeInv', DirtyWalkStep PROVE DirtyInv' /\ Dequeues
<1>1. CASE DirtyVisit
  BY <1>1, VisitSound
<1>2. CASE (WalkDown \/ WalkResume) /\ UNCHANGED dirt
  <2>1. UNCHANGED <<alive, issued, topo>> /\ \A i \in Slots : alive[i] => generation'[i] = generation[i]
    BY <1>2, ResumeSlots DEF WalkDown, WalkResume, slotVars, DirtyInv, TreeInv
  <2>2. DirtySound(alive, generation', issued, topo, {}, dirt)
    BY <2>1 DEF DirtyInv, DirtySound, QueueSound
  <2>3. Dequeues
    BY <1>2 DEF Dequeues
  <2> QED BY <1>2, <2>1, <2>2, <2>3 DEF DirtyInv
<1> QED BY <1>1, <1>2 DEF DirtyWalkStep

LEMMA DirtyStepSound == DirtyInv /\ [DirtyNext]_dirtyVars => DirtyInv' /\ (UNCHANGED dirtyVars \/ Dequeues)
<1> SUFFICES ASSUME DirtyInv, [DirtyNext]_dirtyVars PROVE DirtyInv' /\ (UNCHANGED dirtyVars \/ Dequeues)
  OBVIOUS
<1>1. TreeInv'
  BY DirtyStepsAreTreeSteps, TreeInvStep DEF DirtyInv
<1>2. CASE UNCHANGED dirtyVars
  BY <1>1, <1>2 DEF dirtyVars, DirtyInv
<1>3. CASE DirtyCreate
  BY <1>1, <1>3, CreateSound
<1>4. ASSUME NEW p \in LiveHandles, NEW c \in LiveHandles, DirtyRemove(p, c) PROVE DirtyInv' /\ Dequeues
  BY <1>1, <1>4, RemoveSound
<1>5. ASSUME NEW p \in LiveHandles, NEW c \in LiveHandles, NEW b, NEW mode, DirtyPlace(p, c, b, mode)
      PROVE  DirtyInv' /\ Dequeues
  BY <1>1, <1>5, PlaceSound
<1>6. ASSUME NEW h \in issued, DirtyDestroyBegin(h) PROVE DirtyInv' /\ Dequeues
  BY <1>1, <1>6, DestroyBeginSound
<1>7. ASSUME NEW h \in issued, NEW marks \in {{"layout"}, {"self"}, {"layout", "subtree"}}, SetColumn(h, marks)
      PROVE  DirtyInv' /\ Dequeues
  <2>1. marks \in SUBSET Flags
    BY <1>7 DEF Flags
  <2> QED BY <1>1, <1>7, <2>1, SetColumnSound
<1>8. CASE DirtyWalkStep
  BY <1>1, <1>8, WalkStepSound
<1>9. CASE InvalidateAll
  BY <1>1, <1>9, InvalidateAllSound
<1>10. ASSUME NEW roots, LayoutPass(roots) PROVE DirtyInv' /\ Dequeues
  BY <1>1, <1>10, LayoutPassSound
<1>11. CASE LayoutFailure
  BY <1>1, <1>11, LayoutFailureSound
<1> QED
  BY <1>2, <1>3, <1>4, <1>5, <1>6, <1>7, <1>8, <1>9, <1>10, <1>11 DEF DirtyNext

-----------------------------------------------------------------------------
(* The theorems.                                                           *)

(***************************************************************************)
(* The calls with their marks do to slots and links what the calls of      *)
(* NodeTree do, so that what is proved there holds here.                   *)
(***************************************************************************)
THEOREM DirtyUsesTree == DirtySpec => TreeSpec
<1>1. DirtyInit => TreeInit
  BY DEF DirtyInit
<1> QED BY <1>1, DirtyStepsAreTreeSteps, PTL DEF DirtySpec, TreeSpec

\* Queue, flags and tree fit together in every state.
THEOREM DirtyStaysSound == DirtySpec => []DirtyInv
<1>1. DirtyInv /\ [DirtyNext]_dirtyVars => DirtyInv'
  BY DirtyStepSound
<1> QED BY <1>1, DirtyInvInit, PTL DEF DirtySpec

(***************************************************************************)
(* dirty_queued says exactly which nodes have an entry, and none has two,  *)
(* whatever is destroyed, reused, marked and compacted in between.         *)
(***************************************************************************)
THEOREM QueueStaysMatched == DirtySpec => []QueueMatchesColumn
<1>1. TreeTypeOK /\ DirtyInv => QueueMatchesColumn
  <2> SUFFICES ASSUME TreeTypeOK, DirtyInv PROVE QueueMatchesColumn
    OBVIOUS
  <2>1. dirt \in Dirts /\ QueueSound(alive, generation, issued, dirt)
    BY DEF DirtyInv, DirtySound
  <2>2. DirtyTypeOK
    BY <2>1 DEF DirtyTypeOK, Dirts
  <2>3. StaleEntriesFirst
    BY <2>1 DEF StaleEntriesFirst, QueueSound, Entered, StaleFirst
  <2>4. ASSUME NEW i \in Slots PROVE dirt.queued[i] <=> alive[i] /\ HandleOf(i) \in ToSet(dirt.queue)
    <3>1. dirt.queued[i] <=> alive[i] /\ Has(dirt.queue, <<i, generation[i]>>)
      BY <2>1 DEF QueueSound
    <3>2. ToSet(dirt.queue) = {dirt.queue[k] : k \in 1 .. Len(dirt.queue)}
      BY <2>1, DOMAIN dirt.queue = 1 .. Len(dirt.queue) DEF ToSet, Dirts
    <3> QED BY <3>1, <3>2 DEF Has, HandleOf
  <2> QED BY <2>2, <2>3, <2>4 DEF QueueMatchesColumn
<1> QED BY <1>1, DirtyUsesTree, TreeTypeCorrect, DirtyStaysSound, PTL

(***************************************************************************)
(* Every ancestor of a node that needs a pass shows a dirty subtree, also  *)
(* after the tree has changed between the mark and the pass.               *)
(***************************************************************************)
THEOREM AncestorsStayInformed == DirtySpec => []AncestorsKnow
<1>1. DirtyInv => AncestorsKnow
  BY DEF DirtyInv, DirtySound, KnowsBut, AncestorsKnow
<1> QED BY <1>1, DirtyStaysSound, PTL

\* Only a pass or its own destruction takes a live node off the queue.
THEOREM MarkedStaysQueued == DirtySpec => OnlyPassesDequeue
<1>1. DirtyInv /\ [DirtyNext]_dirtyVars =>
        [\A i \in Slots :
           dirt.queued[i] /\ alive[i] /\ alive'[i] /\ ~dirt'.queued[i] => dirt'.flags[i] = {}]_dirtyVars
  BY DirtyStepSound DEF Dequeues
<1> QED BY <1>1, DirtyStaysSound, PTL DEF DirtySpec, OnlyPassesDequeue


-----------------------------------------------------------------------------
(* The tree that a behaviour starts from.                                  *)

LEMMA LeastIs ==
  ASSUME NEW S \in SUBSET Slots
  PROVE  /\ S = {} => Least(S) = 0
         /\ S # {} => Least(S) \in S /\ \A s \in S : Least(S) <= s
<1>1. CASE S = {}
  BY <1>1 DEF Least
<1>2. CASE S # {}
  <2>1. S \in SUBSET Nat
    BY DEF Slots
  <2>2. \E m \in S : \A s \in S : m <= s
    BY <1>2, <2>1, LeastNumber
  <2> QED BY <1>2, <2>2 DEF Least
<1> QED BY <1>1, <1>2

LEMMA GreatestIs ==
  ASSUME NEW S \in SUBSET Slots
  PROVE  /\ S = {} => Greatest(S) = 0
         /\ S # {} => Greatest(S) \in S /\ \A s \in S : Greatest(S) >= s
<1>1. CASE S = {}
  BY <1>1 DEF Greatest
<1>2. CASE S # {}
  <2>1. S \in SUBSET (0 .. MaxSlots) /\ MaxSlots \in Nat
    BY SlotsAssumption DEF Slots
  <2>2. PICK m \in S : \A s \in S : s <= m
    BY <1>2, <2>1, GreatestNumber
  <2>3. \A s \in S : m >= s
    BY <2>1, <2>2
  <2> QED BY <1>2, <2>3 DEF Greatest
<1> QED BY <1>1, <1>2

\* The children of slot p on either side of slot i.
Younger(p, i) == {c \in KidsOf(p) : c > i}
Older(p, i) == {c \in KidsOf(p) : c < i}

\* nxt leads to the next younger child, prv to the next older one.
LEMMA SiblingsMeet ==
  ASSUME NEW p, NEW i \in KidsOf(p), NEW k \in KidsOf(p)
  PROVE  /\ Least(Younger(p, i)) = k <=> Greatest(Older(p, k)) = i
         /\ Greatest(Older(p, k)) = 0 <=> Least(KidsOf(p)) = k
         /\ Least(Younger(p, k)) = 0 <=> Greatest(KidsOf(p)) = k
<1>1. /\ KidsOf(p) \in SUBSET Slots /\ Younger(p, i) \in SUBSET Slots /\ Older(p, k) \in SUBSET Slots
      /\ Younger(p, k) \in SUBSET Slots
  BY DEF KidsOf, Younger, Older
<1>2. \A s \in Slots : s \in Int /\ s > 0
  BY DEF Slots
<1>3. /\ Younger(p, i) = {} => Least(Younger(p, i)) = 0
      /\ Younger(p, i) # {} => /\ Least(Younger(p, i)) \in Younger(p, i)
                               /\ \A s \in Younger(p, i) : Least(Younger(p, i)) <= s
      /\ Younger(p, k) = {} => Least(Younger(p, k)) = 0
      /\ Younger(p, k) # {} => Least(Younger(p, k)) \in Younger(p, k)
      /\ Least(KidsOf(p)) \in KidsOf(p) /\ \A s \in KidsOf(p) : Least(KidsOf(p)) <= s
  BY <1>1, LeastIs
<1>4. /\ Older(p, k) = {} => Greatest(Older(p, k)) = 0
      /\ Older(p, k) # {} => /\ Greatest(Older(p, k)) \in Older(p, k)
                             /\ \A s \in Older(p, k) : Greatest(Older(p, k)) >= s
      /\ Greatest(KidsOf(p)) \in KidsOf(p) /\ \A s \in KidsOf(p) : Greatest(KidsOf(p)) >= s
  BY <1>1, GreatestIs
<1>5. Least(Younger(p, i)) = k <=> Greatest(Older(p, k)) = i
  <2>1. ASSUME Least(Younger(p, i)) = k PROVE Greatest(Older(p, k)) = i
    <3>1. k \in Younger(p, i) /\ i \in Older(p, k)
      BY <1>1, <1>2, <1>3, <2>1 DEF Younger, Older
    <3>2. \A s \in Older(p, k) : s \in Younger(p, i) => k <= s
      BY <1>3, <2>1
    <3> QED BY <1>1, <1>2, <1>4, <3>1, <3>2 DEF Younger, Older
  <2>2. ASSUME Greatest(Older(p, k)) = i PROVE Least(Younger(p, i)) = k
    <3>1. i \in Older(p, k) /\ k \in Younger(p, i)
      BY <1>1, <1>2, <1>4, <2>2 DEF Younger, Older
    <3>2. \A s \in Younger(p, i) : s \in Older(p, k) => i >= s
      BY <1>4, <2>2
    <3> QED BY <1>1, <1>2, <1>3, <3>1, <3>2 DEF Younger, Older
  <2> QED BY <2>1, <2>2
<1>6. Greatest(Older(p, k)) = 0 <=> Least(KidsOf(p)) = k
  BY <1>1, <1>2, <1>3, <1>4 DEF Older
<1>7. Least(Younger(p, k)) = 0 <=> Greatest(KidsOf(p)) = k
  BY <1>1, <1>2, <1>3, <1>4 DEF Younger
<1> QED BY <1>5, <1>6, <1>7

\* A column that leads to smaller slots only has no ring, nor has one that
\* leads to greater slots only.
LEMMA FallsRingFree ==
  ASSUME NEW f, \A i \in Slots : f[i] \in Int /\ f[i] < i
  PROVE  RingFree(f)
<1> SUFFICES ASSUME NEW S \in SUBSET Slots, S # {} PROVE \E i \in S : f[i] \notin S
  BY DEF RingFree
<1>1. PICK m \in S : \A s \in S : m <= s
  BY LeastIs
<1>2. f[m] \in Int /\ f[m] < m /\ m \in Int /\ S \in SUBSET Int
  BY DEF Slots
<1>3. f[m] \notin S
  BY <1>1, <1>2
<1> QED BY <1>3

LEMMA RisesRingFree ==
  ASSUME NEW f, \A i \in Slots : f[i] \in Int /\ (f[i] > i \/ f[i] = 0)
  PROVE  RingFree(f)
<1> SUFFICES ASSUME NEW S \in SUBSET Slots, S # {} PROVE \E i \in S : f[i] \notin S
  BY DEF RingFree
<1>1. PICK m \in S : \A s \in S : m >= s
  BY GreatestIs
<1>2. f[m] \in Int /\ (f[m] > m \/ f[m] = 0) /\ m \in Int /\ S \in SUBSET Int /\ 0 \notin S
  BY DEF Slots
<1>3. f[m] \notin S
  BY <1>1, <1>2
<1> QED BY <1>3

\* Doubling the first capacity often enough makes room for every node.
LEMMA FirstCapacity ==
  ASSUME NEW cap, cap = QueueChunk * 2 ^ (CHOOSE n \in 0 .. MaxSlots : MaxSlots <= QueueChunk * 2 ^ n)
  PROVE  cap \in Nat /\ MaxSlots <= cap
<1>1. ASSUME NEW n \in Nat PROVE 2 ^ n \in Nat /\ n <= 2 ^ n
  <2> DEFINE S == 1 .. n
  <2>1. IsFiniteSet(S) /\ Cardinality(S) = n
    BY FS_Interval
  <2> HIDE DEF S
  <2>2. IsFiniteSet(SUBSET S) /\ Cardinality(SUBSET S) = 2 ^ n
    BY <2>1, FS_SUBSET
  <2> DEFINE f == [x \in S |-> {x}]
  <2>3. f \in Injection(S, SUBSET S)
    BY DEF Injection, IsInjective
  <2>4. Cardinality(S) <= Cardinality(SUBSET S)
    <3> HIDE DEF f
    <3> QED BY <2>2, <2>3, FS_Injection
  <2>5. Cardinality(SUBSET S) \in Nat
    BY <2>2, FS_CardinalityType
  <2> QED BY <2>1, <2>2, <2>4, <2>5
<1>2. QueueChunk \in Nat /\ QueueChunk >= 1 /\ MaxSlots \in Nat
  BY QueueAssumption, SlotsAssumption
<1>3. \E n \in 0 .. MaxSlots : MaxSlots <= QueueChunk * 2 ^ n
  <2> DEFINE m == 2 ^ MaxSlots
  <2>1. m \in Nat /\ MaxSlots <= m
    BY <1>1, <1>2
  <2> HIDE DEF m
  <2>2. m <= QueueChunk * m
    BY <1>2, <2>1
  <2>3. MaxSlots <= QueueChunk * m /\ MaxSlots \in 0 .. MaxSlots
    BY <1>2, <2>1, <2>2
  <2> QED BY <2>3 DEF m
<1> DEFINE n == CHOOSE n \in 0 .. MaxSlots : MaxSlots <= QueueChunk * 2 ^ n
<1>4. n \in 0 .. MaxSlots /\ MaxSlots <= QueueChunk * 2 ^ n
  BY <1>3
<1> HIDE DEF n
<1>5. 2 ^ n \in Nat
  BY <1>1, <1>4
<1>6. QueueChunk * 2 ^ n \in Nat
  BY <1>2, <1>5
<1> QED BY <1>4, <1>6 DEF n

\* Handles of the first generation.
LEMMA FreshNames ==
  /\ Fresh(0) = Null
  /\ \A i \in Slots : /\ Fresh(i) = <<i, 1>> /\ Fresh(i) # Null /\ Fresh(i) \in Handles
                      /\ Index(Fresh(i)) = i /\ Generation(Fresh(i)) = 1
  /\ \A i \in Spots : Fresh(i) \in Link /\ Index(Fresh(i)) = i /\ (Fresh(i) = Null <=> i = 0)
BY SlotsAssumption DEF Fresh, Slots, Spots, Null, Handles, Generations, Index, Generation, Link

LEMMA DriverInitTree ==
  ASSUME DriverInit
  PROVE  /\ topo \in Columns /\ Forest(topo) /\ Counted(topo)
         /\ \A i \in Slots : \A h \in {topo.parent[i], topo.first[i], topo.last[i], topo.next[i], topo.prev[i]} :
              h # Null => h \in {<<k, 1>> : k \in Slots}
<1> DEFINE par == [i \in Slots |-> ParentOf[i]]
           fst == [i \in Slots |-> Least(KidsOf(i))]
           lst == [i \in Slots |-> Greatest(KidsOf(i))]
           nxt == [i \in Slots |-> IF ParentOf[i] = 0 THEN 0 ELSE Least(Younger(ParentOf[i], i))]
           prv == [i \in Slots |-> IF ParentOf[i] = 0 THEN 0 ELSE Greatest(Older(ParentOf[i], i))]
<1>1. \A i : KidsOf(i) \in SUBSET Slots /\ \A k : Younger(i, k) \in SUBSET Slots /\ Older(i, k) \in SUBSET Slots
  BY DEF KidsOf, Younger, Older
<1>2. ASSUME NEW S \in SUBSET Slots PROVE Least(S) \in Spots /\ Greatest(S) \in Spots
  <2>1. 0 \in Spots /\ Slots \subseteq Spots
    BY SlotsAssumption DEF Spots, Slots
  <2>2. (S = {} => Least(S) = 0 /\ Greatest(S) = 0) /\ (S # {} => Least(S) \in S /\ Greatest(S) \in S)
    BY LeastIs, GreatestIs
  <2> QED BY <2>1, <2>2
<1>3. par \in Columned /\ fst \in Columned /\ lst \in Columned /\ nxt \in Columned /\ prv \in Columned
  BY <1>1, <1>2, DriverAssumption, SlotsAssumption DEF Columned, Spots
<1>4. /\ topo.parent = [i \in Slots |-> Fresh(par[i])]
      /\ topo.first = [i \in Slots |-> Fresh(fst[i])]
      /\ topo.last = [i \in Slots |-> Fresh(lst[i])]
      /\ topo.next = [i \in Slots |-> Fresh(nxt[i])]
      /\ topo.prev = [i \in Slots |-> Fresh(prv[i])]
      /\ topo.nchild = [i \in Slots |-> Cardinality(KidsOf(i))]
      /\ topo = [parent |-> topo.parent, first |-> topo.first, last |-> topo.last,
                  next |-> topo.next, prev |-> topo.prev, nchild |-> topo.nchild]
  BY FreshNames DEF DriverInit, Younger, Older
<1>5. ASSUME NEW col \in Columned, NEW f, f = [i \in Slots |-> Fresh(col[i])]
      PROVE  /\ f \in [Slots -> Link] /\ Spotted(f) = col
             /\ \A i \in Slots : f[i] # Null => f[i] \in {<<k, 1>> : k \in Slots}
  <2>1. \A i \in Slots : col[i] \in Spots /\ (col[i] # 0 <=> col[i] \in Slots)
    BY SpotIsSlot DEF Columned
  <2>2. f \in [Slots -> Link] /\ \A i \in Slots : Index(f[i]) = col[i]
    BY <1>5, <2>1, FreshNames
  <2>3. Spotted(f) = col
    BY <2>2 DEF Spotted, Columned
  <2>4. \A i \in Slots : f[i] # Null => f[i] = <<col[i], 1>> /\ col[i] \in Slots
    BY <1>5, <2>1, FreshNames
  <2> QED BY <2>2, <2>3, <2>4
<1> HIDE DEF par, fst, lst, nxt, prv
<1>6. /\ topo.parent \in [Slots -> Link] /\ Spotted(topo.parent) = par
      /\ topo.first \in [Slots -> Link] /\ Spotted(topo.first) = fst
      /\ topo.last \in [Slots -> Link] /\ Spotted(topo.last) = lst
      /\ topo.next \in [Slots -> Link] /\ Spotted(topo.next) = nxt
      /\ topo.prev \in [Slots -> Link] /\ Spotted(topo.prev) = prv
  BY <1>3, <1>4, <1>5
<1>7. \A i \in Slots : \A h \in {topo.parent[i], topo.first[i], topo.last[i], topo.next[i], topo.prev[i]} :
        h # Null => h \in {<<k, 1>> : k \in Slots}
  BY <1>3, <1>4, <1>5
<1>8. \A i : KidsOf(i) = Kids(par, i)
  BY DEF KidsOf, Kids, par
<1>9. Counted(topo)
  BY <1>4, <1>6, <1>8 DEF Counted
<1>10. topo.nchild \in [Slots -> Int]
  BY <1>4, <1>8, KidsFinite
<1>11. topo \in Columns
  BY <1>4, <1>6, <1>10 DEF Columns
<1>12. \A i \in Slots : /\ par[i] = ParentOf[i] /\ fst[i] = Least(KidsOf(i)) /\ lst[i] = Greatest(KidsOf(i))
                        /\ nxt[i] = IF par[i] = 0 THEN 0 ELSE Least(Younger(par[i], i))
                        /\ prv[i] = IF par[i] = 0 THEN 0 ELSE Greatest(Older(par[i], i))
                        /\ par[i] \in Int /\ par[i] < i /\ i \in KidsOf(par[i])
  BY DriverAssumption DEF par, fst, lst, nxt, prv, KidsOf
<1>13. RingFree(par) /\ RingFree(nxt) /\ RingFree(prv)
  <2>1. RingFree(par)
    BY <1>12, FallsRingFree
  <2>2. \A i \in Slots : nxt[i] \in Int /\ (nxt[i] > i \/ nxt[i] = 0)
    <3>1. \A i \in Slots : nxt[i] = 0 \/ nxt[i] \in Younger(par[i], i)
      BY <1>1, <1>12, LeastIs
    <3> QED BY <3>1 DEF Younger, KidsOf, Slots
  <2>3. \A i \in Slots : prv[i] \in Int /\ prv[i] < i
    <3>1. \A i \in Slots : prv[i] = 0 \/ prv[i] \in Older(par[i], i)
      BY <1>1, <1>12, GreatestIs
    <3> QED BY <3>1 DEF Older, KidsOf, Slots
  <2> QED BY <2>1, <2>2, <2>3, FallsRingFree, RisesRingFree
<1>14. Chained(par, fst, nxt, prv)
  <2> SUFFICES ASSUME NEW i \in Slots
               PROVE  /\ par[i] = 0 => prv[i] = 0
                      /\ par[i] # 0 /\ prv[i] = 0 => fst[par[i]] = i
                      /\ prv[i] # 0 => nxt[prv[i]] = i /\ par[prv[i]] = par[i]
                      /\ fst[i] # 0 => par[fst[i]] = i /\ prv[fst[i]] = 0
    BY DEF Chained
  <2>1. par[i] = 0 => prv[i] = 0
    BY <1>12
  <2>2. par[i] # 0 /\ prv[i] = 0 => fst[par[i]] = i
    <3>1. par[i] # 0 => par[i] \in Slots
      BY <1>3, SpotIsSlot DEF Columned
    <3> QED BY <1>12, <3>1, SiblingsMeet
  <2>3. ASSUME prv[i] # 0 PROVE nxt[prv[i]] = i /\ par[prv[i]] = par[i]
    <3>1. par[i] # 0 /\ prv[i] = Greatest(Older(par[i], i)) /\ prv[i] \in Older(par[i], i)
      BY <1>1, <1>12, <2>3, GreatestIs
    <3>2. prv[i] \in KidsOf(par[i]) /\ prv[i] \in Slots /\ ParentOf[prv[i]] = par[i]
      BY <3>1 DEF Older, KidsOf
    <3>3. Least(Younger(par[i], prv[i])) = i
      BY <1>12, <3>1, <3>2, SiblingsMeet
    <3> QED BY <1>12, <3>1, <3>2, <3>3
  <2>4. ASSUME fst[i] # 0 PROVE par[fst[i]] = i /\ prv[fst[i]] = 0
    <3>1. fst[i] = Least(KidsOf(i)) /\ fst[i] \in KidsOf(i)
      BY <1>1, <1>12, <2>4, LeastIs
    <3>2. fst[i] \in Slots /\ par[fst[i]] = i
      BY <1>12, <3>1 DEF KidsOf
    <3>3. Greatest(Older(i, fst[i])) = 0
      BY <3>1, SiblingsMeet
    <3> QED BY <1>12, <3>2, <3>3
  <2> QED BY <2>1, <2>2, <2>3, <2>4
<1>15. Chained(par, lst, prv, nxt)
  <2> SUFFICES ASSUME NEW i \in Slots
               PROVE  /\ par[i] = 0 => nxt[i] = 0
                      /\ par[i] # 0 /\ nxt[i] = 0 => lst[par[i]] = i
                      /\ nxt[i] # 0 => prv[nxt[i]] = i /\ par[nxt[i]] = par[i]
                      /\ lst[i] # 0 => par[lst[i]] = i /\ nxt[lst[i]] = 0
    BY DEF Chained
  <2>1. par[i] = 0 => nxt[i] = 0
    BY <1>12
  <2>2. par[i] # 0 /\ nxt[i] = 0 => lst[par[i]] = i
    <3>1. par[i] # 0 => par[i] \in Slots
      BY <1>3, SpotIsSlot DEF Columned
    <3> QED BY <1>12, <3>1, SiblingsMeet
  <2>3. ASSUME nxt[i] # 0 PROVE prv[nxt[i]] = i /\ par[nxt[i]] = par[i]
    <3>1. par[i] # 0 /\ nxt[i] = Least(Younger(par[i], i)) /\ nxt[i] \in Younger(par[i], i)
      BY <1>1, <1>12, <2>3, LeastIs
    <3>2. nxt[i] \in KidsOf(par[i]) /\ nxt[i] \in Slots /\ ParentOf[nxt[i]] = par[i]
      BY <3>1 DEF Younger, KidsOf
    <3>3. Greatest(Older(par[i], nxt[i])) = i
      BY <1>12, <3>1, <3>2, SiblingsMeet
    <3> QED BY <1>12, <3>1, <3>2, <3>3
  <2>4. ASSUME lst[i] # 0 PROVE par[lst[i]] = i /\ nxt[lst[i]] = 0
    <3>1. lst[i] = Greatest(KidsOf(i)) /\ lst[i] \in KidsOf(i)
      BY <1>1, <1>12, <2>4, GreatestIs
    <3>2. lst[i] \in Slots /\ par[lst[i]] = i
      BY <1>12, <3>1 DEF KidsOf
    <3>3. Least(Younger(i, lst[i])) = 0
      BY <3>1, SiblingsMeet
    <3> QED BY <1>12, <3>2, <3>3
  <2> QED BY <2>1, <2>2, <2>3, <2>4
<1> QED BY <1>6, <1>7, <1>9, <1>11, <1>13, <1>14, <1>15 DEF Forest

\* The start is sound.
LEMMA DriverInitSound == DriverInit => DirtyInv
<1> SUFFICES ASSUME DriverInit PROVE DirtyInv
  OBVIOUS
<1>1. /\ alive = [i \in Slots |-> TRUE] /\ generation = [i \in Slots |-> 1]
      /\ count = MaxSlots /\ freeList = <<>> /\ freeCap = 0 /\ dying = Null
      /\ issued = {<<i, 1>> : i \in Slots} /\ walk = NoWalk /\ doomed = {}
  BY DEF DriverInit
<1>2. issued \in SUBSET Handles
  BY <1>1, SlotsAssumption DEF Handles, Generations
<1>3. SlotsInv
  <2>1. SlotsTypeOK
    BY <1>1, <1>2, SlotsAssumption DEF SlotsTypeOK, Slots
  <2>2. IssuedBounded
    BY <1>1 DEF IssuedBounded, Index, Generation, Slots
  <2>3. LiveIssued /\ DyingIssued
    BY <1>1 DEF LiveIssued, DyingIssued, Slots
  <2>4. FreeListSound
    BY <1>1 DEF FreeListSound
  <2> QED BY <2>1, <2>2, <2>3, <2>4 DEF SlotsInv
<1>4. LinksInv
  BY <1>1, <1>3, DriverInitTree DEF LinksInv, CursorNamesNode, Walking, Walks, NoWalk, Link
<1>5. AllLive(topo)
  <2>1. \A k \in Slots : Live(<<k, 1>>) /\ alive[k]
    BY <1>1 DEF Live, Index, Generation
  <2>2. ASSUME NEW i \in Slots, NEW h \in {topo.parent[i], topo.first[i], topo.last[i], topo.next[i], topo.prev[i]},
               h # Null
        PROVE  alive[i] /\ Live(h)
    BY <2>1, <2>2, DriverInitTree
  <2> QED BY <2>2 DEF AllLive, ColumnLive
<1>6. TreeInv
  BY <1>1, <1>4, <1>5, DriverInitTree, NoWalkSound DEF TreeInv
<1>7. /\ dirt.flags = [i \in Slots |-> {}] /\ dirt.queued = [i \in Slots |-> FALSE]
      /\ dirt.queue = <<>> /\ dirt \in Dirts /\ Len(dirt.queue) = 0
  <2>1. /\ dirt = [flags |-> dirt.flags, queued |-> dirt.queued, queue |-> dirt.queue, cap |-> dirt.cap]
        /\ dirt.flags = [i \in Slots |-> {}] /\ dirt.queued = [i \in Slots |-> FALSE]
        /\ dirt.queue = <<>>
        /\ dirt.cap = QueueChunk * 2 ^ (CHOOSE n \in 0 .. MaxSlots : MaxSlots <= QueueChunk * 2 ^ n)
    BY DEF DriverInit
  <2>2. dirt.cap \in Nat
    BY <2>1, FirstCapacity
  <2>3. dirt.queue \in Seq(Handles) /\ Len(dirt.queue) = 0
    BY <2>1
  <2>4. dirt.flags \in [Slots -> SUBSET Flags] /\ dirt.queued \in [Slots -> BOOLEAN]
    BY <2>1
  <2> QED BY <2>1, <2>2, <2>3, <2>4 DEF Dirts
<1>8. QueueSound(alive, generation, issued, dirt)
  BY <1>7 DEF QueueSound, Entered, StaleFirst, Has
<1>9. KnowsBut(alive, topo, dirt.flags, {})
  BY <1>7 DEF KnowsBut, Direct
<1> QED BY <1>6, <1>7, <1>8, <1>9 DEF DirtyInv, DirtySound

-----------------------------------------------------------------------------
(* Climbing.                                                               *)

LEMMA ParentLives ==
  ASSUME TreeInv, NEW h \in LiveHandles
  PROVE  /\ h \in Link /\ Index(h) \in Slots /\ Live(h) /\ h = <<Index(h), generation[Index(h)]>>
         /\ Parent(h) \in Link
         /\ Parent(h) # Null => Parent(h) \in LiveHandles
<1>1. LinksInv /\ issued \in SUBSET Handles
  BY TreeFacts
<1>2. h \in Link /\ Live(h) /\ Index(h) \in Slots
  BY <1>1, LiveNode DEF LiveHandles, Link
<1>3. Parent(h) \in Link
  BY <1>1, <1>2, ColumnsSpotted DEF LinksInv, Parent
<1>4. Parent(h) # Null => Live(Parent(h))
  BY <1>2 DEF TreeInv, AllLive, ColumnLive, Parent
<1> QED BY <1>1, <1>2, <1>3, <1>4, LiveLink

\* Two live handles of one slot are the same.
LEMMA LiveSame ==
  ASSUME TreeInv, NEW g \in LiveHandles, NEW h \in LiveHandles, Index(g) = Index(h)
  PROVE  g = h
BY ParentLives

LEMMA PassedBy ==
  ASSUME NEW h \in LiveHandles, NEW going
  PROVE  /\ h \in Passed(h, going)
         /\ Passed(h, going) \subseteq LiveHandles
         /\ \A b \in Passed(h, going) \cap going : Parent(b) \in LiveHandles => Parent(b) \in Passed(h, going)
BY DEF Passed

\* What holds of h and of the parents of those that go on holds of all passed.
LEMMA PassedAll ==
  ASSUME NEW h, NEW going, NEW S \in SUBSET LiveHandles, h \in S,
         \A b \in S \cap going : Parent(b) \in S
  PROVE  Passed(h, going) \subseteq S
BY DEF Passed

\* A parent stands above its child.
LEMMA ChainParent ==
  ASSUME TreeInv, NEW h \in LiveHandles, Parent(h) # Null
  PROVE  OnChain(topo, Index(h), Index(Parent(h)))
BY ChainSelf, ChainDown DEF Parent

\* What stands above a live node stands above its parent, or is the node.
LEMMA ChainOverParent ==
  ASSUME TreeInv, NEW h \in LiveHandles, NEW r \in LiveHandles, r # h, OnChain(topo, Index(h), Index(r))
  PROVE  Parent(h) # Null /\ OnChain(topo, Index(Parent(h)), Index(r))
BY TreeFacts, ParentLives, LiveSame, ChainUp DEF Parent

LEMMA PassedAbove ==
  ASSUME TreeInv, NEW h \in LiveHandles, NEW going, \A b \in going : Parent(b) # Null
  PROVE  \A a \in Passed(h, going) : a \in LiveHandles /\ OnChain(topo, Index(h), Index(a))
<1> DEFINE S == {a \in LiveHandles : OnChain(topo, Index(h), Index(a))}
<1>1. h \in S
  BY ChainSelf
<1>2. ASSUME NEW b \in S \cap going PROVE Parent(b) \in S
  BY ParentLives, ChainParent, ChainTransitive
<1>3. S \in SUBSET LiveHandles
  OBVIOUS
<1> HIDE DEF S
<1>4. Passed(h, going) \subseteq S
  BY <1>1, <1>2, <1>3, PassedAll
<1> QED BY <1>4 DEF S

\* A climb ends: no node is above itself.
LEMMA ClimbEnds ==
  ASSUME TreeInv, NEW h \in LiveHandles, NEW going, \A b \in going : Parent(b) # Null
  PROVE  \E a \in Passed(h, going) : a \notin going
<1> DEFINE P == Passed(h, going)
           I == {Index(a) : a \in P}
           par == Spotted(topo.parent)
<1> SUFFICES ASSUME P \subseteq going PROVE FALSE
  OBVIOUS
<1>1. h \in P /\ P \subseteq LiveHandles
  BY PassedBy
<1>2. I \in SUBSET Slots /\ I # {}
  BY <1>1, ParentLives
<1>3. PICK i \in I : par[i] \notin I
  BY <1>2, TreeFacts DEF Forest, RingFree
<1>4. PICK a \in P : i = Index(a)
  OBVIOUS
<1>5. Parent(a) \in P
  BY <1>1, <1>4, ParentLives, PassedBy
<1>6. par[i] = Index(Parent(a))
  BY <1>2, <1>4 DEF Spotted, Parent
<1> QED BY <1>3, <1>5, <1>6

LEMMA ClimbIs ==
  ASSUME TreeInv, NEW h \in LiveHandles, NEW root
  PROVE  /\ Climb(h, root) \in Passed(h, Promotes(root))
         /\ Climb(h, root) \notin Promotes(root)
         /\ Climb(h, root) \in LiveHandles
         /\ OnChain(topo, Index(h), Index(Climb(h, root)))
<1>1. \A b \in Promotes(root) : Parent(b) # Null
  BY DEF Promotes, CanPromote, InFlow
<1>2. Climb(h, root) \in Passed(h, Promotes(root)) /\ Climb(h, root) \notin Promotes(root)
  BY <1>1, ClimbEnds DEF Climb
<1> QED BY <1>1, <1>2, PassedAbove

LEMMA PromotedIs ==
  ASSUME TreeInv, NEW h \in LiveHandles, NEW root
  PROVE  /\ Promoted(h, root) \in LiveHandles
         /\ OnChain(topo, Index(h), Index(Promoted(h, root)))
<1>1. CASE Parent(h) = Null
  BY <1>1, ChainSelf DEF Promoted
<1>2. CASE Parent(h) # Null
  BY <1>2, ParentLives, ClimbIs, ChainParent, ChainTransitive DEF Promoted
<1> QED BY <1>1, <1>2

\* A climb from below a root stays below it.
LEMMA PromotedBelow ==
  ASSUME TreeInv, NEW root \in LiveHandles, NEW h \in Subtree(root), h # root
  PROVE  Promoted(h, root) \in Subtree(root)
<1> DEFINE S == Subtree(root)
<1>1. S \in SUBSET LiveHandles /\ h \in LiveHandles
  BY DEF Subtree
<1>2. Parent(h) # Null /\ Parent(h) \in LiveHandles /\ Parent(h) \in S
  BY <1>1, ParentLives, ChainOverParent DEF Subtree
<1>3. ASSUME NEW b \in S \cap Promotes(root) PROVE Parent(b) \in S
  <2>1. b # root /\ b \in LiveHandles /\ OnChain(topo, Index(b), Index(root))
    BY DEF Promotes, Subtree
  <2> QED BY <2>1, ParentLives, ChainOverParent DEF Subtree
<1>4. Passed(Parent(h), Promotes(root)) \subseteq S
  <2> HIDE DEF S
  <2> QED BY <1>1, <1>2, <1>3, PassedAll
<1> QED BY <1>2, <1>4, ClimbIs DEF Promoted

-----------------------------------------------------------------------------
(* The steps of the driver are steps of DirtyTree.                         *)

LEMMA RootsLive ==
  ASSUME TreeInv, NEW root, NEW nodes \in SUBSET LiveHandles
  PROVE  RecomputeRoots(root, nodes) \subseteq LiveHandles
BY PromotedIs DEF RecomputeRoots

\* What a layout call does, whichever strategy it takes.
LEMMA LayoutDoes ==
  ASSUME TreeInv, NEW root \in issued, NEW size, Layout(root, size)
  PROVE  /\ root \in LiveHandles /\ UNCHANGED <<treeVars, kind>>
         /\ done'.root = root
         /\ done'.strategy \in Strategies(Compacted(dirt), root, size)
         /\ done'.roots = CASE done'.strategy = "full"  -> {root}
                            [] done'.strategy = "dirty" -> RecomputeRoots(root, DirtyBelow(Compacted(dirt), root))
                            [] OTHER                    -> {}
         /\ LayoutPass(done'.roots)
         /\ done'.roots \subseteq LiveHandles
<1>1. /\ root \in LiveHandles /\ UNCHANGED <<treeVars, kind>> /\ ClientRuns
      /\ done'.root = root
      /\ done'.strategy \in Strategies(Compacted(dirt), root, size)
      /\ done'.roots = CASE done'.strategy = "full"  -> {root}
                         [] done'.strategy = "dirty" -> RecomputeRoots(root, DirtyBelow(Compacted(dirt), root))
                         [] OTHER                    -> {}
      /\ dirt' = Cleared(Compacted(dirt), UNION {Subtree(r) : r \in done'.roots})
  BY DEF Layout, LiveHandles
<1>2. DirtyBelow(Compacted(dirt), root) \in SUBSET LiveHandles
  BY DEF DirtyBelow, Subtree
<1>3. done'.roots \subseteq LiveHandles
  BY <1>1, <1>2, RootsLive
<1> QED BY <1>1, <1>3 DEF LayoutPass

LEMMA DriverStepsAreDirtySteps == TreeInv /\ [DriverNext]_driverVars => [DirtyNext]_dirtyVars
<1> SUFFICES ASSUME TreeInv, [DriverNext]_driverVars PROVE [DirtyNext]_dirtyVars
  OBVIOUS
<1>1. CASE UNCHANGED driverVars
  BY <1>1 DEF driverVars, dirtyVars
<1>2. CASE Change
  <2>1. CASE DriverCreate
    BY <2>1 DEF DriverCreate, DirtyNext
  <2>2. ASSUME NEW p \in LiveHandles, NEW c \in LiveHandles, DriverPlace(p, c) \/ DriverRemove(p, c)
        PROVE  DirtyNext
    BY <2>2 DEF DriverPlace, DriverRemove, DirtyNext
  <2>3. ASSUME NEW h \in issued, DriverDestroyBegin(h) PROVE DirtyNext
    BY <2>3 DEF DriverDestroyBegin, DirtyNext
  <2>4. ASSUME NEW h \in issued,
               \/ DriverSetColumn(h)
               \/ DriverSetDirection(h)
               \/ \E k \in Kinds : SetKind(h, k)
        PROVE  DirtyNext
    <3>1. \E marks \in {{"layout"}, {"self"}, {"layout", "subtree"}} : SetColumn(h, marks)
      BY <2>4 DEF DriverSetColumn, DriverSetDirection, SetKind
    <3> QED BY <3>1 DEF DirtyNext
  <2>5. CASE DriverInvalidateAll
    BY <2>5 DEF DriverInvalidateAll, DirtyNext
  <2> QED BY <1>2, <2>1, <2>2, <2>3, <2>4, <2>5 DEF Change
<1>3. ASSUME NEW h \in issued, NEW size, Layout(h, size) PROVE DirtyNext
  <2>1. LayoutPass(done'.roots) /\ done'.roots \in SUBSET LiveHandles
    BY <1>3, LayoutDoes
  <2> QED BY <2>1 DEF DirtyNext
<1>4. ASSUME NEW h \in issued, NEW size, LayoutFails(h, size) PROVE DirtyNext
  BY <1>4 DEF LayoutFails, DirtyNext
<1>5. CASE DriverWalkStep
  BY <1>5 DEF DriverWalkStep, DirtyNext
<1> QED BY <1>1, <1>2, <1>3, <1>4, <1>5 DEF DriverNext, Pass

\* The invariant of DirtyTree, from the start the driver takes.
THEOREM DriverStaysSound == DriverSpec => []DirtyInv
<1>1. DirtyInv /\ [DriverNext]_driverVars => DirtyInv'
  BY DriverStepsAreDirtySteps, DirtyStepSound DEF DirtyInv
<1> QED BY <1>1, DriverInitSound, PTL DEF DriverSpec

-----------------------------------------------------------------------------
(* The roots of a pass.                                                    *)

LEMMA SameSubtrees == ASSUME UNCHANGED treeVars PROVE \A h : Subtree(h)' = Subtree(h)
BY DEF treeVars, Subtree, LiveHandles, Live, OnChain, UpClosed

\* The nodes that a partial pass starts from are dirty and marked as queued.
LEMMA DirtyBelowIs ==
  ASSUME DirtyInv, NEW root \in LiveHandles
  PROVE  \A h \in DirtyBelow(Compacted(dirt), root) :
           /\ h \in Subtree(root)
           /\ Compacted(dirt).queued[Index(h)]
           /\ Direct(dirt.flags[Index(h)])
<1> DEFINE d == Compacted(dirt)
<1>1. /\ dirt \in Dirts /\ QueueSound(alive, generation, issued, dirt) /\ Bounded(generation, issued)
      /\ TreeInv
  BY TreeFacts DEF DirtyInv, DirtySound
<1>2. /\ d \in Dirts /\ d.flags = dirt.flags /\ QueueSound(alive, generation, issued, d)
  <2> HIDE DEF d
  <2> QED BY <1>1, CompactSound DEF QueueSound, d
<1> HIDE DEF d
<1>3. ToSet(d.queue) = {d.queue[k] : k \in 1 .. Len(d.queue)}
  BY <1>2, DOMAIN d.queue = 1 .. Len(d.queue) DEF ToSet, Dirts
<1> SUFFICES ASSUME NEW h \in DirtyBelow(d, root)
             PROVE  h \in Subtree(root) /\ d.queued[Index(h)] /\ Direct(dirt.flags[Index(h)])
  BY DEF d
<1>4. h \in ToSet(d.queue) /\ h \in Subtree(root) /\ h \in LiveHandles
  BY DEF DirtyBelow, Subtree
<1>5. Has(d.queue, h) /\ Index(h) \in Slots /\ h = <<Index(h), generation[Index(h)]>> /\ alive[Index(h)]
  BY <1>1, <1>3, <1>4, ParentLives DEF Has, Live
<1>6. d.queued[Index(h)]
  BY <1>2, <1>5 DEF QueueSound
<1> QED BY <1>2, <1>4, <1>5, <1>6 DEF QueueSound

LEMMA LayoutApart ==
  ASSUME DirtyInv, NEW root \in issued, NEW size, Layout(root, size)
  PROVE  PassesApart'
<1> DEFINE d == Compacted(dirt)
           nodes == DirtyBelow(d, root)
<1>1. /\ TreeInv /\ root \in LiveHandles /\ UNCHANGED treeVars /\ done'.root = root
      /\ done'.strategy \in Strategies(d, root, size)
      /\ done'.roots = CASE done'.strategy = "full"  -> {root}
                         [] done'.strategy = "dirty" -> RecomputeRoots(root, nodes)
                         [] OTHER                    -> {}
  BY LayoutDoes DEF DirtyInv
<1>2. \A h \in nodes : h \in Subtree(root) /\ Direct(dirt.flags[Index(h)])
  BY <1>1, DirtyBelowIs
<1>3. d.flags = dirt.flags
  BY DEF Compacted, DirtyInv, DirtySound, Dirts
<1>4. done'.strategy = "dirty" => ~Direct(dirt.flags[Index(root)])
  BY <1>1, <1>3 DEF Strategies
<1> HIDE DEF d, nodes
<1>5. CASE done'.strategy = "dirty"
  <2>1. \A h \in nodes : Promoted(h, root) \in Subtree(root)
    BY <1>1, <1>2, <1>4, <1>5, PromotedBelow
  <2>2. done'.roots = RecomputeRoots(root, nodes)
    BY <1>1, <1>5
  <2>3. ASSUME NEW r \in done'.roots
        PROVE  r \in Subtree(root) /\ \A s \in done'.roots \ {r} : r \notin Subtree(s)
    BY <2>1, <2>2 DEF RecomputeRoots, Nested, Subtree
  <2> QED BY <1>1, <2>3, SameSubtrees DEF PassesApart
<1>6. CASE done'.strategy # "dirty"
  <2>1. done'.roots \subseteq {root}
    BY <1>1, <1>6
  <2>2. root \in Subtree(root)
    BY <1>1, ChainSelf DEF Subtree
  <2> QED BY <1>1, <2>1, <2>2, SameSubtrees DEF PassesApart
<1> QED BY <1>5, <1>6

\* Every other step begins a state in which no pass has just ended.
LEMMA NoPassOtherwise ==
  ASSUME [DriverNext]_driverVars
  PROVE  \/ UNCHANGED driverVars
         \/ done' = NoPass
         \/ \E h \in issued, size \in Sizes : Layout(h, size)
BY DEF DriverNext, Pass, Change, LayoutFails, DriverCreate, DriverPlace, DriverRemove, DriverDestroyBegin,
       DriverSetColumn, DriverSetDirection, SetKind, DriverInvalidateAll, DriverWalkStep, Outdate

(***************************************************************************)
(* A pass starts from roots below the layout root, none of them below      *)
(* another, also when blocks cannot be had.                                *)
(***************************************************************************)
THEOREM PassesStayApart == DriverSpec => []PassesApart
<1>1. DriverInit => PassesApart
  BY DEF DriverInit, PassesApart, NoPass
<1>2. DirtyInv /\ PassesApart /\ [DriverNext]_driverVars => PassesApart'
  <2> SUFFICES ASSUME DirtyInv, PassesApart, [DriverNext]_driverVars PROVE PassesApart'
    OBVIOUS
  <2>1. CASE UNCHANGED driverVars
    BY <2>1 DEF driverVars, PassesApart, Subtree, LiveHandles, Live, OnChain, UpClosed
  <2>2. CASE done' = NoPass
    BY <2>2 DEF PassesApart, NoPass
  <2>3. ASSUME NEW h \in issued, NEW size, Layout(h, size) PROVE PassesApart'
    BY <2>3, LayoutApart
  <2> QED BY <2>1, <2>2, <2>3, NoPassOtherwise
<1> QED BY <1>1, <1>2, DriverStaysSound, PTL DEF DriverSpec

-----------------------------------------------------------------------------
(* Chains.                                                                 *)

\* Of two slots above a third, one is above the other.
LEMMA ChainLinear ==
  ASSUME NEW t \in Columns, NEW i \in Slots, NEW j, NEW k, OnChain(t, i, j), OnChain(t, i, k)
  PROVE  OnChain(t, j, k) \/ OnChain(t, k, j)
<1> DEFINE S == {x \in Slots : OnChain(t, x, j) \/ OnChain(t, j, x)}
<1>1. i \in S /\ S \in SUBSET Slots
  OBVIOUS
<1>2. UpClosed(t, S)
  <2> SUFFICES ASSUME NEW x \in S, t.parent[x] # Null PROVE Index(t.parent[x]) \in S
    BY DEF UpClosed
  <2> DEFINE y == Index(t.parent[x])
  <2>1. y \in Slots /\ OnChain(t, x, y)
    BY ChainSelf, ChainDown, ChainInSlots
  <2>2. CASE OnChain(t, j, x) \/ x = j
    BY <2>1, <2>2, ChainTransitive
  <2>3. CASE OnChain(t, x, j) /\ x # j
    BY <2>1, <2>3, ChainUp
  <2> QED BY <2>2, <2>3
<1>3. k \in S
  <2> HIDE DEF S
  <2> QED BY <1>1, <1>2 DEF OnChain
<1> QED BY <1>3

\* Two slots above each other are the same.
LEMMA ChainSame ==
  ASSUME NEW t \in Columns, Forest(t), NEW i \in Slots, NEW j, OnChain(t, i, j), OnChain(t, j, i)
  PROVE  i = j
<1> SUFFICES ASSUME i # j PROVE FALSE
  OBVIOUS
<1>1. t.parent[i] # Null /\ OnChain(t, Index(t.parent[i]), j)
  BY ChainUp
<1>2. OnChain(t, Index(t.parent[i]), i)
  BY <1>1, ChainTransitive
<1> QED BY <1>1, <1>2, ChainNoRing

\* A chain that a cut breaks led through the cut.
LEMMA ChainBroken ==
  ASSUME NEW t, NEW u, NEW c, Cut(t, u, c), NEW i, NEW j, OnChain(t, i, j), ~OnChain(u, i, j)
  PROVE  OnChain(u, i, c) /\ OnChain(t, i, c) /\ OnChain(t, c, j)
<1>1. PICK S \in SUBSET Slots : i \in S /\ UpClosed(u, S) /\ j \notin S
  BY DEF OnChain
<1>2. OnChain(u, i, c)
  <2> SUFFICES ASSUME NEW T \in SUBSET Slots, i \in T, UpClosed(u, T), c \notin T PROVE FALSE
    BY DEF OnChain
  <2>1. UpClosed(t, S \cap T)
    BY <1>1 DEF UpClosed, Cut
  <2> QED BY <1>1, <2>1 DEF OnChain
<1>3. OnChain(t, c, j)
  <2> SUFFICES ASSUME NEW T \in SUBSET Slots, c \in T, UpClosed(t, T) PROVE j \in T
    BY DEF OnChain
  <2>1. UpClosed(t, S \cup T)
    BY <1>1 DEF UpClosed, Cut
  <2> QED BY <1>1, <2>1 DEF OnChain
<1> QED BY <1>2, <1>3, ChainCut

\* Below a cut, no chain leads past the cut.
LEMMA CutApart ==
  ASSUME NEW t, NEW u \in Columns, NEW c \in Slots, Cut(t, u, c),
         NEW i \in Slots, OnChain(t, i, c), NEW r, OnChain(u, i, r)
  PROVE  OnChain(t, r, c)
<1>1. OnChain(u, i, c) /\ u.parent[c] = Null
  BY ChainCut DEF Cut
<1>2. OnChain(u, r, c) \/ OnChain(u, c, r)
  BY <1>1, ChainLinear
<1>3. OnChain(u, c, r) => r = c
  BY <1>1, ChainUp
<1> QED BY <1>2, <1>3, ChainSelf, ChainCut

\* A cut that leaves r above i leaves all that stood between them.
LEMMA CutBetween ==
  ASSUME NEW t \in Columns, Forest(t), NEW u \in Columns, NEW c \in Slots, Cut(t, u, c),
         NEW i \in Slots, NEW b, NEW r, OnChain(t, i, b), OnChain(t, b, r), OnChain(u, i, r)
  PROVE  OnChain(u, i, b) /\ OnChain(u, b, r)
<1>1. b \in Slots /\ r \in Slots
  BY ChainInSlots
<1>2. OnChain(u, i, b)
  <2> SUFFICES ASSUME ~OnChain(u, i, b) PROVE FALSE
    OBVIOUS
  <2>1. OnChain(u, i, c) /\ OnChain(t, i, c) /\ OnChain(t, c, b)
    BY ChainBroken
  <2>2. OnChain(t, r, c)
    BY <2>1, CutApart
  <2>3. b = c
    <3>1. OnChain(t, b, c)
      BY <2>2, ChainTransitive
    <3> QED BY <1>1, <2>1, <3>1, ChainSame
  <2> QED BY <2>1, <2>3
<1>3. OnChain(u, b, r) \/ OnChain(u, r, b)
  BY <1>2, ChainLinear
<1>4. OnChain(u, r, b) => b = r
  BY <1>1, ChainCut, ChainSame
<1> QED BY <1>2, <1>3, <1>4, ChainSelf

\* A chain that hanging c below another node makes leads through that node.
LEMMA HungThrough ==
  ASSUME NEW v \in Columns, NEW u, NEW c \in Slots, Cut(v, u, c), v.parent[c] # Null,
         NEW i \in Slots, NEW r, OnChain(v, i, r), ~OnChain(u, i, r)
  PROVE  OnChain(v, i, Index(v.parent[c])) /\ OnChain(v, Index(v.parent[c]), r)
<1>1. OnChain(u, i, c) /\ OnChain(v, i, c) /\ OnChain(v, c, r)
  BY ChainBroken
<1>2. c # r
  BY <1>1
<1>3. OnChain(v, Index(v.parent[c]), r)
  BY <1>1, <1>2, ChainUp
<1>4. OnChain(v, c, Index(v.parent[c]))
  BY ChainSelf, ChainDown
<1> QED BY <1>1, <1>3, <1>4, ChainTransitive

-----------------------------------------------------------------------------
(* What the queue covers.                                                  *)

\* The slots of nodes that need a pass: those of dirty nodes, and those whose
\* boxes in S are out of date.
Needy(a, flags, S) == {i \in Slots : a[i] /\ Direct(flags[i])} \cup {Index(h) : h \in S}

\* Boxes out of date whose being so is the driver's concern: in trees that are
\* not steady a partial pass may leave boxes out of date for good.
Pending == {x \in stale : OnlySteady}

\* Between slot i and slot r stands a queued node.
Covered(t, r, i, queued) == \E b \in Slots : queued[b] /\ OnChain(t, i, b) /\ OnChain(t, b, r)

Covers(t, r, N, queued) == \A i \in N : OnChain(t, i, r) => Covered(t, r, i, queued)

(***************************************************************************)
(* The queue covers every node below the last layout root that needs a     *)
(* pass: a later layout of the same root looks at nothing else.            *)
(***************************************************************************)
Covering ==
  Live(last.root) =>
    Covers(topo, Index(last.root), Needy(alive, dirt.flags, Pending), dirt.queued)

\* The histories agree with what the context remembers.
Remembered ==
  /\ stale \subseteq LiveHandles
  /\ last = [root |-> last.root, size |-> last.size, nodes |-> last.nodes]
  /\ last.root \in issued \cup {Null}
  /\ last.root # Null => shown = [root |-> last.root, size |-> last.size]

DriverInv == DirtyInv /\ SteadyTree /\ Remembered /\ Covering

(***************************************************************************)
(* Room in the queue for what one call marks, or memory to make it: when   *)
(* the queue cannot grow a dirty node is left out of it, and the next      *)
(* layout may pass it by.                                                  *)
(***************************************************************************)
Roomy == ~Faults \/ Len(dirt.queue) + 1 < dirt.cap

\* A marked node is queued, if there is room, and only it may become dirty.
LEMMA MarkQueues ==
  ASSUME NEW d \in Dirts, NEW t, NEW h \in Handles, NEW flags \in SUBSET Flags,
         NEW e \in Marked(d, t, h, flags)
  PROVE  /\ e \in Dirts
         /\ StaysQueued(d, e)
         /\ \A j \in Slots : Direct(e.flags[j]) => Direct(d.flags[j]) \/ j = Index(h)
         /\ ~Faults \/ Len(d.queue) < d.cap => e.queued[Index(h)]
         /\ Len(e.queue) <= Len(d.queue) + 1 /\ e.cap >= d.cap
<1>1. MarksIn(d, e, t, h, flags) /\ Index(h) \in Slots
  BY MarkWrites, HandlePair
<1>2. e \in Dirts /\ StaysQueued(d, e)
  BY <1>1 DEF MarksIn, SameQueue, Enters, StaysQueued, Dirts
<1>3. \A j \in Slots : Direct(e.flags[j]) => Direct(d.flags[j]) \/ j = Index(h)
  BY <1>1 DEF MarksIn, Spreads, Direct
<1>4. Direct(e.flags[Index(h)])
  BY <1>1 DEF MarksIn, Spreads, Direct
<1> DEFINE i == Index(h)
           spread == [j \in Slots |->
                        IF j = i THEN d.flags[j] \cup flags \cup {"self"}
                        ELSE IF OnChain(t, i, j) THEN d.flags[j] \cup {"subtree"}
                        ELSE d.flags[j]]
           m == [d EXCEPT !.flags = spread]
<1>5. e \in Queued(m, h)
  BY DEF Marked
<1>6. m.queued = d.queued /\ m.queue = d.queue /\ m.cap = d.cap /\ m.flags[i] = d.flags[i] \cup flags \cup {"self"}
  BY <1>1 DEF Dirts
<1>7. m \in [flags : [Slots -> SUBSET Flags], queued : [Slots -> BOOLEAN], queue : Seq(Handles), cap : Nat]
  BY DEF Flags, Dirts
<1>8. Direct(m.flags[i])
  BY <1>6 DEF Direct
<1>9. /\ Len(d.queue) \in Nat /\ d.cap \in Nat
      /\ Len(Append(d.queue, h)) = Len(d.queue) + 1
  BY AppendProperties, LenProperties DEF Dirts
<1> DEFINE put(cap) == [m EXCEPT !.queued[i] = TRUE, !.queue = Append(@, h), !.cap = cap]
           room == IF m.cap = 0 THEN QueueChunk ELSE 2 * m.cap
<1>10. \/ m.queued[i] /\ e = m
       \/ Len(m.queue) < m.cap /\ e = put(m.cap)
       \/ ~(Len(m.queue) < m.cap) /\ (e = put(room) \/ (Faults /\ e = m))
  <2> HIDE DEF m
  <2> QED BY <1>5, <1>8 DEF Queued
<1> HIDE DEF m
<1>11. ASSUME NEW cap
       PROVE  put(cap).queued[i] = TRUE /\ put(cap).queue = Append(m.queue, h) /\ put(cap).cap = cap
  BY <1>1, <1>7
<1> HIDE DEF put
<1>12. ~Faults \/ Len(d.queue) < d.cap => e.queued[i]
  BY <1>6, <1>10, <1>11
<1>13. Len(e.queue) <= Len(d.queue) + 1 /\ e.cap >= d.cap
  <2>1. room \in Nat /\ room >= m.cap
    BY <1>6, <1>9, QueueAssumption
  <2>2. CASE e = m
    BY <1>6, <1>9, <2>2
  <2> HIDE DEF room
  <2>3. ASSUME NEW cap \in Nat, cap >= m.cap, e = put(cap)
        PROVE  Len(e.queue) <= Len(d.queue) + 1 /\ e.cap >= d.cap
    <3>1. e.queue = Append(d.queue, h) /\ e.cap = cap
      BY <1>6, <1>11, <2>3
    <3> QED BY <1>6, <1>9, <2>3, <3>1
  <2> QED BY <1>6, <1>9, <1>10, <2>1, <2>2, <2>3
<1> QED BY <1>2, <1>3, <1>12, <1>13

-----------------------------------------------------------------------------
(* The changes keep the queue covering.                                    *)

\* A queued node covers itself.
LEMMA SelfCovered ==
  ASSUME NEW t, NEW r, NEW i \in Slots, NEW queued, queued[i], OnChain(t, i, r)
  PROVE  Covered(t, r, i, queued)
BY ChainSelf DEF Covered

\* With more nodes queued, no less is covered.
LEMMA CoveredMore ==
  ASSUME NEW t, NEW r, NEW i, NEW d, NEW e, Covered(t, r, i, d.queued), StaysQueued(d, e)
  PROVE  Covered(t, r, i, e.queued)
BY DEF Covered, StaysQueued

\* What is to be shown of a step that puts the boxes of nodes out of date and
\* makes the slots in M dirty.
LEMMA CoverStep ==
  ASSUME NEW nodes, Outdate(nodes), NEW r, NEW M,
         \A i \in Slots : alive'[i] /\ Direct(dirt'.flags[i]) => i \in M \/ (alive[i] /\ Direct(dirt.flags[i])),
         Covers(topo', r, M, dirt'.queued),
         Covers(topo', r, {Index(h) : h \in {n \in nodes : Live(n)'}}, dirt'.queued),
         Covers(topo', r, Needy(alive, dirt.flags, Pending), dirt'.queued)
  PROVE  Covers(topo', r, Needy(alive', dirt'.flags, Pending'), dirt'.queued)
<1> DEFINE H == {n \in nodes : Live(n)'}
<1>1. Pending' \subseteq Pending \cup H
  BY DEF Outdate, Pending
<1> HIDE DEF H
<1> QED BY <1>1 DEF Covers, Needy, H

LEMMA RememberedKept ==
  ASSUME Remembered, NEW nodes, Outdate(nodes), UNCHANGED <<last, shown>>,
         issued \subseteq issued', nodes \subseteq issued'
  PROVE  Remembered'
BY DEF Remembered, Outdate, LiveHandles

\* Nothing about the tree changes.
LEMMA SameTree ==
  ASSUME UNCHANGED treeVars
  PROVE  UNCHANGED <<topo, alive, generation, issued>> /\ \A h : Live(h)' <=> Live(h)
BY DEF treeVars, Live

\* Below a node whose direction changes, the boxes that a layout of the last
\* root looks at are below that root and the node.
LEMMA InheritingSeen ==
  ASSUME TreeInv, NEW h \in LiveHandles, last.root \in LiveHandles,
         NEW x \in Inheriting(h)
  PROVE  /\ x \in LiveHandles /\ OnChain(topo, Index(x), Index(h))
         /\ OnChain(topo, Index(x), Index(last.root)) => OnChain(topo, Index(h), Index(last.root))
<1> DEFINE R == Index(last.root)
<1>1. x \in LiveHandles /\ OnChain(topo, Index(x), Index(h))
  BY DEF Inheriting, Subtree
<1>2. ASSUME OnChain(topo, Index(x), R) PROVE OnChain(topo, Index(h), R)
  <2>1. x \in Subtree(last.root)
    BY <1>1, <1>2 DEF Subtree
  <2>2. last.root \notin Subtree(h) \ {h}
    BY <2>1 DEF Inheriting
  <2>3. OnChain(topo, R, Index(h)) => R = Index(h)
    BY <2>2 DEF Subtree
  <2>4. OnChain(topo, Index(h), R) \/ OnChain(topo, R, Index(h))
    BY <1>1, <1>2, TreeFacts, ParentLives, ChainLinear
  <2> QED BY <2>3, <2>4, ChainSelf
<1> QED BY <1>1, <1>2

LEMMA SetKeeps ==
  ASSUME DriverInv, Roomy, NEW h \in issued, NEW marks \in SUBSET Flags, SetColumn(h, marks),
         NEW nodes, nodes \subseteq Inheriting(h) \cup {h}, Outdate(nodes), UNCHANGED <<last, shown>>
  PROVE  Remembered' /\ Covering'
<1>1. /\ UNCHANGED treeVars /\ Live(h) /\ dirt' \in Marked(dirt, topo, h, marks)
      /\ dirt \in Dirts /\ TreeInv /\ h \in Handles /\ h \in LiveHandles
  BY TreeFacts DEF SetColumn, DriverInv, DirtyInv, DirtySound, LiveHandles
<1>2. UNCHANGED <<topo, alive, generation, issued>> /\ \A g : Live(g)' <=> Live(g)
  BY <1>1, SameTree
<1>3. nodes \subseteq issued'
  BY <1>2 DEF Inheriting, Subtree, LiveHandles
<1>4. Remembered'
  BY <1>2, <1>3, RememberedKept DEF DriverInv
<1> DEFINE R == Index(last.root)
           N == Needy(alive, dirt.flags, Pending)
<1>5. SUFFICES ASSUME Live(last.root)
               PROVE  Covers(topo', R, Needy(alive', dirt'.flags, Pending'), dirt'.queued)
  BY <1>2, <1>4 DEF Covering
<1>6. Covers(topo, R, N, dirt.queued) /\ last.root \in LiveHandles
  BY <1>5, LiveNode DEF DriverInv, Covering, Remembered, LiveHandles
<1>7. /\ dirt'.queued[Index(h)] /\ StaysQueued(dirt, dirt')
      /\ \A j \in Slots : Direct(dirt'.flags[j]) => Direct(dirt.flags[j]) \/ j = Index(h)
  <2>1. ~Faults \/ Len(dirt.queue) < dirt.cap
    <3>1. Len(dirt.queue) \in Nat /\ dirt.cap \in Nat
      BY <1>1, LenProperties DEF Dirts
    <3> QED BY <3>1 DEF Roomy
  <2> QED BY <1>1, <2>1, MarkQueues
<1>8. Index(h) \in Slots
  BY <1>1, HandlePair
<1>9. Covers(topo', R, N, dirt'.queued)
  BY <1>2, <1>6, <1>7, CoveredMore DEF Covers
<1>10. Covers(topo', R, {Index(h)}, dirt'.queued)
  BY <1>2, <1>7, <1>8, SelfCovered DEF Covers
<1>11. Covers(topo', R, {Index(g) : g \in {n \in nodes : Live(n)'}}, dirt'.queued)
  <2> SUFFICES ASSUME NEW x \in nodes, OnChain(topo, Index(x), R)
               PROVE  Covered(topo, R, Index(x), dirt'.queued)
    BY <1>2 DEF Covers
  <2>1. OnChain(topo, Index(x), Index(h)) /\ OnChain(topo, Index(h), R)
    BY <1>1, <1>6, InheritingSeen, ChainSelf
  <2> QED BY <1>7, <1>8, <2>1 DEF Covered
<1> HIDE DEF N, R
<1>12. \A i \in Slots : alive'[i] /\ Direct(dirt'.flags[i]) => i \in {Index(h)} \/ (alive[i] /\ Direct(dirt.flags[i]))
  BY <1>2, <1>7
<1> QED BY <1>9, <1>10, <1>11, <1>12, CoverStep DEF N

\* A global invalidation queues nothing, and forgets the root.
LEMMA InvalidateKeeps ==
  ASSUME DriverInv, DriverInvalidateAll
  PROVE  Remembered' /\ Covering'
<1>1. UNCHANGED treeVars /\ Outdate(LiveHandles) /\ last' = [last EXCEPT !.root = Null, !.size = Unbounded]
  BY DEF DriverInvalidateAll, InvalidateAll
<1>2. UNCHANGED <<topo, alive, generation, issued>> /\ \A g : Live(g)' <=> Live(g)
  BY <1>1, SameTree
<1>3. last' = [root |-> Null, size |-> Unbounded, nodes |-> last.nodes]
  BY <1>1 DEF DriverInv, Remembered
<1>4. ~Live(Null)
  BY NullOutside DEF Live
<1>5. Covering'
  BY <1>2, <1>3, <1>4 DEF Covering
<1>6. Remembered'
  BY <1>1, <1>2, <1>3 DEF DriverInv, Remembered, Outdate, LiveHandles
<1> QED BY <1>5, <1>6

\* Cutting a node off: what was covered and is still below the root stays so.
LEMMA CutCovers ==
  ASSUME NEW t \in Columns, Forest(t), NEW u \in Columns, NEW c \in Slots, Cut(t, u, c),
         NEW r, NEW N \in SUBSET Slots, NEW queued, Covers(t, r, N, queued)
  PROVE  Covers(u, r, N, queued)
<1> SUFFICES ASSUME NEW i \in N, OnChain(u, i, r) PROVE Covered(u, r, i, queued)
  BY DEF Covers
<1>1. OnChain(t, i, r)
  BY ChainCut
<1>2. PICK b \in Slots : queued[b] /\ OnChain(t, i, b) /\ OnChain(t, b, r)
  BY <1>1 DEF Covers, Covered
<1>3. OnChain(u, i, b) /\ OnChain(u, b, r)
  BY <1>2, CutBetween
<1> QED BY <1>2, <1>3 DEF Covered

\* Hanging c below a queued node: what comes to lie below the root is covered
\* by that node.
LEMMA HungCovers ==
  ASSUME NEW v \in Columns, NEW u, NEW c \in Slots, Cut(v, u, c), v.parent[c] # Null,
         NEW r, NEW N \in SUBSET Slots, NEW queued, Covers(u, r, N, queued), queued[Index(v.parent[c])]
  PROVE  Covers(v, r, N, queued)
<1> SUFFICES ASSUME NEW i \in N, OnChain(v, i, r) PROVE Covered(v, r, i, queued)
  BY DEF Covers
<1>1. CASE OnChain(u, i, r)
  <2>1. PICK b \in Slots : queued[b] /\ OnChain(u, i, b) /\ OnChain(u, b, r)
    BY <1>1 DEF Covers, Covered
  <2> QED BY <2>1, ChainCut DEF Covered
<1>2. CASE ~OnChain(u, i, r)
  <2>1. OnChain(v, i, Index(v.parent[c])) /\ OnChain(v, Index(v.parent[c]), r)
    BY <1>2, HungThrough
  <2>2. Index(v.parent[c]) \in Slots
    BY <2>1, ChainInSlots
  <2> QED BY <2>1, <2>2 DEF Covered
<1> QED BY <1>1, <1>2

LEMMA NeedySlots ==
  ASSUME TreeInv, NEW flags, stale \in SUBSET LiveHandles
  PROVE  Needy(alive, flags, Pending) \in SUBSET Slots
BY ParentLives DEF Needy, Pending

\* When c is cut off, none of the boxes that its moving puts out of date lies
\* below the last root.
LEMMA MovedUnseen ==
  ASSUME TreeInv, NEW c \in LiveHandles, last.root \in LiveHandles,
         NEW u \in Columns, Cut(topo, u, Index(c)), NEW x \in Moved(c)
  PROVE  x \in LiveHandles /\ ~OnChain(u, Index(x), Index(last.root))
<1> DEFINE R == Index(last.root)
<1>1. c # last.root
  BY DEF Moved
<1>2. /\ x \in LiveHandles /\ OnChain(topo, Index(x), Index(c))
      /\ OnChain(topo, Index(x), R) => OnChain(topo, Index(c), R)
  BY <1>1, InheritingSeen DEF Moved
<1>3. ASSUME OnChain(u, Index(x), R) PROVE FALSE
  <2>1. OnChain(topo, R, Index(c))
    BY <1>2, <1>3, ParentLives, CutApart
  <2>2. OnChain(topo, Index(c), R)
    BY <1>2, <1>3, ChainCut
  <2>3. Index(c) = R
    BY <2>1, <2>2, TreeFacts, ParentLives, ChainSame
  <2> QED BY <1>1, <2>3, LiveSame
<1> QED BY <1>2, <1>3

\* The parent of a removed or destroyed node is marked, if it has one.
LEMMA CutKeeps ==
  ASSUME DriverInv, Roomy, UNCHANGED slotVars, NEW c \in LiveHandles,
         topo' \in Columns, Cut(topo, topo', Index(c)),
         NEW p, p = Parent(c), dirt' \in IF p = Null THEN {dirt} ELSE Marked(dirt, topo', p, ParentMarks),
         NEW nodes, nodes \subseteq ({p} \ {Null}) \cup Moved(c), Outdate(nodes), UNCHANGED <<last, shown>>
  PROVE  Remembered' /\ Covering'
<1>1. /\ TreeInv /\ topo \in Columns /\ Forest(topo) /\ dirt \in Dirts /\ Index(c) \in Slots
      /\ p \in Link /\ (p # Null => p \in LiveHandles /\ p \in Handles)
  BY TreeFacts, ParentLives DEF DriverInv, DirtyInv, DirtySound, LiveHandles
<1>2. UNCHANGED <<alive, generation, issued>> /\ \A g : Live(g)' <=> Live(g)
  BY DEF slotVars, Live
<1>3. Remembered'
  <2>1. Moved(c) \subseteq issued
    BY DEF Moved, Inheriting, Subtree, LiveHandles
  <2> QED BY <1>1, <1>2, <2>1, RememberedKept DEF DriverInv, LiveHandles
<1> DEFINE R == Index(last.root)
           N == Needy(alive, dirt.flags, Pending)
           M == {Index(g) : g \in {p} \ {Null}}
<1>4. SUFFICES ASSUME Live(last.root)
               PROVE  Covers(topo', R, Needy(alive', dirt'.flags, Pending'), dirt'.queued)
  BY <1>2, <1>3 DEF Covering
<1>5. Covers(topo, R, N, dirt.queued) /\ last.root \in LiveHandles /\ N \in SUBSET Slots
  BY <1>1, <1>4, LiveNode, NeedySlots DEF DriverInv, Covering, Remembered, LiveHandles
<1>6. /\ \A i \in M : i \in Slots /\ dirt'.queued[i]
      /\ StaysQueued(dirt, dirt')
      /\ \A j \in Slots : Direct(dirt'.flags[j]) => Direct(dirt.flags[j]) \/ j \in M
  <2>1. CASE p = Null
    BY <2>1 DEF StaysQueued
  <2>2. CASE p # Null
    <3>1. ~Faults \/ Len(dirt.queue) < dirt.cap
      <4>1. Len(dirt.queue) \in Nat /\ dirt.cap \in Nat
        BY <1>1, LenProperties DEF Dirts
      <4> QED BY <4>1 DEF Roomy
    <3>2. ParentMarks \in SUBSET Flags
      BY DEF ParentMarks, Flags
    <3>3. /\ dirt'.queued[Index(p)] /\ StaysQueued(dirt, dirt')
          /\ \A j \in Slots : Direct(dirt'.flags[j]) => Direct(dirt.flags[j]) \/ j = Index(p)
      BY <1>1, <2>2, <3>1, <3>2, MarkQueues
    <3> QED BY <1>1, <2>2, <3>3, HandlePair
  <2> QED BY <2>1, <2>2
<1>7. Covers(topo', R, N, dirt'.queued)
  <2>1. Covers(topo', R, N, dirt.queued)
    BY <1>1, <1>5, CutCovers
  <2> QED BY <1>6, <2>1, CoveredMore DEF Covers
<1>8. Covers(topo', R, M, dirt'.queued)
  BY <1>6, SelfCovered DEF Covers
<1>9. Covers(topo', R, {Index(g) : g \in {n \in nodes : Live(n)'}}, dirt'.queued)
  <2> SUFFICES ASSUME NEW x \in nodes, OnChain(topo', Index(x), R)
               PROVE  Covered(topo', R, Index(x), dirt'.queued)
    BY DEF Covers
  <2>1. CASE x \in {p} \ {Null}
    BY <1>8, <2>1 DEF Covers
  <2>2. CASE x \in Moved(c)
    BY <1>1, <1>5, <2>2, MovedUnseen
  <2> QED BY <2>1, <2>2
<1> HIDE DEF N, R, M
<1>10. \A i \in Slots : alive'[i] /\ Direct(dirt'.flags[i]) => i \in M \/ (alive[i] /\ Direct(dirt.flags[i]))
  BY <1>2, <1>6
<1> QED BY <1>7, <1>8, <1>9, <1>10, CoverStep DEF N

LEMMA RemoveKeeps ==
  ASSUME DriverInv, Roomy, NEW p \in LiveHandles, NEW c \in LiveHandles, DriverRemove(p, c)
  PROVE  Remembered' /\ Covering'
<1>1. /\ topo.parent[Index(c)] = p /\ topo' = Unlink(topo, Index(p), Index(c))
      /\ UNCHANGED slotVars /\ UNCHANGED <<last, shown>>
      /\ dirt' \in Marked(dirt, topo', p, ParentMarks) /\ Outdate({p} \cup Moved(c))
  BY DEF DriverRemove, DirtyRemove, NodeRemove
<1>2. Index(c) \in Slots /\ p # Null /\ TreeInv
  BY ParentLives, LiveNode DEF DriverInv, DirtyInv, LiveHandles
<1>3. topo' = Loose(Index(c))
  BY <1>1, <1>2 DEF Loose
<1>4. Cut(topo, topo', Index(c)) /\ topo' \in Columns
  BY <1>2, <1>3, LooseTree DEF TreeInv
<1> QED BY <1>1, <1>2, <1>4, CutKeeps DEF Parent

LEMMA DestroyBeginKeeps ==
  ASSUME DriverInv, Roomy, NEW h \in issued, DriverDestroyBegin(h)
  PROVE  Remembered' /\ Covering'
<1> DEFINE i == Index(h)
<1>1. /\ topo' = Loose(i) /\ Live(h) /\ UNCHANGED slotVars /\ UNCHANGED <<last, shown>>
      /\ dirt' \in IF Parent(h) = Null THEN {dirt} ELSE Marked(dirt, topo', Parent(h), ParentMarks)
      /\ Outdate({Parent(h)} \ {Null})
  BY DEF DriverDestroyBegin, DirtyDestroyBegin, DestroyBegin, Loose, Parent
<1>2. i \in Slots /\ TreeInv /\ h \in LiveHandles
  BY <1>1, LiveNode DEF DriverInv, DirtyInv, LiveHandles
<1>3. Cut(topo, topo', i) /\ topo' \in Columns
  BY <1>1, <1>2, LooseTree DEF TreeInv
<1> QED BY <1>1, <1>2, <1>3, CutKeeps

LEMMA PlaceKeeps ==
  ASSUME DriverInv, TreeInv', Roomy, NEW p \in LiveHandles, NEW c \in LiveHandles, DriverPlace(p, c)
  PROVE  Remembered' /\ Covering'
<1> DEFINE j == Index(c)
           old == Parent(c)
           u == Loose(j)
           nodes == {p} \cup Moved(c) \cup ({old} \ {Null})
<1>1. /\ topo' = LinkBefore(u, p, c, Null) /\ UNCHANGED slotVars /\ UNCHANGED <<last, shown>>
      /\ Outdate(nodes)
  BY DEF DriverPlace, DirtyPlace, PlaceBefore, Loose
<1>2. PICK d \in IF old \in {Null, p} THEN {dirt} ELSE Marked(dirt, topo', old, ParentMarks) :
        dirt' \in Marked(d, topo', p, ParentMarks)
  BY DEF DriverPlace, DirtyPlace, Parent
<1>3. /\ TreeInv /\ topo \in Columns /\ Forest(topo) /\ dirt \in Dirts /\ j \in Slots
      /\ (old # Null => old \in LiveHandles /\ old \in Handles) /\ p \in Handles /\ p # Null
      /\ old \in Link
  BY TreeFacts, ParentLives, LiveNode DEF DriverInv, DirtyInv, DirtySound, LiveHandles
<1>4. u \in Columns /\ Cut(topo, u, j)
  BY <1>3, LooseTree DEF TreeInv
<1> HIDE DEF u
<1>5. topo'.parent = [u.parent EXCEPT ![j] = p]
  BY <1>1 DEF LinkBefore
<1>6. Cut(topo', u, j) /\ topo'.parent[j] = p /\ topo' \in Columns
  <2>1. (TreeInv => topo \in Columns)'
    BY TreeFacts, PTL
  <2> QED BY <1>3, <1>4, <1>5, <2>1 DEF Cut, Columns
<1>7. UNCHANGED <<alive, generation, issued>> /\ \A g : Live(g)' <=> Live(g)
  BY <1>1 DEF slotVars, Live
<1>8. Remembered'
  <2>1. Moved(c) \subseteq issued
    BY DEF Moved, Inheriting, Subtree, LiveHandles
  <2>2. nodes \subseteq issued
    BY <1>3, <2>1 DEF LiveHandles
  <2> HIDE DEF nodes
  <2> QED BY <1>1, <1>7, <2>2, RememberedKept DEF DriverInv
<1> DEFINE R == Index(last.root)
           N == Needy(alive, dirt.flags, Pending)
           M == {Index(g) : g \in {p} \cup ({old} \ {Null})}
<1>9. SUFFICES ASSUME Live(last.root)
               PROVE  Covers(topo', R, Needy(alive', dirt'.flags, Pending'), dirt'.queued)
  BY <1>1, <1>7, <1>8 DEF Covering
<1>10. Covers(topo, R, N, dirt.queued) /\ last.root \in LiveHandles /\ N \in SUBSET Slots
  BY <1>3, <1>9, LiveNode, NeedySlots DEF DriverInv, Covering, Remembered, LiveHandles
<1>11. /\ \A i \in M : i \in Slots /\ dirt'.queued[i]
       /\ StaysQueued(dirt, dirt')
       /\ \A i \in Slots : Direct(dirt'.flags[i]) => Direct(dirt.flags[i]) \/ i \in M
  <2>1. Len(dirt.queue) \in Nat /\ dirt.cap \in Nat /\ ParentMarks \in SUBSET Flags
    BY <1>3, LenProperties DEF Dirts, ParentMarks, Flags
  <2>2. /\ d \in Dirts /\ StaysQueued(dirt, d)
        /\ \A i \in Slots : Direct(d.flags[i]) => Direct(dirt.flags[i]) \/ i \in M
        /\ old \notin {Null, p} => d.queued[Index(old)]
        /\ ~Faults \/ Len(d.queue) < d.cap
    <3>1. CASE old \in {Null, p}
      BY <1>2, <1>3, <2>1, <3>1 DEF StaysQueued, Roomy
    <3>2. CASE old \notin {Null, p}
      <4>1. ~Faults \/ Len(dirt.queue) < dirt.cap
        BY <2>1 DEF Roomy
      <4>2. /\ d \in Dirts /\ StaysQueued(dirt, d) /\ d.queued[Index(old)]
            /\ \A i \in Slots : Direct(d.flags[i]) => Direct(dirt.flags[i]) \/ i = Index(old)
            /\ Len(d.queue) <= Len(dirt.queue) + 1 /\ d.cap >= dirt.cap
        BY <1>2, <1>3, <2>1, <3>2, <4>1, MarkQueues
      <4>3. Len(d.queue) \in Nat /\ d.cap \in Nat
        BY <4>2, LenProperties DEF Dirts
      <4>4. ~Faults \/ Len(d.queue) < d.cap
        BY <2>1, <4>2, <4>3 DEF Roomy
      <4> QED BY <3>2, <4>2, <4>4
    <3> QED BY <3>1, <3>2
  <2>3. /\ dirt'.queued[Index(p)] /\ StaysQueued(d, dirt')
        /\ \A i \in Slots : Direct(dirt'.flags[i]) => Direct(d.flags[i]) \/ i = Index(p)
    BY <1>2, <1>3, <2>1, <2>2, MarkQueues
  <2>4. Index(p) \in Slots /\ (old # Null => Index(old) \in Slots)
    BY <1>3, HandlePair
  <2>5. old \notin {Null, p} => dirt'.queued[Index(old)]
    BY <2>2, <2>3, <2>4 DEF StaysQueued
  <2>6. StaysQueued(dirt, dirt')
    BY <2>2, <2>3 DEF StaysQueued
  <2> HIDE DEF old
  <2> QED BY <2>2, <2>3, <2>4, <2>5, <2>6
<1>12. Covers(topo', R, N, dirt'.queued)
  <2>1. Covers(u, R, N, dirt.queued)
    BY <1>3, <1>4, <1>10, CutCovers
  <2>2. Covers(u, R, N, dirt'.queued)
    BY <1>11, <2>1, CoveredMore DEF Covers
  <2>3. dirt'.queued[Index(topo'.parent[j])]
    BY <1>6, <1>11
  <2> HIDE DEF N
  <2> QED BY <1>3, <1>6, <1>10, <2>2, <2>3, HungCovers
<1>13. Covers(topo', R, M, dirt'.queued)
  BY <1>11, SelfCovered DEF Covers
<1>14. Covers(topo', R, {Index(g) : g \in {n \in nodes : Live(n)'}}, dirt'.queued)
  <2> SUFFICES ASSUME NEW x \in nodes, OnChain(topo', Index(x), R)
               PROVE  Covered(topo', R, Index(x), dirt'.queued)
    BY DEF Covers
  <2>1. CASE x \in {p} \cup ({old} \ {Null})
    BY <1>13, <2>1 DEF Covers
  <2>2. CASE x \in Moved(c)
    <3>1. x \in LiveHandles /\ ~OnChain(u, Index(x), R)
      BY <1>3, <1>4, <1>10, <2>2, MovedUnseen
    <3>2. OnChain(topo', Index(x), Index(p)) /\ OnChain(topo', Index(p), R)
      BY <1>3, <1>6, <3>1, ParentLives, HungThrough
    <3> QED BY <1>11, <3>2 DEF Covered
  <2> QED BY <2>1, <2>2
<1> HIDE DEF N, R, M, nodes
<1>15. \A i \in Slots : alive'[i] /\ Direct(dirt'.flags[i]) => i \in M \/ (alive[i] /\ Direct(dirt.flags[i]))
  BY <1>7, <1>11
<1> QED BY <1>1, <1>12, <1>13, <1>14, <1>15, CoverStep DEF N

\* What a slot that is cut off covers beside itself: nothing, if it is a leaf.
LEMMA LeafCovers ==
  ASSUME NEW t \in Columns, Forest(t), NEW u \in Columns, NEW n \in Slots, Cut(t, u, n), Childless(t, n),
         NEW r, r # n, NEW N \in SUBSET Slots, NEW queued, Covers(t, r, N, queued),
         NEW others, \A b \in Slots : b # n /\ queued[b] => others[b]
  PROVE  Covers(u, r, N, others)
<1> SUFFICES ASSUME NEW i \in N, OnChain(u, i, r) PROVE Covered(u, r, i, others)
  BY DEF Covers
<1>1. i # n
  <2>1. u.parent[n] = Null
    BY DEF Cut
  <2> QED BY <2>1, ChainUp
<1>2. PICK b \in Slots : queued[b] /\ OnChain(t, i, b) /\ OnChain(t, b, r)
  BY ChainCut DEF Covers, Covered
<1>3. b # n
  BY <1>1, <1>2, ChainLeaf
<1>4. OnChain(u, i, b) /\ OnChain(u, b, r)
  BY <1>2, CutBetween
<1> QED BY <1>2, <1>3, <1>4 DEF Covered

LEMMA CreateKeeps ==
  ASSUME DriverInv, TreeInv', Roomy, DriverCreate
  PROVE  Remembered' /\ Covering'
<1> DEFINE n == NextSlot
<1>1. /\ Create /\ TreeInv /\ dirt \in Dirts /\ UNCHANGED <<last, shown>>
  BY DEF DriverCreate, DirtyCreate, DriverInv, DirtyInv, DirtySound
<1>2. /\ n \in Slots /\ ~alive[n] /\ topo \in Columns /\ Forest(topo) /\ alive \in [Slots -> BOOLEAN]
      /\ generation \in [Slots -> 0 .. MaxGen] /\ issued \in SUBSET Handles
  BY <1>1, CreateSparesLive, TreeFacts DEF SlotsInv, SlotsTypeOK
<1>3. PICK h \in Handles : /\ Index(h) = n /\ h \notin issued
                           /\ issued' = issued \cup {h}
                           /\ alive' = [alive EXCEPT ![n] = TRUE]
                           /\ generation' = [generation EXCEPT ![n] = Generation(h)]
  BY <1>1, CreateIssues
<1>4. topo' = ClearLinks(topo, n) /\ topo' \in Columns
  BY <1>1, <1>2, ClearColumns DEF Create
<1> HIDE DEF n
<1>5. h = <<n, generation'[n]>>
  BY <1>2, <1>3, HandlePair
<1>6. dirt' \in Marked(Forgotten(dirt, n), topo', h, {"layout"}) /\ Outdate({h})
  BY <1>5 DEF DriverCreate, DirtyCreate, n
<1>7. Cut(topo, topo', n) /\ Childless(topo, n)
  BY <1>1, <1>2, <1>4, DeadSlotChildless DEF ClearLinks, Cut, Columns
<1>8. \A g \in issued : Live(g)' => Live(g) /\ Index(g) # n
  <2> SUFFICES ASSUME NEW g \in issued, Live(g)' PROVE Live(g) /\ Index(g) # n
    OBVIOUS
  <2>1. g \in Handles /\ Index(g) \in Slots
    BY <1>2, HandlePair
  <2>2. Index(g) # n
    BY <1>2, <1>3, <2>1, HandlePair DEF Live
  <2> QED BY <1>2, <1>3, <2>1, <2>2 DEF Live
<1>9. Remembered'
  BY <1>1, <1>3, <1>6, RememberedKept DEF DriverInv
<1> DEFINE R == Index(last.root)
           N == Needy(alive, dirt.flags, Pending)
<1>10. SUFFICES ASSUME Live(last.root)'
                PROVE  Covers(topo', R, Needy(alive', dirt'.flags, Pending'), dirt'.queued)
  BY <1>1, <1>9 DEF Covering
<1>11. /\ last.root \in issued /\ Live(last.root) /\ R # n
  <2>1. last.root # Null
    <3>1. Index(last.root) \in Slots
      BY <1>1, <1>10 DEF Live
    <3> QED BY <3>1, NullOutside
  <2>2. last.root \in issued
    BY <2>1 DEF DriverInv, Remembered
  <2> QED BY <1>1, <1>8, <1>10, <2>2
<1>12. Covers(topo, R, N, dirt.queued) /\ N \in SUBSET Slots
  BY <1>1, <1>11, NeedySlots DEF DriverInv, Covering, Remembered
<1> DEFINE d == Forgotten(dirt, n)
<1>13. /\ d \in Dirts
       /\ \A j \in Slots : /\ d.flags[j] = IF j = n THEN {} ELSE dirt.flags[j]
                           /\ d.queued[j] <=> j # n /\ dirt.queued[j]
  BY <1>1, <1>2, ForgetWrites
<1>14. Len(dirt.queue) \in Nat /\ dirt.cap \in Nat /\ d.queue = dirt.queue /\ d.cap = dirt.cap
  BY <1>1, LenProperties DEF Dirts, Forgotten
<1> HIDE DEF d
<1>15. /\ dirt'.queued[n] /\ StaysQueued(d, dirt')
       /\ \A j \in Slots : Direct(dirt'.flags[j]) => Direct(d.flags[j]) \/ j = n
  <2>1. ~Faults \/ Len(d.queue) < d.cap
    BY <1>14 DEF Roomy
  <2>2. PICK marks \in SUBSET Flags : dirt' \in Marked(d, topo', h, marks)
    BY <1>6 DEF Flags, d
  <2>3. /\ dirt'.queued[Index(h)] /\ StaysQueued(d, dirt')
        /\ \A j \in Slots : Direct(dirt'.flags[j]) => Direct(d.flags[j]) \/ j = Index(h)
    BY <1>13, <2>1, <2>2, MarkQueues
  <2>4. Index(h) = n
    BY <1>3
  <2> QED BY <2>3, <2>4
<1>16. Covers(topo', R, N, dirt'.queued)
  <2>1. \A b \in Slots : b # n /\ dirt.queued[b] => dirt'.queued[b]
    BY <1>13, <1>15 DEF StaysQueued
  <2> QED BY <1>2, <1>4, <1>7, <1>11, <1>12, <2>1, LeafCovers
<1>17. Covers(topo', R, {n}, dirt'.queued)
  BY <1>2, <1>15, SelfCovered DEF Covers
<1>18. Covers(topo', R, {Index(g) : g \in {m \in {h} : Live(m)'}}, dirt'.queued)
  BY <1>3, <1>17 DEF Covers
<1> HIDE DEF N, R
<1>19. \A i \in Slots : alive'[i] /\ Direct(dirt'.flags[i]) => i \in {n} \/ (alive[i] /\ Direct(dirt.flags[i]))
  <2> SUFFICES ASSUME NEW i \in Slots, i # n, alive'[i], Direct(dirt'.flags[i])
               PROVE  alive[i] /\ Direct(dirt.flags[i])
    OBVIOUS
  <2>1. alive[i]
    BY <1>2, <1>3
  <2> QED BY <1>13, <1>15, <2>1
<1> QED BY <1>6, <1>16, <1>17, <1>18, <1>19, CoverStep DEF N

\* A node that dies is a leaf: nothing is covered by it but itself.
LEMMA VisitKeeps ==
  ASSUME DriverInv, TreeInv', DirtyVisit, Outdate({}), UNCHANGED <<last, shown>>
  PROVE  Remembered' /\ Covering'
<1> DEFINE n == Index(walk.cursor)
           u == Loose(n)
<1>1. WalkVisit /\ TreeInv /\ dirt \in Dirts /\ dirt' = Forgotten(dirt, n)
  BY DEF DirtyVisit, DriverInv, DirtyInv, DirtySound
<1>2. /\ topo' = ClearLinks(u, n) /\ topo.first[n] = Null
      /\ Live(walk.cursor)
      /\ alive' = [alive EXCEPT ![n] = FALSE] /\ UNCHANGED <<generation, issued>>
  BY <1>1 DEF WalkVisit, Walking, FirstChild, Loose, Kill
<1>3. n \in Slots /\ topo \in Columns /\ Forest(topo) /\ LinksInv /\ alive \in [Slots -> BOOLEAN]
  BY <1>1, <1>2, LiveNode, TreeFacts
<1>4. u \in Columns /\ Cut(topo, u, n)
  BY <1>1, <1>3, LooseTree DEF TreeInv
<1>5. Childless(topo, n)
  <2>1. Spotted(topo.first)[n] = 0
    BY <1>2, <1>3, NullOutside DEF Spotted
  <2>2. Kids(Spotted(topo.parent), n) = {}
    BY <1>3, <2>1, ColumnsSpotted, EndsMeet DEF Forest
  <2> QED BY <2>2 DEF Kids, Childless, Spotted
<1> HIDE DEF n, u
<1>6. Cut(topo, topo', n) /\ topo' \in Columns
  BY <1>2, <1>3, <1>4, ClearColumns DEF ClearLinks, Cut, Columns
<1>7. /\ \A i \in Slots : alive'[i] <=> i # n /\ alive[i]
      /\ \A g : Live(g)' => Live(g) /\ Index(g) # n
  BY <1>2, <1>3 DEF Live
<1>8. Remembered'
  BY <1>2, RememberedKept DEF DriverInv
<1> DEFINE R == Index(last.root)
           N == Needy(alive, dirt.flags, Pending)
<1>9. SUFFICES ASSUME Live(last.root)'
               PROVE  Covers(topo', R, Needy(alive', dirt'.flags, Pending'), dirt'.queued)
  BY <1>8 DEF Covering
<1>10. Live(last.root) /\ R # n
  BY <1>7, <1>9
<1>11. Covers(topo, R, N, dirt.queued) /\ N \in SUBSET Slots
  BY <1>1, <1>10, NeedySlots DEF DriverInv, Covering, Remembered
<1>12. \A j \in Slots : /\ dirt'.flags[j] = IF j = n THEN {} ELSE dirt.flags[j]
                        /\ dirt'.queued[j] <=> j # n /\ dirt.queued[j]
  BY <1>1, <1>3, ForgetWrites
<1> HIDE DEF N, R
<1>13. Covers(topo', R, N, dirt'.queued)
  BY <1>3, <1>5, <1>6, <1>10, <1>11, <1>12, LeafCovers
<1>14. Covers(topo', R, {}, dirt'.queued)
  BY DEF Covers
<1>15. \A i \in Slots : alive'[i] /\ Direct(dirt'.flags[i]) => alive[i] /\ Direct(dirt.flags[i])
  BY <1>7, <1>12
<1> QED BY <1>13, <1>14, <1>15, CoverStep DEF N

LEMMA WalkStepKeeps ==
  ASSUME DriverInv, TreeInv', DriverWalkStep
  PROVE  Remembered' /\ Covering'
<1>1. DirtyWalkStep /\ Outdate({}) /\ UNCHANGED <<last, shown>>
  BY DEF DriverWalkStep
<1>2. CASE DirtyVisit
  BY <1>1, <1>2, VisitKeeps
<1>3. CASE (WalkDown \/ WalkResume) /\ UNCHANGED dirt
  <2>1. UNCHANGED <<alive, issued, topo>> /\ \A g : Live(g)' <=> Live(g)
    BY <1>3, ResumeSlots DEF WalkDown, WalkResume, slotVars, Live, DriverInv, DirtyInv, TreeInv
  <2>2. Remembered'
    BY <1>1, <2>1, RememberedKept DEF DriverInv
  <2>3. Pending' \subseteq Pending
    BY <1>1 DEF Outdate, Pending
  <2>4. Covering'
    BY <1>1, <1>3, <2>1, <2>3 DEF DriverInv, Covering, Covers, Needy
  <2> QED BY <2>2, <2>4
<1> QED BY <1>1, <1>2, <1>3 DEF DirtyWalkStep

\* Compacting takes no queued node off the queue.
LEMMA CompactKeeps ==
  ASSUME DirtyInv
  PROVE  /\ Compacted(dirt) \in Dirts /\ Compacted(dirt).flags = dirt.flags
         /\ QueueSound(alive, generation, issued, Compacted(dirt))
         /\ StaysQueued(dirt, Compacted(dirt))
<1> DEFINE d == Compacted(dirt)
<1>1. dirt \in Dirts /\ QueueSound(alive, generation, issued, dirt) /\ Bounded(generation, issued)
  BY TreeFacts DEF DirtyInv, DirtySound
<1> HIDE DEF d
<1>2. /\ d \in Dirts /\ d.flags = dirt.flags /\ QueueSound(alive, generation, issued, d)
      /\ \A i \in Slots :
           alive[i] /\ Direct(dirt.flags[i]) /\ Has(dirt.queue, <<i, generation[i]>>) => d.queued[i]
  BY <1>1, CompactSound DEF QueueSound, d
<1>3. StaysQueued(dirt, d)
  BY <1>1, <1>2 DEF QueueSound, StaysQueued
<1> QED BY <1>2, <1>3 DEF d

\* A pass that fails has only compacted the queue.
LEMMA LayoutFailsKeeps ==
  ASSUME DriverInv, NEW h, NEW size, LayoutFails(h, size)
  PROVE  Remembered' /\ Covering'
<1>1. UNCHANGED treeVars /\ dirt' = Compacted(dirt) /\ UNCHANGED <<last, stale, shown>>
  BY DEF LayoutFails, LayoutFailure
<1>2. UNCHANGED <<topo, alive, generation, issued>> /\ \A g : Live(g)' <=> Live(g)
  BY <1>1, SameTree
<1>3. dirt'.flags = dirt.flags /\ StaysQueued(dirt, dirt')
  BY <1>1, CompactKeeps DEF DriverInv
<1>4. Remembered'
  BY <1>1, <1>2 DEF DriverInv, Remembered, LiveHandles
<1>5. Pending' = Pending
  BY <1>1 DEF Pending
<1>6. Covering'
  BY <1>1, <1>2, <1>3, <1>5, CoveredMore DEF DriverInv, Covering, Covers
<1> QED BY <1>4, <1>6

-----------------------------------------------------------------------------
(* A layout call is complete.                                              *)

\* What a pass leaves of the flags.
LEMMA PassClears ==
  ASSUME DirtyInv, NEW roots, LayoutPass(roots), NEW i \in Slots
  PROVE  dirt'.flags[i] = IF i \in {Index(h) : h \in UNION {Subtree(r) : r \in roots}} THEN {} ELSE dirt.flags[i]
<1> DEFINE slots == {Index(h) : h \in UNION {Subtree(r) : r \in roots}}
           d == Compacted(dirt)
           e == [d EXCEPT !.flags = [j \in Slots |-> IF j \in slots THEN {} ELSE d.flags[j]],
                          !.queued = [j \in Slots |-> j \notin slots /\ d.queued[j]]]
<1>1. dirt' = Compacted(e)
  BY DEF LayoutPass, Cleared
<1>2. d \in Dirts /\ d.flags = dirt.flags
  BY CompactKeeps
<1> HIDE DEF d, slots
<1>3. e \in Dirts /\ \A j \in Slots : e.flags[j] = IF j \in slots THEN {} ELSE dirt.flags[j]
  BY <1>2 DEF Dirts
<1> HIDE DEF e
<1>4. Compacted(e).flags = e.flags
  BY <1>3 DEF Compacted, Dirts
<1> QED BY <1>1, <1>3, <1>4 DEF slots

\* A live slot below another is one of a live node below it.
LEMMA NodeBelow ==
  ASSUME TreeInv, NEW h \in LiveHandles, NEW i \in Slots, alive[i], OnChain(topo, i, Index(h))
  PROVE  <<i, generation[i]>> \in Subtree(h) /\ Index(<<i, generation[i]>>) = i
BY DEF TreeInv, LinksInv, SlotsInv, LiveIssued, Live, LiveHandles, Subtree, Index, Generation

\* A partial pass starts from every queued node below the root.
LEMMA QueuedBelow ==
  ASSUME DirtyInv, NEW root \in LiveHandles, NEW i \in Slots, dirt.queued[i], OnChain(topo, i, Index(root))
  PROVE  \E h \in DirtyBelow(Compacted(dirt), root) : Index(h) = i
<1> DEFINE d == Compacted(dirt)
           h == <<i, generation[i]>>
<1>1. d \in Dirts /\ QueueSound(alive, generation, issued, d) /\ d.queued[i]
  BY CompactKeeps DEF StaysQueued
<1> HIDE DEF d
<1>2. alive[i] /\ Has(d.queue, h)
  BY <1>1 DEF QueueSound
<1>3. h \in ToSet(d.queue)
  BY <1>1, <1>2, DOMAIN d.queue = 1 .. Len(d.queue) DEF Has, ToSet, Dirts
<1>4. h \in Subtree(root) /\ Index(h) = i
  BY <1>2, NodeBelow DEF DirtyInv
<1> QED BY <1>3, <1>4 DEF DirtyBelow, d

\* So it starts at or above every node below the last root that needs a pass.
LEMMA NeedyBelow ==
  ASSUME DriverInv, NEW root \in LiveHandles, last.root = root,
         NEW i \in Needy(alive, dirt.flags, Pending), OnChain(topo, i, Index(root))
  PROVE  \E h \in DirtyBelow(Compacted(dirt), root) : OnChain(topo, i, Index(h))
<1>1. Live(root) /\ DirtyInv
  BY DEF LiveHandles, DriverInv
<1>2. PICK b \in Slots : dirt.queued[b] /\ OnChain(topo, i, b) /\ OnChain(topo, b, Index(root))
  BY <1>1 DEF DriverInv, Covering, Covers, Covered
<1> QED BY <1>1, <1>2, QueuedBelow

\* Above every root stands one that is below no other.
LEMMA UnnestedAbove ==
  ASSUME TreeInv, NEW roots \in SUBSET LiveHandles, NEW q \in roots
  PROVE  \E r \in roots : ~Nested(r, roots) /\ OnChain(topo, Index(q), Index(r))
<1> DEFINE U == {i \in Slots : OnChain(topo, Index(q), i) /\ \E x \in roots : OnChain(topo, i, Index(x))}
           par == Spotted(topo.parent)
<1>1. topo \in Columns /\ \A x \in roots : Index(x) \in Slots
  BY TreeFacts, ParentLives
<1>2. U \in SUBSET Slots /\ U # {}
  BY <1>1, ChainSelf
<1>3. PICK i \in U : par[i] \notin U
  BY <1>2, TreeFacts DEF Forest, RingFree
<1>4. ASSUME NEW x \in roots, OnChain(topo, i, Index(x)) PROVE i = Index(x)
  <2> SUFFICES ASSUME Index(x) # i PROVE FALSE
    OBVIOUS
  <2>1. topo.parent[i] # Null /\ OnChain(topo, Index(topo.parent[i]), Index(x))
    BY <1>1, <1>2, <1>4, ChainUp
  <2>2. OnChain(topo, i, Index(topo.parent[i]))
    BY <2>1, ChainSelf, ChainDown
  <2>3. OnChain(topo, Index(q), Index(topo.parent[i])) /\ Index(topo.parent[i]) \in Slots
    BY <1>1, <2>2, ChainTransitive, ChainInSlots
  <2> QED BY <1>2, <1>3, <2>1, <2>3 DEF Spotted
<1>5. PICK x \in roots : OnChain(topo, i, Index(x))
  OBVIOUS
<1>6. Index(x) = i
  BY <1>4, <1>5
<1>7. ~Nested(x, roots)
  <2> SUFFICES ASSUME NEW r \in roots, r # x, OnChain(topo, i, Index(r)) PROVE FALSE
    BY <1>6 DEF Nested
  <2> QED BY <1>4, <1>6, LiveSame
<1> QED BY <1>6, <1>7

(***************************************************************************)
(* What a partial pass decides is closed under influence: no box below the *)
(* root that it leaves alone can change for one that it decides.  The      *)
(* climb stopped at every recompute root, so in a steady tree that root    *)
(* does not follow from its contents, or a pass makes it follow.           *)
(***************************************************************************)
LEMMA DecidedClosed ==
  ASSUME TreeInv, \A h \in LiveHandles : SteadyAt(h), NEW root \in LiveHandles, NEW roots,
         \A r \in roots : r \in Subtree(root) /\ r # root /\ r \notin Promotes(root),
         NEW b \in Decided(roots), NEW c \in Subtree(root), Influences(b, c)
  PROVE  c \in Decided(roots)
<1>1. b \in LiveHandles /\ c \in LiveHandles /\ Parent(b) # Null
  BY DEF Decided, Subtree
<1>2. CASE \E r \in roots : Parent(b) \in Subtree(r)
  <2>1. PICK r \in roots : Parent(b) \in Subtree(r)
    BY <1>2
  <2>2. r \in LiveHandles /\ OnChain(topo, Index(Parent(b)), Index(r)) /\ Parent(b) \in LiveHandles
    BY <2>1 DEF Subtree
  <2>3. CASE Parent(c) = b
    <3>1. OnChain(topo, Index(b), Index(Parent(b)))
      BY <1>1, ChainParent
    <3>2. b \in Subtree(r)
      BY <1>1, <2>2, <3>1, ChainTransitive DEF Subtree
    <3>3. b # Null
      BY <1>1, LiveNode DEF LiveHandles
    <3> QED BY <1>1, <2>3, <3>2, <3>3 DEF Decided
  <2>4. CASE Parent(c) = Parent(b)
    BY <1>1, <2>1, <2>4 DEF Decided
  <2>5. CASE Parent(b) = c /\ c # r
    <3>1. Parent(c) # Null /\ OnChain(topo, Index(Parent(c)), Index(r))
      BY <2>2, <2>5, ChainOverParent
    <3>2. Parent(c) \in Subtree(r)
      BY <1>1, <3>1, ParentLives DEF Subtree
    <3> QED BY <1>1, <3>1, <3>2 DEF Decided
  <2>6. CASE Parent(b) = c /\ c = r /\ (Hugs(c) \/ (IsFlow(c) /\ PlacedByBaseline(c)))
    <3>1. Parent(r) # Null
      BY <2>2, ChainOverParent DEF Subtree
    <3>2. ~CanPromote(r)
      BY <2>2 DEF Promotes
    <3>3. SteadyAt(r)
      BY <2>2
    <3>4. ~InFlow(r)
      <4> SUFFICES ASSUME InFlow(r) PROVE FALSE
        OBVIOUS
      <4>1. kind[Index(r)] \notin AutoKinds
        BY <3>2 DEF CanPromote
      <4>2. ~Hugs(r)
        BY <3>3, <4>1 DEF Hugs, SteadyAt, AutoKinds
      <4>3. ~(IsFlow(r) /\ PlacedByBaseline(r))
        BY <3>3, <4>1 DEF SteadyAt, IsFlow
      <4> QED BY <2>6, <4>2, <4>3
    <3> QED BY <2>2, <2>6, <3>1, <3>4 DEF Decided
  <2> QED BY <2>3, <2>4, <2>5, <2>6 DEF Influences
<1>3. CASE b \in roots /\ ~InFlow(b)
  <2>1. CASE Parent(c) = b
    <3>1. b \in Subtree(b)
      BY <1>1, ChainSelf, ParentLives DEF Subtree
    <3>2. b # Null
      BY <1>1, LiveNode DEF LiveHandles
    <3> QED BY <1>1, <1>3, <2>1, <3>1, <3>2 DEF Decided
  <2>2. ~(Parent(b) = c /\ (Hugs(c) \/ IsFlow(c)))
    BY <1>1, <1>3 DEF InFlow, Hugs, IsFlow, FlowKinds, AutoKinds
  <2> QED BY <1>3, <2>1, <2>2 DEF Influences
<1> QED BY <1>1, <1>2, <1>3 DEF Decided

\* Boxes that those in S influence stay within every set closed under influence.
LEMMA InfluencedWithin ==
  ASSUME NEW root, NEW S, NEW T, S \subseteq T, S \subseteq Subtree(root),
         \A b \in T : \A c \in Subtree(root) : Influences(b, c) => c \in T
  PROVE  Influenced(S, root) \subseteq T
<1> DEFINE U == T \cap Subtree(root)
           below == Subtree(root)
           steps == {e \in below \X below : Influences(e[1], e[2])}
<1>1. U \in SUBSET below /\ S \subseteq U
  OBVIOUS
<1>2. \A e \in steps : e[1] \in U => e[2] \in U
  OBVIOUS
<1>3. ASSUME NEW x \in Influenced(S, root) PROVE x \in U
  BY <1>1, <1>2, <1>3 DEF Influenced
<1> QED BY <1>3

\* What a layout call does to the boxes.
LEMMA LayoutSettles ==
  ASSUME Remembered, NEW root \in issued, NEW size, Layout(root, size), done'.roots \subseteq LiveHandles
  PROVE  /\ last'.root = root /\ last'.size = size
         /\ last' = [root |-> last'.root, size |-> last'.size, nodes |-> last'.nodes]
         /\ shown' = [root |-> root, size |-> size]
         /\ stale' \subseteq LiveHandles
         /\ \A x \in stale' :
              \/ x \in Spoiled(done'.roots) \ {root}
              \/ /\ x \notin Decided(done'.roots) \cup (IF done'.strategy = "full" THEN {root} ELSE {})
                 /\ \/ x \in stale \cup Influenced(stale \cap Subtree(root), root)
                    \/ shown # [root |-> root, size |-> size]
<1> DEFINE I == Influenced(stale \cap Subtree(root), root)
           same == shown = [root |-> root, size |-> size]
<1>1. I \subseteq LiveHandles /\ Subtree(root) \subseteq LiveHandles /\ stale \subseteq LiveHandles
  BY DEF Influenced, Subtree, Remembered
<1>2. /\ last' = [root |-> root, size |-> size, nodes |-> last'.nodes]
      /\ shown' = [root |-> root, size |-> size]
  BY DEF Layout
<1>3. stale' = ((stale \cup (IF same THEN I ELSE Subtree(root)))
                  \ (Decided(done'.roots) \cup (IF done'.strategy = "full" THEN {root} ELSE {})))
                 \cup (Spoiled(done'.roots) \ {root})
  BY DEF Layout
<1>4. Spoiled(done'.roots) \subseteq LiveHandles
  BY DEF Spoiled
<1> HIDE DEF I
<1> QED BY <1>1, <1>2, <1>3, <1>4 DEF I

\* Why a pass may be partial, or left out.
LEMMA StrategyIs ==
  ASSUME DirtyInv, NEW root, NEW size, NEW strategy \in Strategies(Compacted(dirt), root, size)
  PROVE  /\ strategy \in {"none", "dirty", "full"}
         /\ strategy # "full" => SnapshotValid(root, size) /\ ~Direct(dirt.flags[Index(root)])
         /\ strategy = "none" => DirtyBelow(Compacted(dirt), root) = {}
         /\ strategy = "dirty" => RecomputeRoots(root, DirtyBelow(Compacted(dirt), root)) # {}
<1>1. Compacted(dirt).flags = dirt.flags
  BY CompactKeeps
<1> DEFINE d == Compacted(dirt)
<1> HIDE DEF d
<1>2. strategy \in Strategies(d, root, size) /\ d.flags = dirt.flags
  BY <1>1 DEF d
<1>3. /\ strategy \in {"none", "dirty", "full"}
      /\ strategy # "full" => SnapshotValid(root, size) /\ ~Direct(d.flags[Index(root)])
      /\ strategy = "none" => DirtyBelow(d, root) = {}
      /\ strategy = "dirty" => RecomputeRoots(root, DirtyBelow(d, root)) # {}
  BY <1>2 DEF Strategies, Affordable
<1> QED BY <1>2, <1>3 DEF d

\* A whole pass decides every box below the root, and clears every node there.
LEMMA FullDecides ==
  ASSUME TreeInv, NEW root \in LiveHandles
  PROVE  /\ Subtree(root) \subseteq Decided({root}) \cup {root}
         /\ \A i \in Slots : alive[i] /\ OnChain(topo, i, Index(root))
              => i \in {Index(h) : h \in UNION {Subtree(r) : r \in {root}}}
<1>1. ASSUME NEW x \in Subtree(root), x # root PROVE x \in Decided({root})
  <2>1. x \in LiveHandles /\ Parent(x) # Null /\ OnChain(topo, Index(Parent(x)), Index(root))
    BY <1>1, ChainOverParent DEF Subtree
  <2>2. Parent(x) \in Subtree(root)
    BY <2>1, ParentLives DEF Subtree
  <2> QED BY <2>1, <2>2 DEF Decided
<1>2. ASSUME NEW i \in Slots, alive[i], OnChain(topo, i, Index(root))
      PROVE  i \in {Index(h) : h \in UNION {Subtree(r) : r \in {root}}}
  BY <1>2, NodeBelow
<1> QED BY <1>1, <1>2

\* Recompute roots are below the layout root, and climbs stop there.
LEMMA RootsStop ==
  ASSUME TreeInv, NEW root \in LiveHandles, NEW nodes, \A h \in nodes : h \in Subtree(root) /\ h # root,
         NEW r \in RecomputeRoots(root, nodes)
  PROVE  r \in Subtree(root) /\ r # root /\ r \notin Promotes(root)
<1>1. PICK h \in nodes : r = Promoted(h, root)
  BY DEF RecomputeRoots
<1>2. h \in LiveHandles /\ OnChain(topo, Index(h), Index(root)) /\ Parent(h) # Null
  BY ChainOverParent DEF Subtree
<1>3. r \in Subtree(root)
  BY <1>1, PromotedBelow
<1>4. r # root
  BY DEF RecomputeRoots
<1>5. r \notin Promotes(root)
  BY <1>1, <1>2, ParentLives, ClimbIs DEF Promoted
<1> QED BY <1>3, <1>4, <1>5

\* A partial pass reaches every node below its root that needs one.
LEMMA PartialDecides ==
  ASSUME DriverInv, NEW root \in LiveHandles, last.root = root, ~Direct(dirt.flags[Index(root)]),
         NEW roots, roots = RecomputeRoots(root, DirtyBelow(Compacted(dirt), root)), roots # {}
  PROVE  /\ OnlySteady => Influenced(stale \cap Subtree(root), root) \subseteq Decided(roots)
         /\ OnlySteady => stale \cap Subtree(root) \subseteq Decided(roots)
         /\ OnlySteady => Spoiled(roots) = {}
         /\ \A i \in Slots : alive[i] /\ Direct(dirt.flags[i]) /\ OnChain(topo, i, Index(root))
              => i \in {Index(h) : h \in UNION {Subtree(r) : r \in roots}}
<1> DEFINE R == Index(root)
           nodes == DirtyBelow(Compacted(dirt), root)
           promoted == {Promoted(h, root) : h \in nodes}
<1>1. TreeInv /\ DirtyInv /\ topo \in Columns /\ Forest(topo) /\ R \in Slots /\ stale \in SUBSET LiveHandles
  BY TreeFacts, ParentLives DEF DriverInv, DirtyInv, Remembered
<1>2. \A h \in nodes : h \in Subtree(root) /\ h # root /\ h \in LiveHandles
  BY <1>1, DirtyBelowIs DEF Subtree
<1> HIDE DEF nodes
<1>3. roots = {r \in promoted : ~Nested(r, promoted)}
  BY DEF RecomputeRoots, nodes
<1>4. promoted \in SUBSET LiveHandles
  BY <1>1, <1>2, PromotedIs
<1>5. ASSUME NEW a \in nodes PROVE \E r \in roots : r \in LiveHandles /\ OnChain(topo, Index(Promoted(a, root)), Index(r))
  <2>1. Promoted(a, root) \in promoted
    OBVIOUS
  <2> HIDE DEF promoted
  <2> QED BY <1>1, <1>3, <1>4, <2>1, UnnestedAbove
<1>6. ASSUME NEW i \in Needy(alive, dirt.flags, Pending), OnChain(topo, i, R)
      PROVE  \E a \in nodes : OnChain(topo, i, Index(a))
  BY <1>6, NeedyBelow DEF nodes
<1>7. ASSUME OnlySteady, NEW s \in stale \cap Subtree(root) PROVE s \in Decided(roots)
  <2>1. s \in LiveHandles /\ OnChain(topo, Index(s), R) /\ Index(s) \in Needy(alive, dirt.flags, Pending)
    BY <1>7 DEF Subtree, Needy, Pending
  <2>2. PICK a \in nodes : OnChain(topo, Index(s), Index(a))
    BY <1>6, <2>1
  <2>3. a \in LiveHandles /\ OnChain(topo, Index(a), R)
    BY <1>2 DEF Subtree
  <2>4. Parent(a) # Null /\ Parent(a) \in LiveHandles /\ OnChain(topo, Index(a), Index(Parent(a)))
    BY <1>1, <1>2, <2>3, ChainOverParent, ChainParent, ParentLives
  <2>5. Promoted(a, root) \in LiveHandles /\ OnChain(topo, Index(Parent(a)), Index(Promoted(a, root)))
    BY <1>1, <2>4, ClimbIs DEF Promoted
  <2>6. PICK r \in roots : r \in LiveHandles /\ OnChain(topo, Index(Promoted(a, root)), Index(r))
    BY <1>5
  <2>7. Parent(s) # Null /\ Parent(s) \in LiveHandles /\ OnChain(topo, Index(Parent(s)), Index(Parent(a)))
    <3>1. CASE s = a
      BY <1>1, <2>4, <3>1, ChainSelf, ParentLives
    <3>2. CASE s # a
      <4>1. Parent(s) # Null /\ OnChain(topo, Index(Parent(s)), Index(a))
        BY <1>1, <2>1, <2>2, <2>3, <3>2, ChainOverParent
      <4> QED BY <1>1, <2>1, <2>4, <4>1, ChainTransitive, ParentLives
    <3> QED BY <3>1, <3>2
  <2>8. OnChain(topo, Index(Parent(s)), Index(r))
    BY <2>5, <2>6, <2>7, ChainTransitive
  <2>9. Parent(s) \in Subtree(r)
    BY <2>7, <2>8 DEF Subtree
  <2> QED BY <2>1, <2>6, <2>7, <2>9 DEF Decided
<1>8. ASSUME NEW r \in roots PROVE r \in Subtree(root) /\ r # root /\ r \notin Promotes(root)
  BY <1>1, <1>2, RootsStop DEF nodes
<1>9. ASSUME OnlySteady PROVE Influenced(stale \cap Subtree(root), root) \subseteq Decided(roots)
  <2>1. \A h \in LiveHandles : SteadyAt(h)
    BY <1>9 DEF DriverInv, SteadyTree
  <2>2. \A b \in Decided(roots) : \A c \in Subtree(root) : Influences(b, c) => c \in Decided(roots)
    BY <1>1, <1>8, <2>1, DecidedClosed
  <2>3. stale \cap Subtree(root) \subseteq Decided(roots)
    BY <1>7, <1>9
  <2> QED BY <2>2, <2>3, InfluencedWithin
<1>10. ASSUME OnlySteady PROVE Spoiled(roots) = {}
  <2>1. \A r \in roots : r \in LiveHandles
    BY <1>8 DEF Subtree
  <2> QED BY <1>10, <2>1 DEF DriverInv, SteadyTree, SteadyAt, Spoiled
<1>11. ASSUME NEW i \in Slots, alive[i], Direct(dirt.flags[i]), OnChain(topo, i, R)
      PROVE  i \in {Index(h) : h \in UNION {Subtree(r) : r \in roots}}
  <2>1. PICK a \in nodes : OnChain(topo, i, Index(a))
    BY <1>6, <1>11 DEF Needy
  <2>2. OnChain(topo, Index(a), Index(Promoted(a, root)))
    BY <1>1, <1>2, PromotedIs
  <2>3. PICK r \in roots : r \in LiveHandles /\ OnChain(topo, Index(Promoted(a, root)), Index(r))
    BY <1>5
  <2>4. OnChain(topo, i, Index(r))
    BY <2>1, <2>2, <2>3, ChainTransitive
  <2> QED BY <1>1, <1>11, <2>3, <2>4, NodeBelow
<1> QED BY <1>7, <1>9, <1>10, <1>11

\* When the pass is left out, no node below the root needs one.
LEMMA NothingNeeded ==
  ASSUME DriverInv, NEW root \in LiveHandles, last.root = root,
         DirtyBelow(Compacted(dirt), root) = {}
  PROVE  /\ OnlySteady => stale \cap Subtree(root) = {} /\ Influenced(stale \cap Subtree(root), root) = {}
         /\ \A i \in Slots : alive[i] /\ Direct(dirt.flags[i]) => ~OnChain(topo, i, Index(root))
<1>1. \A i \in Needy(alive, dirt.flags, Pending) : ~OnChain(topo, i, Index(root))
  BY NeedyBelow
<1>2. OnlySteady => stale \cap Subtree(root) = {}
  BY <1>1 DEF Needy, Pending, Subtree
<1>3. Influenced({}, root) \subseteq {}
  BY InfluencedWithin
<1> QED BY <1>1, <1>2, <1>3 DEF Needy

LEMMA LayoutCompletes ==
  ASSUME DriverInv, NEW root \in issued, NEW size, Layout(root, size)
  PROVE  Remembered' /\ Covering' /\ (OnlySteady => LayoutIsComplete')
<1> DEFINE R == Index(root)
           roots == done'.roots
           needed == stale \cup Influenced(stale \cap Subtree(root), root)
<1>1. /\ DirtyInv /\ TreeInv /\ root \in LiveHandles /\ UNCHANGED treeVars
      /\ done'.root = root /\ LayoutPass(roots)
      /\ done'.strategy \in Strategies(Compacted(dirt), root, size)
      /\ roots = CASE done'.strategy = "full"  -> {root}
                   [] done'.strategy = "dirty" -> RecomputeRoots(root, DirtyBelow(Compacted(dirt), root))
                   [] OTHER                    -> {}
  BY LayoutDoes DEF DriverInv, DirtyInv
<1>2. UNCHANGED <<topo, alive, generation, issued>> /\ \A g : Live(g)' <=> Live(g)
  BY <1>1, SameTree
<1>3. /\ last'.root = root /\ last'.size = size
      /\ last' = [root |-> last'.root, size |-> last'.size, nodes |-> last'.nodes]
      /\ shown' = [root |-> root, size |-> size]
      /\ stale' \subseteq LiveHandles
      /\ \A x \in stale' :
           \/ x \in Spoiled(roots) \ {root}
           \/ /\ x \notin Decided(roots) \cup (IF done'.strategy = "full" THEN {root} ELSE {})
              /\ x \in needed \/ shown # [root |-> root, size |-> size]
  <2>1. roots \subseteq LiveHandles
    BY LayoutDoes DEF DriverInv, DirtyInv
  <2> QED BY <2>1, LayoutSettles DEF DriverInv
<1>4. Remembered'
  BY <1>2, <1>3 DEF Remembered, LiveHandles
<1>5. done'.strategy # "full" => last.root = root /\ shown = [root |-> root, size |-> size]
  <2>1. root # Null
    BY <1>1, LiveNode DEF LiveHandles
  <2> QED BY <1>1, <2>1, StrategyIs DEF SnapshotValid, DriverInv, Remembered
<1>6. /\ OnlySteady => \A x \in stale' : x \notin Subtree(root)
      /\ \A i \in Slots : alive[i] /\ Direct(dirt.flags[i]) /\ OnChain(topo, i, R)
           => i \in {Index(h) : h \in UNION {Subtree(r) : r \in roots}}
  <2>1. CASE done'.strategy = "full"
    <3>1. roots = {root}
      BY <1>1, <2>1
    <3>2. Spoiled(roots) \ {root} = {}
      BY <3>1 DEF Spoiled
    <3> QED BY <1>1, <1>3, <2>1, <3>1, <3>2, FullDecides
  <2>2. CASE done'.strategy = "dirty"
    <3>1. roots = RecomputeRoots(root, DirtyBelow(Compacted(dirt), root)) /\ roots # {}
      BY <1>1, <2>2, StrategyIs
    <3>2. last.root = root /\ ~Direct(dirt.flags[R])
      BY <1>1, <1>5, <2>2, StrategyIs
    <3> HIDE DEF roots
    <3>3. /\ OnlySteady => Influenced(stale \cap Subtree(root), root) \subseteq Decided(roots)
          /\ OnlySteady => stale \cap Subtree(root) \subseteq Decided(roots)
          /\ OnlySteady => Spoiled(roots) = {}
          /\ \A i \in Slots : alive[i] /\ Direct(dirt.flags[i]) /\ OnChain(topo, i, R)
               => i \in {Index(h) : h \in UNION {Subtree(r) : r \in roots}}
      BY <1>1, <3>1, <3>2, PartialDecides
    <3> QED BY <1>3, <1>5, <2>2, <3>3
  <2>3. CASE done'.strategy = "none"
    <3>1. last.root = root /\ DirtyBelow(Compacted(dirt), root) = {}
      BY <1>1, <1>5, <2>3, StrategyIs
    <3>2. /\ OnlySteady => stale \cap Subtree(root) = {} /\ Influenced(stale \cap Subtree(root), root) = {}
          /\ \A i \in Slots : alive[i] /\ Direct(dirt.flags[i]) => ~OnChain(topo, i, R)
      BY <1>1, <3>1, NothingNeeded
    <3>3. Spoiled(roots) = {}
      BY <1>1, <2>3 DEF Spoiled
    <3> QED BY <1>3, <1>5, <2>3, <3>2, <3>3
  <2> QED BY <1>1, <2>1, <2>2, <2>3, StrategyIs
<1>7. OnlySteady => LayoutIsComplete'
  BY <1>1, <1>6, SameSubtrees DEF LayoutIsComplete
<1>8. \A i \in Slots : alive[i] /\ Direct(dirt'.flags[i]) => ~OnChain(topo, i, R)
  <2> SUFFICES ASSUME NEW i \in Slots, alive[i], Direct(dirt'.flags[i]), OnChain(topo, i, R) PROVE FALSE
    OBVIOUS
  <2>1. i \notin {Index(h) : h \in UNION {Subtree(r) : r \in roots}} /\ Direct(dirt.flags[i])
    BY <1>1, PassClears DEF Direct
  <2> QED BY <1>6, <2>1
<1>9. Covering'
  <2> SUFFICES ASSUME NEW i \in Needy(alive', dirt'.flags, Pending'), OnChain(topo, i, R) PROVE FALSE
    BY <1>2, <1>3 DEF Covering, Covers
  <2>1. PICK x \in stale' : i = Index(x) /\ OnlySteady
    BY <1>2, <1>8 DEF Needy, Pending
  <2>2. x \in Subtree(root)
    BY <1>3, <2>1 DEF Subtree
  <2> QED BY <1>6, <2>1, <2>2
<1> QED BY <1>4, <1>7, <1>9

-----------------------------------------------------------------------------
(* The theorems.                                                           *)

LEMMA DriverInvInit == DriverInit => DriverInv
<1> SUFFICES ASSUME DriverInit PROVE DriverInv
  OBVIOUS
<1>1. /\ DirtyInv /\ stale = {} /\ dirt.flags = [i \in Slots |-> {}]
      /\ issued = {<<i, 1>> : i \in Slots} /\ shown = [root |-> last.root, size |-> last.size]
      /\ last \in [root : {<<1, 1>>}, size : Sizes \ {Unbounded}, nodes : {MaxSlots}]
  BY DriverInitSound DEF DriverInit
<1>2. 1 \in Slots
  BY SlotsAssumption DEF Slots
<1>3. last.root = <<1, 1>> /\ last = [root |-> last.root, size |-> last.size, nodes |-> last.nodes]
  BY <1>1
<1>4. Remembered
  BY <1>1, <1>2, <1>3 DEF Remembered
<1>5. Needy(alive, dirt.flags, Pending) = {}
  BY <1>1 DEF Needy, Direct, Pending
<1>6. Covering
  BY <1>5 DEF Covering, Covers
<1> QED BY <1>1, <1>4, <1>6 DEF DriverInv, DriverInit

LEMMA DriverInvStep == DriverInv /\ Roomy /\ [DriverNext]_driverVars => DriverInv'
<1> SUFFICES ASSUME DriverInv, Roomy, [DriverNext]_driverVars PROVE DriverInv'
  OBVIOUS
<1>1. DirtyInv' /\ TreeInv'
  BY DriverStepsAreDirtySteps, DirtyStepSound DEF DriverInv, DirtyInv
<1>0. SteadyTree'
  <2>1. CASE UNCHANGED <<treeVars, kind>>
    BY <2>1 DEF treeVars, DriverInv, SteadyTree, SteadyAt, Narrowing, Hugs, PlacedByBaseline, Passed,
                InFlow, IsFlow, Parent, LiveHandles, Live
  <2>2. CASE Pass
    <3>1. UNCHANGED <<treeVars, kind>>
      BY <2>2 DEF Pass, Layout, LayoutFails, LayoutFailure
    <3> QED BY <2>1, <3>1
  <2>3. UNCHANGED driverVars => UNCHANGED <<treeVars, kind>>
    BY DEF driverVars, treeVars, slotVars
  <2> QED BY <2>1, <2>2, <2>3 DEF DriverNext
<1> SUFFICES Remembered' /\ Covering'
  BY <1>0, <1>1 DEF DriverInv
<1>2. CASE UNCHANGED driverVars
  BY <1>2 DEF driverVars, DriverInv, Remembered, Covering, Pending, LiveHandles, Live
<1>3. CASE DriverCreate
  BY <1>1, <1>3, CreateKeeps
<1>4. ASSUME NEW p \in LiveHandles, NEW c \in LiveHandles, DriverPlace(p, c) PROVE Remembered' /\ Covering'
  BY <1>1, <1>4, PlaceKeeps
<1>5. ASSUME NEW p \in LiveHandles, NEW c \in LiveHandles, DriverRemove(p, c) PROVE Remembered' /\ Covering'
  BY <1>5, RemoveKeeps
<1>6. ASSUME NEW h \in issued, DriverDestroyBegin(h) PROVE Remembered' /\ Covering'
  BY <1>6, DestroyBeginKeeps
<1>7. ASSUME NEW h \in issued, DriverSetColumn(h) \/ \E k \in Kinds : SetKind(h, k)
      PROVE  Remembered' /\ Covering'
  <2>1. SetColumn(h, {"layout"}) /\ Outdate({h}) /\ UNCHANGED <<last, shown>>
    BY <1>7 DEF DriverSetColumn, SetKind
  <2>2. {"layout"} \in SUBSET Flags
    BY DEF Flags
  <2> QED BY <2>1, <2>2, SetKeeps
<1>8. ASSUME NEW h \in issued, DriverSetDirection(h) PROVE Remembered' /\ Covering'
  <2>1. SetColumn(h, {"layout", "subtree"}) /\ Outdate(Inheriting(h)) /\ UNCHANGED <<last, shown>>
    BY <1>8 DEF DriverSetDirection
  <2>2. {"layout", "subtree"} \in SUBSET Flags
    BY DEF Flags
  <2> QED BY <2>1, <2>2, SetKeeps
<1>9. CASE DriverInvalidateAll
  BY <1>9, InvalidateKeeps
<1>10. ASSUME NEW h \in issued, NEW size, Layout(h, size) PROVE Remembered' /\ Covering'
  BY <1>10, LayoutCompletes
<1>11. ASSUME NEW h \in issued, NEW size, LayoutFails(h, size) PROVE Remembered' /\ Covering'
  BY <1>11, LayoutFailsKeeps
<1>12. CASE DriverWalkStep
  BY <1>1, <1>12, WalkStepKeeps
<1>13. CASE Change
  BY <1>3, <1>4, <1>5, <1>6, <1>7, <1>8, <1>9, <1>13 DEF Change
<1> QED BY <1>2, <1>10, <1>11, <1>12, <1>13 DEF DriverNext, Pass

\* While the queue has room, it covers what a later layout has to reach.
THEOREM DriverKeepsCovering == DriverSpec /\ []Roomy => []DriverInv
BY DriverInvInit, DriverInvStep, PTL DEF DriverSpec

(***************************************************************************)
(* xent_layout leaves no box below its root out of date, whether it lays   *)
(* out everything, some subtrees or nothing at all: for every tree and     *)
(* every history of calls and destructions in which trees stay steady      *)
(* (SteadyTree), and also when the plan, a new node or a pass fails for    *)
(* want of memory, as long as the queue could take every node that was     *)
(* marked.                                                                 *)
(***************************************************************************)
THEOREM LayoutStaysComplete == OnlySteady => (DriverSpec /\ []Roomy => []LayoutIsComplete)
<1>1. DriverInit => LayoutIsComplete
  BY DEF DriverInit, LayoutIsComplete, NoPass
<1>2. OnlySteady => (DriverInv /\ LayoutIsComplete /\ [DriverNext]_driverVars => LayoutIsComplete')
  <2> SUFFICES ASSUME OnlySteady, DriverInv, LayoutIsComplete, [DriverNext]_driverVars PROVE LayoutIsComplete'
    OBVIOUS
  <2>1. CASE UNCHANGED driverVars
    BY <2>1 DEF driverVars, LayoutIsComplete, Subtree, LiveHandles, Live, OnChain, UpClosed
  <2>2. CASE done' = NoPass
    BY <2>2 DEF LayoutIsComplete, NoPass
  <2>3. ASSUME NEW h \in issued, NEW size, Layout(h, size) PROVE LayoutIsComplete'
    BY <2>3, LayoutCompletes
  <2> QED BY <2>1, <2>2, <2>3, NoPassOtherwise
<1>3. ASSUME OnlySteady PROVE DriverSpec /\ []Roomy => []LayoutIsComplete
  <2>1. DriverInv /\ LayoutIsComplete /\ [DriverNext]_driverVars => LayoutIsComplete'
    BY <1>2, <1>3
  <2> QED BY <1>1, <2>1, DriverKeepsCovering, PTL DEF DriverSpec
<1> QED BY <1>3

\* With an allocator that never fails the queue always has room.
THEOREM LayoutCompleteWithMemory == OnlySteady /\ ~Faults => (DriverSpec => []LayoutIsComplete)
<1>1. ASSUME ~Faults PROVE Roomy
  BY <1>1 DEF Roomy
<1>2. ASSUME OnlySteady, ~Faults PROVE DriverSpec => []LayoutIsComplete
  BY <1>1, <1>2, LayoutStaysComplete, PTL
<1> QED BY <1>2

\* The ancestors of dirty nodes know of them, also between the driver's calls.
THEOREM DriverStaysInformed == DriverSpec => []AncestorsKnow
<1>1. DirtyInv => AncestorsKnow
  BY DEF DirtyInv, DirtySound, KnowsBut, AncestorsKnow
<1> QED BY <1>1, DriverStaysSound, PTL

(***************************************************************************)
(* Below the last layout root every dirty node is queued, or one above it  *)
(* is, unless an allocation may have failed.                               *)
(***************************************************************************)
THEOREM DirtyStaysQueued == DriverSpec => []DirtyIsQueued
<1>1. DriverInv => DirtyIsQueued
  <2> SUFFICES ASSUME DriverInv, Live(last.root),
                      NEW h \in Subtree(last.root), Direct(dirt.flags[Index(h)])
               PROVE  \E a \in Subtree(last.root) :
                        dirt.queued[Index(a)] /\ (a = h \/ OnChain(topo, Index(h), Index(a)))
    BY DEF DirtyIsQueued
  <2>1. DirtyInv /\ TreeInv /\ h \in LiveHandles /\ last.root \in LiveHandles
    BY LiveNode DEF DriverInv, DirtyInv, Remembered, Subtree, LiveHandles
  <2>2. Index(h) \in Needy(alive, dirt.flags, Pending)
    BY <2>1, ParentLives DEF Needy, Live
  <2>3. PICK b \in Slots : /\ dirt.queued[b] /\ OnChain(topo, Index(h), b)
                           /\ OnChain(topo, b, Index(last.root))
    BY <2>1, <2>2 DEF DriverInv, Covering, Covers, Covered, Subtree, LiveHandles
  <2>4. alive[b]
    BY <2>1, <2>3 DEF DirtyInv, DirtySound, QueueSound
  <2> QED BY <2>1, <2>3, <2>4, NodeBelow
<1>2. CASE ~Faults
  <2>1. Roomy
    BY <1>2 DEF Roomy
  <2> QED BY <1>1, <2>1, DriverKeepsCovering, PTL
<1>3. CASE Faults
  <2>1. DirtyIsQueued
    BY <1>3 DEF DirtyIsQueued
  <2> QED BY <2>1, PTL
<1> QED BY <1>2, <1>3
=============================================================================
