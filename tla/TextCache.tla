------------------------------ MODULE TextCache ------------------------------
(***************************************************************************)
(* The measurements of texts: the open-addressed cache of                  *)
(* src/text/xent_text_cache.c, the measuring call of src/text/xent_text.c  *)
(* in front of it, and the last measurement that every node remembers      *)
(* (src/layout/xent_layout_intrinsic.c).  One node is enough for the last. *)
(*                                                                         *)
(* Backends get no context, so they do not call back: measuring is one     *)
(* step.  last_used comes from a clock that every use advances; only the   *)
(* order of the entries by it matters, so the order is the state.          *)
(***************************************************************************)
EXTENDS Integers, Sequences, SequencesExt, FiniteSets, Filtering

CONSTANTS
  Texts,     \* the contents of nodes
  Fonts,     \* size and weight together
  Settings,  \* width constraint, its mode and the line breaking together
  Hash,      \* the hash of a key
  FirstCap,  \* the first capacity of the table (64 in the code)
  MaxCap,    \* XENT_CACHE_MAX_CAP
  Faults     \* may allocations fail?

Backends == {"mono", "shaper"}

\* The font in the keys of the backend that does not look at it.
AnyFont == 0

Keys == [text : Texts, font : Fonts \cup {AnyFont}, fit : Settings]
Requests == {k \in Keys : k.font # AnyFont}

ASSUME CacheAssumption ==
  /\ Fonts \subseteq Nat \ {AnyFont}
  /\ Hash \in [Keys -> Nat]
  /\ FirstCap \in Nat \ {0}
  /\ MaxCap \in Nat
  /\ MaxCap >= FirstCap
  /\ Faults \in BOOLEAN

VARIABLES
  backend,  \* text_backend
  cache,    \* the table: its slots, the count of entries, keys by last use
  node      \* content and font of a node, and its remembered measurement

cacheVars == <<backend, cache, node>>

\* What a backend answers.  The monospace one does not look at the font.
Truth(b, r) == [by |-> b, of |-> IF b = "mono" THEN [r EXCEPT !.font = AnyFont] ELSE r]

\* normalize_text_cache_key_for_backend
KeyAlways(b, r) == [r EXCEPT !.font = AnyFont]  \* faulty: for every backend
Key(b, r) == IF b = "mono" THEN [r EXCEPT !.font = AnyFont] ELSE r

Nothing == [by |-> "nobody"]
Empty == [key |-> Nothing, metrics |-> Nothing]

NoCache == [slots |-> <<>>, cap |-> 0, count |-> 0, byUse |-> <<>>]

CacheInit ==
  /\ backend = "mono"
  /\ cache = NoCache
  /\ node \in [text : Texts, font : Fonts, memo : {Nothing}]

-----------------------------------------------------------------------------
(* Linear probing.  Slots are numbered from 0, as in the code.             *)

EmptyTable(cap) == [s \in 0 .. cap - 1 |-> Empty]
Probe(cap, k, p) == (Hash[k] + p) % cap

\* The first of the given slots on the way of key k, as a set of at most one.
FirstSlot(cap, k, slots) ==
  LET hits == {p \in 0 .. cap - 1 : Probe(cap, k, p) \in slots}
  IN {Probe(cap, k, p) : p \in {q \in hits : \A r \in hits : q <= r}}

\* cache_slot: where k is, or where it would go.
SlotFor(c, k) ==
  FirstSlot(c.cap, k, {s \in 0 .. c.cap - 1 : c.slots[s] = Empty \/ c.slots[s].key = k})

\* The entry of k that a lookup finds, as a set of at most one entry.
Lookup(c, k) == {c.slots[s] : s \in SlotFor(c, k)} \ {Empty}

\* cache_place_existing
PlacedAnywhere(slots, cap, e) ==  \* faulty: ignores where probing begins
  LET free == {s \in 0 .. cap - 1 : slots[s] = Empty}
  IN [slots EXCEPT ![CHOOSE s \in free : \A f \in free : s <= f] = e]

Placed(slots, cap, e) ==
  LET free == FirstSlot(cap, e.key, {s \in 0 .. cap - 1 : slots[s] = Empty})
  IN [s \in 0 .. cap - 1 |-> IF s \in free THEN e ELSE slots[s]]

\* cache_rehash and cache_retain_newer: the entries with keys in keep, placed
\* in the order of the old slots into an empty table.
RebuiltTo(c, cap, keep) ==
  LET table[n \in 0 .. c.cap] ==
        IF n = 0 THEN EmptyTable(cap)
        ELSE IF c.slots[n - 1].key \in keep THEN Placed(table[n - 1], cap, c.slots[n - 1])
        ELSE table[n - 1]
  IN table

Rebuilt(c, cap, keep) == RebuiltTo(c, cap, keep)[c.cap]

-----------------------------------------------------------------------------
(* Making room.  An allocation that fails has its own outcome; each of the *)
(* operators gives the set of possible ones.                               *)

Half == MaxCap \div 2

\* cache_lru_cutoff: the age at position count - target - 1, counted from zero, of
\* the sorted ages.  No two entries were used at the same time.
CutoffNext(c) == Len(c.byUse) - Half + 1  \* faulty: forgets to count from zero
Cutoff(c) == Len(c.byUse) - Half

\* cache_evict_half, cache_retain_newer: the entries used after the cutoff stay, or
\* none for want of memory.
KeepNewest(c) == SubSeq(c.byUse, Cutoff(c) + 1, Len(c.byUse))

EvictHalf(c) ==
  LET kept == KeepNewest(c)
      table == [c EXCEPT !.slots = Rebuilt(c, c.cap, ToSet(kept)),
                         !.count = Len(kept),
                         !.byUse = kept]
      all == [c EXCEPT !.slots = EmptyTable(c.cap), !.count = 0, !.byUse = <<>>]
  IN IF c.count <= Half THEN {c} ELSE {table} \cup (IF Faults THEN {all} ELSE {})

\* cache_ensure_space: possible tables, and whether there is room in them.
GrownOnly(c) ==  \* faulty: has no limit
  LET cap == IF c.cap = 0 THEN FirstCap ELSE 2 * c.cap
  IN IF c.count * 4 < c.cap * 3 THEN c
     ELSE [c EXCEPT !.slots = Rebuilt(c, cap, ToSet(c.byUse)), !.cap = cap]

Grown(c) ==
  LET cap == IF 2 * c.cap > MaxCap THEN MaxCap ELSE 2 * c.cap
  IN CASE c.cap = 0 -> [c EXCEPT !.slots = EmptyTable(FirstCap), !.cap = FirstCap]
       [] c.count * 4 < c.cap * 3 \/ c.cap >= MaxCap -> c
       [] OTHER -> [c EXCEPT !.slots = Rebuilt(c, cap, ToSet(c.byUse)), !.cap = cap]

EnsureSpace(c) ==
  LET evicted == IF c.count >= MaxCap THEN EvictHalf(c) ELSE {c}
  IN {[room |-> TRUE, table |-> Grown(e)] : e \in evicted}
     \cup {[room |-> FALSE, table |-> e] : e \in {f \in evicted : Faults /\ Grown(f) # f}}

Used(byUse, k) == Append(Filtered(byUse, Keys \ {k}), k)

\* xent_text_cache_insert: the copy of the text may fail too.
Stored(c, k, metrics) ==
  LET found == Lookup(c, k) # {}
      stored == [c EXCEPT
        !.slots = [s \in 0 .. c.cap - 1 |->
          IF s \in SlotFor(c, k) THEN [key |-> k, metrics |-> metrics] ELSE c.slots[s]],
        !.count = IF found THEN @ ELSE @ + 1,
        !.byUse = Used(@, k)]
  IN {stored} \cup (IF Faults /\ ~found THEN {c} ELSE {})

Inserted(c, k, metrics) ==
  UNION {IF e.room THEN Stored(e.table, k, metrics) ELSE {e.table} : e \in EnsureSpace(c)}

-----------------------------------------------------------------------------
\* xent_text_measure: the possible answers to request r, each with the cache
\* it leaves behind.
Measured(r) ==
  LET k == Key(backend, r)
      hits == Lookup(cache, k)
  IN IF hits # {}
     THEN {[metrics |-> e.metrics, cache |-> [cache EXCEPT !.byUse = Used(@, k)]] : e \in hits}
     ELSE {[metrics |-> Truth(backend, r), cache |-> c] : c \in Inserted(cache, k, Truth(backend, r))}

\* A client measures a text that belongs to no node.
Measure(r) ==
  /\ \E m \in Measured(r) : cache' = m.cache
  /\ UNCHANGED <<backend, node>>

\* measure_intrinsic_text, with has_intrinsic_cache as its first test.
Remembered(fit) == node.memo # Nothing /\ node.memo.font = node.font /\ node.memo.fit = fit

NodeMeasure(fit) ==
  /\ ~Remembered(fit)
  /\ \E m \in Measured([text |-> node.text, font |-> node.font, fit |-> fit]) :
       /\ cache' = m.cache
       /\ node' = [node EXCEPT !.memo = [font |-> node.font, fit |-> fit, metrics |-> m.metrics]]
  /\ UNCHANGED backend

SetText(t) ==
  /\ node' = [node EXCEPT !.text = t, !.memo = Nothing]
  /\ UNCHANGED <<backend, cache>>

SetFont(f) ==
  /\ node' = [node EXCEPT !.font = f, !.memo = Nothing]
  /\ UNCHANGED <<backend, cache>>

\* xent_text_setbackend: another backend starts with an empty cache.
SetBackend(b) ==
  /\ b # backend
  /\ backend' = b
  /\ cache' = NoCache
  /\ node' = [node EXCEPT !.memo = Nothing]

CacheNext ==
  \/ \E r \in Requests : Measure(r)
  \/ \E fit \in Settings : NodeMeasure(fit)
  \/ \E t \in Texts : SetText(t)
  \/ \E f \in Fonts : SetFont(f)
  \/ \E b \in Backends : SetBackend(b)

CacheSpec == CacheInit /\ [][CacheNext]_cacheVars

-----------------------------------------------------------------------------
Answers == {Truth(b, r) : b \in Backends, r \in Requests}
Memos == [font : Fonts, fit : Settings, metrics : Answers] \cup {Nothing}

CacheTypeOK ==
  /\ backend \in Backends
  /\ cache.cap \in 0 .. MaxCap
  /\ DOMAIN cache.slots = 0 .. cache.cap - 1
  /\ \A s \in 0 .. cache.cap - 1 :
       cache.slots[s] \in [key : Keys, metrics : Answers] \cup {Empty}
  /\ cache.count \in 0 .. cache.cap
  /\ cache.byUse \in Seq(Keys)
  /\ node \in [text : Texts, font : Fonts, memo : Memos]

(***************************************************************************)
(* Whatever was inserted, moved by a growth and survived an eviction, a    *)
(* lookup finds exactly the entries that are in the table: none lies       *)
(* behind a gap, none is there twice, and count is their number, so that   *)
(* the probing loops, which stop at an empty slot, do stop.                *)
(***************************************************************************)
TableSound ==
  LET taken == {s \in 0 .. cache.cap - 1 : cache.slots[s] # Empty}
  IN /\ CacheTypeOK
     /\ \A s \in taken : Lookup(cache, cache.slots[s].key) = {cache.slots[s]}
     /\ \A s, t \in taken : cache.slots[s].key = cache.slots[t].key => s = t
     /\ cache.count = Cardinality(taken)
     /\ {cache.slots[s].key : s \in taken} = ToSet(cache.byUse)

(***************************************************************************)
(* No answer is out of date or somebody else's: what the cache, or a       *)
(* node's memory, would answer to a request is what the current backend    *)
(* answers to it, through collisions, font changes and backend changes.    *)
(***************************************************************************)
AnswersAreTrue ==
  /\ \A r \in Requests : \A e \in Lookup(cache, Key(backend, r)) : e.metrics = Truth(backend, r)
  /\ \A fit \in Settings : Remembered(fit) =>
       node.memo.metrics = Truth(backend, [text |-> node.text, font |-> node.font, fit |-> fit])

(***************************************************************************)
(* A full table loses its least recently used entries: when an insertion   *)
(* drops keys, either memory was short and all went, or those that stay    *)
(* are half of the largest table and were all used after those that went.  *)
(***************************************************************************)
DropsOldest ==
  LET was == ToSet(cache.byUse)
      stays == was \cap ToSet(cache.byUse')
      age(k) == CHOOSE i \in 1 .. Len(cache.byUse) : cache.byUse[i] = k
  IN backend' = backend /\ stays # was =>
       \/ Faults /\ stays = {}
       \/ /\ Cardinality(stays) = Half
          /\ \A k \in stays, gone \in was \ stays : age(gone) < age(k)

\* Every step drops the oldest alone, as DropsOldest says.
KeepsNewest == [][DropsOldest]_cacheVars
=============================================================================
