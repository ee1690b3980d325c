------------------------------- MODULE MonoText -------------------------------
(***************************************************************************)
(* Line breaking of the monospace text backend                             *)
(* (src/text/xent_text_backend_mono.c).  A text is a sequence of glyphs of *)
(* which only one thing matters: whether a line may end behind it.  Widths *)
(* are counted in halves of a glyph, so that a width may end within one.   *)
(* Decoding UTF-8 and failing allocations, which answer nothing, are left  *)
(* out.                                                                    *)
(***************************************************************************)
EXTENDS Integers, Sequences, FiniteSets, FiniteSetsExt

CONSTANTS
  MaxGlyphs,  \* bound on the length of a text
  Widths,     \* width constraints, in halves of a glyph
  Infinite    \* the width that is no constraint

ASSUME TextAssumption ==
  /\ MaxGlyphs \in Nat
  /\ Widths \subseteq Int
  /\ Infinite \in Nat /\ \A w \in Widths : w < Infinite

VARIABLES
  breaks,     \* break_after of every glyph
  request,    \* policy, mode and width of the measuring request
  doing,      \* "plan", "done"
  lineStart,  \* the first glyph that is in no line yet
  plan        \* the lines: a sequence of [start, count]

textVars == <<breaks, request, doing, lineStart, plan>>

TextRequests == [policy : {"nowrap", "word", "char"},
                 mode : {"undefined", "at_most", "exactly", "min_content"},
                 width : Widths \cup {Infinite}]

TextInit ==
  /\ breaks \in UNION {[1 .. n -> BOOLEAN] : n \in 0 .. MaxGlyphs}
  /\ request \in TextRequests
  /\ doing = "plan"
  /\ lineStart = 1
  /\ plan = <<>>

-----------------------------------------------------------------------------
Count == Len(breaks)

\* resolve_max_glyphs_per_line answers UINT32_MAX
Unconstrained ==
  \/ request.mode = "undefined"
  \/ request.policy = "nowrap"
  \/ request.width = Infinite
  \/ request.width <= 0

\* Otherwise, as many as fit, but one at least.
PerLine == IF request.width < 2 THEN 1 ELSE request.width \div 2

AddLine(count) ==
  /\ plan' = Append(plan, [start |-> lineStart, count |-> count])
  /\ lineStart' = lineStart + count
  /\ UNCHANGED <<breaks, request, doing>>

Planning == doing = "plan" /\ lineStart <= Count

\* build_lines_no_wrap
WholeText ==
  /\ Planning
  /\ IF request.mode = "min_content" THEN request.policy = "nowrap" ELSE Unconstrained
  /\ AddLine(Count)

\* build_lines_char_wrap; minimum content has one glyph in a line
CharLine ==
  /\ Planning
  /\ request.policy = "char"
  /\ \/ request.mode = "min_content" /\ AddLine(1)
     \/ request.mode # "min_content" /\ ~Unconstrained
          /\ AddLine(Min({PerLine, Count + 1 - lineStart}))

(***************************************************************************)
(* scan_word_line_end: the glyphs that fit, up to the last break among     *)
(* them, unless they are the rest of the text or hold no break.            *)
(***************************************************************************)
WordEndEager(start) ==  \* faulty: breaks although the rest of the text fits
  LET full == Min({start + PerLine, Count + 1})
      inside == {i \in start .. full - 1 : breaks[i]}
  IN IF inside # {} THEN Max(inside) + 1 ELSE full

WordEnd(start) ==
  LET full == Min({start + PerLine, Count + 1})
      inside == {i \in start .. full - 1 : breaks[i]}
  IN IF full <= Count /\ inside # {} THEN Max(inside) + 1 ELSE full

\* build_lines_word_wrap
WordLine ==
  /\ Planning
  /\ request.policy = "word" /\ request.mode # "min_content" /\ ~Unconstrained
  /\ AddLine(WordEnd(lineStart) - lineStart)

\* build_lines_min_content: a line ends at every break
OneWord ==
  /\ Planning
  /\ request.policy = "word" /\ request.mode = "min_content"
  /\ AddLine(Min({i \in lineStart .. Count : breaks[i]} \cup {Count}) + 1 - lineStart)

\* An empty text has one line all the same.
PlanDone ==
  /\ doing = "plan" /\ lineStart > Count
  /\ doing' = "done"
  /\ plan' = IF Count = 0 THEN <<[start |-> 1, count |-> 0]>> ELSE plan
  /\ UNCHANGED <<breaks, request, lineStart>>

TextNext == WholeText \/ CharLine \/ WordLine \/ OneWord \/ PlanDone

TextSpec == TextInit /\ [][TextNext]_textVars

\* compute_line_metrics, in halves of a glyph
WidestLine == Max({2 * plan[k].count : k \in DOMAIN plan})

\* resolve_result_width
ResultWidth ==
  IF request.mode = "exactly" /\ request.width \in 0 .. Infinite - 1 THEN request.width ELSE WidestLine

-----------------------------------------------------------------------------
\* The runs of glyphs between two breaks, as pairs of first and last.
IsWord(i, j) ==
  /\ i <= j
  /\ i = 1 \/ breaks[i - 1]
  /\ j = Count \/ breaks[j]
  /\ \A k \in i .. j - 1 : ~breaks[k]

Words == {w \in (1 .. Count) \X (1 .. Count) : IsWord(w[1], w[2])}

Apart(i, j) ==  \* glyphs i and j are in different lines
  \E k \in 1 .. Len(plan) - 1 : i < plan[k + 1].start /\ plan[k + 1].start <= j

(***************************************************************************)
(* What a caller may rely on when it wraps words: every glyph is in        *)
(* exactly one line, in order; no word is torn that fits in a line; no     *)
(* line ends before a word that would still have fitted; the text needs no *)
(* more room than it was given, if that holds one glyph; and its minimum   *)
(* content is as wide as its longest word.                                 *)
(***************************************************************************)
WordsStayWhole ==
  doing = "done" /\ Count > 0 =>
    /\ plan[1].start = 1
    /\ plan[Len(plan)].start + plan[Len(plan)].count = Count + 1
    /\ \A k \in 1 .. Len(plan) - 1 :
         plan[k].count > 0 /\ plan[k + 1].start = plan[k].start + plan[k].count
    /\ request.policy = "word" =>
         \A w \in Words :
           \/ ~Apart(w[1], w[2])
           \/ request.mode # "min_content" /\ w[2] - w[1] + 1 > PerLine
    /\ request.policy = "word" /\ request.mode # "min_content" /\ ~Unconstrained =>
         \A k \in 1 .. Len(plan) - 1 : \A w \in Words :
           w[1] = plan[k + 1].start => w[2] + 1 - plan[k].start > PerLine
    /\ request.mode # "min_content" /\ ~Unconstrained /\ request.width >= 2 =>
         ResultWidth <= request.width
    /\ request.policy = "word" /\ request.mode = "min_content" =>
         ResultWidth = 2 * Max({w[2] - w[1] + 1 : w \in Words})
=============================================================================
