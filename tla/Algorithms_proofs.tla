--------------------------- MODULE Algorithms_proofs ---------------------------
(***************************************************************************)
(* Proofs about the algorithms of a layout pass, for any number of         *)
(* children, lines, glyphs and boxes, and for sizes of every kind.         *)
(*                                                                         *)
(* Text: the lines so far cover the glyphs before lineStart, one behind    *)
(* the other, and of each line is known why it ends where it does          *)
(* (LineOK), which is what the properties of words follow from, one line   *)
(* or two neighbouring lines at a time (TextInv).                          *)
(*                                                                         *)
(* Boxes: a box that no climb from a marked node gets to is as wide as a   *)
(* pass over the whole chain would make it, and so is one where a climb    *)
(* ends, unless it wraps its contents whatever it is offered (BoxesInv).   *)
(*                                                                         *)
(* Flex lines: the open line begins where the last one ended, is as long   *)
(* as its children, and every line is closed by a child that did not fit   *)
(* (LinesInv).                                                             *)
(*                                                                         *)
(* Baselines: a line that was expanded has room for its children above and *)
(* below their baseline, so aligning them cuts no offset off               *)
(* (BaselineInv); and the lines, with what is put in front of and between  *)
(* them, take up no more than there is (HoldInv).                          *)
(*                                                                         *)
(* Grid: a child that had its turn has what it needs, and the star tracks  *)
(* share what is left (GridInv).                                           *)
(*                                                                         *)
(* Flex space: at the place where the children of a line are about to get  *)
(* their offsets, those that are not frozen have their shares of what the  *)
(* frozen ones left (FlexInv). What a line holds is then a sum over its    *)
(* children, and each begins where the one before it and a gap end.        *)
(*                                                                         *)
(* What is shared out is shared out whole in the code, which divides       *)
(* floats, but not in the models, which divide integers: the theorems say  *)
(* so where they need it (CrossExact, GridExact, SharesWhole,             *)
(* JustifyWhole).                                                          *)
(***************************************************************************)
EXTENDS MonoText, LayoutBoxes, FlexLines, FlexCross, GridTracks, Filtering_proofs

\* Whether the whole text is one line, and whether lines have a width to fit.
Whole == IF request.mode = "min_content" THEN request.policy = "nowrap" ELSE Unconstrained
Fitted == request.mode # "min_content" /\ ~Unconstrained

\* Why a line of words that begins with glyph s ends before glyph e although
\* the text goes on: the next glyph does not fit, and there is no later break.
Filled(s, e) ==
  /\ s + PerLine <= Count
  /\ \/ breaks[e - 1] /\ \A i \in e .. s + PerLine - 1 : ~breaks[i]
     \/ e = s + PerLine /\ \A i \in s .. s + PerLine - 1 : ~breaks[i]

LineOK(s, e) ==
  /\ s \in 1 .. Count /\ e \in s + 1 .. Count + 1
  /\ Whole => e = Count + 1
  /\ Fitted => e - s <= PerLine
  /\ Fitted /\ request.policy = "word" /\ e <= Count => Filled(s, e)
  /\ request.policy = "word" /\ request.mode = "min_content" =>
       /\ e <= Count => breaks[e - 1]
       /\ \A i \in s .. e - 2 : ~breaks[i]

\* The glyph behind line k.
Behind(k) == plan[k].start + plan[k].count

\* Glyph g is in a line.
InLine(g) == \E k \in 1 .. Len(plan) : plan[k].start <= g /\ g < Behind(k)

Covered ==
  /\ plan = <<>> => lineStart = 1
  /\ plan # <<>> => plan[1].start = 1 /\ Behind(Len(plan)) = lineStart
  /\ \A k \in 1 .. Len(plan) : LineOK(plan[k].start, Behind(k))
  /\ \A k \in 1 .. Len(plan) - 1 : plan[k + 1].start = Behind(k)
  /\ \A g \in 1 .. lineStart - 1 : InLine(g)

Row == [start : Nat, count : Nat]

TextTypeOK ==
  /\ breaks \in Seq(BOOLEAN)
  /\ request \in TextRequests
  /\ doing \in {"plan", "done"}
  /\ plan \in Seq(Row)
  /\ lineStart \in 1 .. Count + 1

TextInv ==
  /\ TextTypeOK
  /\ doing = "done" => lineStart = Count + 1
  /\ Count > 0 \/ doing = "plan" => Covered

-----------------------------------------------------------------------------
(* Least and greatest.                                                     *)

\* The lesser of two numbers.
LEMMA PairMin ==
  ASSUME NEW a \in Int, NEW b \in Int
  PROVE  Min({a, b}) = IF a <= b THEN a ELSE b
<1> DEFINE m == IF a <= b THEN a ELSE b
<1>1. m \in {a, b} /\ \A y \in {a, b} : m <= y
  OBVIOUS
<1>2. \A x \in {a, b} : (\A y \in {a, b} : x <= y) => x = m
  BY <1>1
<1> HIDE DEF m
<1>3. Min({a, b}) = m
  BY <1>1, <1>2 DEF Min
<1> QED BY <1>3 DEF m

\* The least of a bounded set of numbers.
LEMMA LeastOf ==
  ASSUME NEW S \in SUBSET Nat, S # {}
  PROVE  Min(S) \in S /\ \A y \in S : Min(S) <= y
<1>1. \E x \in S : \A y \in S : x <= y
  BY LeastNumber
<1> QED BY <1>1 DEF Min

\* The greatest of a bounded set of numbers.
LEMMA GreatestOf ==
  ASSUME NEW n \in Nat, NEW S \in SUBSET (0 .. n), S # {}
  PROVE  /\ Max(S) \in S /\ \A y \in S : y <= Max(S)
         /\ \A x \in S : (\A y \in S : y <= x) => x = Max(S)
<1>1. \E x \in S : \A y \in S : y <= x
  BY GreatestNumber
<1>2. \E x \in S : \A y \in S : x >= y
  BY <1>1
<1>3. Max(S) \in S /\ \A y \in S : Max(S) >= y
  BY <1>2 DEF Max
<1>4. \A y \in S : y <= Max(S)
  BY <1>3
<1>5. ASSUME NEW x \in S, \A y \in S : y <= x PROVE x = Max(S)
  <2> DEFINE m == Max(S)
  <2>1. m \in S /\ x <= m /\ m <= x
    BY <1>3, <1>4, <1>5
  <2> HIDE DEF m
  <2>2. x \in Int /\ m \in Int
    BY <2>1
  <2>3. x = m
    BY <2>1, <2>2
  <2> QED BY <2>3 DEF m
<1> QED BY <1>3, <1>4, <1>5

\* The glyphs that fit in a line, and at least one.
LEMMA PerLineIs ==
  ASSUME TextTypeOK
  PROVE  /\ request.width \in Int
         /\ PerLine \in Nat \ {0}
         /\ request.width >= 2 => 2 * PerLine <= request.width
<1>1. request.width \in Int
  <2>1. request.width \in Widths \cup {Infinite}
    BY DEF TextTypeOK, TextRequests
  <2> DEFINE v == request.width
  <2>2. v \in Widths \/ v = Infinite
    BY <2>1
  <2>3. Widths \subseteq Int /\ Infinite \in Int
    BY TextAssumption
  <2> HIDE DEF v
  <2>4. v \in Int
    BY <2>2, <2>3
  <2> QED BY <2>4 DEF v
<1> DEFINE w == request.width
<1> HIDE DEF w
<1>2. CASE w < 2
  <2>1. PerLine = 1
    BY <1>2 DEF PerLine, w
  <2>2. ~(request.width >= 2)
    BY <1>1, <1>2 DEF w
  <2> QED BY <1>1, <2>1, <2>2
<1>3. CASE w >= 2
  <2> DEFINE q == w \div 2
  <2>1. q \in Int /\ w % 2 \in 0 .. 1 /\ w = 2 * q + (w % 2)
    BY <1>1 DEF w
  <2>2. PerLine = q
    BY <1>1, <1>3 DEF PerLine, w
  <2> HIDE DEF q
  <2>3. q >= 1 /\ 2 * q <= w
    BY <1>1, <1>3, <2>1 DEF w
  <2> QED BY <1>1, <2>1, <2>2, <2>3 DEF w
<1> QED BY <1>1, <1>2, <1>3 DEF w

-----------------------------------------------------------------------------
(* Every line.                                                             *)

\* A line more keeps the text covered.
LEMMA AddCovers ==
  ASSUME TextInv, Planning, NEW count \in Nat, LineOK(lineStart, lineStart + count), AddLine(count)
  PROVE  TextInv'
<1> DEFINE row == [start |-> lineStart, count |-> count]
<1>0. PICK n \in Nat : n = Len(plan)
  BY DEF TextInv, TextTypeOK
<1>1. /\ plan \in Seq(Row) /\ lineStart \in 1 .. Count + 1 /\ Covered /\ Count \in Nat /\ n = Len(plan)
      /\ doing = "plan" /\ lineStart \in Nat
  BY <1>0 DEF TextInv, TextTypeOK, Planning, Count
<1>2. /\ plan' = Append(plan, row) /\ lineStart' = lineStart + count
      /\ breaks' = breaks /\ request' = request /\ doing' = doing
  BY DEF AddLine
<1>3. row \in Row /\ row.start = lineStart /\ row.count = count
  BY <1>1 DEF Row
<1> HIDE DEF row
<1>4. /\ plan' \in Seq(Row) /\ Len(plan') = n + 1 /\ plan'[n + 1] = row
      /\ \A k \in 1 .. n : plan'[k] = plan[k]
  BY <1>1, <1>2, <1>3, AppendProperties
<1>5. lineStart + count \in lineStart + 1 .. Count + 1
  BY DEF LineOK
<1>6. TextTypeOK'
  BY <1>1, <1>2, <1>4, <1>5 DEF TextInv, TextTypeOK, Count
<1>8. Behind(n + 1)' = lineStart + count /\ \A k \in 1 .. n : Behind(k)' = Behind(k)
  BY <1>3, <1>4 DEF Behind
<1>9. plan' # <<>>
  BY <1>1, <1>4
<1>10. plan'[1].start = 1 /\ Behind(Len(plan))' = lineStart'
  <2>1. CASE plan = <<>>
    <3>1. n = 0 /\ lineStart = 1
      BY <1>1, <2>1 DEF Covered
    <3> QED BY <1>2, <1>3, <1>4, <1>8, <3>1
  <2>2. CASE plan # <<>>
    <3>1. 1 \in 1 .. n /\ plan[1].start = 1
      BY <1>1, <2>2, EmptySeq DEF Covered
    <3> QED BY <1>2, <1>4, <1>8, <3>1
  <2> QED BY <2>1, <2>2
<1>11. ASSUME NEW k \in 1 .. n + 1 PROVE LineOK(plan'[k].start, Behind(k)')
  <2>1. CASE k = n + 1
    BY <1>3, <1>4, <1>8, <2>1
  <2>2. CASE k \in 1 .. n
    <3>1. LineOK(plan[k].start, Behind(k))
      BY <1>1, <2>2 DEF Covered
    <3> QED BY <1>4, <1>8, <2>2, <3>1
  <2> QED BY <1>1, <2>1, <2>2
<1>12. ASSUME NEW k \in 1 .. n PROVE plan'[k + 1].start = Behind(k)'
  <2>1. CASE k = n
    <3>1. plan # <<>>
      BY <1>1
    <3> QED BY <1>1, <1>3, <1>4, <1>8, <2>1, <3>1 DEF Covered
  <2>2. CASE k # n
    <3>1. k \in 1 .. n - 1 /\ k + 1 \in 1 .. n
      BY <1>1, <2>2
    <3>2. plan[k + 1].start = Behind(k)
      BY <1>1, <3>1 DEF Covered
    <3> QED BY <1>4, <1>8, <3>1, <3>2
  <2> QED BY <2>1, <2>2
<1>13. ASSUME NEW g \in 1 .. lineStart + count - 1
       PROVE  InLine(g)'
  <2>0. Len(plan') = n + 1
    BY <1>4
  <2>1. CASE g < lineStart
    <3>1. g \in 1 .. lineStart - 1
      BY <1>1, <2>1
    <3>2. PICK k \in 1 .. n : plan[k].start <= g /\ g < Behind(k)
      BY <1>1, <3>1 DEF Covered, InLine
    <3>3. k \in 1 .. n + 1
      BY <1>1
    <3> QED BY <1>4, <1>8, <2>0, <3>2, <3>3 DEF InLine
  <2>2. CASE lineStart <= g
    <3>1. n + 1 \in 1 .. n + 1 /\ g < lineStart + count
      BY <1>1
    <3> QED BY <1>3, <1>4, <1>8, <2>0, <2>2, <3>1 DEF InLine
  <2> QED BY <1>1, <2>1, <2>2
<1>14. Covered'
  <2>1. Len(plan') - 1 = n /\ Len(plan') = n + 1
    BY <1>1, <1>4
  <2>2. \A k \in 1 .. Len(plan') : LineOK(plan[k].start, Behind(k))'
    <3> SUFFICES ASSUME NEW k \in 1 .. n + 1 PROVE LineOK(plan[k].start, Behind(k))'
      BY <2>1
    <3>1. LineOK(plan'[k].start, Behind(k)')
      BY <1>11
    <3> QED BY <1>2, <3>1 DEF LineOK, Whole, Fitted, Filled, Unconstrained, PerLine, Count
  <2>3. \A g \in 1 .. lineStart' - 1 : InLine(g)'
    <3> SUFFICES ASSUME NEW g \in 1 .. lineStart' - 1 PROVE InLine(g)'
      OBVIOUS
    <3>1. g \in 1 .. lineStart + count - 1
      <4>1. lineStart' = lineStart + count
        BY <1>2
      <4> QED BY <1>1, <4>1
    <3> QED BY <1>13, <3>1
  <2>4. \A k \in 1 .. Len(plan') - 1 : plan'[k + 1].start = Behind(k)'
    BY <1>12, <2>1
  <2> QED BY <1>9, <1>10, <2>2, <2>3, <2>4 DEF Covered
<1> QED BY <1>1, <1>2, <1>6, <1>14 DEF TextInv

\* WholeText: no line goes before.
LEMMA WholeLine == ASSUME TextInv, WholeText PROVE LineOK(lineStart, lineStart + Count)
<1>1. /\ Covered /\ lineStart \in 1 .. Count + 1 /\ lineStart <= Count /\ Count \in Nat /\ plan \in Seq(Row)
  BY DEF TextInv, TextTypeOK, WholeText, Planning, Count
<1>2. Whole
  BY DEF WholeText, Whole
<1>3. lineStart = 1
  <2> SUFFICES ASSUME plan # <<>> PROVE FALSE
    BY <1>1 DEF Covered
  <2>1. Len(plan) \in 1 .. Len(plan)
    BY <1>1, EmptySeq, LenProperties
  <2>2. LineOK(plan[Len(plan)].start, Behind(Len(plan))) /\ Behind(Len(plan)) = lineStart
    BY <1>1, <2>1 DEF Covered
  <2>3. lineStart = Count + 1
    BY <1>2, <2>2 DEF LineOK
  <2> QED BY <1>1, <2>3
<1>4. ~Fitted /\ ~(request.policy = "word" /\ request.mode = "min_content")
  BY <1>2 DEF Fitted, Whole
<1>5. lineStart + Count = Count + 1 /\ lineStart \in 1 .. Count /\ Count + 1 \in lineStart + 1 .. Count + 1
  BY <1>1, <1>3
<1> QED BY <1>4, <1>5 DEF LineOK

\* CharLine: as many glyphs as fit, or one.
LEMMA CharLineOK ==
  ASSUME TextInv, CharLine
  PROVE  \E count \in Nat : AddLine(count) /\ LineOK(lineStart, lineStart + count)
<1>1. /\ lineStart \in 1 .. Count /\ Count \in Nat /\ TextTypeOK
  BY DEF TextInv, TextTypeOK, CharLine, Planning, Count
<1>2. request.policy = "char"
  BY DEF CharLine
<1>3. CASE request.mode = "min_content" /\ AddLine(1)
  <2>1. ~Whole /\ ~Fitted
    BY <1>2, <1>3 DEF Whole, Fitted
  <2>2. lineStart + 1 \in lineStart + 1 .. Count + 1
    BY <1>1
  <2>3. LineOK(lineStart, lineStart + 1)
    BY <1>1, <1>2, <2>1, <2>2 DEF LineOK
  <2> QED BY <1>3, <2>3
<1>4. CASE request.mode # "min_content" /\ ~Unconstrained /\ AddLine(Min({PerLine, Count + 1 - lineStart}))
  <2> DEFINE m == Min({PerLine, Count + 1 - lineStart})
             p == PerLine
  <2>0. p \in Nat \ {0}
    BY <1>1, PerLineIs
  <2>1. m = IF p <= Count + 1 - lineStart THEN p ELSE Count + 1 - lineStart
    BY <1>1, <2>0, PairMin
  <2> HIDE DEF m, p
  <2>2. m \in Nat \ {0} /\ m <= p /\ lineStart + m \in lineStart + 1 .. Count + 1 /\ (lineStart + m) - lineStart <= p
    BY <1>1, <2>0, <2>1
  <2>3. ~Whole
    BY <1>4 DEF Whole
  <2>4. LineOK(lineStart, lineStart + m)
    BY <1>1, <1>2, <2>2, <2>3 DEF LineOK, p
  <2> QED BY <1>4, <2>2, <2>4 DEF m
<1> QED BY <1>3, <1>4 DEF CharLine

\* WordLine: scan_word_line_end.
LEMMA WordLineOK ==
  ASSUME TextInv, WordLine
  PROVE  WordEnd(lineStart) - lineStart \in Nat /\ LineOK(lineStart, WordEnd(lineStart))
<1> DEFINE s == lineStart
           p == PerLine
           full == Min({s + p, Count + 1})
           early == {i \in s .. full - 1 : breaks[i]}
           e == WordEnd(s)
<1>1. s \in 1 .. Count /\ Count \in Nat /\ TextTypeOK
  BY DEF TextInv, TextTypeOK, WordLine, Planning, Count
<1>2. request.policy = "word" /\ request.mode # "min_content" /\ ~Unconstrained
  BY DEF WordLine
<1>3. p \in Nat \ {0}
  BY <1>1, PerLineIs
<1>4. full = IF s + p <= Count + 1 THEN s + p ELSE Count + 1
  <2>1. s + p \in Int /\ Count + 1 \in Int
    BY <1>1, <1>3
  <2> HIDE DEF s, p
  <2> QED BY <2>1, PairMin
<1>5. e = IF full <= Count /\ early # {} THEN Max(early) + 1 ELSE full
  BY DEF WordEnd
<1> HIDE DEF s, p, full, e
<1>6. full \in s + 1 .. Count + 1 /\ full - s <= p
  BY <1>1, <1>3, <1>4
<1>7. CASE full <= Count /\ early # {}
  <2> DEFINE m == Max(early)
  <2>1. early \in SUBSET (0 .. Count)
    BY <1>1, <1>6
  <2>2. m \in early /\ \A y \in early : y <= m
    <3> HIDE DEF early
    <3> QED BY <1>1, <1>7, <2>1, GreatestOf
  <2> HIDE DEF m
  <2>3. e = m + 1 /\ m \in s .. full - 1 /\ breaks[m]
    BY <1>5, <1>7, <2>2 DEF m
  <2>4. e \in s + 1 .. Count + 1 /\ e - s <= p /\ e - 1 = m
    BY <1>1, <1>3, <1>6, <2>3
  <2>5. full = s + p /\ s + p <= Count
    BY <1>1, <1>3, <1>4, <1>7
  <2>6. \A i \in e .. s + p - 1 : ~breaks[i]
    <3> SUFFICES ASSUME NEW i \in e .. s + p - 1, breaks[i] PROVE FALSE
      OBVIOUS
    <3>0. i \in s .. full - 1
      <4>1. i \in Int /\ e <= i /\ i <= s + p - 1 /\ s + 1 <= e /\ s \in Int /\ p \in Int /\ e \in Int
        BY <1>1, <1>3, <2>4
      <4>2. full = s + p
        BY <2>5
      <4> QED BY <4>1, <4>2
    <3>1. i \in early
      BY <3>0
    <3>2. i <= m
      BY <2>2, <3>1
    <3> QED BY <1>1, <1>6, <2>3, <3>2
  <2>7. Filled(s, e)
    BY <2>3, <2>4, <2>5, <2>6 DEF Filled, p
  <2> QED BY <1>1, <1>2, <2>4, <2>7 DEF LineOK, Whole, e, s, p
<1>8. CASE ~(full <= Count /\ early # {})
  <2>1. e = full
    BY <1>5, <1>8
  <2>2. e <= Count => Filled(s, e)
    <3> SUFFICES ASSUME e <= Count PROVE Filled(s, e)
      OBVIOUS
    <3>1. full = s + p /\ s + p <= Count
      BY <1>1, <1>3, <1>4, <2>1
    <3>2. early = {}
      BY <1>8, <2>1
    <3>3. \A i \in s .. full - 1 : ~breaks[i]
      BY <3>2
    <3>4. ASSUME NEW i \in s .. s + p - 1 PROVE ~breaks[i]
      <4>1. full = s + p
        BY <3>1
      <4>2. i \in s .. full - 1
        <5>1. s \in Int /\ p \in Int
          BY <1>1, <1>3
        <5> QED BY <4>1, <5>1
      <4> QED BY <3>3, <4>2
    <3>5. e = s + p
      BY <2>1, <3>1
    <3> QED BY <3>1, <3>4, <3>5 DEF Filled, p
  <2>3. e \in s + 1 .. Count + 1 /\ e - s <= p /\ e - s \in Nat
    BY <1>1, <1>6, <2>1
  <2> QED BY <1>1, <1>2, <2>2, <2>3 DEF LineOK, Whole, e, s, p
<1> QED BY <1>7, <1>8

\* OneWord: up to the next break.
LEMMA OneWordOK ==
  ASSUME TextInv, OneWord
  PROVE  \E count \in Nat : AddLine(count) /\ LineOK(lineStart, lineStart + count)
<1> DEFINE s == lineStart
           stops == {i \in s .. Count : breaks[i]} \cup {Count}
           m == Min(stops)
           count == m + 1 - s
<1>1. s \in 1 .. Count /\ Count \in Nat
  BY DEF TextInv, TextTypeOK, OneWord, Planning, Count
<1>2. request.policy = "word" /\ request.mode = "min_content" /\ AddLine(count)
  BY DEF OneWord
<1>3. stops \in SUBSET Nat /\ stops # {}
  BY <1>1
<1>4. m \in stops /\ \A y \in stops : m <= y
  <2> HIDE DEF stops
  <2> QED BY <1>3, LeastOf
<1> HIDE DEF m, s
<1>5. m \in s .. Count /\ m <= Count /\ (m = Count \/ breaks[m])
  BY <1>1, <1>4
<1>6. count \in Nat /\ s + count = m + 1 /\ (m + 1) - 1 = m /\ (m + 1) - 2 = m - 1
  BY <1>1, <1>5
<1>7. \A i \in s .. m - 1 : ~breaks[i]
  <2> SUFFICES ASSUME NEW i \in s .. m - 1, breaks[i] PROVE FALSE
    OBVIOUS
  <2>1. i \in stops
    BY <1>1, <1>5
  <2>2. m <= i
    BY <1>4, <2>1
  <2> QED BY <1>1, <1>5, <2>2
<1> HIDE DEF count
<1>8. LineOK(s, m + 1)
  <2>1. m + 1 <= Count => breaks[(m + 1) - 1]
    BY <1>1, <1>5, <1>6
  <2>2. \A i \in s .. (m + 1) - 2 : ~breaks[i]
    BY <1>6, <1>7
  <2>3. ~Whole /\ ~Fitted
    BY <1>2 DEF Whole, Fitted
  <2>4. m + 1 \in s + 1 .. Count + 1
    BY <1>1, <1>5
  <2> QED BY <1>1, <2>1, <2>2, <2>3, <2>4 DEF LineOK
<1> QED BY <1>2, <1>6, <1>8 DEF s

-----------------------------------------------------------------------------
\* A text before its first line.
LEMMA TextInvInit == TextInit => TextInv
<1> SUFFICES ASSUME TextInit PROVE TextInv
  OBVIOUS
<1>1. breaks \in Seq(BOOLEAN)
  <2>1. PICK n \in 0 .. MaxGlyphs : breaks \in [1 .. n -> BOOLEAN]
    BY DEF TextInit
  <2>2. n \in Nat
    BY TextAssumption
  <2> QED BY <2>1, <2>2, IsASeq
<1>2. lineStart = 1 /\ plan = <<>> /\ doing = "plan" /\ request \in TextRequests /\ Len(plan) = 0
  BY DEF TextInit
<1>3. Count \in Nat
  BY <1>1 DEF Count
<1>4. Covered
  BY <1>2 DEF Covered
<1>5. TextTypeOK
  BY <1>1, <1>2, <1>3 DEF TextTypeOK
<1> QED BY <1>2, <1>4, <1>5 DEF TextInv

\* Every step of the line breaking.
LEMMA TextInvStep == TextInv /\ [TextNext]_textVars => TextInv'
<1> SUFFICES ASSUME TextInv, [TextNext]_textVars PROVE TextInv'
  OBVIOUS
<1>1. CASE UNCHANGED textVars
  BY <1>1 DEF textVars, TextInv, TextTypeOK, Covered, InLine, Behind, LineOK, Whole, Fitted, Filled, Unconstrained, PerLine, Count
<1>2. CASE WholeText
  <2>1. LineOK(lineStart, lineStart + Count) /\ AddLine(Count) /\ Planning
    BY <1>2, WholeLine DEF WholeText
  <2>2. Count \in Nat
    BY DEF TextInv, TextTypeOK, Count
  <2> QED BY <2>1, <2>2, AddCovers
<1>3. CASE CharLine
  <2>1. PICK count \in Nat : AddLine(count) /\ LineOK(lineStart, lineStart + count)
    BY <1>3, CharLineOK
  <2> QED BY <1>3, <2>1, AddCovers DEF CharLine
<1>4. CASE WordLine
  <2> DEFINE count == WordEnd(lineStart) - lineStart
  <2>1. count \in Nat /\ LineOK(lineStart, WordEnd(lineStart)) /\ AddLine(count) /\ Planning
    BY <1>4, WordLineOK DEF WordLine
  <2>2. WordEnd(lineStart) \in Int /\ lineStart \in Int
    BY <2>1 DEF LineOK
  <2>3. lineStart + count = WordEnd(lineStart)
    BY <2>2
  <2> HIDE DEF count
  <2> QED BY <2>1, <2>3, AddCovers
<1>5. CASE OneWord
  <2>1. PICK count \in Nat : AddLine(count) /\ LineOK(lineStart, lineStart + count)
    BY <1>5, OneWordOK
  <2> QED BY <1>5, <2>1, AddCovers DEF OneWord
<1>6. CASE PlanDone
  <2>1. /\ TextTypeOK /\ lineStart = Count + 1 /\ Count \in Nat /\ Covered /\ doing' = "done"
        /\ breaks' = breaks /\ request' = request /\ lineStart' = lineStart
    BY <1>6 DEF PlanDone, TextInv, TextTypeOK, Count
  <2>2. CASE Count = 0
    <3>1. [start |-> 1, count |-> 0] \in Row /\ plan' = <<[start |-> 1, count |-> 0]>>
      BY <1>6, <2>2 DEF PlanDone, Row
    <3>2. plan' \in Seq(Row)
      BY <3>1
    <3> QED BY <2>1, <2>2, <3>2 DEF TextInv, TextTypeOK, Count
  <2>3. CASE Count # 0
    <3>1. plan' = plan
      BY <1>6, <2>3 DEF PlanDone
    <3>2. \A k \in 1 .. Len(plan) : LineOK(plan[k].start, Behind(k))'
      <4> SUFFICES ASSUME NEW k \in 1 .. Len(plan) PROVE LineOK(plan[k].start, Behind(k))'
        OBVIOUS
      <4>1. LineOK(plan[k].start, Behind(k))
        BY <2>1 DEF Covered
      <4> QED BY <2>1, <3>1, <4>1
              DEF LineOK, Behind, Whole, Fitted, Filled, Unconstrained, PerLine, Count
    <3>3. /\ plan' = <<>> => lineStart' = 1
          /\ plan' # <<>> => plan'[1].start = 1 /\ Behind(Len(plan))' = lineStart'
          /\ \A k \in 1 .. Len(plan) - 1 : plan'[k + 1].start = Behind(k)'
          /\ \A g \in 1 .. lineStart' - 1 : InLine(g)'
      BY <2>1, <3>1 DEF Covered, InLine, Behind
    <3>4. Covered'
      BY <3>1, <3>2, <3>3 DEF Covered
    <3> QED BY <2>1, <3>1, <3>4 DEF TextInv, TextTypeOK, Count
  <2> QED BY <2>2, <2>3
<1> QED BY <1>1, <1>2, <1>3, <1>4, <1>5, <1>6 DEF TextNext

\* The lines cover the text up to lineStart, and each ends for a known reason
\* (build_lines of the monospace backend).
THEOREM TextInvariance == TextSpec => []TextInv
  BY TextInvInit, TextInvStep, PTL DEF TextSpec

-----------------------------------------------------------------------------
(* What it means for words.                                                *)

\* A finished plan.
Finished == TextInv /\ doing = "done" /\ Count > 0

\* What is known of a text that is broken into lines.
LEMMA FinishedFacts ==
  ASSUME Finished
  PROVE  /\ Count \in Nat \ {0} /\ Covered /\ lineStart = Count + 1 /\ TextTypeOK
         /\ Len(plan) \in Nat \ {0} /\ plan # <<>>
         /\ \A k \in 1 .. Len(plan) : plan[k].start \in Nat /\ plan[k].count \in Nat
<1>1. Count \in Nat \ {0} /\ Covered /\ lineStart = Count + 1 /\ TextTypeOK /\ plan \in Seq(Row)
  BY DEF Finished, TextInv, TextTypeOK, Count
<1>2. plan # <<>>
  BY <1>1 DEF Covered
<1>3. Len(plan) \in Nat \ {0}
  BY <1>1, <1>2, EmptySeq
<1>4. ASSUME NEW k \in 1 .. Len(plan) PROVE plan[k].start \in Nat /\ plan[k].count \in Nat
  <2>1. plan[k] \in Row
    BY <1>1, ElementOfSeq
  <2> QED BY <2>1 DEF Row
<1> QED BY <1>1, <1>2, <1>3, <1>4

\* Line k and its neighbour.
LEMMA NextLine ==
  ASSUME Finished, NEW k \in 1 .. Len(plan) - 1
  PROVE  /\ plan[k + 1].start = Behind(k) /\ Behind(k) <= Count
         /\ plan[k].count > 0 /\ LineOK(plan[k].start, Behind(k))
<1>1. k \in 1 .. Len(plan) /\ k + 1 \in 1 .. Len(plan)
  BY FinishedFacts
<1>2. plan[k + 1].start = Behind(k)
  BY FinishedFacts DEF Covered
<1>3. LineOK(plan[k].start, Behind(k)) /\ LineOK(plan[k + 1].start, Behind(k + 1))
  BY <1>1, FinishedFacts DEF Covered
<1>4. Behind(k) <= Count
  BY <1>2, <1>3 DEF LineOK
<1>5. plan[k].count > 0
  <2> DEFINE s == plan[k].start
             c == plan[k].count
  <2>1. s \in Nat /\ c \in Nat
    BY <1>1, FinishedFacts
  <2>2. s + c \in s + 1 .. Count + 1
    BY <1>3 DEF LineOK, Behind
  <2> HIDE DEF s, c
  <2>3. c > 0
    BY <2>1, <2>2
  <2> QED BY <2>3 DEF c
<1> QED BY <1>2, <1>3, <1>4, <1>5

\* A word is torn only if it does not fit in a line.
LEMMA TornIsLong ==
  ASSUME Finished, request.policy = "word", NEW w \in Words, Apart(w[1], w[2])
  PROVE  request.mode # "min_content" /\ w[2] - w[1] + 1 > PerLine
<1> DEFINE i == w[1]
           j == w[2]
<1>1. i \in 1 .. Count /\ j \in 1 .. Count /\ IsWord(i, j)
  BY DEF Words
<1>2. PICK k \in 1 .. Len(plan) - 1 : i < plan[k + 1].start /\ plan[k + 1].start <= j
  BY DEF Apart
<1> HIDE DEF i, j
<1> DEFINE s == plan[k].start
           e == Behind(k)
<1>3. e <= Count /\ LineOK(s, e) /\ i < e /\ e <= j /\ Count \in Nat
  BY <1>2, NextLine, FinishedFacts
<1> HIDE DEF s, e
<1>4. e - 1 \in i .. j - 1 /\ ~breaks[e - 1]
  <2>1. e - 1 \in i .. j - 1
    BY <1>1, <1>3 DEF LineOK
  <2> QED BY <1>1, <2>1 DEF IsWord
<1>5. request.mode # "min_content" /\ ~Whole
  <2>1. e # Count + 1
    BY <1>1, <1>3
  <2> QED BY <1>3, <1>4, <2>1 DEF LineOK
<1>6. Fitted
  BY <1>5 DEF Fitted, Whole
<1>7. s + PerLine <= Count /\ e = s + PerLine /\ \A n \in s .. s + PerLine - 1 : ~breaks[n]
  BY <1>3, <1>4, <1>6 DEF LineOK, Filled
<1>8. PerLine \in Nat /\ s \in Nat
  BY <1>3, PerLineIs, FinishedFacts DEF LineOK
<1>9. i <= s
  <2> SUFFICES ASSUME s < i PROVE FALSE
    BY <1>1, <1>8
  <2>1. i - 1 \in s .. s + PerLine - 1 /\ i # 1
    <3> DEFINE p == PerLine
    <3> HIDE DEF p
    <3>1. e = s + p /\ p \in Nat
      BY <1>7, <1>8 DEF p
    <3>2. i \in Int /\ s \in Int /\ s < i /\ i < e /\ s >= 0
      BY <1>1, <1>3, <1>8
    <3>3. s >= 1
      BY <1>3 DEF LineOK
    <3>4. i - 1 \in s .. s + p - 1 /\ i # 1
      BY <3>1, <3>2, <3>3
    <3> QED BY <3>4 DEF p
  <2>2. breaks[i - 1]
    BY <1>1, <2>1 DEF IsWord
  <2> QED BY <1>7, <2>1, <2>2
<1>10. j - i + 1 > PerLine
  <2> DEFINE p == PerLine
  <2> HIDE DEF p
  <2>1. e = s + p /\ p \in Nat
    BY <1>7, <1>8 DEF p
  <2>2. j - i + 1 > p
    BY <1>1, <1>3, <1>8, <1>9, <2>1
  <2> QED BY <2>2 DEF p
<1> QED BY <1>5, <1>10 DEF i, j

\* No line ends before a word that would still have fitted.
LEMMA NextIsLong ==
  ASSUME Finished, request.policy = "word", request.mode # "min_content", ~Unconstrained,
         NEW k \in 1 .. Len(plan) - 1, NEW w \in Words, w[1] = plan[k + 1].start
  PROVE  w[2] + 1 - plan[k].start > PerLine
<1> DEFINE j == w[2]
           s == plan[k].start
           e == Behind(k)
           p == PerLine
<1>1. w[1] = e /\ e <= Count /\ LineOK(s, e) /\ Count \in Nat
  BY NextLine, FinishedFacts
<1>2. j \in 1 .. Count /\ IsWord(e, j)
  BY <1>1 DEF Words
<1>3. p \in Nat /\ s \in Nat
  BY <1>1, PerLineIs, FinishedFacts DEF LineOK
<1> HIDE DEF j, s, e, p
<1>4. Filled(s, e)
  BY <1>1 DEF LineOK, Fitted
<1>5. e <= j /\ (j = Count \/ breaks[j])
  BY <1>2 DEF IsWord
<1>6. j >= s + p
  <2> SUFFICES ASSUME j < s + p PROVE FALSE
    BY <1>2, <1>3
  <2>1. e # s + p /\ j # Count /\ breaks[j]
    BY <1>1, <1>2, <1>3, <1>4, <1>5 DEF Filled, p
  <2>2. \A n \in e .. s + p - 1 : ~breaks[n]
    BY <1>4, <2>1 DEF Filled, p
  <2>3. j \in e .. s + p - 1
    BY <1>1, <1>2, <1>3, <1>5 DEF LineOK
  <2> QED BY <2>1, <2>2, <2>3
<1>7. j + 1 - s > p
  BY <1>2, <1>3, <1>6
<1> QED BY <1>7 DEF j, s, p

\* The lines' widths are bounded, so that there is a widest.
LEMMA WidestIs ==
  ASSUME Finished
  PROVE  LET widths == {2 * plan[k].count : k \in DOMAIN plan}
         IN /\ widths \in SUBSET (0 .. 2 * Count) /\ widths # {}
            /\ WidestLine = Max(widths) /\ DOMAIN plan = 1 .. Len(plan)
<1> DEFINE widths == {2 * plan[k].count : k \in DOMAIN plan}
<1>1. DOMAIN plan = 1 .. Len(plan) /\ Len(plan) \in Nat \ {0}
  BY FinishedFacts, LenProperties DEF TextTypeOK
<1>2. ASSUME NEW k \in 1 .. Len(plan) PROVE 2 * plan[k].count \in 0 .. 2 * Count
  <2>1. plan[k].count \in Nat /\ plan[k].start \in Nat /\ Count \in Nat /\ LineOK(plan[k].start, Behind(k))
    BY FinishedFacts DEF Covered
  <2>2. plan[k].count <= Count
    BY <2>1 DEF LineOK, Behind
  <2> QED BY <2>1, <2>2
<1>3. widths \in SUBSET (0 .. 2 * Count)
  BY <1>1, <1>2
<1>4. 2 * plan[1].count \in widths
  BY <1>1
<1> QED BY <1>1, <1>3, <1>4 DEF WidestLine

\* A text that has lines to fit fits.
LEMMA ResultFits ==
  ASSUME Finished, request.mode # "min_content", ~Unconstrained, request.width >= 2
  PROVE  ResultWidth <= request.width
<1>1. request.width \in Int /\ 2 * PerLine <= request.width /\ PerLine \in Nat
  BY PerLineIs, FinishedFacts
<1>2. CASE ResultWidth = request.width
  BY <1>1, <1>2
<1>3. CASE ResultWidth = WidestLine
  <2> DEFINE widths == {2 * plan[k].count : k \in DOMAIN plan}
             m == Max(widths)
  <2>1. widths \in SUBSET (0 .. 2 * Count) /\ widths # {} /\ WidestLine = m /\ DOMAIN plan = 1 .. Len(plan)
    BY WidestIs
  <2>2. m \in widths
    <3> HIDE DEF widths
    <3>1. 2 * Count \in Nat
      BY FinishedFacts
    <3> QED BY <2>1, <3>1, GreatestOf
  <2>3. PICK k \in 1 .. Len(plan) : m = 2 * plan[k].count
    BY <2>1, <2>2
  <2>4. LineOK(plan[k].start, Behind(k)) /\ plan[k].count \in Nat /\ plan[k].start \in Nat
    BY FinishedFacts DEF Covered
  <2>5. plan[k].count <= PerLine
    <3>1. Behind(k) - plan[k].start <= PerLine
      BY <2>4 DEF LineOK, Fitted
    <3>2. Behind(k) - plan[k].start = plan[k].count
      BY <2>4 DEF Behind
    <3> QED BY <3>1, <3>2
  <2> HIDE DEF m
  <2> QED BY <1>1, <1>3, <2>1, <2>3, <2>4, <2>5
<1> QED BY <1>2, <1>3 DEF ResultWidth

\* With a line for every word, lines and words are the same.
LEMMA LinesAreWords ==
  ASSUME Finished, request.policy = "word", request.mode = "min_content"
  PROVE  /\ \A k \in 1 .. Len(plan) : <<plan[k].start, Behind(k) - 1>> \in Words
         /\ \A w \in Words : \E k \in 1 .. Len(plan) : w[1] = plan[k].start /\ w[2] = Behind(k) - 1
<1>0. Count \in Nat /\ Len(plan) \in Nat
  BY FinishedFacts
<1>1. ASSUME NEW k \in 1 .. Len(plan)
      PROVE  /\ plan[k].start \in 1 .. Count /\ Behind(k) \in plan[k].start + 1 .. Count + 1
             /\ Behind(k) <= Count => breaks[Behind(k) - 1]
             /\ \A i \in plan[k].start .. Behind(k) - 2 : ~breaks[i]
  BY FinishedFacts DEF Covered, LineOK
<1>2. ASSUME NEW k \in 1 .. Len(plan) PROVE <<plan[k].start, Behind(k) - 1>> \in Words
  <2> DEFINE s == plan[k].start
             e == Behind(k)
  <2>1. s \in 1 .. Count /\ e \in s + 1 .. Count + 1
    BY <1>1
  <2>2. s = 1 \/ breaks[s - 1]
    <3>1. CASE k = 1
      BY <3>1, FinishedFacts DEF Covered
    <3>2. CASE k # 1
      <4>1. k - 1 \in 1 .. Len(plan) - 1 /\ k - 1 \in 1 .. Len(plan) /\ (k - 1) + 1 = k
        BY <1>0, <3>2
      <4>2. s = Behind(k - 1) /\ Behind(k - 1) <= Count
        BY <4>1, NextLine
      <4>3. breaks[Behind(k - 1) - 1]
        BY <1>1, <4>1, <4>2
      <4> QED BY <4>2, <4>3
    <3> QED BY <3>1, <3>2
  <2>3. (e <= Count => breaks[e - 1]) /\ \A i \in s .. e - 2 : ~breaks[i]
    BY <1>1
  <2> HIDE DEF s, e
  <2>4. /\ e - 1 \in 1 .. Count /\ s <= e - 1 /\ (e - 1) - 1 = e - 2
        /\ e - 1 = Count \/ e <= Count
    BY <1>0, <2>1
  <2>5. IsWord(s, e - 1)
    BY <2>2, <2>3, <2>4 DEF IsWord
  <2>6. <<s, e - 1>> \in Words
    BY <2>1, <2>4, <2>5 DEF Words
  <2> QED BY <2>6 DEF s, e
<1>3. ASSUME NEW w \in Words
      PROVE  \E k \in 1 .. Len(plan) : w[1] = plan[k].start /\ w[2] = Behind(k) - 1
  <2> DEFINE i == w[1]
             j == w[2]
  <2>1. i \in 1 .. Count /\ j \in 1 .. Count /\ IsWord(i, j)
    BY DEF Words
  <2> HIDE DEF i, j
  <2>2. InLine(i)
    <3>1. i \in 1 .. lineStart - 1
      BY <1>0, <2>1, FinishedFacts
    <3> QED BY <3>1, FinishedFacts DEF Covered
  <2>3. PICK k \in 1 .. Len(plan) : plan[k].start <= i /\ i < Behind(k)
    BY <2>2 DEF InLine
  <2> DEFINE s == plan[k].start
             e == Behind(k)
  <2>4. /\ s \in 1 .. Count /\ e \in s + 1 .. Count + 1
        /\ e <= Count => breaks[e - 1]
        /\ \A n \in s .. e - 2 : ~breaks[n]
        /\ s <= i /\ i < e
    BY <1>1, <2>3
  <2> HIDE DEF s, e
  <2>5. /\ i <= j /\ (i = 1 \/ breaks[i - 1]) /\ (j = Count \/ breaks[j])
        /\ \A n \in i .. j - 1 : ~breaks[n]
    BY <2>1 DEF IsWord
  <2>6. i = s
    <3> SUFFICES ASSUME i # s PROVE FALSE
      OBVIOUS
    <3>1. i - 1 \in s .. e - 2 /\ i # 1
      BY <1>0, <2>1, <2>4
    <3> QED BY <2>4, <2>5, <3>1
  <2>7. ~(j < e - 1)
    <3> SUFFICES ASSUME j < e - 1 PROVE FALSE
      OBVIOUS
    <3>1. j \in s .. e - 2 /\ j # Count
      BY <1>0, <2>1, <2>4, <2>5, <2>6
    <3> QED BY <2>4, <2>5, <3>1
  <2>8. ~(e - 1 < j)
    <3> SUFFICES ASSUME e - 1 < j PROVE FALSE
      OBVIOUS
    <3>1. e - 1 \in i .. j - 1 /\ e <= Count
      BY <1>0, <2>1, <2>4
    <3> QED BY <2>4, <2>5, <3>1
  <2>9. j = e - 1
    BY <1>0, <2>1, <2>4, <2>7, <2>8
  <2> QED BY <2>6, <2>9 DEF i, j, s, e
<1> QED BY <1>2, <1>3

\* Minimum content is as wide as the longest word.
LEMMA MinimumIsLongest ==
  ASSUME Finished, request.policy = "word", request.mode = "min_content"
  PROVE  ResultWidth = 2 * Max({w[2] - w[1] + 1 : w \in Words})
<1> DEFINE widths == {2 * plan[k].count : k \in DOMAIN plan}
           lengths == {w[2] - w[1] + 1 : w \in Words}
           m == Max(widths)
           n == Max(lengths)
<1>0. Count \in Nat \ {0} /\ 2 * Count \in Nat
  BY FinishedFacts
<1>1. widths \in SUBSET (0 .. 2 * Count) /\ widths # {} /\ WidestLine = m /\ DOMAIN plan = 1 .. Len(plan)
  BY WidestIs
<1>2. ResultWidth = m
  BY <1>1 DEF ResultWidth
<1>3. ASSUME NEW k \in 1 .. Len(plan) PROVE plan[k].count \in lengths
  <2> DEFINE w == <<plan[k].start, Behind(k) - 1>>
  <2>1. w \in Words
    BY LinesAreWords
  <2>2. plan[k].start \in Nat /\ plan[k].count \in Nat
    BY FinishedFacts
  <2>3. w[2] - w[1] + 1 = plan[k].count
    BY <2>2 DEF Behind
  <2> QED BY <2>1, <2>3
<1>4. ASSUME NEW w \in Words PROVE \E k \in 1 .. Len(plan) : w[2] - w[1] + 1 = plan[k].count
  <2>1. PICK k \in 1 .. Len(plan) : w[1] = plan[k].start /\ w[2] = Behind(k) - 1
    BY LinesAreWords
  <2>2. plan[k].start \in Nat /\ plan[k].count \in Nat
    BY FinishedFacts
  <2>3. w[2] - w[1] + 1 = plan[k].count
    BY <2>1, <2>2 DEF Behind
  <2> QED BY <2>3
<1>5. lengths \in SUBSET (0 .. Count) /\ lengths # {}
  <2>1. ASSUME NEW w \in Words PROVE w[2] - w[1] + 1 \in 0 .. Count
    <3>1. w[1] \in 1 .. Count /\ w[2] \in 1 .. Count /\ w[1] <= w[2]
      BY DEF Words, IsWord
    <3> QED BY <1>0, <3>1
  <2>2. 1 \in 1 .. Len(plan)
    BY FinishedFacts
  <2> QED BY <1>3, <2>1, <2>2
<1>6. m \in widths /\ \A y \in widths : y <= m
  <2> HIDE DEF widths
  <2> QED BY <1>0, <1>1, GreatestOf
<1>7. n \in lengths /\ \A y \in lengths : y <= n
  <2> HIDE DEF lengths
  <2> QED BY <1>0, <1>5, GreatestOf
<1>8. PICK k \in 1 .. Len(plan) : m = 2 * plan[k].count
  BY <1>1, <1>6
<1>9. PICK w \in Words : n = w[2] - w[1] + 1
  BY <1>7
<1>10. PICK l \in 1 .. Len(plan) : n = plan[l].count
  BY <1>4, <1>9
<1>11. plan[k].count <= n
  BY <1>3, <1>7
<1>12. 2 * n <= m
  BY <1>1, <1>6, <1>10
<1> HIDE DEF m, n
<1>13. m = 2 * n
  <2>1. plan[k].count \in Nat /\ plan[l].count \in Nat
    BY FinishedFacts
  <2> QED BY <1>8, <1>10, <1>11, <1>12, <2>1
<1> QED BY <1>2, <1>13 DEF n

(***************************************************************************)
(* The line breaking of the monospace backend: every glyph in exactly one  *)
(* line, no word torn that fits, no line ended too early, no line wider    *)
(* than asked for, and minimum content the longest word, for texts of any  *)
(* length and every request.                                               *)
(***************************************************************************)
THEOREM WordsStayTogether == TextSpec => []WordsStayWhole
<1>1. TextInv => WordsStayWhole
  <2> SUFFICES ASSUME TextInv, doing = "done", Count > 0
               PROVE  WordsStayWhole
    BY DEF WordsStayWhole
  <2>0. Finished
    BY DEF Finished
  <2>1. plan[1].start = 1 /\ plan[Len(plan)].start + plan[Len(plan)].count = Count + 1
    BY <2>0, FinishedFacts DEF Covered, Behind
  <2>2. \A k \in 1 .. Len(plan) - 1 :
          plan[k].count > 0 /\ plan[k + 1].start = plan[k].start + plan[k].count
    BY <2>0, NextLine DEF Behind
  <2>3. request.policy = "word" =>
          \A w \in Words : \/ ~Apart(w[1], w[2])
                           \/ request.mode # "min_content" /\ w[2] - w[1] + 1 > PerLine
    BY <2>0, TornIsLong
  <2>4. request.policy = "word" /\ request.mode # "min_content" /\ ~Unconstrained =>
          \A k \in 1 .. Len(plan) - 1 : \A w \in Words :
            w[1] = plan[k + 1].start => w[2] + 1 - plan[k].start > PerLine
    BY <2>0, NextIsLong
  <2>5. request.mode # "min_content" /\ ~Unconstrained /\ request.width >= 2 =>
          ResultWidth <= request.width
    BY <2>0, ResultFits
  <2>6. request.policy = "word" /\ request.mode = "min_content" =>
          ResultWidth = 2 * Max({w[2] - w[1] + 1 : w \in Words})
    BY <2>0, MinimumIsLongest
  <2> QED BY <2>1, <2>2, <2>3, <2>4, <2>5, <2>6 DEF WordsStayWhole
<1> QED BY <1>1, TextInvariance, PTL

-----------------------------------------------------------------------------
(***************************************************************************)
(* Boxes of a chain.                                                       *)
(***************************************************************************)

\* The extent of one node: e is what is known of the nodes below.
NextExtent(e, mode, i) == Unconfined(i, mode, IF i = Depth THEN 0 ELSE e[i + 1])

\* An extent is the function its definition describes.
ExtentIs(mode) == \A i \in Chain : Extent(mode)[i] = NextExtent(Extent(mode), mode, i)

\* It is defined by recursion along the chain, which ends.
LEMMA ExtentSteps == \A mode : ExtentIs(mode)
<1> SUFFICES ASSUME NEW mode PROVE ExtentIs(mode)
  OBVIOUS
<1> DEFINE Step(g, i) == NextExtent(g, mode, i)
           from(n) == (Depth - n) + 1
           T == {n \in Nat : \E g : g = [i \in from(n) .. Depth |-> Step(g, i)]}
<1>0. Depth \in Nat /\ Depth # 0
  BY BoxesAssumption
<1>1. 0 \in T
  <2> DEFINE g == [i \in from(0) .. Depth |-> 0]
  <2>1. from(0) .. Depth = {}
    BY <1>0
  <2>2. g = [i \in from(0) .. Depth |-> Step(g, i)]
    <3> HIDE DEF from, Step
    <3> QED BY <2>1
  <2> HIDE DEF g
  <2> QED BY <2>2
<1>2. ASSUME NEW n \in 0 .. Depth - 1, n \in T PROVE n + 1 \in T
  <2>1. PICK g : g = [i \in from(n) .. Depth |-> Step(g, i)]
    BY <1>2
  <2> DEFINE k == Depth - n
             next == Step(g, k)
             h == [i \in k .. Depth |-> IF i = k THEN next ELSE g[i]]
  <2>2. k \in Nat /\ k >= 1 /\ k <= Depth /\ from(n) = k + 1 /\ from(n + 1) = k /\ n + 1 \in Nat
    BY <1>0, <1>2
  <2>3. \A i \in k + 1 .. Depth : g[i] = Step(g, i)
    <3> HIDE DEF Step, from
    <3> QED BY <2>1, <2>2
  <2> HIDE DEF k
  <2>4. ASSUME NEW i \in k .. Depth PROVE h[i] = Step(h, i)
    <3>0. i \in Nat
      BY <1>0, <2>2
    <3>1. Step(h, i) = Step(g, i)
      <4>1. CASE i = Depth
        <5> HIDE DEF h
        <5> QED BY <4>1, Zenon DEF NextExtent
      <4>2. CASE i # Depth
        <5> HIDE DEF next
        <5>1. i + 1 \in k .. Depth /\ i + 1 # k
          BY <1>0, <2>2, <3>0, <4>2
        <5>2. h[i + 1] = g[i + 1]
          BY <5>1
        <5> HIDE DEF h
        <5> QED BY <5>2, Zenon DEF NextExtent
      <4> QED BY <4>1, <4>2
    <3>2. CASE i = k
      <4>1. h[i] = next
        <5> HIDE DEF next
        <5> QED BY <3>2
      <4> QED BY <3>1, <3>2, <4>1
    <3>3. CASE i # k
      <4>1. i \in k + 1 .. Depth
        BY <2>2, <3>0, <3>3
      <4>2. h[i] = g[i]
        <5> HIDE DEF next
        <5> QED BY <3>3
      <4>3. g[i] = Step(g, i)
        BY <2>3, <4>1
      <4> QED BY <3>1, <4>2, <4>3
    <3> QED BY <3>2, <3>3
  <2>5. h = [i \in from(n + 1) .. Depth |-> Step(h, i)]
    <3>1. h = [i \in k .. Depth |-> h[i]]
      OBVIOUS
    <3> HIDE DEF h, Step, from
    <3> QED BY <2>2, <2>4, <3>1
  <2> HIDE DEF h, next, Step
  <2> QED BY <2>2, <2>5
<1>3. Depth \in T
  <2> HIDE DEF T
  <2>1. \A n \in 0 .. Depth : n \in T
    BY <1>0, <1>1, <1>2, Counting
  <2> QED BY <1>0, <2>1
<1>4. \E g : g = [i \in Chain |-> Step(g, i)]
  <2>1. from(Depth) = 1
    BY <1>0
  <2> QED BY <1>3, <2>1 DEF Chain
<1> DEFINE f == Extent(mode)
<1>5. f = [i \in Chain |-> Step(f, i)]
  <2>1. f = CHOOSE g : g = [i \in Chain |-> Step(g, i)]
    BY DEF Extent, NextExtent
  <2> QED BY <1>4, <2>1
<1>6. \A i \in Chain : f[i] = Step(f, i)
  <2> HIDE DEF f, Step
  <2> QED BY <1>5
<1> HIDE DEF f
<1> QED BY <1>6 DEF f, ExtentIs

\* The same of the next state.
LEMMA ExtentStepsNext == \A mode : ExtentIs(mode)'
<1>1. (\A mode : ExtentIs(mode))'
  BY ExtentSteps, PTL
<1> QED BY <1>1

\* Nodes whose extent is no matter of the nodes below.
Sealed(i) == i = Depth \/ protocol[i] \notin Flexes \/ style[i].unit \in {"fixed", "text"}

\* What a step computes from a given value depends on the node's own style only.
LEMMA UnconfinedKept ==
  ASSUME NEW CONSTANT i, NEW CONSTANT mode, NEW CONSTANT c, protocol' = protocol, style'[i] = style[i]
  PROVE  Unconfined(i, mode, c)' = Unconfined(i, mode, c)
BY DEF Unconfined

\* A sealed node has no use for the contents.
LEMMA UnconfinedSealed ==
  ASSUME NEW CONSTANT i, NEW CONSTANT mode, NEW CONSTANT c, NEW CONSTANT d, Sealed(i), i # Depth
  PROVE  Unconfined(i, mode, c) = Unconfined(i, mode, d)
BY DEF Unconfined, Sealed

\* Above a sealed node an extent is no matter of the nodes below it.
LEMMA ExtentKept ==
  ASSUME NEW s \in Chain, Sealed(s), protocol' = protocol, \A j \in 1 .. s : style'[j] = style[j]
  PROVE  \A j \in 1 .. s : \A mode : Extent(mode)'[j] = Extent(mode)[j]
<1> SUFFICES ASSUME NEW mode PROVE \A j \in 1 .. s : Extent(mode)'[j] = Extent(mode)[j]
  OBVIOUS
<1> DEFINE good == {n \in Nat : n < s => Extent(mode)'[s - n] = Extent(mode)[s - n]}
<1>0. Depth \in Nat /\ s \in Nat /\ s >= 1 /\ s <= Depth /\ Chain = 1 .. Depth
  BY BoxesAssumption DEF Chain
<1>1. \A i \in Chain : Extent(mode)[i] = NextExtent(Extent(mode), mode, i)
  BY ExtentSteps DEF ExtentIs
<1>2. \A i \in Chain : Extent(mode)'[i] = NextExtent(Extent(mode), mode, i)'
  BY ExtentStepsNext DEF ExtentIs
<1>3. 0 \in good
  <2>1. s - 0 = s /\ s \in 1 .. s
    BY <1>0
  <2>2. style'[s] = style[s]
    BY <2>1
  <2>3. NextExtent(Extent(mode), mode, s)' = NextExtent(Extent(mode), mode, s)
    <3>1. PICK c, d : /\ c = (IF s = Depth THEN 0 ELSE Extent(mode)[s + 1])
                      /\ d = (IF s = Depth THEN 0 ELSE Extent(mode)[s + 1])'
      OBVIOUS
    <3>2. Unconfined(s, mode, d)' = Unconfined(s, mode, d)
      BY <2>2, UnconfinedKept
    <3>3. Unconfined(s, mode, d) = Unconfined(s, mode, c)
      <4>1. CASE s = Depth
        BY <3>1, <4>1
      <4>2. CASE s # Depth
        BY <4>2, UnconfinedSealed
      <4> QED BY <4>1, <4>2
    <3>4. NextExtent(Extent(mode), mode, s) = Unconfined(s, mode, c)
      BY <3>1 DEF NextExtent
    <3>5. NextExtent(Extent(mode), mode, s)' = Unconfined(s, mode, d)'
      BY <3>1 DEF NextExtent
    <3> QED BY <3>2, <3>3, <3>4, <3>5
  <2> QED BY <1>1, <1>2, <2>1, <2>3
<1>4. ASSUME NEW n \in 0 .. s - 1, n \in good PROVE n + 1 \in good
  <2> DEFINE j == s - (n + 1)
  <2>1. n + 1 \in Nat
    BY <1>0
  <2>2. CASE n + 1 < s
    <3>1. j \in 1 .. s /\ j \in Chain /\ j + 1 = s - n /\ n < s /\ j # Depth
      BY <1>0, <2>2
    <3>2. Extent(mode)'[j + 1] = Extent(mode)[j + 1]
      BY <1>4, <3>1
    <3>3. style'[j] = style[j]
      BY <3>1
    <3> HIDE DEF j
    <3>4. NextExtent(Extent(mode), mode, j)' = NextExtent(Extent(mode), mode, j)
      <4>1. PICK c : c = Extent(mode)[j + 1]
        OBVIOUS
      <4>2. Unconfined(j, mode, c)' = Unconfined(j, mode, c)
        BY <3>3, UnconfinedKept
      <4>3. NextExtent(Extent(mode), mode, j) = Unconfined(j, mode, c)
        BY <3>1, <4>1 DEF NextExtent
      <4>4. NextExtent(Extent(mode), mode, j)' = Unconfined(j, mode, c)'
        BY <3>1, <3>2, <4>1 DEF NextExtent
      <4> QED BY <4>2, <4>3, <4>4
    <3>5. Extent(mode)'[j] = Extent(mode)[j]
      BY <1>1, <1>2, <3>1, <3>4
    <3> QED BY <2>1, <3>5 DEF j
  <2> QED BY <2>1, <2>2
<1>5. \A n \in 0 .. s : n \in good
  <2> HIDE DEF good
  <2> QED BY <1>0, <1>3, <1>4, Counting
<1>6. ASSUME NEW j \in 1 .. s PROVE Extent(mode)'[j] = Extent(mode)[j]
  <2>1. s - j \in 0 .. s /\ s - j < s /\ s - (s - j) = j
    BY <1>0
  <2> QED BY <1>5, <2>1
<1> QED BY <1>6

\* One box of a pass over the chain: w is what the pass has found so far.
NextBox(w, i, r, available, definite) ==
  IF i < r THEN width[i]
  ELSE IF i = r THEN DecideBox(r, available, definite)
  ELSE IF InFlow(i) THEN DecideBox(i, Given(i, Inside(w[i - 1])), TRUE)
  ELSE DecideBox(i, Inside(w[i - 1]), FALSE)

\* The pass is the function its definition describes.
DispatchIs(r, available, definite) ==
  /\ Dispatch(r, available, definite) =
       [i \in Chain |-> Dispatch(r, available, definite)[i]]
  /\ \A i \in Chain :
       Dispatch(r, available, definite)[i] =
         NextBox(Dispatch(r, available, definite), i, r, available, definite)

\* Dispatch is defined by recursion along the chain, which ends.
LEMMA DispatchSteps == \A r \in Chain : \A available, definite : DispatchIs(r, available, definite)
<1> SUFFICES ASSUME NEW r \in Chain, NEW available, NEW definite
             PROVE  DispatchIs(r, available, definite)
  OBVIOUS
<1> DEFINE Step(g, i) == NextBox(g, i, r, available, definite)
           T == {n \in Nat : \E g : g = [i \in 1 .. n |-> Step(g, i)]}
<1>0. Depth \in Nat /\ r \in 1 .. Depth
  BY BoxesAssumption DEF Chain
<1>1. 0 \in T
  <2> DEFINE g == [i \in 1 .. 0 |-> 0]
  <2>1. g = [i \in 1 .. 0 |-> Step(g, i)]
    OBVIOUS
  <2> QED BY <2>1
<1>2. ASSUME NEW n \in 0 .. Depth - 1, n \in T PROVE n + 1 \in T
  <2>1. PICK g : g = [i \in 1 .. n |-> Step(g, i)]
    BY <1>2
  <2>2. \A i \in 1 .. n : g[i] = Step(g, i)
    <3> HIDE DEF Step
    <3> QED BY <2>1
  <2> DEFINE next == Step(g, n + 1)
             h == [i \in 1 .. n + 1 |-> IF i <= n THEN g[i] ELSE next]
  <2>3. ASSUME NEW i \in 1 .. n + 1 PROVE h[i] = Step(h, i)
    <3> HIDE DEF next
    <3>1. Step(h, i) = Step(g, i)
      <4>1. CASE i <= r
        <5>1. i < r \/ i = r
          BY <1>0, <1>2, <4>1
        <5> HIDE DEF h
        <5> QED BY <5>1 DEF NextBox
      <4>2. CASE r < i
        <5>1. i - 1 \in 1 .. n
          BY <1>0, <1>2, <4>2
        <5>2. h[i - 1] = g[i - 1]
          BY <5>1, <1>2
        <5> HIDE DEF h
        <5> QED BY <5>2 DEF NextBox
      <4> QED BY <1>0, <1>2, <4>1, <4>2
    <3>2. CASE i \in 1 .. n
      <4>1. h[i] = g[i]
        BY <3>2, <1>2
      <4> QED BY <2>2, <3>1, <3>2, <4>1
    <3>3. CASE i = n + 1
      <4>1. h[i] = next
        BY <3>3, <1>2
      <4> QED BY <3>1, <3>3, <4>1 DEF next
    <3> QED BY <1>2, <3>2, <3>3
  <2>4. h = [i \in 1 .. n + 1 |-> Step(h, i)]
    <3>1. h = [i \in 1 .. n + 1 |-> h[i]]
      OBVIOUS
    <3> HIDE DEF h
    <3> QED BY <3>1, <2>3
  <2> HIDE DEF h, next, Step
  <2> QED BY <2>4, <1>2
<1>3. Depth \in T
  <2> HIDE DEF T
  <2>1. \A n \in 0 .. Depth : n \in T
    BY <1>0, <1>1, <1>2, Counting
  <2> QED BY <2>1, <1>0
<1> DEFINE f == Dispatch(r, available, definite)
<1>4. f = [i \in Chain |-> Step(f, i)]
  <2>1. f = CHOOSE g : g = [i \in Chain |-> Step(g, i)]
    BY DEF Dispatch, NextBox
  <2>2. \E g : g = [i \in Chain |-> Step(g, i)]
    BY <1>3 DEF Chain
  <2> QED BY <2>1, <2>2
<1>5. \A i \in Chain : f[i] = Step(f, i)
  <2> HIDE DEF f, Step
  <2> QED BY <1>4
<1>6. f = [i \in Chain |-> f[i]]
  <2> HIDE DEF f, Step
  <2> QED BY <1>4
<1> HIDE DEF f
<1> QED BY <1>5, <1>6 DEF f, DispatchIs

FullPassIs ==
  /\ FullPass = [i \in Chain |-> FullPass[i]]
  /\ \A i \in Chain : FullPass[i] = NextBox(FullPass, i, 1, Window, FALSE)

\* So is a pass over the whole chain, in this state and in the next one.
LEMMA FullPassSteps == FullPassIs
<1>1. 1 \in Chain
  BY BoxesAssumption DEF Chain
<1>2. DispatchIs(1, Window, FALSE)
  BY <1>1, DispatchSteps
<1> QED BY <1>2 DEF FullPass, FullPassIs, DispatchIs

\* The same of the next state.
LEMMA FullPassStepsNext == FullPassIs'
  BY FullPassSteps, PTL

\* What a node is by itself depends on its style and, where it wraps them, on
\* the extent of its contents.
LEMMA IntrinsicKept ==
  ASSUME NEW CONSTANT i \in Chain, NEW CONSTANT c, protocol' = protocol, style'[i] = style[i],
         Wraps(i) => (i # Depth => /\ style'[i + 1] = style[i + 1]
                                   /\ \A mode : Extent(mode)'[i + 1] = Extent(mode)[i + 1])
  PROVE  Intrinsic(i, c)' = Intrinsic(i, c)
<1>1. Wraps(i)' <=> Wraps(i)
  BY DEF Wraps
<1>2. Percent(i, c)' = Percent(i, c)
  BY DEF Percent
<1>3. Wraps(i) => Contents(i, c)' = Contents(i, c)
  <2> SUFFICES ASSUME Wraps(i) PROVE Contents(i, c)' = Contents(i, c)
    OBVIOUS
  <2>1. CASE i = Depth
    BY <2>1 DEF Contents
  <2>2. CASE i # Depth
    <3>1. style'[i + 1] = style[i + 1] /\ \A mode : Extent(mode)'[i + 1] = Extent(mode)[i + 1]
      BY <2>2
    <3>2. Extent("min")'[i + 1] = Extent("min")[i + 1] /\ Extent("max")'[i + 1] = Extent("max")[i + 1]
      BY <3>1
    <3>3. \A a : Percent(i + 1, a)' = Percent(i + 1, a)
      BY <3>1 DEF Percent
    <3>4. Fitting(i + 1, Inside(c))' = Fitting(i + 1, Inside(c))
      BY <3>1, <3>2, <3>3 DEF Fitting, Inside
    <3> QED BY <2>2, <3>2, <3>4 DEF Contents
  <2> QED BY <2>1, <2>2
<1> QED BY <1>1, <1>2, <1>3 DEF Intrinsic, Bounded

\* A box depends on the box above it, on the extent of its contents and on what
\* a style says: the last two matter where the node takes its size from them.
LEMMA BoxKept ==
  ASSUME NEW CONSTANT i \in Chain, i # 1, protocol' = protocol, style'[i] = style[i],
         FullPass'[i - 1] = FullPass[i - 1],
         \/ style[i].unit = "percent" \/ ~InFlow(i)
         \/ \A mode : Extent(mode)'[i] = Extent(mode)[i],
         InFlow(i) \/ ~Wraps(i) \/ (i # Depth => /\ style'[i + 1] = style[i + 1]
                                                 /\ \A mode : Extent(mode)'[i + 1] = Extent(mode)[i + 1])
  PROVE  FullPass'[i] = FullPass[i]
<1>1. FullPass[i] = NextBox(FullPass, i, 1, Window, FALSE) /\ FullPass'[i] = NextBox(FullPass, i, 1, Window, FALSE)'
  BY FullPassSteps, FullPassStepsNext DEF FullPassIs
<1>2. ~(i < 1)
  BY BoxesAssumption DEF Chain
<1>3. PICK c : c = Inside(FullPass[i - 1])
  OBVIOUS
<1>4. c = Inside(FullPass[i - 1])'
  BY <1>3 DEF Inside
<1>5. FullPass[i] = IF InFlow(i) THEN DecideBox(i, Given(i, c), TRUE) ELSE DecideBox(i, c, FALSE)
  BY <1>1, <1>2, <1>3 DEF NextBox
<1>6. FullPass'[i] = IF InFlow(i)' THEN DecideBox(i, Given(i, c), TRUE)' ELSE DecideBox(i, c, FALSE)'
  BY <1>1, <1>2, <1>4 DEF NextBox
<1>7. InFlow(i)' <=> InFlow(i)
  BY DEF InFlow
<1>8. CASE InFlow(i)
  <2>1. Given(i, c)' = Given(i, c)
    <3>1. CASE style[i].unit = "percent"
      BY <3>1 DEF Given, Percent, Fitting
    <3>2. CASE \A mode : Extent(mode)'[i] = Extent(mode)[i]
      <4>1. Extent("min")'[i] = Extent("min")[i] /\ Extent("max")'[i] = Extent("max")[i]
        BY <3>2
      <4>2. Percent(i, c)' = Percent(i, c)
        BY DEF Percent
      <4>3. Fitting(i, c)' = Fitting(i, c)
        BY <4>1, <4>2 DEF Fitting
      <4> QED BY <4>1, <4>2, <4>3 DEF Given
    <3> QED BY <1>8, <3>1, <3>2
  <2>2. DecideBox(i, Given(i, c), TRUE) = Bounded(Given(i, c)) /\ DecideBox(i, Given(i, c), TRUE)' = Bounded(Given(i, c))'
    BY DEF DecideBox
  <2> QED BY <1>5, <1>6, <1>7, <1>8, <2>1, <2>2 DEF Bounded
<1>9. CASE ~InFlow(i)
  <2>4. Intrinsic(i, c)' = Intrinsic(i, c)
    BY <1>9, IntrinsicKept
  <2>5. DecideBox(i, c, FALSE) = Intrinsic(i, c) /\ DecideBox(i, c, FALSE)' = Intrinsic(i, c)'
    BY DEF DecideBox
  <2> QED BY <1>5, <1>6, <1>7, <1>9, <2>4, <2>5
<1> QED BY <1>8, <1>9

\* Above a sealed node a full pass has no use for what is below the node.
LEMMA FullPassLocal ==
  ASSUME NEW CONSTANT s \in Chain, Sealed(s), protocol' = protocol, \A j \in 1 .. s : style'[j] = style[j]
  PROVE  \A i \in 1 .. s : FullPass'[i] = FullPass[i]
<1> DEFINE good == {n \in Nat : n \in 1 .. s => FullPass'[n] = FullPass[n]}
<1>0. Depth \in Nat /\ s \in Nat /\ s >= 1 /\ s <= Depth /\ Chain = 1 .. Depth
  BY BoxesAssumption DEF Chain
<1>1. \A j \in 1 .. s : \A mode : Extent(mode)'[j] = Extent(mode)[j]
  BY ExtentKept
<1>2. ASSUME NEW i \in 1 .. s, Wraps(i), i # Depth
      PROVE  style'[i + 1] = style[i + 1] /\ \A mode : Extent(mode)'[i + 1] = Extent(mode)[i + 1]
  <2>1. i # s
    BY <1>2 DEF Wraps, Sealed
  <2>2. i + 1 \in 1 .. s
    BY <1>0, <2>1
  <2> QED BY <1>1, <2>2
<1>3. 0 \in good
  OBVIOUS
<1>4. ASSUME NEW n \in 0 .. s - 1, n \in good PROVE n + 1 \in good
  <2>1. PICK i : i = n + 1
    OBVIOUS
  <2>2. i \in 1 .. s /\ i \in Chain /\ i - 1 = n /\ i \in Nat /\ n \in Nat
    BY <1>0, <2>1
  <2>3. style'[i] = style[i] /\ \A mode : Extent(mode)'[i] = Extent(mode)[i]
    BY <1>1, <2>2
  <2>4. CASE i = 1
    <3>1. FullPass[i] = Intrinsic(i, Window)
      <4>1. FullPass[i] = NextBox(FullPass, i, 1, Window, FALSE)
        BY <2>2, FullPassSteps DEF FullPassIs
      <4> QED BY <2>4, <4>1 DEF NextBox, DecideBox
    <3>2. FullPass'[i] = Intrinsic(i, Window)'
      <4>1. FullPass'[i] = NextBox(FullPass, i, 1, Window, FALSE)'
        BY <2>2, FullPassStepsNext DEF FullPassIs
      <4> QED BY <2>4, <4>1 DEF NextBox, DecideBox
    <3>3. Intrinsic(i, Window)' = Intrinsic(i, Window)
      BY <1>2, <2>2, <2>3, IntrinsicKept
    <3> QED BY <2>1, <2>2, <3>1, <3>2, <3>3
  <2>5. CASE i # 1
    <3>1. n \in 1 .. s
      BY <1>0, <2>1, <2>2, <2>5
    <3>2. FullPass'[i - 1] = FullPass[i - 1]
      BY <1>4, <2>2, <3>1
    <3>3. FullPass'[i] = FullPass[i]
      BY <1>2, <2>2, <2>3, <2>5, <3>2, BoxKept
    <3> QED BY <2>1, <2>2, <3>3
  <2> QED BY <2>4, <2>5
<1>5. \A n \in 0 .. s : n \in good
  <2> HIDE DEF good
  <2> QED BY <1>0, <1>3, <1>4, Counting
<1>6. ASSUME NEW i \in 1 .. s PROVE FullPass'[i] = FullPass[i]
  <2>1. i \in 0 .. s
    BY <1>0
  <2> QED BY <1>5, <2>1
<1> QED BY <1>6

\* A full pass gives the same widths as long as nothing it reads changes.
LEMMA FullPassKept ==
  ASSUME protocol' = protocol, style' = style
  PROVE  \A i \in Chain : FullPass'[i] = FullPass[i]
<1>1. Depth \in Chain /\ Chain = 1 .. Depth
  BY BoxesAssumption DEF Chain
<1>2. Sealed(Depth)
  BY DEF Sealed
<1> QED BY <1>1, <1>2, FullPassLocal

-----------------------------------------------------------------------------
(* A box that no change can reach is as a full pass would make it.         *)

\* No climb from a dirty node gets to node i.
Shielded(i) == \A d \in dirty : \E r \in Chain : i < r /\ r < d /\ ~CanPromote(r)

\* The climbs from dirty nodes end at node i or below it.
Screened(i) == ~CanPromote(i) /\ \A d \in dirty : i < d

\* A row that wraps its contents, whatever it is offered.
Elastic(i) == ~InFlow(i) /\ Wraps(i) /\ protocol[i] \notin Columns

BoxesInv ==
  /\ dirty \subseteq Chain
  /\ style \in [Chain -> Styles]
  /\ width = [i \in Chain |-> width[i]]
  /\ TextIsLast(style)
  /\ \A i \in Chain : SteadyAt(style, i)
  /\ \A i \in Chain : Shielded(i) => width[i] = FullPass[i]
  /\ \A i \in Chain : i # 1 /\ Screened(i) => Elastic(i) \/ width[i] = FullPass[i]

\* The first state is that of a full pass.
LEMMA BoxesInvInit == OnlySteady /\ BoxesInit => BoxesInv
<1> SUFFICES ASSUME OnlySteady, BoxesInit PROVE BoxesInv
  OBVIOUS
<1>1. width = FullPass /\ dirty = {} /\ style \in [Chain -> Styles] /\ TextIsLast(style)
  BY DEF BoxesInit
<1>2. \A i \in Chain : SteadyAt(style, i)
  BY DEF BoxesInit, SteadyStyles
<1>3. width = [i \in Chain |-> width[i]]
  BY <1>1, FullPassSteps DEF FullPassIs
<1> QED BY <1>1, <1>2, <1>3 DEF BoxesInv

\* A node where a climb ends, or the one above it, is sealed.
LEMMA CutIsSealed ==
  ASSUME BoxesInv, NEW CONSTANT r \in Chain, r # 1, ~CanPromote(r)
  PROVE  Sealed(r) \/ (r - 1 \in Chain /\ Sealed(r - 1))
<1>0. Depth \in Nat /\ r \in Nat /\ r > 1 /\ r <= Depth /\ Chain = 1 .. Depth /\ r - 1 \in Chain
  BY BoxesAssumption DEF Chain
<1> SUFFICES ASSUME ~Sealed(r) PROVE Sealed(r - 1)
  BY <1>0
<1>1. protocol[r] \in Flexes /\ style[r].unit \notin {"fixed", "text"}
  BY DEF Sealed
<1>2. SteadyAt(style, r)
  BY DEF BoxesInv
<1>3. CASE ~InFlow(r)
  BY <1>0, <1>3 DEF InFlow, Sealed, Flows
<1>4. CASE InFlow(r)
  <2>1. style[r].unit = "percent"
    BY <1>1, <1>4 DEF CanPromote, Flows
  <2>2. protocol[r - 1] \notin Flexes \/ style[r - 1].unit = "fixed"
    BY <1>0, <1>1, <1>2, <2>1 DEF SteadyAt
  <2> QED BY <2>2 DEF Sealed
<1> QED BY <1>3, <1>4

\* A change below a node where the climb ends leaves a full pass as it is above.
LEMMA CutKeepsAbove ==
  ASSUME BoxesInv, NEW CONSTANT r \in Chain, NEW CONSTANT i \in Chain, i < r, ~CanPromote(r),
         protocol' = protocol, \A j \in 1 .. r : style'[j] = style[j]
  PROVE  FullPass'[i] = FullPass[i]
<1>0. Depth \in Nat /\ r \in Nat /\ i \in Nat /\ r # 1 /\ i >= 1 /\ r <= Depth /\ Chain = 1 .. Depth
  BY BoxesAssumption DEF Chain
<1>1. CASE Sealed(r)
  <2>1. i \in 1 .. r
    BY <1>0
  <2> QED BY <1>1, <2>1, FullPassLocal
<1>2. CASE r - 1 \in Chain /\ Sealed(r - 1)
  <2>1. PICK s : s = r - 1
    OBVIOUS
  <2>2. i \in 1 .. s /\ s \in Chain /\ Sealed(s) /\ \A j \in 1 .. s : j \in 1 .. r
    BY <1>0, <1>2, <2>1
  <2>3. \A k \in 1 .. s : FullPass'[k] = FullPass[k]
    BY <2>2, FullPassLocal
  <2> QED BY <2>2, <2>3
<1> QED BY <1>0, <1>1, <1>2, CutIsSealed

\* And as it is at the node itself, unless that takes whatever its contents need.
LEMMA CutKeepsItself ==
  ASSUME BoxesInv, NEW CONSTANT r \in Chain, r # 1, ~CanPromote(r), ~Elastic(r),
         protocol' = protocol, \A j \in 1 .. r : style'[j] = style[j]
  PROVE  FullPass'[r] = FullPass[r]
<1>0. Depth \in Nat /\ r \in Nat /\ r > 1 /\ r <= Depth /\ Chain = 1 .. Depth /\ r - 1 \in Chain /\ r - 1 < r
  BY BoxesAssumption DEF Chain
<1>1. CASE Sealed(r)
  <2>1. r \in 1 .. r
    BY <1>0
  <2> QED BY <1>1, <2>1, FullPassLocal
<1>2. CASE ~Sealed(r)
  <2>1. protocol[r] \in Flexes /\ style[r].unit \notin {"fixed", "text"}
    BY <1>2 DEF Sealed
  <2>2. style[r].unit = "percent" \/ ~InFlow(r)
    BY <2>1 DEF CanPromote, Flows
  <2>3. SteadyAt(style, r)
    BY DEF BoxesInv
  <2>4. InFlow(r) \/ ~Wraps(r)
    BY <1>0, <2>1, <2>3 DEF SteadyAt, Elastic, Wraps
  <2>5. FullPass'[r - 1] = FullPass[r - 1]
    BY <1>0, CutKeepsAbove
  <2>6. style'[r] = style[r]
    <3>1. r \in 1 .. r
      BY <1>0
    <3> QED BY <3>1
  <2> QED BY <2>2, <2>4, <2>5, <2>6, BoxKept
<1> QED BY <1>1, <1>2

\* The node a partial pass begins with is above the change it is for, and
\* cannot be promoted itself.
LEMMA PromotedAbove ==
  ASSUME NEW d \in Chain
  PROVE  /\ Promoted(d) \in 1 .. d
         /\ d # 1 => Promoted(d) < d /\ ~CanPromote(Promoted(d))
<1>1. Depth \in Nat /\ d \in 1 .. Depth
  BY BoxesAssumption DEF Chain
<1>2. CASE d = 1
  BY <1>2 DEF Promoted
<1>3. CASE d # 1
  <2> DEFINE stay == {x \in 1 .. d - 1 : ~CanPromote(x)}
  <2>1. d - 1 \in Nat /\ stay \in SUBSET (0 .. d - 1)
    BY <1>1
  <2>2. 1 \in stay
    BY <1>1, <1>3 DEF CanPromote, InFlow
  <2>3. PICK x \in stay : \A y \in stay : y <= x
    <3> HIDE DEF stay
    <3> QED BY <2>1, <2>2, GreatestNumber
  <2>4. \A j \in x + 1 .. d - 1 : CanPromote(j)
    <3> SUFFICES ASSUME NEW j \in x + 1 .. d - 1, ~CanPromote(j) PROVE FALSE
      OBVIOUS
    <3>1. j \in 1 .. d - 1 /\ x < j
      BY <1>1, <2>3
    <3>2. j \in stay
      BY <3>1
    <3> QED BY <1>1, <2>3, <3>1, <3>2
  <2>5. \E y \in 1 .. d - 1 : ~CanPromote(y) /\ \A j \in y + 1 .. d - 1 : CanPromote(j)
    BY <2>3, <2>4
  <2>6. Promoted(d) \in 1 .. d - 1 /\ ~CanPromote(Promoted(d))
    BY <1>3, <2>5 DEF Promoted
  <2> QED BY <1>1, <2>6
<1> QED BY <1>2, <1>3

\* Clamping twice is clamping once, unless the limits contradict each other.
LEMMA BoundedTwice == MinWidth <= MaxWidth => \A w : Bounded(Bounded(w)) = Bounded(w)
<1> SUFFICES ASSUME MinWidth <= MaxWidth, NEW w PROVE Bounded(Bounded(w)) = Bounded(w)
  OBVIOUS
<1>0. ~(MinWidth < MinWidth) /\ ~(MinWidth > MaxWidth) /\ ~(MaxWidth < MinWidth) /\ ~(MaxWidth > MaxWidth)
  BY BoxesAssumption
<1>1. CASE w < MinWidth
  BY <1>0, <1>1, Zenon DEF Bounded, Clampf
<1>2. CASE ~(w < MinWidth) /\ w > MaxWidth
  BY <1>0, <1>2, Zenon DEF Bounded, Clampf
<1>3. CASE ~(w < MinWidth) /\ ~(w > MaxWidth)
  BY <1>3, Zenon DEF Bounded, Clampf
<1> QED BY <1>1, <1>2, <1>3

\* A node where a climb ends gets the box again that it had, if it is offered that.
LEMMA BoxRepeated ==
  ASSUME BoxesInv, MinWidth <= MaxWidth, NEW CONSTANT r \in Chain, r # 1, r # Depth, ~CanPromote(r),
         NEW c, NEW w,
         w = (IF InFlow(r) THEN DecideBox(r, Given(r, c), TRUE) ELSE DecideBox(r, c, FALSE)) \/ Elastic(r)
  PROVE  DecideBox(r, w, InFlow(r)) =
           IF InFlow(r) THEN DecideBox(r, Given(r, c), TRUE) ELSE DecideBox(r, c, FALSE)
<1>0. SteadyAt(style, r) /\ style[r].unit # "text" /\ r > 1 /\ style[r].unit \in Units
  <2>1. r > 1
    BY BoxesAssumption DEF Chain
  <2>2. style[r] \in [unit : Units, value : Nat]
    BY BoxesAssumption DEF BoxesInv
  <2> QED BY <2>1, <2>2 DEF BoxesInv, TextIsLast
<1>1. CASE InFlow(r)
  <2>1. w = Bounded(Given(r, c))
    BY <1>1 DEF DecideBox, Elastic
  <2> QED BY <1>1, <2>1, BoundedTwice DEF DecideBox
<1>2. CASE ~InFlow(r)
  <2>1. style[r].unit # "percent" /\ (style[r].unit = "fit" => protocol[r] \notin Columns)
    BY <1>0, <1>2 DEF SteadyAt
  <2>2. CASE style[r].unit = "fixed"
    <3>1. ASSUME NEW a PROVE Intrinsic(r, a) = Bounded(style[r].value)
      <4>1. ~Wraps(r) /\ ~(style[r].unit = "percent") /\ ~(style[r].unit = "text")
        BY <2>2 DEF Wraps
      <4> QED BY <2>2, <4>1 DEF Intrinsic
    <3> QED BY <1>2, <3>1 DEF DecideBox
  <2>3. CASE Elastic(r)
    <3>1. protocol[r] = "row" /\ style[r].unit = "fit"
      BY <2>3 DEF Elastic, Wraps, Flexes
    <3>2. \A a : Contents(r, a) = Extent("max")[r + 1]
      BY <3>1 DEF Contents
    <3>3. \A a : Intrinsic(r, a) = Bounded(Padding + Extent("max")[r + 1])
      BY <2>3, <3>1, <3>2 DEF Intrinsic, Elastic
    <3> QED BY <1>2, <3>3 DEF DecideBox
  <2>4. CASE style[r].unit # "fixed" /\ ~Elastic(r)
    <3>1. ~Wraps(r)
      BY <1>2, <2>1, <2>4 DEF Elastic, Wraps
    <3>2. \A a : Intrinsic(r, a) = Bounded(a)
      BY <1>0, <2>1, <2>4, <3>1 DEF Intrinsic
    <3>3. w = Bounded(c)
      BY <1>2, <2>4, <3>2 DEF DecideBox
    <3> QED BY <1>2, <3>2, <3>3, BoundedTwice DEF DecideBox
  <2> QED BY <2>2, <2>3, <2>4
<1> QED BY <1>1, <1>2

\* A pass from the end of a climb makes all boxes as the full pass does, if that
\* would make those above it as they are.
LEMMA PassFromCut ==
  ASSUME BoxesInv, MinWidth <= MaxWidth, NEW CONSTANT r \in Chain, r # 1, ~CanPromote(r),
         \A d \in dirty : r < d, dirty # {},
         \A i \in 1 .. r - 1 : width[i] = FullPass[i]
  PROVE  \A i \in Chain : Dispatch(r, width[r], InFlow(r))[i] = FullPass[i]
<1> DEFINE f == Dispatch(r, width[r], InFlow(r))
           g == FullPass
           good == {n \in Nat : n \in 1 .. Depth => f[n] = g[n]}
<1>0. Depth \in Nat /\ r \in 1 .. Depth /\ Chain = 1 .. Depth /\ r # Depth /\ r > 1
  <2>1. PICK d \in dirty : d \in 1 .. Depth
    BY DEF BoxesInv, Chain
  <2>2. r < d
    OBVIOUS
  <2> QED BY <2>1, <2>2, BoxesAssumption DEF Chain
<1>1. \A i \in Chain : f[i] = NextBox(f, i, r, width[r], InFlow(r)) /\ g[i] = NextBox(g, i, 1, Window, FALSE)
  <2>1. DispatchIs(r, width[r], InFlow(r))
    BY DispatchSteps
  <2>2. \A i \in Chain : f[i] = NextBox(f, i, r, width[r], InFlow(r))
    BY <2>1 DEF DispatchIs
  <2>3. \A i \in Chain : g[i] = NextBox(g, i, 1, Window, FALSE)
    BY FullPassSteps DEF FullPassIs
  <2> HIDE DEF f, g
  <2> QED BY <2>2, <2>3
<1>2. Elastic(r) \/ width[r] = g[r]
  BY <1>0 DEF BoxesInv, Screened
<1> HIDE DEF f, g
<1>3. ASSUME NEW n \in 0 .. Depth - 1, n \in good PROVE n + 1 \in good
  <2> DEFINE i == n + 1
  <2>1. i \in Chain /\ i - 1 = n /\ ~(i < 1) /\ n + 1 \in Nat /\ i \in 1 .. Depth
    BY <1>0, <1>3
  <2>2. CASE i < r
    <3>1. f[i] = width[i]
      BY <1>1, <2>1, <2>2 DEF NextBox
    <3>2. i \in 1 .. r - 1
      BY <1>0, <2>1, <2>2
    <3> QED BY <2>1, <3>1, <3>2 DEF g
  <2>3. CASE i = r
    <3>1. PICK c : c = Inside(g[n])
      OBVIOUS
    <3>2. f[r] = DecideBox(r, width[r], InFlow(r))
      <4>1. f[r] = NextBox(f, r, r, width[r], InFlow(r))
        BY <1>1, Zenon
      <4>2. ~(r < r)
        BY <1>0
      <4>3. NextBox(f, r, r, width[r], InFlow(r)) = DecideBox(r, width[r], InFlow(r))
        BY <4>2, Zenon DEF NextBox
      <4> QED BY <4>1, <4>3
    <3>3. g[r] = IF InFlow(r) THEN DecideBox(r, Given(r, c), TRUE) ELSE DecideBox(r, c, FALSE)
      BY <1>0, <1>1, <2>1, <2>3, <3>1 DEF NextBox
    <3>4. DecideBox(r, width[r], InFlow(r)) =
            IF InFlow(r) THEN DecideBox(r, Given(r, c), TRUE) ELSE DecideBox(r, c, FALSE)
      BY <1>0, <1>2, <3>3, BoxRepeated
    <3> QED BY <2>1, <2>3, <3>2, <3>3, <3>4
  <2>4. CASE r < i
    <3>1. n \in 1 .. Depth /\ ~(i < r) /\ i # r /\ i # 1
      BY <1>0, <2>1, <2>4
    <3>2. f[n] = g[n]
      BY <1>3, <3>1
    <3>3. NextBox(f, i, r, width[r], InFlow(r)) = NextBox(g, i, 1, Window, FALSE)
      BY <2>1, <3>1, <3>2 DEF NextBox
    <3> QED BY <1>1, <2>1, <3>3
  <2> QED BY <1>0, <2>1, <2>2, <2>3, <2>4
<1>4. 0 \in good
  OBVIOUS
<1>5. \A n \in 0 .. Depth : n \in good
  <2> HIDE DEF good
  <2> QED BY <1>0, <1>3, <1>4, Counting
<1>6. ASSUME NEW i \in Chain PROVE f[i] = g[i]
  <2>1. i \in 0 .. Depth /\ i \in 1 .. Depth
    BY <1>0
  <2> QED BY <1>5, <2>1
<1> QED BY <1>6 DEF f, g

\* Equal at every node, equal as functions.
LEMMA LayoutAgrees ==
  ASSUME BoxesInv, MinWidth <= MaxWidth, LayoutCall
  PROVE  width' = FullPass
<1> DEFINE roots == {Promoted(i) : i \in dirty}
           least == CHOOSE m \in roots : \A s \in roots : m <= s
<1>0. Depth \in Nat /\ Chain = 1 .. Depth /\ dirty \subseteq Chain /\ dirty # {}
  BY BoxesAssumption DEF Chain, BoxesInv, LayoutCall
<1>1. roots \in SUBSET Nat /\ roots # {}
  <2>1. ASSUME NEW i \in dirty PROVE Promoted(i) \in Nat
    <3>1. i \in Chain
      BY <1>0
    <3>2. Promoted(i) \in 1 .. i /\ i \in Nat
      BY <1>0, <3>1, PromotedAbove
    <3> QED BY <3>2
  <2> QED BY <1>0, <2>1
<1>2. least \in roots /\ \A s \in roots : least <= s
  <2> HIDE DEF roots
  <2>1. \E m \in roots : \A s \in roots : m <= s
    BY <1>1, LeastNumber
  <2> QED BY <2>1
<1>3. width' = IF least = 1 THEN FullPass ELSE Dispatch(least, width[least], InFlow(least))
  BY DEF LayoutCall
<1> HIDE DEF least
<1>4. CASE least = 1
  BY <1>3, <1>4
<1>5. CASE least # 1
  <2>1. PICK r : r = least
    OBVIOUS
  <2>2. PICK x \in dirty : r = Promoted(x)
    BY <1>2, <2>1
  <2>3. x \in Chain /\ x \in 1 .. Depth
    BY <1>0
  <2>4. Promoted(x) \in 1 .. x /\ (x # 1 => ~CanPromote(Promoted(x)))
    BY <2>3, PromotedAbove
  <2>5. x # 1
    BY <1>5, <2>1, <2>2 DEF Promoted
  <2>6. r \in Chain /\ r \in Nat /\ r # 1 /\ ~CanPromote(r)
    BY <1>0, <1>5, <2>1, <2>2, <2>3, <2>4, <2>5
  <2>7. ASSUME NEW d \in dirty
        PROVE  Promoted(d) \in Chain /\ r <= Promoted(d) /\ Promoted(d) < d /\ ~CanPromote(Promoted(d)) /\ d \in Nat
    <3>1. d \in Chain /\ d \in 1 .. Depth
      BY <1>0
    <3>2. Promoted(d) \in 1 .. d /\ (d # 1 => Promoted(d) < d /\ ~CanPromote(Promoted(d)))
      BY <3>1, PromotedAbove
    <3>3. r <= Promoted(d)
      BY <1>2, <2>1
    <3>4. d # 1
      BY <1>0, <2>6, <3>2, <3>3
    <3> QED BY <1>0, <3>1, <3>2, <3>3, <3>4
  <2>8. \A d \in dirty : r < d
    <3> SUFFICES ASSUME NEW d \in dirty PROVE r < d
      OBVIOUS
    <3> QED BY <1>0, <2>6, <2>7
  <2>9. ASSUME NEW i \in 1 .. r - 1 PROVE width[i] = FullPass[i]
    <3>1. i \in Chain /\ i \in Nat /\ i < r
      BY <1>0, <2>6
    <3>2. ASSUME NEW d \in dirty PROVE \E k \in Chain : i < k /\ k < d /\ ~CanPromote(k)
      <4>1. i < Promoted(d)
        BY <1>0, <2>6, <2>7, <3>1
      <4> QED BY <2>7, <4>1
    <3>3. Shielded(i)
      BY <3>2 DEF Shielded
    <3> QED BY <3>1, <3>3 DEF BoxesInv
  <2> DEFINE f == Dispatch(r, width[r], InFlow(r))
  <2>10. \A i \in Chain : f[i] = FullPass[i]
    BY <1>0, <2>6, <2>8, <2>9, PassFromCut
  <2>11. f = [i \in Chain |-> f[i]] /\ FullPass = [i \in Chain |-> FullPass[i]]
    BY <2>6, DispatchSteps, FullPassSteps DEF DispatchIs, FullPassIs
  <2>12. width' = f
    BY <1>3, <1>5, <2>1
  <2> HIDE DEF f
  <2> QED BY <2>10, <2>11, <2>12
<1> QED BY <1>4, <1>5

\* A change of one box leaves the boxes as they are that no climb from it reaches.
LEMMA ChangeKeeps ==
  ASSUME BoxesInv, NEW CONSTANT k \in Chain, protocol' = protocol, width' = width,
         dirty' = dirty \cup {k}, style' \in [Chain -> Styles],
         \A j \in Chain \ {k} : style'[j] = style[j]
  PROVE  /\ dirty' \subseteq Chain /\ width' = [i \in Chain |-> width'[i]]
         /\ \A i \in Chain : Shielded(i)' => width'[i] = FullPass'[i]
         /\ \A i \in Chain : i # 1 /\ Screened(i)' => Elastic(i)' \/ width'[i] = FullPass'[i]
<1>0. Depth \in Nat /\ Chain = 1 .. Depth /\ k \in Nat /\ \A j \in Chain : j \in Nat
  BY BoxesAssumption DEF Chain
<1>1. dirty' \subseteq Chain /\ width' = [i \in Chain |-> width'[i]]
  BY DEF BoxesInv
<1>2. ASSUME NEW j \in Chain \ {k} PROVE (CanPromote(j)' <=> CanPromote(j)) /\ (Elastic(j)' <=> Elastic(j))
  BY <1>2 DEF CanPromote, InFlow, Elastic, Wraps
<1>3. ASSUME NEW r \in Chain, r < k PROVE \A j \in 1 .. r : style'[j] = style[j]
  <2> SUFFICES ASSUME NEW j \in 1 .. r PROVE style'[j] = style[j]
    OBVIOUS
  <2>1. j \in Chain \ {k}
    BY <1>0, <1>3
  <2> QED BY <2>1
<1>4. ASSUME NEW i \in Chain, Shielded(i)' PROVE width'[i] = FullPass'[i]
  <2>1. PICK r \in Chain : i < r /\ r < k /\ ~CanPromote(r)'
    BY <1>4 DEF Shielded
  <2>2. ~CanPromote(r)
    <3>1. r # k
      BY <1>0, <2>1
    <3> QED BY <1>2, <2>1, <3>1
  <2>3. ASSUME NEW d \in dirty PROVE \E q \in Chain : i < q /\ q < d /\ ~CanPromote(q)
    <3>1. d \in Nat
      BY <1>0 DEF BoxesInv
    <3>2. PICK q \in Chain : i < q /\ q < d /\ ~CanPromote(q)'
      BY <1>4 DEF Shielded
    <3>3. CASE q # k
      BY <1>2, <3>2, <3>3
    <3>4. CASE q = k
      <4>1. r < d
        BY <1>0, <2>1, <3>1, <3>2, <3>4
      <4> QED BY <2>1, <2>2, <4>1
    <3> QED BY <3>3, <3>4
  <2>4. width[i] = FullPass[i]
    <3>1. Shielded(i)
      BY <2>3 DEF Shielded
    <3> QED BY <3>1 DEF BoxesInv
  <2>5. FullPass'[i] = FullPass[i]
    <3>1. \A j \in 1 .. r : style'[j] = style[j]
      BY <1>3, <2>1
    <3> QED BY <2>1, <2>2, <3>1, CutKeepsAbove
  <2> QED BY <2>4, <2>5
<1>5. ASSUME NEW i \in Chain, i # 1, Screened(i)', ~Elastic(i)' PROVE width'[i] = FullPass'[i]
  <2>1. i < k /\ ~CanPromote(i)' /\ \A d \in dirty : i < d
    BY <1>5 DEF Screened
  <2>2. i # k
    BY <1>0, <2>1
  <2>3. ~CanPromote(i) /\ ~Elastic(i)
    BY <1>2, <1>5, <2>1, <2>2
  <2>4. width[i] = FullPass[i]
    BY <1>5, <2>1, <2>3 DEF BoxesInv, Screened
  <2>5. FullPass'[i] = FullPass[i]
    <3>1. \A j \in 1 .. i : style'[j] = style[j]
      BY <1>3, <2>1
    <3> QED BY <1>5, <2>3, <3>1, CutKeepsItself
  <2> QED BY <2>4, <2>5
<1> QED BY <1>1, <1>4, <1>5

\* Every step, where the styles are steady.
LEMMA BoxesInvStep == OnlySteady /\ MinWidth <= MaxWidth /\ BoxesInv /\ [BoxesNext]_boxVars => BoxesInv'
<1> SUFFICES ASSUME OnlySteady, MinWidth <= MaxWidth, BoxesInv, [BoxesNext]_boxVars PROVE BoxesInv'
  OBVIOUS
<1>1. ASSUME NEW k \in Chain, Touch(k) PROVE BoxesInv'
  <2>1. protocol' = protocol /\ width' = width /\ dirty' = dirty \cup {k} /\ style' = style
    BY <1>1 DEF Touch, Mark
  <2>2. style' \in [Chain -> Styles] /\ TextIsLast(style)' /\ \A i \in Chain : SteadyAt(style, i)'
    BY <2>1 DEF BoxesInv, TextIsLast, SteadyAt, InFlow
  <2>3. /\ dirty' \subseteq Chain /\ width' = [i \in Chain |-> width'[i]]
        /\ \A i \in Chain : Shielded(i)' => width'[i] = FullPass'[i]
        /\ \A i \in Chain : i # 1 /\ Screened(i)' => Elastic(i)' \/ width'[i] = FullPass'[i]
    BY <2>1, <2>2, ChangeKeeps
  <2> QED BY <2>2, <2>3 DEF BoxesInv
<1>2. ASSUME NEW k \in Chain, NEW s \in Styles, SetStyle(k, s) PROVE BoxesInv'
  <2>1. /\ protocol' = protocol /\ width' = width /\ dirty' = dirty \cup {k}
        /\ style' = [style EXCEPT ![k] = s] /\ TextIsLast(style')
        /\ \A i \in Chain : SteadyAt(style', i)
    BY <1>2 DEF SetStyle, Mark, SteadyStyles
  <2>2. /\ style' \in [Chain -> Styles] /\ \A j \in Chain \ {k} : style'[j] = style[j]
    BY <2>1 DEF BoxesInv
  <2>3. TextIsLast(style)' /\ \A i \in Chain : SteadyAt(style, i)'
    BY <2>1 DEF TextIsLast, SteadyAt, InFlow
  <2>4. /\ dirty' \subseteq Chain /\ width' = [i \in Chain |-> width'[i]]
        /\ \A i \in Chain : Shielded(i)' => width'[i] = FullPass'[i]
        /\ \A i \in Chain : i # 1 /\ Screened(i)' => Elastic(i)' \/ width'[i] = FullPass'[i]
    BY <2>1, <2>2, ChangeKeeps
  <2> QED BY <2>2, <2>3, <2>4 DEF BoxesInv
<1>3. CASE LayoutCall
  <2>1. width' = FullPass /\ dirty' = {} /\ style' = style /\ protocol' = protocol
    BY <1>3, LayoutAgrees DEF LayoutCall
  <2>2. \A i \in Chain : FullPass'[i] = FullPass[i]
    BY <2>1, FullPassKept
  <2>3. width' = [i \in Chain |-> width'[i]]
    BY <2>1, FullPassSteps DEF FullPassIs
  <2>4. TextIsLast(style)' /\ \A i \in Chain : SteadyAt(style, i)'
    BY <2>1 DEF BoxesInv, TextIsLast, SteadyAt, InFlow
  <2> QED BY <2>1, <2>2, <2>3, <2>4 DEF BoxesInv
<1>4. CASE UNCHANGED boxVars
  <2>1. protocol' = protocol /\ style' = style /\ width' = width /\ dirty' = dirty
    BY <1>4 DEF boxVars
  <2>2. \A i \in Chain : FullPass'[i] = FullPass[i]
    BY <2>1, FullPassKept
  <2>3. TextIsLast(style)' /\ \A i \in Chain : SteadyAt(style, i)'
    BY <2>1 DEF BoxesInv, TextIsLast, SteadyAt, InFlow
  <2>4. \A i \in Chain : (Shielded(i)' => Shielded(i)) /\ (Screened(i)' => Screened(i)) /\ (Elastic(i) => Elastic(i)')
    BY <2>1 DEF Shielded, Screened, Elastic, CanPromote, InFlow, Wraps
  <2> QED BY <2>1, <2>2, <2>3, <2>4 DEF BoxesInv
<1> QED BY <1>1, <1>2, <1>3, <1>4 DEF BoxesNext

(***************************************************************************)
(* What run_dirty_plan relies on: a partial pass makes every box as wide   *)
(* as a full pass would, for chains of any length, any mix of protocols    *)
(* and any sizes, if the styles are steady and no minimum exceeds the      *)
(* maximum.                                                                *)
(***************************************************************************)
THEOREM BoxesStayAgreed == OnlySteady /\ MinWidth <= MaxWidth => (BoxesSpec => []BoxesAgree)
<1>1. BoxesInv => BoxesAgree
  <2> SUFFICES ASSUME BoxesInv, dirty = {} PROVE width = FullPass
    BY DEF BoxesAgree
  <2>1. \A i \in Chain : width[i] = FullPass[i]
    BY DEF BoxesInv, Shielded
  <2>2. width = [i \in Chain |-> width[i]] /\ FullPass = [i \in Chain |-> FullPass[i]]
    BY FullPassSteps DEF BoxesInv, FullPassIs
  <2> HIDE DEF FullPass
  <2> QED BY <2>1, <2>2
<1>2. ASSUME OnlySteady, MinWidth <= MaxWidth PROVE BoxesSpec => []BoxesAgree
  <2>1. BoxesInv /\ [BoxesNext]_boxVars => BoxesInv'
    BY <1>2, BoxesInvStep
  <2>2. BoxesInit => BoxesInv
    BY <1>2, BoxesInvInit
  <2> QED BY <1>1, <2>1, <2>2, PTL DEF BoxesSpec
<1> QED BY <1>2

-----------------------------------------------------------------------------
(***************************************************************************)
(* Flex: which children share a line.                                      *)
(***************************************************************************)

-----------------------------------------------------------------------------
(* The room children take.                                                 *)

\* The outer lengths of a set of children.
OuterOf(S) == MapThenSumSet(Outer, S)

FlexTypeOK ==
  /\ Len(items) \in Nat \ {0}
  /\ items \in [1 .. Len(items) -> Items]
  /\ frame \in FlexFrames

\* A child takes a whole number of parts of a pixel.
LEMMA ItemTypes ==
  ASSUME FlexTypeOK, NEW i \in 1 .. Len(items)
  PROVE  Outer(i) \in Int
<1>1. items[i] \in [base : Nat, min : Nat, max : Nat, grow : Nat, shrink : Nat, margin : Nat]
  BY FlexAssumption DEF FlexTypeOK
<1>2. Unit \in Nat
  BY UnitAssumption
<1> DEFINE b == items[i].base * Unit
           l == items[i].min * Unit
           h == items[i].max * Unit
           m == items[i].margin * Unit
<1>3. b \in Int /\ l \in Int /\ h \in Int /\ m \in Int
  BY <1>1, <1>2
<1>4. Outer(i) = Clamp(b, l, h) + 2 * items[i].margin * Unit
  BY DEF Outer, Hypothetical, Limited, Base, Margins
<1>5. 2 * items[i].margin * Unit \in Int
  BY <1>1, <1>2
<1> HIDE DEF b, l, h
<1> QED BY <1>3, <1>4, <1>5 DEF Clamp

\* The lengths of some children add up, one child at a time.
LEMMA OuterAdds ==
  ASSUME FlexTypeOK
  PROVE  /\ OuterOf({}) = 0
         /\ \A S \in SUBSET (1 .. Len(items)) :
              OuterOf(S) \in Int /\ \A x \in S : OuterOf(S) = Outer(x) + OuterOf(S \ {x})
<1> DEFINE n == Len(items)
           f == [i \in 1 .. n |-> Outer(i)]
<1>1. n \in Nat /\ f \in [1 .. n -> Int]
  BY ItemTypes DEF FlexTypeOK
<1>2. PICK sum : Adds(sum, f, n)
  <2> HIDE DEF f, n
  <2> QED BY <1>1, SumsExist
<1>3. ASSUME NEW S \in SUBSET (1 .. n) PROVE OuterOf(S) = sum[S]
  <2> DEFINE Step(g, s) ==
        IF s = {} THEN 0 ELSE Outer(CHOOSE x \in s : TRUE) + g[s \ {CHOOSE x \in s : TRUE}]
  <2> DEFINE iter == CHOOSE g : g = [s \in SUBSET S |-> Step(g, s)]
  <2>1. OuterOf(S) = iter[S]
    BY DEF OuterOf, MapThenSumSet, MapThenFoldSet
  <2>2. \A s \in SUBSET S : s # {} => (CHOOSE x \in s : TRUE) \in s
    OBVIOUS
  <2>3. \A s \in SUBSET S : s # {} => f[CHOOSE x \in s : TRUE] = Outer(CHOOSE x \in s : TRUE)
    BY <2>2
  <2> DEFINE g == [s \in SUBSET S |-> sum[s]]
  <2>4. \A s \in SUBSET S : g[s] = Step(g, s)
    <3> SUFFICES ASSUME NEW s \in SUBSET S PROVE g[s] = Step(g, s)
      OBVIOUS
    <3>1. CASE s = {}
      BY <1>2, <3>1 DEF Adds
    <3>2. CASE s # {}
      <4> DEFINE c == CHOOSE x \in s : TRUE
      <4>1. c \in s /\ f[c] = Outer(c)
        BY <2>2, <2>3, <3>2
      <4> HIDE DEF c
      <4>2. sum[s] = f[c] + sum[s \ {c}]
        BY <1>2, <4>1 DEF Adds
      <4>3. g[s] = Outer(c) + g[s \ {c}]
        BY <4>1, <4>2
      <4> HIDE DEF g
      <4> QED BY <3>2, <4>3 DEF c
    <3> QED BY <3>1, <3>2
  <2>5. g = [s \in SUBSET S |-> Step(g, s)]
    <3>1. g = [s \in SUBSET S |-> g[s]]
      OBVIOUS
    <3> HIDE DEF g, Step
    <3> QED BY <2>4, <3>1
  <2>6. iter = [s \in SUBSET S |-> Step(iter, s)]
    <3> HIDE DEF Step, g
    <3> QED BY <2>5
  <2>7. FoldsUp(iter, f, S)
    <3>1. \A s \in SUBSET S : Step(iter, s) =
            IF s = {} THEN 0 ELSE f[CHOOSE x \in s : TRUE] + iter[s \ {CHOOSE x \in s : TRUE}]
      <4> HIDE DEF iter, f
      <4> QED BY <2>3
    <3> HIDE DEF iter, Step, f
    <3> QED BY <2>6, <3>1 DEF FoldsUp
  <2> HIDE DEF iter, f, n
  <2> QED BY <1>1, <1>2, <2>1, <2>7, FoldsAdd
<1>4. OuterOf({}) = 0
  BY <1>2, <1>3 DEF Adds
<1>5. ASSUME NEW S \in SUBSET (1 .. n)
      PROVE  OuterOf(S) \in Int /\ \A x \in S : OuterOf(S) = Outer(x) + OuterOf(S \ {x})
  <2>1. OuterOf(S) = sum[S] /\ sum[S] \in Int
    BY <1>2, <1>3 DEF Adds
  <2>2. ASSUME NEW x \in S PROVE OuterOf(S) = Outer(x) + OuterOf(S \ {x})
    <3>1. S \ {x} \in SUBSET (1 .. n) /\ f[x] = Outer(x)
      OBVIOUS
    <3>2. OuterOf(S \ {x}) = sum[S \ {x}]
      BY <1>3, <3>1
    <3>3. sum[S] = f[x] + sum[S \ {x}]
      BY <1>2 DEF Adds
    <3> QED BY <2>1, <3>1, <3>2, <3>3
  <2> QED BY <2>1, <2>2
<1> QED BY <1>4, <1>5

\* The room and the gaps stay what they are while lines are broken.
LEMMA RoomKept ==
  ASSUME items' = items, frame' = frame
  PROVE  Space' = Space /\ Gap' = Gap /\ \A S : OuterOf(S)' = OuterOf(S)
<1>1. ASSUME NEW S PROVE OuterOf(S)' = OuterOf(S)
  BY DEF OuterOf, MapThenSumSet, MapThenFoldSet, Outer, Hypothetical, Limited, Base, Margins, Clamp
<1>2. Gap' = Gap
  BY DEF Gap
<1>3. Measured = OuterOf(DOMAIN items) + Gap * (Len(items) - 1)
  BY DEF Measured, OuterOf
<1>4. Measured' = OuterOf(DOMAIN items)' + Gap' * (Len(items)' - 1)
  BY DEF Measured, OuterOf
<1>5. Measured' = Measured
  BY <1>1, <1>2, <1>3, <1>4
<1>6. Space' = Space
  BY <1>5 DEF Space
<1> QED BY <1>1, <1>2, <1>6

\* The room and the gaps are numbers.
LEMMA RoomTypes ==
  ASSUME FlexTypeOK
  PROVE  Gap \in Int /\ Space \in Int
<1>1. frame.gap \in Nat /\ frame.main \in Nat /\ frame.hug \in BOOLEAN
  BY FlexAssumption DEF FlexTypeOK, FlexFrames
<1>2. Gap \in Int /\ frame.main * Unit \in Int
  BY <1>1, UnitAssumption DEF Gap
<1>3. DOMAIN items = 1 .. Len(items) /\ Len(items) \in Nat
  BY DEF FlexTypeOK
<1>4. OuterOf(DOMAIN items) \in Int
  BY <1>3, OuterAdds
<1> DEFINE o == OuterOf(DOMAIN items)
           g == Gap
           n == Len(items)
<1>5. Measured = o + g * (n - 1)
  BY DEF Measured, OuterOf
<1> HIDE DEF o, g, n
<1>6. Measured \in Int
  BY <1>2, <1>3, <1>4, <1>5 DEF o, g, n
<1> QED BY <1>1, <1>2, <1>6 DEF Space

-----------------------------------------------------------------------------
(* Breaking children into lines.                                           *)

\* The length of the line of c children that begins with child s.
LengthOf(s, c) == OuterOf(s .. s + c - 1) + Gap * (c - 1)

Line == [start : Nat, count : Nat]

\* As many as fit, and the next one does not.
Fits(k) == lines[k].count > 1 => LengthOf(lines[k].start, lines[k].count) <= Space
Overfull(k) == LengthOf(lines[k].start, lines[k].count + 1) > Space

\* Lines follow one another from the first child on.
Chained ==
  /\ lines # <<>> => lines[1].start = 1
  /\ \A k \in 1 .. Len(lines) - 1 : lines[k + 1].start = lines[k].start + lines[k].count

Filling ==
  /\ open \in [start : Nat \ {0}, count : Nat, main : Int]
  /\ open.start + open.count = cursor /\ cursor <= Len(items) + 1
  /\ open.count = 0 => cursor = 1
  /\ open.count > 0 => open.main = LengthOf(open.start, open.count)
  /\ open.count > 1 => open.main <= Space
  /\ lines = <<>> => open.start = 1
  /\ lines # <<>> => lines[Len(lines)].start + lines[Len(lines)].count = open.start
  /\ \A k \in 1 .. Len(lines) : Fits(k) /\ Overfull(k)

LinesFilled ==
  /\ lines # <<>>
  /\ lines[Len(lines)].start + lines[Len(lines)].count = Len(items) + 1
  /\ frame.wrap /\ Space > 0 =>
       /\ \A k \in 1 .. Len(lines) : Fits(k)
       /\ \A k \in 1 .. Len(lines) - 1 : Overfull(k)

LinesInv ==
  /\ FlexTypeOK
  /\ lines \in Seq(Line) /\ Chained
  /\ at = "lines" => Filling
  /\ at # "lines" => LinesFilled

\* One child more.
LEMMA LengthGrows ==
  ASSUME FlexTypeOK, NEW s \in Nat \ {0}, NEW c \in Nat, s + c <= Len(items)
  PROVE  /\ LengthOf(s, c + 1) \in Int
         /\ c = 0 => LengthOf(s, c + 1) = Outer(s + c)
         /\ c > 0 => LengthOf(s, c + 1) = LengthOf(s, c) + Gap + Outer(s + c)
<1> DEFINE i == s + c
           A == s .. i
           B == s .. i - 1
           a == OuterOf(A)
           b == OuterOf(B)
           o == Outer(i)
           g == Gap
<1>1. g \in Int /\ Len(items) \in Nat
  BY RoomTypes DEF FlexTypeOK
<1>2. i \in Nat /\ i <= Len(items) /\ i \in A /\ s <= i
  OBVIOUS
<1>3. A \in SUBSET (1 .. Len(items)) /\ A \ {i} = B /\ B \in SUBSET (1 .. Len(items))
  <2> HIDE DEF i
  <2>1. \A x \in A : x \in 1 .. Len(items) /\ (x # i => x \in B)
    BY <1>1, <1>2
  <2>2. \A x \in B : x \in A /\ x # i
    BY <1>1, <1>2
  <2> HIDE DEF A, B
  <2> QED BY <2>1, <2>2
<1>4. a \in Int /\ a = o + b /\ b \in Int /\ o \in Int
  <2>1. i \in 1 .. Len(items)
    BY <1>1, <1>2
  <2> HIDE DEF A, B, i
  <2>2. o \in Int
    BY <2>1, ItemTypes
  <2> QED BY <1>2, <1>3, <2>2, OuterAdds
<1>5. s + (c + 1) - 1 = i /\ s + c - 1 = i - 1
  OBVIOUS
<1>6. LengthOf(s, c + 1) = a + g * ((c + 1) - 1) /\ LengthOf(s, c) = b + g * (c - 1)
  BY <1>5 DEF LengthOf
<1>7. c = 0 => b = 0
  <2>1. c = 0 => B = {}
    OBVIOUS
  <2> HIDE DEF B
  <2> QED BY <2>1, OuterAdds
<1> HIDE DEF a, b, o, g, A, B
<1>8. g * ((c + 1) - 1) = g * (c - 1) + g /\ g * ((c + 1) - 1) \in Int /\ g * (c - 1) \in Int
  <2>1. (c + 1) - 1 = (c - 1) + 1 /\ c - 1 \in Int
    OBVIOUS
  <2>2. \A x \in Int : g * (x + 1) = g * x + g /\ g * (x + 1) \in Int /\ g * x \in Int
    BY <1>1
  <2> QED BY <2>1, <2>2
<1>9. c = 0 => g * ((c + 1) - 1) = 0
  BY <1>1
<1>10. LengthOf(s, c + 1) \in Int
  BY <1>4, <1>6, <1>8
<1>11. c = 0 => LengthOf(s, c + 1) = o
  BY <1>4, <1>6, <1>7, <1>9
<1>12. c > 0 => LengthOf(s, c + 1) = LengthOf(s, c) + g + o
  BY <1>1, <1>4, <1>6, <1>8
<1> QED BY <1>10, <1>11, <1>12 DEF o, g

\* No line is there yet, and the open one is empty.
LEMMA LinesInvInit == FlexInit => LinesInv
<1> SUFFICES ASSUME FlexInit PROVE LinesInv
  OBVIOUS
<1>1. PICK n \in 1 .. MaxItems : items \in [1 .. n -> Items]
  BY DEF FlexInit
<1>2. n \in Nat \ {0} /\ Len(items) = n /\ items \in Seq(Items)
  BY <1>1, FlexAssumption
<1>3. FlexTypeOK
  BY <1>1, <1>2 DEF FlexInit, FlexTypeOK
<1>4. lines = <<>> /\ Len(lines) = 0 /\ cursor = 1 /\ open = [start |-> 1, count |-> 0, main |-> 0] /\ at = "lines"
  BY DEF FlexInit, FlexReady, NoLine
<1>5. lines \in Seq(Line) /\ Chained
  BY <1>4 DEF Chained
<1>6. Filling
  BY <1>2, <1>4 DEF Filling
<1> QED BY <1>3, <1>4, <1>5, <1>6 DEF LinesInv

\* A line more.
LEMMA CloseLines ==
  ASSUME LinesInv, at = "lines", open.count > 0,
         items' = items, frame' = frame,
         lines' = Close
  PROVE  /\ lines' \in Seq(Line) /\ Chained' /\ lines' # <<>>
         /\ lines'[Len(lines')].start + lines'[Len(lines')].count = cursor
         /\ \A k \in 1 .. Len(lines') : Fits(k)'
         /\ \A k \in 1 .. Len(lines') - 1 : Overfull(k)'
         /\ LengthOf(open.start, open.count + 1) > Space => \A k \in 1 .. Len(lines') : Overfull(k)'
<1> DEFINE row == [start |-> open.start, count |-> open.count]
<1>0. PICK n \in Nat : n = Len(lines)
  BY DEF LinesInv
<1>1. Filling /\ lines \in Seq(Line) /\ Chained /\ n = Len(lines)
  BY <1>0 DEF LinesInv
<1>2. row \in Line /\ row.start = open.start /\ row.count = open.count
  BY <1>1 DEF Filling, Line
<1>3. lines' = Append(lines, row)
  BY DEF Close
<1> HIDE DEF row
<1>4. /\ lines' \in Seq(Line) /\ Len(lines') = n + 1 /\ lines'[n + 1] = row
      /\ \A k \in 1 .. n : lines'[k] = lines[k]
  BY <1>1, <1>2, <1>3, AppendProperties
<1>5. lines' # <<>>
  BY <1>4
<1>6. ASSUME NEW s, NEW c PROVE LengthOf(s, c)' = LengthOf(s, c)
  BY RoomKept DEF LengthOf
<1>7. Space' = Space
  BY RoomKept
<1>8. ASSUME NEW k \in 1 .. n PROVE Fits(k)' /\ Overfull(k)'
  <2>1. Fits(k) /\ Overfull(k) /\ lines'[k] = lines[k]
    BY <1>1, <1>4 DEF Filling
  <2> QED BY <1>6, <1>7, <2>1 DEF Fits, Overfull
<1>9. Fits(n + 1)'
  <2>1. open.count > 1 => LengthOf(open.start, open.count) <= Space
    BY <1>1 DEF Filling
  <2> QED BY <1>2, <1>4, <1>6, <1>7, <2>1 DEF Fits
<1>10. LengthOf(open.start, open.count + 1) > Space => Overfull(n + 1)'
  BY <1>2, <1>4, <1>6, <1>7 DEF Overfull
<1>11. Chained'
  <2>1. lines'[1].start = 1
    <3>1. CASE lines = <<>>
      <4>1. n = 0 /\ open.start = 1
        BY <1>1, <3>1 DEF Filling
      <4> QED BY <1>2, <1>4, <4>1
    <3>2. CASE lines # <<>>
      <4>1. 1 \in 1 .. n
        BY <1>1, <3>2, EmptySeq
      <4> QED BY <1>1, <1>4, <3>2, <4>1 DEF Chained
    <3> QED BY <3>1, <3>2
  <2>2. ASSUME NEW k \in 1 .. n PROVE lines'[k + 1].start = lines'[k].start + lines'[k].count
    <3>1. CASE k = n
      <4>1. lines # <<>>
        BY <1>1
      <4>2. lines[n].start + lines[n].count = open.start
        BY <1>1, <4>1 DEF Filling
      <4> QED BY <1>2, <1>4, <3>1, <4>2
    <3>2. CASE k # n
      <4>1. k \in 1 .. n - 1 /\ k + 1 \in 1 .. n
        BY <3>2
      <4>2. lines[k + 1].start = lines[k].start + lines[k].count
        BY <1>1, <4>1 DEF Chained
      <4> QED BY <1>4, <4>1, <4>2
    <3> QED BY <3>1, <3>2
  <2>3. Len(lines') - 1 = n
    BY <1>4
  <2> QED BY <2>1, <2>2, <2>3 DEF Chained
<1>12. lines'[Len(lines')].start + lines'[Len(lines')].count = cursor
  BY <1>1, <1>2, <1>4 DEF Filling
<1>13. Len(lines') - 1 = n /\ Len(lines') = n + 1
  BY <1>4
<1>14. \A k \in 1 .. n + 1 : Fits(k)'
  <2> SUFFICES ASSUME NEW k \in 1 .. n + 1 PROVE Fits(k)'
    OBVIOUS
  <2>1. k \in 1 .. n \/ k = n + 1
    OBVIOUS
  <2> QED BY <1>8, <1>9, <2>1
<1>15. LengthOf(open.start, open.count + 1) > Space => \A k \in 1 .. n + 1 : Overfull(k)'
  <2> SUFFICES ASSUME LengthOf(open.start, open.count + 1) > Space, NEW k \in 1 .. n + 1 PROVE Overfull(k)'
    OBVIOUS
  <2>1. k \in 1 .. n \/ k = n + 1
    OBVIOUS
  <2> QED BY <1>8, <1>10, <2>1
<1> QED BY <1>4, <1>5, <1>8, <1>11, <1>12, <1>13, <1>14, <1>15

\* A child joins the open line or begins the next one.
LEMMA TakeItemKeeps == ASSUME LinesInv, TakeItem PROVE LinesInv'
<1>1. /\ FlexTypeOK /\ Filling /\ lines \in Seq(Line) /\ Chained /\ at = "lines"
      /\ cursor <= Len(items) /\ Len(items) \in Nat
  BY DEF LinesInv, TakeItem, Breaking, FlexTypeOK
<1>2. items' = items /\ frame' = frame /\ at' = "lines" /\ cursor' = cursor + 1
  BY <1>1 DEF TakeItem
<1>3. /\ open.start \in Nat \ {0} /\ open.count \in Nat /\ open.main \in Int
      /\ open.start + open.count = cursor /\ cursor \in 1 .. Len(items)
  BY <1>1 DEF Filling
<1>4. ASSUME NEW s, NEW c PROVE LengthOf(s, c)' = LengthOf(s, c)
  BY <1>2, RoomKept DEF LengthOf
<1>5. Space' = Space /\ Space \in Int
  BY <1>1, <1>2, RoomKept, RoomTypes
<1>6. FlexTypeOK'
  BY <1>1, <1>2 DEF FlexTypeOK
<1>7. /\ Outer(cursor) \in Int
      /\ Candidate(cursor) = LengthOf(open.start, open.count + 1)
      /\ Candidate(cursor) \in Int
  <2>1. /\ LengthOf(open.start, open.count + 1) \in Int
        /\ open.count = 0 => LengthOf(open.start, open.count + 1) = Outer(cursor)
        /\ open.count > 0 => LengthOf(open.start, open.count + 1) = LengthOf(open.start, open.count) + Gap + Outer(cursor)
    BY <1>1, <1>3, LengthGrows
  <2>2. open.count > 0 => open.main = LengthOf(open.start, open.count)
    BY <1>1 DEF Filling
  <2>3. Outer(cursor) \in Int
    BY <1>1, <1>3, ItemTypes
  <2> QED BY <1>3, <2>1, <2>2, <2>3 DEF Candidate
<1>8. CASE open.count > 0 /\ Candidate(cursor) > Space
  <2>1. lines' = Close /\ open' = [start |-> cursor, count |-> 1, main |-> Outer(cursor)]
    BY <1>8 DEF TakeItem
  <2>2. /\ lines' \in Seq(Line) /\ Chained' /\ lines' # <<>>
        /\ lines'[Len(lines')].start + lines'[Len(lines')].count = cursor
        /\ \A k \in 1 .. Len(lines') : Fits(k)' /\ Overfull(k)'
    BY <1>1, <1>2, <1>7, <1>8, <2>1, CloseLines
  <2>3. LengthOf(cursor, 1) = Outer(cursor)
    <3>1. LengthOf(cursor, 0 + 1) = Outer(cursor + 0)
      <4>1. 0 \in Nat /\ cursor \in Nat \ {0} /\ cursor + 0 <= Len(items)
        BY <1>1, <1>3
      <4> QED BY <1>1, <4>1, LengthGrows
    <3>2. 0 + 1 = 1 /\ cursor + 0 = cursor
      BY <1>3
    <3> QED BY <3>1, <3>2
  <2>4. Filling'
    <3>1. open' \in [start : Nat \ {0}, count : Nat, main : Int]
      BY <1>3, <1>7, <2>1
    <3>0. PICK i \in Nat : i = cursor
      BY <1>3
    <3>2. open'.start = i /\ open'.count = 1 /\ open'.main = LengthOf(i, 1)'
      BY <1>4, <2>1, <2>3, <3>0
    <3>4. open'.main = LengthOf(open.start, open.count)'
      BY <3>2
    <3>3. open'.start + open'.count = cursor' /\ cursor' <= Len(items') + 1
      BY <1>1, <1>2, <1>3, <3>0, <3>2
    <3>5. lines'[Len(lines')].start + lines'[Len(lines')].count = open'.start
      BY <2>2, <3>0, <3>2
    <3> QED BY <2>2, <3>1, <3>2, <3>3, <3>4, <3>5 DEF Filling
  <2> QED BY <1>2, <1>6, <2>2, <2>4 DEF LinesInv
<1>9. CASE ~(open.count > 0 /\ Candidate(cursor) > Space)
  <2>0. PICK s \in Nat, c \in Nat : s = open.start /\ c = open.count + 1
    BY <1>3
  <2> DEFINE m == Candidate(cursor)
  <2>1. lines' = lines /\ open' = [open EXCEPT !.count = c, !.main = m]
    BY <1>9, <2>0 DEF TakeItem
  <2>2. open' = [start |-> s, count |-> c, main |-> m]
    BY <1>1, <2>0, <2>1 DEF Filling
  <2>3. c \in Nat /\ c > 0 /\ (c > 1 => m <= Space) /\ m \in Int /\ m = LengthOf(s, c)
    BY <1>3, <1>5, <1>7, <1>9, <2>0
  <2> HIDE DEF m
  <2>4. Filling'
    <3>1. open' \in [start : Nat \ {0}, count : Nat, main : Int] /\ open'.start = s /\ s = open.start
          /\ open'.count = c /\ open'.main = m
      BY <1>3, <2>0, <2>2, <2>3
    <3>2. open'.start + open'.count = cursor' /\ cursor' <= Len(items') + 1
      <4>1. s + c = cursor + 1
        BY <1>3, <2>0
      <4>2. cursor + 1 <= Len(items) + 1
        BY <1>1, <1>3
      <4> QED BY <1>2, <3>1, <4>1, <4>2
    <3>3. open'.main = LengthOf(s, c)' /\ (c > 1 => open'.main <= Space')
      BY <1>4, <1>5, <2>3, <3>1
    <3>5. open'.main = LengthOf(open.start, open.count)' /\ (open'.count > 1 => open'.main <= Space')
      BY <3>1, <3>3
    <3>4. ASSUME NEW k \in 1 .. Len(lines) PROVE Fits(k)' /\ Overfull(k)'
      <4>1. Fits(k) /\ Overfull(k)
        BY <1>1 DEF Filling
      <4> QED BY <1>4, <1>5, <2>1, <4>1 DEF Fits, Overfull
    <3>6. /\ lines' = <<>> => open'.start = 1
          /\ lines' # <<>> => lines'[Len(lines')].start + lines'[Len(lines')].count = open'.start
      BY <1>1, <2>1, <3>1 DEF Filling
    <3> QED BY <2>1, <2>3, <3>1, <3>2, <3>4, <3>5, <3>6 DEF Filling
  <2> QED BY <1>1, <1>2, <1>6, <2>1, <2>4 DEF LinesInv, Chained
<1> QED BY <1>8, <1>9

\* Every step of breaking children into lines.
LEMMA LinesInvStep == LinesInv /\ [FlexNext]_flexVars => LinesInv'
<1> SUFFICES ASSUME LinesInv, [FlexNext]_flexVars PROVE LinesInv'
  OBVIOUS
<1>1. FlexTypeOK /\ Len(items) \in Nat \ {0} /\ lines \in Seq(Line) /\ Chained
  BY DEF LinesInv, FlexTypeOK
<1>2. CASE SingleLine
  <2>1. items' = items /\ frame' = frame /\ at' = "line" /\ lines' = <<[start |-> 1, count |-> Len(items)]>>
    BY <1>2 DEF SingleLine
  <2>2. [start |-> 1, count |-> Len(items)] \in Line
    BY <1>1 DEF Line
  <2>3. lines' \in Seq(Line) /\ Len(lines') = 1 /\ lines'[1].start = 1 /\ lines'[1].count = Len(items) /\ lines' # <<>>
    BY <2>1, <2>2
  <2>4. Space' = Space
    BY <2>1, RoomKept
  <2>5. ~(frame'.wrap /\ Space' > 0)
    <3>1. Space \in Int /\ (~frame.wrap \/ Space <= 0)
      BY <1>1, <1>2, RoomTypes DEF SingleLine
    <3> QED BY <2>1, <2>4, <3>1
  <2>6. LinesFilled'
    BY <1>1, <2>1, <2>3, <2>5 DEF LinesFilled
  <2>7. Chained'
    BY <2>3 DEF Chained
  <2> QED BY <1>1, <2>1, <2>3, <2>6, <2>7 DEF LinesInv, FlexTypeOK
<1>3. CASE TakeItem
  BY <1>3, TakeItemKeeps
<1>4. CASE LastItem
  <2>1. /\ items' = items /\ frame' = frame /\ at' = "line" /\ at = "lines" /\ Filling /\ cursor > Len(items)
    BY <1>4 DEF LastItem, Breaking, LinesInv
  <2>2. open.count > 0 /\ cursor = Len(items) + 1
    BY <1>1, <2>1 DEF Filling
  <2>3. lines' = Close
    BY <1>4, <2>2 DEF LastItem
  <2>4. /\ lines' \in Seq(Line) /\ Chained' /\ lines' # <<>>
        /\ lines'[Len(lines')].start + lines'[Len(lines')].count = cursor
        /\ \A k \in 1 .. Len(lines') : Fits(k)'
        /\ \A k \in 1 .. Len(lines') - 1 : Overfull(k)'
    BY <2>1, <2>2, <2>3, CloseLines
  <2>5. LinesFilled'
    BY <2>1, <2>2, <2>4 DEF LinesFilled
  <2> QED BY <1>1, <2>1, <2>4, <2>5 DEF LinesInv, FlexTypeOK
<1>5. ASSUME items' = items, frame' = frame, lines' = lines, at # "lines", at' # "lines" PROVE LinesInv'
  <2>1. LinesFilled
    BY <1>5 DEF LinesInv
  <2>2. Space' = Space
    BY <1>5, RoomKept
  <2>3. ASSUME NEW s, NEW c PROVE LengthOf(s, c)' = LengthOf(s, c)
    BY <1>5, RoomKept DEF LengthOf
  <2>4. \A k : (Fits(k)' <=> Fits(k)) /\ (Overfull(k)' <=> Overfull(k))
    BY <1>5, <2>2, <2>3 DEF Fits, Overfull
  <2>5. LinesFilled'
    BY <1>5, <2>1, <2>2, <2>4 DEF LinesFilled
  <2> QED BY <1>1, <1>5, <2>5 DEF LinesInv, FlexTypeOK, Chained
<1>6. CASE BeginLine
  BY <1>5, <1>6 DEF BeginLine
<1>7. CASE Assign
  BY <1>5, <1>7 DEF Assign
<1>8. CASE Freeze
  BY <1>5, <1>8 DEF Freeze
<1>9. CASE Place
  BY <1>5, <1>9 DEF Place
<1>10. CASE UNCHANGED flexVars
  <2>1. items' = items /\ frame' = frame /\ lines' = lines /\ at' = at /\ cursor' = cursor /\ open' = open
    BY <1>10 DEF flexVars
  <2>2. CASE at # "lines"
    BY <1>5, <2>1, <2>2
  <2>3. CASE at = "lines"
    <3>1. Filling
      BY <2>3 DEF LinesInv
    <3>2. Space' = Space
      BY <2>1, RoomKept
    <3>3. ASSUME NEW s, NEW c PROVE LengthOf(s, c)' = LengthOf(s, c)
      BY <2>1, RoomKept DEF LengthOf
    <3>4. \A k : (Fits(k)' <=> Fits(k)) /\ (Overfull(k)' <=> Overfull(k))
      BY <2>1, <3>2, <3>3 DEF Fits, Overfull
    <3>5. Filling'
      BY <2>1, <3>1, <3>2, <3>3, <3>4 DEF Filling
    <3> QED BY <1>1, <2>1, <2>3, <3>5 DEF LinesInv, FlexTypeOK, Chained
  <2> QED BY <2>2, <2>3
<1> QED BY <1>2, <1>3, <1>4, <1>6, <1>7, <1>8, <1>9, <1>10 DEF FlexNext

(***************************************************************************)
(* flex_build_lines: the lines hold all children in their order, and each  *)
(* takes as many as fit, for any number of children of any size, any gap   *)
(* and any room, whether the container is given its length or hugs.        *)
(***************************************************************************)
THEOREM LinesStayGreedy == FlexSpec => []LinesAreGreedy
<1>1. LinesInv => LinesAreGreedy
  <2> SUFFICES ASSUME LinesInv, at # "lines" PROVE LinesAreGreedy
    BY DEF LinesAreGreedy
  <2>1. LinesFilled /\ Chained /\ lines \in Seq(Line)
    BY DEF LinesInv
  <2>2. frame.wrap /\ Space > 0 =>
         \A k \in 1 .. Len(lines) :
           /\ lines[k].count > 1 => LengthOf(lines[k].start, lines[k].count) <= Space
           /\ k < Len(lines) => LengthOf(lines[k].start, lines[k].count + 1) > Space
    <3> SUFFICES ASSUME frame.wrap, Space > 0, NEW k \in 1 .. Len(lines)
                 PROVE  /\ lines[k].count > 1 => LengthOf(lines[k].start, lines[k].count) <= Space
                        /\ k < Len(lines) => LengthOf(lines[k].start, lines[k].count + 1) > Space
      OBVIOUS
    <3>1. Fits(k)
      BY <2>1 DEF LinesFilled
    <3>2. k < Len(lines) => Overfull(k)
      <4>1. k < Len(lines) => k \in 1 .. Len(lines) - 1
        BY <2>1
      <4> QED BY <2>1, <4>1 DEF LinesFilled
    <3> QED BY <3>1, <3>2 DEF Fits, Overfull
  <2> QED BY <2>1, <2>2 DEF LinesAreGreedy, LinesFilled, Chained, LengthOf, OuterOf
<1> QED BY <1>1, LinesInvInit, LinesInvStep, PTL DEF FlexSpec

-----------------------------------------------------------------------------
(***************************************************************************)
(* Flex: the cross axis.                                                   *)
(***************************************************************************)

\* Among finitely many values one is the greatest.
LEMMA GreatestValue ==
  ASSUME NEW n \in Nat, NEW f, NEW S \in SUBSET (1 .. n), S # {}, \A i \in S : f[i] \in Int
  PROVE  \E i \in S : \A j \in S : f[j] <= f[i]
<1> DEFINE T == {m \in Nat : \A R \in SUBSET S : R \subseteq 1 .. m /\ R # {} =>
                               \E i \in R : \A j \in R : f[j] <= f[i]}
<1>1. 0 \in T
  <2>1. 1 .. 0 = {}
    OBVIOUS
  <2> QED BY <2>1
<1>2. ASSUME NEW m \in 0 .. n - 1, m \in T PROVE m + 1 \in T
  <2>0. m + 1 \in Nat
    OBVIOUS
  <2> SUFFICES ASSUME NEW R \in SUBSET S, R \subseteq 1 .. m + 1, R # {}
               PROVE  \E i \in R : \A j \in R : f[j] <= f[i]
    BY <2>0
  <2> DEFINE e == m + 1
             Q == R \ {e}
  <2>1. Q \in SUBSET S /\ Q \subseteq 1 .. m
    OBVIOUS
  <2>2. \A j \in R : f[j] \in Int /\ (j \in Q \/ j = e)
    OBVIOUS
  <2>3. CASE Q = {}
    <3>1. PICK i \in R : TRUE
      OBVIOUS
    <3>2. i = e /\ \A j \in R : j = e
      BY <2>2, <2>3
    <3> HIDE DEF e, Q
    <3> QED BY <2>2, <3>1, <3>2
  <2>4. CASE Q # {}
    <3>1. PICK i \in Q : \A j \in Q : f[j] <= f[i]
      BY <1>2, <2>1, <2>4
    <3>2. i \in R
      BY <3>1
    <3> HIDE DEF e, Q
    <3>3. CASE e \notin R
      BY <2>2, <3>1, <3>2, <3>3
    <3>4. CASE e \in R /\ f[e] <= f[i]
      BY <2>2, <3>1, <3>2, <3>4
    <3>5. CASE e \in R /\ ~(f[e] <= f[i])
      <4>1. \A j \in R : f[j] <= f[e]
        BY <2>2, <3>1, <3>2, <3>5
      <4> QED BY <3>5, <4>1
    <3> QED BY <3>3, <3>4, <3>5
  <2> QED BY <2>3, <2>4
<1>3. n \in T
  <2> HIDE DEF T
  <2>1. \A m \in 0 .. n : m \in T
    BY <1>1, <1>2, Counting
  <2> QED BY <2>1
<1> QED BY <1>3

\* Max of a set of integers that has a greatest member.
LEMMA MaxOf ==
  ASSUME NEW V \in SUBSET Int, \E x \in V : \A y \in V : y <= x
  PROVE  Max(V) \in V /\ \A y \in V : y <= Max(V)
<1>1. \E x \in V : \A y \in V : x >= y
  OBVIOUS
<1>2. Max(V) \in V /\ \A y \in V : Max(V) >= y
  BY <1>1 DEF Max
<1> QED BY <1>2

\* The greatest of some values, and of those and zero.
LEMMA MaxOfValues ==
  ASSUME NEW n \in Nat, NEW f, NEW S \in SUBSET (1 .. n), S # {}, \A i \in S : f[i] \in Int
  PROVE  Max({f[i] : i \in S}) \in Int /\ \A i \in S : f[i] <= Max({f[j] : j \in S})
<1> DEFINE V == {f[i] : i \in S}
<1>1. PICK i \in S : \A j \in S : f[j] <= f[i]
  BY GreatestValue
<1>2. V \in SUBSET Int /\ f[i] \in V /\ \A y \in V : y <= f[i]
  BY <1>1
<1>3. \A j \in S : f[j] \in V
  OBVIOUS
<1> HIDE DEF V
<1>4. Max(V) \in V /\ \A y \in V : y <= Max(V)
  BY <1>2, MaxOf
<1>5. Max(V) \in Int /\ \A j \in S : f[j] <= Max(V)
  BY <1>2, <1>3, <1>4
<1> QED BY <1>5 DEF V

\* The greatest of some values and zero.
LEMMA MaxWithZero ==
  ASSUME NEW n \in Nat, NEW f, NEW S \in SUBSET (1 .. n), \A i \in S : f[i] \in Int
  PROVE  /\ Max({0} \cup {f[i] : i \in S}) \in Int
         /\ \A i \in S : f[i] <= Max({0} \cup {f[j] : j \in S})
<1> DEFINE V == {0} \cup {f[i] : i \in S}
<1>1. V \in SUBSET Int /\ 0 \in V /\ \A j \in S : f[j] \in V
  OBVIOUS
<1>2. \E x \in V : \A y \in V : y <= x
  <2>1. CASE S = {}
    <3>1. \A y \in V : y = 0
      BY <2>1
    <3> HIDE DEF V
    <3> QED BY <1>1, <3>1
  <2>2. CASE S # {}
    <3>1. PICK i \in S : \A j \in S : f[j] <= f[i]
      BY <2>2, GreatestValue
    <3>2. \A y \in V : y = 0 \/ y <= f[i]
      BY <3>1
    <3>3. f[i] \in V /\ f[i] \in Int
      BY <3>1
    <3> HIDE DEF V
    <3>4. CASE f[i] >= 0
      BY <1>1, <3>2, <3>3, <3>4
    <3>5. CASE ~(f[i] >= 0)
      BY <1>1, <3>2, <3>3, <3>5
    <3> QED BY <3>4, <3>5
  <2> QED BY <2>1, <2>2
<1> HIDE DEF V
<1>3. Max(V) \in V /\ \A y \in V : y <= Max(V)
  BY <1>1, <1>2, MaxOf
<1>4. Max(V) \in Int /\ \A j \in S : f[j] <= Max(V)
  BY <1>1, <1>3
<1> QED BY <1>4 DEF V

-----------------------------------------------------------------------------
(* Baselines.                                                              *)

\* How high the child of a nested container is, as far as this pass knows.
Known(k, i) == IF pass = 1 THEN 0 ELSE rows[k][i].inner * Unit

\* A child on a baseline: its cross size has nothing to do with its line.
OwnCross(item) == AtLeastZero(Clamp(item.cross * Unit, item.min * Unit, item.max * Unit))
Own(k, i) == Baseline(rows[k][i].kind, OwnCross(rows[k][i]), Known(k, i))

\* How far down the baseline is, at least.
Edges(k) == {Lead(rows[k][i]) + Own(k, i) : i \in OnBaseline(k)}

\* There is room in line k above and below a baseline at t.
RoomAt(k, t) ==
  /\ t \in Int
  /\ \A i \in OnBaseline(k) :
       /\ Lead(rows[k][i]) + Own(k, i) <= t
       /\ t + Trail(rows[k][i]) + OwnCross(rows[k][i]) - Own(k, i) <= outer[k]

Roomy(k) == OnBaseline(k) # {} => RoomAt(k, Max(Edges(k)))

\* The children of line k stand at one height.
Upright(k) ==
  \A i, j \in OnBaseline(k) :
    placed[k][i].offset + Baseline(rows[k][i].kind, placed[k][i].cross, Known(k, i)) =
      placed[k][j].offset + Baseline(rows[k][j].kind, placed[k][j].cross, Known(k, j))

CrossTypeOK ==
  /\ Len(rows) \in Nat \ {0}
  /\ rows \in [1 .. Len(rows) -> UNION {[1 .. m -> CrossItems] : m \in 1 .. MaxPerLine}]
  /\ outer \in [1 .. Len(rows) -> Int]
  /\ placed = [k \in 1 .. Len(rows) |-> placed[k]]
  /\ inside = [k \in 1 .. Len(rows) |-> inside[k]]
  /\ box \in Boxes
  /\ pass \in Nat \ {0}
  /\ stage \in {"size", "expand", "stretch", "align", "aligned"}
  /\ stage \in {"size", "stretch"} => current = 1
  /\ stage \in {"expand", "align"} => current \in 1 .. Len(rows)

\* Line k is still to be aligned.
Ahead(k) == stage \in {"size", "expand", "stretch"} \/ (stage = "align" /\ current <= k)

BaselineInv ==
  /\ CrossTypeOK
  /\ \A k \in 1 .. Len(rows) :
       /\ Ahead(k) => \A i \in DOMAIN rows[k] : inside[k][i] = Known(k, i)
       /\ ~Ahead(k) => \A i \in DOMAIN rows[k] : inside[k][i] = rows[k][i].inner * Unit
       /\ (stage = "expand" /\ k < current) \/ stage \in {"stretch", "align"} => Roomy(k)
       /\ ~Ahead(k) => Upright(k)

\* A line is a finite list of children.
LEMMA RowIs ==
  ASSUME CrossTypeOK, NEW k \in 1 .. Len(rows)
  PROVE  \E m \in Nat : /\ DOMAIN rows[k] = 1 .. m
                        /\ \A i \in 1 .. m : rows[k][i] \in CrossItems
                        /\ OnBaseline(k) \in SUBSET (1 .. m)
<1>1. rows[k] \in UNION {[1 .. m -> CrossItems] : m \in 1 .. MaxPerLine}
  BY DEF CrossTypeOK
<1>2. PICK m \in 1 .. MaxPerLine : rows[k] \in [1 .. m -> CrossItems]
  BY <1>1
<1>3. m \in Nat
  BY CrossAssumption
<1>4. DOMAIN rows[k] = 1 .. m /\ \A i \in 1 .. m : rows[k][i] \in CrossItems
  BY <1>2
<1>5. OnBaseline(k) \in SUBSET (1 .. m)
  BY <1>4 DEF OnBaseline
<1> QED BY <1>3, <1>4, <1>5

\* The lengths of a child.
ItemLengths(k, i) ==
  LET item == rows[k][i]
  IN /\ item.align \in Aligns
     /\ Lead(item) \in Nat /\ Trail(item) \in Nat /\ CrossOuter(item) \in Int
     /\ OwnCross(item) \in Int /\ Own(k, i) \in Int
     /\ item.inner * Unit \in Int

\* They are numbers.
LEMMA ItemLengthsOK ==
  ASSUME CrossTypeOK, NEW k \in 1 .. Len(rows), NEW i \in DOMAIN rows[k]
  PROVE  ItemLengths(k, i)
<1> DEFINE item == rows[k][i]
           c == item.cross * Unit
           l == item.min * Unit
           h == item.max * Unit
           a == item.lead * Unit
           b == item.trail * Unit
           w == item.inner * Unit
<1>1. item \in [cross : Nat, min : Nat, max : Nat, lead : Nat, trail : Nat,
                align : Aligns, auto : BOOLEAN, kind : Kinds, inner : Nat]
  BY RowIs, CrossAssumption
<1>2. Unit \in Nat
  BY UnitAssumption
<1>3. c \in Nat /\ l \in Nat /\ h \in Nat /\ a \in Nat /\ b \in Nat /\ w \in Nat /\ item.align \in Aligns
  <2> HIDE DEF item
  <2>1. /\ item.cross \in Nat /\ item.min \in Nat /\ item.max \in Nat /\ item.lead \in Nat
        /\ item.trail \in Nat /\ item.inner \in Nat /\ item.align \in Aligns
    BY <1>1
  <2>2. \A x \in Nat : x * Unit \in Nat
    BY <1>2
  <2> QED BY <2>1, <2>2
<1>4. Lead(item) = a /\ Trail(item) = b /\ CrossOuter(item) = c + a + b
  BY DEF Lead, Trail, CrossOuter
<1>5. OwnCross(item) = AtLeastZero(Clamp(c, l, h))
  BY DEF OwnCross
<1>6. OwnCross(item) \in Int
  <2> HIDE DEF c, l, h, item
  <2> QED BY <1>3, <1>5 DEF AtLeastZero, Clamp
<1>7. Known(k, i) \in Int
  BY <1>3 DEF Known
<1> DEFINE x == OwnCross(item)
           y == Known(k, i)
<1>8. Own(k, i) = Baseline(item.kind, x, y)
  BY DEF Own
<1>9. Own(k, i) \in Int
  <2>1. x \in Int /\ y \in Int
    BY <1>6, <1>7
  <2> HIDE DEF x, y, item
  <2>2. (4 * x) \div 5 \in Int
    BY <2>1
  <2> QED BY <1>8, <2>1, <2>2 DEF Baseline
<1>10. CrossOuter(item) \in Int
  <2> HIDE DEF a, b, c, item
  <2> QED BY <1>3, <1>4
<1> HIDE DEF a, b, c, x, y, l, h
<1> QED BY <1>3, <1>4, <1>6, <1>9, <1>10 DEF ItemLengths

\* What a line that is not aligned yet finds its baseline to be.
LEMMA TargetIs ==
  ASSUME BaselineInv, NEW k \in 1 .. Len(rows), Ahead(k)
  PROVE  /\ \A i \in OnBaseline(k) : BaselineOf(k, i) = Own(k, i)
         /\ \A i \in OnBaseline(k) : FinalCross(rows[k][i], outer[k]) = OwnCross(rows[k][i])
         /\ Target(k) = Max(Edges(k))
<1>1. ASSUME NEW i \in OnBaseline(k)
      PROVE  FinalCross(rows[k][i], outer[k]) = OwnCross(rows[k][i]) /\ BaselineOf(k, i) = Own(k, i)
  <2>1. i \in DOMAIN rows[k] /\ rows[k][i].align = "baseline"
    BY DEF OnBaseline
  <2>2. inside[k][i] = Known(k, i)
    BY <2>1 DEF BaselineInv
  <2>3. FinalCross(rows[k][i], outer[k]) = OwnCross(rows[k][i])
    BY <2>1 DEF FinalCross, OwnCross
  <2> QED BY <2>2, <2>3 DEF BaselineOf, Own
<1>2. Target(k) = Max({Lead(rows[k][i]) + BaselineOf(k, i) : i \in OnBaseline(k)})
  BY DEF Target
<1>3. {Lead(rows[k][i]) + BaselineOf(k, i) : i \in OnBaseline(k)} = Edges(k)
  BY <1>1 DEF Edges
<1> QED BY <1>1, <1>2, <1>3

\* The baseline of a line is as low as the lowest of its children.
LEMMA EdgesEnd ==
  ASSUME CrossTypeOK, NEW k \in 1 .. Len(rows), OnBaseline(k) # {}
  PROVE  /\ Max(Edges(k)) \in Int
         /\ \A i \in OnBaseline(k) : Lead(rows[k][i]) + Own(k, i) <= Max(Edges(k))
<1>1. PICK m \in Nat : DOMAIN rows[k] = 1 .. m /\ OnBaseline(k) \in SUBSET (1 .. m)
  BY RowIs
<1> DEFINE S == OnBaseline(k)
           f == [i \in S |-> Lead(rows[k][i]) + Own(k, i)]
<1>2. ASSUME NEW i \in S PROVE f[i] = Lead(rows[k][i]) + Own(k, i) /\ f[i] \in Int
  <2>1. ItemLengths(k, i)
    BY <1>1, ItemLengthsOK
  <2> QED BY <2>1 DEF ItemLengths
<1>3. Edges(k) = {f[i] : i \in S}
  BY DEF Edges
<1> HIDE DEF S, f
<1>4. Max({f[i] : i \in S}) \in Int /\ \A i \in S : f[i] <= Max({f[j] : j \in S})
  BY <1>1, <1>2, MaxOfValues DEF S
<1>5. \A i \in S : Lead(rows[k][i]) + Own(k, i) <= Max(Edges(k))
  BY <1>2, <1>3, <1>4
<1> QED BY <1>3, <1>4, <1>5 DEF S

\* No child reaches further below the baseline than the line takes into account.
LEMMA DescentEnds ==
  ASSUME BaselineInv, NEW k \in 1 .. Len(rows), Ahead(k)
  PROVE  /\ Descent(k) \in Int
         /\ \A i \in OnBaseline(k) :
              Trail(rows[k][i]) + OwnCross(rows[k][i]) - Own(k, i) <= Descent(k)
<1>0. CrossTypeOK
  BY DEF BaselineInv
<1>1. PICK m \in Nat : DOMAIN rows[k] = 1 .. m /\ OnBaseline(k) \in SUBSET (1 .. m)
  BY <1>0, RowIs
<1> DEFINE S == OnBaseline(k)
           f == [i \in S |-> Trail(rows[k][i]) + OwnCross(rows[k][i]) - Own(k, i)]
<1>2. ASSUME NEW i \in S
      PROVE  f[i] = Trail(rows[k][i]) + OwnCross(rows[k][i]) - Own(k, i) /\ f[i] \in Int
  <2>1. ItemLengths(k, i)
    BY <1>0, <1>1, ItemLengthsOK
  <2> QED BY <2>1 DEF ItemLengths
<1>3. Descent(k) = Max({0} \cup {f[i] : i \in S})
  <2>1. Descent(k) = Max({0} \cup {Trail(rows[k][i]) + FinalCross(rows[k][i], outer[k]) - BaselineOf(k, i) : i \in S})
    BY DEF Descent
  <2>2. \A i \in S : Trail(rows[k][i]) + FinalCross(rows[k][i], outer[k]) - BaselineOf(k, i) = f[i]
    <3>1. \A i \in S : BaselineOf(k, i) = Own(k, i) /\ FinalCross(rows[k][i], outer[k]) = OwnCross(rows[k][i])
      BY TargetIs
    <3> HIDE DEF f, S
    <3> QED BY <1>2, <3>1
  <2> HIDE DEF f, S
  <2>3. {Trail(rows[k][i]) + FinalCross(rows[k][i], outer[k]) - BaselineOf(k, i) : i \in S} = {f[i] : i \in S}
    BY <2>2
  <2> QED BY <2>1, <2>3
<1> HIDE DEF S, f
<1>4. Max({0} \cup {f[i] : i \in S}) \in Int /\ \A i \in S : f[i] <= Max({0} \cup {f[j] : j \in S})
  BY <1>1, <1>2, MaxWithZero DEF S
<1>5. \A i \in S : Trail(rows[k][i]) + OwnCross(rows[k][i]) - Own(k, i) <= Descent(k)
  BY <1>2, <1>3, <1>4
<1> QED BY <1>3, <1>4, <1>5 DEF S

\* The heights of the lines and the gaps add up to CrossTotal.
LEMMA TotalAdds ==
  ASSUME CrossTypeOK, NEW sum, Adds(sum, outer, Len(rows))
  PROVE  CrossTotal = sum[1 .. Len(rows)] + LineGap * (Len(rows) - 1)
<1> DEFINE n == Len(rows)
           S == 1 .. n
           f == [k \in S |-> outer[k]]
<1>1. n \in Nat /\ f \in [S -> Int] /\ DOMAIN rows = S /\ outer = f
  BY DEF CrossTypeOK
<1>2. Adds(sum, f, n)
  BY <1>1
<1> DEFINE Step(g, s) ==
             IF s = {} THEN 0 ELSE outer[CHOOSE x \in s : TRUE] + g[s \ {CHOOSE x \in s : TRUE}]
           iter == CHOOSE g : g = [s \in SUBSET S |-> Step(g, s)]
           total == MapThenSumSet(LAMBDA k : outer[k], S)
<1>3. total = iter[S]
  BY DEF MapThenSumSet, MapThenFoldSet
<1>4. \A s \in SUBSET S : s # {} => (CHOOSE x \in s : TRUE) \in s /\ f[CHOOSE x \in s : TRUE] = outer[CHOOSE x \in s : TRUE]
  OBVIOUS
<1> DEFINE g == [s \in SUBSET S |-> sum[s]]
<1>5. \A s \in SUBSET S : g[s] = Step(g, s)
  <2> SUFFICES ASSUME NEW s \in SUBSET S PROVE g[s] = Step(g, s)
    OBVIOUS
  <2>1. CASE s = {}
    BY <1>2, <2>1 DEF Adds
  <2>2. CASE s # {}
    <3> DEFINE c == CHOOSE x \in s : TRUE
    <3>1. c \in s /\ f[c] = outer[c]
      BY <1>4, <2>2
    <3> HIDE DEF c
    <3>2. sum[s] = f[c] + sum[s \ {c}]
      BY <1>2, <3>1 DEF Adds
    <3>3. g[s] = outer[c] + g[s \ {c}]
      BY <3>1, <3>2
    <3> HIDE DEF g
    <3> QED BY <2>2, <3>3 DEF c
  <2> QED BY <2>1, <2>2
<1>6. g = [s \in SUBSET S |-> Step(g, s)]
  <2>1. g = [s \in SUBSET S |-> g[s]]
    OBVIOUS
  <2> HIDE DEF g, Step
  <2> QED BY <1>5, <2>1
<1>7. iter = [s \in SUBSET S |-> Step(iter, s)]
  <2> HIDE DEF Step, g
  <2> QED BY <1>6
<1>8. FoldsUp(iter, f, S)
  <2>1. \A s \in SUBSET S : Step(iter, s) =
          IF s = {} THEN 0 ELSE f[CHOOSE x \in s : TRUE] + iter[s \ {CHOOSE x \in s : TRUE}]
    <3> SUFFICES ASSUME NEW s \in SUBSET S
                 PROVE  Step(iter, s) =
                          IF s = {} THEN 0 ELSE f[CHOOSE x \in s : TRUE] + iter[s \ {CHOOSE x \in s : TRUE}]
      OBVIOUS
    <3>1. CASE s = {}
      BY <3>1
    <3>2. CASE s # {}
      <4> DEFINE c == CHOOSE x \in s : TRUE
      <4>1. f[c] = outer[c]
        BY <1>4, <3>2
      <4> HIDE DEF iter, f, c
      <4>2. outer[c] + iter[s \ {c}] = f[c] + iter[s \ {c}]
        BY <4>1
      <4> QED BY <3>2, <4>2 DEF c
    <3> QED BY <3>1, <3>2
  <2> HIDE DEF iter, Step, f
  <2> QED BY <1>7, <2>1 DEF FoldsUp
<1>9. iter[S] = sum[S]
  <2>1. S \in SUBSET (1 .. n)
    OBVIOUS
  <2>2. n \in Nat /\ f \in [1 .. n -> Int]
    BY <1>1
  <2> HIDE DEF iter, f, n, S
  <2> QED BY <1>2, <1>8, <2>1, <2>2, FoldsAdd
<1> QED BY <1>1, <1>3, <1>9 DEF CrossTotal

\* So that is a number.
LEMMA TotalIsNumber == ASSUME CrossTypeOK PROVE CrossTotal \in Int
<1>1. PICK n \in Nat \ {0} : n = Len(rows)
  BY DEF CrossTypeOK
<1>2. outer \in [1 .. n -> Int]
  BY <1>1 DEF CrossTypeOK
<1>3. PICK sum : Adds(sum, outer, n)
  BY <1>2, SumsExist
<1>4. CrossTotal = sum[1 .. n] + LineGap * (n - 1)
  BY <1>1, <1>3, TotalAdds
<1>5. sum[1 .. n] \in Int
  <2>1. 1 .. n \in SUBSET (1 .. n)
    OBVIOUS
  <2> QED BY <1>3, <2>1 DEF Adds
<1>6. PICK gap \in Int : gap = LineGap
  BY CrossAssumption, UnitAssumption DEF LineGap, CrossTypeOK, Boxes
<1>7. gap * (n - 1) \in Int
  OBVIOUS
<1> QED BY <1>4, <1>5, <1>6, <1>7

-----------------------------------------------------------------------------
(* Every step.                                                             *)

\* Rows, pass and box stay what they are for these.
LEMMA LinesKept ==
  ASSUME rows' = rows, pass' = pass, box' = box
  PROVE  /\ \A k : OnBaseline(k)' = OnBaseline(k) /\ Edges(k)' = Edges(k)
         /\ \A k, i : Own(k, i)' = Own(k, i) /\ Known(k, i)' = Known(k, i)
<1>1. \A k : OnBaseline(k)' = OnBaseline(k)
  BY DEF OnBaseline
<1>2. \A k, i : Known(k, i)' = Known(k, i)
  BY DEF Known
<1>3. \A k, i : Own(k, i)' = Own(k, i)
  BY <1>2 DEF Own
<1>4. ASSUME NEW k PROVE Edges(k)' = Edges(k)
  BY <1>1, <1>3 DEF Edges
<1> QED BY <1>1, <1>2, <1>3, <1>4

\* A line that becomes no lower keeps its room.
LEMMA RoomyStays ==
  ASSUME CrossTypeOK, rows' = rows, pass' = pass, box' = box,
         NEW k \in 1 .. Len(rows), outer'[k] \in Int, outer[k] <= outer'[k], Roomy(k)
  PROVE  Roomy(k)'
<1>1. /\ OnBaseline(k)' = OnBaseline(k) /\ Edges(k)' = Edges(k)
      /\ \A i : Own(k, i)' = Own(k, i)
  BY LinesKept
<1> SUFFICES ASSUME OnBaseline(k) # {} PROVE RoomAt(k, Max(Edges(k)))'
  BY <1>1 DEF Roomy
<1>2. PICK t \in Int : t = Max(Edges(k))
  BY DEF Roomy, RoomAt
<1>3. RoomAt(k, t)
  BY <1>2 DEF Roomy
<1>4. RoomAt(k, t)'
  <2> SUFFICES ASSUME NEW i \in OnBaseline(k)
               PROVE  /\ Lead(rows[k][i]) + Own(k, i) <= t
                      /\ t + Trail(rows[k][i]) + OwnCross(rows[k][i]) - Own(k, i) <= outer'[k]
    BY <1>1 DEF RoomAt, Lead, Trail, OwnCross
  <2> DEFINE x == t + Trail(rows[k][i]) + OwnCross(rows[k][i]) - Own(k, i)
  <2>1. x <= outer[k] /\ Lead(rows[k][i]) + Own(k, i) <= t
    BY <1>3 DEF RoomAt
  <2>2. x \in Int /\ outer[k] \in Int
    <3>1. i \in DOMAIN rows[k]
      BY DEF OnBaseline
    <3>2. ItemLengths(k, i)
      BY <3>1, ItemLengthsOK
    <3> QED BY <3>2 DEF ItemLengths, CrossTypeOK
  <2> HIDE DEF x
  <2>3. x <= outer'[k]
    BY <2>1, <2>2
  <2> QED BY <2>1, <2>3 DEF x
<1>5. t = Max(Edges(k))'
  BY <1>1, <1>2 DEF Max
<1> QED BY <1>4, <1>5

\* No line has a height, and nothing is known of nested containers.
LEMMA BaselineInvInit == CrossInit => BaselineInv
<1> SUFFICES ASSUME CrossInit PROVE BaselineInv
  OBVIOUS
<1>1. PICK n \in 1 .. (IF box.wrap THEN MaxLines ELSE 1) :
        rows \in [1 .. n -> UNION {[1 .. m -> CrossItems] : m \in 1 .. MaxPerLine}]
  BY DEF CrossInit
<1>2. n \in Nat \ {0}
  BY <1>1, CrossAssumption
<1>3. Len(rows) = n /\ DOMAIN rows = 1 .. n
  <2>1. rows \in Seq(UNION {[1 .. m -> CrossItems] : m \in 1 .. MaxPerLine})
    BY <1>1, <1>2
  <2> QED BY <1>1, <1>2, <2>1
<1>4. CrossTypeOK
  <2>1. /\ outer = [k \in 1 .. n |-> 0] /\ placed = [k \in 1 .. n |-> <<>>]
        /\ inside = [k \in 1 .. n |-> [i \in DOMAIN rows[k] |-> 0]]
        /\ box \in Boxes /\ pass = 1 /\ stage = "size" /\ current = 1
    BY <1>3 DEF CrossInit
  <2>2. outer \in [1 .. n -> Int]
    BY <2>1
  <2>3. placed = [k \in 1 .. n |-> placed[k]] /\ inside = [k \in 1 .. n |-> inside[k]]
    BY <2>1
  <2>4. rows \in [1 .. n -> UNION {[1 .. m -> CrossItems] : m \in 1 .. MaxPerLine}]
    BY <1>1
  <2> QED BY <1>2, <1>3, <2>1, <2>2, <2>3, <2>4 DEF CrossTypeOK
<1>5. ASSUME NEW k \in 1 .. Len(rows) PROVE Ahead(k) /\ \A i \in DOMAIN rows[k] : inside[k][i] = Known(k, i)
  BY <1>3, <1>5 DEF CrossInit, Ahead, Known
<1> QED BY <1>4, <1>5 DEF BaselineInv, CrossInit

\* The lines get their heights.
LEMMA SizeLinesKeeps == ASSUME BaselineInv, SizeLines PROVE BaselineInv'
<1>1. /\ rows' = rows /\ pass' = pass /\ box' = box /\ placed' = placed /\ inside' = inside
      /\ stage = "size" /\ stage' = "expand" /\ current' = 1 /\ CrossTypeOK
  BY DEF SizeLines, BaselineInv, CrossTypeOK
<1>2. DOMAIN rows = 1 .. Len(rows) /\ Len(rows) \in Nat \ {0}
  BY <1>1 DEF CrossTypeOK
<1>3. ASSUME NEW k \in 1 .. Len(rows)
      PROVE  (IF box.wrap THEN Max({0} \cup {CrossOuter(rows[k][i]) : i \in DOMAIN rows[k]}) ELSE CrossSpace) \in Int
  <2>1. PICK m \in Nat : DOMAIN rows[k] = 1 .. m
    BY <1>1, RowIs
  <2> DEFINE S == 1 .. m
             f == [i \in S |-> CrossOuter(rows[k][i])]
  <2>2. ASSUME NEW i \in S PROVE f[i] = CrossOuter(rows[k][i]) /\ f[i] \in Int
    <3>1. ItemLengths(k, i)
      BY <1>1, <2>1, ItemLengthsOK
    <3> QED BY <3>1 DEF ItemLengths
  <2>3. {CrossOuter(rows[k][i]) : i \in DOMAIN rows[k]} = {f[i] : i \in S}
    BY <2>1
  <2> HIDE DEF f
  <2>4. Max({0} \cup {f[i] : i \in S}) \in Int
    BY <2>2, MaxWithZero
  <2>5. CrossSpace \in Int
    BY <1>1, CrossAssumption, UnitAssumption DEF CrossTypeOK, Boxes, CrossSpace
  <2> QED BY <2>3, <2>4, <2>5
<1>4. outer' \in [1 .. Len(rows) -> Int]
  <2>1. outer' = [k \in 1 .. Len(rows) |->
                   IF box.wrap THEN Max({0} \cup {CrossOuter(rows[k][i]) : i \in DOMAIN rows[k]}) ELSE CrossSpace]
    BY <1>2 DEF SizeLines
  <2> QED BY <1>3, <2>1
<1>5. CrossTypeOK'
  BY <1>1, <1>2, <1>4 DEF CrossTypeOK
<1>6. ASSUME NEW k \in 1 .. Len(rows)
      PROVE  Ahead(k)' /\ ~(k < current') /\ \A i \in DOMAIN rows'[k] : inside'[k][i] = Known(k, i)'
  <2>1. Ahead(k) /\ Ahead(k)'
    BY <1>1 DEF Ahead
  <2>2. \A i \in DOMAIN rows[k] : inside[k][i] = Known(k, i)
    BY <2>1 DEF BaselineInv
  <2>3. \A i : Known(k, i)' = Known(k, i)
    BY <1>1, LinesKept
  <2> QED BY <1>1, <2>1, <2>2, <2>3
<1> QED BY <1>1, <1>5, <1>6 DEF BaselineInv

\* The line that is worked on is one of them.
LEMMA AtLine ==
  ASSUME CrossTypeOK, stage \in {"expand", "align"}
  PROVE  \E n \in Nat \ {0} : \E c \in 1 .. n : n = Len(rows) /\ c = current
<1>1. PICK n \in Nat \ {0} : n = Len(rows)
  BY DEF CrossTypeOK
<1>2. current \in 1 .. n
  BY <1>1 DEF CrossTypeOK
<1> QED BY <1>1, <1>2

\* A line is made high enough for its baseline.
LEMMA ExpandLineKeeps == ASSUME BaselineInv, ExpandLine PROVE BaselineInv'
<1>1. /\ rows' = rows /\ pass' = pass /\ box' = box /\ placed' = placed /\ inside' = inside
      /\ stage = "expand" /\ CrossTypeOK
  BY DEF ExpandLine, BaselineInv
<1>0. PICK n \in Nat \ {0} : \E c \in 1 .. n : n = Len(rows) /\ c = current
  BY <1>1, AtLine
<1>2. PICK c \in 1 .. n : n = Len(rows) /\ c = current
  BY <1>0
<1>3. /\ current' = IF c = n THEN 1 ELSE c + 1
      /\ stage' = IF c = n THEN "stretch" ELSE "expand"
  BY <1>2 DEF ExpandLine
<1>4. outer \in [1 .. n -> Int]
  BY <1>1, <1>2 DEF CrossTypeOK
<1>5. \A k \in 1 .. n : Ahead(k) /\ Ahead(k)'
  BY <1>1, <1>3 DEF Ahead
<1>6. /\ outer' \in [1 .. n -> Int] /\ \A k \in 1 .. n : outer[k] <= outer'[k]
      /\ OnBaseline(c) # {} => Required(c) <= outer'[c]
  <2>1. OnBaseline(c) # {} => Required(c) \in Int
    <3> SUFFICES ASSUME OnBaseline(c) # {} PROVE Required(c) \in Int
      OBVIOUS
    <3>1. Target(c) \in Int
      BY <1>1, <1>2, <1>5, TargetIs, EdgesEnd
    <3>2. Descent(c) \in Int
      BY <1>2, <1>5, DescentEnds
    <3> QED BY <3>1, <3>2 DEF Required
  <2>2. CASE OnBaseline(c) # {} /\ Required(c) > outer[c]
    <3>1. outer' = [outer EXCEPT ![c] = Required(c)]
      BY <1>2, <2>2 DEF ExpandLine
    <3> DEFINE r == Required(c)
    <3>2. r \in Int /\ outer[c] <= r /\ outer'[c] = r /\ \A k \in 1 .. n : k # c => outer'[k] = outer[k]
      BY <1>4, <2>1, <2>2, <3>1
    <3> HIDE DEF r
    <3>3. outer' \in [1 .. n -> Int]
      BY <1>4, <3>1, <3>2 DEF r
    <3>4. \A k \in 1 .. n : outer[k] <= outer'[k]
      BY <1>4, <3>2
    <3>5. r <= outer'[c]
      BY <3>2
    <3> QED BY <3>3, <3>4, <3>5 DEF r
  <2>3. CASE ~(OnBaseline(c) # {} /\ Required(c) > outer[c])
    <3>1. outer' = outer
      BY <1>2, <2>3 DEF ExpandLine
    <3>2. \A k \in 1 .. n : outer[k] <= outer[k]
      BY <1>4
    <3>3. outer[c] \in Int
      BY <1>4
    <3> QED BY <1>4, <2>1, <2>3, <3>1, <3>2, <3>3
  <2> QED BY <2>2, <2>3
<1>7. CrossTypeOK'
  <2>1. current' \in Nat /\ (stage' = "stretch" => current' = 1) /\ (stage' = "expand" => current' \in 1 .. n)
    BY <1>2, <1>3
  <2>2. stage' \in {"stretch", "expand"}
    BY <1>3
  <2> QED BY <1>1, <1>2, <1>6, <2>1, <2>2 DEF CrossTypeOK
<1>8. Roomy(c)'
  <2>1. /\ OnBaseline(c)' = OnBaseline(c) /\ Edges(c)' = Edges(c)
        /\ \A i : Own(c, i)' = Own(c, i)
    BY <1>1, LinesKept
  <2> SUFFICES ASSUME OnBaseline(c) # {} PROVE RoomAt(c, Max(Edges(c)))'
    BY <2>1 DEF Roomy
  <2>2. PICK t \in Int : t = Max(Edges(c))
    BY <1>1, <1>2, EdgesEnd
  <2>3. RoomAt(c, t)'
    <3> SUFFICES ASSUME NEW i \in OnBaseline(c)
                 PROVE  /\ Lead(rows[c][i]) + Own(c, i) <= t
                        /\ t + Trail(rows[c][i]) + OwnCross(rows[c][i]) - Own(c, i) <= outer'[c]
      BY <1>1, <2>1 DEF RoomAt, Lead, Trail, OwnCross
    <3>1. Lead(rows[c][i]) + Own(c, i) <= t
      BY <1>1, <1>2, <2>2, EdgesEnd
    <3> DEFINE below == Trail(rows[c][i]) + OwnCross(rows[c][i]) - Own(c, i)
    <3>2. below <= Descent(c) /\ Descent(c) \in Int
      BY <1>2, <1>5, DescentEnds
    <3>3. Required(c) = t + Descent(c) /\ Required(c) <= outer'[c] /\ outer'[c] \in Int
      <4>1. Target(c) = t
        BY <1>2, <1>5, <2>2, TargetIs
      <4> QED BY <1>6, <4>1 DEF Required
    <3>4. Trail(rows[c][i]) \in Int /\ OwnCross(rows[c][i]) \in Int /\ Own(c, i) \in Int
      <4>1. ItemLengths(c, i)
        BY <1>1, <1>2, ItemLengthsOK DEF OnBaseline
      <4> QED BY <4>1 DEF ItemLengths
    <3>5. below \in Int /\ t + Trail(rows[c][i]) + OwnCross(rows[c][i]) - Own(c, i) = t + below
      BY <3>4
    <3> HIDE DEF below
    <3>6. t + below <= outer'[c]
      BY <3>2, <3>3, <3>5
    <3> QED BY <3>1, <3>5, <3>6
  <2>4. t = Max(Edges(c))'
    BY <2>1, <2>2 DEF Max
  <2> QED BY <2>3, <2>4
<1>9. ASSUME NEW k \in 1 .. n, (stage' = "expand" /\ k < current') \/ stage' \in {"stretch", "align"}
      PROVE  Roomy(k)'
  <2>1. k = c \/ k < c
    BY <1>2, <1>3, <1>9
  <2>2. CASE k < c
    <3>1. Roomy(k)
      BY <1>1, <1>2, <2>2 DEF BaselineInv
    <3> QED BY <1>1, <1>2, <1>6, <3>1, RoomyStays
  <2> QED BY <1>8, <2>1, <2>2
<1>10. ASSUME NEW k \in 1 .. n PROVE \A i \in DOMAIN rows'[k] : inside'[k][i] = Known(k, i)'
  <2>1. \A i \in DOMAIN rows[k] : inside[k][i] = Known(k, i)
    BY <1>2, <1>5 DEF BaselineInv
  <2>2. \A i : Known(k, i)' = Known(k, i)
    BY <1>1, LinesKept
  <2> QED BY <1>1, <2>1, <2>2
<1> QED BY <1>1, <1>2, <1>5, <1>7, <1>9, <1>10 DEF BaselineInv

\* The lines share what is left over, which makes none lower.
LEMMA StretchLinesKeeps == ASSUME BaselineInv, StretchLines PROVE BaselineInv'
<1>1. /\ rows' = rows /\ pass' = pass /\ box' = box /\ placed' = placed /\ inside' = inside
      /\ stage = "stretch" /\ stage' = "align" /\ current' = current /\ CrossTypeOK
  BY DEF StretchLines, BaselineInv
<1>2. PICK n \in Nat \ {0} : n = Len(rows)
  BY <1>1 DEF CrossTypeOK
<1>3. outer \in [1 .. n -> Int] /\ DOMAIN rows = 1 .. n /\ current = 1
  BY <1>1, <1>2 DEF CrossTypeOK
<1> DEFINE left == AtLeastZero(CrossSpace - CrossTotal)
           more == left \div n
<1>4. left \in Int /\ left >= 0
  <2>1. CrossSpace \in Int
    BY <1>1, CrossAssumption, UnitAssumption DEF CrossTypeOK, Boxes, CrossSpace
  <2>2. CrossTotal \in Int
    BY <1>1, TotalIsNumber
  <2> DEFINE d == CrossSpace - CrossTotal
  <2>3. d \in Int
    BY <2>1, <2>2
  <2> HIDE DEF d
  <2>4. AtLeastZero(d) \in Int /\ AtLeastZero(d) >= 0
    BY <2>3 DEF AtLeastZero
  <2> QED BY <2>4 DEF d
<1>5. more \in Int /\ more >= 0
  <2> HIDE DEF left
  <2>1. more \in Int /\ left % n \in 0 .. n - 1 /\ left = n * more + (left % n)
    BY <1>2, <1>4, DivMod
  <2> HIDE DEF more
  <2>2. more <= -1 => n * more <= -n
    BY <1>2, <2>1, MultiplesApart
  <2> QED BY <1>2, <1>4, <2>1, <2>2
<1>6. outer' = [k \in 1 .. n |-> outer[k] + more] \/ outer' = outer
  BY <1>2, <1>3 DEF StretchLines
<1> HIDE DEF left, more
<1>7. outer' \in [1 .. n -> Int] /\ \A k \in 1 .. n : outer[k] <= outer'[k]
  BY <1>3, <1>5, <1>6
<1>8. CrossTypeOK'
  BY <1>1, <1>2, <1>3, <1>7 DEF CrossTypeOK
<1>9. ASSUME NEW k \in 1 .. n
      PROVE  Ahead(k)' /\ Roomy(k)' /\ \A i \in DOMAIN rows'[k] : inside'[k][i] = Known(k, i)'
  <2>1. Ahead(k) /\ Ahead(k)'
    BY <1>1, <1>3 DEF Ahead
  <2>2. Roomy(k) /\ \A i \in DOMAIN rows[k] : inside[k][i] = Known(k, i)
    BY <1>1, <1>2, <2>1 DEF BaselineInv
  <2>3. Roomy(k)'
    BY <1>1, <1>2, <1>7, <2>2, RoomyStays
  <2>4. \A i : Known(k, i)' = Known(k, i)
    BY <1>1, LinesKept
  <2> QED BY <1>1, <2>1, <2>2, <2>3, <2>4
<1> QED BY <1>1, <1>2, <1>8, <1>9 DEF BaselineInv

\* A child on the baseline ends up on it.
LEMMA OffsetIs ==
  ASSUME BaselineInv, NEW k \in 1 .. Len(rows), Ahead(k), Roomy(k), NEW i \in OnBaseline(k)
  PROVE  CrossOffset(k, i) + Own(k, i) = Max(Edges(k))
<1>1. CrossTypeOK /\ i \in DOMAIN rows[k] /\ rows[k][i].align = "baseline"
  BY DEF BaselineInv, OnBaseline
<1>2. ItemLengths(k, i)
  BY <1>1, ItemLengthsOK
<1>3. BaselineOf(k, i) = Own(k, i) /\ FinalCross(rows[k][i], outer[k]) = OwnCross(rows[k][i]) /\ Target(k) = Max(Edges(k))
  BY TargetIs
<1> DEFINE t == Max(Edges(k))
           l == Lead(rows[k][i])
           b == Own(k, i)
           x == OwnCross(rows[k][i])
           r == Trail(rows[k][i])
           o == outer[k]
<1>4. t \in Int /\ l \in Int /\ b \in Int /\ x \in Int /\ r \in Int /\ o \in Int
  <2>1. t \in Int
    BY DEF Roomy, RoomAt
  <2> QED BY <1>1, <1>2, <2>1 DEF ItemLengths, CrossTypeOK
<1>5. l + b <= t /\ t + r + x - b <= o
  <2>1. RoomAt(k, t)
    BY DEF Roomy
  <2> QED BY <2>1 DEF RoomAt
<1>6. CrossOffset(k, i) = Clamp(t - b, l, l + AtLeastZero(o - x - l - r))
  <2>1. CrossOffset(k, i) =
          Clamp(Target(k) - BaselineOf(k, i), Lead(rows[k][i]),
                Lead(rows[k][i]) + AtLeastZero(outer[k] - FinalCross(rows[k][i], outer[k])
                                                 - Lead(rows[k][i]) - Trail(rows[k][i])))
    BY <1>1 DEF CrossOffset
  <2> QED BY <1>3, <2>1
<1> HIDE DEF t, l, b, x, r, o
<1>7. Clamp(t - b, l, l + AtLeastZero(o - x - l - r)) = t - b
  <2>1. ~(t - b < l)
    BY <1>4, <1>5
  <2>2. o - x - l - r \in Int /\ o - x - l - r >= 0 /\ t - b <= l + (o - x - l - r)
    BY <1>4, <1>5
  <2>3. AtLeastZero(o - x - l - r) = o - x - l - r
    BY <2>2 DEF AtLeastZero
  <2> QED BY <1>4, <2>1, <2>2, <2>3 DEF Clamp
<1>8. (t - b) + b = t
  BY <1>4
<1> QED BY <1>6, <1>7, <1>8 DEF t, b

\* A line is aligned, and its nested containers are laid out.
LEMMA AlignLineKeeps == ASSUME BaselineInv, AlignLine PROVE BaselineInv'
<1>1. /\ rows' = rows /\ pass' = pass /\ box' = box /\ outer' = outer
      /\ stage = "align" /\ CrossTypeOK
  BY DEF AlignLine, BaselineInv
<1>0. PICK n \in Nat \ {0} : \E c \in 1 .. n : n = Len(rows) /\ c = current
  BY <1>1, AtLine
<1>2. PICK c \in 1 .. n : n = Len(rows) /\ c = current
  BY <1>0
<1>3. /\ current' = c + 1 /\ stage' = IF c = n THEN "aligned" ELSE "align"
      /\ placed' = [placed EXCEPT ![c] = [i \in DOMAIN rows[c] |->
                       [cross |-> FinalCross(rows[c][i], outer[c]), offset |-> CrossOffset(c, i)]]]
      /\ inside' = [inside EXCEPT ![c] = [i \in DOMAIN rows[c] |-> rows[c][i].inner * Unit]]
  BY <1>2 DEF AlignLine
<1>4. placed = [k \in 1 .. n |-> placed[k]] /\ inside = [k \in 1 .. n |-> inside[k]]
  BY <1>1, <1>2 DEF CrossTypeOK
<1>5. /\ placed' = [k \in 1 .. n |-> placed'[k]] /\ inside' = [k \in 1 .. n |-> inside'[k]]
      /\ \A k \in 1 .. n : k # c => placed'[k] = placed[k] /\ inside'[k] = inside[k]
      /\ \A i \in DOMAIN rows[c] :
           /\ placed'[c][i] = [cross |-> FinalCross(rows[c][i], outer[c]), offset |-> CrossOffset(c, i)]
           /\ inside'[c][i] = rows[c][i].inner * Unit
  BY <1>3, <1>4
<1>6. CrossTypeOK'
  <2>1. stage' = "align" => current' \in 1 .. n
    BY <1>2, <1>3
  <2> QED BY <1>1, <1>2, <1>3, <1>5, <2>1 DEF CrossTypeOK
<1>7. /\ \A k : OnBaseline(k)' = OnBaseline(k) /\ Edges(k)' = Edges(k)
      /\ \A k, i : Own(k, i)' = Own(k, i) /\ Known(k, i)' = Known(k, i)
  BY <1>1, LinesKept
<1>8. ASSUME NEW k \in 1 .. n PROVE Roomy(k) /\ Roomy(k)'
  <2>1. Roomy(k) /\ outer[k] \in Int
    BY <1>1, <1>2 DEF BaselineInv, CrossTypeOK
  <2>2. outer[k] <= outer'[k] /\ outer'[k] \in Int
    BY <1>1, <2>1
  <2> QED BY <1>1, <1>2, <2>1, <2>2, RoomyStays
<1>9. \A k \in 1 .. n : Ahead(k) <=> c <= k
  BY <1>1, <1>2 DEF Ahead
<1>10. \A k \in 1 .. n : Ahead(k)' <=> c < k
  BY <1>2, <1>3 DEF Ahead
<1>11. Upright(c)'
  <2>1. ASSUME NEW i \in OnBaseline(c)
        PROVE  placed'[c][i].offset + Baseline(rows[c][i].kind, placed'[c][i].cross, Known(c, i)) = Max(Edges(c))
    <3>1. i \in DOMAIN rows[c] /\ Ahead(c)
      BY <1>2, <1>9 DEF OnBaseline
    <3>2. placed'[c][i].offset = CrossOffset(c, i) /\ placed'[c][i].cross = FinalCross(rows[c][i], outer[c])
      <4> DEFINE x == FinalCross(rows[c][i], outer[c])
                 o == CrossOffset(c, i)
      <4>1. placed'[c][i] = [cross |-> x, offset |-> o]
        BY <1>5, <3>1
      <4> HIDE DEF x, o
      <4>2. placed'[c][i].offset = o /\ placed'[c][i].cross = x
        BY <4>1
      <4> QED BY <4>2 DEF x, o
    <3>3. FinalCross(rows[c][i], outer[c]) = OwnCross(rows[c][i])
      BY <1>2, <3>1, TargetIs
    <3>4. CrossOffset(c, i) + Own(c, i) = Max(Edges(c))
      BY <1>2, <1>8, <3>1, OffsetIs
    <3> QED BY <3>2, <3>3, <3>4 DEF Own
  <2> QED BY <1>1, <1>7, <2>1 DEF Upright
<1>12. ASSUME NEW k \in 1 .. n, k < c PROVE Upright(k)'
  <2>1. Upright(k) /\ placed'[k] = placed[k]
    BY <1>2, <1>5, <1>9, <1>12 DEF BaselineInv
  <2> QED BY <1>1, <1>7, <2>1 DEF Upright
<1>13. ASSUME NEW k \in 1 .. n
       PROVE  /\ Ahead(k)' => \A i \in DOMAIN rows'[k] : inside'[k][i] = Known(k, i)'
              /\ ~Ahead(k)' => Upright(k)' /\ \A i \in DOMAIN rows'[k] : inside'[k][i] = rows'[k][i].inner * Unit
  <2>1. CASE c < k
    <3>1. Ahead(k) /\ Ahead(k)' /\ k # c
      BY <1>9, <1>10, <2>1
    <3>2. \A i \in DOMAIN rows[k] : inside[k][i] = Known(k, i)
      BY <1>2, <3>1 DEF BaselineInv
    <3> QED BY <1>1, <1>5, <1>7, <3>1, <3>2
  <2>2. CASE k = c
    <3>1. ~Ahead(k)'
      BY <1>10, <2>2
    <3> QED BY <1>1, <1>5, <1>11, <2>2, <3>1
  <2>3. CASE k < c
    <3>1. ~Ahead(k) /\ ~Ahead(k)' /\ k # c
      BY <1>9, <1>10, <2>3
    <3>2. \A i \in DOMAIN rows[k] : inside[k][i] = rows[k][i].inner * Unit
      BY <1>2, <3>1 DEF BaselineInv
    <3> QED BY <1>1, <1>5, <1>12, <2>3, <3>1, <3>2
  <2> QED BY <1>2, <2>1, <2>2, <2>3
<1> QED BY <1>1, <1>2, <1>3, <1>6, <1>8, <1>13 DEF BaselineInv

\* The next layout knows the heights in nested containers.
LEMMA AgainKeeps == ASSUME BaselineInv, Again PROVE BaselineInv'
<1>1. /\ rows' = rows /\ pass' = pass + 1 /\ box' = box /\ outer' = outer /\ placed' = placed /\ inside' = inside
      /\ stage = "aligned" /\ stage' = "size" /\ current' = 1 /\ CrossTypeOK
  BY DEF Again, BaselineInv
<1>2. CrossTypeOK'
  BY <1>1 DEF CrossTypeOK
<1>3. ASSUME NEW k \in 1 .. Len(rows)
      PROVE  Ahead(k)' /\ \A i \in DOMAIN rows'[k] : inside'[k][i] = Known(k, i)'
  <2>1. ~Ahead(k) /\ Ahead(k)'
    BY <1>1 DEF Ahead
  <2>2. \A i \in DOMAIN rows[k] : inside[k][i] = rows[k][i].inner * Unit
    BY <2>1 DEF BaselineInv
  <2>3. pass' # 1
    BY <1>1 DEF CrossTypeOK
  <2> QED BY <1>1, <2>1, <2>2, <2>3 DEF Known
<1> QED BY <1>1, <1>2, <1>3 DEF BaselineInv

\* Every step of the cross axis.
LEMMA BaselineInvStep == BaselineInv /\ [CrossNext]_crossVars => BaselineInv'
<1> SUFFICES ASSUME BaselineInv, [CrossNext]_crossVars PROVE BaselineInv'
  OBVIOUS
<1>1. CASE UNCHANGED crossVars
  <2>1. /\ rows' = rows /\ pass' = pass /\ box' = box /\ outer' = outer /\ placed' = placed /\ inside' = inside
        /\ stage' = stage /\ current' = current /\ CrossTypeOK
    BY <1>1 DEF crossVars, BaselineInv
  <2>2. CrossTypeOK'
    BY <2>1 DEF CrossTypeOK
  <2>3. ASSUME NEW k \in 1 .. Len(rows)
        PROVE  /\ Ahead(k)' <=> Ahead(k)
               /\ Upright(k)' <=> Upright(k)
               /\ Roomy(k) => Roomy(k)'
               /\ \A i : Known(k, i)' = Known(k, i)
    <3>1. outer'[k] \in Int /\ outer[k] <= outer'[k]
      BY <2>1 DEF CrossTypeOK
    <3>2. OnBaseline(k)' = OnBaseline(k) /\ \A i : Known(k, i)' = Known(k, i)
      BY <2>1, LinesKept
    <3>3. Upright(k)' <=> Upright(k)
      BY <2>1, <3>2 DEF Upright
    <3> QED BY <2>1, <3>1, <3>2, <3>3, RoomyStays DEF Ahead
  <2> QED BY <2>1, <2>2, <2>3 DEF BaselineInv
<1> QED BY <1>1, SizeLinesKeeps, ExpandLineKeeps, StretchLinesKeeps, AlignLineKeeps, AgainKeeps DEF CrossNext

(***************************************************************************)
(* flex_expand_baseline_line and flex_cross_offset: however many lines and *)
(* passes, whatever the sizes, margins and limits, the children of a line  *)
(* that are aligned on its baseline end up with theirs at one height. The  *)
(* offset is cut off nowhere, because the line was made high enough.       *)
(***************************************************************************)
THEOREM BaselinesStayAligned == CrossSpec => []BaselinesAlign
<1>1. BaselineInv => BaselinesAlign
  <2> SUFFICES ASSUME BaselineInv, stage = "aligned", NEW k \in DOMAIN rows,
                      NEW i \in OnBaseline(k), NEW j \in OnBaseline(k)
               PROVE  placed[k][i].offset + Baseline(rows[k][i].kind, placed[k][i].cross, Known(k, i)) =
                        placed[k][j].offset + Baseline(rows[k][j].kind, placed[k][j].cross, Known(k, j))
    BY DEF BaselinesAlign, Known
  <2>1. k \in 1 .. Len(rows) /\ ~Ahead(k)
    BY DEF BaselineInv, CrossTypeOK, Ahead
  <2>2. Upright(k)
    BY <2>1 DEF BaselineInv
  <2> QED BY <2>2 DEF Upright
<1> QED BY <1>1, BaselineInvInit, BaselineInvStep, PTL DEF CrossSpec

-----------------------------------------------------------------------------
(* Where the lines are and what they hold.                                 *)

\* A share of what there is.
LEMMA ShareFits ==
  ASSUME NEW a \in Nat \ {0}, NEW x \in Nat
  PROVE  /\ x \div a \in Nat
         /\ a * (x \div a) \in Nat /\ a * (x \div a) <= x
         /\ x % a = 0 => a * (x \div a) = x
<1> DEFINE d == x \div a
           m == x % a
<1>1. d \in Int /\ m \in 0 .. a - 1 /\ x = a * d + m
  BY DivMod
<1> HIDE DEF d, m
<1>2. d >= 0
  <2>1. d <= -1 => a * d <= -a
    BY <1>1, MultiplesApart
  <2> QED BY <1>1, <2>1
<1>3. a * d \in Int
  BY <1>1
<1>4. a * d >= 0
  <2>1. d = 0 \/ d >= 1
    BY <1>1, <1>2
  <2>2. d = 0 => a * d = 0
    OBVIOUS
  <2>3. d >= 1 => a * d >= a
    BY <1>1, MultiplesApart
  <2> QED BY <1>3, <2>1, <2>2, <2>3
<1>5. a * d <= x /\ (m = 0 => a * d = x)
  BY <1>1, <1>3
<1> QED BY <1>1, <1>2, <1>3, <1>4, <1>5 DEF d, m

\* No share is cut off: the divisions leave no remainder.
SharesExactly(mode, free, n) ==
  /\ mode = "center" => free % 2 = 0
  /\ mode = "around" => free % (2 * n) = 0
  /\ mode = "evenly" => free % (n + 1) = 0
  /\ mode = "between" /\ n > 1 => free % (n - 1) = 0

\* flex_spacing_rule: what is put in front of the first thing and between
\* them is no more than there is; where it is to be all, it is all.
LEMMA SpacingFits ==
  ASSUME NEW mode \in SpacingModes, NEW free \in Nat, NEW n \in Nat \ {0}
  PROVE  LET s == StartOffset(mode, free, n)
             g == GapShare(mode, free, n)
         IN /\ s \in Nat /\ g \in Nat /\ g * (n - 1) \in Nat
            /\ s + g * (n - 1) <= free
            /\ mode \in {"start", "between"} => s = 0
            /\ mode = "end" => s + g * (n - 1) = free
            /\ SharesExactly(mode, free, n) =>
                 /\ mode = "between" /\ n > 1 => s + g * (n - 1) = free
                 /\ mode \in {"center", "around", "evenly"} => 2 * s + g * (n - 1) = free
<1> DEFINE s == StartOffset(mode, free, n)
           g == GapShare(mode, free, n)
           m == n - 1
<1>1. m \in Nat /\ n = m + 1 /\ n - 1 = m /\ AtLeastZero(free) = free
  BY DEF AtLeastZero
<1> DEFINE Goal == /\ s \in Nat /\ g \in Nat /\ g * m \in Nat
                   /\ s + g * m <= free
                   /\ mode \in {"start", "between"} => s = 0
                   /\ mode = "end" => s + g * m = free
                   /\ SharesExactly(mode, free, n) =>
                        /\ mode = "between" /\ n > 1 => s + g * m = free
                        /\ mode \in {"center", "around", "evenly"} => 2 * s + g * m = free
<1>2. CASE mode = "start"
  <2>1. s = 0 /\ g = 0
    BY <1>2 DEF StartOffset, GapShare
  <2> HIDE DEF s, g, m
  <2>2. Goal
    BY <1>1, <1>2, <2>1
  <2> QED BY <2>2 DEF s, g, m
<1>3. CASE mode = "end"
  <2>1. s = free /\ g = 0
    BY <1>3 DEF StartOffset, GapShare
  <2> HIDE DEF s, g, m
  <2>2. Goal
    BY <1>1, <1>3, <2>1
  <2> QED BY <2>2 DEF s, g, m
<1>4. CASE mode = "center"
  <2>1. s = free \div 2 /\ g = 0
    BY <1>4 DEF StartOffset, GapShare
  <2>2. free \div 2 \in Nat /\ 2 * (free \div 2) <= free /\ (free % 2 = 0 => 2 * (free \div 2) = free)
    BY ShareFits
  <2> HIDE DEF s, g, m
  <2>3. Goal
    BY <1>1, <1>4, <2>1, <2>2 DEF SharesExactly
  <2> QED BY <2>3 DEF s, g, m
<1>5. CASE mode = "between"
  <2>1. s = 0
    BY <1>5 DEF StartOffset
  <2>2. CASE m = 0
    <3>1. g = 0
      BY <1>1, <1>5, <2>2 DEF GapShare
    <3> HIDE DEF s, g, m
    <3>2. Goal
      BY <1>1, <1>5, <2>1, <2>2, <3>1
    <3> QED BY <3>2 DEF s, g, m
  <2>3. CASE m # 0
    <3>1. g = free \div m
      BY <1>1, <1>5, <2>3 DEF GapShare
    <3>2. m \in Nat \ {0}
      BY <1>1, <2>3
    <3> HIDE DEF s, g, m
    <3>3. g \in Nat /\ m * g \in Nat /\ m * g <= free /\ (free % m = 0 => m * g = free)
      BY <3>1, <3>2, ShareFits
    <3>4. g * m = m * g
      BY <3>2, <3>3
    <3>5. SharesExactly(mode, free, n) => free % m = 0
      BY <1>1, <1>5, <3>2 DEF SharesExactly
    <3>6. Goal
      BY <1>5, <2>1, <3>3, <3>4, <3>5
    <3> QED BY <3>6 DEF s, g, m
  <2> QED BY <2>2, <2>3
<1>6. CASE mode = "around"
  <2>1. s = free \div (2 * n) /\ g = free \div n
    BY <1>1, <1>6 DEF StartOffset, GapShare
  <2>2. 2 * n \in Nat \ {0}
    OBVIOUS
  <2> DEFINE a == 2 * n
  <2>3. free \div a \in Nat /\ a * (free \div a) <= free /\ (free % a = 0 => a * (free \div a) = free)
    <3> HIDE DEF a
    <3> QED BY <2>2, ShareFits DEF a
  <2>4. free \div n \in Nat /\ n * (free \div n) \in Nat /\ n * (free \div n) <= free
    BY ShareFits
  <2> HIDE DEF s, g
  <2>5. s \in Nat /\ (2 * n) * s <= free /\ (free % (2 * n) = 0 => (2 * n) * s = free)
    BY <2>1, <2>3
  <2>6. g \in Nat /\ n * g <= free /\ n * g \in Nat
    BY <2>1, <2>4
  <2>7. (2 * n) * s = n * s + n * s /\ n * s \in Nat
    BY <2>5
  <2>8. s <= g
    <3>1. free \div n \in Int /\ free % n \in 0 .. n - 1 /\ free = n * (free \div n) + (free % n)
      BY DivMod
    <3>2. free < n * g + n
      BY <2>1, <2>6, <3>1
    <3> SUFFICES ASSUME s >= g + 1 PROVE FALSE
      BY <2>5, <2>6
    <3>3. s - g >= 1 /\ s - g \in Int
      BY <2>5, <2>6
    <3>4. n * (s - g) >= n
      BY <3>3, MultiplesApart
    <3>5. n * (s - g) = n * s - n * g
      BY <2>5, <2>6
    <3> QED BY <2>5, <2>6, <2>7, <3>2, <3>4, <3>5
  <2>9. g * m = n * g - g
    BY <1>1, <2>6
  <2>10. g * m \in Nat
    BY <1>1, <2>6
  <2>11. free % (2 * n) = 0 => g = 2 * s
    <3> SUFFICES ASSUME free % (2 * n) = 0 PROVE g = 2 * s
      OBVIOUS
    <3>1. free = n * (2 * s) + 0
      BY <2>5
    <3>2. n * (2 * s) = (2 * n) * s
      BY <2>5
    <3> DEFINE t == 2 * s
    <3>3. t \in Nat /\ free = n * t
      BY <2>5, <3>1
    <3> HIDE DEF t
    <3>4. g - t \in Int /\ n * (g - t) = n * g - n * t
      BY <2>6, <3>3
    <3>5. free \div n \in Int /\ free % n \in 0 .. n - 1 /\ free = n * (free \div n) + (free % n)
      BY DivMod
    <3>6. n * (g - t) <= 0 /\ n * (g - t) > -n
      BY <2>1, <2>6, <3>3, <3>4, <3>5
    <3>7. g - t = 0
      BY <3>4, <3>6, MultiplesApart
    <3> QED BY <2>6, <3>3, <3>7 DEF t
  <2>12. s + g * m <= free /\ (free % (2 * n) = 0 => 2 * s + g * m = free)
    <3>1. s + g * m <= free
      BY <2>5, <2>6, <2>8, <2>9, <2>10
    <3>2. free % (2 * n) = 0 => 2 * s + g * m = free
      <4> SUFFICES ASSUME free % (2 * n) = 0 PROVE 2 * s + g * m = free
        OBVIOUS
      <4>1. n * g = (2 * n) * s
        BY <2>5, <2>11
      <4> QED BY <2>5, <2>6, <2>9, <2>10, <2>11, <4>1
    <3> QED BY <3>1, <3>2
  <2> HIDE DEF m
  <2>13. Goal
    BY <1>6, <2>5, <2>6, <2>10, <2>12 DEF SharesExactly
  <2> QED BY <2>13 DEF s, g, m
<1>7. CASE mode = "evenly"
  <2>1. s = free \div (n + 1) /\ g = free \div (n + 1)
    BY <1>1, <1>7 DEF StartOffset, GapShare
  <2> DEFINE a == n + 1
  <2>2. a \in Nat \ {0}
    OBVIOUS
  <2>3. free \div a \in Nat /\ a * (free \div a) <= free /\ (free % a = 0 => a * (free \div a) = free)
    <3> HIDE DEF a
    <3> QED BY <2>2, ShareFits
  <2> HIDE DEF s, g
  <2>4. s \in Nat /\ g = s /\ (n + 1) * s <= free /\ (free % (n + 1) = 0 => (n + 1) * s = free)
    BY <2>1, <2>3
  <2>5. (n + 1) * s = n * s + s /\ s * m = n * s - s /\ s * m \in Nat /\ n * s \in Nat
    BY <1>1, <2>4
  <2> HIDE DEF m
  <2>6. Goal
    BY <1>7, <2>4, <2>5 DEF SharesExactly
  <2> QED BY <2>6 DEF s, g, m
<1> QED BY <1>2, <1>3, <1>4, <1>5, <1>6, <1>7 DEF SpacingModes

\* The divisions of StretchLines leave no remainder.
CrossExact ==
  stage = "stretch" =>
    LET left == AtLeastZero(CrossSpace - CrossTotal)
        n == Len(rows)
    IN IF box.content = "stretch" THEN left % n = 0 ELSE SharesExactly(box.content, left, n)

\* What is known of the gaps when the lines are as high as they will be and
\* together, with the gaps they were given, take up total.
SpreadOK(total) ==
  LET n == Len(rows)
      extra == spread.gap - LineGap
  IN /\ spread.start \in Int /\ spread.gap \in Int /\ spread.gap >= LineGap
     /\ total <= CrossSpace =>
          /\ spread.start >= 0 /\ spread.start + total + extra * (n - 1) <= CrossSpace
          /\ box.content \in {"start", "between", "stretch"} => spread.start = 0
          /\ box.content \in {"end", "stretch"} \/ (box.content = "between" /\ n > 1) =>
               spread.start + total + extra * (n - 1) = CrossSpace

\* The children of line k stay within it.
Held(k) ==
  \A i \in DOMAIN rows[k] :
    LET item == rows[k][i]
        begin == placed[k][i].offset - Lead(item)
        end == placed[k][i].offset + placed[k][i].cross + Trail(item)
    IN end - begin <= outer[k] => begin >= 0 /\ end <= outer[k]

\* What holds between the steps.
HoldInv ==
  /\ BaselineInv
  /\ top \in [1 .. Len(rows) -> Int]
  /\ stage \in {"align", "aligned"} =>
       /\ \A sum : Adds(sum, outer, Len(rows)) =>
                     SpreadOK(sum[1 .. Len(rows)] + LineGap * (Len(rows) - 1))
       /\ \A k \in 1 .. Len(rows) : ~Ahead(k) =>
            /\ top[k] = IF k = 1 THEN spread.start ELSE After(k - 1)
            /\ Held(k)

\* The lines as they come.
LEMMA HoldInvInit == CrossInit => HoldInv
<1> SUFFICES ASSUME CrossInit PROVE HoldInv
  OBVIOUS
<1>1. BaselineInv
  BY BaselineInvInit
<1>2. stage = "size" /\ top = [k \in DOMAIN rows |-> 0]
  BY DEF CrossInit
<1>3. DOMAIN rows = 1 .. Len(rows)
  BY <1>1 DEF BaselineInv, CrossTypeOK
<1> QED BY <1>1, <1>2, <1>3 DEF HoldInv

\* The numbers in play.
LEMMA CrossNumbers ==
  ASSUME CrossTypeOK
  PROVE  CrossSpace \in Int /\ LineGap \in Int /\ CrossTotal \in Int
<1>1. CrossSpace \in Int
  BY CrossAssumption, UnitAssumption DEF CrossTypeOK, Boxes, CrossSpace
<1>2. LineGap \in Int
  BY CrossAssumption, UnitAssumption DEF LineGap, CrossTypeOK, Boxes
<1> QED BY <1>1, <1>2, TotalIsNumber

\* The lines are as high as they will be, and the gaps fit.
LEMMA StretchSpreads ==
  ASSUME HoldInv, StretchLines, CrossExact, NEW sum, Adds(sum, outer', Len(rows))
  PROVE  SpreadOK(sum[1 .. Len(rows)] + LineGap * (Len(rows) - 1))'
<1>0. /\ CrossTypeOK /\ stage = "stretch" /\ rows' = rows /\ box' = box
  BY DEF HoldInv, BaselineInv, StretchLines
<1>1. PICK n \in Nat \ {0} : n = Len(rows)
  BY <1>0 DEF CrossTypeOK
<1>2. outer \in [1 .. n -> Int] /\ DOMAIN rows = 1 .. n
  BY <1>0, <1>1 DEF CrossTypeOK
<1>3. PICK space \in Int : space = CrossSpace /\ space = CrossSpace'
  BY <1>0, CrossNumbers DEF CrossSpace
<1>4. PICK gap \in Int : gap = LineGap /\ gap = LineGap'
  BY <1>0, CrossNumbers DEF LineGap
<1>5. PICK total \in Int : total = CrossTotal
  BY <1>0, CrossNumbers
<1>6. PICK left \in Nat : left = AtLeastZero(space - total)
  <2> DEFINE d == space - total
  <2>1. d \in Int
    OBVIOUS
  <2> HIDE DEF d
  <2>2. AtLeastZero(d) \in Nat
    BY <2>1 DEF AtLeastZero
  <2> QED BY <2>2 DEF d
<1>7. PICK content : content = box.content /\ content \in SpacingModes \cup {"stretch"}
  BY <1>0 DEF CrossTypeOK, Boxes
<1> DEFINE stretched == content = "stretch" /\ left > 0
           free == IF stretched THEN 0 ELSE left
<1>8. /\ outer' = IF stretched THEN [k \in 1 .. n |-> outer[k] + left \div n] ELSE outer
      /\ spread' = [start |-> StartOffset(content, free, n), gap |-> gap + GapShare(content, free, n)]
  <2>1. /\ outer' = IF box.content = "stretch" /\ left > 0
                    THEN [k \in DOMAIN rows |-> outer[k] + left \div n] ELSE outer
        /\ spread' = [start |-> StartOffset(box.content, IF box.content = "stretch" /\ left > 0 THEN 0 ELSE left, n),
                      gap |-> LineGap + GapShare(box.content, IF box.content = "stretch" /\ left > 0 THEN 0 ELSE left, n)]
    BY <1>1, <1>3, <1>5, <1>6 DEF StretchLines
  <2> QED BY <1>2, <1>4, <1>7, <2>1
<1>9. IF content = "stretch" THEN left % n = 0 ELSE SharesExactly(content, left, n)
  BY <1>0, <1>1, <1>3, <1>5, <1>6, <1>7 DEF CrossExact
<1>10. total <= space => left = space - total
  BY <1>6 DEF AtLeastZero
<1>11. left > 0 => left = space - total
  BY <1>6 DEF AtLeastZero
<1>12. ~(left > 0) => space - total <= 0
  BY <1>6 DEF AtLeastZero
<1>13. sum[1 .. n] \in Int
  <2>1. 1 .. n \in SUBSET (1 .. n)
    OBVIOUS
  <2> QED BY <1>1, <2>1 DEF Adds
<1> DEFINE t == sum[1 .. n] + gap * (n - 1)
           Goal(s, g) ==
             /\ s \in Int /\ gap + g \in Int /\ gap + g >= gap
             /\ t <= space =>
                  /\ s >= 0 /\ s + t + g * (n - 1) <= space
                  /\ content \in {"start", "between", "stretch"} => s = 0
                  /\ content \in {"end", "stretch"} \/ (content = "between" /\ n > 1) =>
                       s + t + g * (n - 1) = space
<1>14. gap * (n - 1) \in Int
  OBVIOUS
<1>15. ASSUME NEW s, NEW g \in Int, spread' = [start |-> s, gap |-> gap + g], Goal(s, g)
       PROVE  SpreadOK(sum[1 .. Len(rows)] + LineGap * (Len(rows) - 1))'
  <2>1. spread'.start = s /\ spread'.gap = gap + g /\ spread'.gap - gap = g
    BY <1>15
  <2>2. Len(rows') = n /\ box'.content = content
    BY <1>0, <1>1, <1>7
  <2> HIDE DEF t
  <2>3. SpreadOK(t)'
    BY <1>3, <1>4, <1>15, <2>1, <2>2 DEF SpreadOK
  <2>4. t = (sum[1 .. Len(rows)] + LineGap * (Len(rows) - 1))'
    BY <1>4, <2>2 DEF t
  <2> QED BY <2>3, <2>4
<1>16. CASE stretched
  <2>1. outer' = [k \in 1 .. n |-> outer[k] + left \div n] /\ content = "stretch" /\ left > 0
    BY <1>8, <1>16
  <2>2. StartOffset(content, 0, n) = 0 /\ GapShare(content, 0, n) = 0
    BY <2>1 DEF StartOffset, GapShare
  <2>3. PICK more \in Nat : more = left \div n /\ more * n = left
    <3>1. left \div n \in Nat /\ n * (left \div n) = left
      BY <1>9, <2>1, ShareFits
    <3>2. (left \div n) * n = n * (left \div n)
      OBVIOUS
    <3> QED BY <3>1, <3>2
  <2>4. PICK old : Adds(old, outer, n)
    BY <1>2, SumsExist
  <2>5. PICK h : h = outer' /\ h \in [1 .. n -> Int]
    BY <1>2, <2>1, <2>3
  <2>6. PICK f : f = outer /\ f \in [1 .. n -> Int]
    BY <1>2
  <2>7. sum[1 .. n] = old[1 .. n] + more * n
    <3>1. n \in Nat /\ more \in Int
      BY <2>3
    <3>2. Adds(sum, h, n) /\ Adds(old, f, n)
      BY <1>1, <2>4, <2>5, <2>6
    <3>3. \A k \in 1 .. n : h[k] = f[k] + more
      BY <2>1, <2>3, <2>5, <2>6
    <3>a. Tallies(sum, h, n) /\ Tallies(old, f, n)
      BY <2>5, <2>6, <3>1, <3>2 DEF Tallies
    <3>4. (\A k \in 1 .. n : h[k] = f[k] + more) => sum[1 .. n] = old[1 .. n] + more * n
      BY <3>1, <3>a, AllGrow
    <3> QED BY <3>3, <3>4
  <2>8. sum[1 .. n] = old[1 .. n] + left
    BY <2>3, <2>7
  <2>10. total = old[1 .. n] + gap * (n - 1)
    BY <1>0, <1>1, <1>4, <1>5, <2>4, TotalAdds
  <2>11. t = space
    <3>1. old[1 .. n] \in Int
      BY <2>4 DEF Adds
    <3> DEFINE o == old[1 .. n]
               x == gap * (n - 1)
    <3>2. t = o + left + x /\ total = o + x /\ left = space - total /\ o \in Int /\ x \in Int
      BY <1>11, <1>14, <2>1, <2>8, <2>10, <3>1
    <3> HIDE DEF t, o, x
    <3> QED BY <3>2
  <2>12. Goal(0, 0)
    <3> HIDE DEF t
    <3> QED BY <2>1, <2>11
  <2>13. spread' = [start |-> 0, gap |-> gap + 0]
    BY <1>8, <1>16, <2>2
  <2> QED BY <1>15, <2>12, <2>13
<1>17. CASE ~stretched
  <2>1. outer' = outer /\ free = left
    BY <1>8, <1>17
  <2>2. t = total
    <3>1. Adds(sum, outer, n)
      BY <1>1, <2>1
    <3> QED BY <1>0, <1>1, <1>4, <1>5, <3>1, TotalAdds
  <2>3. CASE content = "stretch"
    <3>1. StartOffset(content, left, n) = 0 /\ GapShare(content, left, n) = 0
      BY <2>3 DEF StartOffset, GapShare
    <3>2. space - total <= 0
      BY <1>12, <1>17, <2>3
    <3>3. Goal(0, 0)
      <4> HIDE DEF t
      <4> QED BY <2>2, <2>3, <3>2
    <3>4. spread' = [start |-> 0, gap |-> gap + 0]
      BY <1>8, <2>1, <3>1
    <3> QED BY <1>15, <3>3, <3>4
  <2>4. CASE content # "stretch"
    <3> DEFINE s == StartOffset(content, left, n)
               g == GapShare(content, left, n)
    <3>1. /\ s \in Nat /\ g \in Nat /\ g * (n - 1) \in Nat
          /\ s + g * (n - 1) <= left
          /\ content \in {"start", "between"} => s = 0
          /\ content = "end" => s + g * (n - 1) = left
          /\ content = "between" /\ n > 1 => s + g * (n - 1) = left
      <4>1. content \in SpacingModes /\ SharesExactly(content, left, n) /\ left \in Nat /\ n \in Nat \ {0}
        BY <1>6, <1>7, <1>9, <2>4
      <4> QED BY <4>1, SpacingFits
    <3>2. spread' = [start |-> s, gap |-> gap + g]
      BY <1>8, <2>1
    <3> HIDE DEF s, g
    <3>3. Goal(s, g)
      <4> HIDE DEF t
      <4> DEFINE x == g * (n - 1)
      <4>1. x \in Nat /\ s + x <= left
        BY <3>1
      <4>2. content = "end" \/ (content = "between" /\ n > 1) => s + x = left
        BY <3>1
      <4> HIDE DEF x
      <4>3. t <= space => s + t + x <= space
        BY <1>10, <2>2, <3>1, <4>1
      <4>4. t <= space /\ (content = "end" \/ (content = "between" /\ n > 1)) => s + t + x = space
        BY <1>10, <2>2, <3>1, <4>1, <4>2
      <4>5. s \in Int /\ gap + g \in Int /\ gap + g >= gap /\ s >= 0
        BY <3>1
      <4> QED BY <2>4, <3>1, <4>3, <4>4, <4>5 DEF x
    <3> QED BY <1>15, <3>1, <3>2, <3>3
  <2> QED BY <2>3, <2>4
<1> QED BY <1>16, <1>17

\* A child that is not larger than its line stays within it.
LEMMA OffsetHolds ==
  ASSUME BaselineInv, NEW k \in 1 .. Len(rows), Ahead(k), Roomy(k), NEW i \in DOMAIN rows[k]
  PROVE  LET l == Lead(rows[k][i])
             r == Trail(rows[k][i])
             x == FinalCross(rows[k][i], outer[k])
             o == CrossOffset(k, i)
         IN /\ x \in Int /\ o \in Int /\ l \in Int /\ r \in Int
            /\ l + x + r <= outer[k] => l <= o /\ o + x + r <= outer[k]
<1> DEFINE item == rows[k][i]
           l == Lead(item)
           r == Trail(item)
           h == outer[k]
           low == item.min * Unit
           high == item.max * Unit
           own == item.cross * Unit
           x == FinalCross(item, h)
           o == CrossOffset(k, i)
           free == h - x - l - r
<1>1. CrossTypeOK
  BY DEF BaselineInv
<1>2. ItemLengths(k, i)
  BY <1>1, ItemLengthsOK
<1>3. l \in Int /\ r \in Int /\ h \in Int
  BY <1>1, <1>2 DEF ItemLengths, CrossTypeOK
<1>4. low \in Int /\ high \in Int /\ own \in Int
  <2>1. item \in CrossItems
    BY <1>1, RowIs
  <2>2. item.min \in Nat /\ item.max \in Nat /\ item.cross \in Nat
    BY <2>1, CrossAssumption
  <2>3. Unit \in Nat /\ \A a, b \in Nat : a * b \in Int
    BY UnitAssumption
  <2> HIDE DEF item
  <2> QED BY <2>2, <2>3
<1>5. x \in Int
  <2> DEFINE wanted == IF item.align = "stretch" /\ item.auto THEN h - l - r ELSE own
  <2>1. x = AtLeastZero(Clamp(wanted, low, high))
    BY DEF FinalCross
  <2>2. wanted \in Int
    BY <1>3, <1>4
  <2> HIDE DEF wanted, low, high, x
  <2> QED BY <1>4, <2>1, <2>2 DEF AtLeastZero, Clamp
<1>6. o = CASE i \in OnBaseline(k) -> Clamp(Target(k) - BaselineOf(k, i), l, l + AtLeastZero(free))
            [] item.align = "end" -> l + free
            [] item.align = "center" -> l + free \div 2
            [] OTHER -> l
  BY DEF CrossOffset
<1>7. i \in OnBaseline(k) => Target(k) - BaselineOf(k, i) \in Int /\ item.align = "baseline"
  <2> SUFFICES ASSUME i \in OnBaseline(k)
               PROVE  Target(k) \in Int /\ BaselineOf(k, i) \in Int /\ item.align = "baseline"
    OBVIOUS
  <2>1. Target(k) \in Int
    BY TargetIs DEF Roomy, RoomAt
  <2>2. BaselineOf(k, i) \in Int
    BY <1>2, TargetIs DEF ItemLengths
  <2> QED BY <2>1, <2>2 DEF OnBaseline
<1> DEFINE t == Target(k) - BaselineOf(k, i)
<1>8. free \in Int /\ (l + x + r <= h => free >= 0)
  BY <1>3, <1>5
<1>9. free = h - x - l - r
  OBVIOUS
<1> HIDE DEF l, r, h, x, free, o, t
<1>10. o \in Int /\ (free >= 0 => l <= o /\ o <= l + free)
  <2>1. CASE i \in OnBaseline(k)
    <3>1. o = Clamp(t, l, l + AtLeastZero(free)) /\ t \in Int
      BY <1>6, <1>7, <2>1 DEF t
    <3> QED BY <1>3, <1>8, <3>1 DEF Clamp, AtLeastZero
  <2>2. CASE item.align = "end"
    <3>1. o = l + free
      BY <1>6, <1>7, <2>2
    <3> QED BY <1>3, <1>8, <3>1
  <2>3. CASE item.align = "center"
    <3>1. o = l + free \div 2
      BY <1>6, <1>7, <2>3
    <3>2. free \div 2 \in Int /\ (free >= 0 => free \div 2 >= 0 /\ free \div 2 <= free)
      BY <1>8
    <3> QED BY <1>3, <1>8, <3>1, <3>2
  <2>4. CASE i \notin OnBaseline(k) /\ item.align # "end" /\ item.align # "center"
    <3>1. o = l
      BY <1>6, <2>4
    <3> QED BY <1>3, <1>8, <3>1
  <2> QED BY <2>1, <2>2, <2>3, <2>4
<1>11. l + x + r <= h => l <= o /\ o + x + r <= h
  BY <1>3, <1>5, <1>8, <1>9, <1>10
<1> QED BY <1>3, <1>5, <1>10, <1>11 DEF l, r, h, x, o

\* The gaps are numbers.
LEMMA SpreadNumbers ==
  ASSUME HoldInv, stage \in {"align", "aligned"}
  PROVE  spread.start \in Int /\ spread.gap \in Int /\ spread.gap >= LineGap
<1>1. Len(rows) \in Nat /\ outer \in [1 .. Len(rows) -> Int]
  BY DEF HoldInv, BaselineInv, CrossTypeOK
<1>2. PICK sum : Adds(sum, outer, Len(rows))
  BY <1>1, SumsExist
<1>3. SpreadOK(sum[1 .. Len(rows)] + LineGap * (Len(rows) - 1))
  BY <1>2 DEF HoldInv
<1> QED BY <1>3 DEF SpreadOK

\* A line gets its place, its children theirs.
LEMMA AlignLineHolds == ASSUME HoldInv, AlignLine PROVE HoldInv'
<1>1. BaselineInv /\ BaselineInv'
  BY AlignLineKeeps DEF HoldInv
<1>2. /\ rows' = rows /\ box' = box /\ outer' = outer /\ spread' = spread
      /\ stage = "align" /\ CrossTypeOK
  BY <1>1 DEF AlignLine, BaselineInv
<1>0. PICK n \in Nat \ {0} : \E c \in 1 .. n : n = Len(rows) /\ c = current
  BY <1>2, AtLine
<1>3. PICK c \in 1 .. n : n = Len(rows) /\ c = current
  BY <1>0
<1>4. /\ current' = c + 1 /\ stage' = IF c = n THEN "aligned" ELSE "align"
      /\ placed' = [placed EXCEPT ![c] = [i \in DOMAIN rows[c] |->
                       [cross |-> FinalCross(rows[c][i], outer[c]), offset |-> CrossOffset(c, i)]]]
      /\ top' = [top EXCEPT ![c] = IF c = 1 THEN spread.start ELSE After(c - 1)]
  BY <1>3 DEF AlignLine
<1>5. top \in [1 .. n -> Int] /\ placed = [k \in 1 .. n |-> placed[k]] /\ outer \in [1 .. n -> Int]
  BY <1>2, <1>3 DEF HoldInv, CrossTypeOK
<1>6. /\ \A k \in 1 .. n : k # c => placed'[k] = placed[k] /\ top'[k] = top[k]
      /\ top'[c] = IF c = 1 THEN spread.start ELSE After(c - 1)
  BY <1>4, <1>5
<1>7. (\A k \in 1 .. n : Ahead(k) <=> c <= k) /\ \A k \in 1 .. n : Ahead(k)' <=> c < k
  BY <1>2, <1>3, <1>4 DEF Ahead
<1>8. spread.start \in Int /\ spread.gap \in Int
  BY <1>2, SpreadNumbers
<1>9. top' \in [1 .. n -> Int]
  <2>1. c # 1 => After(c - 1) \in Int
    <3> SUFFICES ASSUME c # 1 PROVE After(c - 1) \in Int
      OBVIOUS
    <3>1. c - 1 \in 1 .. n
      OBVIOUS
    <3>2. top[c - 1] \in Int /\ outer[c - 1] \in Int
      BY <1>5, <3>1
    <3> QED BY <1>8, <3>2 DEF After
  <2>2. (IF c = 1 THEN spread.start ELSE After(c - 1)) \in Int
    BY <1>8, <2>1
  <2> DEFINE v == IF c = 1 THEN spread.start ELSE After(c - 1)
  <2>3. top' = [top EXCEPT ![c] = v] /\ v \in Int
    BY <1>4, <2>2
  <2> HIDE DEF v
  <2> QED BY <1>5, <2>3
<1>10. ASSUME NEW k \in 1 .. n, ~Ahead(k)'
       PROVE  top'[k] = IF k = 1 THEN spread.start ELSE top'[k - 1] + outer[k - 1] + spread.gap
  <2>1. k <= c
    BY <1>7, <1>10
  <2>2. k # 1 => k - 1 \in 1 .. n /\ k - 1 # c
    BY <2>1
  <2>3. k # 1 => top'[k - 1] = top[k - 1]
    BY <1>6, <2>2
  <2>4. top'[k] = IF k = 1 THEN spread.start ELSE After(k - 1)
    <3>1. CASE k = c
      BY <1>6, <3>1
    <3>2. CASE k # c
      <4>1. ~Ahead(k)
        BY <1>7, <2>1, <3>2
      <4>2. top[k] = IF k = 1 THEN spread.start ELSE After(k - 1)
        BY <1>2, <1>3, <4>1 DEF HoldInv
      <4> QED BY <1>6, <3>2, <4>2
    <3> QED BY <3>1, <3>2
  <2> QED BY <2>3, <2>4 DEF After
<1>11. ASSUME NEW k \in 1 .. n, ~Ahead(k)' PROVE Held(k)'
  <2>1. k <= c
    BY <1>7, <1>11
  <2>2. CASE k # c
    <3>1. Held(k) /\ placed'[k] = placed[k]
      BY <1>2, <1>3, <1>6, <1>7, <2>1, <2>2 DEF HoldInv
    <3> QED BY <1>2, <3>1 DEF Held, Lead, Trail
  <2>3. CASE k = c
    <3> SUFFICES ASSUME NEW i \in DOMAIN rows[c]
                 PROVE  LET begin == placed'[c][i].offset - Lead(rows[c][i])
                            end == placed'[c][i].offset + placed'[c][i].cross + Trail(rows[c][i])
                        IN end - begin <= outer[c] => begin >= 0 /\ end <= outer[c]
      BY <1>2, <2>3 DEF Held, Lead, Trail
    <3> DEFINE l == Lead(rows[c][i])
               r == Trail(rows[c][i])
               x == FinalCross(rows[c][i], outer[c])
               o == CrossOffset(c, i)
               h == outer[c]
    <3>1. placed'[c][i] = [cross |-> x, offset |-> o]
      BY <1>4, <1>5
    <3>2. Ahead(c) /\ Roomy(c)
      BY <1>1, <1>2, <1>3, <1>7 DEF BaselineInv
    <3>3. /\ x \in Int /\ o \in Int /\ l \in Int /\ r \in Int
          /\ l + x + r <= h => l <= o /\ o + x + r <= h
      BY <1>1, <1>3, <3>2, OffsetHolds
    <3>4. h \in Int
      BY <1>5
    <3> HIDE DEF l, r, x, o, h
    <3>5. placed'[c][i].offset = o /\ placed'[c][i].cross = x
      BY <3>1
    <3>6. (o + x + r) - (o - l) = l + x + r
      BY <3>3
    <3>7. (o + x + r) - (o - l) <= h => o - l >= 0 /\ o + x + r <= h
      BY <3>3, <3>4, <3>6
    <3> QED BY <3>5, <3>7 DEF l, r, h
  <2> QED BY <2>2, <2>3
<1>12. ASSUME NEW sum, Adds(sum, outer', Len(rows))
       PROVE  SpreadOK(sum[1 .. Len(rows)] + LineGap * (Len(rows) - 1))'
  <2> DEFINE total == sum[1 .. Len(rows)] + LineGap * (Len(rows) - 1)
  <2>1. SpreadOK(total)
    BY <1>2, <1>12 DEF HoldInv
  <2>2. CrossSpace' = CrossSpace /\ LineGap' = LineGap
    BY <1>2 DEF CrossSpace, LineGap
  <2>3. total' = total
    BY <1>2, <2>2
  <2>4. SpreadOK(total)'
    <3> HIDE DEF total
    <3> QED BY <1>2, <2>1, <2>2, <2>3 DEF SpreadOK
  <2> QED BY <2>4
<1>13. \A sum : Adds(sum, outer', Len(rows)) =>
                  SpreadOK(sum[1 .. Len(rows)] + LineGap * (Len(rows) - 1))'
  BY <1>12
<1>14. \A k \in 1 .. Len(rows') : ~Ahead(k)' =>
         /\ top'[k] = IF k = 1 THEN spread'.start ELSE After(k - 1)'
         /\ Held(k)'
  BY <1>2, <1>3, <1>10, <1>11 DEF After
<1> QED BY <1>1, <1>2, <1>3, <1>9, <1>13, <1>14 DEF HoldInv

\* Every step, if the divisions leave no remainder.
LEMMA HoldInvStep == HoldInv /\ CrossExact /\ [CrossNext]_crossVars => HoldInv'
<1> SUFFICES ASSUME HoldInv, CrossExact, [CrossNext]_crossVars PROVE HoldInv'
  OBVIOUS
<1>1. BaselineInv'
  BY BaselineInvStep DEF HoldInv
<1>2. CrossTypeOK
  BY DEF HoldInv, BaselineInv
<1>3. ASSUME rows' = rows, top' = top, stage' \in {"size", "expand", "stretch"} PROVE HoldInv'
  BY <1>1, <1>3 DEF HoldInv
<1>4. CASE SizeLines
  BY <1>3, <1>4 DEF SizeLines
<1>5. CASE ExpandLine
  BY <1>3, <1>5 DEF ExpandLine
<1>6. CASE Again
  BY <1>3, <1>6 DEF Again
<1>7. CASE StretchLines
  <2>1. rows' = rows /\ top' = top /\ stage' = "align" /\ current' = 1
    BY <1>2, <1>7 DEF StretchLines, CrossTypeOK
  <2>2. \A k \in 1 .. Len(rows) : Ahead(k)'
    BY <1>2, <2>1 DEF Ahead, CrossTypeOK
  <2>3. ASSUME NEW sum, Adds(sum, outer', Len(rows))
        PROVE  SpreadOK(sum[1 .. Len(rows)] + LineGap * (Len(rows) - 1))'
    BY <1>7, <2>3, StretchSpreads
  <2>4. \A sum : Adds(sum, outer', Len(rows)) =>
                   SpreadOK(sum[1 .. Len(rows)] + LineGap * (Len(rows) - 1))'
    BY <2>3
  <2> QED BY <1>1, <2>1, <2>2, <2>4 DEF HoldInv
<1>8. CASE AlignLine
  BY <1>8, AlignLineHolds
<1>9. CASE UNCHANGED crossVars
  <2>1. /\ rows' = rows /\ top' = top /\ stage' = stage /\ outer' = outer /\ spread' = spread
        /\ box' = box /\ placed' = placed /\ current' = current
    BY <1>9 DEF crossVars
  <2>2. \A k : (Ahead(k)' <=> Ahead(k)) /\ After(k)' = After(k) /\ (Held(k)' <=> Held(k))
    BY <2>1 DEF Ahead, After, Held, Lead, Trail
  <2>3. CrossSpace' = CrossSpace /\ LineGap' = LineGap
    BY <2>1 DEF CrossSpace, LineGap
  <2>4. ASSUME NEW sum, Adds(sum, outer', Len(rows)), stage \in {"align", "aligned"}
        PROVE  SpreadOK(sum[1 .. Len(rows)] + LineGap * (Len(rows) - 1))'
    <3> DEFINE total == sum[1 .. Len(rows)] + LineGap * (Len(rows) - 1)
    <3>1. SpreadOK(total)
      BY <2>1, <2>4 DEF HoldInv
    <3>2. total' = total
      BY <2>1, <2>3
    <3>3. SpreadOK(total)'
      <4> HIDE DEF total
      <4> QED BY <2>1, <2>3, <3>1, <3>2 DEF SpreadOK
    <3> QED BY <3>3
  <2>5. stage \in {"align", "aligned"} =>
          \A sum : Adds(sum, outer', Len(rows)) =>
                     SpreadOK(sum[1 .. Len(rows)] + LineGap * (Len(rows) - 1))'
    BY <2>4
  <2> QED BY <1>1, <2>1, <2>2, <2>5 DEF HoldInv
<1> QED BY <1>4, <1>5, <1>6, <1>7, <1>8, <1>9 DEF CrossNext

\* Where line m ends.
LEMMA LinesFollow ==
  ASSUME HoldInv, stage = "aligned", NEW sum, Adds(sum, outer, Len(rows))
  PROVE  \A m \in 1 .. Len(rows) : top[m] + outer[m] = spread.start + sum[1 .. m] + spread.gap * (m - 1)
<1>1. PICK n \in Nat \ {0} : n = Len(rows)
  BY DEF HoldInv, BaselineInv, CrossTypeOK
<1>2. top \in [1 .. n -> Int] /\ outer \in [1 .. n -> Int]
  BY <1>1 DEF HoldInv, BaselineInv, CrossTypeOK
<1>3. PICK s \in Int, g \in Int : s = spread.start /\ g = spread.gap
  BY SpreadNumbers
<1>4. \A k \in 1 .. n : top[k] = IF k = 1 THEN s ELSE top[k - 1] + outer[k - 1] + g
  <2>1. \A k \in 1 .. n : ~Ahead(k)
    BY DEF Ahead
  <2> QED BY <1>1, <1>3, <2>1 DEF HoldInv, After
<1>5. \A R \in SUBSET (1 .. n) : \A x \in 1 .. n : x \notin R =>
        sum[R \cup {x}] = outer[x] + sum[R] /\ sum[R] \in Int /\ outer[x] \in Int
  <2>1. PICK f \in [1 .. n -> Int] : f = outer
    BY <1>2
  <2>2. n \in Nat /\ Adds(sum, f, n)
    BY <1>1, <2>1
  <2> QED BY <2>1, <2>2, SumWith
<1>6. sum[{}] = 0
  BY DEF Adds
<1> DEFINE P(m) == m \in 1 .. n => top[m] + outer[m] = s + sum[1 .. m] + g * (m - 1)
           T == {m \in Nat : P(m)}
<1>7. 0 \in T
  OBVIOUS
<1>8. ASSUME NEW m \in T PROVE m + 1 \in T
  <2>1. m \in Nat /\ P(m)
    OBVIOUS
  <2> SUFFICES ASSUME m + 1 \in 1 .. n
               PROVE  top[m + 1] + outer[m + 1] = s + sum[1 .. (m + 1)] + g * m
    BY <2>1
  <2>2. 1 .. (m + 1) = (1 .. m) \cup {m + 1} /\ (1 .. m) \in SUBSET (1 .. n) /\ m + 1 \notin 1 .. m
    BY <2>1
  <2>3. sum[1 .. (m + 1)] = outer[m + 1] + sum[1 .. m] /\ sum[1 .. m] \in Int
    BY <1>5, <2>2
  <2>4. outer[m + 1] \in Int
    BY <1>2
  <2>5. CASE m = 0
    <3>1. 1 .. m = {}
      BY <2>5
    <3>2. top[m + 1] = s /\ sum[1 .. m] = 0 /\ g * m = 0
      BY <1>4, <1>6, <2>5, <3>1
    <3> QED BY <2>3, <2>4, <3>2
  <2>6. CASE m # 0
    <3>1. m \in 1 .. n
      BY <2>1, <2>6
    <3>2. top[m] + outer[m] = s + sum[1 .. m] + g * (m - 1)
      BY <2>1, <3>1
    <3>3. top[m + 1] = top[m] + outer[m] + g
      BY <1>4, <2>1, <2>6
    <3>4. top[m] \in Int /\ outer[m] \in Int
      BY <1>2, <3>1
    <3>5. g * m = g * (m - 1) + g /\ g * (m - 1) \in Int
      BY <2>1
    <3> DEFINE x == g * m
               y == g * (m - 1)
               a == sum[1 .. m]
               t == top[m]
               u == outer[m]
               v == outer[m + 1]
               e == top[m + 1]
               b == sum[1 .. (m + 1)]
    <3>6. x = y + g /\ y \in Int /\ a \in Int /\ t \in Int /\ u \in Int /\ v \in Int
      BY <2>3, <2>4, <3>4, <3>5
    <3>7. t + u = s + a + y /\ e = t + u + g /\ b = v + a
      BY <2>3, <3>2, <3>3
    <3> HIDE DEF x, y, a, t, u, v, e, b
    <3>8. e + v = s + b + x
      <4>1. s \in Int /\ g \in Int
        BY <1>3
      <4>2. e = s + a + y + g
        BY <3>7
      <4>3. e + v = s + (v + a) + (y + g)
        BY <4>1, <4>2, <3>6
      <4> QED BY <3>6, <3>7, <4>3
    <3> QED BY <3>8 DEF x, v, e, b
  <2> QED BY <2>5, <2>6
<1>9. \A m \in 0 .. n : m \in T
  <2> HIDE DEF T
  <2>1. \A m \in 0 .. n - 1 : m \in T => m + 1 \in T
    BY <1>8
  <2> QED BY <1>7, <2>1, Counting
<1>10. \A m \in 1 .. n : P(m)
  BY <1>9
<1> QED BY <1>1, <1>3, <1>10

(***************************************************************************)
(* flex_layout_lines and flex_layout_line_children: whatever the sizes,    *)
(* gaps and alignments, the lines follow one another without overlapping,  *)
(* within the container if it has room for them and at its ends as         *)
(* align_content says, and a child that fits into its line is in it - as   *)
(* long as the free space is shared out without a remainder, as the code's *)
(* floats share it.                                                        *)
(***************************************************************************)
THEOREM LinesAreInPlace == CrossSpec /\ []CrossExact => []LinesHoldChildren
<1>1. HoldInv => LinesHoldChildren
  <2> SUFFICES ASSUME HoldInv, stage = "aligned" PROVE rows # <<>> => LinesHoldChildren
    BY DEF LinesHoldChildren
  <2>1. PICK n \in Nat \ {0} : n = Len(rows)
    BY DEF HoldInv, BaselineInv, CrossTypeOK
  <2>2. top \in [1 .. n -> Int] /\ outer \in [1 .. n -> Int] /\ CrossTypeOK
    BY <2>1 DEF HoldInv, BaselineInv, CrossTypeOK
  <2>3. PICK space \in Int, line \in Int, total \in Int :
          space = CrossSpace /\ line = LineGap /\ total = CrossTotal
    BY <2>2, CrossNumbers
  <2>4. PICK s \in Int, g \in Int : s = spread.start /\ g = spread.gap /\ g >= line
    BY <2>3, SpreadNumbers
  <2>5. \A k \in 1 .. n : top[k] = (IF k = 1 THEN s ELSE After(k - 1)) /\ Held(k)
    <3>1. \A k \in 1 .. n : ~Ahead(k)
      BY DEF Ahead
    <3> QED BY <2>1, <2>4, <3>1 DEF HoldInv
  <2>6. PICK sum : Adds(sum, outer, n)
    BY <2>2, SumsExist
  <2>7. total = sum[1 .. n] + line * (n - 1) /\ SpreadOK(total)
    BY <2>1, <2>2, <2>3, <2>6, TotalAdds DEF HoldInv
  <2>8. top[1] = s /\ top[n] + outer[n] = s + sum[1 .. n] + g * (n - 1)
    <3>1. \A m \in 1 .. n : top[m] + outer[m] = s + sum[1 .. m] + g * (m - 1)
      BY <2>1, <2>4, <2>6, LinesFollow
    <3>2. n \in 1 .. n /\ 1 \in 1 .. n
      OBVIOUS
    <3> QED BY <2>5, <3>1, <3>2
  <2>9. top[n] + outer[n] = s + total + (g - line) * (n - 1)
    <3>1. \A c \in Int : (g - line) * c = g * c - line * c /\ g * c \in Int /\ line * c \in Int
      OBVIOUS
    <3> DEFINE c == n - 1
               x == g * c
               y == line * c
               z == (g - line) * c
               a == sum[1 .. n]
               e == top[n] + outer[n]
    <3>2. c \in Int
      OBVIOUS
    <3>3. z = x - y /\ x \in Int /\ y \in Int
      BY <3>1, <3>2
    <3>4. a \in Int
      <4>1. 1 .. n \in SUBSET (1 .. n)
        OBVIOUS
      <4> QED BY <2>6, <4>1 DEF Adds
    <3>5. e = s + a + x /\ total = a + y
      BY <2>7, <2>8
    <3> HIDE DEF c, x, y, z, a, e
    <3>6. e = s + total + z
      BY <3>3, <3>4, <3>5
    <3> QED BY <3>6 DEF e, z, c
  <2>10. ASSUME NEW k \in 1 .. n - 1 PROVE top[k + 1] >= top[k] + outer[k] + line
    <3>1. k \in 1 .. n /\ k + 1 \in 1 .. n
      OBVIOUS
    <3>2. k + 1 # 1 /\ (k + 1) - 1 = k
      BY <3>1
    <3>3. top[k + 1] = After(k)
      BY <2>5, <3>1, <3>2
    <3>4. top[k] \in Int /\ outer[k] \in Int
      BY <2>2, <3>1
    <3> QED BY <2>4, <3>3, <3>4 DEF After
  <2>11. total <= space =>
           /\ s >= 0 /\ top[n] + outer[n] <= space
           /\ box.content \in {"start", "between", "stretch"} => s = 0
           /\ box.content \in {"end", "stretch"} \/ (box.content = "between" /\ n > 1) =>
                top[n] + outer[n] = space
    <3> DEFINE e == (g - line) * (n - 1)
               b == top[n] + outer[n]
    <3>1. total <= space =>
           /\ s >= 0 /\ s + total + e <= space
           /\ box.content \in {"start", "between", "stretch"} => s = 0
           /\ box.content \in {"end", "stretch"} \/ (box.content = "between" /\ n > 1) => s + total + e = space
      BY <2>1, <2>3, <2>4, <2>7 DEF SpreadOK
    <3>2. b = s + total + e
      BY <2>9
    <3> HIDE DEF e, b
    <3>3. total <= space =>
           /\ s >= 0 /\ b <= space
           /\ box.content \in {"start", "between", "stretch"} => s = 0
           /\ box.content \in {"end", "stretch"} \/ (box.content = "between" /\ n > 1) => b = space
      BY <3>1, <3>2
    <3> QED BY <3>3 DEF b
  <2>12. \A k \in 1 .. n : \A i \in DOMAIN rows[k] :
           LET item == rows[k][i]
               begin == placed[k][i].offset - Lead(item)
               end == placed[k][i].offset + placed[k][i].cross + Trail(item)
           IN end - begin <= outer[k] => begin >= 0 /\ end <= outer[k]
    BY <2>5 DEF Held
  <2> QED BY <2>1, <2>3, <2>8, <2>10, <2>11, <2>12 DEF LinesHoldChildren
<1> QED BY <1>1, HoldInvInit, HoldInvStep, PTL DEF CrossSpec

-----------------------------------------------------------------------------
(*****************************************************************************)
(* Grid: the tracks of an axis and the children in them.                   *)
(*****************************************************************************)

\* f is a list of n numbers.
Numbers(f, n) == n \in Nat /\ f \in [1 .. n -> Int]

\* What the library's sum of a function is.
LEMMA SumsOver ==
  ASSUME NEW n \in Nat, NEW f, NEW sum, Tallies(sum, f, n), NEW S \in SUBSET (1 .. n)
  PROVE  SumFunctionOnSet(f, S) = sum[S]
<1>t. f \in [1 .. n -> Int] /\ Adds(sum, f, n)
  BY DEF Tallies
<1> DEFINE Step(g, s) ==
      IF s = {} THEN 0 ELSE f[CHOOSE x \in s : TRUE] + g[s \ {CHOOSE x \in s : TRUE}]
<1> DEFINE iter == CHOOSE g : g = [s \in SUBSET S |-> Step(g, s)]
<1>1. SumFunctionOnSet(f, S) = iter[S]
  BY DEF SumFunctionOnSet, FoldFunctionOnSet, MapThenFoldSet
<1> DEFINE g == [s \in SUBSET S |-> sum[s]]
<1>2. \A s \in SUBSET S : g[s] = Step(g, s)
  <2> SUFFICES ASSUME NEW s \in SUBSET S PROVE g[s] = Step(g, s)
    OBVIOUS
  <2>1. CASE s = {}
    BY <1>t, <2>1 DEF Adds
  <2>2. CASE s # {}
    <3> DEFINE c == CHOOSE x \in s : TRUE
    <3>1. c \in s
      BY <2>2
    <3> HIDE DEF c
    <3>2. sum[s] = f[c] + sum[s \ {c}]
      BY <1>t, <3>1 DEF Adds
    <3>3. g[s] = f[c] + g[s \ {c}]
      BY <3>1, <3>2
    <3> HIDE DEF g
    <3> QED BY <2>2, <3>3 DEF c
  <2> QED BY <2>1, <2>2
<1>3. g = [s \in SUBSET S |-> Step(g, s)]
  <2>1. g = [s \in SUBSET S |-> g[s]]
    OBVIOUS
  <2> HIDE DEF g, Step
  <2> QED BY <1>2, <2>1
<1>4. iter = [s \in SUBSET S |-> Step(iter, s)]
  <2> HIDE DEF Step, g
  <2> QED BY <1>3
<1>5. FoldsUp(iter, f, S)
  <2> HIDE DEF iter
  <2> QED BY <1>4 DEF FoldsUp
<1> HIDE DEF iter
<1> QED BY <1>t, <1>1, <1>5, FoldsAdd

\* A list has sums.
LEMMA NumbersTally ==
  ASSUME NEW n \in Nat, NEW f, Numbers(f, n)
  PROVE  \E sum : Tallies(sum, f, n)
<1>1. f \in [1 .. n -> Int]
  BY DEF Numbers
<1>2. PICK sum : Adds(sum, f, n)
  BY <1>1, SumsExist
<1> QED BY <1>1, <1>2 DEF Tallies

\* The sum of a list over some of its places is a number, and nothing over none.
LEMMA TotalIs ==
  ASSUME NEW n \in Nat, NEW f, Numbers(f, n)
  PROVE  /\ SumFunctionOnSet(f, {}) = 0
         /\ \A S \in SUBSET (1 .. n) : SumFunctionOnSet(f, S) \in Int
<1>1. PICK sum : Tallies(sum, f, n)
  BY NumbersTally
<1>2. \A S \in SUBSET (1 .. n) : SumFunctionOnSet(f, S) = sum[S]
  BY <1>1, SumsOver
<1>3. sum[{}] = 0 /\ \A S \in SUBSET (1 .. n) : sum[S] \in Int
  BY <1>1 DEF Tallies, Adds
<1> QED BY <1>2, <1>3

\* Over two sets apart.
LEMMA TotalOfParts ==
  ASSUME NEW n \in Nat, NEW f, Numbers(f, n),
         NEW A \in SUBSET (1 .. n), NEW B \in SUBSET (1 .. n), A \cap B = {}
  PROVE  SumFunctionOnSet(f, A \cup B) = SumFunctionOnSet(f, A) + SumFunctionOnSet(f, B)
<1>1. PICK sum : Tallies(sum, f, n)
  BY NumbersTally
<1>2. \A S \in SUBSET (1 .. n) : SumFunctionOnSet(f, S) = sum[S]
  BY <1>1, SumsOver
<1>3. sum[A \cup B] = sum[A] + sum[B]
  BY <1>1, SumOfParts
<1>4. A \cup B \in SUBSET (1 .. n)
  OBVIOUS
<1> QED BY <1>2, <1>3, <1>4

\* Larger numbers, larger sum.
LEMMA TotalsCompare ==
  ASSUME NEW n \in Nat, NEW f, Numbers(f, n), NEW g, Numbers(g, n),
         NEW S \in SUBSET (1 .. n), \A i \in S : f[i] <= g[i]
  PROVE  SumFunctionOnSet(f, S) <= SumFunctionOnSet(g, S)
<1>1. PICK sum : Tallies(sum, f, n)
  BY NumbersTally
<1>2. PICK tot : Tallies(tot, g, n)
  BY NumbersTally
<1>3. SumFunctionOnSet(f, S) = sum[S]
  BY <1>1, SumsOver
<1>4. SumFunctionOnSet(g, S) = tot[S]
  BY <1>2, SumsOver
<1>5. sum[S] <= tot[S]
  BY <1>1, <1>2, SumsCompare
<1> QED BY <1>3, <1>4, <1>5

\* The same numbers, the same sum.
LEMMA TotalsAgree ==
  ASSUME NEW n \in Nat, NEW f, Numbers(f, n), NEW g, Numbers(g, n),
         NEW S \in SUBSET (1 .. n), \A i \in S : f[i] = g[i]
  PROVE  SumFunctionOnSet(f, S) = SumFunctionOnSet(g, S)
<1>1. (\A i \in S : f[i] <= g[i]) /\ (\A i \in S : g[i] <= f[i])
  BY DEF Numbers
<1>2. SumFunctionOnSet(f, S) <= SumFunctionOnSet(g, S)
  BY <1>1, TotalsCompare
<1>3. SumFunctionOnSet(g, S) <= SumFunctionOnSet(f, S)
  BY <1>1, TotalsCompare
<1>4. SumFunctionOnSet(f, S) \in Int /\ SumFunctionOnSet(g, S) \in Int
  BY TotalIs
<1> QED BY <1>2, <1>3, <1>4

\* Nothing negative adds up to nothing negative.
LEMMA TotalNotNegative ==
  ASSUME NEW n \in Nat, NEW f, Numbers(f, n), NEW S \in SUBSET (1 .. n), \A i \in S : 0 <= f[i]
  PROVE  0 <= SumFunctionOnSet(f, S)
<1> DEFINE z == [i \in 1 .. n |-> 0]
<1>1. Numbers(z, n) /\ (\A i \in S : z[i] <= f[i]) /\ (\A i \in S : z[i] = 0)
  BY DEF Numbers
<1> HIDE DEF z
<1>2. PICK tot : Tallies(tot, z, n)
  BY <1>1, NumbersTally
<1>3. SumFunctionOnSet(z, S) = tot[S]
  BY <1>2, SumsOver
<1>4. tot[S] = 0 * Cardinality(S)
  BY <1>1, <1>2, SumOfSame
<1>5. 0 * Cardinality(S) = 0
  <2>1. IsFiniteSet(S)
    BY Intervals, FS_Subset
  <2>2. Cardinality(S) \in Nat
    BY <2>1, FS_CardinalityType
  <2> QED BY <2>2
<1>6. SumFunctionOnSet(z, S) <= SumFunctionOnSet(f, S)
  BY <1>1, TotalsCompare
<1> QED BY <1>3, <1>4, <1>5, <1>6

\* At least c for each place of S.
LEMMA TotalAtLeast ==
  ASSUME NEW n \in Nat, NEW f, Numbers(f, n), NEW S \in SUBSET (1 .. n), NEW c \in Int, \A i \in S : c <= f[i]
  PROVE  c * Cardinality(S) <= SumFunctionOnSet(f, S)
<1> DEFINE z == [i \in 1 .. n |-> c]
<1>1. Numbers(z, n) /\ (\A i \in S : z[i] <= f[i]) /\ (\A i \in S : z[i] = c)
  BY DEF Numbers
<1> HIDE DEF z
<1>2. PICK tot : Tallies(tot, z, n)
  BY <1>1, NumbersTally
<1>3. SumFunctionOnSet(z, S) = tot[S]
  BY <1>2, SumsOver
<1>4. tot[S] = c * Cardinality(S)
  BY <1>1, <1>2, SumOfSame
<1>5. SumFunctionOnSet(z, S) <= SumFunctionOnSet(f, S)
  BY <1>1, TotalsCompare
<1> QED BY <1>3, <1>4, <1>5

\* Multiples.
LEMMA TotalsScale ==
  ASSUME NEW n \in Nat, NEW f, Numbers(f, n), NEW g, Numbers(g, n), NEW c, NEW d,
         NEW S \in SUBSET (1 .. n), InProportion(f, c, g, d, S)
  PROVE  Balanced(c, SumFunctionOnSet(f, S), d, SumFunctionOnSet(g, S))
<1>1. PICK sum : Tallies(sum, f, n)
  BY NumbersTally
<1>2. PICK tot : Tallies(tot, g, n)
  BY NumbersTally
<1>3. SumFunctionOnSet(f, S) = sum[S]
  BY <1>1, SumsOver
<1>4. SumFunctionOnSet(g, S) = tot[S]
  BY <1>2, SumsOver
<1>5. Balanced(c, sum[S], d, tot[S])
  BY <1>1, <1>2, SumsScale
<1> QED BY <1>3, <1>4, <1>5

\* What the computation is about.
GridTypeOK ==
  /\ gridStep \in {"tracks", "auto", "star", "positions", "children"}
  /\ def.gap \in Int /\ def.space \in Int
  /\ \E m \in Nat : def.tracks \in [1 .. m -> Tracks]
  /\ Len(residents) \in Nat /\ residents \in [1 .. Len(residents) -> Residents]
  /\ turn \in Nat \ {0}
  /\ gridStep # "tracks" =>
       /\ Len(lanes) \in Nat \ {0}
       /\ \A i \in Lane : lanes[i].mode \in {"auto", "pixel", "star"} /\ lanes[i].value \in Int
       /\ Numbers(sizes, Len(lanes))
  /\ cells \in Seq([from : Int, size : Int])

\* The lengths of a child.
LEMMA ResidentIs ==
  ASSUME GridTypeOK, NEW k \in 1 .. Len(residents)
  PROVE  /\ U16(residents[k].index) \in Nat /\ U16(residents[k].span) \in Nat
         /\ residents[k].need * Unit \in Nat
         /\ residents[k].lead * Unit \in Nat /\ residents[k].trail * Unit \in Nat
         /\ MarginsOf(k) = residents[k].lead * Unit + residents[k].trail * Unit
         /\ MarginsOf(k) \in Nat /\ NeedOf(k) \in Nat
<1>1. residents[k] \in Residents
  BY DEF GridTypeOK
<1>2. PICK i \in Nat, s \in Nat, a \in Nat, b \in Nat, c \in Nat :
        /\ residents[k].index = i /\ residents[k].span = s /\ residents[k].need = a
        /\ residents[k].lead = b /\ residents[k].trail = c
  BY <1>1, GridAssumption
<1>3. PICK u \in Nat : u = Unit
  BY UnitAssumption
<1>4. a * u \in Nat /\ b * u \in Nat /\ c * u \in Nat /\ (b + c) * u = b * u + c * u
  OBVIOUS
<1>5. i % 65536 \in Nat /\ s % 65536 \in Nat
  OBVIOUS
<1>6. MarginsOf(k) = b * u + c * u
  BY <1>2, <1>3, <1>4 DEF MarginsOf
<1>7. MarginsOf(k) \in Nat
  BY <1>4, <1>6
<1>8. NeedOf(k) = a * u + MarginsOf(k)
  BY <1>2, <1>3 DEF NeedOf
<1>9. NeedOf(k) \in Nat
  BY <1>4, <1>7, <1>8
<1> QED BY <1>2, <1>3, <1>4, <1>5, <1>6, <1>7, <1>9 DEF U16

\* A child is in one or more tracks next to each other.
LEMMA SpanIs ==
  ASSUME GridTypeOK, gridStep # "tracks", NEW k \in 1 .. Len(residents)
  PROVE  \E a, b \in Lane : a <= b /\ First(k) = a /\ Span(k) = a .. b
<1>1. PICK n \in Nat \ {0} : n = Len(lanes) /\ Lane = 1 .. n
  BY DEF GridTypeOK, Lane
<1>2. PICK i \in Nat, s \in Nat : U16(residents[k].index) = i /\ U16(residents[k].span) = s
  BY ResidentIs
<1> DEFINE a == 1 + Least(i, n - 1)
           w == IF s = 0 THEN 1 ELSE s
           b == Least(a + w - 1, n)
<1>3. a \in 1 .. n
  BY DEF Least
<1>4. w \in Nat /\ w >= 1
  OBVIOUS
<1>5. First(k) = a /\ Span(k) = a .. b
  BY <1>1, <1>2 DEF First, Span
<1> HIDE DEF a, w
<1>6. b \in 1 .. n /\ a <= b
  BY <1>3, <1>4 DEF Least
<1> QED BY <1>1, <1>3, <1>5, <1>6

\* The gaps between tracks.
LEMMA GapsAre ==
  ASSUME GridTypeOK
  PROVE  /\ GridGap \in Nat
         /\ \A n \in Nat : GapsBetween(n) \in Nat
         /\ \A n \in Nat \ {0} : GapsBetween(n) = GridGap * (n - 1) /\ GridGap * (n - 1) \in Nat
<1>1. PICK g \in Nat : g = GridGap
  <2>1. def.gap \in Int
    BY DEF GridTypeOK
  <2> QED BY <2>1 DEF GridGap, AtLeastZero
<1>2. \A n \in Nat \ {0} : g * (n - 1) \in Nat
  OBVIOUS
<1>3. \A n \in Nat \ {0} : n > 1 \/ (n = 1 /\ g * (n - 1) = 0)
  OBVIOUS
<1>4. \A n \in Nat \ {0} : GapsBetween(n) = g * (n - 1)
  BY <1>1, <1>3 DEF GapsBetween
<1>5. \A n \in Nat : GapsBetween(n) \in Nat
  BY <1>1, <1>2 DEF GapsBetween
<1> QED BY <1>1, <1>2, <1>4, <1>5

\* What the weights of the star tracks add up to.
Weights == [i \in Lane |-> StarWeight(i)]

\* It is what the library's sum makes of them.
LEMMA WeightsAdd ==
  ASSUME GridTypeOK, gridStep # "tracks"
  PROVE  /\ Numbers(Weights, Len(lanes)) /\ \A i \in Lane : Weights[i] \in Nat \ {0} /\ Weights[i] = StarWeight(i)
         /\ StarWeights = SumFunctionOnSet(Weights, Of("star"))
<1>1. PICK n \in Nat \ {0} : n = Len(lanes) /\ Lane = 1 .. n
  BY DEF GridTypeOK, Lane
<1>2. \A i \in 1 .. n : StarWeight(i) \in Nat \ {0}
  BY <1>1 DEF GridTypeOK, StarWeight
<1>3. Weights = [i \in 1 .. n |-> StarWeight(i)]
  BY <1>1 DEF Weights
<1>4. Numbers(Weights, n) /\ \A i \in 1 .. n : Weights[i] = StarWeight(i)
  BY <1>2, <1>3 DEF Numbers
<1>5. PICK f : f = Weights
  OBVIOUS
<1>6. PICK sum : Tallies(sum, f, n)
  BY <1>4, <1>5, NumbersTally
<1>7. PICK S : S = Of("star") /\ S \in SUBSET (1 .. n)
  BY <1>1 DEF Of
<1>8. SumFunctionOnSet(f, S) = sum[S]
  BY <1>6, <1>7, SumsOver
<1>t. f \in [1 .. n -> Int] /\ Adds(sum, f, n)
  BY <1>6 DEF Tallies
<1> DEFINE Step(g, s) ==
      IF s = {} THEN 0 ELSE StarWeight(CHOOSE x \in s : TRUE) + g[s \ {CHOOSE x \in s : TRUE}]
<1> DEFINE iter == CHOOSE g : g = [s \in SUBSET S |-> Step(g, s)]
<1>9. StarWeights = iter[S]
  BY <1>7 DEF StarWeights, MapThenSumSet, MapThenFoldSet
<1>10. \A s \in SUBSET S : s # {} => f[CHOOSE x \in s : TRUE] = StarWeight(CHOOSE x \in s : TRUE)
  <2>1. \A s \in SUBSET S : s # {} => (CHOOSE x \in s : TRUE) \in 1 .. n
    BY <1>7
  <2> QED BY <1>4, <1>5, <2>1
<1> DEFINE g == [s \in SUBSET S |-> sum[s]]
<1>11. \A s \in SUBSET S : g[s] = Step(g, s)
  <2> SUFFICES ASSUME NEW s \in SUBSET S PROVE g[s] = Step(g, s)
    OBVIOUS
  <2>1. CASE s = {}
    BY <1>t, <2>1 DEF Adds
  <2>2. CASE s # {}
    <3> DEFINE c == CHOOSE x \in s : TRUE
    <3>1. c \in s /\ f[c] = StarWeight(c)
      BY <1>10, <2>2
    <3> HIDE DEF c
    <3>2. sum[s] = f[c] + sum[s \ {c}]
      BY <1>7, <1>t, <3>1 DEF Adds
    <3>3. g[s] = StarWeight(c) + g[s \ {c}]
      BY <3>1, <3>2
    <3> HIDE DEF g
    <3> QED BY <2>2, <3>3 DEF c
  <2> QED BY <2>1, <2>2
<1>12. g = [s \in SUBSET S |-> Step(g, s)]
  <2>1. g = [s \in SUBSET S |-> g[s]]
    OBVIOUS
  <2> HIDE DEF g, Step
  <2> QED BY <1>11, <2>1
<1>13. iter = [s \in SUBSET S |-> Step(iter, s)]
  <2> HIDE DEF Step, g
  <2> QED BY <1>12
<1>14. FoldsUp(iter, f, S)
  <2>1. \A s \in SUBSET S : Step(iter, s) =
          IF s = {} THEN 0 ELSE f[CHOOSE x \in s : TRUE] + iter[s \ {CHOOSE x \in s : TRUE}]
    <3> HIDE DEF iter
    <3> QED BY <1>10
  <2> HIDE DEF iter, Step
  <2> QED BY <1>13, <2>1 DEF FoldsUp
<1>15. iter[S] = sum[S]
  <2> HIDE DEF iter
  <2> QED BY <1>t, <1>7, <1>14, FoldsAdd
<1>16. StarWeights = SumFunctionOnSet(Weights, Of("star"))
  BY <1>5, <1>7, <1>8, <1>9, <1>15
<1> QED BY <1>1, <1>2, <1>4, <1>16

-----------------------------------------------------------------------------
(* What holds of them on the way.                                          *)

\* Where the tracks have to share something, the shares are whole.
GridExact ==
  /\ gridStep = "auto" /\ turn <= Len(residents) /\ Span(turn) \cap Of("auto") # {} /\ Missing(turn) > 0 =>
       Missing(turn) % Cardinality(Span(turn) \cap Of("auto")) = 0
  /\ gridStep = "star" => \A i \in Of("star") : (SpaceLeft * StarWeight(i)) % StarWeights = 0

\* No size is negative, and no auto track wider than some child in it makes it.
SizesOK ==
  \A i \in Lane :
    /\ 0 <= sizes[i]
    /\ i \in Of("auto") /\ sizes[i] > 0 =>
         \E k \in 1 .. Len(residents) : i \in Span(k) /\ sizes[i] <= NeedOf(k)

\* Child k has what it needs.
Enough(k) ==
  Span(k) \cap Of("auto") # {} =>
    NeedOf(k) <= SizeOfLanes(Span(k)) + GapsBetween(Cardinality(Span(k)))

\* The star tracks share what is left, in proportion to their weights.
StarsShare ==
  /\ Of("star") # {} => SizeOfLanes(Of("star")) = SpaceLeft
  /\ \A i, j \in Of("star") : sizes[i] * StarWeight(j) = sizes[j] * StarWeight(i)

\* What child k gets.
CellOf(k) == SizeOfLanes(Span(k)) + GapsBetween(Cardinality(Span(k)))

\* What holds between the steps of a pass.
GridInv ==
  /\ GridTypeOK
  /\ gridStep = "tracks" => turn = 1
  /\ gridStep # "children" => cells = <<>>
  /\ gridStep # "tracks" =>
       /\ SizesOK
       /\ \A k \in 1 .. Len(residents) : (gridStep = "auto" => k < turn) => Enough(k)
  /\ gridStep = "auto" => \A i \in Lane : i \notin Of("auto") => sizes[i] = 0
  /\ gridStep = "star" => \A i \in Of("star") : sizes[i] = 0
  /\ gridStep \in {"positions", "children"} => StarsShare
  /\ gridStep = "children" =>
       /\ starts = [i \in Lane |-> SizeOfLanes(1 .. i - 1) + GridGap * (i - 1)]
       /\ Len(cells) = turn - 1 /\ turn - 1 <= Len(residents)
       /\ \A k \in 1 .. Len(cells) :
            cells[k] = [from |-> starts[First(k)] + residents[k].lead * Unit,
                        size |-> AtLeastZero(CellOf(k) - MarginsOf(k))]

\* A grid that has no tracks yet.
LEMMA GridInvInit == GridInit => GridInv
<1> SUFFICES ASSUME GridInit PROVE GridInv
  OBVIOUS
<1>1. /\ gridStep = "tracks" /\ turn = 1 /\ cells = <<>>
      /\ residents \in SeqOf(Residents, MaxResidents)
      /\ def \in [tracks : SeqOf(Tracks, MaxTracks), gap : {g * Unit : g \in GridGaps},
                  space : {s * Unit : s \in GridSpaces}]
  BY DEF GridInit
<1>2. def.tracks \in SeqOf(Tracks, MaxTracks) /\ def.gap \in {g * Unit : g \in GridGaps}
      /\ def.space \in {s * Unit : s \in GridSpaces}
  BY <1>1
<1>3. PICK u \in Nat : u = Unit
  BY UnitAssumption
<1>4. def.gap \in Int
  <2>1. PICK g \in GridGaps : def.gap = g * Unit
    BY <1>2
  <2>2. g \in Int
    BY GridAssumption
  <2> QED BY <1>3, <2>1, <2>2
<1>5. def.space \in Int
  <2>1. PICK g \in GridSpaces : def.space = g * Unit
    BY <1>2
  <2>2. g \in Int
    BY GridAssumption
  <2> QED BY <1>3, <2>1, <2>2
<1>6. MaxTracks \in Nat /\ MaxResidents \in Nat
  BY GridAssumption
<1>7. \E m \in Nat : def.tracks \in [1 .. m -> Tracks]
  <2>1. PICK m \in 0 .. MaxTracks : def.tracks \in [1 .. m -> Tracks]
    BY <1>2 DEF SeqOf
  <2>2. m \in Nat
    BY <1>6
  <2> QED BY <2>1, <2>2
<1>8. Len(residents) \in Nat /\ residents \in [1 .. Len(residents) -> Residents]
  <2>1. PICK m \in 0 .. MaxResidents : residents \in [1 .. m -> Residents]
    BY <1>1 DEF SeqOf
  <2>2. m \in Nat
    BY <1>6
  <2>3. residents \in Seq(Residents)
    BY <2>1, <2>2
  <2>4. Len(residents) = m
    BY <2>1, <2>2
  <2> QED BY <2>1, <2>2, <2>4
<1>9. cells \in Seq([from : Int, size : Int])
  BY <1>1
<1> QED BY <1>1, <1>4, <1>5, <1>7, <1>8, <1>9 DEF GridInv, GridTypeOK

\* What depends on the grid and its children only.
LEMMA GridKept ==
  ASSUME lanes' = lanes, residents' = residents, def' = def
  PROVE  /\ Lane' = Lane /\ Of("auto")' = Of("auto") /\ Of("star")' = Of("star") /\ Of("pixel")' = Of("pixel")
         /\ \A k : First(k)' = First(k) /\ Span(k)' = Span(k)
         /\ \A k : NeedOf(k)' = NeedOf(k) /\ MarginsOf(k)' = MarginsOf(k)
         /\ \A n : GapsBetween(n)' = GapsBetween(n)
         /\ GridGap' = GridGap
         /\ \A i : StarWeight(i)' = StarWeight(i)
<1>1. Lane' = Lane
  BY DEF Lane
<1>2. Of("auto")' = Of("auto") /\ Of("star")' = Of("star") /\ Of("pixel")' = Of("pixel")
  BY <1>1 DEF Of
<1>3. \A k : First(k)' = First(k)
  BY DEF First
<1>4. \A k : Span(k)' = Span(k)
  BY <1>3 DEF Span
<1>5. \A k : MarginsOf(k)' = MarginsOf(k)
  BY DEF MarginsOf
<1>6. \A k : NeedOf(k)' = NeedOf(k)
  BY <1>5 DEF NeedOf
<1>7. GridGap' = GridGap
  BY DEF GridGap
<1>8. \A n : GapsBetween(n)' = GapsBetween(n)
  BY <1>7 DEF GapsBetween
<1>9. \A i : StarWeight(i)' = StarWeight(i)
  BY DEF StarWeight
<1> QED BY <1>1, <1>2, <1>3, <1>4, <1>5, <1>6, <1>7, <1>8, <1>9

\* New sizes are numbers, too.
LEMMA TypeKept ==
  ASSUME GridTypeOK, gridStep # "tracks", gridStep' \in {"auto", "star", "positions", "children"},
         lanes' = lanes, residents' = residents, def' = def, cells' = cells,
         turn' \in Nat \ {0}, Numbers(sizes', Len(lanes))
  PROVE  GridTypeOK'
<1>1. Lane' = Lane
  BY GridKept
<1>2. /\ Len(lanes') \in Nat \ {0}
      /\ \A i \in Lane' : lanes'[i].mode \in {"auto", "pixel", "star"} /\ lanes'[i].value \in Int
      /\ Numbers(sizes', Len(lanes'))
  BY <1>1 DEF GridTypeOK
<1>3. /\ def'.gap \in Int /\ def'.space \in Int
      /\ \E m \in Nat : def'.tracks \in [1 .. m -> Tracks]
      /\ Len(residents') \in Nat /\ residents' \in [1 .. Len(residents') -> Residents]
      /\ cells' \in Seq([from : Int, size : Int])
  BY DEF GridTypeOK
<1> QED BY <1>2, <1>3 DEF GridTypeOK

\* What the tracks of a child are, once more, for their sums.
LEMMA SpanIsLanes ==
  ASSUME GridTypeOK, gridStep # "tracks", NEW k \in 1 .. Len(residents)
  PROVE  /\ Span(k) \in SUBSET (1 .. Len(lanes))
         /\ Cardinality(Span(k)) \in Nat \ {0}
         /\ GapsBetween(Cardinality(Span(k))) \in Nat
         /\ SizeOfLanes(Span(k)) \in Int
<1>1. PICK n \in Nat \ {0} : n = Len(lanes) /\ Lane = 1 .. n
  BY DEF GridTypeOK, Lane
<1>2. PICK a \in 1 .. n, b \in 1 .. n : a <= b /\ Span(k) = a .. b
  BY <1>1, SpanIs
<1>3. Span(k) \in SUBSET (1 .. n)
  BY <1>2
<1>4. Cardinality(Span(k)) = b - a + 1
  BY <1>2, FS_Interval
<1>5. Cardinality(Span(k)) \in Nat \ {0}
  BY <1>2, <1>4
<1>6. GapsBetween(Cardinality(Span(k))) \in Nat
  BY <1>5, GapsAre
<1>7. Numbers(sizes, n)
  BY <1>1 DEF GridTypeOK
<1>8. SizeOfLanes(Span(k)) \in Int
  BY <1>3, <1>7, TotalIs DEF SizeOfLanes
<1> QED BY <1>1, <1>3, <1>5, <1>6, <1>8

\* Tracks that become no smaller keep a child served.
LEMMA EnoughStays ==
  ASSUME GridTypeOK, GridTypeOK', gridStep # "tracks", gridStep' # "tracks",
         lanes' = lanes, residents' = residents, def' = def,
         \A i \in Lane : sizes[i] <= sizes'[i],
         NEW k \in 1 .. Len(residents), Enough(k)
  PROVE  Enough(k)'
<1>1. PICK n \in Nat \ {0} : n = Len(lanes) /\ Lane = 1 .. n
  BY DEF GridTypeOK, Lane
<1>2. PICK f : f = sizes /\ Numbers(f, n)
  BY <1>1 DEF GridTypeOK
<1>3. PICK g : g = sizes' /\ Numbers(g, n)
  BY <1>1 DEF GridTypeOK
<1>4. PICK S : S = Span(k) /\ S \in SUBSET (1 .. n) /\ GapsBetween(Cardinality(S)) \in Nat
  BY <1>1, SpanIsLanes
<1>5. \A i \in S : f[i] <= g[i]
  BY <1>1, <1>2, <1>3, <1>4
<1>6. SumFunctionOnSet(f, S) <= SumFunctionOnSet(g, S)
  BY <1>2, <1>3, <1>4, <1>5, TotalsCompare
<1>7. SumFunctionOnSet(f, S) \in Int /\ SumFunctionOnSet(g, S) \in Int
  BY <1>2, <1>3, <1>4, TotalIs
<1>8. NeedOf(k) \in Int
  BY ResidentIs
<1>9. SizeOfLanes(S) = SumFunctionOnSet(f, S) /\ SizeOfLanes(S)' = SumFunctionOnSet(g, S)
  BY <1>2, <1>3 DEF SizeOfLanes
<1> DEFINE x == SumFunctionOnSet(f, S)
           y == SumFunctionOnSet(g, S)
           gaps == GapsBetween(Cardinality(S))
<1>10. Span(k) \cap Of("auto") # {} => NeedOf(k) <= x + gaps
  BY <1>4, <1>9 DEF Enough
<1>11. Span(k) \cap Of("auto") # {} => NeedOf(k) <= y + gaps
  <2> HIDE DEF x, y, gaps
  <2>1. x \in Int /\ y \in Int /\ x <= y /\ gaps \in Int
    BY <1>4, <1>6, <1>7 DEF x, y, gaps
  <2> QED BY <1>8, <1>10, <2>1
<1>12. /\ Span(k)' = Span(k) /\ Of("auto")' = Of("auto") /\ NeedOf(k)' = NeedOf(k)
       /\ \A m : GapsBetween(m)' = GapsBetween(m)
  BY GridKept
<1> QED BY <1>3, <1>4, <1>11, <1>12 DEF Enough, SizeOfLanes

\* A pass begins.
LEMMA InitTracksKeeps == ASSUME GridInv, InitTracks PROVE GridInv'
<1>1. /\ gridStep = "tracks" /\ gridStep' = "auto" /\ turn = 1 /\ turn' = turn /\ def' = def
      /\ residents' = residents /\ cells' = cells /\ cells = <<>> /\ GridTypeOK
  BY DEF GridInv, InitTracks
<1>2. PICK m \in Nat : def.tracks \in [1 .. m -> Tracks]
  BY <1>1 DEF GridTypeOK
<1>3. PICK n \in Nat \ {0} :
        /\ Len(lanes') = n
        /\ \A i \in 1 .. n : lanes'[i].mode \in {"auto", "pixel", "star"} /\ lanes'[i].value \in Int
  <2>1. CASE def.tracks = <<>>
    <3>1. lanes' = <<[mode |-> "star", value |-> 1]>>
      BY <2>1 DEF InitTracks
    <3>2. Len(lanes') = 1 /\ lanes'[1].mode = "star" /\ lanes'[1].value = 1
      BY <3>1
    <3> QED BY <3>2
  <2>2. CASE def.tracks # <<>>
    <3>1. lanes' = def.tracks
      BY <2>2 DEF InitTracks
    <3>2. m # 0
      BY <1>2, <2>2
    <3>3. def.tracks \in Seq(Tracks)
      BY <1>2
    <3>4. Len(def.tracks) = m
      BY <1>2, <3>3
    <3>5. \A i \in 1 .. m : def.tracks[i] \in Tracks
      BY <1>2
    <3>6. \A i \in 1 .. m : lanes'[i].mode \in {"auto", "pixel", "star"} /\ lanes'[i].value \in Int
      BY <3>1, <3>5, GridAssumption
    <3> QED BY <3>1, <3>2, <3>4, <3>6
  <2> QED BY <2>1, <2>2
<1>4. Lane' = 1 .. n
  BY <1>3 DEF Lane
<1>5. sizes' = [i \in 1 .. n |-> 0]
  BY <1>3 DEF InitTracks
<1>6. Numbers(sizes', n)
  BY <1>5 DEF Numbers
<1>7. GridTypeOK'
  BY <1>1, <1>3, <1>4, <1>6 DEF GridTypeOK
<1>8. SizesOK'
  BY <1>4, <1>5 DEF SizesOK
<1> QED BY <1>1, <1>4, <1>5, <1>7, <1>8 DEF GridInv, GridTypeOK

\* A larger divisor, a smaller share.
LEMMA ShareOfMissing ==
  ASSUME NEW x \in Nat, NEW c \in Nat \ {0}
  PROVE  x \div c \in Nat /\ x \div c <= x /\ (x % c = 0 => (x \div c) * c = x)
<1>1. x \div c \in Nat /\ c * (x \div c) <= x /\ (x % c = 0 => c * (x \div c) = x)
  BY ShareFits
<1> DEFINE d == x \div c
<1>2. d * c = c * d /\ c * d = d + (c - 1) * d /\ (c - 1) * d >= 0
  <2>1. d \in Nat /\ c - 1 \in Nat
    BY <1>1
  <2> HIDE DEF d
  <2> QED BY <2>1
<1>3. (c - 1) * d \in Int /\ c * d \in Int
  <2>1. d \in Nat
    BY <1>1
  <2> HIDE DEF d
  <2> QED BY <2>1
<1> DEFINE y == (c - 1) * d
           z == c * d
<1>4. d <= x
  <2>1. d \in Nat /\ z <= x /\ z = d + y /\ y >= 0 /\ y \in Int
    BY <1>1, <1>2, <1>3
  <2> HIDE DEF d, y, z
  <2> QED BY <2>1
<1> QED BY <1>1, <1>2, <1>4

\* A child's auto tracks grow to what it needs.
LEMMA GrowAutoKeeps == ASSUME GridInv, GrowAuto, GridExact PROVE GridInv'
<1>1. /\ gridStep = "auto" /\ gridStep' = "auto" /\ turn' = turn + 1 /\ def' = def /\ lanes' = lanes
      /\ residents' = residents /\ cells' = cells /\ cells = <<>> /\ GridTypeOK
      /\ turn <= Len(residents)
  BY DEF GridInv, GrowAuto
<1>2. PICK n \in Nat \ {0} : n = Len(lanes) /\ Lane = 1 .. n
  BY <1>1 DEF GridTypeOK, Lane
<1>3. PICK f : f = sizes /\ Numbers(f, n)
  BY <1>1, <1>2 DEF GridTypeOK
<1>4. PICK k \in 1 .. Len(residents) : k = turn
  BY <1>1 DEF GridTypeOK
<1>5. PICK S \in SUBSET (1 .. n) : /\ S = Span(k)
                                    /\ GapsBetween(Cardinality(S)) \in Nat
  BY <1>1, <1>2, <1>4, SpanIsLanes
<1>6. PICK T \in SUBSET (1 .. n), R \in SUBSET (1 .. n) :
        /\ T = S \cap Of("auto") /\ R = S \ Of("auto") /\ T \cap R = {} /\ T \cup R = S
        /\ \A i \in R : i \notin T
        /\ \A i \in T : i \in Of("auto") /\ i \in S
  <2> DEFINE both == S \cap Of("auto")
             rest == S \ Of("auto")
  <2>1. both \in SUBSET (1 .. n) /\ rest \in SUBSET (1 .. n)
    OBVIOUS
  <2>2. both \cap rest = {} /\ both \cup rest = S
    OBVIOUS
  <2>3. (\A i \in rest : i \notin both) /\ (\A i \in both : i \in Of("auto") /\ i \in S)
    OBVIOUS
  <2>4. both = S \cap Of("auto") /\ rest = S \ Of("auto")
    OBVIOUS
  <2> HIDE DEF both, rest
  <2> QED BY <2>1, <2>2, <2>3, <2>4
<1>7. PICK gaps \in Nat : gaps = GapsBetween(Cardinality(S))
  BY <1>5
<1>8. PICK need \in Nat : need = NeedOf(k)
  BY <1>1, <1>4, ResidentIs
<1>9. PICK x \in Nat : x = SumFunctionOnSet(f, R)
  <2>1. \A i \in R : 0 <= f[i]
    BY <1>1, <1>2, <1>3 DEF GridInv, SizesOK
  <2>2. 0 <= SumFunctionOnSet(f, R) /\ SumFunctionOnSet(f, R) \in Int
    BY <1>3, <1>6, <2>1, TotalNotNegative, TotalIs
  <2> QED BY <2>2
<1>10. Missing(k) = need - x - gaps
  BY <1>3, <1>5, <1>6, <1>7, <1>8, <1>9 DEF Missing, SizeOfLanes
<1>11. PICK c \in Nat : c = Cardinality(T) /\ (T # {} => c # 0)
  <2>1. IsFiniteSet(T)
    BY Intervals, FS_Subset
  <2> QED BY <2>1, FS_CardinalityType, FS_EmptySet
<1> DEFINE missing == need - x - gaps
           share == missing \div c
           grows == T # {} /\ missing > 0
           h == [i \in 1 .. n |-> IF i \in T /\ share > f[i] THEN share ELSE f[i]]
<1>12. sizes' = IF grows THEN h ELSE f
  <2>1. NeedPerAuto(k) = share
    BY <1>5, <1>6, <1>10, <1>11 DEF NeedPerAuto
  <2>2. sizes' = IF T # {} /\ missing > 0
                 THEN [i \in Lane |-> IF i \in T /\ NeedPerAuto(k) > sizes[i] THEN NeedPerAuto(k) ELSE sizes[i]]
                 ELSE sizes
    BY <1>4, <1>5, <1>6, <1>10 DEF GrowAuto
  <2> HIDE DEF share, missing
  <2> QED BY <1>2, <1>3, <2>1, <2>2
<1>13. grows => share \in Nat /\ share <= missing /\ share * c = missing
  <2>1. missing % c = 0 \/ ~grows
    <3>1. T # {} /\ missing > 0 => Missing(k) % Cardinality(T) = 0
      BY <1>1, <1>4, <1>5, <1>6, <1>10 DEF GridExact
    <3> QED BY <1>10, <1>11, <3>1
  <2> SUFFICES ASSUME grows PROVE share \in Nat /\ share <= missing /\ share * c = missing
    OBVIOUS
  <2>2. missing \in Nat /\ c \in Nat \ {0} /\ missing % c = 0
    BY <1>11, <2>1
  <2> HIDE DEF missing
  <2> QED BY <2>2, ShareOfMissing
<1>14. \A i \in 1 .. n : f[i] \in Int
  BY <1>3 DEF Numbers
<1>15. PICK g : g = sizes' /\ Numbers(g, n)
  <2>1. grows => Numbers(h, n)
    <3> HIDE DEF share
    <3> QED BY <1>13, <1>14 DEF Numbers
  <2> HIDE DEF h
  <2> QED BY <1>3, <1>12, <2>1
<1> HIDE DEF share, missing
<1>16. /\ \A i \in 1 .. n : f[i] <= g[i]
       /\ \A i \in 1 .. n : i \notin T => g[i] = f[i]
       /\ \A i \in 1 .. n : g[i] = f[i] \/ (grows /\ i \in T /\ g[i] = share)
       /\ \A i \in T : grows => share <= g[i]
  <2>1. CASE grows
    <3>1. \A i \in 1 .. n : g[i] = IF i \in T /\ share > f[i] THEN share ELSE f[i]
      BY <1>12, <1>15, <2>1
    <3>2. share \in Int
      BY <1>13, <2>1
    <3> QED BY <1>14, <2>1, <3>1, <3>2
  <2>2. CASE ~grows
    BY <1>12, <1>14, <1>15, <2>2
  <2> QED BY <2>1, <2>2
<1>17. GridTypeOK'
  <2>1. Numbers(sizes', Len(lanes))
    BY <1>2, <1>15
  <2>2. turn' \in Nat \ {0}
    BY <1>1 DEF GridTypeOK
  <2> QED BY <1>1, <2>1, <2>2, TypeKept
<1>18. /\ Lane' = Lane /\ Of("auto")' = Of("auto") /\ \A j : Span(j)' = Span(j) /\ NeedOf(j)' = NeedOf(j)
       /\ \A m : GapsBetween(m)' = GapsBetween(m)
  BY <1>1, GridKept
<1>19. grows => share <= need
  <2>1. missing = need - x - gaps
    BY DEF missing
  <2> QED BY <1>13, <2>1
<1>20. SizesOK'
  <2> SUFFICES ASSUME NEW i \in 1 .. n
               PROVE  /\ 0 <= g[i]
                      /\ i \in Of("auto") /\ g[i] > 0 =>
                           \E j \in 1 .. Len(residents) : i \in Span(j) /\ g[i] <= NeedOf(j)
    BY <1>1, <1>2, <1>15, <1>18 DEF SizesOK
  <2>1. /\ 0 <= f[i]
        /\ i \in Of("auto") /\ f[i] > 0 =>
             \E j \in 1 .. Len(residents) : i \in Span(j) /\ f[i] <= NeedOf(j)
    BY <1>1, <1>2, <1>3 DEF GridInv, SizesOK
  <2>2. CASE g[i] = f[i]
    BY <2>1, <2>2
  <2>3. CASE grows /\ i \in T /\ g[i] = share
    BY <1>5, <1>6, <1>8, <1>13, <1>19, <2>3
  <2> QED BY <1>16, <2>2, <2>3
<1>21. Enough(k)'
  <2> SUFFICES ASSUME T # {} PROVE need <= SumFunctionOnSet(g, S) + gaps
    BY <1>5, <1>6, <1>7, <1>8, <1>15, <1>18 DEF Enough, SizeOfLanes
  <2>1. SumFunctionOnSet(g, S) = SumFunctionOnSet(g, T) + SumFunctionOnSet(g, R)
    <3>1. SumFunctionOnSet(g, T \cup R) = SumFunctionOnSet(g, T) + SumFunctionOnSet(g, R)
      <4>1. T \cap R = {}
        BY <1>6
      <4>2. n \in Nat /\ Numbers(g, n)
        BY <1>2, <1>15
      <4> QED BY <4>1, <4>2, TotalOfParts
    <3> QED BY <1>6, <3>1
  <2>2. SumFunctionOnSet(g, R) = x
    <3>1. \A i \in R : f[i] = g[i]
      BY <1>6, <1>16
    <3>2. SumFunctionOnSet(f, R) = SumFunctionOnSet(g, R)
      BY <1>3, <1>15, <3>1, TotalsAgree
    <3> QED BY <1>9, <3>2
  <2>3. SumFunctionOnSet(g, T) \in Int
    BY <1>15, TotalIs
  <2>4. missing = need - x - gaps
    BY DEF missing
  <2>5. CASE grows
    <3>1. share * c <= SumFunctionOnSet(g, T)
      <4>1. share \in Int /\ \A i \in T : share <= g[i]
        BY <1>13, <1>16, <2>5
      <4> QED BY <1>11, <1>15, <4>1, TotalAtLeast
    <3>2. missing <= SumFunctionOnSet(g, T)
      BY <1>13, <2>5, <3>1
    <3> QED BY <2>1, <2>2, <2>3, <2>4, <3>2
  <2>6. CASE ~grows
    <3>1. missing <= 0
      BY <2>4, <2>6
    <3>2. 0 <= SumFunctionOnSet(g, T)
      <4>1. \A i \in T : 0 <= g[i]
        BY <1>2, <1>15, <1>18, <1>20 DEF SizesOK
      <4> QED BY <1>15, <4>1, TotalNotNegative
    <3> QED BY <2>1, <2>2, <2>3, <2>4, <3>1, <3>2
  <2> QED BY <2>5, <2>6
<1>22. ASSUME NEW j \in 1 .. Len(residents), j < turn' PROVE Enough(j)'
  <2>1. CASE j = k
    BY <1>21, <2>1
  <2>2. CASE j # k
    <3>1. j < turn
      BY <1>1, <1>4, <1>22, <2>2 DEF GridTypeOK
    <3>2. Enough(j)
      BY <1>1, <3>1 DEF GridInv
    <3>3. \A i \in Lane : sizes[i] <= sizes'[i]
      BY <1>2, <1>3, <1>15, <1>16
    <3> QED BY <1>1, <1>17, <3>2, <3>3, EnoughStays
  <2> QED BY <2>1, <2>2
<1>23. \A i \in Lane : i \notin Of("auto") => sizes'[i] = 0
  <2> SUFFICES ASSUME NEW i \in 1 .. n, i \notin Of("auto") PROVE g[i] = 0
    BY <1>2, <1>15
  <2>1. f[i] = 0
    BY <1>1, <1>2, <1>3 DEF GridInv
  <2>2. i \notin T
    BY <1>6
  <2> QED BY <1>16, <2>1, <2>2
<1> QED BY <1>1, <1>17, <1>18, <1>20, <1>22, <1>23 DEF GridInv

\* The pixel tracks get their sizes.
LEMMA SizePixelsKeeps == ASSUME GridInv, SizePixels PROVE GridInv'
<1>1. /\ gridStep = "auto" /\ gridStep' = "star" /\ turn' = turn /\ def' = def /\ lanes' = lanes
      /\ residents' = residents /\ cells' = cells /\ cells = <<>> /\ GridTypeOK
      /\ turn > Len(residents)
  BY DEF GridInv, SizePixels
<1>2. PICK n \in Nat \ {0} : n = Len(lanes) /\ Lane = 1 .. n
  BY <1>1 DEF GridTypeOK, Lane
<1>3. PICK f : f = sizes /\ Numbers(f, n)
  BY <1>1, <1>2 DEF GridTypeOK
<1>4. \A i \in 1 .. n : f[i] \in Int /\ 0 <= f[i]
  BY <1>1, <1>2, <1>3 DEF GridInv, SizesOK, Numbers
<1>5. \A i \in 1 .. n : i \notin Of("auto") => f[i] = 0
  BY <1>1, <1>2, <1>3 DEF GridInv
<1>6. \A i \in Of("pixel") : i \notin Of("auto") /\ i \notin Of("star")
  BY DEF Of
<1>7. \A i \in Of("star") : i \notin Of("auto") /\ i \notin Of("pixel") /\ i \in 1 .. n
  BY <1>2 DEF Of
<1> DEFINE long == [i \in 1 .. n |-> AtLeastZero(lanes[i].value * Unit)]
<1>8. \A i \in 1 .. n : long[i] \in Int /\ 0 <= long[i]
  <2> SUFFICES ASSUME NEW i \in 1 .. n PROVE AtLeastZero(lanes[i].value * Unit) \in Nat
    OBVIOUS
  <2>1. PICK v \in Int, u \in Int : v = lanes[i].value /\ u = Unit
    BY <1>1, <1>2, UnitAssumption DEF GridTypeOK
  <2>2. v * u \in Int
    OBVIOUS
  <2> QED BY <2>1, <2>2 DEF AtLeastZero
<1>9. sizes' = [i \in 1 .. n |-> IF i \in Of("pixel") THEN long[i] ELSE f[i]]
  BY <1>2, <1>3 DEF SizePixels
<1> HIDE DEF long
<1>10. PICK g : g = sizes' /\ Numbers(g, n)
  BY <1>4, <1>8, <1>9 DEF Numbers
<1>11. /\ \A i \in 1 .. n : f[i] <= g[i]
       /\ \A i \in 1 .. n : i \notin Of("pixel") => g[i] = f[i]
  BY <1>4, <1>5, <1>6, <1>8, <1>9, <1>10
<1>12. /\ Lane' = Lane /\ Of("auto")' = Of("auto") /\ Of("star")' = Of("star")
       /\ \A j : Span(j)' = Span(j) /\ NeedOf(j)' = NeedOf(j)
  BY <1>1, GridKept
<1>13. GridTypeOK'
  <2>1. Numbers(sizes', Len(lanes))
    BY <1>2, <1>10
  <2>2. turn' \in Nat \ {0}
    BY <1>1 DEF GridTypeOK
  <2> QED BY <1>1, <2>1, <2>2, TypeKept
<1>14. SizesOK'
  <2> SUFFICES ASSUME NEW i \in 1 .. n
               PROVE  /\ 0 <= g[i]
                      /\ i \in Of("auto") /\ g[i] > 0 =>
                           \E j \in 1 .. Len(residents) : i \in Span(j) /\ g[i] <= NeedOf(j)
    BY <1>1, <1>2, <1>10, <1>12 DEF SizesOK
  <2>1. f[i] \in Int /\ 0 <= f[i] /\ f[i] <= g[i] /\ g[i] \in Int
    BY <1>4, <1>10, <1>11 DEF Numbers
  <2>2. i \in Of("auto") => g[i] = f[i]
    BY <1>6, <1>11
  <2>3. i \in Of("auto") /\ f[i] > 0 =>
          \E j \in 1 .. Len(residents) : i \in Span(j) /\ f[i] <= NeedOf(j)
    BY <1>1, <1>2, <1>3 DEF GridInv, SizesOK
  <2> QED BY <2>1, <2>2, <2>3
<1>15. ASSUME NEW k \in 1 .. Len(residents) PROVE Enough(k)'
  <2>1. k < turn
    BY <1>1 DEF GridTypeOK
  <2>2. Enough(k)
    BY <1>1, <2>1 DEF GridInv
  <2>3. \A i \in Lane : sizes[i] <= sizes'[i]
    BY <1>2, <1>3, <1>10, <1>11
  <2> QED BY <1>1, <1>13, <2>2, <2>3, EnoughStays
<1>16. \A i \in Of("star") : sizes'[i] = 0
  BY <1>5, <1>7, <1>10, <1>11
<1> QED BY <1>1, <1>12, <1>13, <1>14, <1>15, <1>16 DEF GridInv

\* A common factor cancels.
LEMMA Cancels ==
  ASSUME NEW w \in Nat \ {0}, NEW a \in Int, NEW b \in Int, w * a = w * b
  PROVE  a = b
<1>1. w * (a - b) = 0
  BY SMT
<1>2. a - b >= 1 => w * (a - b) >= w
  BY MultiplesApart
<1>3. a - b <= -1 => w * (a - b) <= -w
  BY MultiplesApart
<1> QED BY <1>1, <1>2, <1>3

\* Two shares of the same in proportion to two weights.
LEMMA SharesAgree ==
  ASSUME NEW w \in Nat \ {0}, NEW s \in Int, NEW a \in Int, NEW b \in Int,
         NEW x \in Int, NEW y \in Int, w * x = s * a, w * y = s * b
  PROVE  x * b = y * a
<1>1. w * (x * b) = (w * x) * b /\ w * (y * a) = (w * y) * a
  OBVIOUS
<1>2. (s * a) * b = (s * b) * a
  OBVIOUS
<1>3. x * b \in Int /\ y * a \in Int
  OBVIOUS
<1> DEFINE p == x * b
           q == y * a
<1>4. w * p = w * q
  BY <1>1, <1>2
<1> HIDE DEF p, q
<1>5. p = q
  BY <1>3, <1>4, Cancels DEF p, q
<1> QED BY <1>5 DEF p, q

\* The star tracks get their sizes.
LEMMA SizeStarsKeeps == ASSUME GridInv, SizeStars, GridExact PROVE GridInv'
<1>1. /\ gridStep = "star" /\ gridStep' = "positions" /\ turn' = turn /\ def' = def /\ lanes' = lanes
      /\ residents' = residents /\ cells' = cells /\ cells = <<>> /\ GridTypeOK
  BY DEF GridInv, SizeStars
<1>2. PICK n \in Nat \ {0} : n = Len(lanes) /\ Lane = 1 .. n
  BY <1>1 DEF GridTypeOK, Lane
<1>3. PICK f : f = sizes /\ Numbers(f, n)
  BY <1>1, <1>2 DEF GridTypeOK
<1>4. \A i \in 1 .. n : f[i] \in Int /\ 0 <= f[i]
  BY <1>1, <1>2, <1>3 DEF GridInv, SizesOK, Numbers
<1>5. PICK S \in SUBSET (1 .. n) : S = Of("star")
  BY <1>2 DEF Of
<1>6. \A i \in S : f[i] = 0 /\ i \notin Of("auto")
  BY <1>1, <1>2, <1>3, <1>5 DEF GridInv, Of
<1>7. PICK R \in SUBSET (1 .. n) : R = Lane \ S /\ \A i \in R : i \notin S
  <2> DEFINE rest == Lane \ S
  <2>1. rest \in SUBSET (1 .. n) /\ rest = Lane \ S /\ \A i \in rest : i \notin S
    BY <1>2
  <2> HIDE DEF rest
  <2> QED BY <2>1
<1>8. PICK w : w = Weights /\ Numbers(w, n) /\ \A i \in 1 .. n : w[i] \in Nat \ {0} /\ w[i] = StarWeight(i)
  BY <1>1, <1>2, WeightsAdd
<1>9. StarWeights = SumFunctionOnSet(w, S)
  BY <1>1, <1>5, <1>8, WeightsAdd
<1>10. PICK sum \in Int : sum = SumFunctionOnSet(w, S) /\ (S # {} => sum > 0)
  <2>1. SumFunctionOnSet(w, S) \in Int
    BY <1>8, TotalIs
  <2>2. S # {} => SumFunctionOnSet(w, S) > 0
    <3> SUFFICES ASSUME S # {} PROVE SumFunctionOnSet(w, S) > 0
      OBVIOUS
    <3>1. 1 * Cardinality(S) <= SumFunctionOnSet(w, S)
      <4>1. 1 \in Int /\ \A i \in S : 1 <= w[i]
        BY <1>8
      <4> QED BY <1>8, <4>1, TotalAtLeast
    <3>2. Cardinality(S) \in Nat /\ Cardinality(S) # 0
      <4>1. IsFiniteSet(S)
        BY Intervals, FS_Subset
      <4> QED BY <4>1, FS_CardinalityType, FS_EmptySet
    <3> QED BY <2>1, <3>1, <3>2
  <2> QED BY <2>1, <2>2
<1>11. PICK left \in Nat : left = SpaceLeft
  <2>1. SizeOfLanes(R) \in Int
    BY <1>3, TotalIs DEF SizeOfLanes
  <2>2. GapsBetween(n) \in Nat /\ def.space \in Int
    BY <1>1, GapsAre DEF GridTypeOK
  <2>3. SpaceLeft = AtLeastZero(def.space - GapsBetween(n) - SizeOfLanes(R))
    BY <1>2, <1>5, <1>7 DEF SpaceLeft
  <2> QED BY <2>1, <2>2, <2>3 DEF AtLeastZero
<1> DEFINE share == [i \in 1 .. n |-> (left * w[i]) \div sum]
<1>12. ASSUME NEW i \in S
       PROVE  share[i] \in Nat /\ sum * share[i] = left * w[i]
  <2> DEFINE x == left * w[i]
  <2>1. x \in Nat /\ sum \in Nat \ {0}
    BY <1>8, <1>10
  <2>2. x % sum = 0
    <3>1. (SpaceLeft * StarWeight(i)) % StarWeights = 0
      BY <1>1, <1>5 DEF GridExact
    <3> QED BY <1>8, <1>9, <1>10, <1>11, <3>1
  <2>3. share[i] = x \div sum
    OBVIOUS
  <2> HIDE DEF x, share
  <2>4. x \div sum \in Nat /\ sum * (x \div sum) = x
    BY <2>1, <2>2, ShareFits
  <2> QED BY <2>3, <2>4 DEF x
<1>13. sizes' = [i \in 1 .. n |-> IF i \in S THEN share[i] ELSE f[i]]
  <2>1. sizes' = [i \in Lane |-> IF i \in S THEN (SpaceLeft * StarWeight(i)) \div StarWeights ELSE sizes[i]]
    BY <1>5 DEF SizeStars
  <2>2. \A i \in 1 .. n : (SpaceLeft * StarWeight(i)) \div StarWeights = share[i]
    BY <1>8, <1>9, <1>10, <1>11
  <2> HIDE DEF share
  <2> QED BY <1>2, <1>3, <2>1, <2>2
<1> HIDE DEF share
<1>14. PICK g : g = sizes' /\ Numbers(g, n)
  BY <1>4, <1>12, <1>13 DEF Numbers
<1>15. /\ \A i \in 1 .. n : f[i] <= g[i]
       /\ \A i \in S : g[i] = share[i]
       /\ \A i \in 1 .. n : i \notin S => g[i] = f[i]
  BY <1>4, <1>6, <1>12, <1>13, <1>14
<1>16. /\ Lane' = Lane /\ Of("auto")' = Of("auto") /\ Of("star")' = Of("star")
       /\ \A j : Span(j)' = Span(j) /\ NeedOf(j)' = NeedOf(j)
       /\ \A m : GapsBetween(m)' = GapsBetween(m)
       /\ \A i : StarWeight(i)' = StarWeight(i)
  BY <1>1, GridKept
<1>17. GridTypeOK'
  <2>1. Numbers(sizes', Len(lanes))
    BY <1>2, <1>14
  <2>2. turn' \in Nat \ {0}
    BY <1>1 DEF GridTypeOK
  <2> QED BY <1>1, <2>1, <2>2, TypeKept
<1>18. SizesOK'
  <2> SUFFICES ASSUME NEW i \in 1 .. n
               PROVE  /\ 0 <= g[i]
                      /\ i \in Of("auto") /\ g[i] > 0 =>
                           \E j \in 1 .. Len(residents) : i \in Span(j) /\ g[i] <= NeedOf(j)
    BY <1>1, <1>2, <1>14, <1>16 DEF SizesOK
  <2>1. f[i] \in Int /\ 0 <= f[i] /\ f[i] <= g[i] /\ g[i] \in Int
    BY <1>4, <1>14, <1>15 DEF Numbers
  <2>2. i \in Of("auto") => g[i] = f[i]
    BY <1>6, <1>15
  <2>3. i \in Of("auto") /\ f[i] > 0 =>
          \E j \in 1 .. Len(residents) : i \in Span(j) /\ f[i] <= NeedOf(j)
    BY <1>1, <1>2, <1>3 DEF GridInv, SizesOK
  <2> QED BY <2>1, <2>2, <2>3
<1>19. ASSUME NEW k \in 1 .. Len(residents) PROVE Enough(k)'
  <2>1. Enough(k)
    BY <1>1 DEF GridInv
  <2>2. \A i \in Lane : sizes[i] <= sizes'[i]
    BY <1>2, <1>3, <1>14, <1>15
  <2> QED BY <1>1, <1>17, <2>1, <2>2, EnoughStays
<1>20. SpaceLeft' = left
  <2>1. \A i \in R : f[i] = g[i]
    BY <1>7, <1>15
  <2>2. SumFunctionOnSet(f, R) = SumFunctionOnSet(g, R)
    BY <1>3, <1>14, <2>1, TotalsAgree
  <2>3. SizeOfLanes(Lane \ Of("star"))' = SizeOfLanes(Lane \ Of("star"))
    BY <1>3, <1>5, <1>7, <1>14, <1>16, <2>2 DEF SizeOfLanes
  <2> QED BY <1>1, <1>11, <1>16, <2>3 DEF SpaceLeft
<1>21. S # {} => SumFunctionOnSet(g, S) = left
  <2> SUFFICES ASSUME S # {} PROVE SumFunctionOnSet(g, S) = left
    OBVIOUS
  <2>1. InProportion(g, sum, w, left, S)
    BY <1>12, <1>15 DEF InProportion
  <2>2. Balanced(sum, SumFunctionOnSet(g, S), left, SumFunctionOnSet(w, S))
    BY <1>8, <1>14, <2>1, TotalsScale
  <2> DEFINE t == SumFunctionOnSet(g, S)
  <2>3. sum * t = left * sum /\ left * sum = sum * left
    BY <1>10, <2>2 DEF Balanced
  <2>4. t \in Int
    BY <1>14, TotalIs
  <2> HIDE DEF t
  <2>5. t = left
    BY <1>10, <2>3, <2>4, Cancels
  <2> QED BY <2>5 DEF t
<1>22. ASSUME NEW i \in S, NEW j \in S PROVE g[i] * StarWeight(j) = g[j] * StarWeight(i)
  <2>1. PICK x \in Int, y \in Int, a \in Int, b \in Int : x = g[i] /\ y = g[j] /\ a = w[i] /\ b = w[j]
    BY <1>8, <1>12, <1>15
  <2>2. sum * x = left * a /\ sum * y = left * b
    BY <1>12, <1>15, <2>1
  <2>3. sum \in Nat \ {0}
    BY <1>10
  <2>4. x * b = y * a
    BY <2>2, <2>3, SharesAgree
  <2> QED BY <1>8, <2>1, <2>4
<1>23. StarsShare'
  BY <1>5, <1>14, <1>16, <1>20, <1>21, <1>22 DEF StarsShare, SizeOfLanes
<1> QED BY <1>1, <1>17, <1>18, <1>19, <1>23 DEF GridInv

\* Positions and boxes leave the tracks alone.
LEMMA SizesKept ==
  ASSUME GridInv, gridStep \in {"positions", "children"}, gridStep' = "children",
         lanes' = lanes, residents' = residents, def' = def, sizes' = sizes, turn' \in Nat \ {0},
         cells' \in Seq([from : Int, size : Int])
  PROVE  /\ GridTypeOK' /\ SizesOK' /\ StarsShare'
         /\ \A k \in 1 .. Len(residents) : Enough(k)'
         /\ \A S : SizeOfLanes(S)' = SizeOfLanes(S)
         /\ \A k : CellOf(k)' = CellOf(k)
<1>1. /\ Lane' = Lane /\ Of("auto")' = Of("auto") /\ Of("star")' = Of("star")
      /\ \A k : First(k)' = First(k) /\ Span(k)' = Span(k)
      /\ \A k : NeedOf(k)' = NeedOf(k) /\ MarginsOf(k)' = MarginsOf(k)
      /\ \A n : GapsBetween(n)' = GapsBetween(n)
      /\ \A i : StarWeight(i)' = StarWeight(i)
  BY GridKept
<1>2. \A S : SizeOfLanes(S)' = SizeOfLanes(S)
  BY DEF SizeOfLanes
<1>3. GridTypeOK'
  BY <1>1 DEF GridInv, GridTypeOK
<1>4. SizesOK'
  BY <1>1 DEF GridInv, SizesOK
<1>5. SpaceLeft' = SpaceLeft
  BY <1>1, <1>2 DEF SpaceLeft
<1>6. StarsShare'
  BY <1>1, <1>2, <1>5 DEF GridInv, StarsShare
<1>7. \A k : CellOf(k)' = CellOf(k)
  BY <1>1, <1>2 DEF CellOf
<1>8. ASSUME NEW k \in 1 .. Len(residents) PROVE Enough(k)'
  <2>1. Enough(k)
    BY DEF GridInv
  <2> QED BY <1>1, <1>2, <2>1 DEF Enough
<1> QED BY <1>2, <1>3, <1>4, <1>6, <1>7, <1>8

\* The tracks get their places.
LEMMA PositionsKeeps == ASSUME GridInv, Positions PROVE GridInv'
<1>1. /\ gridStep = "positions" /\ gridStep' = "children" /\ turn' = 1 /\ def' = def /\ lanes' = lanes
      /\ residents' = residents /\ cells' = cells /\ cells = <<>> /\ GridTypeOK /\ sizes' = sizes
      /\ starts' = [i \in Lane |-> SizeOfLanes(1 .. i - 1) + GridGap * (i - 1)]
  BY DEF GridInv, Positions
<1>2. cells' \in Seq([from : Int, size : Int]) /\ Len(cells') = 0
  BY <1>1
<1>3. /\ GridTypeOK' /\ SizesOK' /\ StarsShare'
      /\ \A k \in 1 .. Len(residents) : Enough(k)'
      /\ \A S : SizeOfLanes(S)' = SizeOfLanes(S)
  BY <1>1, <1>2, SizesKept
<1>4. Lane' = Lane /\ GridGap' = GridGap
  BY <1>1, GridKept
<1>5. starts' = [i \in Lane' |-> SizeOfLanes(1 .. i - 1)' + GridGap' * (i - 1)]
  BY <1>1, <1>3, <1>4
<1>6. Len(residents) \in Nat
  BY <1>1 DEF GridTypeOK
<1> QED BY <1>1, <1>2, <1>3, <1>5, <1>6 DEF GridInv

\* Where a track starts.
LEMMA StartsAre ==
  ASSUME GridInv, gridStep = "children"
  PROVE  \A i \in Lane : starts[i] \in Int /\ starts[i] = SizeOfLanes(1 .. i - 1) + GridGap * (i - 1)
<1>1. PICK n \in Nat \ {0} : n = Len(lanes) /\ Lane = 1 .. n
  BY DEF GridInv, GridTypeOK, Lane
<1>2. Numbers(sizes, n)
  BY <1>1 DEF GridInv, GridTypeOK
<1> SUFFICES ASSUME NEW i \in 1 .. n
             PROVE  starts[i] \in Int /\ starts[i] = SizeOfLanes(1 .. i - 1) + GridGap * (i - 1)
  BY <1>1
<1>3. starts[i] = SizeOfLanes(1 .. i - 1) + GridGap * (i - 1)
  BY <1>1 DEF GridInv
<1>4. 1 .. i - 1 \in SUBSET (1 .. n)
  OBVIOUS
<1>5. SizeOfLanes(1 .. i - 1) \in Int
  BY <1>2, <1>4, TotalIs DEF SizeOfLanes
<1>6. PICK g \in Nat : g = GridGap
  BY GapsAre DEF GridInv
<1>7. g * (i - 1) \in Int
  OBVIOUS
<1> QED BY <1>3, <1>5, <1>6, <1>7

\* The next child gets its box.
LEMMA LayoutChildKeeps == ASSUME GridInv, LayoutChild PROVE GridInv'
<1>1. /\ gridStep = "children" /\ gridStep' = "children" /\ turn' = turn + 1 /\ def' = def /\ lanes' = lanes
      /\ residents' = residents /\ GridTypeOK /\ sizes' = sizes /\ starts' = starts
      /\ turn <= Len(residents)
  BY DEF GridInv, LayoutChild
<1>2. PICK k \in 1 .. Len(residents) : k = turn
  BY <1>1 DEF GridTypeOK
<1> DEFINE entry == [from |-> starts[First(k)] + residents[k].lead * Unit,
                     size |-> AtLeastZero(CellOf(k) - MarginsOf(k))]
<1>3. cells' = Append(cells, entry)
  BY <1>2 DEF LayoutChild, CellOf
<1>4. entry \in [from : Int, size : Int]
  <2>1. First(k) \in Lane
    BY <1>1, SpanIs
  <2>2. starts[First(k)] \in Int
    BY <1>1, <2>1, StartsAre
  <2>3. residents[k].lead * Unit \in Int /\ MarginsOf(k) \in Int
    BY <1>1, ResidentIs
  <2>4. CellOf(k) \in Int
    <3>1. GapsBetween(Cardinality(Span(k))) \in Nat /\ SizeOfLanes(Span(k)) \in Int
      BY <1>1, SpanIsLanes
    <3> QED BY <3>1 DEF CellOf
  <2> DEFINE a == starts[First(k)] + residents[k].lead * Unit
             d == CellOf(k) - MarginsOf(k)
  <2>5. a \in Int /\ d \in Int
    BY <2>2, <2>3, <2>4
  <2> HIDE DEF a, d
  <2>6. [from |-> a, size |-> AtLeastZero(d)] \in [from : Int, size : Int]
    BY <2>5 DEF AtLeastZero
  <2> QED BY <2>6 DEF a, d
<1> HIDE DEF entry
<1>5. cells \in Seq([from : Int, size : Int]) /\ Len(cells) = k - 1
  BY <1>1, <1>2 DEF GridInv, GridTypeOK
<1>6. /\ cells' \in Seq([from : Int, size : Int])
      /\ Len(cells') = k /\ cells'[k] = entry
      /\ \A j \in 1 .. k : j # k => cells'[j] = cells[j]
  BY <1>3, <1>4, <1>5
<1>7. turn' \in Nat \ {0}
  BY <1>1 DEF GridTypeOK
<1>8. /\ GridTypeOK' /\ SizesOK' /\ StarsShare'
      /\ \A j \in 1 .. Len(residents) : Enough(j)'
      /\ \A S : SizeOfLanes(S)' = SizeOfLanes(S)
      /\ \A j : CellOf(j)' = CellOf(j)
  BY <1>1, <1>6, <1>7, SizesKept
<1>9. /\ Lane' = Lane /\ GridGap' = GridGap
      /\ \A j : First(j)' = First(j) /\ MarginsOf(j)' = MarginsOf(j)
  BY <1>1, GridKept
<1>10. starts' = [i \in Lane' |-> SizeOfLanes(1 .. i - 1)' + GridGap' * (i - 1)]
  BY <1>1, <1>8, <1>9 DEF GridInv
<1>11. ASSUME NEW j \in 1 .. Len(cells')
       PROVE  cells'[j] = [from |-> starts[First(j)] + residents[j].lead * Unit,
                           size |-> AtLeastZero(CellOf(j) - MarginsOf(j))]
  <2>1. CASE j = k
    BY <1>6, <2>1 DEF entry
  <2>2. CASE j # k
    <3>1. j \in 1 .. Len(cells)
      BY <1>5, <1>6, <2>2
    <3> QED BY <1>1, <1>6, <2>2, <3>1 DEF GridInv
  <2> QED BY <2>1, <2>2
<1>12. \A j \in 1 .. Len(cells') :
         cells'[j] = [from |-> starts'[First(j)'] + residents'[j].lead * Unit,
                      size |-> AtLeastZero(CellOf(j)' - MarginsOf(j)')]
  BY <1>1, <1>8, <1>9, <1>11
<1>13. Len(cells') = turn' - 1 /\ turn' - 1 <= Len(residents)
  BY <1>1, <1>2, <1>6
<1> QED BY <1>1, <1>8, <1>10, <1>12, <1>13 DEF GridInv

\* Every step, if the shares are whole.
LEMMA GridInvStep == GridInv /\ GridExact /\ [GridNext]_gridVars => GridInv'
<1> SUFFICES ASSUME GridInv, GridExact, [GridNext]_gridVars PROVE GridInv'
  OBVIOUS
<1>1. CASE UNCHANGED gridVars
  <2>1. /\ def' = def /\ residents' = residents /\ lanes' = lanes /\ sizes' = sizes /\ starts' = starts
        /\ cells' = cells /\ gridStep' = gridStep /\ turn' = turn
    BY <1>1 DEF gridVars
  <2>2. /\ Lane' = Lane /\ Of("auto")' = Of("auto") /\ Of("star")' = Of("star") /\ Of("pixel")' = Of("pixel")
        /\ \A k : First(k)' = First(k) /\ Span(k)' = Span(k)
        /\ \A k : NeedOf(k)' = NeedOf(k) /\ MarginsOf(k)' = MarginsOf(k)
        /\ \A n : GapsBetween(n)' = GapsBetween(n)
        /\ GridGap' = GridGap
        /\ \A i : StarWeight(i)' = StarWeight(i)
    BY <2>1, GridKept
  <2>3. \A S : SizeOfLanes(S)' = SizeOfLanes(S)
    BY <2>1 DEF SizeOfLanes
  <2>4. SpaceLeft' = SpaceLeft
    BY <2>1, <2>2, <2>3 DEF SpaceLeft
  <2>5. GridTypeOK' /\ (SizesOK => SizesOK')
    BY <2>1, <2>2 DEF GridInv, GridTypeOK, SizesOK
  <2>6. StarsShare => StarsShare'
    BY <2>1, <2>2, <2>3, <2>4 DEF StarsShare
  <2>7. \A k : (Enough(k) => Enough(k)') /\ CellOf(k)' = CellOf(k)
    BY <2>2, <2>3 DEF Enough, CellOf
  <2>8. starts = [i \in Lane |-> SizeOfLanes(1 .. i - 1) + GridGap * (i - 1)] =>
          starts' = [i \in Lane' |-> SizeOfLanes(1 .. i - 1)' + GridGap' * (i - 1)]
    BY <2>1, <2>2, <2>3
  <2> QED BY <2>1, <2>2, <2>5, <2>6, <2>7, <2>8 DEF GridInv
<1>2. CASE InitTracks
  BY <1>2, InitTracksKeeps
<1>3. CASE GrowAuto
  BY <1>3, GrowAutoKeeps
<1>4. CASE SizePixels
  BY <1>4, SizePixelsKeeps
<1>5. CASE SizeStars
  BY <1>5, SizeStarsKeeps
<1>6. CASE Positions
  BY <1>6, PositionsKeeps
<1>7. CASE LayoutChild
  BY <1>7, LayoutChildKeeps
<1> QED BY <1>1, <1>2, <1>3, <1>4, <1>5, <1>6, <1>7 DEF GridNext

\* The sum over one place.
LEMMA TotalOfOne ==
  ASSUME NEW n \in Nat, NEW f, Numbers(f, n), NEW x \in 1 .. n
  PROVE  SumFunctionOnSet(f, {x}) = f[x]
<1>1. PICK sum : Tallies(sum, f, n)
  BY NumbersTally
<1>2. {x} \in SUBSET (1 .. n) /\ {x} \ {x} = {}
  OBVIOUS
<1>3. SumFunctionOnSet(f, {x}) = sum[{x}]
  BY <1>1, <1>2, SumsOver
<1>4. sum[{x}] = f[x] + sum[{}] /\ sum[{}] = 0
  <2>1. sum[{x}] = f[x] + sum[{x} \ {x}] /\ sum[{}] = 0
    BY <1>1, <1>2 DEF Tallies, Adds
  <2> QED BY <1>2, <2>1
<1>5. f[x] \in Int
  BY DEF Numbers
<1> QED BY <1>3, <1>4, <1>5

\* Where a track ends.
LEMMA EndsAre ==
  ASSUME GridInv, gridStep = "children", NEW i \in Lane
  PROVE  /\ Ends(i) \in Int /\ SizeOfLanes(1 .. i) \in Int
         /\ Ends(i) = SizeOfLanes(1 .. i) + GridGap * (i - 1)
<1>1. PICK n \in Nat \ {0} : n = Len(lanes) /\ Lane = 1 .. n
  BY DEF GridInv, GridTypeOK, Lane
<1>2. PICK f : f = sizes /\ Numbers(f, n)
  BY <1>1 DEF GridInv, GridTypeOK
<1>3. PICK A \in SUBSET (1 .. n) : A = 1 .. i - 1 /\ A \cap {i} = {} /\ A \cup {i} = 1 .. i /\ {i} \in SUBSET (1 .. n)
  <2> DEFINE before == 1 .. i - 1
  <2>1. i \in 1 .. n
    BY <1>1
  <2>2. before \in SUBSET (1 .. n) /\ before = 1 .. i - 1
    BY <2>1
  <2>3. before \cap {i} = {} /\ before \cup {i} = 1 .. i /\ {i} \in SUBSET (1 .. n)
    BY <2>1
  <2> HIDE DEF before
  <2> QED BY <2>2, <2>3
<1>4. SumFunctionOnSet(f, A \cup {i}) = SumFunctionOnSet(f, A) + SumFunctionOnSet(f, {i})
  BY <1>2, <1>3, TotalOfParts
<1>5. SumFunctionOnSet(f, {i}) = f[i] /\ f[i] \in Int
  BY <1>1, <1>2, TotalOfOne DEF Numbers
<1>6. SumFunctionOnSet(f, A) \in Int
  BY <1>2, TotalIs
<1> DEFINE a == SumFunctionOnSet(f, A)
           b == SumFunctionOnSet(f, 1 .. i)
           c == f[i]
<1>7. b = a + c /\ a \in Int /\ c \in Int
  BY <1>3, <1>4, <1>5, <1>6
<1>8. starts[i] = a + GridGap * (i - 1) /\ starts[i] \in Int
  BY <1>2, <1>3, StartsAre DEF SizeOfLanes
<1>9. PICK g \in Nat : g = GridGap
  BY GapsAre DEF GridInv
<1>10. PICK y \in Int : y = g * (i - 1)
  BY <1>1
<1>11. Ends(i) = starts[i] + c
  BY <1>2 DEF Ends
<1>12. SizeOfLanes(1 .. i) = b
  BY <1>2 DEF SizeOfLanes
<1> HIDE DEF a, b, c
<1> QED BY <1>7, <1>8, <1>9, <1>10, <1>11, <1>12

(***************************************************************************)
(* grid_resolve_star_tracks and grid_compute_positions: however many       *)
(* tracks of whatever kinds and sizes, they lie one behind the other with  *)
(* the gap between them, and the star tracks, each in proportion to its    *)
(* weight, take up exactly what the others and the gaps leave of the       *)
(* content box - as long as the shares are whole, as the code's floats     *)
(* make them.                                                              *)
(***************************************************************************)
THEOREM GridIsFilled == GridSpec /\ []GridExact => []TracksFillGrid
<1>1. GridInv => TracksFillGrid
  <2> SUFFICES ASSUME GridInv, gridStep = "children" PROVE TracksFillGrid
    BY DEF TracksFillGrid
  <2>1. PICK n \in Nat \ {0} : n = Len(lanes) /\ Lane = 1 .. n
    BY DEF GridInv, GridTypeOK, Lane
  <2>2. PICK f : f = sizes /\ Numbers(f, n)
    BY <2>1 DEF GridInv, GridTypeOK
  <2>3. PICK g \in Nat : g = GridGap
    BY GapsAre DEF GridInv
  <2>4. starts[1] = 0
    <3>1. starts[1] = SizeOfLanes(1 .. 0) + g * 0
      BY <2>1, <2>3, StartsAre
    <3>2. 1 .. 0 = {} /\ g * 0 = 0
      OBVIOUS
    <3>3. SizeOfLanes({}) = 0
      BY <2>2, TotalIs DEF SizeOfLanes
    <3> QED BY <3>1, <3>2, <3>3
  <2>5. ASSUME NEW i \in Lane PROVE sizes[i] >= 0 /\ (i > 1 => starts[i] = Ends(i - 1) + GridGap)
    <3>1. sizes[i] >= 0
      <4>1. 0 <= sizes[i]
        BY DEF GridInv, SizesOK
      <4>2. sizes[i] \in Int
        BY <2>1, <2>2 DEF Numbers
      <4> QED BY <4>1, <4>2
    <3>2. ASSUME i > 1 PROVE starts[i] = Ends(i - 1) + GridGap
      <4>1. PICK h : h = i - 1 /\ h \in Lane /\ i - 1 = h /\ h \in Nat
        BY <2>1, <3>2
      <4>2. starts[i] = SizeOfLanes(1 .. h) + g * h
        BY <2>3, <4>1, StartsAre
      <4>3. Ends(h) = SizeOfLanes(1 .. h) + g * (h - 1) /\ SizeOfLanes(1 .. h) \in Int
        BY <2>3, <4>1, EndsAre
      <4>4. g * h = g * (h - 1) + g /\ g * (h - 1) \in Int /\ g * h \in Int
        BY <4>1
      <4> DEFINE x == g * h
                 y == g * (h - 1)
                 z == SizeOfLanes(1 .. h)
      <4>5. x = y + g /\ x \in Int /\ y \in Int /\ z \in Int /\ starts[i] = z + x /\ Ends(h) = z + y
        BY <4>2, <4>3, <4>4
      <4> HIDE DEF x, y, z
      <4>6. starts[i] = Ends(h) + g
        BY <4>5
      <4> QED BY <2>3, <4>1, <4>6
    <3> QED BY <3>1, <3>2
  <2>6. PICK S \in SUBSET (1 .. n), R \in SUBSET (1 .. n) :
          S = Of("star") /\ R = Lane \ Of("star") /\ S \cap R = {} /\ S \cup R = 1 .. n
    <3> DEFINE star == Of("star")
               rest == Lane \ Of("star")
    <3>1. star \in SUBSET (1 .. n) /\ rest \in SUBSET (1 .. n) /\ star = Of("star") /\ rest = Lane \ Of("star")
      BY <2>1 DEF Of
    <3>2. star \cap rest = {} /\ star \cup rest = 1 .. n
      BY <2>1, <3>1
    <3> HIDE DEF star, rest
    <3> QED BY <3>1, <3>2
  <2>7. Of("star") # {} =>
          \/ Ends(Len(lanes)) = def.space
          \/ Ends(Len(lanes)) > def.space /\ SizeOfLanes(Of("star")) = 0
    <3> SUFFICES ASSUME S # {}
                 PROVE  Ends(n) = def.space \/ (Ends(n) > def.space /\ SizeOfLanes(S) = 0)
      BY <2>1, <2>6
    <3>1. n \in Lane
      BY <2>1
    <3>2. PICK gaps \in Nat : gaps = g * (n - 1) /\ gaps = GapsBetween(n)
      <4>1. GapsBetween(n) = GridGap * (n - 1) /\ GapsBetween(n) \in Nat
        BY GapsAre DEF GridInv
      <4> QED BY <2>3, <4>1
    <3>3. Ends(n) = SizeOfLanes(1 .. n) + gaps
      BY <2>3, <3>1, <3>2, EndsAre
    <3>4. PICK a \in Int, b \in Int : a = SizeOfLanes(S) /\ b = SizeOfLanes(R)
      BY <2>2, TotalIs DEF SizeOfLanes
    <3>5. SizeOfLanes(1 .. n) = a + b
      <4>1. SumFunctionOnSet(f, S \cup R) = SumFunctionOnSet(f, S) + SumFunctionOnSet(f, R)
        BY <2>2, <2>6, TotalOfParts
      <4> QED BY <2>2, <2>6, <3>4, <4>1 DEF SizeOfLanes
    <3>6. PICK space \in Int : space = def.space
      BY DEF GridInv, GridTypeOK
    <3>7. a = AtLeastZero(space - gaps - b)
      <4>1. a = SpaceLeft
        BY <2>6, <3>4 DEF GridInv, StarsShare
      <4> QED BY <2>1, <2>6, <3>2, <3>4, <3>6, <4>1 DEF SpaceLeft
    <3>8. Ends(n) = a + b + gaps
      BY <3>3, <3>4, <3>5
    <3>9. (a = space - gaps - b) \/ (a = 0 /\ space - gaps - b < 0)
      <4> DEFINE d == space - gaps - b
      <4>1. d \in Int /\ a = AtLeastZero(d)
        BY <3>7
      <4> HIDE DEF d
      <4>2. a = d \/ (a = 0 /\ d < 0)
        BY <4>1 DEF AtLeastZero
      <4> QED BY <4>2 DEF d
    <3>10. Ends(n) = space \/ (Ends(n) > space /\ a = 0)
      BY <3>8, <3>9
    <3> QED BY <3>4, <3>6, <3>10
  <2>8. \A i, j \in Of("star") : sizes[i] * StarWeight(j) = sizes[j] * StarWeight(i)
    BY DEF GridInv, StarsShare
  <2> QED BY <2>4, <2>5, <2>7, <2>8 DEF TracksFillGrid
<1> QED BY <1>1, GridInvInit, GridInvStep, PTL DEF GridSpec

(***************************************************************************)
(* grid_resolve_auto_tracks and grid_child_placement: whatever cells and   *)
(* spans the children ask for, each is in a cell inside the grid, gets     *)
(* what it needs if there is an auto track in it, and ends where the last  *)
(* track of the cell ends; and no auto track is wider than it has to be.   *)
(***************************************************************************)
THEOREM GridGivesRoom == GridSpec /\ []GridExact => []GridHoldsChildren
<1>1. GridInv => GridHoldsChildren
  <2> SUFFICES ASSUME GridInv PROVE GridHoldsChildren
    OBVIOUS
  <2>0. GridTypeOK /\ cells \in Seq([from : Int, size : Int])
    BY DEF GridInv, GridTypeOK
  <2>1. ASSUME NEW k \in 1 .. Len(cells)
        PROVE  /\ Span(k) # {} /\ Span(k) \subseteq Lane
               /\ Span(k) \cap Of("auto") # {} => cells[k].size >= residents[k].need * Unit
               /\ cells[k].size > 0 =>
                    \E last \in Span(k) :
                      /\ \A i \in Span(k) : i <= last
                      /\ cells[k].from + cells[k].size + residents[k].trail * Unit = Ends(last)
    <3>1. gridStep = "children"
      <4>1. cells # <<>>
        BY <2>0
      <4> QED BY <4>1 DEF GridInv
    <3>2. k \in 1 .. Len(residents)
      <4>1. Len(cells) <= Len(residents)
        BY <3>1 DEF GridInv
      <4>2. Len(cells) \in Nat /\ Len(residents) \in Nat
        BY <2>0 DEF GridTypeOK
      <4> QED BY <4>1, <4>2
    <3>3. PICK n \in Nat \ {0} : n = Len(lanes) /\ Lane = 1 .. n
      BY <2>0, <3>1 DEF GridTypeOK, Lane
    <3>4. PICK f : f = sizes /\ Numbers(f, n)
      BY <2>0, <3>1, <3>3 DEF GridTypeOK
    <3>5. PICK a \in 1 .. n, b \in 1 .. n : a <= b /\ First(k) = a /\ Span(k) = a .. b
      BY <2>0, <3>1, <3>2, <3>3, SpanIs
    <3>6. PICK lead \in Nat, trail \in Nat, room \in Nat :
            /\ lead = residents[k].lead * Unit /\ trail = residents[k].trail * Unit
            /\ room = residents[k].need * Unit
            /\ MarginsOf(k) = lead + trail /\ NeedOf(k) = room + (lead + trail)
      <4>1. NeedOf(k) = residents[k].need * Unit + MarginsOf(k)
        BY DEF NeedOf
      <4> QED BY <2>0, <3>2, <4>1, ResidentIs
    <3>7. PICK cell \in Int : cell = CellOf(k)
      BY <2>0, <3>1, <3>2, SpanIsLanes DEF CellOf
    <3>8. PICK begin \in Int : begin = starts[a]
      BY <3>1, <3>3, StartsAre
    <3>9. cells[k] = [from |-> begin + lead, size |-> AtLeastZero(cell - (lead + trail))]
      BY <3>1, <3>5, <3>6, <3>7, <3>8 DEF GridInv
    <3>10. cells[k].from = begin + lead /\ cells[k].size = AtLeastZero(cell - (lead + trail))
      <4> DEFINE x == begin + lead
                 y == AtLeastZero(cell - (lead + trail))
      <4>1. cells[k] = [from |-> x, size |-> y]
        BY <3>9
      <4> HIDE DEF x, y
      <4>2. cells[k].from = x /\ cells[k].size = y
        BY <4>1
      <4> QED BY <4>2 DEF x, y
    <3>11. PICK d \in Int : d = cell - (lead + trail) /\ cells[k].size = AtLeastZero(d)
      BY <3>10
    <3>12. Span(k) # {} /\ Span(k) \subseteq Lane
      <4>1. a \in Span(k) /\ \A i \in Span(k) : i \in 1 .. n
        BY <3>5
      <4> QED BY <3>3, <4>1
    <3>13. Span(k) \cap Of("auto") # {} => cells[k].size >= room
      <4> SUFFICES ASSUME Span(k) \cap Of("auto") # {} PROVE cells[k].size >= room
        OBVIOUS
      <4>1. NeedOf(k) <= cell
        BY <3>1, <3>2, <3>7 DEF GridInv, Enough, CellOf
      <4>2. room <= d
        <5>1. room + (lead + trail) <= cell
          BY <3>6, <4>1
        <5>2. d = cell - (lead + trail)
          BY <3>11
        <5> QED BY <5>1, <5>2
      <4>3. cells[k].size = d
        BY <3>11, <4>2 DEF AtLeastZero
      <4> QED BY <4>2, <4>3
    <3>14. begin + cell = Ends(b)
      <4>1. PICK g \in Nat : g = GridGap
        BY <2>0, GapsAre
      <4>2. PICK A \in SUBSET (1 .. n), B \in SUBSET (1 .. n) :
              A = 1 .. a - 1 /\ B = a .. b /\ A \cap B = {} /\ A \cup B = 1 .. b
        <5> DEFINE before == 1 .. a - 1
                   those == a .. b
        <5>1. before \in SUBSET (1 .. n) /\ those \in SUBSET (1 .. n) /\ before = 1 .. a - 1 /\ those = a .. b
          OBVIOUS
        <5>2. before \cap those = {} /\ before \cup those = 1 .. b
          BY <3>5
        <5> HIDE DEF before, those
        <5> QED BY <5>1, <5>2
      <4>3. PICK x \in Int, y \in Int : x = SumFunctionOnSet(f, A) /\ y = SumFunctionOnSet(f, B)
        BY <3>4, TotalIs
      <4>4. SumFunctionOnSet(f, 1 .. b) = x + y
        <5>1. SumFunctionOnSet(f, A \cup B) = SumFunctionOnSet(f, A) + SumFunctionOnSet(f, B)
          BY <3>4, <4>2, TotalOfParts
        <5> QED BY <4>2, <4>3, <5>1
      <4>5. begin = x + g * (a - 1)
        BY <3>1, <3>3, <3>4, <3>8, <4>1, <4>2, <4>3, StartsAre DEF SizeOfLanes
      <4>6. cell = y + g * (b - a)
        <5>1. Cardinality(Span(k)) = b - a + 1
          BY <3>5, FS_Interval
        <5>2. PICK m \in Nat \ {0} : m = b - a + 1 /\ m - 1 = b - a
          BY <3>5
        <5>3. GapsBetween(m) = g * (m - 1)
          BY <2>0, <4>1, GapsAre
        <5>4. SizeOfLanes(Span(k)) = y
          BY <3>4, <3>5, <4>2, <4>3 DEF SizeOfLanes
        <5> QED BY <3>7, <5>1, <5>2, <5>3, <5>4 DEF CellOf
      <4>7. Ends(b) = (x + y) + g * (b - 1)
        BY <3>1, <3>3, <3>4, <4>1, <4>4, EndsAre DEF SizeOfLanes
      <4>8. g * (b - 1) = g * (a - 1) + g * (b - a) /\ g * (a - 1) \in Int /\ g * (b - a) \in Int
        OBVIOUS
      <4>9. PICK u \in Int, v \in Int : u = g * (a - 1) /\ v = g * (b - a) /\ g * (b - 1) = u + v
        BY <4>8
      <4> QED BY <4>3, <4>5, <4>6, <4>7, <4>9
    <3>15. cells[k].size > 0 => cells[k].from + cells[k].size + trail = Ends(b)
      <4> SUFFICES ASSUME cells[k].size > 0 PROVE cells[k].from + cells[k].size + trail = Ends(b)
        OBVIOUS
      <4>1. cells[k].size = d
        BY <3>11 DEF AtLeastZero
      <4>2. cells[k].from + d + trail = begin + cell
        BY <3>10, <3>11
      <4> QED BY <3>14, <4>1, <4>2
    <3>16. b \in Span(k) /\ \A i \in Span(k) : i <= b
      BY <3>5
    <3> QED BY <3>6, <3>12, <3>13, <3>15, <3>16
  <2>2. gridStep = "children" =>
          \A i \in Of("auto") : sizes[i] > 0 =>
            \E k \in 1 .. Len(residents) : i \in Span(k) /\ sizes[i] <= NeedOf(k)
    <3>1. \A i \in Of("auto") : i \in Lane
      BY DEF Of
    <3> QED BY <3>1 DEF GridInv, SizesOK
  <2> QED BY <2>1, <2>2 DEF GridHoldsChildren
<1> QED BY <1>1, GridInvInit, GridInvStep, PTL DEF GridSpec
-----------------------------------------------------------------------------
(***************************************************************************)
(* Flex: handing out the space of a line, and placing its children.        *)
(***************************************************************************)

-----------------------------------------------------------------------------
(* The numbers of the children, and their sums.                            *)

\* A sum over a set takes one member after the other, as they are chosen.
SumsBy(g, terms, S) ==
  g = [s \in SUBSET S |-> IF s = {} THEN 0 ELSE terms[s] + g[s \ {CHOOSE x \in s : TRUE}]]

\* The terms are those of the member that is chosen.
ChosenFrom(terms, f, S) == \A s \in SUBSET S : s # {} => terms[s] = f[CHOOSE x \in s : TRUE]

\* Whatever the terms are called, the sum is that of the numbers they are.
LEMMA SumsByChoice ==
  ASSUME NEW n \in Nat, NEW f, Numbers(f, n), NEW S \in SUBSET (1 .. n), NEW terms, ChosenFrom(terms, f, S)
  PROVE  (\E g : SumsBy(g, terms, S)) /\ (\A g : SumsBy(g, terms, S) => g[S] = SumFunctionOnSet(f, S))
<1>1. PICK sum : Tallies(sum, f, n)
  BY NumbersTally
<1>2. f \in [1 .. n -> Int] /\ Adds(sum, f, n)
  BY <1>1 DEF Tallies
<1> DEFINE h == [s \in SUBSET S |-> sum[s]]
           Step(g, s) == IF s = {} THEN 0 ELSE terms[s] + g[s \ {CHOOSE x \in s : TRUE}]
<1>3. ASSUME NEW s \in SUBSET S PROVE h[s] = Step(h, s)
  <2>1. CASE s = {}
    BY <1>2, <2>1 DEF Adds
  <2>2. CASE s # {}
    <3> DEFINE c == CHOOSE x \in s : TRUE
    <3>1. c \in s /\ terms[s] = f[c]
      BY <2>2 DEF ChosenFrom
    <3> HIDE DEF c
    <3>2. sum[s] = f[c] + sum[s \ {c}]
      BY <1>2, <3>1 DEF Adds
    <3>3. h[s] = terms[s] + h[s \ {c}]
      BY <3>1, <3>2
    <3> HIDE DEF h
    <3> QED BY <2>2, <3>3 DEF c
  <2> QED BY <2>1, <2>2
<1>4. SumsBy(h, terms, S)
  <2>1. h = [s \in SUBSET S |-> h[s]]
    OBVIOUS
  <2> HIDE DEF h
  <2>2. h = [s \in SUBSET S |-> Step(h, s)]
    <3> HIDE DEF Step
    <3> QED BY <1>3, <2>1
  <2> QED BY <2>2 DEF SumsBy
<1>5. ASSUME NEW g, SumsBy(g, terms, S) PROVE g[S] = SumFunctionOnSet(f, S)
  <2>1. FoldsUp(g, f, S)
    <3>1. \A s \in SUBSET S : Step(g, s) =
            IF s = {} THEN 0 ELSE f[CHOOSE x \in s : TRUE] + g[s \ {CHOOSE x \in s : TRUE}]
      BY DEF ChosenFrom
    <3>2. g = [s \in SUBSET S |-> Step(g, s)]
      BY <1>5 DEF SumsBy
    <3> HIDE DEF Step
    <3> QED BY <3>1, <3>2 DEF FoldsUp
  <2>2. g[S] = sum[S]
    BY <1>2, <2>1, FoldsAdd
  <2> QED BY <1>1, <2>2, SumsOver
<1> HIDE DEF h
<1> QED BY <1>4, <1>5

\* Every child as a number.
BaseList == [i \in 1 .. Len(items) |-> Base(i)]
MarginList == [i \in 1 .. Len(items) |-> Margins(i)]
GrowList == [i \in 1 .. Len(items) |-> GrowOf(i)]
WeightList == [i \in 1 .. Len(items) |-> Weight(i)]
OuterList == [i \in 1 .. Len(items) |-> Outer(i)]

\* What freezing child i takes from the rest.
TakenBy(i) == Limited(i, size[i]) - Base(i)
TakenList == [i \in 1 .. Len(items) |-> TakenBy(i)]

\* The numbers of a child.
LEMMA ItemNumbers ==
  ASSUME FlexTypeOK, NEW i \in 1 .. Len(items)
  PROVE  /\ Base(i) \in Nat /\ Margins(i) \in Nat /\ GrowOf(i) \in Nat /\ Weight(i) \in Nat
         /\ items[i].min * Unit \in Nat /\ items[i].max * Unit \in Nat
         /\ items[i].margin * Unit \in Nat /\ Margins(i) = items[i].margin * Unit + items[i].margin * Unit
         /\ items[i].grow = GrowOf(i)
         /\ \A x \in Int : Limited(i, x) \in Nat
         /\ Outer(i) \in Nat /\ Hypothetical(i) \in Nat /\ Outer(i) = Hypothetical(i) + Margins(i)
<1>1. items[i] \in [base : Nat, min : Nat, max : Nat, grow : Nat, shrink : Nat, margin : Nat]
  BY FlexAssumption DEF FlexTypeOK
<1>2. Unit \in Nat
  BY UnitAssumption
<1>3. PICK b \in Nat, l \in Nat, h \in Nat, g \in Nat, s \in Nat, m \in Nat :
         /\ b = items[i].base /\ l = items[i].min /\ h = items[i].max /\ g = items[i].grow
         /\ s = items[i].shrink /\ m = items[i].margin
  BY <1>1
<1>4. \A x \in Nat : x * Unit \in Nat /\ 2 * x * Unit \in Nat /\ 2 * x * Unit = x * Unit + x * Unit
  BY <1>2
<1>5. Base(i) \in Nat /\ Margins(i) \in Nat /\ GrowOf(i) \in Nat /\ items[i].grow = GrowOf(i)
      /\ Margins(i) = items[i].margin * Unit + items[i].margin * Unit
  BY <1>3, <1>4 DEF Base, Margins, GrowOf
<1>6. Weight(i) \in Nat
  <2>1. s * b \in Nat /\ s * 1 \in Nat
    OBVIOUS
  <2> QED BY <1>3, <2>1 DEF Weight
<1>7. items[i].min * Unit \in Nat /\ items[i].max * Unit \in Nat /\ items[i].margin * Unit \in Nat
  BY <1>3, <1>4
<1> DEFINE low == items[i].min * Unit
           high == items[i].max * Unit
<1>8. \A x \in Int : Limited(i, x) \in Nat
  <2>1. \A x : Limited(i, x) = IF x < low THEN low ELSE IF x > high THEN high ELSE x
    BY DEF Limited, Clamp
  <2>2. low \in Nat /\ high \in Nat
    BY <1>7
  <2> HIDE DEF low, high
  <2> QED BY <2>1, <2>2
<1>9. Hypothetical(i) \in Nat
  BY <1>5, <1>8 DEF Hypothetical
<1>10. Outer(i) \in Nat /\ Outer(i) = Hypothetical(i) + Margins(i)
  BY <1>5, <1>9 DEF Outer
<1> QED BY <1>5, <1>6, <1>7, <1>8, <1>9, <1>10

\* So the lists are lists of numbers.
LEMMA ListsAreNumbers ==
  ASSUME FlexTypeOK
  PROVE  /\ Numbers(BaseList, Len(items)) /\ Numbers(MarginList, Len(items)) /\ Numbers(GrowList, Len(items))
         /\ Numbers(WeightList, Len(items)) /\ Numbers(OuterList, Len(items))
         /\ size \in [1 .. Len(items) -> Int] => Numbers(TakenList, Len(items))
<1>1. Len(items) \in Nat
  BY DEF FlexTypeOK
<1>2. \A i \in 1 .. Len(items) : Base(i) \in Int /\ Margins(i) \in Int /\ GrowOf(i) \in Int
                                /\ Weight(i) \in Int /\ Outer(i) \in Int
  BY ItemNumbers
<1>3. ASSUME size \in [1 .. Len(items) -> Int], NEW i \in 1 .. Len(items) PROVE TakenBy(i) \in Int
  <2>1. size[i] \in Int
    BY <1>3
  <2>2. Limited(i, size[i]) \in Nat /\ Base(i) \in Nat
    BY <2>1, ItemNumbers
  <2> QED BY <2>2 DEF TakenBy
<1> QED BY <1>1, <1>2, <1>3 DEF Numbers, BaseList, MarginList, GrowList, WeightList, OuterList, TakenList

\* What the children of S are long.
LEMMA BaseAdds ==
  ASSUME FlexTypeOK, NEW S \in SUBSET (1 .. Len(items))
  PROVE  MapThenSumSet(Base, S) = SumFunctionOnSet(BaseList, S)
<1>1. PICK n, f : n \in Nat /\ n = Len(items) /\ f = BaseList /\ Numbers(f, n)
  BY ListsAreNumbers DEF FlexTypeOK
<1> DEFINE terms == [s \in SUBSET S |-> Base(CHOOSE x \in s : TRUE)]
           iter == CHOOSE g : g = [s \in SUBSET S |->
             IF s = {} THEN 0 ELSE Base(CHOOSE x \in s : TRUE) + g[s \ {CHOOSE x \in s : TRUE}]]
<1>2. MapThenSumSet(Base, S) = iter[S]
  BY DEF MapThenSumSet, MapThenFoldSet
<1>3. ChosenFrom(terms, f, S)
  <2>1. \A i \in S : f[i] = Base(i)
    BY <1>1 DEF BaseList
  <2>2. \A s \in SUBSET S : s # {} => (CHOOSE x \in s : TRUE) \in S
    OBVIOUS
  <2> QED BY <2>1, <2>2 DEF ChosenFrom
<1>4. \A g : SumsBy(g, terms, S) <=>
         g = [s \in SUBSET S |->
               IF s = {} THEN 0 ELSE Base(CHOOSE x \in s : TRUE) + g[s \ {CHOOSE x \in s : TRUE}]]
  BY DEF SumsBy
<1>5. S \in SUBSET (1 .. n)
  BY <1>1
<1> HIDE DEF terms
<1>6. (\E g : SumsBy(g, terms, S)) /\ (\A g : SumsBy(g, terms, S) => g[S] = SumFunctionOnSet(f, S))
  BY <1>1, <1>3, <1>5, SumsByChoice
<1>7. SumsBy(iter, terms, S)
  BY <1>4, <1>6
<1> HIDE DEF iter
<1> QED BY <1>1, <1>2, <1>6, <1>7

\* Their margins.
LEMMA MarginsAdd ==
  ASSUME FlexTypeOK, NEW S \in SUBSET (1 .. Len(items))
  PROVE  MapThenSumSet(Margins, S) = SumFunctionOnSet(MarginList, S)
<1>1. PICK n, f : n \in Nat /\ n = Len(items) /\ f = MarginList /\ Numbers(f, n)
  BY ListsAreNumbers DEF FlexTypeOK
<1> DEFINE terms == [s \in SUBSET S |-> Margins(CHOOSE x \in s : TRUE)]
           iter == CHOOSE g : g = [s \in SUBSET S |->
             IF s = {} THEN 0 ELSE Margins(CHOOSE x \in s : TRUE) + g[s \ {CHOOSE x \in s : TRUE}]]
<1>2. MapThenSumSet(Margins, S) = iter[S]
  BY DEF MapThenSumSet, MapThenFoldSet
<1>3. ChosenFrom(terms, f, S)
  <2>1. \A i \in S : f[i] = Margins(i)
    BY <1>1 DEF MarginList
  <2>2. \A s \in SUBSET S : s # {} => (CHOOSE x \in s : TRUE) \in S
    OBVIOUS
  <2> QED BY <2>1, <2>2 DEF ChosenFrom
<1>4. \A g : SumsBy(g, terms, S) <=>
         g = [s \in SUBSET S |->
               IF s = {} THEN 0 ELSE Margins(CHOOSE x \in s : TRUE) + g[s \ {CHOOSE x \in s : TRUE}]]
  BY DEF SumsBy
<1>5. S \in SUBSET (1 .. n)
  BY <1>1
<1> HIDE DEF terms
<1>6. (\E g : SumsBy(g, terms, S)) /\ (\A g : SumsBy(g, terms, S) => g[S] = SumFunctionOnSet(f, S))
  BY <1>1, <1>3, <1>5, SumsByChoice
<1>7. SumsBy(iter, terms, S)
  BY <1>4, <1>6
<1> HIDE DEF iter
<1> QED BY <1>1, <1>2, <1>6, <1>7

\* Their growth factors.
LEMMA GrowsAdd ==
  ASSUME FlexTypeOK, NEW S \in SUBSET (1 .. Len(items))
  PROVE  MapThenSumSet(GrowOf, S) = SumFunctionOnSet(GrowList, S)
<1>1. PICK n, f : n \in Nat /\ n = Len(items) /\ f = GrowList /\ Numbers(f, n)
  BY ListsAreNumbers DEF FlexTypeOK
<1> DEFINE terms == [s \in SUBSET S |-> GrowOf(CHOOSE x \in s : TRUE)]
           iter == CHOOSE g : g = [s \in SUBSET S |->
             IF s = {} THEN 0 ELSE GrowOf(CHOOSE x \in s : TRUE) + g[s \ {CHOOSE x \in s : TRUE}]]
<1>2. MapThenSumSet(GrowOf, S) = iter[S]
  BY DEF MapThenSumSet, MapThenFoldSet
<1>3. ChosenFrom(terms, f, S)
  <2>1. \A i \in S : f[i] = GrowOf(i)
    BY <1>1 DEF GrowList
  <2>2. \A s \in SUBSET S : s # {} => (CHOOSE x \in s : TRUE) \in S
    OBVIOUS
  <2> QED BY <2>1, <2>2 DEF ChosenFrom
<1>4. \A g : SumsBy(g, terms, S) <=>
         g = [s \in SUBSET S |->
               IF s = {} THEN 0 ELSE GrowOf(CHOOSE x \in s : TRUE) + g[s \ {CHOOSE x \in s : TRUE}]]
  BY DEF SumsBy
<1>5. S \in SUBSET (1 .. n)
  BY <1>1
<1> HIDE DEF terms
<1>6. (\E g : SumsBy(g, terms, S)) /\ (\A g : SumsBy(g, terms, S) => g[S] = SumFunctionOnSet(f, S))
  BY <1>1, <1>3, <1>5, SumsByChoice
<1>7. SumsBy(iter, terms, S)
  BY <1>4, <1>6
<1> HIDE DEF iter
<1> QED BY <1>1, <1>2, <1>6, <1>7

\* Their shrink weights.
LEMMA WeightsOfAdd ==
  ASSUME FlexTypeOK, NEW S \in SUBSET (1 .. Len(items))
  PROVE  MapThenSumSet(Weight, S) = SumFunctionOnSet(WeightList, S)
<1>1. PICK n, f : n \in Nat /\ n = Len(items) /\ f = WeightList /\ Numbers(f, n)
  BY ListsAreNumbers DEF FlexTypeOK
<1> DEFINE terms == [s \in SUBSET S |-> Weight(CHOOSE x \in s : TRUE)]
           iter == CHOOSE g : g = [s \in SUBSET S |->
             IF s = {} THEN 0 ELSE Weight(CHOOSE x \in s : TRUE) + g[s \ {CHOOSE x \in s : TRUE}]]
<1>2. MapThenSumSet(Weight, S) = iter[S]
  BY DEF MapThenSumSet, MapThenFoldSet
<1>3. ChosenFrom(terms, f, S)
  <2>1. \A i \in S : f[i] = Weight(i)
    BY <1>1 DEF WeightList
  <2>2. \A s \in SUBSET S : s # {} => (CHOOSE x \in s : TRUE) \in S
    OBVIOUS
  <2> QED BY <2>1, <2>2 DEF ChosenFrom
<1>4. \A g : SumsBy(g, terms, S) <=>
         g = [s \in SUBSET S |->
               IF s = {} THEN 0 ELSE Weight(CHOOSE x \in s : TRUE) + g[s \ {CHOOSE x \in s : TRUE}]]
  BY DEF SumsBy
<1>5. S \in SUBSET (1 .. n)
  BY <1>1
<1> HIDE DEF terms
<1>6. (\E g : SumsBy(g, terms, S)) /\ (\A g : SumsBy(g, terms, S) => g[S] = SumFunctionOnSet(f, S))
  BY <1>1, <1>3, <1>5, SumsByChoice
<1>7. SumsBy(iter, terms, S)
  BY <1>4, <1>6
<1> HIDE DEF iter
<1> QED BY <1>1, <1>2, <1>6, <1>7

\* Their lengths before space is handed out, with margins.
LEMMA OutersAdd ==
  ASSUME FlexTypeOK, NEW S \in SUBSET (1 .. Len(items))
  PROVE  MapThenSumSet(Outer, S) = SumFunctionOnSet(OuterList, S)
<1>1. PICK n, f : n \in Nat /\ n = Len(items) /\ f = OuterList /\ Numbers(f, n)
  BY ListsAreNumbers DEF FlexTypeOK
<1> DEFINE terms == [s \in SUBSET S |-> Outer(CHOOSE x \in s : TRUE)]
           iter == CHOOSE g : g = [s \in SUBSET S |->
             IF s = {} THEN 0 ELSE Outer(CHOOSE x \in s : TRUE) + g[s \ {CHOOSE x \in s : TRUE}]]
<1>2. MapThenSumSet(Outer, S) = iter[S]
  BY DEF MapThenSumSet, MapThenFoldSet
<1>3. ChosenFrom(terms, f, S)
  <2>1. \A i \in S : f[i] = Outer(i)
    BY <1>1 DEF OuterList
  <2>2. \A s \in SUBSET S : s # {} => (CHOOSE x \in s : TRUE) \in S
    OBVIOUS
  <2> QED BY <2>1, <2>2 DEF ChosenFrom
<1>4. \A g : SumsBy(g, terms, S) <=>
         g = [s \in SUBSET S |->
               IF s = {} THEN 0 ELSE Outer(CHOOSE x \in s : TRUE) + g[s \ {CHOOSE x \in s : TRUE}]]
  BY DEF SumsBy
<1>5. S \in SUBSET (1 .. n)
  BY <1>1
<1> HIDE DEF terms
<1>6. (\E g : SumsBy(g, terms, S)) /\ (\A g : SumsBy(g, terms, S) => g[S] = SumFunctionOnSet(f, S))
  BY <1>1, <1>3, <1>5, SumsByChoice
<1>7. SumsBy(iter, terms, S)
  BY <1>4, <1>6
<1> HIDE DEF iter
<1> QED BY <1>1, <1>2, <1>6, <1>7

\* What freezing them takes from the rest.
LEMMA TakenAdds ==
  ASSUME FlexTypeOK, NEW S \in SUBSET (1 .. Len(items)), size \in [1 .. Len(items) -> Int]
  PROVE  MapThenSumSet(TakenBy, S) = SumFunctionOnSet(TakenList, S)
<1>1. PICK n, f : n \in Nat /\ n = Len(items) /\ f = TakenList /\ Numbers(f, n)
  BY ListsAreNumbers DEF FlexTypeOK
<1> DEFINE terms == [s \in SUBSET S |-> TakenBy(CHOOSE x \in s : TRUE)]
           iter == CHOOSE g : g = [s \in SUBSET S |->
             IF s = {} THEN 0 ELSE TakenBy(CHOOSE x \in s : TRUE) + g[s \ {CHOOSE x \in s : TRUE}]]
<1>2. MapThenSumSet(TakenBy, S) = iter[S]
  BY DEF MapThenSumSet, MapThenFoldSet
<1>3. ChosenFrom(terms, f, S)
  <2>1. \A i \in S : f[i] = TakenBy(i)
    BY <1>1 DEF TakenList
  <2>2. \A s \in SUBSET S : s # {} => (CHOOSE x \in s : TRUE) \in S
    OBVIOUS
  <2> QED BY <2>1, <2>2 DEF ChosenFrom
<1>4. \A g : SumsBy(g, terms, S) <=>
         g = [s \in SUBSET S |->
               IF s = {} THEN 0 ELSE TakenBy(CHOOSE x \in s : TRUE) + g[s \ {CHOOSE x \in s : TRUE}]]
  BY DEF SumsBy
<1>5. S \in SUBSET (1 .. n)
  BY <1>1
<1> HIDE DEF terms
<1>6. (\E g : SumsBy(g, terms, S)) /\ (\A g : SumsBy(g, terms, S) => g[S] = SumFunctionOnSet(f, S))
  BY <1>1, <1>3, <1>5, SumsByChoice
<1>7. SumsBy(iter, terms, S)
  BY <1>4, <1>6
<1> HIDE DEF iter
<1> QED BY <1>1, <1>2, <1>6, <1>7

\* The children of a line as long as they have become.
LEMMA SizesAdd == \A S : MapThenSumSet(SizeOf, S) = SumFunctionOnSet(size, S)
BY DEF SizeOf, MapThenSumSet, SumFunctionOnSet, FoldFunctionOnSet, MapThenFoldSet

\* The sum of two lists.
LEMMA TotalsPlus ==
  ASSUME NEW n \in Nat, NEW f, Numbers(f, n), NEW g, Numbers(g, n), NEW h, Numbers(h, n),
         NEW S \in SUBSET (1 .. n), \A i \in S : h[i] = f[i] + g[i]
  PROVE  SumFunctionOnSet(h, S) = SumFunctionOnSet(f, S) + SumFunctionOnSet(g, S)
<1>1. PICK sum : Tallies(sum, f, n)
  BY NumbersTally
<1>2. PICK tot : Tallies(tot, g, n)
  BY NumbersTally
<1>3. PICK all : Tallies(all, h, n)
  BY NumbersTally
<1>4. /\ SumFunctionOnSet(f, S) = sum[S]
      /\ SumFunctionOnSet(g, S) = tot[S]
      /\ SumFunctionOnSet(h, S) = all[S]
  BY <1>1, <1>2, <1>3, SumsOver
<1>5. all[S] = sum[S] + tot[S]
  BY <1>1, <1>2, <1>3, SumsPlus
<1> QED BY <1>4, <1>5

-----------------------------------------------------------------------------
(* Flex: what the rounds of a line hand out.                               *)

\* No child has a minimum above its maximum.
Agreeing == \A item \in Items : item.min <= item.max

\* The children of the line being worked on that no round has frozen.
Left == Members(cursor) \ dist.frozen

\* What line k is long before anything is handed out.
LineBase(k) ==
  SumFunctionOnSet(BaseList, Members(k)) + SumFunctionOnSet(MarginList, Members(k)) + Gap * (lines[k].count - 1)

FlexStateOK ==
  /\ size \in [1 .. Len(items) -> Int]
  /\ dist \in [round : Nat, frozen : SUBSET (1 .. Len(items)), delta : Int, grow : Nat, weight : Nat,
               growing : BOOLEAN]

\* A line holds some of the children.
LineIn(row) == row.start \in Nat \ {0} /\ row.count \in Nat \ {0} /\ row.start + row.count <= Len(items) + 1
LinesWithin == \A k \in 1 .. Len(lines) : LineIn(lines[k])

\* The free space of the line is what the frozen children have left of it, and
\* the factors are those of the others.  Each round that is not the last one
\* has frozen a child.
RoundOK ==
  /\ cursor \in 1 .. Len(lines)
  /\ dist.frozen \subseteq Members(cursor)
  /\ dist.delta + SumFunctionOnSet(size, dist.frozen) =
       Space - LineBase(cursor) + SumFunctionOnSet(BaseList, dist.frozen)
  /\ dist.grow = SumFunctionOnSet(GrowList, Left)
  /\ dist.weight = SumFunctionOnSet(WeightList, Left)
  /\ Agreeing => \A i \in dist.frozen : Limited(i, size[i]) = size[i]
  /\ at \in {"assign", "freeze"} => dist.round <= Cardinality(dist.frozen)
  /\ at \in {"freeze", "place"} => \A i \in Left : size[i] = Distributed(i)
  /\ at = "place" => \A i \in Left : Limited(i, size[i]) = size[i]

\* What holds between the steps.
FlexInv ==
  /\ LinesInv /\ FlexStateOK /\ LinesWithin
  /\ at = "lines" /\ ~(frame.wrap /\ Space > 0) => cursor = 1
  /\ at # "lines" => cursor \in 1 .. Len(lines) + 1
  /\ at # "lines" /\ ~(frame.wrap /\ Space > 0) => Len(lines) = 1
  /\ at \in {"assign", "freeze", "place"} => RoundOK

\* Where nothing has happened yet.
LEMMA FlexInvInit == FlexInit => FlexInv
<1> SUFFICES ASSUME FlexInit PROVE FlexInv
  OBVIOUS
<1>1. LinesInv
  BY LinesInvInit
<1>2. /\ at = "lines" /\ cursor = 1 /\ lines = <<>> /\ dist = NoDist
      /\ size = [i \in DOMAIN items |-> 0]
  BY DEF FlexInit, FlexReady
<1>3. DOMAIN items = 1 .. Len(items)
  BY <1>1 DEF LinesInv, FlexTypeOK
<1>4. FlexStateOK
  BY <1>2, <1>3 DEF FlexStateOK, NoDist
<1>5. LinesWithin
  BY <1>2 DEF LinesWithin
<1> QED BY <1>1, <1>2, <1>4, <1>5 DEF FlexInv

\* The children of a line are children, as many as it says.
LEMMA MembersAre ==
  ASSUME FlexInv, NEW k \in 1 .. Len(lines)
  PROVE  /\ Members(k) \in SUBSET (1 .. Len(items))
         /\ lines[k].start \in Members(k) /\ lines[k].count \in Nat \ {0} /\ lines[k].start \in Nat \ {0}
         /\ IsFiniteSet(Members(k)) /\ Cardinality(Members(k)) = lines[k].count
<1>1. PICK s \in Nat \ {0}, c \in Nat \ {0} : s = lines[k].start /\ c = lines[k].count /\ s + c <= Len(items) + 1
  BY DEF FlexInv, LinesWithin, LineIn
<1>2. Members(k) = s .. s + c - 1 /\ Len(items) \in Nat
  BY <1>1 DEF Members, FlexInv, LinesInv, FlexTypeOK
<1>3. IsFiniteSet(s .. s + c - 1) /\ Cardinality(s .. s + c - 1) = c
  <2>1. s + c - 1 \in Int /\ s <= s + c - 1 /\ (s + c - 1) - s + 1 = c
    OBVIOUS
  <2> QED BY <2>1, FS_Interval
<1>4. PICK n \in Nat : n = Len(items)
  BY <1>2
<1>5. s .. s + c - 1 \in SUBSET (1 .. n) /\ s \in s .. s + c - 1
  BY <1>1, <1>4
<1> QED BY <1>1, <1>2, <1>3, <1>4, <1>5

\* While the children stay, so do their numbers.
LEMMA ChildrenKept ==
  ASSUME items' = items, frame' = frame
  PROVE  /\ BaseList' = BaseList /\ MarginList' = MarginList /\ GrowList' = GrowList /\ WeightList' = WeightList
         /\ Space' = Space /\ Gap' = Gap
         /\ \A i : /\ Base(i)' = Base(i) /\ Margins(i)' = Margins(i) /\ Weight(i)' = Weight(i)
                   /\ Outer(i)' = Outer(i) /\ Hypothetical(i)' = Hypothetical(i)
                   /\ \A x : Limited(i, x)' = Limited(i, x)
<1>1. BaseList' = BaseList /\ MarginList' = MarginList /\ GrowList' = GrowList /\ WeightList' = WeightList
  BY DEF BaseList, MarginList, GrowList, WeightList, Base, Margins, GrowOf, Weight
<1>2. \A i : /\ Base(i)' = Base(i) /\ Margins(i)' = Margins(i) /\ Weight(i)' = Weight(i)
             /\ Outer(i)' = Outer(i) /\ Hypothetical(i)' = Hypothetical(i)
             /\ \A x : Limited(i, x)' = Limited(i, x)
  BY DEF Base, Margins, Weight, Outer, Hypothetical, Limited, Clamp
<1> QED BY <1>1, <1>2, RoomKept

\* The length of a line in terms of the lists.
LEMMA LineMainIs ==
  ASSUME FlexInv, NEW k \in 1 .. Len(lines)
  PROVE  /\ LineMain(Base, k) = LineBase(k)
         /\ LineMain(SizeOf, k) =
              SumFunctionOnSet(size, Members(k)) + SumFunctionOnSet(MarginList, Members(k)) + Gap * (lines[k].count - 1)
         /\ LineBase(k) \in Int /\ LineMain(SizeOf, k) \in Int
         /\ Gap * (lines[k].count - 1) \in Int
<1>1. FlexTypeOK
  BY DEF FlexInv, LinesInv
<1>2. PICK S \in SUBSET (1 .. Len(items)) : S = Members(k)
  BY MembersAre
<1>3. /\ MapThenSumSet(Base, S) = SumFunctionOnSet(BaseList, S)
      /\ MapThenSumSet(Margins, S) = SumFunctionOnSet(MarginList, S)
  BY <1>1, BaseAdds, MarginsAdd
<1>4. /\ LineMain(Base, k) = LineBase(k)
      /\ LineMain(SizeOf, k) =
           SumFunctionOnSet(size, Members(k)) + SumFunctionOnSet(MarginList, Members(k)) + Gap * (lines[k].count - 1)
  BY <1>2, <1>3, SizesAdd DEF LineMain, LineBase
<1>5. PICK n \in Nat : n = Len(items)
  BY <1>1 DEF FlexTypeOK
<1>6. Numbers(BaseList, n) /\ Numbers(MarginList, n) /\ Numbers(size, n)
  BY <1>1, <1>5, ListsAreNumbers DEF FlexInv, FlexStateOK, Numbers
<1>7. /\ SumFunctionOnSet(BaseList, S) \in Int /\ SumFunctionOnSet(MarginList, S) \in Int
      /\ SumFunctionOnSet(size, S) \in Int
  <2>1. S \in SUBSET (1 .. n)
    BY <1>2, <1>5
  <2> QED BY <1>6, <2>1, TotalIs
<1>8. PICK g \in Int, c \in Nat : g = Gap /\ c = lines[k].count
  BY <1>1, RoomTypes, MembersAre
<1>9. g * (c - 1) \in Int
  OBVIOUS
<1>10. Gap * (lines[k].count - 1) \in Int
  BY <1>8, <1>9
<1>11. LineBase(k) \in Int /\ LineMain(SizeOf, k) \in Int
  BY <1>2, <1>4, <1>7, <1>10 DEF LineBase
<1> QED BY <1>4, <1>10, <1>11

-----------------------------------------------------------------------------
(* Breaking children into lines, once more.                                *)

\* A line that is closed holds some of the children.
LEMMA CloseWithin ==
  ASSUME FlexInv, at = "lines", open.count > 0, items' = items, lines' = Close
  PROVE  LinesWithin'
<1>1. Filling /\ lines \in Seq(Line) /\ LinesWithin /\ Len(items) \in Nat
  BY DEF FlexInv, LinesInv, FlexTypeOK
<1>2. PICK n \in Nat : n = Len(lines)
  BY <1>1
<1> DEFINE row == [start |-> open.start, count |-> open.count]
<1>3. row \in Line /\ LineIn(row)
  <2>1. /\ open.start \in Nat \ {0} /\ open.count \in Nat \ {0}
        /\ open.start + open.count <= Len(items) + 1
    BY <1>1 DEF Filling
  <2>2. row.start = open.start /\ row.count = open.count
    OBVIOUS
  <2> HIDE DEF row
  <2>3. LineIn(row)
    BY <2>1, <2>2 DEF LineIn
  <2> QED BY <2>1, <2>3 DEF row, Line
<1>4. lines' = Append(lines, row)
  BY DEF Close
<1> HIDE DEF row
<1>5. Len(lines') = n + 1 /\ lines'[n + 1] = row /\ \A k \in 1 .. n : lines'[k] = lines[k]
  BY <1>1, <1>2, <1>3, <1>4, AppendProperties
<1>6. \A x : LineIn(x)' <=> LineIn(x)
  BY DEF LineIn
<1>7. ASSUME NEW k \in 1 .. n + 1 PROVE LineIn(lines'[k])
  <2>1. CASE k = n + 1
    BY <1>3, <1>5, <2>1
  <2>2. CASE k \in 1 .. n
    BY <1>1, <1>2, <1>5, <2>2 DEF LinesWithin
  <2> QED BY <2>1, <2>2
<1>8. \A k \in 1 .. n + 1 : LineIn(lines[k])'
  <2> SUFFICES ASSUME NEW k \in 1 .. n + 1 PROVE LineIn(lines[k])'
    OBVIOUS
  <2>1. LineIn(lines'[k])
    BY <1>7
  <2> QED BY <2>1 DEF LineIn
<1> QED BY <1>5, <1>8 DEF LinesWithin

\* Breaking children into lines.
LEMMA BreakingKeeps ==
  ASSUME FlexInv, SingleLine \/ TakeItem \/ LastItem
  PROVE  FlexInv'
<1>1. /\ LinesInv /\ FlexStateOK /\ LinesWithin /\ FlexTypeOK /\ Len(items) \in Nat \ {0} /\ at = "lines"
      /\ Space \in Int /\ Filling
  BY RoomTypes DEF FlexInv, LinesInv, FlexTypeOK, SingleLine, TakeItem, LastItem, Breaking
<1>2. items' = items /\ frame' = frame /\ size' = size /\ dist' = dist
  BY DEF SingleLine, TakeItem, LastItem
<1>3. LinesInv'
  BY <1>1, LinesInvStep DEF FlexNext
<1>4. FlexStateOK'
  BY <1>1, <1>2 DEF FlexStateOK
<1>5. Space' = Space
  BY <1>2, RoomKept
<1>6. CASE SingleLine
  <2>1. /\ lines' = <<[start |-> 1, count |-> Len(items)]>> /\ at' = "line" /\ cursor' = cursor
        /\ ~frame.wrap \/ Space <= 0
    BY <1>6 DEF SingleLine
  <2>2. cursor = 1
    BY <1>1, <2>1 DEF FlexInv
  <2> DEFINE row == [start |-> 1, count |-> Len(items)]
  <2>3. Len(lines') = 1 /\ lines'[1] = row
    BY <2>1
  <2>4. LineIn(row)
    <3>1. row.start = 1 /\ row.count = Len(items)
      OBVIOUS
    <3> HIDE DEF row
    <3> QED BY <1>1, <3>1 DEF LineIn
  <2> HIDE DEF row
  <2>5. LinesWithin'
    <3>1. \A k \in 1 .. Len(lines') : lines'[k] = row
      BY <2>3
    <3> QED BY <1>2, <2>4, <3>1 DEF LinesWithin, LineIn
  <2> QED BY <1>3, <1>4, <2>1, <2>2, <2>3, <2>5 DEF FlexInv
<1>7. CASE TakeItem
  <2>1. at' = "lines" /\ frame.wrap /\ Space > 0
    BY <1>1, <1>7 DEF TakeItem, Breaking
  <2>2. \/ open.count > 0 /\ lines' = Close
        \/ lines' = lines
    BY <1>7 DEF TakeItem
  <2>3. LinesWithin'
    <3>1. CASE open.count > 0 /\ lines' = Close
      BY <1>1, <1>2, <3>1, CloseWithin
    <3>2. CASE lines' = lines
      BY <1>1, <1>2, <3>2 DEF LinesWithin, LineIn
    <3> QED BY <2>2, <3>1, <3>2
  <2> QED BY <1>1, <1>2, <1>3, <1>4, <1>5, <2>1, <2>3 DEF FlexInv
<1>8. CASE LastItem
  <2>1. at' = "line" /\ cursor' = 1 /\ frame.wrap /\ Space > 0
    BY <1>1, <1>8 DEF LastItem, Breaking
  <2>2. open.count > 0
    BY <1>1, <1>8 DEF LastItem, Filling, Breaking
  <2>3. lines' = Close
    BY <1>8, <2>2 DEF LastItem
  <2>4. LinesWithin'
    BY <1>1, <1>2, <2>2, <2>3, CloseWithin
  <2>5. 1 \in 1 .. Len(lines') + 1
    <3>1. lines' \in Seq(Line)
      BY <1>3 DEF LinesInv
    <3> QED BY <3>1
  <2> QED BY <1>1, <1>2, <1>3, <1>4, <1>5, <2>1, <2>4, <2>5 DEF FlexInv
<1> QED BY <1>6, <1>7, <1>8

-----------------------------------------------------------------------------
(* A line is begun, its space handed out in rounds, and placed.            *)

\* The steps after breaking leave the lines as they are.
LEMMA LinesStay ==
  ASSUME FlexInv, FlexNext, at # "lines", at' # "lines",
         items' = items, frame' = frame, lines' = lines
  PROVE  /\ LinesInv' /\ LinesWithin'
         /\ ~(frame'.wrap /\ Space' > 0) => Len(lines') = 1
         /\ \A k : Members(k)' = Members(k) /\ LineBase(k)' = LineBase(k)
<1>1. LinesInv'
  BY LinesInvStep DEF FlexInv
<1>2. LinesWithin'
  BY DEF FlexInv, LinesWithin, LineIn
<1>3. ~(frame'.wrap /\ Space' > 0) => Len(lines') = 1
  <2>1. Space' = Space
    BY RoomKept
  <2> QED BY <2>1 DEF FlexInv
<1>4. \A k : Members(k)' = Members(k)
  BY DEF Members
<1>5. \A k : LineBase(k)' = LineBase(k)
  <2>1. BaseList' = BaseList /\ MarginList' = MarginList /\ Gap' = Gap
    BY ChildrenKept
  <2> QED BY <1>4, <2>1 DEF LineBase
<1> QED BY <1>1, <1>2, <1>3, <1>4, <1>5

\* Nothing is handed out yet.
LEMMA BeginLineKeeps == ASSUME FlexInv, BeginLine PROVE FlexInv'
<1>1. /\ at = "line" /\ at' = "assign" /\ items' = items /\ frame' = frame /\ lines' = lines
      /\ cursor' = cursor /\ size' = size
  BY DEF BeginLine
<1>2. cursor \in 1 .. Len(lines)
  <2>1. PICK n \in Nat : n = Len(lines)
    BY DEF FlexInv, LinesInv
  <2>2. cursor \in 1 .. n + 1 /\ cursor <= n
    BY <1>1, <2>1 DEF FlexInv, BeginLine
  <2> QED BY <2>1, <2>2
<1>3. /\ LinesInv' /\ LinesWithin' /\ (~(frame'.wrap /\ Space' > 0) => Len(lines') = 1)
      /\ \A k : Members(k)' = Members(k) /\ LineBase(k)' = LineBase(k)
  BY <1>1, LinesStay DEF FlexNext
<1>4. FlexTypeOK /\ Len(items) \in Nat
  BY DEF FlexInv, LinesInv, FlexTypeOK
<1>5. PICK S \in SUBSET (1 .. Len(items)) : S = Members(cursor)
  BY <1>2, MembersAre
<1>6. PICK n \in Nat : n = Len(items)
  BY <1>4
<1>7. Numbers(BaseList, n) /\ Numbers(GrowList, n) /\ Numbers(WeightList, n) /\ Numbers(size, n)
  BY <1>4, <1>6, ListsAreNumbers DEF FlexInv, FlexStateOK, Numbers
<1>8. MapThenSumSet(GrowOf, S) = SumFunctionOnSet(GrowList, S) /\ MapThenSumSet(Weight, S) = SumFunctionOnSet(WeightList, S)
  BY <1>4, GrowsAdd, WeightsOfAdd
<1>9. SumFunctionOnSet(GrowList, S) \in Nat /\ SumFunctionOnSet(WeightList, S) \in Nat
  <2>1. \A i \in S : 0 <= GrowList[i] /\ 0 <= WeightList[i]
    BY <1>4, ItemNumbers DEF GrowList, WeightList
  <2>2. S \in SUBSET (1 .. n)
    BY <1>6
  <2>3. 0 <= SumFunctionOnSet(GrowList, S) /\ 0 <= SumFunctionOnSet(WeightList, S)
    BY <1>7, <2>1, <2>2, TotalNotNegative
  <2>4. SumFunctionOnSet(GrowList, S) \in Int /\ SumFunctionOnSet(WeightList, S) \in Int
    BY <1>7, <2>2, TotalIs
  <2> QED BY <2>3, <2>4
<1>10. PICK delta \in Int : delta = Space - LineBase(cursor) /\ delta = Space - LineMain(Base, cursor)
  BY <1>2, <1>4, LineMainIs, RoomTypes
<1>11. dist' = [round |-> 0, frozen |-> {}, delta |-> delta, grow |-> SumFunctionOnSet(GrowList, S),
                weight |-> SumFunctionOnSet(WeightList, S), growing |-> delta > 0]
  BY <1>5, <1>8, <1>10 DEF BeginLine
<1>12. FlexStateOK'
  BY <1>1, <1>9, <1>11 DEF FlexInv, FlexStateOK
<1>13. RoundOK'
  <2>1. dist'.frozen = {} /\ dist'.round = 0 /\ dist'.delta = delta
        /\ dist'.grow = SumFunctionOnSet(GrowList, S) /\ dist'.weight = SumFunctionOnSet(WeightList, S)
    BY <1>11
  <2>2. SumFunctionOnSet(size, {}) = 0 /\ SumFunctionOnSet(BaseList, {}) = 0
    BY <1>7, TotalIs
  <2>3. Left' = S
    BY <1>1, <1>3, <1>5, <2>1 DEF Left
  <2>4. BaseList' = BaseList /\ GrowList' = GrowList /\ WeightList' = WeightList /\ Space' = Space
    BY <1>1, ChildrenKept
  <2>5. LineBase(cursor)' = LineBase(cursor) /\ Members(cursor)' = Members(cursor)
    BY <1>1, <1>3 DEF LineBase, Members
  <2>6. dist'.delta + SumFunctionOnSet(size', dist'.frozen) =
          Space' - LineBase(cursor)' + SumFunctionOnSet(BaseList', dist'.frozen)
    BY <1>1, <1>10, <2>1, <2>2, <2>4, <2>5
  <2>7. Cardinality(dist'.frozen) = 0
    BY <2>1, FS_EmptySet
  <2> QED BY <1>1, <1>2, <2>1, <2>3, <2>4, <2>6, <2>7 DEF RoundOK
<1>14. cursor' \in 1 .. Len(lines') + 1
  BY <1>1 DEF FlexInv
<1> QED BY <1>1, <1>3, <1>12, <1>13, <1>14 DEF FlexInv

\* What a round hands out is a number.
LEMMA DistributedIs ==
  ASSUME FlexTypeOK, FlexStateOK, NEW i \in 1 .. Len(items)
  PROVE  Distributed(i) \in Int
<1>1. PICK d \in Int, g \in Nat, w \in Nat : d = dist.delta /\ g = dist.grow /\ w = dist.weight
  BY DEF FlexStateOK
<1>2. PICK b \in Nat, r \in Nat, v \in Nat : b = Base(i) /\ r = items[i].grow /\ v = Weight(i)
  BY ItemNumbers
<1>3. Shares(g) \in Nat \ {0}
  BY DEF Shares, One
<1>4. PICK s \in Nat \ {0} : s = Shares(g)
  BY <1>3
<1>5. (d * r) \div s \in Int
  <2>1. d * r \in Int
    OBVIOUS
  <2> QED BY <2>1, DivMod
<1>6. w > 0 => (d * v) \div w \in Int
  <2>1. d * v \in Int
    OBVIOUS
  <2> QED BY <2>1, DivMod
<1> DEFINE p == (d * r) \div s
           q == (d * v) \div w
<1>7. Distributed(i) = IF dist.growing /\ g > 0 THEN b + p
                       ELSE IF ~dist.growing /\ w > 0 THEN AtLeastZero(b + q) ELSE b
  BY <1>1, <1>2, <1>4 DEF Distributed
<1> HIDE DEF p, q
<1> QED BY <1>5, <1>6, <1>7 DEF p, q, AtLeastZero

\* A round begins.
LEMMA AssignKeeps == ASSUME FlexInv, Assign PROVE FlexInv'
<1>1. /\ at = "assign" /\ items' = items /\ frame' = frame /\ lines' = lines
      /\ cursor' = cursor /\ dist' = dist
      /\ at' = IF dist.round = lines[cursor].count THEN "place" ELSE "freeze"
      /\ FlexTypeOK /\ FlexStateOK /\ RoundOK
  BY DEF Assign, FlexInv, LinesInv
<1>2. /\ LinesInv' /\ LinesWithin' /\ (~(frame'.wrap /\ Space' > 0) => Len(lines') = 1)
      /\ \A k : Members(k)' = Members(k) /\ LineBase(k)' = LineBase(k)
  BY <1>1, LinesStay DEF FlexNext
<1>3. DOMAIN items = 1 .. Len(items) /\ Len(items) \in Nat
  BY <1>1 DEF FlexTypeOK
<1>4. cursor \in 1 .. Len(lines) /\ dist.frozen \subseteq Members(cursor)
  BY <1>1 DEF RoundOK
<1>5. Members(cursor) \in SUBSET (1 .. Len(items)) /\ Cardinality(Members(cursor)) = lines[cursor].count
      /\ IsFiniteSet(Members(cursor)) /\ lines[cursor].count \in Nat
  BY <1>4, MembersAre
<1>6. size' = [i \in 1 .. Len(items) |-> IF i \in Left THEN Distributed(i) ELSE size[i]]
  BY <1>1, <1>3 DEF Assign, Left
<1>7. size' \in [1 .. Len(items) -> Int]
  BY <1>1, <1>6, DistributedIs DEF FlexStateOK
<1>8. FlexStateOK'
  BY <1>1, <1>7 DEF FlexStateOK
<1>9. \A i \in Left : i \in 1 .. Len(items) /\ i \notin dist.frozen
  BY <1>4, <1>5 DEF Left
<1>10. \A i \in dist.frozen : i \in 1 .. Len(items) /\ size'[i] = size[i]
  BY <1>4, <1>5, <1>6 DEF Left
<1>11. \A i \in Left : size'[i] = Distributed(i)
  BY <1>6, <1>9
<1>12. Left' = Left /\ \A i : Distributed(i)' = Distributed(i)
  <2>1. Left' = Left
    BY <1>1, <1>2 DEF Left, Members
  <2>2. \A i : Distributed(i)' = Distributed(i)
    BY <1>1 DEF Distributed, Base, Weight, Shares, One, AtLeastZero
  <2> QED BY <2>1, <2>2
<1>13. at' = "place" => Left = {}
  <2> SUFFICES ASSUME dist.round = lines[cursor].count PROVE Left = {}
    BY <1>1
  <2>1. dist.round <= Cardinality(dist.frozen)
    BY <1>1 DEF RoundOK
  <2>2. IsFiniteSet(dist.frozen) /\ Cardinality(dist.frozen) \in Nat
    BY <1>4, <1>5, FS_Subset, FS_CardinalityType
  <2>3. Cardinality(dist.frozen) <= Cardinality(Members(cursor))
    BY <1>4, <1>5, FS_Subset
  <2>4. Cardinality(dist.frozen) = Cardinality(Members(cursor))
    BY <1>5, <2>1, <2>2, <2>3
  <2>5. dist.frozen = Members(cursor)
    BY <1>4, <1>5, <2>4, FS_Subset
  <2> QED BY <2>5 DEF Left
<1>14. SumFunctionOnSet(size', dist.frozen) = SumFunctionOnSet(size, dist.frozen)
  <2>1. PICK n \in Nat : n = Len(items)
    BY <1>3
  <2>2. Numbers(size, n) /\ Numbers(size', n)
    BY <1>1, <1>7, <2>1 DEF FlexStateOK, Numbers
  <2>3. dist.frozen \in SUBSET (1 .. n) /\ \A i \in dist.frozen : size'[i] = size[i]
    BY <1>10, <2>1
  <2> QED BY <2>2, <2>3, TotalsAgree
<1>15. RoundOK'
  <2>1. BaseList' = BaseList /\ GrowList' = GrowList /\ WeightList' = WeightList /\ Space' = Space
        /\ \A i : \A x : Limited(i, x)' = Limited(i, x)
    BY <1>1, ChildrenKept
  <2>2. LineBase(cursor)' = LineBase(cursor) /\ Members(cursor)' = Members(cursor)
    BY <1>1, <1>2 DEF LineBase, Members
  <2>3. dist'.delta + SumFunctionOnSet(size', dist'.frozen) =
          Space' - LineBase(cursor)' + SumFunctionOnSet(BaseList', dist'.frozen)
    BY <1>1, <1>14, <2>1, <2>2 DEF RoundOK
  <2>4. dist'.grow = SumFunctionOnSet(GrowList', Left') /\ dist'.weight = SumFunctionOnSet(WeightList', Left')
    BY <1>1, <1>12, <2>1 DEF RoundOK
  <2>5. Agreeing' => \A i \in dist'.frozen : Limited(i, size[i])' = size'[i]
    <3>1. Agreeing => \A i \in dist.frozen : Limited(i, size[i]) = size[i]
      BY <1>1 DEF RoundOK
    <3>2. \A i \in dist.frozen : Limited(i, size[i])' = Limited(i, size[i])
      BY <1>1, <1>10 DEF Limited, Clamp
    <3> QED BY <1>1, <1>10, <3>1, <3>2 DEF Agreeing
  <2>6. at' = "freeze" => dist'.round <= Cardinality(dist'.frozen)
    BY <1>1 DEF RoundOK
  <2>7. \A i \in Left' : size'[i] = Distributed(i)'
    BY <1>11, <1>12
  <2> QED BY <1>1, <1>4, <1>12, <1>13, <2>2, <2>3, <2>4, <2>5, <2>6, <2>7 DEF RoundOK
<1>16. cursor' \in 1 .. Len(lines') + 1
  BY <1>1 DEF FlexInv
<1>17. at' # "lines"
  BY <1>1
<1> QED BY <1>2, <1>8, <1>15, <1>16, <1>17 DEF FlexInv

\* A line is placed.
LEMMA PlaceKeeps == ASSUME FlexInv, Place PROVE FlexInv'
<1>1. /\ at = "place" /\ items' = items /\ frame' = frame /\ lines' = lines
      /\ cursor' = cursor + 1 /\ dist' = dist /\ size' = size
      /\ at' = IF cursor = Len(lines) THEN "done" ELSE "line"
  BY DEF Place
<1>2. /\ LinesInv' /\ LinesWithin' /\ (~(frame'.wrap /\ Space' > 0) => Len(lines') = 1)
  BY <1>1, LinesStay DEF FlexNext
<1>3. FlexStateOK'
  BY <1>1 DEF FlexInv, FlexStateOK
<1>4. cursor' \in 1 .. Len(lines') + 1
  <2>1. PICK n \in Nat : n = Len(lines)
    BY DEF FlexInv, LinesInv
  <2>2. cursor \in 1 .. n
    BY <1>1, <2>1 DEF FlexInv, RoundOK
  <2> QED BY <1>1, <2>1, <2>2
<1> QED BY <1>1, <1>2, <1>3, <1>4 DEF FlexInv

\* A limited length keeps to its limits.
LEMMA LimitedTwice ==
  ASSUME FlexTypeOK, Agreeing, NEW i \in 1 .. Len(items), NEW x \in Int
  PROVE  Limited(i, Limited(i, x)) = Limited(i, x)
<1>1. items[i] \in Items
  BY DEF FlexTypeOK
<1>2. PICK l \in Nat, h \in Nat : l = items[i].min /\ h = items[i].max /\ l <= h
  BY <1>1, FlexAssumption DEF Agreeing
<1>3. PICK u \in Nat : u = Unit
  BY UnitAssumption
<1>4. l * u \in Nat /\ h * u \in Nat /\ l * u <= h * u
  <2>1. PICK d \in Nat : h = l + d
    <3>1. h - l \in Nat /\ h = l + (h - l)
      BY <1>2
    <3> QED BY <3>1
  <2>2. (l + d) * u = l * u + d * u /\ d * u \in Nat /\ l * u \in Nat
    OBVIOUS
  <2> QED BY <2>1, <2>2
<1>5. PICK a \in Nat, b \in Nat : a = l * u /\ b = h * u /\ a <= b
  BY <1>4
<1>6. \A y : Limited(i, y) = IF y < a THEN a ELSE IF y > b THEN b ELSE y
  BY <1>2, <1>3, <1>5 DEF Limited, Clamp
<1> QED BY <1>5, <1>6

\* The children beyond a limit are frozen there.
LEMMA FreezeKeeps == ASSUME FlexInv, Freeze PROVE FlexInv'
<1>1. /\ at = "freeze" /\ items' = items /\ frame' = frame /\ lines' = lines
      /\ cursor' = cursor /\ FlexTypeOK /\ FlexStateOK /\ RoundOK
      /\ at' = IF Violations = {} THEN "place" ELSE "assign"
  BY DEF Freeze, FlexInv, LinesInv
<1>2. /\ LinesInv' /\ LinesWithin' /\ (~(frame'.wrap /\ Space' > 0) => Len(lines') = 1)
      /\ \A k : Members(k)' = Members(k) /\ LineBase(k)' = LineBase(k)
  BY <1>1, LinesStay DEF FlexNext
<1>3. PICK n \in Nat : n = Len(items) /\ DOMAIN items = 1 .. n
  BY <1>1 DEF FlexTypeOK
<1>4. PICK M \in SUBSET (1 .. n), F \in SUBSET (1 .. n) :
        F \subseteq M /\ M = Members(cursor) /\ F = dist.frozen /\ IsFiniteSet(M) /\ cursor \in 1 .. Len(lines)
  BY <1>1, <1>3, MembersAre DEF RoundOK
<1>5. PICK V \in SUBSET (M \ F) : V = Violations /\ \A i \in M \ F : i \notin V => Limited(i, size[i]) = size[i]
  <2> DEFINE broken == {i \in M \ F : Limited(i, size[i]) # size[i]}
  <2>1. broken = Violations
    BY <1>4 DEF Violations
  <2>2. broken \in SUBSET (M \ F) /\ \A i \in M \ F : i \notin broken => Limited(i, size[i]) = size[i]
    OBVIOUS
  <2> HIDE DEF broken
  <2> QED BY <2>1, <2>2
<1>6. Left = M \ F
  BY <1>4 DEF Left
<1>7. PICK f : f = size /\ Numbers(f, n)
  BY <1>1, <1>3 DEF FlexStateOK, Numbers
<1>8. PICK b : b = BaseList /\ Numbers(b, n)
  BY <1>1, <1>3, ListsAreNumbers
<1>9. PICK t : t = TakenList /\ Numbers(t, n)
  BY <1>1, <1>3, ListsAreNumbers DEF FlexStateOK
<1>10. PICK g, w : g = GrowList /\ w = WeightList /\ Numbers(g, n) /\ Numbers(w, n)
  BY <1>1, <1>3, ListsAreNumbers
<1>11. PICK h : h = size' /\ h = [i \in 1 .. n |-> IF i \in V THEN Limited(i, f[i]) ELSE f[i]]
  BY <1>3, <1>5, <1>7 DEF Freeze
<1>12. /\ Numbers(h, n)
       /\ \A i \in V : h[i] = t[i] + b[i] /\ h[i] = Limited(i, f[i]) /\ i \in 1 .. n /\ f[i] \in Int
       /\ \A i \in M : i \notin V => h[i] = f[i]
  <2>1. \A i \in 1 .. n : f[i] \in Int /\ Limited(i, f[i]) \in Nat /\ Base(i) \in Nat
    BY <1>1, <1>3, <1>7, ItemNumbers DEF Numbers
  <2>2. Numbers(h, n)
    BY <1>11, <2>1 DEF Numbers
  <2>3. \A i \in V : i \in 1 .. n
    BY <1>4, <1>5
  <2>4. \A i \in V : t[i] = Limited(i, f[i]) - Base(i) /\ b[i] = Base(i)
    BY <1>3, <1>7, <1>8, <1>9, <2>3 DEF TakenList, TakenBy, BaseList
  <2>5. \A i \in V : h[i] = Limited(i, f[i])
    BY <1>11, <2>3
  <2>6. \A i \in V : h[i] = t[i] + b[i]
    <3> SUFFICES ASSUME NEW i \in V PROVE h[i] = t[i] + b[i]
      OBVIOUS
    <3>1. PICK x \in Nat, y \in Nat : x = Limited(i, f[i]) /\ y = Base(i)
      BY <2>1, <2>3
    <3> QED BY <2>4, <2>5, <3>1
  <2> QED BY <1>4, <1>11, <2>1, <2>2, <2>3, <2>5, <2>6
<1>13. F \in SUBSET (1 .. n) /\ V \in SUBSET (1 .. n) /\ M \ F \in SUBSET (1 .. n) /\ F \cap V = {}
  BY <1>4, <1>5
<1>14. PICK taken \in Int : taken = MapThenSumSet(TakenBy, V) /\ taken = SumFunctionOnSet(t, V)
  <2>1. MapThenSumSet(TakenBy, V) = SumFunctionOnSet(t, V)
    BY <1>1, <1>3, <1>9, <1>13, TakenAdds DEF FlexStateOK
  <2>2. SumFunctionOnSet(t, V) \in Int
    BY <1>9, <1>13, TotalIs
  <2> QED BY <2>1, <2>2
<1>15. PICK a \in Int, v \in Int :
         /\ a = MapThenSumSet(GrowOf, V) /\ a = SumFunctionOnSet(g, V)
         /\ v = MapThenSumSet(Weight, V) /\ v = SumFunctionOnSet(w, V)
  <2>1. MapThenSumSet(GrowOf, V) = SumFunctionOnSet(g, V) /\ MapThenSumSet(Weight, V) = SumFunctionOnSet(w, V)
    BY <1>1, <1>3, <1>10, <1>13, GrowsAdd, WeightsOfAdd
  <2>2. SumFunctionOnSet(g, V) \in Int /\ SumFunctionOnSet(w, V) \in Int
    BY <1>10, <1>13, TotalIs
  <2> QED BY <2>1, <2>2
<1>16. PICK d \in Int, r \in Nat : d = dist.delta /\ r = dist.round
  BY <1>1 DEF FlexStateOK
<1>17. /\ dist' = [dist EXCEPT !.round = r + 1, !.frozen = F \cup V, !.delta = d - taken,
                               !.grow = AtLeastZero(dist.grow - a), !.weight = AtLeastZero(dist.weight - v)]
  <2>1. dist' = [dist EXCEPT !.round = @ + 1, !.frozen = @ \cup Violations,
                             !.delta = @ - MapThenSumSet(TakenBy, Violations),
                             !.grow = AtLeastZero(@ - MapThenSumSet(GrowOf, Violations)),
                             !.weight = AtLeastZero(@ - MapThenSumSet(Weight, Violations))]
    BY DEF Freeze, TakenBy, MapThenSumSet, MapThenFoldSet
  <2> QED BY <1>4, <1>5, <1>14, <1>15, <1>16, <2>1
<1>18. PICK R \in SUBSET (1 .. n) : R = (M \ F) \ V /\ R \cap V = {} /\ R \cup V = M \ F
  <2> DEFINE rest == (M \ F) \ V
  <2>1. rest \in SUBSET (1 .. n) /\ rest \cap V = {} /\ rest \cup V = M \ F
    BY <1>5, <1>13
  <2> QED BY <2>1
<1>19. /\ AtLeastZero(dist.grow - a) = SumFunctionOnSet(g, R) /\ SumFunctionOnSet(g, R) \in Nat
       /\ AtLeastZero(dist.weight - v) = SumFunctionOnSet(w, R) /\ SumFunctionOnSet(w, R) \in Nat
  <2>1. dist.grow = SumFunctionOnSet(g, R \cup V) /\ dist.weight = SumFunctionOnSet(w, R \cup V)
    BY <1>1, <1>6, <1>10, <1>18 DEF RoundOK
  <2>2. R \cap V = {}
    BY <1>18
  <2>3. SumFunctionOnSet(g, R \cup V) = SumFunctionOnSet(g, R) + SumFunctionOnSet(g, V)
    BY <1>10, <1>13, <2>2, TotalOfParts
  <2>4. SumFunctionOnSet(w, R \cup V) = SumFunctionOnSet(w, R) + SumFunctionOnSet(w, V)
    BY <1>10, <1>13, <2>2, TotalOfParts
  <2>5. \A i \in R : 0 <= g[i] /\ 0 <= w[i]
    <3>1. \A i \in R : i \in 1 .. n
      BY <1>18
    <3> QED BY <1>1, <1>3, <1>10, <3>1, ItemNumbers DEF GrowList, WeightList
  <2>6. 0 <= SumFunctionOnSet(g, R) /\ 0 <= SumFunctionOnSet(w, R)
    BY <1>10, <2>5, TotalNotNegative
  <2>7. SumFunctionOnSet(g, R) \in Int /\ SumFunctionOnSet(w, R) \in Int
    BY <1>10, TotalIs
  <2>8. PICK x \in Nat, y \in Nat : x = SumFunctionOnSet(g, R) /\ y = SumFunctionOnSet(w, R)
    BY <2>6, <2>7
  <2>9. dist.grow - a = x /\ dist.weight - v = y
    BY <1>15, <2>1, <2>3, <2>4, <2>8
  <2> QED BY <2>8, <2>9 DEF AtLeastZero
<1>20. /\ dist'.round = r + 1 /\ dist'.frozen = F \cup V /\ dist'.delta = d - taken
       /\ dist'.grow = SumFunctionOnSet(g, R) /\ dist'.weight = SumFunctionOnSet(w, R)
       /\ dist'.growing = dist.growing
  BY <1>1, <1>17, <1>19 DEF FlexStateOK
<1>21. FlexStateOK'
  <2>1. dist' \in [round : Nat, frozen : SUBSET (1 .. n), delta : Int, grow : Nat, weight : Nat, growing : BOOLEAN]
    <3>1. F \cup V \in SUBSET (1 .. n) /\ r + 1 \in Nat /\ d - taken \in Int
      BY <1>13
    <3> QED BY <1>1, <1>17, <1>19, <3>1 DEF FlexStateOK
  <2> QED BY <1>1, <1>3, <1>11, <1>12, <2>1 DEF FlexStateOK, Numbers
<1>22. /\ Members(cursor)' = M /\ LineBase(cursor)' = LineBase(cursor) /\ Space' = Space
       /\ BaseList' = b /\ GrowList' = g /\ WeightList' = w
  <2>1. Members(cursor)' = M /\ LineBase(cursor)' = LineBase(cursor)
    BY <1>1, <1>2, <1>4 DEF Members, LineBase
  <2> QED BY <1>1, <1>8, <1>10, <2>1, ChildrenKept
<1>23. Left' = R
  <2>1. Left' = M \ (F \cup V)
    BY <1>20, <1>22 DEF Left
  <2>2. M \ (F \cup V) = (M \ F) \ V
    OBVIOUS
  <2> QED BY <1>18, <2>1, <2>2
<1>24. dist'.delta + SumFunctionOnSet(h, F \cup V) = Space - LineBase(cursor) + SumFunctionOnSet(b, F \cup V)
  <2>1. F \cap V = {}
    BY <1>13
  <2>2. SumFunctionOnSet(h, F \cup V) = SumFunctionOnSet(h, F) + SumFunctionOnSet(h, V)
    BY <1>12, <1>13, <2>1, TotalOfParts
  <2>3. SumFunctionOnSet(b, F \cup V) = SumFunctionOnSet(b, F) + SumFunctionOnSet(b, V)
    BY <1>8, <1>13, <2>1, TotalOfParts
  <2>4. SumFunctionOnSet(h, V) = SumFunctionOnSet(t, V) + SumFunctionOnSet(b, V)
    <3>1. \A i \in V : h[i] = t[i] + b[i]
      BY <1>12
    <3> QED BY <1>8, <1>9, <1>12, <1>13, <3>1, TotalsPlus
  <2>5. SumFunctionOnSet(h, F) = SumFunctionOnSet(f, F)
    <3>1. \A i \in F : h[i] = f[i]
      BY <1>4, <1>5, <1>12
    <3> QED BY <1>7, <1>12, <1>13, <3>1, TotalsAgree
  <2>6. d + SumFunctionOnSet(f, F) = Space - LineBase(cursor) + SumFunctionOnSet(b, F)
    BY <1>1, <1>4, <1>7, <1>8, <1>16 DEF RoundOK
  <2>7. PICK x \in Int, y \in Int, z \in Int, s \in Int :
          x = SumFunctionOnSet(f, F) /\ y = SumFunctionOnSet(b, F) /\ z = SumFunctionOnSet(b, V)
          /\ s = Space - LineBase(cursor)
    <3>1. Space \in Int /\ LineBase(cursor) \in Int
      BY <1>1, <1>4, RoomTypes, LineMainIs
    <3> QED BY <1>7, <1>8, <1>13, <3>1, TotalIs
  <2>8. dist'.delta = d - taken /\ taken = SumFunctionOnSet(t, V)
    BY <1>14, <1>20
  <2>9. (d - taken) + (x + (taken + z)) = s + (y + z)
    BY <2>6, <2>7
  <2> QED BY <2>2, <2>3, <2>4, <2>5, <2>7, <2>8, <2>9
<1>25. Agreeing' => \A i \in F \cup V : Limited(i, size[i])' = size'[i]
  <2> SUFFICES ASSUME Agreeing, NEW i \in F \cup V PROVE Limited(i, size[i])' = size'[i]
    BY DEF Agreeing
  <2>1. Limited(i, size[i])' = Limited(i, h[i])
    BY <1>1, <1>11 DEF Limited, Clamp
  <2>2. CASE i \in V
    <3>1. h[i] = Limited(i, f[i]) /\ f[i] \in Int /\ i \in 1 .. n
      BY <1>12, <2>2
    <3>2. Limited(i, h[i]) = h[i]
      BY <1>1, <1>3, <3>1, LimitedTwice
    <3> QED BY <1>11, <2>1, <3>2
  <2>3. CASE i \in F /\ i \notin V
    <3>1. h[i] = f[i] /\ Limited(i, f[i]) = f[i]
      BY <1>1, <1>4, <1>7, <1>12, <2>3 DEF RoundOK
    <3> QED BY <1>11, <2>1, <3>1
  <2> QED BY <2>2, <2>3
<1>26. V # {} => dist'.round <= Cardinality(F \cup V)
  <2> SUFFICES ASSUME V # {} PROVE r + 1 <= Cardinality(F \cup V)
    BY <1>20
  <2>1. PICK e \in V : TRUE
    OBVIOUS
  <2>2. IsFiniteSet(F) /\ Cardinality(F) \in Nat /\ r <= Cardinality(F)
    BY <1>1, <1>4, <1>16, FS_Subset, FS_CardinalityType DEF RoundOK
  <2>3. e \notin F
    BY <2>1
  <2>4. Cardinality(F \cup {e}) = Cardinality(F) + 1
    BY <2>2, <2>3, FS_AddElement
  <2>5. F \cup V \in SUBSET M /\ F \cup {e} \in SUBSET (F \cup V)
    BY <1>4, <1>5
  <2>6. IsFiniteSet(F \cup V)
    BY <1>4, <2>5, FS_Subset
  <2>7. Cardinality(F \cup {e}) <= Cardinality(F \cup V) /\ Cardinality(F \cup V) \in Nat
    BY <2>5, <2>6, FS_Subset, FS_CardinalityType
  <2> QED BY <2>2, <2>4, <2>7
<1>27. V = {} => \A i \in R : h[i] = Distributed(i)' /\ Limited(i, size[i])' = h[i]
  <2> SUFFICES ASSUME V = {}, NEW i \in R PROVE h[i] = Distributed(i)' /\ Limited(i, size[i])' = h[i]
    OBVIOUS
  <2>1. i \in M \ F /\ i \notin V /\ i \in 1 .. n
    BY <1>18
  <2>2. h[i] = f[i] /\ f[i] = Distributed(i) /\ Limited(i, f[i]) = f[i]
    BY <1>1, <1>5, <1>6, <1>7, <1>12, <2>1 DEF RoundOK
  <2>3. taken = 0
    BY <1>9, <1>14, TotalIs
  <2>4. R = M \ F
    BY <1>18
  <2>5. dist'.delta = dist.delta /\ dist'.grow = dist.grow /\ dist'.weight = dist.weight
    BY <1>1, <1>6, <1>10, <1>16, <1>20, <2>3, <2>4 DEF RoundOK
  <2>6. Distributed(i)' = Distributed(i)
    BY <1>1, <1>20, <2>5 DEF Distributed, Base, Weight, Shares, One, AtLeastZero
  <2>7. Limited(i, size[i])' = Limited(i, h[i])
    BY <1>1, <1>11 DEF Limited, Clamp
  <2> QED BY <2>2, <2>6, <2>7
<1>28. RoundOK'
  <2>1. cursor' \in 1 .. Len(lines')
    BY <1>1, <1>4
  <2>2. dist'.frozen \subseteq Members(cursor)'
    BY <1>4, <1>5, <1>20, <1>22
  <2>3. dist'.delta + SumFunctionOnSet(size', dist'.frozen) =
          Space' - LineBase(cursor)' + SumFunctionOnSet(BaseList', dist'.frozen)
    BY <1>11, <1>20, <1>22, <1>24
  <2>4. dist'.grow = SumFunctionOnSet(GrowList', Left') /\ dist'.weight = SumFunctionOnSet(WeightList', Left')
    BY <1>20, <1>22, <1>23
  <2>5. Agreeing' => \A i \in dist'.frozen : Limited(i, size[i])' = size'[i]
    BY <1>20, <1>25
  <2>6. at' \in {"assign", "freeze"} => dist'.round <= Cardinality(dist'.frozen)
    BY <1>1, <1>5, <1>20, <1>26
  <2>7. at' \in {"freeze", "place"} => \A i \in Left' : size'[i] = Distributed(i)' /\ Limited(i, size[i])' = size'[i]
    BY <1>1, <1>5, <1>11, <1>23, <1>27
  <2> QED BY <2>1, <2>2, <2>3, <2>4, <2>5, <2>6, <2>7 DEF RoundOK
<1>29. cursor' \in 1 .. Len(lines') + 1
  BY <1>1 DEF FlexInv
<1> QED BY <1>1, <1>2, <1>21, <1>28, <1>29 DEF FlexInv

\* Every step of laying out the main axis.
LEMMA FlexInvStep == FlexInv /\ [FlexNext]_flexVars => FlexInv'
<1> SUFFICES ASSUME FlexInv, [FlexNext]_flexVars PROVE FlexInv'
  OBVIOUS
<1>1. CASE SingleLine \/ TakeItem \/ LastItem
  BY <1>1, BreakingKeeps
<1>2. CASE BeginLine
  BY <1>2, BeginLineKeeps
<1>3. CASE Assign
  BY <1>3, AssignKeeps
<1>4. CASE Freeze
  BY <1>4, FreezeKeeps
<1>5. CASE Place
  BY <1>5, PlaceKeeps
<1>6. CASE UNCHANGED flexVars
  <2>1. /\ items' = items /\ frame' = frame /\ at' = at /\ cursor' = cursor /\ lines' = lines
        /\ dist' = dist /\ size' = size
    BY <1>6 DEF flexVars
  <2>2. LinesInv'
    BY <1>6, LinesInvStep DEF FlexInv
  <2>3. FlexStateOK' /\ LinesWithin'
    BY <2>1 DEF FlexInv, FlexStateOK, LinesWithin, LineIn
  <2>4. Space' = Space
    BY <2>1, RoomKept
  <2>5. RoundOK => RoundOK'
    <3> SUFFICES ASSUME RoundOK PROVE RoundOK'
      OBVIOUS
    <3>1. /\ BaseList' = BaseList /\ GrowList' = GrowList /\ WeightList' = WeightList
          /\ MarginList' = MarginList /\ Gap' = Gap
      BY <2>1, ChildrenKept
    <3>2. \A k : Members(k)' = Members(k)
      BY <2>1 DEF Members
    <3>3. LineBase(cursor)' = LineBase(cursor)
      BY <2>1, <3>1, <3>2 DEF LineBase, Members
    <3>4. Left' = Left
      BY <2>1, <3>2 DEF Left, Members
    <3>5. \A i : /\ Distributed(i)' = Distributed(i)
                 /\ Limited(i, size[i])' = Limited(i, size[i])
      BY <2>1 DEF Distributed, Base, Weight, Shares, One, AtLeastZero, Limited, Clamp
    <3>6. Agreeing' <=> Agreeing
      BY DEF Agreeing
    <3>7. Members(cursor)' = Members(cursor)
      BY <2>1 DEF Members
    <3> QED BY <2>1, <2>4, <3>1, <3>3, <3>4, <3>5, <3>6, <3>7 DEF RoundOK
  <2> QED BY <2>1, <2>2, <2>3, <2>4, <2>5 DEF FlexInv
<1> QED BY <1>1, <1>2, <1>3, <1>4, <1>5, <1>6 DEF FlexNext

-----------------------------------------------------------------------------
(* Shares that are whole.                                                  *)

\* The shares of a last round are whole.
SharesWhole ==
  at = "place" =>
    \A i \in Left :
      /\ dist.growing /\ dist.grow > 0 => (dist.delta * items[i].grow) % Shares(dist.grow) = 0
      /\ ~dist.growing /\ dist.weight > 0 => (dist.delta * Weight(i)) % dist.weight = 0

\* A whole share is what it is a share of, divided.
LEMMA WholeShare ==
  ASSUME NEW a \in Nat \ {0}, NEW x \in Int, x % a = 0
  PROVE  /\ x \div a \in Int /\ a * (x \div a) = x
         /\ x >= 0 => x \div a >= 0
         /\ x <= 0 => x \div a <= 0
<1> DEFINE q == x \div a
           m == x % a
<1>1. q \in Int /\ x = a * q + m /\ m = 0
  BY DivMod
<1> HIDE DEF q, m
<1>2. a * q \in Int /\ a * q = x
  BY <1>1
<1>3. x >= 0 => q >= 0
  <2>1. q <= -1 => a * q <= -a
    BY <1>1, MultiplesApart
  <2> QED BY <1>1, <1>2, <2>1
<1>4. x <= 0 => q <= 0
  <2>1. q >= 1 => a * q >= a
    BY <1>1, MultiplesApart
  <2> QED BY <1>1, <1>2, <2>1
<1> QED BY <1>1, <1>2, <1>3, <1>4 DEF q

\* d is divided in a parts, of which t are handed out.
LEMMA PartOfAll ==
  ASSUME NEW a \in Nat \ {0}, NEW t \in Nat, t <= a, NEW d \in Int, NEW x \in Int, a * x = d * t
  PROVE  /\ t = a => x = d
         /\ d >= 0 => x <= d
         /\ d <= 0 => x >= d
<1>1. PICK r \in Nat : a = t + r
  <2>1. a - t \in Nat /\ a = t + (a - t)
    OBVIOUS
  <2> QED BY <2>1
<1>2. a * (x - d) = a * x - a * d /\ a * d = d * t + d * r /\ a * (x - d) \in Int /\ d * r \in Int
  BY <1>1
<1>3. a * (x - d) = -(d * r)
  BY <1>2
<1>4. t = a => d * r = 0
  <2>1. t = a => r = 0
    BY <1>1
  <2> QED BY <2>1
<1>5. d >= 0 => d * r >= 0
  <2>1. \A e \in Nat : e * r \in Nat
    OBVIOUS
  <2> QED BY <2>1
<1>6. d <= 0 => d * r <= 0
  <2>1. \A e \in Nat : e * r \in Nat /\ (-e) * r = -(e * r)
    OBVIOUS
  <2>2. d <= 0 => -d \in Nat /\ d = -(-d)
    OBVIOUS
  <2> QED BY <2>1, <2>2
<1> DEFINE k == x - d
           z == a * k
<1>7. k \in Int /\ z \in Int /\ (k >= 1 => z >= a) /\ (k <= -1 => z <= -a)
  BY MultiplesApart
<1>8. z = -(d * r)
  BY <1>3
<1>9. x = d + k
  OBVIOUS
<1> DEFINE p == d * r
<1>10. p \in Int /\ z = -p /\ (t = a => p = 0) /\ (d >= 0 => p >= 0) /\ (d <= 0 => p <= 0)
  BY <1>2, <1>4, <1>5, <1>6, <1>8
<1> HIDE DEF z, k, p
<1> QED BY <1>7, <1>9, <1>10

\* Nobody has less, and all together no more: everybody has the same.
LEMMA TotalsMeet ==
  ASSUME NEW n \in Nat, NEW f, Numbers(f, n), NEW g, Numbers(g, n), NEW S \in SUBSET (1 .. n),
         \A i \in S : f[i] <= g[i], SumFunctionOnSet(g, S) <= SumFunctionOnSet(f, S)
  PROVE  \A i \in S : f[i] = g[i]
<1> SUFFICES ASSUME NEW i \in S PROVE f[i] = g[i]
  OBVIOUS
<1>1. PICK R \in SUBSET (1 .. n), O \in SUBSET (1 .. n) : R = S \ {i} /\ O = {i} /\ R \cup O = S /\ R \cap O = {}
  <2> DEFINE rest == S \ {i}
             one == {i}
  <2>1. rest \in SUBSET (1 .. n) /\ one \in SUBSET (1 .. n) /\ rest \cup one = S /\ rest \cap one = {}
    OBVIOUS
  <2> QED BY <2>1
<1>2. R \cap O = {}
  BY <1>1
<1>3. SumFunctionOnSet(f, R \cup O) = SumFunctionOnSet(f, R) + SumFunctionOnSet(f, O)
  BY <1>2, TotalOfParts
<1>4. SumFunctionOnSet(g, R \cup O) = SumFunctionOnSet(g, R) + SumFunctionOnSet(g, O)
  BY <1>2, TotalOfParts
<1>5. \A j \in R : f[j] <= g[j]
  BY <1>1
<1>6. SumFunctionOnSet(f, R) <= SumFunctionOnSet(g, R)
  BY <1>5, TotalsCompare
<1>7. i \in 1 .. n
  OBVIOUS
<1>8. SumFunctionOnSet(f, O) = f[i] /\ SumFunctionOnSet(g, O) = g[i]
  BY <1>1, <1>7, TotalOfOne
<1>9. /\ SumFunctionOnSet(f, R) \in Int /\ SumFunctionOnSet(g, R) \in Int
      /\ f[i] \in Int /\ g[i] \in Int
  BY <1>7, TotalIs DEF Numbers
<1> QED BY <1>1, <1>3, <1>4, <1>6, <1>8, <1>9

\* What is handed out in proportion to g, of which there are a: all of it if the
\* factors add up to a.
LEMMA SharesAddUp ==
  ASSUME NEW n \in Nat, NEW q, Numbers(q, n), NEW g, Numbers(g, n), NEW S \in SUBSET (1 .. n),
         NEW a \in Nat \ {0}, NEW d \in Int, InProportion(q, a, g, d, S),
         SumFunctionOnSet(g, S) \in Nat, SumFunctionOnSet(g, S) <= a
  PROVE  /\ SumFunctionOnSet(g, S) = a => SumFunctionOnSet(q, S) = d
         /\ d >= 0 => SumFunctionOnSet(q, S) <= d
         /\ d <= 0 => SumFunctionOnSet(q, S) >= d
<1>1. Balanced(a, SumFunctionOnSet(q, S), d, SumFunctionOnSet(g, S))
  BY TotalsScale
<1>2. PICK x \in Int, t \in Nat : x = SumFunctionOnSet(q, S) /\ t = SumFunctionOnSet(g, S) /\ t <= a
  BY TotalIs
<1>3. a * x = d * t
  BY <1>1, <1>2 DEF Balanced
<1> QED BY <1>2, <1>3, PartOfAll

\* q are the shares of d, in proportion to g, of which there are a.
SharedOut(q, n, g, S, a, d) ==
  /\ Numbers(q, n)
  /\ \A i \in S : /\ q[i] = (d * g[i]) \div a
                  /\ d >= 0 => q[i] >= 0
                  /\ d <= 0 => q[i] <= 0
                  /\ g[i] = 0 => q[i] = 0
  /\ SumFunctionOnSet(g, S) = a => SumFunctionOnSet(q, S) = d
  /\ d >= 0 => SumFunctionOnSet(q, S) <= d
  /\ d <= 0 => SumFunctionOnSet(q, S) >= d

\* Whole shares in proportion to g.
LEMMA WholeShares ==
  ASSUME NEW n \in Nat, NEW g, Numbers(g, n), NEW S \in SUBSET (1 .. n), \A i \in S : g[i] >= 0,
         NEW a \in Nat \ {0}, NEW d \in Int, \A i \in S : (d * g[i]) % a = 0, SumFunctionOnSet(g, S) <= a
  PROVE  \E q : SharedOut(q, n, g, S, a, d)
<1> DEFINE q == [i \in 1 .. n |-> (d * g[i]) \div a]
<1>1. \A i \in 1 .. n : d * g[i] \in Int /\ (d * g[i]) \div a \in Int
  <2> SUFFICES ASSUME NEW i \in 1 .. n PROVE d * g[i] \in Int /\ (d * g[i]) \div a \in Int
    OBVIOUS
  <2>1. PICK y \in Int : y = g[i]
    BY DEF Numbers
  <2>2. d * y \in Int
    OBVIOUS
  <2>3. (d * y) \div a \in Int
    BY <2>2, DivMod
  <2> QED BY <2>1, <2>2, <2>3
<1>2. Numbers(q, n)
  BY <1>1 DEF Numbers
<1>3. \A i \in S : q[i] = (d * g[i]) \div a
  OBVIOUS
<1> HIDE DEF q
<1>4. \A i \in S : /\ a * q[i] = d * g[i] /\ (d >= 0 => q[i] >= 0) /\ (d <= 0 => q[i] <= 0)
                   /\ g[i] = 0 => q[i] = 0
  <2> SUFFICES ASSUME NEW i \in S
               PROVE  /\ a * q[i] = d * g[i] /\ (d >= 0 => q[i] >= 0) /\ (d <= 0 => q[i] <= 0)
                      /\ g[i] = 0 => q[i] = 0
    OBVIOUS
  <2>1. i \in 1 .. n
    OBVIOUS
  <2>2. PICK y \in Nat : y = g[i]
    BY <2>1 DEF Numbers
  <2>3. PICK x \in Int : x = d * y /\ x % a = 0 /\ q[i] = x \div a
    BY <1>1, <1>3, <2>1, <2>2
  <2>4. q[i] \in Int /\ a * q[i] = x /\ (x >= 0 => q[i] >= 0) /\ (x <= 0 => q[i] <= 0)
    BY <2>3, WholeShare
  <2>5. (d >= 0 => x >= 0) /\ (d <= 0 => x <= 0)
    <3>1. \A e \in Nat : e * y \in Nat /\ (-e) * y = -(e * y)
      OBVIOUS
    <3>2. d <= 0 => -d \in Nat /\ d = -(-d)
      OBVIOUS
    <3>3. d >= 0 => d \in Nat
      OBVIOUS
    <3> QED BY <2>3, <3>1, <3>2, <3>3
  <2>6. y = 0 => x = 0
    BY <2>3
  <2> QED BY <2>2, <2>3, <2>4, <2>5, <2>6
<1>5. InProportion(q, a, g, d, S)
  BY <1>4 DEF InProportion
<1>6. SumFunctionOnSet(g, S) \in Nat
  <2>1. \A i \in S : 0 <= g[i]
    <3>1. \A i \in S : i \in 1 .. n
      OBVIOUS
    <3> QED BY <3>1 DEF Numbers
  <2>2. 0 <= SumFunctionOnSet(g, S)
    BY <2>1, TotalNotNegative
  <2>3. SumFunctionOnSet(g, S) \in Int
    BY TotalIs
  <2> QED BY <2>2, <2>3
<1>7. /\ SumFunctionOnSet(g, S) = a => SumFunctionOnSet(q, S) = d
      /\ d >= 0 => SumFunctionOnSet(q, S) <= d
      /\ d <= 0 => SumFunctionOnSet(q, S) >= d
  BY <1>2, <1>5, <1>6, SharesAddUp
<1> QED BY <1>2, <1>3, <1>4, <1>7 DEF SharedOut

\* What the last round added to the children it did not freeze.
Added(q) ==
  /\ Numbers(q, Len(items))
  /\ \A i \in Left : /\ size[i] = IF dist.growing THEN Base(i) + q[i] ELSE AtLeastZero(Base(i) + q[i])
                     /\ dist.delta >= 0 => q[i] >= 0
                     /\ dist.delta <= 0 => q[i] <= 0
                     /\ ~dist.growing /\ Weight(i) = 0 => q[i] = 0
  /\ (IF dist.growing THEN dist.grow >= One ELSE dist.weight > 0) => SumFunctionOnSet(q, Left) = dist.delta
  /\ dist.delta >= 0 => SumFunctionOnSet(q, Left) <= dist.delta
  /\ dist.delta <= 0 => SumFunctionOnSet(q, Left) >= dist.delta

\* It handed out all of the space, or a part of it.
LEMMA LastRoundAdds ==
  ASSUME FlexInv, SharesWhole, at = "place"
  PROVE  \E q : Added(q)
<1>1. FlexTypeOK /\ FlexStateOK /\ RoundOK
  BY DEF FlexInv, LinesInv
<1>2. PICK n \in Nat : n = Len(items)
  BY <1>1 DEF FlexTypeOK
<1>3. PICK S \in SUBSET (1 .. n) : S = Left
  BY <1>1, <1>2, MembersAre DEF Left, RoundOK
<1>4. PICK d \in Int, w \in Nat, t \in Nat : d = dist.delta /\ w = dist.weight /\ t = dist.grow
  BY <1>1 DEF FlexStateOK
<1>5. dist.growing \in BOOLEAN
  BY <1>1 DEF FlexStateOK
<1>6. \A i \in S : /\ i \in 1 .. n /\ size[i] = Distributed(i)
                   /\ Base(i) \in Nat /\ Weight(i) \in Nat /\ GrowOf(i) \in Nat /\ items[i].grow = GrowOf(i)
                   /\ GrowList[i] = GrowOf(i) /\ WeightList[i] = Weight(i)
  <2> SUFFICES ASSUME NEW i \in S
               PROVE  /\ i \in 1 .. n /\ size[i] = Distributed(i)
                      /\ Base(i) \in Nat /\ Weight(i) \in Nat /\ GrowOf(i) \in Nat /\ items[i].grow = GrowOf(i)
                      /\ GrowList[i] = GrowOf(i) /\ WeightList[i] = Weight(i)
    OBVIOUS
  <2>1. i \in 1 .. Len(items)
    BY <1>2
  <2>2. size[i] = Distributed(i)
    BY <1>1, <1>3 DEF RoundOK
  <2> QED BY <1>1, <1>2, <2>1, <2>2, ItemNumbers DEF GrowList, WeightList
<1>7. CASE dist.growing /\ t > 0
  <2>1. PICK a \in Nat \ {0} : a = Shares(t) /\ t <= a /\ (t >= One => t = a)
    BY <1>4 DEF Shares, One
  <2>2. PICK g : g = GrowList /\ Numbers(g, n)
    BY <1>1, <1>2, ListsAreNumbers
  <2>3. SumFunctionOnSet(g, S) = t
    BY <1>1, <1>3, <1>4, <2>2 DEF RoundOK
  <2>4. \A i \in S : g[i] >= 0 /\ g[i] = items[i].grow
    BY <1>6, <2>2
  <2>5. \A i \in S : (d * g[i]) % a = 0
    BY <1>3, <1>4, <1>7, <2>1, <2>4 DEF SharesWhole
  <2>6. SumFunctionOnSet(g, S) <= a
    BY <2>1, <2>3
  <2>7. PICK q : SharedOut(q, n, g, S, a, d)
    BY <2>2, <2>4, <2>5, <2>6, WholeShares
  <2>8. \A i \in S : size[i] = Base(i) + q[i]
    <3>1. \A i \in S : Distributed(i) = Base(i) + (d * g[i]) \div a
      BY <1>4, <1>7, <2>1, <2>4 DEF Distributed
    <3> QED BY <1>6, <2>7, <3>1 DEF SharedOut
  <2>9. dist.grow >= One => SumFunctionOnSet(q, S) = d
    BY <1>4, <2>1, <2>3, <2>7 DEF SharedOut
  <2> QED BY <1>2, <1>3, <1>4, <1>7, <2>7, <2>8, <2>9 DEF SharedOut, Added
<1>8. CASE ~dist.growing /\ w > 0
  <2>1. w \in Nat \ {0}
    BY <1>8
  <2>2. PICK g : g = WeightList /\ Numbers(g, n)
    BY <1>1, <1>2, ListsAreNumbers
  <2>3. SumFunctionOnSet(g, S) = w
    BY <1>1, <1>3, <1>4, <2>2 DEF RoundOK
  <2>4. \A i \in S : g[i] >= 0 /\ g[i] = Weight(i)
    BY <1>6, <2>2
  <2>5. \A i \in S : (d * g[i]) % w = 0
    BY <1>3, <1>4, <1>8, <2>4 DEF SharesWhole
  <2>6. SumFunctionOnSet(g, S) <= w
    BY <2>3
  <2>7. PICK q : SharedOut(q, n, g, S, w, d)
    BY <2>1, <2>2, <2>4, <2>5, <2>6, WholeShares
  <2>8. \A i \in S : size[i] = AtLeastZero(Base(i) + q[i])
    <3>1. \A i \in S : Distributed(i) = AtLeastZero(Base(i) + (d * g[i]) \div w)
      BY <1>4, <1>8, <2>4 DEF Distributed
    <3> QED BY <1>6, <2>7, <3>1 DEF SharedOut
  <2>9. SumFunctionOnSet(q, S) = d
    BY <2>3, <2>7 DEF SharedOut
  <2> QED BY <1>2, <1>3, <1>4, <1>8, <2>4, <2>7, <2>8, <2>9 DEF SharedOut, Added
<1>9. CASE ~(dist.growing /\ t > 0) /\ ~(~dist.growing /\ w > 0)
  <2> DEFINE q == [i \in 1 .. n |-> 0]
  <2>1. Numbers(q, n) /\ \A i \in S : q[i] = 0
    BY <1>6 DEF Numbers
  <2> HIDE DEF q
  <2>2. SumFunctionOnSet(q, S) <= 0 /\ SumFunctionOnSet(q, S) >= 0
    <3>1. \A i \in {} : q[i] = 0
      OBVIOUS
    <3>2. 0 <= SumFunctionOnSet(q, S)
      <4>1. \A i \in S : 0 <= q[i]
        BY <2>1
      <4> QED BY <2>1, <4>1, TotalNotNegative
    <3>3. SumFunctionOnSet(q, S) = SumFunctionOnSet(q, S) + SumFunctionOnSet(q, S)
      <4>1. \A i \in S : q[i] = q[i] + q[i]
        BY <2>1
      <4> QED BY <2>1, <4>1, TotalsPlus
    <3>4. SumFunctionOnSet(q, S) \in Int
      BY <2>1, TotalIs
    <3> QED BY <3>2, <3>3, <3>4
  <2>3. SumFunctionOnSet(q, S) = 0
    <3>1. SumFunctionOnSet(q, S) \in Int
      BY <2>1, TotalIs
    <3> QED BY <2>2, <3>1
  <2>4. \A i \in S : size[i] = IF dist.growing THEN Base(i) + q[i] ELSE AtLeastZero(Base(i) + q[i])
    <3> SUFFICES ASSUME NEW i \in S
                 PROVE  size[i] = IF dist.growing THEN Base(i) + q[i] ELSE AtLeastZero(Base(i) + q[i])
      OBVIOUS
    <3>1. Distributed(i) = Base(i)
      BY <1>4, <1>9 DEF Distributed
    <3> QED BY <1>6, <2>1, <3>1 DEF AtLeastZero
  <2>5. ~(IF dist.growing THEN dist.grow >= One ELSE dist.weight > 0)
    BY <1>4, <1>5, <1>9 DEF One
  <2> QED BY <1>2, <1>3, <1>4, <2>1, <2>3, <2>4, <2>5 DEF Added
<1> QED BY <1>4, <1>7, <1>8, <1>9

-----------------------------------------------------------------------------
(* The line that is placed.                                                *)

\* The children of the line that is placed, in lists of n numbers.
LEMMA AtPlace ==
  ASSUME FlexInv, at = "place"
  PROVE  \E n \in Nat \ {0} : \E L \in SUBSET (1 .. n), F \in SUBSET (1 .. n) :
           /\ n = Len(items) /\ L = Left /\ F = dist.frozen
           /\ L \cap F = {} /\ L \cup F = Members(cursor)
           /\ Numbers(size, n) /\ Numbers(BaseList, n) /\ Numbers(MarginList, n) /\ Numbers(OuterList, n)
           /\ cursor \in 1 .. Len(lines) /\ dist.delta \in Int /\ Space \in Int /\ LineBase(cursor) \in Int
           /\ Gap * (lines[cursor].count - 1) \in Int
<1>1. FlexTypeOK /\ FlexStateOK /\ RoundOK
  BY DEF FlexInv, LinesInv
<1>2. PICK n \in Nat \ {0} : n = Len(items)
  BY <1>1 DEF FlexTypeOK
<1>3. cursor \in 1 .. Len(lines)
  BY <1>1 DEF RoundOK
<1>4. PICK M \in SUBSET (1 .. n) : M = Members(cursor)
  BY <1>2, <1>3, MembersAre
<1>5. PICK F \in SUBSET (1 .. n) : F = dist.frozen /\ F \subseteq M
  BY <1>1, <1>4 DEF RoundOK
<1>6. PICK L \in SUBSET (1 .. n) : L = M \ F /\ L = Left
  <2>1. M \ F \in SUBSET (1 .. n) /\ M \ F = Left
    BY <1>4, <1>5 DEF Left
  <2> QED BY <2>1
<1>7. L \cap F = {} /\ L \cup F = M
  BY <1>5, <1>6
<1>8. Numbers(size, n) /\ Numbers(BaseList, n) /\ Numbers(MarginList, n) /\ Numbers(OuterList, n)
  BY <1>1, <1>2, ListsAreNumbers DEF FlexStateOK, Numbers
<1>9. /\ dist.delta \in Int /\ Space \in Int /\ LineBase(cursor) \in Int
      /\ Gap * (lines[cursor].count - 1) \in Int
  BY <1>1, <1>3, RoomTypes, LineMainIs DEF FlexStateOK
<1> QED BY <1>2, <1>3, <1>4, <1>5, <1>6, <1>7, <1>8, <1>9

\* What the line is too long is what the last round handed out too much.
LEMMA LineTotal ==
  ASSUME FlexInv, at = "place"
  PROVE  /\ Occupied + SumFunctionOnSet(BaseList, Left) + dist.delta = Space + SumFunctionOnSet(size, Left)
         /\ SumFunctionOnSet(BaseList, Left) \in Int /\ SumFunctionOnSet(size, Left) \in Int /\ Occupied \in Int
<1>1. PICK n \in Nat \ {0} : \E L \in SUBSET (1 .. n), F \in SUBSET (1 .. n) :
           /\ n = Len(items) /\ L = Left /\ F = dist.frozen
           /\ L \cap F = {} /\ L \cup F = Members(cursor)
           /\ Numbers(size, n) /\ Numbers(BaseList, n)
           /\ cursor \in 1 .. Len(lines) /\ dist.delta \in Int /\ Space \in Int /\ LineBase(cursor) \in Int
  BY AtPlace
<1>2. PICK L \in SUBSET (1 .. n), F \in SUBSET (1 .. n) :
           /\ n = Len(items) /\ L = Left /\ F = dist.frozen
           /\ L \cap F = {} /\ L \cup F = Members(cursor)
           /\ Numbers(size, n) /\ Numbers(BaseList, n)
           /\ cursor \in 1 .. Len(lines) /\ dist.delta \in Int /\ Space \in Int /\ LineBase(cursor) \in Int
  BY <1>1
<1>3. n \in Nat /\ L \cap F = {}
  BY <1>2
<1>4. SumFunctionOnSet(size, L \cup F) = SumFunctionOnSet(size, L) + SumFunctionOnSet(size, F)
  BY <1>2, <1>3, TotalOfParts
<1>5. SumFunctionOnSet(BaseList, L \cup F) = SumFunctionOnSet(BaseList, L) + SumFunctionOnSet(BaseList, F)
  BY <1>2, <1>3, TotalOfParts
<1>6. Occupied = SumFunctionOnSet(size, L \cup F) + SumFunctionOnSet(MarginList, L \cup F)
                   + Gap * (lines[cursor].count - 1) /\ Occupied \in Int
  BY <1>2, LineMainIs DEF Occupied
<1>7. LineBase(cursor) = SumFunctionOnSet(BaseList, L \cup F) + SumFunctionOnSet(MarginList, L \cup F)
                   + Gap * (lines[cursor].count - 1)
  BY <1>2 DEF LineBase
<1>8. dist.delta + SumFunctionOnSet(size, F) = Space - LineBase(cursor) + SumFunctionOnSet(BaseList, F)
  BY <1>2 DEF FlexInv, RoundOK
<1>9. PICK m \in Int, g \in Int : m = SumFunctionOnSet(MarginList, L \cup F) /\ g = Gap * (lines[cursor].count - 1)
  <2>1. Gap * (lines[cursor].count - 1) \in Int
    BY <1>2, LineMainIs
  <2>2. Numbers(MarginList, n) /\ L \cup F \in SUBSET (1 .. n)
    BY <1>2, ListsAreNumbers DEF FlexInv, LinesInv
  <2>3. SumFunctionOnSet(MarginList, L \cup F) \in Int
    BY <1>3, <2>2, TotalIs
  <2> QED BY <2>1, <2>3
<1>10. PICK a \in Int, b \in Int, c \in Int, e \in Int :
         /\ a = SumFunctionOnSet(size, L) /\ b = SumFunctionOnSet(size, F)
         /\ c = SumFunctionOnSet(BaseList, L) /\ e = SumFunctionOnSet(BaseList, F)
  BY <1>2, <1>3, TotalIs
<1>11. PICK d \in Int, s \in Int, o \in Int : d = dist.delta /\ s = Space /\ o = Occupied
  BY <1>2, <1>6
<1>12. o = a + b + m + g /\ LineBase(cursor) = c + e + m + g
  BY <1>4, <1>5, <1>6, <1>7, <1>9, <1>10, <1>11
<1>13. d + b = s - (c + e + m + g) + e
  BY <1>8, <1>10, <1>11, <1>12
<1>14. o + c + d = s + a
  BY <1>12, <1>13
<1> QED BY <1>2, <1>10, <1>11, <1>14

\* Whoever may take a share makes the line as long as the container.
LEMMA TakersFill ==
  ASSUME FlexInv, SharesWhole, at = "place",
         dist.growing => dist.grow >= One,
         ~dist.growing => dist.weight > 0 /\ \A i \in Left : Weight(i) > 0 => size[i] > 0
  PROVE  Occupied = Space
<1>1. PICK q : Added(q)
  BY LastRoundAdds
<1>0. PICK n \in Nat \ {0} : \E L \in SUBSET (1 .. n) :
        n = Len(items) /\ L = Left /\ Numbers(size, n) /\ Numbers(BaseList, n) /\ dist.delta \in Int /\ Space \in Int
  BY AtPlace
<1>2. PICK L \in SUBSET (1 .. n) :
        n = Len(items) /\ L = Left /\ Numbers(size, n) /\ Numbers(BaseList, n) /\ dist.delta \in Int /\ Space \in Int
  BY <1>0
<1>3. Numbers(q, n)
  BY <1>1, <1>2 DEF Added
<1>4. \A i \in L : size[i] = BaseList[i] + q[i]
  <2> SUFFICES ASSUME NEW i \in L PROVE size[i] = BaseList[i] + q[i]
    OBVIOUS
  <2>1. i \in 1 .. Len(items) /\ i \in Left
    BY <1>2
  <2>2. PICK b \in Nat, w \in Nat : b = Base(i) /\ w = Weight(i) /\ BaseList[i] = b
    BY <2>1, ItemNumbers DEF FlexInv, LinesInv, BaseList
  <2>3. PICK p \in Int : p = q[i]
    BY <1>2, <1>3, <2>1 DEF Numbers
  <2>4. /\ size[i] = IF dist.growing THEN b + p ELSE AtLeastZero(b + p)
        /\ ~dist.growing /\ w = 0 => p = 0
        /\ ~dist.growing /\ w > 0 => size[i] > 0
    BY <1>1, <2>1, <2>2, <2>3 DEF Added
  <2>5. size[i] = b + p
    BY <2>4 DEF AtLeastZero
  <2> QED BY <2>2, <2>3, <2>5
<1>5. SumFunctionOnSet(size, L) = SumFunctionOnSet(BaseList, L) + SumFunctionOnSet(q, L)
  BY <1>2, <1>3, <1>4, TotalsPlus
<1>6. SumFunctionOnSet(q, L) = dist.delta
  <2>1. dist.growing \in BOOLEAN
    BY DEF FlexInv, FlexStateOK
  <2> QED BY <1>1, <1>2, <2>1 DEF Added
<1>7. /\ Occupied + SumFunctionOnSet(BaseList, L) + dist.delta = Space + SumFunctionOnSet(size, L)
      /\ SumFunctionOnSet(BaseList, L) \in Int /\ SumFunctionOnSet(size, L) \in Int /\ Occupied \in Int
  BY <1>2, LineTotal
<1> QED BY <1>2, <1>5, <1>6, <1>7

\* The lengths before any space is handed out, without margins.
HypotheticalList == [i \in 1 .. Len(items) |-> Hypothetical(i)]

\* What was measured, in lists.
LEMMA MeasuredIs ==
  ASSUME FlexTypeOK, NEW n \in Nat \ {0}, n = Len(items)
  PROVE  /\ Measured = SumFunctionOnSet(OuterList, 1 .. n) + Gap * (n - 1)
         /\ Numbers(OuterList, n) /\ Numbers(HypotheticalList, n) /\ Numbers(MarginList, n)
         /\ SumFunctionOnSet(OuterList, 1 .. n) =
              SumFunctionOnSet(HypotheticalList, 1 .. n) + SumFunctionOnSet(MarginList, 1 .. n)
         /\ Gap \in Nat
<1>1. DOMAIN items = 1 .. n /\ 1 .. n \in SUBSET (1 .. Len(items)) /\ n \in Nat
  BY DEF FlexTypeOK
<1>2. MapThenSumSet(Outer, 1 .. n) = SumFunctionOnSet(OuterList, 1 .. n)
  BY <1>1, OutersAdd
<1>3. Numbers(OuterList, n) /\ Numbers(MarginList, n)
  BY ListsAreNumbers
<1>4. \A i \in 1 .. n : /\ Hypothetical(i) \in Nat /\ Margins(i) \in Nat
                        /\ OuterList[i] = HypotheticalList[i] + MarginList[i]
  BY ItemNumbers DEF OuterList, HypotheticalList, MarginList
<1>5. Numbers(HypotheticalList, n)
  BY <1>4 DEF Numbers, HypotheticalList
<1>6. 1 .. n \in SUBSET (1 .. n)
  OBVIOUS
<1>7. SumFunctionOnSet(OuterList, 1 .. n) =
        SumFunctionOnSet(HypotheticalList, 1 .. n) + SumFunctionOnSet(MarginList, 1 .. n)
  BY <1>1, <1>3, <1>4, <1>5, <1>6, TotalsPlus
<1>8. Gap \in Nat
  <2>1. frame.gap \in Nat
    BY FlexAssumption DEF FlexTypeOK, FlexFrames
  <2> QED BY <2>1, UnitAssumption DEF Gap
<1> QED BY <1>1, <1>2, <1>3, <1>5, <1>7, <1>8 DEF Measured

\* A container that hugs its children has them on one line.
LEMMA HugsOnOneLine ==
  ASSUME FlexInv, at # "lines", frame.hug
  PROVE  /\ Len(lines) = 1
         /\ \A n \in Nat : n = Len(items) => Members(1) = 1 .. n /\ lines[1].count = n
<1>1. FlexTypeOK /\ LinesFilled /\ Chained /\ LinesWithin /\ lines \in Seq(Line)
  BY DEF FlexInv, LinesInv
<1>2. PICK n \in Nat \ {0} : n = Len(items)
  BY <1>1 DEF FlexTypeOK
<1>3. PICK m \in Nat \ {0} : m = Len(lines)
  <2>1. Len(lines) \in Nat /\ lines # <<>> /\ (Len(lines) = 0 => lines = <<>>)
    BY <1>1 DEF LinesFilled
  <2> QED BY <2>1
<1>4. lines[1].start = 1
  BY <1>1 DEF LinesFilled, Chained
<1>5. m = 1
  <2> SUFFICES ASSUME m > 1 PROVE FALSE
    BY <1>3
  <2>1. frame.wrap /\ Space > 0
    BY <1>3 DEF FlexInv
  <2>2. 1 \in 1 .. m - 1 /\ 1 \in 1 .. m /\ 2 \in 1 .. m
    BY <1>3
  <2>3. Overfull(1)
    BY <1>1, <1>3, <2>1, <2>2 DEF LinesFilled
  <2>4. lines[2].start = lines[1].start + lines[1].count
    <3>1. lines[1 + 1].start = lines[1].start + lines[1].count
      BY <1>1, <1>3, <2>2 DEF Chained
    <3> QED BY <3>1
  <2>5. PICK c \in Nat \ {0} : c = lines[1].count /\ c + 1 <= n
    <3>1. LineIn(lines[1]) /\ LineIn(lines[2])
      BY <1>1, <1>3, <2>2 DEF LinesWithin
    <3>2. PICK c \in Nat \ {0}, e \in Nat \ {0} : c = lines[1].count /\ e = lines[2].count
      BY <3>1 DEF LineIn
    <3>3. 1 + c + e <= n + 1
      BY <1>2, <1>4, <2>4, <3>1, <3>2 DEF LineIn
    <3>4. c + 1 <= n
      BY <3>2, <3>3
    <3> QED BY <3>2, <3>4
  <2>6. LengthOf(1, c + 1) > Space
    BY <1>4, <2>3, <2>5 DEF Overfull
  <2>7. PICK A \in SUBSET (1 .. n), B \in SUBSET (1 .. n) : A = 1 .. c + 1 /\ A \cap B = {} /\ A \cup B = 1 .. n
    <3> DEFINE first == 1 .. c + 1
               rest == c + 2 .. n
    <3>1. first \in SUBSET (1 .. n) /\ rest \in SUBSET (1 .. n) /\ first \cap rest = {} /\ first \cup rest = 1 .. n
      BY <2>5
    <3> HIDE DEF rest
    <3> QED BY <3>1
  <2>8. PICK f : f = OuterList /\ Numbers(f, n)
    BY <1>1, <1>2, MeasuredIs
  <2>9. LengthOf(1, c + 1) = SumFunctionOnSet(f, A) + Gap * c
    <3>1. 1 + (c + 1) - 1 = c + 1 /\ (c + 1) - 1 = c
      BY <2>5
    <3>2. MapThenSumSet(Outer, A) = SumFunctionOnSet(f, A)
      BY <1>1, <1>2, <2>7, <2>8, OutersAdd
    <3> QED BY <2>7, <3>1, <3>2 DEF LengthOf, OuterOf
  <2>10. A \cap B = {} /\ n \in Nat
    BY <2>7
  <2>11. SumFunctionOnSet(f, A \cup B) = SumFunctionOnSet(f, A) + SumFunctionOnSet(f, B)
    BY <2>8, <2>10, TotalOfParts
  <2>12. 0 <= SumFunctionOnSet(f, B)
    <3>1. \A i \in B : 0 <= f[i]
      <4>1. \A i \in B : i \in 1 .. Len(items)
        BY <1>2, <2>7
      <4> QED BY <1>1, <2>8, <4>1, ItemNumbers DEF OuterList
    <3> QED BY <2>8, <2>10, <3>1, TotalNotNegative
  <2>13. Space = SumFunctionOnSet(f, A \cup B) + Gap * (n - 1)
    BY <1>1, <1>2, <2>7, <2>8, MeasuredIs DEF Space
  <2>14. PICK g \in Nat : g = Gap
    BY <1>1, <1>2, MeasuredIs
  <2>15. g * c <= g * (n - 1) /\ g * c \in Int /\ g * (n - 1) \in Int
    <3>1. PICK e \in Nat : n - 1 = c + e
      <4>1. (n - 1) - c \in Nat /\ n - 1 = c + ((n - 1) - c)
        BY <2>5
      <4> QED BY <4>1
    <3>2. g * (c + e) = g * c + g * e /\ g * e \in Nat /\ g * c \in Nat
      BY <2>5
    <3> QED BY <3>1, <3>2
  <2>16. PICK x \in Int, y \in Int : x = SumFunctionOnSet(f, A) /\ y = SumFunctionOnSet(f, B)
    BY <2>8, <2>10, TotalIs
  <2> QED BY <2>6, <2>9, <2>11, <2>12, <2>13, <2>14, <2>15, <2>16
<1>6. ASSUME NEW k \in Nat, k = Len(items) PROVE Members(1) = 1 .. k /\ lines[1].count = k
  <2>1. lines[1].start + lines[1].count = k + 1
    BY <1>1, <1>3, <1>5, <1>6 DEF LinesFilled
  <2>2. LineIn(lines[1])
    BY <1>1, <1>3, <1>5 DEF LinesWithin
  <2>3. PICK c \in Nat : c = lines[1].count
    BY <2>2 DEF LineIn
  <2>4. c = k
    BY <1>4, <2>1, <2>3
  <2>5. 1 + c - 1 = k
    BY <2>4
  <2> QED BY <1>4, <2>3, <2>4, <2>5 DEF Members
<1> QED BY <1>3, <1>5, <1>6

\* A length within the limits, against another one brought within them.
LEMMA WithinLimits ==
  ASSUME FlexTypeOK, NEW i \in 1 .. Len(items), NEW x \in Int, Limited(i, x) = x, NEW b \in Int
  PROVE  /\ b <= x => Limited(i, b) <= x
         /\ x <= b => x <= Limited(i, b)
<1>1. PICK l \in Nat, h \in Nat : l = items[i].min * Unit /\ h = items[i].max * Unit
  BY ItemNumbers
<1>2. \A y : Limited(i, y) = IF y < l THEN l ELSE IF y > h THEN h ELSE y
  BY <1>1 DEF Limited, Clamp
<1>3. ~(x < l) /\ ~(x > h)
  BY <1>2
<1> QED BY <1>2, <1>3

\* With the frozen children as long as measured, the rest is to become so.
LEMMA HugLeavesRest ==
  ASSUME FlexInv, at = "place", frame.hug, \A i \in dist.frozen : size[i] = Hypothetical(i)
  PROVE  dist.delta + SumFunctionOnSet(BaseList, Left) = SumFunctionOnSet(HypotheticalList, Left)
<1>0. PICK n \in Nat \ {0} : \E L \in SUBSET (1 .. n), F \in SUBSET (1 .. n) :
           /\ n = Len(items) /\ L = Left /\ F = dist.frozen
           /\ L \cap F = {} /\ L \cup F = Members(cursor)
           /\ Numbers(size, n) /\ Numbers(BaseList, n)
           /\ cursor \in 1 .. Len(lines) /\ dist.delta \in Int /\ Space \in Int
  BY AtPlace
<1>1. PICK L \in SUBSET (1 .. n), F \in SUBSET (1 .. n) :
           /\ n = Len(items) /\ L = Left /\ F = dist.frozen
           /\ L \cap F = {} /\ L \cup F = Members(cursor)
           /\ Numbers(size, n) /\ Numbers(BaseList, n)
           /\ cursor \in 1 .. Len(lines) /\ dist.delta \in Int /\ Space \in Int
  BY <1>0
<1>2. Len(lines) = 1 /\ Members(1) = 1 .. n /\ lines[1].count = n
  BY <1>1, HugsOnOneLine
<1>3. cursor = 1 /\ L \cup F = 1 .. n
  BY <1>1, <1>2
<1>4. FlexTypeOK /\ n \in Nat
  BY DEF FlexInv, LinesInv
<1>5. PICK h : h = HypotheticalList /\ Numbers(h, n)
  BY <1>1, <1>4, MeasuredIs
<1>6. PICK m \in Int : m = SumFunctionOnSet(MarginList, 1 .. n)
  <2>1. Numbers(MarginList, n) /\ 1 .. n \in SUBSET (1 .. n)
    BY <1>1, <1>4, MeasuredIs
  <2> QED BY <1>4, <2>1, TotalIs
<1>7. PICK g \in Int : g = Gap * (n - 1)
  BY <1>1, <1>4, MeasuredIs
<1>8. Space = SumFunctionOnSet(h, L \cup F) + m + g
  <2>1. Space = Measured
    BY DEF Space
  <2>2. Measured = SumFunctionOnSet(OuterList, 1 .. n) + g
        /\ SumFunctionOnSet(OuterList, 1 .. n) = SumFunctionOnSet(h, 1 .. n) + m
    BY <1>1, <1>4, <1>5, <1>6, <1>7, MeasuredIs
  <2> QED BY <1>3, <2>1, <2>2
<1>9. LineBase(cursor) = SumFunctionOnSet(BaseList, L \cup F) + m + g
  BY <1>2, <1>3, <1>6, <1>7 DEF LineBase
<1>10. dist.delta + SumFunctionOnSet(size, F) = Space - LineBase(cursor) + SumFunctionOnSet(BaseList, F)
  BY <1>1 DEF FlexInv, RoundOK
<1>11. L \cap F = {}
  BY <1>1
<1>12. SumFunctionOnSet(h, L \cup F) = SumFunctionOnSet(h, L) + SumFunctionOnSet(h, F)
  BY <1>4, <1>5, <1>11, TotalOfParts
<1>13. SumFunctionOnSet(BaseList, L \cup F) = SumFunctionOnSet(BaseList, L) + SumFunctionOnSet(BaseList, F)
  BY <1>1, <1>4, <1>11, TotalOfParts
<1>14. SumFunctionOnSet(size, F) = SumFunctionOnSet(h, F)
  <2>1. \A i \in F : size[i] = h[i]
    <3>1. \A i \in F : i \in 1 .. Len(items) /\ size[i] = Hypothetical(i)
      BY <1>1
    <3> QED BY <1>5, <3>1 DEF HypotheticalList
  <2> QED BY <1>1, <1>4, <1>5, <2>1, TotalsAgree
<1>15. PICK a \in Int, b \in Int, c \in Int, e \in Int :
         /\ a = SumFunctionOnSet(h, L) /\ b = SumFunctionOnSet(h, F)
         /\ c = SumFunctionOnSet(BaseList, L) /\ e = SumFunctionOnSet(BaseList, F)
  BY <1>1, <1>4, <1>5, TotalIs
<1>16. PICK d \in Int : d = dist.delta
  BY <1>1
<1>17. d + b = (a + b + m + g) - (c + e + m + g) + e
  BY <1>8, <1>9, <1>10, <1>12, <1>13, <1>14, <1>15, <1>16
<1>18. d + c = a
  BY <1>17
<1> QED BY <1>1, <1>5, <1>15, <1>16, <1>18

\* And so it becomes.
LEMMA HugKeepsLengths ==
  ASSUME FlexInv, SharesWhole, at = "place", frame.hug, \A i \in dist.frozen : size[i] = Hypothetical(i)
  PROVE  \A i \in DOMAIN items : size[i] = Hypothetical(i)
<1>0. PICK n \in Nat \ {0} : \E L \in SUBSET (1 .. n), F \in SUBSET (1 .. n) :
           /\ n = Len(items) /\ L = Left /\ F = dist.frozen
           /\ L \cup F = Members(cursor)
           /\ Numbers(size, n) /\ Numbers(BaseList, n)
           /\ cursor \in 1 .. Len(lines) /\ dist.delta \in Int
  BY AtPlace
<1>1. PICK L \in SUBSET (1 .. n), F \in SUBSET (1 .. n) :
           /\ n = Len(items) /\ L = Left /\ F = dist.frozen
           /\ L \cup F = Members(cursor)
           /\ Numbers(size, n) /\ Numbers(BaseList, n)
           /\ cursor \in 1 .. Len(lines) /\ dist.delta \in Int
  BY <1>0
<1>2. L \cup F = 1 .. n /\ DOMAIN items = 1 .. n
  <2>1. Len(lines) = 1 /\ Members(1) = 1 .. n
    BY <1>1, HugsOnOneLine
  <2>2. cursor = 1
    BY <1>1, <2>1
  <2> QED BY <1>1, <2>1, <2>2 DEF FlexInv, LinesInv, FlexTypeOK
<1>3. FlexTypeOK /\ n \in Nat
  BY DEF FlexInv, LinesInv
<1>4. PICK h : h = HypotheticalList /\ Numbers(h, n)
  BY <1>1, <1>3, MeasuredIs
<1>5. PICK q : Added(q) /\ Numbers(q, n)
  BY <1>1, LastRoundAdds DEF Added
<1>6. PICK f, b : f = size /\ b = BaseList /\ Numbers(f, n) /\ Numbers(b, n)
  BY <1>1
<1>7. PICK d \in Int : d = dist.delta /\ d + SumFunctionOnSet(b, L) = SumFunctionOnSet(h, L)
  BY <1>1, <1>4, <1>6, HugLeavesRest
<1>8. \A i \in L :
        /\ i \in 1 .. n /\ b[i] \in Nat /\ f[i] \in Int /\ q[i] \in Int /\ h[i] = Limited(i, b[i]) /\ h[i] \in Int
        /\ Limited(i, f[i]) = f[i]
        /\ f[i] = IF dist.growing THEN b[i] + q[i] ELSE AtLeastZero(b[i] + q[i])
        /\ d >= 0 => q[i] >= 0
        /\ d <= 0 => q[i] <= 0
  <2> SUFFICES ASSUME NEW i \in L
               PROVE  /\ i \in 1 .. n /\ b[i] \in Nat /\ f[i] \in Int /\ q[i] \in Int
                      /\ h[i] = Limited(i, b[i]) /\ h[i] \in Int
                      /\ Limited(i, f[i]) = f[i]
                      /\ f[i] = IF dist.growing THEN b[i] + q[i] ELSE AtLeastZero(b[i] + q[i])
                      /\ d >= 0 => q[i] >= 0
                      /\ d <= 0 => q[i] <= 0
    OBVIOUS
  <2>1. i \in 1 .. n /\ i \in Left /\ i \in 1 .. Len(items)
    BY <1>1
  <2>2. b[i] = Base(i) /\ Base(i) \in Nat /\ h[i] = Limited(i, b[i])
    BY <1>3, <1>4, <1>6, <2>1, ItemNumbers DEF BaseList, HypotheticalList, Hypothetical
  <2>3. f[i] \in Int /\ q[i] \in Int /\ h[i] \in Int
    BY <1>4, <1>5, <1>6, <2>1 DEF Numbers
  <2>4. Limited(i, f[i]) = f[i]
    BY <1>6, <2>1 DEF FlexInv, RoundOK
  <2>5. /\ f[i] = IF dist.growing THEN b[i] + q[i] ELSE AtLeastZero(b[i] + q[i])
        /\ d >= 0 => q[i] >= 0
        /\ d <= 0 => q[i] <= 0
    BY <1>5, <1>6, <1>7, <2>1, <2>2 DEF Added
  <2> QED BY <2>1, <2>2, <2>3, <2>4, <2>5
<1>9. PICK x \in Int, y \in Int, z \in Int, p \in Int :
        /\ x = SumFunctionOnSet(f, L) /\ y = SumFunctionOnSet(h, L) /\ z = SumFunctionOnSet(b, L)
        /\ p = SumFunctionOnSet(q, L)
  BY <1>3, <1>4, <1>5, <1>6, TotalIs
<1>10. (d >= 0 => p <= d) /\ (d <= 0 => p >= d) /\ d + z = y
  BY <1>1, <1>5, <1>7, <1>9 DEF Added
<1>11. CASE d >= 0
  <2>1. \A i \in L : f[i] = b[i] + q[i] /\ b[i] <= f[i]
    BY <1>8, <1>11 DEF AtLeastZero
  <2>2. \A i \in L : h[i] <= f[i]
    <3> SUFFICES ASSUME NEW i \in L PROVE h[i] <= f[i]
      OBVIOUS
    <3>1. i \in 1 .. Len(items) /\ f[i] \in Int /\ b[i] \in Int /\ Limited(i, f[i]) = f[i] /\ b[i] <= f[i]
      BY <1>1, <1>8, <2>1
    <3>2. Limited(i, b[i]) <= f[i]
      BY <1>3, <3>1, WithinLimits
    <3> QED BY <1>8, <3>2
  <2>3. \A i \in L : f[i] = b[i] + q[i]
    BY <2>1
  <2>4. x = z + p
    BY <1>3, <1>5, <1>6, <1>9, <2>3, TotalsPlus
  <2>5. SumFunctionOnSet(f, L) <= SumFunctionOnSet(h, L)
    BY <1>9, <1>10, <1>11, <2>4
  <2>6. \A i \in L : h[i] = f[i]
    BY <1>3, <1>4, <1>6, <2>2, <2>5, TotalsMeet
  <2>7. \A i \in L : size[i] = Hypothetical(i)
    BY <1>1, <1>4, <1>6, <1>8, <2>6 DEF HypotheticalList
  <2> QED BY <1>1, <1>2, <2>7
<1>12. CASE d < 0
  <2>1. \A i \in L : b[i] + q[i] <= f[i] /\ f[i] <= b[i]
    BY <1>8, <1>12 DEF AtLeastZero
  <2>2. \A i \in L : f[i] <= h[i]
    <3> SUFFICES ASSUME NEW i \in L PROVE f[i] <= h[i]
      OBVIOUS
    <3>1. i \in 1 .. Len(items) /\ f[i] \in Int /\ b[i] \in Int /\ Limited(i, f[i]) = f[i] /\ f[i] <= b[i]
      BY <1>1, <1>8, <2>1
    <3>2. f[i] <= Limited(i, b[i])
      BY <1>3, <3>1, WithinLimits
    <3> QED BY <1>8, <3>2
  <2> DEFINE r == [i \in 1 .. n |-> b[i] + q[i]]
  <2>3. Numbers(r, n) /\ \A i \in L : r[i] = b[i] + q[i]
    <3>1. \A i \in 1 .. n : b[i] \in Int /\ q[i] \in Int
      BY <1>5, <1>6 DEF Numbers
    <3>2. \A i \in 1 .. n : b[i] + q[i] \in Int
      BY <3>1
    <3> QED BY <3>2 DEF Numbers
  <2> HIDE DEF r
  <2>4. \A i \in L : r[i] = b[i] + q[i]
    BY <2>3
  <2>5. SumFunctionOnSet(r, L) = z + p
    BY <1>3, <1>5, <1>6, <1>9, <2>3, <2>4, TotalsPlus
  <2>6. \A i \in L : r[i] <= f[i]
    BY <2>1, <2>4
  <2>7. SumFunctionOnSet(r, L) <= x
    BY <1>3, <1>6, <1>9, <2>3, <2>6, TotalsCompare
  <2>8. SumFunctionOnSet(h, L) <= SumFunctionOnSet(f, L)
    BY <1>9, <1>10, <1>12, <2>5, <2>7
  <2>9. \A i \in L : f[i] = h[i]
    BY <1>3, <1>4, <1>6, <2>2, <2>8, TotalsMeet
  <2>10. \A i \in L : size[i] = Hypothetical(i)
    BY <1>1, <1>4, <1>6, <1>8, <2>9 DEF HypotheticalList
  <2> QED BY <1>1, <1>2, <2>10
<1> QED BY <1>11, <1>12

(***************************************************************************)
(* flex_distribute_line_main, for any children whose limits do not         *)
(* contradict each other, however many and of any size, and any room: the  *)
(* rounds end with every child within its limits, and the line as long as  *)
(* the container while somebody may still take a share; a container that   *)
(* hugs its children leaves them as they were measured.  The shares of the *)
(* last round are whole numbers of parts of a pixel, as SharesWhole says.  *)
(***************************************************************************)
THEOREM SpaceStaysHandedOut == Agreeing => (FlexSpec /\ []SharesWhole => []SpaceIsHandedOut)
<1> SUFFICES ASSUME Agreeing PROVE FlexSpec /\ []SharesWhole => []SpaceIsHandedOut
  OBVIOUS
<1>1. FlexInv /\ SharesWhole => SpaceIsHandedOut
  <2> SUFFICES ASSUME FlexInv, SharesWhole, at = "place" PROVE SpaceIsHandedOut
    BY DEF SpaceIsHandedOut
  <2> DEFINE takers == {i \in Left : IF dist.growing THEN items[i].grow > 0 ELSE Weight(i) > 0}
  <2>1. RoundOK /\ FlexTypeOK /\ FlexStateOK
    BY DEF FlexInv, LinesInv
  <2>2. frame.hug => Len(lines) = 1
    BY HugsOnOneLine
  <2>3. frame.hug /\ (\A i \in dist.frozen : size[i] = Hypothetical(i)) =>
          \A i \in DOMAIN items : size[i] = Hypothetical(i)
    BY HugKeepsLengths
  <2>4. \A i \in Members(cursor) : Limited(i, size[i]) = size[i]
    BY <2>1 DEF RoundOK, Left
  <2>5. ASSUME takers # {}, dist.growing => MapThenSumSet(GrowOf, Left) >= One, \A i \in takers : size[i] > 0
        PROVE  Occupied = Space
    <3>1. PICK n \in Nat : n = Len(items)
      BY <2>1 DEF FlexTypeOK
    <3>2. PICK L \in SUBSET (1 .. Len(items)) : L = Left
      BY <2>1, MembersAre DEF Left, RoundOK
    <3>3. L \in SUBSET (1 .. n)
      BY <3>1, <3>2
    <3>4. dist.growing => dist.grow >= One
      <4>1. MapThenSumSet(GrowOf, L) = SumFunctionOnSet(GrowList, L)
        BY <2>1, GrowsAdd
      <4> QED BY <2>1, <2>5, <3>2, <4>1 DEF RoundOK
    <3>5. ASSUME ~dist.growing PROVE dist.weight > 0 /\ \A i \in Left : Weight(i) > 0 => size[i] > 0
      <4>1. PICK j \in L : Weight(j) > 0
        BY <2>5, <3>2, <3>5
      <4>2. PICK w : w = WeightList /\ Numbers(w, n)
        BY <2>1, <3>1, ListsAreNumbers
      <4>3. \A i \in L : i \in 1 .. n /\ w[i] \in Nat /\ w[i] = Weight(i)
        BY <2>1, <3>1, <3>3, <4>2, ItemNumbers DEF WeightList
      <4>4. PICK A \in SUBSET (1 .. n), B \in SUBSET (1 .. n) : A = L \ {j} /\ B = {j} /\ A \cup B = L
        <5> DEFINE rest == L \ {j}
                   one == {j}
        <5>1. rest \in SUBSET (1 .. n) /\ one \in SUBSET (1 .. n) /\ rest \cup one = L
          BY <3>3
        <5> QED BY <5>1
      <4>5. A \cap B = {}
        BY <4>4
      <4>6. SumFunctionOnSet(w, A \cup B) = SumFunctionOnSet(w, A) + SumFunctionOnSet(w, B)
        BY <4>2, <4>5, TotalOfParts
      <4>7. SumFunctionOnSet(w, B) = w[j]
        BY <4>2, <4>3, <4>4, TotalOfOne
      <4>8. 0 <= SumFunctionOnSet(w, A)
        <5>1. \A i \in A : 0 <= w[i]
          BY <4>3, <4>4
        <5> QED BY <4>2, <5>1, TotalNotNegative
      <4>9. SumFunctionOnSet(w, A) \in Int /\ w[j] \in Nat /\ w[j] > 0
        BY <4>1, <4>2, <4>3, TotalIs
      <4>10. dist.weight = SumFunctionOnSet(w, A \cup B)
        BY <2>1, <3>2, <4>2, <4>4 DEF RoundOK
      <4>11. dist.weight > 0
        BY <4>6, <4>7, <4>8, <4>9, <4>10
      <4> QED BY <2>5, <3>5, <4>11
    <3> QED BY <3>4, <3>5, TakersFill
  <2> HIDE DEF takers
  <2> QED BY <2>2, <2>3, <2>4, <2>5 DEF SpaceIsHandedOut, Left, takers
<1> QED BY <1>1, FlexInvInit, FlexInvStep, PTL DEF FlexSpec

-----------------------------------------------------------------------------
(* The grid of pixels.                                                     *)

\* r is a whole number of pixels, half a pixel from x at most; halves are
\* rounded away from zero.
RoundsTo(x, r) ==
  /\ r \in Int
  /\ \E q \in Int : r = Unit * q
  /\ x >= 0 => 2 * x - Unit < 2 * r /\ 2 * r <= 2 * x + Unit
  /\ x < 0 => 2 * x - Unit <= 2 * r /\ 2 * r < 2 * x + Unit

\* What is not negative is rounded up from a half on.
LEMMA RoundedUpIs ==
  ASSUME NEW x \in Int
  PROVE  \E q \in Int : /\ RoundedUp(x) = Unit * q /\ Unit * q \in Int
                        /\ 2 * x - Unit < 2 * (Unit * q) /\ 2 * (Unit * q) <= 2 * x + Unit
<1>1. PICK u \in Nat \ {0} : u = Unit
  BY UnitAssumption
<1>2. PICK a \in Nat \ {0} : a = 2 * u
  OBVIOUS
<1>3. PICK y \in Int : y = 2 * x + u
  OBVIOUS
<1>4. PICK q \in Int, m \in Int : q = y \div a /\ y = a * q + m /\ 0 <= m /\ m < a
  BY DivMod
<1>5. PICK r \in Int : r = u * q /\ a * q = 2 * r /\ q * u = r
  <2>1. u * q \in Int /\ (2 * u) * q = 2 * (u * q) /\ q * u = u * q
    OBVIOUS
  <2> QED BY <1>2, <2>1
<1>6. RoundedUp(x) = r
  BY <1>1, <1>2, <1>3, <1>4, <1>5 DEF RoundedUp
<1>7. 2 * x - u < 2 * r /\ 2 * r <= 2 * x + u
  BY <1>2, <1>3, <1>4, <1>5
<1> QED BY <1>1, <1>5, <1>6, <1>7

\* xent_quantize_node_layout rounds every edge like that.
LEMMA RoundedIs == ASSUME NEW x \in Int PROVE RoundsTo(x, Rounded(x))
<1>1. CASE x >= 0
  <2>1. PICK q \in Int : /\ RoundedUp(x) = Unit * q /\ Unit * q \in Int
                         /\ 2 * x - Unit < 2 * (Unit * q) /\ 2 * (Unit * q) <= 2 * x + Unit
    BY RoundedUpIs
  <2>2. Rounded(x) = Unit * q
    BY <1>1, <2>1 DEF Rounded
  <2> QED BY <1>1, <2>1, <2>2 DEF RoundsTo
<1>2. CASE x < 0
  <2>1. PICK y \in Int : y = -x
    OBVIOUS
  <2>2. PICK q \in Int : /\ RoundedUp(y) = Unit * q /\ Unit * q \in Int
                         /\ 2 * y - Unit < 2 * (Unit * q) /\ 2 * (Unit * q) <= 2 * y + Unit
    BY RoundedUpIs
  <2>3. PICK u \in Nat : u = Unit
    BY UnitAssumption
  <2>4. PICK r \in Int : r = Unit * q
    BY <2>2
  <2>5. -q \in Int /\ -r = Unit * (-q)
    <3>1. u * (-q) = -(u * q)
      OBVIOUS
    <3> QED BY <2>3, <2>4, <3>1
  <2>6. Rounded(x) = -r
    BY <1>2, <2>1, <2>2, <2>4 DEF Rounded
  <2>7. 2 * x - u <= 2 * (-r) /\ 2 * (-r) < 2 * x + u
    BY <2>1, <2>2, <2>3, <2>4
  <2>8. RoundsTo(x, -r)
    <3>1. -r \in Int /\ -q \in Int
      OBVIOUS
    <3>2. x < 0 /\ ~(x >= 0)
      BY <1>2
    <3> QED BY <2>3, <2>5, <2>7, <3>1, <3>2 DEF RoundsTo
  <2> QED BY <2>6, <2>8
<1> QED BY <1>1, <1>2

\* Two whole numbers of pixels are the same or a pixel apart.
LEMMA PixelsApart ==
  ASSUME NEW r \in Int, NEW s \in Int, NEW q \in Int, NEW p \in Int, r = Unit * q, s = Unit * p, s < r
  PROVE  s + Unit <= r
<1>1. PICK u \in Nat \ {0} : u = Unit
  BY UnitAssumption
<1>2. q - p \in Int /\ u * (q - p) = r - s
  BY <1>1
<1> DEFINE k == q - p
           z == u * k
<1>3. k \in Int /\ z \in Int /\ (k >= 1 => z >= u) /\ (k <= -1 => z <= -u)
  BY MultiplesApart
<1>4. k = 0 => z = 0
  OBVIOUS
<1>5. z = r - s
  BY <1>2
<1> HIDE DEF z, k
<1>6. k >= 1
  BY <1>1, <1>3, <1>4, <1>5
<1> QED BY <1>1, <1>3, <1>5, <1>6

\* Rounding keeps the order of edges, and edges that are rounded already.
LEMMA RoundingKeeps ==
  ASSUME NEW x \in Int
  PROVE  /\ Rounded(x) \in Int
         /\ \A y \in Int : x <= y => Rounded(x) <= Rounded(y)
         /\ Rounded(Rounded(x)) = Rounded(x)
         /\ Rounded(x) % Unit = 0
         /\ 2 * Rounded(x) <= 2 * x + Unit /\ 2 * x <= 2 * Rounded(x) + Unit
<1>1. PICK u \in Nat \ {0} : u = Unit
  BY UnitAssumption
<1>2. \A y \in Int : RoundsTo(y, Rounded(y))
  BY RoundedIs
<1>3. Rounded(x) \in Int
  BY <1>2 DEF RoundsTo
<1>4. PICK r \in Int, q \in Int : r = Rounded(x) /\ r = u * q
  BY <1>1, <1>2 DEF RoundsTo
<1>5. ASSUME NEW y \in Int, x <= y PROVE Rounded(x) <= Rounded(y)
  <2>1. PICK s \in Int, p \in Int : s = Rounded(y) /\ s = u * p
    BY <1>1, <1>2 DEF RoundsTo
  <2>2. s < r => s + u <= r
    BY <1>1, <1>4, <2>1, PixelsApart
  <2>3. /\ x >= 0 => 2 * x - u < 2 * r /\ 2 * r <= 2 * x + u
        /\ x < 0 => 2 * x - u <= 2 * r /\ 2 * r < 2 * x + u
    BY <1>1, <1>2, <1>4 DEF RoundsTo
  <2>4. /\ y >= 0 => 2 * y - u < 2 * s /\ 2 * s <= 2 * y + u
        /\ y < 0 => 2 * y - u <= 2 * s /\ 2 * s < 2 * y + u
    BY <1>1, <1>2, <2>1 DEF RoundsTo
  <2>5. ~(s < r)
    BY <1>5, <2>2, <2>3, <2>4
  <2> QED BY <1>4, <2>1, <2>5
<1>6. Rounded(r) = r
  <2>1. PICK s \in Int, p \in Int : s = Rounded(r) /\ s = u * p
    BY <1>1, <1>2 DEF RoundsTo
  <2>2. (s < r => s + u <= r) /\ (r < s => r + u <= s)
    BY <1>1, <1>4, <2>1, PixelsApart
  <2>3. 2 * r - u <= 2 * s /\ 2 * s <= 2 * r + u
    <3>1. RoundsTo(r, s)
      BY <1>2, <2>1
    <3> QED BY <1>1, <3>1 DEF RoundsTo
  <2>4. r = s
    BY <2>2, <2>3
  <2> QED BY <2>1, <2>4
<1>7. r % u = 0
  <2>1. 0 \in 0 .. u - 1 /\ r = u * q + 0
    <3>1. u * q \in Int
      OBVIOUS
    <3> QED BY <1>4, <3>1
  <2> QED BY <2>1, RemainderIs
<1>8. 2 * r <= 2 * x + u /\ 2 * x <= 2 * r + u
  <2>1. RoundsTo(x, r)
    BY <1>2, <1>4
  <2>2. /\ x >= 0 => 2 * x - u < 2 * r /\ 2 * r <= 2 * x + u
        /\ x < 0 => 2 * x - u <= 2 * r /\ 2 * r < 2 * x + u
    BY <1>1, <2>1 DEF RoundsTo
  <2> QED BY <2>2
<1> QED BY <1>1, <1>3, <1>4, <1>5, <1>6, <1>7, <1>8

\* A box on the grid of pixels.
LEMMA SnappedIs ==
  ASSUME NEW x \in Int, NEW z \in Int
  PROVE  /\ Snapped(x, z).begin = Rounded(x)
         /\ Snapped(x, z).begin + Snapped(x, z).long = Rounded(x + z)
         /\ Snapped(x, z).begin % Unit = 0 /\ Snapped(x, z).long % Unit = 0
         /\ Snapped(x, z) = Snapped(Snapped(x, z).begin, Snapped(x, z).long)
<1>1. PICK u \in Nat \ {0} : u = Unit
  BY UnitAssumption
<1>2. PICK y \in Int : y = x + z
  OBVIOUS
<1>3. PICK a \in Int, b \in Int : a = Rounded(x) /\ b = Rounded(y)
  BY RoundingKeeps
<1>4. Rounded(a) = a /\ Rounded(b) = b /\ a % Unit = 0 /\ b % Unit = 0
  BY <1>3, RoundingKeeps
<1>5. Snapped(x, z) = [begin |-> a, long |-> b - a]
  BY <1>2, <1>3 DEF Snapped
<1>6. a + (b - a) = b
  OBVIOUS
<1>7. Snapped(a, b - a) = [begin |-> a, long |-> b - a]
  BY <1>4, <1>6 DEF Snapped
<1>8. (b - a) % u = 0
  <2>1. PICK p \in Int, q \in Int : a = u * p /\ b = u * q
    BY <1>1, <1>2, <1>3, RoundedIs DEF RoundsTo
  <2>2. q - p \in Int /\ b - a = u * (q - p) + 0
    BY <2>1
  <2>3. 0 \in 0 .. u - 1 /\ b - a \in Int
    OBVIOUS
  <2> QED BY <2>2, <2>3, RemainderIs
<1> QED BY <1>1, <1>2, <1>3, <1>4, <1>5, <1>6, <1>7, <1>8

-----------------------------------------------------------------------------
(* One child after the other.                                              *)

\* Where child i ends, margin and all, if the first begins at a, every child
\* takes w and they are step apart.
EndOf(a, w, s, step, i) == a + SumFunctionOnSet(w, s .. i) + step * (i - s)

\* The children of a list end one after the other.
EndsInOrder(a, w, s, step, n) ==
  /\ s <= n => EndOf(a, w, s, step, s) = a + w[s]
  /\ \A i \in 1 .. n : s <= i => EndOf(a, w, s, step, i) \in Int
  /\ \A i \in 1 .. n : s < i => EndOf(a, w, s, step, i) = EndOf(a, w, s, step, i - 1) + w[i] + step

\* One child after the other.
LEMMA EndsFollow ==
  ASSUME NEW n \in Nat, NEW w, Numbers(w, n), NEW s \in Nat \ {0}, NEW a \in Int, NEW step \in Int
  PROVE  EndsInOrder(a, w, s, step, n)
<1>1. \A i \in 1 .. n : s .. i \in SUBSET (1 .. n) /\ SumFunctionOnSet(w, s .. i) \in Int
  <2>1. \A i \in 1 .. n : s .. i \in SUBSET (1 .. n)
    OBVIOUS
  <2> QED BY <2>1, TotalIs
<1>2. ASSUME s <= n PROVE EndOf(a, w, s, step, s) = a + w[s]
  <2>1. s \in 1 .. n /\ s .. s = {s} /\ s - s = 0 /\ step * 0 = 0
    BY <1>2
  <2>2. SumFunctionOnSet(w, {s}) = w[s] /\ w[s] \in Int
    BY <2>1, TotalOfOne DEF Numbers
  <2>3. a + w[s] + 0 = a + w[s]
    BY <2>2
  <2> QED BY <2>1, <2>2, <2>3 DEF EndOf
<1>3. ASSUME NEW i \in 1 .. n, s <= i PROVE EndOf(a, w, s, step, i) \in Int
  <2>1. PICK x \in Int : x = SumFunctionOnSet(w, s .. i)
    BY <1>1
  <2>2. step * (i - s) \in Int
    OBVIOUS
  <2> QED BY <2>1, <2>2 DEF EndOf
<1>4. ASSUME NEW i \in 1 .. n, s < i
      PROVE  EndOf(a, w, s, step, i) = EndOf(a, w, s, step, i - 1) + w[i] + step
  <2>1. PICK B \in SUBSET (1 .. n), O \in SUBSET (1 .. n) :
          B = s .. i - 1 /\ O = {i} /\ B \cup O = s .. i /\ B \cap O = {}
    <3> DEFINE before == s .. i - 1
               one == {i}
    <3>1. before \in SUBSET (1 .. n) /\ one \in SUBSET (1 .. n) /\ before \cup one = s .. i /\ before \cap one = {}
      BY <1>4
    <3> QED BY <3>1
  <2>2. B \cap O = {}
    BY <2>1
  <2>3. SumFunctionOnSet(w, B \cup O) = SumFunctionOnSet(w, B) + SumFunctionOnSet(w, O)
    BY <2>2, TotalOfParts
  <2>4. PICK x \in Int, y \in Int : x = SumFunctionOnSet(w, B) /\ y = w[i] /\ SumFunctionOnSet(w, O) = y
    <3>1. SumFunctionOnSet(w, B) \in Int
      BY <2>1, TotalIs
    <3>2. SumFunctionOnSet(w, O) = w[i]
      BY <2>1, TotalOfOne
    <3>3. w[i] \in Int
      BY DEF Numbers
    <3> QED BY <3>1, <3>2, <3>3
  <2>5. PICK d \in Int : d = i - s
    OBVIOUS
  <2>6. (i - 1) - s = d - 1
    BY <2>5
  <2>7. PICK p \in Int, q \in Int : p = step * (d - 1) /\ q = step * d /\ q = p + step
    <3>1. step * (d - 1) \in Int /\ step * d \in Int /\ step * d = step * (d - 1) + step
      OBVIOUS
    <3> QED BY <3>1
  <2>8. EndOf(a, w, s, step, i) = a + (x + y) + q
    BY <2>1, <2>3, <2>4, <2>5, <2>7 DEF EndOf
  <2>9. EndOf(a, w, s, step, i - 1) = a + x + p
    BY <2>1, <2>4, <2>6, <2>7 DEF EndOf
  <2>10. a + (x + y) + q = (a + x + p) + y + step
    BY <2>7
  <2> QED BY <2>4, <2>8, <2>9, <2>10
<1> QED BY <1>2, <1>3, <1>4 DEF EndsInOrder

\* e goes from child to child as flex_layout_line_children does.
EdgeSteps(e, s, c, first, z, join, step) ==
  e = [i \in s .. s + c - 1 |-> IF i = s THEN first ELSE e[i - 1] + z[i - 1] + join[i] + step]

\* Each child takes its length and two margins, and two meet with both theirs.
Taking(w, z, m, join, n) ==
  /\ Numbers(w, n) /\ Numbers(z, n) /\ Numbers(m, n)
  /\ \A i \in 1 .. n : w[i] = z[i] + m[i] + m[i]
  /\ \A i \in 2 .. n : join[i] = m[i - 1] + m[i]

\* There is one way to place children, and it is known where it puts them.
LEMMA EdgesAre ==
  ASSUME NEW n \in Nat, NEW w, NEW z, NEW m, NEW join, Taking(w, z, m, join, n),
         NEW s \in Nat \ {0}, NEW c \in Nat \ {0}, s + c <= n + 1, NEW a \in Int, NEW step \in Int
  PROVE  /\ \E e : EdgeSteps(e, s, c, a + m[s], z, join, step)
         /\ \A e : EdgeSteps(e, s, c, a + m[s], z, join, step) =>
              \A i \in s .. s + c - 1 : e[i] = EndOf(a, w, s, step, i) - z[i] - m[i]
<1>0. PICK first : first = a + m[s]
  OBVIOUS
<1> DEFINE t(i) == EndOf(a, w, s, step, i)
           f(i) == t(i) - z[i] - m[i]
<1>1. \A i \in s .. s + c - 1 : i \in 1 .. n /\ s <= i
  OBVIOUS
<1>2. \A i \in 1 .. n : z[i] \in Int /\ m[i] \in Int /\ w[i] \in Int /\ w[i] = z[i] + m[i] + m[i]
  BY DEF Taking, Numbers
<1>3. s \in 1 .. n /\ s <= n /\ s \in s .. s + c - 1
  OBVIOUS
<1>4. /\ t(s) = a + w[s]
      /\ \A i \in 1 .. n : s <= i => t(i) \in Int
      /\ \A i \in 1 .. n : s < i => t(i) = t(i - 1) + w[i] + step
  <2>1. Numbers(w, n)
    BY DEF Taking
  <2>2. EndsInOrder(a, w, s, step, n)
    BY <1>3, <2>1, EndsFollow
  <2> QED BY <2>1, <2>2 DEF EndsInOrder
<1> HIDE DEF t
<1>5. f(s) = first
  BY <1>0, <1>2, <1>3, <1>4
<1>6. ASSUME NEW i \in s .. s + c - 1, i # s
      PROVE  /\ i - 1 \in s .. s + c - 1
             /\ f(i) = f(i - 1) + z[i - 1] + join[i] + step
  <2>1. i \in 2 .. n /\ i \in 1 .. n /\ i - 1 \in 1 .. n /\ s < i /\ s <= i - 1 /\ i - 1 \in s .. s + c - 1
    BY <1>6
  <2>2. join[i] = m[i - 1] + m[i]
    BY <2>1 DEF Taking
  <2>3. t(i) = t(i - 1) + w[i] + step /\ t(i - 1) \in Int
    BY <1>4, <2>1
  <2>4. PICK j \in 1 .. n : j = i - 1
    BY <2>1
  <2>5. PICK x \in Int, y \in Int, u \in Int, v \in Int, b \in Int :
          x = z[i] /\ y = m[i] /\ u = z[j] /\ v = m[j] /\ b = t(j)
    BY <1>2, <2>1, <2>3, <2>4
  <2>6. w[i] = x + y + y
    BY <1>2, <2>1, <2>5
  <2>7. f(i) = (b + (x + y + y) + step) - x - y
    BY <2>3, <2>4, <2>5, <2>6
  <2>8. f(i - 1) = b - u - v
    BY <2>4, <2>5
  <2>9. (b + (x + y + y) + step) - x - y = (b - u - v) + u + (v + y) + step
    OBVIOUS
  <2> QED BY <2>1, <2>2, <2>4, <2>5, <2>7, <2>8, <2>9
<1> HIDE DEF f
<1>7. \E e : EdgeSteps(e, s, c, first, z, join, step)
  <2> DEFINE e == [i \in s .. s + c - 1 |-> f(i)]
  <2>1. \A i \in s .. s + c - 1 : e[i] = IF i = s THEN first ELSE e[i - 1] + z[i - 1] + join[i] + step
    BY <1>5, <1>6
  <2>2. e = [i \in s .. s + c - 1 |-> e[i]]
    OBVIOUS
  <2> HIDE DEF e
  <2>3. e = [i \in s .. s + c - 1 |-> IF i = s THEN first ELSE e[i - 1] + z[i - 1] + join[i] + step]
    BY <2>1, <2>2
  <2> QED BY <2>3 DEF EdgeSteps
<1>8. ASSUME NEW e, EdgeSteps(e, s, c, first, z, join, step)
      PROVE  \A i \in s .. s + c - 1 : e[i] = f(i)
  <2> DEFINE T == {x \in 0 .. c - 1 : e[s + x] = f(s + x)}
  <2>1. \A i \in s .. s + c - 1 : e[i] = IF i = s THEN first ELSE e[i - 1] + z[i - 1] + join[i] + step
    BY <1>8 DEF EdgeSteps
  <2>2. e[s] = f(s)
    BY <1>3, <1>5, <2>1
  <2>3. 0 \in T
    <3>1. s + 0 = s /\ 0 \in 0 .. c - 1
      OBVIOUS
    <3> QED BY <2>2, <3>1
  <2>4. \A x \in 0 .. (c - 1) - 1 : x \in T => x + 1 \in T
    <3> SUFFICES ASSUME NEW x \in 0 .. (c - 1) - 1, e[s + x] = f(s + x) PROVE x + 1 \in 0 .. c - 1 /\ e[s + (x + 1)] = f(s + (x + 1))
      OBVIOUS
    <3>1. PICK i \in s .. s + c - 1 : i = s + (x + 1) /\ i # s /\ i - 1 = s + x
      OBVIOUS
    <3>2. e[i] = e[i - 1] + z[i - 1] + join[i] + step
      BY <2>1, <3>1
    <3>3. f(i) = f(i - 1) + z[i - 1] + join[i] + step
      BY <1>6, <3>1
    <3>4. e[i - 1] = f(i - 1)
      BY <3>1
    <3> QED BY <3>1, <3>2, <3>3, <3>4
  <2>5. c - 1 \in Nat
    OBVIOUS
  <2> HIDE DEF T
  <2>6. \A x \in 0 .. c - 1 : x \in T
    BY <2>3, <2>4, <2>5, Counting
  <2>7. ASSUME NEW i \in s .. s + c - 1 PROVE e[i] = f(i)
    <3>1. PICK x \in 0 .. c - 1 : i = s + x
      <4>1. i - s \in 0 .. c - 1 /\ i = s + (i - s)
        OBVIOUS
      <4> QED BY <4>1
    <3> QED BY <2>6, <3>1 DEF T
  <2> QED BY <2>7
<1> QED BY <1>0, <1>7, <1>8 DEF f, t

\* Where flex_resolve_line_justify has the line begin, and how far apart its
\* children are.
LineStart == StartOffset(frame.justify, Space - Occupied, lines[cursor].count)
LineStep == Gap + GapShare(frame.justify, Space - Occupied, lines[cursor].count)

\* The edges of its children.
EdgeList ==
  CHOOSE e : e = [i \in Members(cursor) |->
    IF i = lines[cursor].start THEN LineStart + items[i].margin * Unit
    ELSE e[i - 1] + size[i - 1] + (items[i - 1].margin + items[i].margin) * Unit + LineStep]

\* The margin on one side of a child, and what it takes with both.
SideList == [i \in 1 .. Len(items) |-> items[i].margin * Unit]
TakeList == [i \in 1 .. Len(items) |-> size[i] + items[i].margin * Unit + items[i].margin * Unit]

\* Where a child ends, margin and all.
ChildEnd(i) == EndOf(LineStart, TakeList, lines[cursor].start, LineStep, i)

\* Place puts the children there.
LEMMA PlaceIs ==
  ASSUME Place, NEW i \in Members(cursor), i \in DOMAIN items
  PROVE  /\ pos'[i] = IF frame.rtl THEN AtLeastZero(Space) - EdgeList[i] - size[i] ELSE EdgeList[i]
         /\ pixels'[i] = Snapped(pos'[i], Limited(i, size[i]))
<1> DEFINE Origin(j) == IF frame.rtl THEN AtLeastZero(Space) - EdgeList[j] - size[j] ELSE EdgeList[j]
<1>1. /\ pos' = [j \in DOMAIN items |-> IF j \in Members(cursor) THEN Origin(j) ELSE pos[j]]
      /\ pixels' = [j \in DOMAIN items |->
                      IF j \in Members(cursor) THEN Snapped(Origin(j), Limited(j, size[j])) ELSE pixels[j]]
  BY DEF Place, EdgeList, LineStart, LineStep
<1> QED BY <1>1

\* The free space of a line is a number, and what is made of it, too.
LEMMA JustifyNumbers ==
  ASSUME FlexInv, at = "place"
  PROVE  /\ LineStart \in Int /\ LineStep \in Int /\ Gap <= LineStep
         /\ Gap \in Nat /\ Space \in Nat /\ Occupied \in Int
         /\ Occupied <= Space =>
              \E g \in Nat : LET c == lines[cursor].count
                                 free == Space - Occupied
                             IN /\ LineStep = Gap + g /\ LineStart \in Nat
                                /\ g * (c - 1) \in Nat
                                /\ LineStart + g * (c - 1) <= free
                                /\ frame.justify \in {"start", "between"} => LineStart = 0
                                /\ frame.justify = "end" => LineStart + g * (c - 1) = free
                                /\ SharesExactly(frame.justify, free, c) =>
                                     /\ frame.justify = "between" /\ c > 1 => LineStart + g * (c - 1) = free
                                     /\ frame.justify \in {"center", "around", "evenly"} =>
                                          2 * LineStart + g * (c - 1) = free
<1>1. FlexTypeOK
  BY DEF FlexInv, LinesInv
<1>2. PICK n \in Nat \ {0} : n = Len(items)
  BY <1>1 DEF FlexTypeOK
<1>3. PICK c \in Nat \ {0} : c = lines[cursor].count /\ cursor \in 1 .. Len(lines)
  BY MembersAre DEF FlexInv, RoundOK
<1>4. PICK mode \in SpacingModes : mode = frame.justify
  BY <1>1 DEF FlexTypeOK, FlexFrames
<1>5. Gap \in Nat /\ Space \in Nat
  <2>1. Gap \in Nat
    BY <1>1, <1>2, MeasuredIs
  <2>2. frame.main * Unit \in Nat
    <3>1. frame.main \in Nat
      BY <1>1, FlexAssumption DEF FlexTypeOK, FlexFrames
    <3> QED BY <3>1, UnitAssumption
  <2>3. Measured \in Nat
    <3>1. PICK f : f = OuterList /\ Numbers(f, n) /\ Measured = SumFunctionOnSet(f, 1 .. n) + Gap * (n - 1)
      BY <1>1, <1>2, MeasuredIs
    <3>2. n \in Nat /\ 1 .. n \in SUBSET (1 .. n)
      OBVIOUS
    <3>3. \A i \in 1 .. n : 0 <= f[i]
      BY <1>1, <1>2, <3>1, ItemNumbers DEF OuterList
    <3>4. 0 <= SumFunctionOnSet(f, 1 .. n) /\ SumFunctionOnSet(f, 1 .. n) \in Int
      BY <3>1, <3>2, <3>3, TotalNotNegative, TotalIs
    <3>5. PICK g \in Nat : g = Gap
      BY <2>1
    <3>6. g * (n - 1) \in Nat
      <4>1. PICK m \in Nat : m = n - 1
        OBVIOUS
      <4> QED BY <4>1
    <3> QED BY <3>1, <3>4, <3>5, <3>6
  <2> QED BY <2>1, <2>2, <2>3 DEF Space
<1>6. Occupied \in Int
  BY LineTotal
<1>7. PICK free \in Int : free = Space - Occupied
  BY <1>5, <1>6
<1>8. AtLeastZero(free) \in Nat /\ AtLeastZero(AtLeastZero(free)) = AtLeastZero(free)
  BY DEF AtLeastZero
<1>9. GapShare(mode, free, c) = GapShare(mode, AtLeastZero(free), c)
  BY <1>8 DEF GapShare
<1>10. PICK left \in Nat : left = AtLeastZero(free)
  BY <1>8
<1>11. GapShare(mode, free, c) \in Nat
  <2>1. GapShare(mode, left, c) \in Nat
    BY SpacingFits
  <2> QED BY <1>9, <1>10, <2>1
<1>12. LineStep = Gap + GapShare(mode, free, c) /\ LineStart = StartOffset(mode, free, c)
  BY <1>3, <1>4, <1>7 DEF LineStep, LineStart
<1>13. LineStart \in Int
  <2>1. free \div 2 \in Int
    BY DivMod
  <2>2. left \div (2 * c) \in Int /\ left \div (c + 1) \in Int
    <3>1. 2 * c \in Nat \ {0} /\ c + 1 \in Nat \ {0} /\ left \in Int
      OBVIOUS
    <3> QED BY <3>1, DivMod
  <2> DEFINE half == free \div 2
             around == left \div (2 * c)
             even == left \div (c + 1)
  <2>3. StartOffset(mode, free, c) = CASE mode = "end" -> free
                                       [] mode = "center" -> half
                                       [] mode = "around" -> around
                                       [] mode = "evenly" -> even
                                       [] OTHER -> 0
    BY <1>10 DEF StartOffset
  <2>4. half \in Int /\ around \in Int /\ even \in Int
    BY <2>1, <2>2
  <2> HIDE DEF half, around, even
  <2>5. CASE mode = "end"
    BY <1>12, <2>3, <2>5
  <2>6. CASE mode = "center"
    BY <1>12, <2>3, <2>4, <2>6
  <2>7. CASE mode = "around"
    BY <1>12, <2>3, <2>4, <2>7
  <2>8. CASE mode = "evenly"
    BY <1>12, <2>3, <2>4, <2>8
  <2>9. CASE mode \notin {"end", "center", "around", "evenly"}
    BY <1>12, <2>3, <2>9
  <2> QED BY <2>5, <2>6, <2>7, <2>8, <2>9
<1>14. LineStep \in Int /\ Gap <= LineStep
  BY <1>5, <1>11, <1>12
<1>15. ASSUME Occupied <= Space
       PROVE  \E g \in Nat : /\ LineStep = Gap + g /\ LineStart \in Nat
                             /\ g * (c - 1) \in Nat
                             /\ LineStart + g * (c - 1) <= free
                             /\ mode \in {"start", "between"} => LineStart = 0
                             /\ mode = "end" => LineStart + g * (c - 1) = free
                             /\ SharesExactly(mode, free, c) =>
                                  /\ mode = "between" /\ c > 1 => LineStart + g * (c - 1) = free
                                  /\ mode \in {"center", "around", "evenly"} =>
                                       2 * LineStart + g * (c - 1) = free
  <2>1. free \in Nat
    BY <1>5, <1>6, <1>7, <1>15
  <2>2. PICK g \in Nat : g = GapShare(mode, free, c)
    BY <1>11
  <2>3. LET x == StartOffset(mode, free, c)
            y == GapShare(mode, free, c)
        IN /\ x \in Nat /\ y \in Nat /\ y * (c - 1) \in Nat
           /\ x + y * (c - 1) <= free
           /\ mode \in {"start", "between"} => x = 0
           /\ mode = "end" => x + y * (c - 1) = free
           /\ SharesExactly(mode, free, c) =>
                /\ mode = "between" /\ c > 1 => x + y * (c - 1) = free
                /\ mode \in {"center", "around", "evenly"} => 2 * x + y * (c - 1) = free
    BY <2>1, SpacingFits
  <2>4. /\ LineStart \in Nat /\ g * (c - 1) \in Nat
        /\ LineStart + g * (c - 1) <= free
        /\ mode \in {"start", "between"} => LineStart = 0
        /\ mode = "end" => LineStart + g * (c - 1) = free
        /\ SharesExactly(mode, free, c) =>
             /\ mode = "between" /\ c > 1 => LineStart + g * (c - 1) = free
             /\ mode \in {"center", "around", "evenly"} => 2 * LineStart + g * (c - 1) = free
    BY <1>12, <2>2, <2>3
  <2> QED BY <1>12, <2>2, <2>4
<1> QED BY <1>3, <1>4, <1>5, <1>6, <1>7, <1>13, <1>14, <1>15

\* So the edges are known.
LEMMA ChildrenAreAt ==
  ASSUME FlexInv, at = "place"
  PROVE  /\ Numbers(TakeList, Len(items))
         /\ \A i \in Members(cursor) : EdgeList[i] = ChildEnd(i) - size[i] - SideList[i]
<1>1. FlexTypeOK /\ cursor \in 1 .. Len(lines) /\ FlexStateOK
  BY DEF FlexInv, LinesInv, RoundOK
<1>2. PICK n \in Nat : n = Len(items)
  BY <1>1 DEF FlexTypeOK
<1>3. PICK s \in Nat \ {0}, c \in Nat \ {0} :
        s = lines[cursor].start /\ c = lines[cursor].count /\ s + c <= n + 1 /\ Members(cursor) = s .. s + c - 1
  BY <1>1, <1>2 DEF FlexInv, LinesWithin, LineIn, Members
<1>4. PICK a \in Int, step \in Int : a = LineStart /\ step = LineStep
  BY JustifyNumbers
<1> DEFINE join == [i \in 2 .. n |-> (items[i - 1].margin + items[i].margin) * Unit]
<1>5. PICK z, m, w : z = size /\ m = SideList /\ w = TakeList
  OBVIOUS
<1>6. \A i \in 1 .. n : /\ m[i] = items[i].margin * Unit /\ m[i] \in Int /\ items[i].margin \in Nat
                        /\ z[i] \in Int /\ w[i] = z[i] + m[i] + m[i]
  <2> SUFFICES ASSUME NEW i \in 1 .. n
               PROVE  /\ m[i] = items[i].margin * Unit /\ m[i] \in Int /\ items[i].margin \in Nat
                      /\ z[i] \in Int /\ w[i] = z[i] + m[i] + m[i]
    OBVIOUS
  <2>1. items[i] \in Items
    BY <1>1, <1>2 DEF FlexTypeOK
  <2>2. items[i].margin \in Nat
    BY <2>1, FlexAssumption
  <2>3. items[i].margin * Unit \in Int
    BY <2>2, UnitAssumption
  <2>4. z[i] \in Int
    BY <1>1, <1>2, <1>5 DEF FlexStateOK
  <2> QED BY <1>2, <1>5, <2>2, <2>3, <2>4 DEF SideList, TakeList
<1>7. Numbers(m, n) /\ Numbers(z, n) /\ Numbers(w, n)
  <2>1. \A i \in 1 .. n : w[i] \in Int
    BY <1>6
  <2>2. m = [i \in 1 .. n |-> m[i]] /\ w = [i \in 1 .. n |-> w[i]]
    BY <1>2, <1>5 DEF SideList, TakeList
  <2> QED BY <1>1, <1>2, <1>5, <1>6, <2>1, <2>2 DEF Numbers, FlexStateOK
<1>8. \A i \in 2 .. n : join[i] = m[i - 1] + m[i] /\ join[i] = (items[i - 1].margin + items[i].margin) * Unit
  <2> SUFFICES ASSUME NEW i \in 2 .. n
               PROVE  join[i] = m[i - 1] + m[i] /\ join[i] = (items[i - 1].margin + items[i].margin) * Unit
    OBVIOUS
  <2>1. i \in 1 .. n /\ i - 1 \in 1 .. n
    OBVIOUS
  <2>2. PICK x \in Nat, y \in Nat, u \in Nat : x = items[i - 1].margin /\ y = items[i].margin /\ u = Unit
    BY <1>6, <2>1, UnitAssumption
  <2>3. (x + y) * u = x * u + y * u
    OBVIOUS
  <2> QED BY <1>6, <2>1, <2>2, <2>3
<1> HIDE DEF join
<1>9. Taking(w, z, m, join, n)
  BY <1>6, <1>7, <1>8 DEF Taking
<1>10. s + c <= n + 1
  BY <1>3
<1>11. /\ \E e : EdgeSteps(e, s, c, a + m[s], z, join, step)
       /\ \A e : EdgeSteps(e, s, c, a + m[s], z, join, step) =>
            \A i \in s .. s + c - 1 : e[i] = EndOf(a, w, s, step, i) - z[i] - m[i]
  BY <1>9, <1>10, EdgesAre
<1>12. \A e : EdgeSteps(e, s, c, a + m[s], z, join, step) <=>
         e = [i \in Members(cursor) |->
               IF i = lines[cursor].start THEN LineStart + items[i].margin * Unit
               ELSE e[i - 1] + size[i - 1] + (items[i - 1].margin + items[i].margin) * Unit + LineStep]
  <2> DEFINE Edge(e, i) == IF i = s THEN a + m[s] ELSE e[i - 1] + z[i - 1] + join[i] + step
             Asked(e, i) == IF i = s THEN a + items[i].margin * Unit
                          ELSE e[i - 1] + z[i - 1] + (items[i - 1].margin + items[i].margin) * Unit + step
  <2>1. ASSUME NEW e, NEW i \in s .. s + c - 1 PROVE Edge(e, i) = Asked(e, i)
    <3>1. i \in 1 .. n /\ (i # s => i \in 2 .. n)
      BY <1>3
    <3> QED BY <1>6, <1>8, <3>1
  <2>2. \A e : EdgeSteps(e, s, c, a + m[s], z, join, step) <=> e = [i \in s .. s + c - 1 |-> Edge(e, i)]
    BY DEF EdgeSteps
  <2>3. ASSUME NEW e
        PROVE  [i \in Members(cursor) |->
                 IF i = lines[cursor].start THEN LineStart + items[i].margin * Unit
                 ELSE e[i - 1] + size[i - 1] + (items[i - 1].margin + items[i].margin) * Unit + LineStep]
               = [i \in s .. s + c - 1 |-> Asked(e, i)]
    BY <1>3, <1>4, <1>5
  <2> HIDE DEF Edge, Asked
  <2>4. \A e : [i \in s .. s + c - 1 |-> Edge(e, i)] = [i \in s .. s + c - 1 |-> Asked(e, i)]
    BY <2>1
  <2> QED BY <2>2, <2>3, <2>4
<1>13. EdgeSteps(EdgeList, s, c, a + m[s], z, join, step)
  BY <1>11, <1>12 DEF EdgeList
<1>14. \A i \in s .. s + c - 1 : EdgeList[i] = EndOf(a, w, s, step, i) - z[i] - m[i]
  BY <1>11, <1>13
<1> QED BY <1>2, <1>3, <1>4, <1>5, <1>7, <1>14 DEF ChildEnd

\* The shares of the free space of a line are whole.
JustifyWhole ==
  at = "place" => SharesExactly(frame.justify, AtLeastZero(Space - Occupied), lines[cursor].count)

\* Where child i begins and ends, with its margins.
BeginAt(i) == EdgeList[i] - SideList[i]
EndAt(i) == EdgeList[i] + size[i] + SideList[i]

\* The line is placed with its gaps, and inside the container as justify_content says.
LEMMA LineIsPlaced ==
  ASSUME FlexInv, JustifyWhole, at = "place",
         NEW first, NEW last, first = lines[cursor].start, last = first + lines[cursor].count - 1
  PROVE  /\ Members(cursor) = first .. last /\ first \in Nat \ {0} /\ last \in Nat /\ first <= last /\ last <= Len(items)
         /\ \A i \in first .. last : /\ EdgeList[i] \in Int /\ size[i] \in Int /\ SideList[i] \in Int
                                     /\ SideList[i] = items[i].margin * Unit
         /\ \A i \in first .. last - 1 : BeginAt(i + 1) >= EndAt(i) + Gap
         /\ Occupied <= Space =>
              /\ BeginAt(first) >= 0 /\ EndAt(last) <= Space
              /\ frame.justify \in {"start", "between"} => BeginAt(first) = 0
              /\ frame.justify = "end" \/ (frame.justify = "between" /\ first < last) => EndAt(last) = Space
              /\ frame.justify \in {"center", "around", "evenly"} => BeginAt(first) = Space - EndAt(last)
<1>1. FlexTypeOK /\ cursor \in 1 .. Len(lines) /\ FlexStateOK
  BY DEF FlexInv, LinesInv, RoundOK
<1>2. PICK n \in Nat \ {0} : n = Len(items)
  BY <1>1 DEF FlexTypeOK
<1>3. PICK s \in Nat \ {0}, c \in Nat \ {0} :
        s = first /\ c = lines[cursor].count /\ s + c <= n + 1 /\ Members(cursor) = s .. s + c - 1
  BY <1>1, <1>2 DEF FlexInv, LinesWithin, LineIn, Members
<1>4. PICK l \in Nat : l = last /\ l = s + c - 1 /\ s <= l /\ l <= n
  <2>0. PICK e \in Nat : c = e + 1
    <3>1. c - 1 \in Nat /\ c = (c - 1) + 1
      OBVIOUS
    <3> QED BY <3>1
  <2>1. s + c - 1 \in Nat /\ s <= s + c - 1 /\ s + c - 1 <= n
    <3>1. s + c <= n + 1
      BY <1>3
    <3>2. s + c - 1 = s + e
      BY <2>0
    <3> QED BY <2>0, <3>1, <3>2
  <2>2. last = s + c - 1
    BY <1>3
  <2> QED BY <2>1, <2>2
<1>5. PICK a \in Int, step \in Int : a = LineStart /\ step = LineStep /\ Gap <= step
  BY JustifyNumbers
<1>6. PICK w : w = TakeList /\ Numbers(w, n) /\ \A i \in s .. l : EdgeList[i] = ChildEnd(i) - size[i] - SideList[i]
  BY <1>2, <1>3, <1>4, ChildrenAreAt
<1>7. \A i \in 1 .. n : /\ SideList[i] = items[i].margin * Unit /\ SideList[i] \in Int /\ size[i] \in Int
                        /\ w[i] = size[i] + SideList[i] + SideList[i] /\ MarginList[i] = SideList[i] + SideList[i]
  <2> SUFFICES ASSUME NEW i \in 1 .. n
               PROVE  /\ SideList[i] = items[i].margin * Unit /\ SideList[i] \in Int /\ size[i] \in Int
                      /\ w[i] = size[i] + SideList[i] + SideList[i] /\ MarginList[i] = SideList[i] + SideList[i]
    OBVIOUS
  <2>1. i \in 1 .. Len(items)
    BY <1>2
  <2>2. items[i].margin * Unit \in Nat /\ Margins(i) = items[i].margin * Unit + items[i].margin * Unit
    BY <1>1, <2>1, ItemNumbers
  <2>3. size[i] \in Int
    BY <1>1, <2>1 DEF FlexStateOK
  <2> QED BY <1>2, <1>6, <2>1, <2>2, <2>3 DEF SideList, TakeList, MarginList
<1> DEFINE t(i) == EndOf(a, w, s, step, i)
<1>8. \A i \in s .. l : i \in 1 .. n /\ s <= i /\ EdgeList[i] = t(i) - size[i] - SideList[i]
  <2>1. \A i : ChildEnd(i) = t(i)
    BY <1>3, <1>5, <1>6 DEF ChildEnd
  <2>2. \A i \in s .. l : i \in 1 .. n /\ s <= i
    BY <1>4
  <2>3. \A i \in s .. l : EdgeList[i] = t(i) - size[i] - SideList[i]
    <3> HIDE DEF t
    <3> QED BY <1>6, <2>1, Zenon
  <2> QED
    <3> HIDE DEF t
    <3> QED BY <2>2, <2>3, Zenon
<1>9. /\ t(s) = a + w[s]
      /\ \A i \in 1 .. n : s <= i => t(i) \in Int
      /\ \A i \in 1 .. n : s < i => t(i) = t(i - 1) + w[i] + step
  <2>1. s <= n /\ n \in Nat
    BY <1>4
  <2>2. EndsInOrder(a, w, s, step, n)
    BY <1>6, <2>1, EndsFollow
  <2> QED BY <2>1, <2>2 DEF EndsInOrder
<1>10. t(l) = a + SumFunctionOnSet(w, s .. l) + step * (c - 1)
  <2>1. l - s = c - 1
    BY <1>4
  <2> QED BY <2>1 DEF EndOf
<1> HIDE DEF t
<1>11. \A i \in s .. l : EdgeList[i] \in Int /\ EndAt(i) = t(i) /\ t(i) \in Int /\ BeginAt(i) = t(i) - w[i] /\ w[i] \in Int
  <2> SUFFICES ASSUME NEW i \in s .. l
               PROVE  EdgeList[i] \in Int /\ EndAt(i) = t(i) /\ t(i) \in Int /\ BeginAt(i) = t(i) - w[i] /\ w[i] \in Int
    OBVIOUS
  <2>1. PICK x \in Int, y \in Int, z \in Int : x = t(i) /\ y = size[i] /\ z = SideList[i]
    BY <1>7, <1>8, <1>9
  <2>2. w[i] = y + z + z /\ EdgeList[i] = x - y - z
    BY <1>7, <1>8, <2>1
  <2> QED BY <2>1, <2>2 DEF EndAt, BeginAt
<1>12. ASSUME NEW i \in s .. l - 1 PROVE BeginAt(i + 1) >= EndAt(i) + Gap
  <2>1. i \in s .. l /\ i + 1 \in s .. l /\ i + 1 \in 1 .. n /\ s < i + 1 /\ (i + 1) - 1 = i
    BY <1>4
  <2>2. t(i + 1) = t(i) + w[i + 1] + step
    BY <1>9, <2>1
  <2>3. PICK x \in Int, y \in Int, v \in Int : x = t(i) /\ y = t(i + 1) /\ v = w[i + 1]
    BY <1>11, <2>1
  <2>4. EndAt(i) = x /\ BeginAt(i + 1) = y - v
    BY <1>11, <2>1, <2>3
  <2>5. PICK g \in Int : g = Gap
    BY <1>1, RoomTypes
  <2> QED BY <1>5, <2>2, <2>3, <2>4, <2>5
<1>13. ASSUME Occupied <= Space
       PROVE  /\ BeginAt(first) >= 0 /\ EndAt(last) <= Space
              /\ frame.justify \in {"start", "between"} => BeginAt(first) = 0
              /\ frame.justify = "end" \/ (frame.justify = "between" /\ first < last) => EndAt(last) = Space
              /\ frame.justify \in {"center", "around", "evenly"} => BeginAt(first) = Space - EndAt(last)
  <2>1. PICK space \in Int, o \in Int, p \in Nat : space = Space /\ o = Occupied /\ p = Gap
    BY JustifyNumbers
  <2>2. SharesExactly(frame.justify, space - o, c)
    <3>1. AtLeastZero(space - o) = space - o
      BY <1>13, <2>1 DEF AtLeastZero
    <3> QED BY <1>3, <2>1, <3>1 DEF JustifyWhole
  <2>3. PICK g \in Nat :
          /\ step = p + g /\ a \in Nat /\ g * (c - 1) \in Nat
          /\ a + g * (c - 1) <= space - o
          /\ frame.justify \in {"start", "between"} => a = 0
          /\ frame.justify = "end" => a + g * (c - 1) = space - o
          /\ frame.justify = "between" /\ c > 1 => a + g * (c - 1) = space - o
          /\ frame.justify \in {"center", "around", "evenly"} => 2 * a + g * (c - 1) = space - o
    BY <1>3, <1>5, <1>13, <2>1, <2>2, JustifyNumbers
  <2>4. PICK m \in Nat : m = c - 1
    OBVIOUS
  <2>5. PICK x \in Int, y \in Int : x = g * m /\ y = p * m /\ step * (c - 1) = y + x /\ g * (c - 1) = x /\ p * (c - 1) = y
    <3>1. g * m \in Int /\ p * m \in Int /\ (p + g) * m = p * m + g * m
      OBVIOUS
    <3> QED BY <2>3, <2>4, <3>1
  <2>6. s .. l \in SUBSET (1 .. n) /\ n \in Nat
    BY <1>4
  <2>7. PICK v \in Int : v = SumFunctionOnSet(w, s .. l)
    BY <1>6, <2>6, TotalIs
  <2>8. o = v + y
    <3>1. Numbers(size, n) /\ Numbers(MarginList, n)
      BY <1>1, <1>2, ListsAreNumbers DEF FlexStateOK, Numbers
    <3>2. \A i \in s .. l : w[i] = size[i] + MarginList[i]
      <4> SUFFICES ASSUME NEW i \in s .. l PROVE w[i] = size[i] + MarginList[i]
        OBVIOUS
      <4>1. i \in 1 .. n
        BY <1>8
      <4>2. PICK f \in Int, h \in Int : f = size[i] /\ h = SideList[i]
        BY <1>7, <4>1
      <4> QED BY <1>7, <4>1, <4>2
    <3>3. v = SumFunctionOnSet(size, s .. l) + SumFunctionOnSet(MarginList, s .. l)
      <4>1. PICK S \in SUBSET (1 .. n) : S = s .. l
        BY <2>6
      <4>2. \A i \in S : w[i] = size[i] + MarginList[i]
        BY <3>2, <4>1
      <4>3. SumFunctionOnSet(w, S) = SumFunctionOnSet(size, S) + SumFunctionOnSet(MarginList, S)
        BY <1>6, <2>6, <3>1, <4>2, TotalsPlus
      <4> QED BY <2>7, <4>1, <4>3
    <3>4. Occupied = SumFunctionOnSet(size, s .. l) + SumFunctionOnSet(MarginList, s .. l) + Gap * (c - 1)
      BY <1>1, <1>3, <1>4, LineMainIs DEF Occupied
    <3> QED BY <2>1, <2>5, <3>3, <3>4
  <2>9. t(l) = a + v + (y + x)
    BY <1>10, <2>5, <2>7
  <2>10. s \in s .. l /\ l \in s .. l
    BY <1>4
  <2>11. EndAt(l) = a + x + o
    BY <1>11, <2>8, <2>9, <2>10
  <2>12. BeginAt(s) = a
    <3>1. PICK f \in Int : f = w[s]
      BY <1>11, <2>10
    <3> QED BY <1>9, <1>11, <2>10, <3>1
  <2>13. s < l => c > 1
    BY <1>4
  <2>14. /\ a + x <= space - o
         /\ frame.justify \in {"start", "between"} => a = 0
         /\ frame.justify = "end" \/ (frame.justify = "between" /\ s < l) => a + x = space - o
         /\ frame.justify \in {"center", "around", "evenly"} => 2 * a + x = space - o
    BY <2>3, <2>5, <2>13
  <2>15. /\ a >= 0 /\ a + x + o <= space
         /\ a + x = space - o => a + x + o = space
         /\ 2 * a + x = space - o => a = space - (a + x + o)
    BY <2>3, <2>14
  <2> QED BY <1>3, <1>4, <2>1, <2>11, <2>12, <2>14, <2>15
<1> QED BY <1>2, <1>3, <1>4, <1>7, <1>8, <1>11, <1>12, <1>13

-----------------------------------------------------------------------------
\* What ChildrenApart says of line k.
PlacedApart(k) ==
  LET first == lines[k].start
      last == first + lines[k].count - 1
      FromStart(i) == IF frame.rtl THEN Space - pos[i] - size[i] ELSE pos[i]
      Begin(i) == FromStart(i) - items[i].margin * Unit
      End(i) == FromStart(i) + size[i] + items[i].margin * Unit
      Edge(i) == pixels[i].begin + pixels[i].long
      Near(x, y) == 2 * x <= 2 * y + Unit /\ 2 * y <= 2 * x + Unit
  IN /\ \A i \in first .. last - 1 : Begin(i + 1) >= End(i) + Gap
     /\ LineMain(SizeOf, k) <= Space =>
          /\ Begin(first) >= 0 /\ End(last) <= Space
          /\ frame.justify \in {"start", "between"} => Begin(first) = 0
          /\ frame.justify = "end" \/ (frame.justify = "between" /\ first < last) => End(last) = Space
          /\ frame.justify \in {"center", "around", "evenly"} => Begin(first) = Space - End(last)
     /\ \A i \in first .. last :
          /\ Near(pixels[i].begin, pos[i])
          /\ Near(Edge(i), pos[i] + size[i])
          /\ pixels[i].begin % Unit = 0 /\ pixels[i].long % Unit = 0
          /\ pixels[i] = Snapped(pixels[i].begin, pixels[i].long)
     /\ \A i, j \in first .. last :
          /\ i # j /\ pos[i] + size[i] <= pos[j] => Edge(i) <= pixels[j].begin
          /\ pos[i] + size[i] = pos[j] => Edge(i) = pixels[j].begin

\* The boxes x of S, from p and as long as z, are put on the grid of pixels.
OnPixels(S, p, z, x) == \A i \in S : p[i] \in Int /\ z[i] \in Int /\ x[i] = Snapped(p[i], z[i])

\* They stay where they are, and those that touch do.
LEMMA PixelsFollow ==
  ASSUME NEW S, NEW p, NEW z, NEW x, OnPixels(S, p, z, x)
  PROVE  /\ \A i \in S :
              /\ 2 * x[i].begin <= 2 * p[i] + Unit /\ 2 * p[i] <= 2 * x[i].begin + Unit
              /\ 2 * (x[i].begin + x[i].long) <= 2 * (p[i] + z[i]) + Unit
              /\ 2 * (p[i] + z[i]) <= 2 * (x[i].begin + x[i].long) + Unit
              /\ x[i].begin % Unit = 0 /\ x[i].long % Unit = 0
              /\ x[i] = Snapped(x[i].begin, x[i].long)
         /\ \A i, j \in S :
              /\ p[i] + z[i] <= p[j] => x[i].begin + x[i].long <= x[j].begin
              /\ p[i] + z[i] = p[j] => x[i].begin + x[i].long = x[j].begin
<1>1. ASSUME NEW i \in S
      PROVE  /\ x[i].begin = Rounded(p[i]) /\ x[i].begin + x[i].long = Rounded(p[i] + z[i])
             /\ p[i] \in Int /\ p[i] + z[i] \in Int
             /\ x[i].begin % Unit = 0 /\ x[i].long % Unit = 0
             /\ x[i] = Snapped(x[i].begin, x[i].long)
  <2>1. PICK a \in Int, b \in Int : a = p[i] /\ b = z[i] /\ x[i] = Snapped(a, b)
    BY DEF OnPixels
  <2>2. a + b \in Int
    OBVIOUS
  <2>3. /\ Snapped(a, b).begin = Rounded(a)
        /\ Snapped(a, b).begin + Snapped(a, b).long = Rounded(a + b)
        /\ Snapped(a, b).begin % Unit = 0 /\ Snapped(a, b).long % Unit = 0
        /\ Snapped(a, b) = Snapped(Snapped(a, b).begin, Snapped(a, b).long)
    BY SnappedIs
  <2> QED BY <2>1, <2>2, <2>3
<1>2. ASSUME NEW i \in S
      PROVE  /\ 2 * x[i].begin <= 2 * p[i] + Unit /\ 2 * p[i] <= 2 * x[i].begin + Unit
             /\ 2 * (x[i].begin + x[i].long) <= 2 * (p[i] + z[i]) + Unit
             /\ 2 * (p[i] + z[i]) <= 2 * (x[i].begin + x[i].long) + Unit
  <2>1. PICK a \in Int, b \in Int : a = p[i] /\ b = p[i] + z[i]
    BY <1>1
  <2>2. /\ 2 * Rounded(a) <= 2 * a + Unit /\ 2 * a <= 2 * Rounded(a) + Unit
        /\ 2 * Rounded(b) <= 2 * b + Unit /\ 2 * b <= 2 * Rounded(b) + Unit
    BY RoundingKeeps
  <2> QED BY <1>1, <2>1, <2>2
<1>3. ASSUME NEW i \in S, NEW j \in S
      PROVE  /\ p[i] + z[i] <= p[j] => x[i].begin + x[i].long <= x[j].begin
             /\ p[i] + z[i] = p[j] => x[i].begin + x[i].long = x[j].begin
  <2>1. PICK a \in Int, b \in Int : a = p[i] + z[i] /\ b = p[j]
    BY <1>1
  <2>2. a <= b => Rounded(a) <= Rounded(b)
    BY RoundingKeeps
  <2> QED BY <1>1, <2>1, <2>2
<1> QED BY <1>1, <1>2, <1>3

\* Placing a line sets its children apart.
LEMMA PlaceSetsApart == ASSUME Agreeing, FlexInv, JustifyWhole, Place PROVE ChildrenApart'
<1>1. /\ at = "place" /\ items' = items /\ frame' = frame /\ lines' = lines /\ size' = size
      /\ cursor' = cursor + 1
  BY DEF Place
<1>2. PICK k \in Nat : k = cursor /\ k \in 1 .. Len(lines) /\ cursor' - 1 = k
  <2>1. lines \in Seq(Line) /\ cursor \in 1 .. Len(lines)
    BY <1>1 DEF FlexInv, LinesInv, RoundOK
  <2>2. PICK n \in Nat : n = Len(lines)
    BY <2>1
  <2>3. PICK k \in Nat : k = cursor /\ k \in 1 .. n
    BY <2>1, <2>2
  <2> QED BY <1>1, <2>2, <2>3
<1>3. PICK first, last : first = lines[k].start /\ last = first + lines[k].count - 1
  OBVIOUS
<1>4. /\ Members(k) = first .. last /\ first \in Nat /\ last \in Nat /\ first <= last
      /\ \A i \in first .. last : i \in DOMAIN items
  <2>1. Members(cursor) = first .. last /\ first \in Nat \ {0} /\ last \in Nat /\ first <= last /\ last <= Len(items)
    BY <1>1, <1>2, <1>3, LineIsPlaced
  <2>2. DOMAIN items = 1 .. Len(items) /\ Len(items) \in Nat
    BY DEF FlexInv, LinesInv, FlexTypeOK
  <2>3. PICK n \in Nat, f \in Nat \ {0}, l \in Nat : n = Len(items) /\ f = first /\ l = last /\ l <= n
    BY <2>1, <2>2
  <2>4. \A i \in f .. l : i \in 1 .. n
    BY <2>3
  <2> QED BY <1>2, <2>1, <2>2, <2>3, <2>4
<1>5. /\ \A i \in first .. last : /\ EdgeList[i] \in Int /\ size[i] \in Int /\ SideList[i] \in Int
                                  /\ SideList[i] = items[i].margin * Unit
      /\ \A i \in first .. last - 1 : BeginAt(i + 1) >= EndAt(i) + Gap
      /\ Occupied <= Space =>
           /\ BeginAt(first) >= 0 /\ EndAt(last) <= Space
           /\ frame.justify \in {"start", "between"} => BeginAt(first) = 0
           /\ frame.justify = "end" \/ (frame.justify = "between" /\ first < last) => EndAt(last) = Space
           /\ frame.justify \in {"center", "around", "evenly"} => BeginAt(first) = Space - EndAt(last)
  BY <1>1, <1>2, <1>3, LineIsPlaced
<1>6. Space \in Nat /\ Gap \in Nat /\ AtLeastZero(Space) = Space
  <2>1. Space \in Nat /\ Gap \in Nat
    BY <1>1, JustifyNumbers
  <2> QED BY <2>1 DEF AtLeastZero
<1>7. \A i \in first .. last :
        /\ pos'[i] = IF frame.rtl THEN Space - EdgeList[i] - size[i] ELSE EdgeList[i]
        /\ pos'[i] \in Int
        /\ pixels'[i] = Snapped(pos'[i], size[i])
        /\ (IF frame.rtl THEN Space - pos'[i] - size[i] ELSE pos'[i]) = EdgeList[i]
  <2> SUFFICES ASSUME NEW i \in first .. last
               PROVE  /\ pos'[i] = IF frame.rtl THEN Space - EdgeList[i] - size[i] ELSE EdgeList[i]
                      /\ pos'[i] \in Int
                      /\ pixels'[i] = Snapped(pos'[i], size[i])
                      /\ (IF frame.rtl THEN Space - pos'[i] - size[i] ELSE pos'[i]) = EdgeList[i]
    OBVIOUS
  <2>1. i \in Members(cursor) /\ i \in DOMAIN items
    BY <1>2, <1>4
  <2>2. /\ pos'[i] = IF frame.rtl THEN Space - EdgeList[i] - size[i] ELSE EdgeList[i]
        /\ pixels'[i] = Snapped(pos'[i], Limited(i, size[i]))
    BY <1>6, <2>1, PlaceIs
  <2>6. Limited(i, size[i]) = size[i]
    BY <1>1, <2>1 DEF FlexInv, RoundOK, Left
  <2>3. PICK e \in Int, z \in Int, s \in Int : e = EdgeList[i] /\ z = size[i] /\ s = Space
    BY <1>5, <1>6
  <2>4. pos'[i] = IF frame.rtl THEN s - e - z ELSE e
    BY <2>2, <2>3
  <2>5. s - (s - e - z) - z = e /\ s - e - z \in Int
    OBVIOUS
  <2> QED BY <2>2, <2>3, <2>4, <2>5, <2>6
<1> DEFINE p == pos'
           x == pixels'
           S == first .. last
<1>8. OnPixels(S, p, size, x)
  BY <1>5, <1>7 DEF OnPixels
<1>9. /\ \A i \in S :
           /\ 2 * x[i].begin <= 2 * p[i] + Unit /\ 2 * p[i] <= 2 * x[i].begin + Unit
           /\ 2 * (x[i].begin + x[i].long) <= 2 * (p[i] + size[i]) + Unit
           /\ 2 * (p[i] + size[i]) <= 2 * (x[i].begin + x[i].long) + Unit
           /\ x[i].begin % Unit = 0 /\ x[i].long % Unit = 0
           /\ x[i] = Snapped(x[i].begin, x[i].long)
      /\ \A i, j \in S :
           /\ p[i] + size[i] <= p[j] => x[i].begin + x[i].long <= x[j].begin
           /\ p[i] + size[i] = p[j] => x[i].begin + x[i].long = x[j].begin
  <2> HIDE DEF p, x, S
  <2> QED BY <1>8, PixelsFollow
<1> DEFINE from(i) == IF frame.rtl THEN Space - pos'[i] - size[i] ELSE pos'[i]
<1>10. \A i \in first .. last : /\ from(i) - items[i].margin * Unit = BeginAt(i)
                                /\ from(i) + size[i] + items[i].margin * Unit = EndAt(i)
  BY <1>5, <1>7 DEF BeginAt, EndAt
<1>11. first \in first .. last /\ last \in first .. last
       /\ \A i \in first .. last - 1 : i \in first .. last /\ i + 1 \in first .. last
  BY <1>4
<1>12. Space' = Space /\ Gap' = Gap /\ LineMain(SizeOf, k)' = Occupied
  <2>1. Space' = Space /\ Gap' = Gap
    BY <1>1, RoomKept
  <2>2. LineMain(SizeOf, k)' = LineMain(SizeOf, k)
    BY <1>1, <2>1 DEF LineMain, MapThenSumSet, MapThenFoldSet, SizeOf, Margins, Members
  <2>3. LineMain(SizeOf, k) = Occupied
    BY <1>2 DEF Occupied, LineMain, Members
  <2> QED BY <2>1, <2>2, <2>3
<1>13. /\ \A i \in first .. last - 1 :
            from(i + 1) - items[i + 1].margin * Unit >= from(i) + size[i] + items[i].margin * Unit + Gap
       /\ Occupied <= Space =>
            /\ from(first) - items[first].margin * Unit >= 0
            /\ from(last) + size[last] + items[last].margin * Unit <= Space
            /\ frame.justify \in {"start", "between"} => from(first) - items[first].margin * Unit = 0
            /\ frame.justify = "end" \/ (frame.justify = "between" /\ first < last) =>
                 from(last) + size[last] + items[last].margin * Unit = Space
            /\ frame.justify \in {"center", "around", "evenly"} =>
                 from(first) - items[first].margin * Unit =
                   Space - (from(last) + size[last] + items[last].margin * Unit)
  <2> HIDE DEF from
  <2> QED BY <1>5, <1>10, <1>11
<1>14. PlacedApart(k)'
  BY <1>1, <1>3, <1>9, <1>12, <1>13 DEF PlacedApart
<1>15. PlacedApart(cursor - 1)'
  BY <1>2, <1>14 DEF PlacedApart, LineMain, Members
<1> QED BY <1>15 DEF ChildrenApart, PlacedApart

(***************************************************************************)
(* flex_resolve_line_justify and flex_layout_line_children, for any        *)
(* children whose limits do not contradict each other and any room: those  *)
(* of a line keep their order and their gaps and are placed inside the     *)
(* container, at its ends or in its middle, and on the grid of pixels      *)
(* touch where they touched.  The shares of the free space are whole, as   *)
(* JustifyWhole says.                                                      *)
(***************************************************************************)
THEOREM ChildrenStayApart == Agreeing => (FlexSpec /\ []JustifyWhole => []ChildrenApart)
<1> SUFFICES ASSUME Agreeing PROVE FlexSpec /\ []JustifyWhole => []ChildrenApart
  OBVIOUS
<1>1. FlexInit => ChildrenApart
  BY DEF FlexInit, ChildrenApart
<1>2. FlexInv /\ JustifyWhole /\ ChildrenApart /\ [FlexNext]_flexVars => ChildrenApart'
  <2> SUFFICES ASSUME FlexInv, JustifyWhole, ChildrenApart, [FlexNext]_flexVars PROVE ChildrenApart'
    OBVIOUS
  <2>1. CASE SingleLine
    <3>1. Space \in Int
      BY RoomTypes DEF FlexInv, LinesInv
    <3>2. ~(frame.wrap /\ Space > 0) /\ at = "lines" /\ cursor' = cursor
      BY <2>1, <3>1 DEF SingleLine
    <3>3. cursor' = 1
      BY <3>2 DEF FlexInv
    <3> QED BY <3>3 DEF ChildrenApart
  <2>2. CASE TakeItem
    <3>1. at' = "lines"
      BY <2>2 DEF TakeItem, Breaking
    <3> QED BY <3>1 DEF ChildrenApart
  <2>3. CASE LastItem
    <3>1. cursor' = 1
      BY <2>3 DEF LastItem
    <3> QED BY <3>1 DEF ChildrenApart
  <2>4. CASE BeginLine \/ Assign \/ Freeze
    <3>1. at' \in {"assign", "freeze", "place"}
      BY <2>4 DEF BeginLine, Assign, Freeze
    <3> QED BY <3>1 DEF ChildrenApart
  <2>5. CASE Place
    BY <2>5, PlaceSetsApart
  <2>6. CASE UNCHANGED flexVars
    <3>1. /\ at' = at /\ items' = items /\ frame' = frame /\ lines' = lines /\ size' = size
          /\ cursor' = cursor /\ pos' = pos /\ pixels' = pixels
      BY <2>6 DEF flexVars
    <3>2. Space' = Space /\ Gap' = Gap
      BY <3>1, RoomKept
    <3>3. ASSUME NEW k PROVE LineMain(SizeOf, k)' = LineMain(SizeOf, k)
      BY <3>1, <3>2 DEF LineMain, MapThenSumSet, MapThenFoldSet, SizeOf, Margins, Members
    <3>4. PICK k : k = cursor - 1
      OBVIOUS
    <3>5. at \in {"line", "done"} /\ cursor > 1 => PlacedApart(k)
      BY <3>4 DEF ChildrenApart, PlacedApart
    <3>6. PlacedApart(k) => PlacedApart(k)'
      BY <3>1, <3>2, <3>3 DEF PlacedApart
    <3>7. PlacedApart(k)' => PlacedApart(cursor - 1)'
      BY <3>1, <3>4 DEF PlacedApart, LineMain, Members
    <3>8. (at \in {"line", "done"} /\ cursor > 1 => PlacedApart(cursor - 1))' => ChildrenApart'
      BY DEF ChildrenApart, PlacedApart
    <3>9. (at \in {"line", "done"} /\ cursor > 1)' => at \in {"line", "done"} /\ cursor > 1
      BY <3>1
    <3> QED BY <3>5, <3>6, <3>7, <3>8, <3>9
  <2> QED BY <2>1, <2>2, <2>3, <2>4, <2>5, <2>6 DEF FlexNext
<1> QED BY <1>1, <1>2, FlexInvInit, FlexInvStep, PTL DEF FlexSpec
=============================================================================
