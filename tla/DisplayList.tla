---------------------------- MODULE DisplayList -----------------------------
(***************************************************************************)
(* A display list and its builder (src/core/xent_display.c).  Drawing      *)
(* calls add commands to an array that doubles when it is full; the texts  *)
(* and fonts they name are copied into one pool of bytes, each followed by *)
(* a NUL, and a command keeps an offset and a length.  xent_dl_end hands   *)
(* both arrays over to the list, so that one set of variables stands for   *)
(* the builder and then for the list.                                      *)
(*                                                                         *)
(* Growing an array may fail whenever it has to grow.  What is drawn       *)
(* (colours, widths, coordinates) changes nothing here; calls refused for  *)
(* their arguments, and calls that fail before anything changed, stutter.  *)
(***************************************************************************)
EXTENDS Integers, Sequences, FiniteSets, Doubling

CONSTANTS
  Bytes,      \* what strings are made of
  Strings,    \* the texts and font names a caller has, <<>> included
  FirstCmds,  \* the first capacity of the array of commands
  FirstBytes, \* the first capacity of the pool
  CmdBound,   \* bound on the number of commands
  PoolBound   \* bound on the bytes of the pool

ASSUME DisplayAssumption ==
  /\ <<>> \in Strings
  /\ Strings \subseteq Seq(Bytes)
  /\ FirstCmds \in Nat \ {0}
  /\ FirstBytes \in Nat \ {0}
  /\ CmdBound \in Nat
  /\ PoolBound \in Nat

VARIABLES
  life,     \* "none", "builder" or "list"
  cmds,     \* the commands
  cap,      \* how many commands the array has room for
  pool,     \* the bytes of the strings
  poolCap,  \* how many bytes the pool has room for
  depth,    \* how many clips, transforms and opacities are pushed
  drawn     \* history: the calls since xent_dl_begin that were to leave a command

displayVars == <<life, cmds, cap, pool, poolCap, depth, drawn>>

Kinds == {"clip", "transform", "opacity"}

NUL == "NUL"
NoRange == [offset |-> 0, length |-> 0]
Command(op, text, font) == [op |-> op, text |-> text, font |-> font]
Plain(op) == Command(op, NoRange, NoRange)

\* No builder and no list: xent_dl_abort and xent_dl_free leave this too.
Gone ==
  /\ life' = "none"
  /\ cmds' = <<>>
  /\ cap' = 0
  /\ pool' = <<>>
  /\ poolCap' = 0
  /\ depth' = [k \in Kinds |-> 0]
  /\ drawn' = <<>>

DisplayInit ==
  /\ life = "none"
  /\ cmds = <<>>
  /\ cap = 0
  /\ pool = <<>>
  /\ poolCap = 0
  /\ depth = [k \in Kinds |-> 0]
  /\ drawn = <<>>

-----------------------------------------------------------------------------
Building == life = "builder"

\* display_reserve_cmds and display_push, when the array is large enough or grows.
Push(cmd) ==
  /\ Len(cmds) < CmdBound
  /\ cmds' = Append(cmds, cmd)
  /\ cap' = IF Len(cmds) < cap THEN cap ELSE IF cap = 0 THEN FirstCmds ELSE 2 * cap

\* ... and when it is full and cannot grow.
PushMayFail == Len(cmds) = cap

\* display_next_string_cap
NextStringCap(room, needed) ==
  DoubledFor(IF room = 0 THEN FirstBytes ELSE 2 * room, needed)

\* display_append_string on the bytes held so far, and display_grow_strings.
InternBare(held, s) == held \o s  \* faulty: no NUL after the string
Intern(held, s) == Append(held \o s, NUL)

GrowMayFail(held, room, s) == Len(Intern(held, s)) > room

RoomFor(held, room, s) ==
  IF GrowMayFail(held, room, s) THEN NextStringCap(room, Len(Intern(held, s))) ELSE room

\* Where s is going to be.
RangeAt(held, s) == [offset |-> Len(held), length |-> Len(s)]

-----------------------------------------------------------------------------
\* xent_dl_begin
Begin ==
  /\ life = "none"
  /\ life' = "builder"
  /\ UNCHANGED <<cmds, cap, pool, poolCap, depth, drawn>>

\* A command without texts.
Draw(op) ==
  /\ Building
  /\ Push(Plain(op))
  /\ drawn' = Append(drawn, [op |-> op, text |-> <<>>, font |-> <<>>])
  /\ UNCHANGED <<life, pool, poolCap, depth>>

\* xent_dl_fillrect, _strokerect, _fillrrect, _strokerrect of a rectangle with
\* an area; one without is no failure and leaves no command.
DrawRect == Draw(<<"draw", "rect">>)

\* xent_dl_drawimg
DrawImage == Draw(<<"draw", "image">>)

\* xent_dl_fillellipse to xent_dl_fillrect_grad, but for the clip.
DrawShape == Draw(<<"draw", "shape">>)

\* xent_dl_drawtext_style: the text and a font that has a name are interned
\* before the command is pushed.
DrawText(text, font) ==
  LET room1 == RoomFor(pool, poolCap, text)
      pool1 == Intern(pool, text)
      named == font # <<>>
      fontRange == IF named THEN RangeAt(pool1, font) ELSE NoRange
  IN /\ Building
     /\ Push(Command(<<"draw", "text">>, RangeAt(pool, text), fontRange))
     /\ pool' = IF named THEN Intern(pool1, font) ELSE pool1
     /\ Len(pool') <= PoolBound
     /\ poolCap' = IF named THEN RoomFor(pool1, room1, font) ELSE room1
     /\ drawn' = Append(drawn, [op |-> <<"draw", "text">>, text |-> text, font |-> font])
     /\ UNCHANGED <<life, depth>>

\* The font cannot be interned: the text stays in the pool.
DrawTextLosesFont(text, font) ==
  /\ Building
  /\ font # <<>>
  /\ GrowMayFail(Intern(pool, text), RoomFor(pool, poolCap, text), font)
  /\ pool' = Intern(pool, text)
  /\ Len(pool') <= PoolBound
  /\ poolCap' = RoomFor(pool, poolCap, text)
  /\ UNCHANGED <<life, cmds, cap, depth, drawn>>

\* The command cannot be pushed: the strings stay in the pool.
DrawTextLosesCommand(text, font) ==
  LET room1 == RoomFor(pool, poolCap, text)
      pool1 == Intern(pool, text)
      named == font # <<>>
  IN /\ Building
     /\ PushMayFail
     /\ pool' = IF named THEN Intern(pool1, font) ELSE pool1
     /\ Len(pool') <= PoolBound
     /\ poolCap' = IF named THEN RoomFor(pool1, room1, font) ELSE room1
     /\ UNCHANGED <<life, cmds, cap, depth, drawn>>

\* xent_dl_pushclip_rect, _rrect, _ellipse, xent_dl_pushtransform, _pushopacity
Enter(kind) ==
  /\ Building
  /\ Push(Plain(<<"push", kind>>))
  /\ depth' = [depth EXCEPT ![kind] = @ + 1]
  /\ drawn' = Append(drawn, [op |-> <<"push", kind>>, text |-> <<>>, font |-> <<>>])
  /\ UNCHANGED <<life, pool, poolCap>>

\* xent_dl_popclip, _poptransform, _popopacity
LeaveUncounted(kind) ==  \* faulty: the depth goes down although the command was lost
  /\ Building
  /\ depth[kind] > 0
  /\ \/ /\ Push(Plain(<<"pop", kind>>))
        /\ drawn' = Append(drawn, [op |-> <<"pop", kind>>, text |-> <<>>, font |-> <<>>])
     \/ /\ PushMayFail
        /\ UNCHANGED <<cmds, cap, drawn>>
  /\ depth' = [depth EXCEPT ![kind] = @ - 1]
  /\ UNCHANGED <<life, pool, poolCap>>

Leave(kind) ==
  /\ Building
  /\ depth[kind] > 0
  /\ Push(Plain(<<"pop", kind>>))
  /\ depth' = [depth EXCEPT ![kind] = @ - 1]
  /\ drawn' = Append(drawn, [op |-> <<"pop", kind>>, text |-> <<>>, font |-> <<>>])
  /\ UNCHANGED <<life, pool, poolCap>>

\* xent_dl_end, when nothing is left pushed and the list can be allocated ...
End ==
  /\ Building
  /\ \A k \in Kinds : depth[k] = 0
  /\ life' = "list"
  /\ UNCHANGED <<cmds, cap, pool, poolCap, depth, drawn>>

\* ... and otherwise; xent_dl_abort
Abort == Building /\ Gone

\* xent_dl_free
Free == life = "list" /\ Gone

DisplayNext ==
  \/ Begin
  \/ DrawRect
  \/ DrawImage
  \/ DrawShape
  \/ \E text, font \in Strings : DrawText(text, font)
  \/ \E text, font \in Strings : DrawTextLosesFont(text, font)
  \/ \E text, font \in Strings : DrawTextLosesCommand(text, font)
  \/ \E k \in Kinds : Enter(k)
  \/ \E k \in Kinds : Leave(k)
  \/ End
  \/ Abort
  \/ Free

DisplaySpec == DisplayInit /\ [][DisplayNext]_displayVars

-----------------------------------------------------------------------------
\* xent_dl_text: the string at a range, which must lie within the pool.
InPool(range) == range.offset <= Len(pool) /\ range.length <= Len(pool) - range.offset
TextAt(range) == SubSeq(pool, range.offset + 1, range.offset + range.length)

Reads(range, s) ==
  /\ InPool(range)
  /\ TextAt(range) = s
  /\ range.offset + range.length < Len(pool)
  /\ pool[range.offset + range.length + 1] = NUL

(***************************************************************************)
(* The commands are the calls that succeeded, in their order, and whatever *)
(* was interned and abandoned by calls that failed in between, the range   *)
(* of a text or of a named font reads the string its own call was given,   *)
(* with a NUL behind it ("the byte at offset+len is always '\0'", says the *)
(* code).  Neither array ever holds more than it has room for.             *)
(***************************************************************************)
TextsReadBack ==
  /\ Len(cmds) = Len(drawn)
  /\ \A i \in 1 .. Len(drawn) :
       /\ cmds[i].op = drawn[i].op
       /\ drawn[i].op = <<"draw", "text">> => Reads(cmds[i].text, drawn[i].text)
       /\ drawn[i].font # <<>> => Reads(cmds[i].font, drawn[i].font)
  /\ Len(cmds) <= cap
  /\ Len(pool) <= poolCap

(***************************************************************************)
(* However calls failed on the way, a renderer that plays a finished list  *)
(* never leaves a clip, a transform or an opacity it has not entered, and  *)
(* has left all of them at the end.                                        *)
(***************************************************************************)
Count(op, n) == Cardinality({i \in 1 .. n : cmds[i].op = op})

ListIsBalanced ==
  life = "list" =>
    \A k \in Kinds :
      /\ \A n \in 1 .. Len(cmds) : Count(<<"pop", k>>, n) <= Count(<<"push", k>>, n)
      /\ Count(<<"pop", k>>, Len(cmds)) = Count(<<"push", k>>, Len(cmds))
=============================================================================
