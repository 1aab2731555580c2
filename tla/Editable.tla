------------------------------ MODULE Editable ------------------------------
(***************************************************************************)
(* The editing widgets of mail-tui (editable.rs) as operators on records:  *)
(* TextInput, a text with a cursor, and TextArea, lines with a row and a   *)
(* column.  A text is a sequence of characters and the cursor the number   *)
(* of characters before it; the byte offsets the code converts it to       *)
(* (byte_index) name the same place.  Rows count from 1.                   *)
(***************************************************************************)
EXTENDS Integers, Sequences, SequencesExt

CONSTANT NL    \* the line break, which is in no line

----------------------------------------------------------------------------
(* TextInput *)

EmptyInput == [value |-> <<>>, cursor |-> 0]
WithValue(v) == [value |-> v, cursor |-> Len(v)]

InputInsert(f, c) ==
    [value |-> InsertAt(f.value, f.cursor + 1, c), cursor |-> f.cursor + 1]

InputBackspace(f) ==
    IF f.cursor = 0 THEN f
    ELSE [value |-> RemoveAt(f.value, f.cursor), cursor |-> f.cursor - 1]

InputLeft(f)  == [f EXCEPT !.cursor = Max({0, @ - 1})]
\* Plausible bug: the cursor goes past the end.
InputRightPastEnd(f) == [f EXCEPT !.cursor = @ + 1]
InputRight(f) == [f EXCEPT !.cursor = Min({Len(f.value), @ + 1})]

InputOK(f, Char) == f.value \in Seq(Char) /\ f.cursor \in 0..Len(f.value)

----------------------------------------------------------------------------
(* TextArea *)

EmptyArea == [lines |-> << <<>> >>, row |-> 1, col |-> 0]

Line(a)   == a.lines[a.row]
At(a, row, col) == [lines |-> a.lines, row |-> row, col |-> col]

AreaInsert(a, c) ==
    [lines |-> [a.lines EXCEPT ![a.row] = InsertAt(@, a.col + 1, c)],
     row   |-> a.row,
     col   |-> a.col + 1]

AreaNewline(a) ==
    [lines |-> InsertAt([a.lines EXCEPT ![a.row] = SubSeq(@, 1, a.col)],
                        a.row + 1, SubSeq(Line(a), a.col + 1, Len(Line(a)))),
     row   |-> a.row + 1,
     col   |-> 0]

\* A Backspace at the start of a line, which joins it to the line above.
Joins(a) == a.col = 0 /\ a.row > 1

\* Plausible bug: the cursor stays at the start of the line.
AreaBackspaceToStart(a) ==
    CASE a.col > 0 ->
            [lines |-> [a.lines EXCEPT ![a.row] = RemoveAt(@, a.col)],
             row   |-> a.row,
             col   |-> a.col - 1]
      [] Joins(a) ->
            [lines |-> RemoveAt([a.lines EXCEPT ![a.row - 1] = @ \o Line(a)], a.row),
             row   |-> a.row - 1,
             col   |-> 0]
      [] OTHER -> a

AreaBackspace(a) ==
    CASE a.col > 0 ->
            [lines |-> [a.lines EXCEPT ![a.row] = RemoveAt(@, a.col)],
             row   |-> a.row,
             col   |-> a.col - 1]
      [] Joins(a) ->
            [lines |-> RemoveAt([a.lines EXCEPT ![a.row - 1] = @ \o Line(a)], a.row),
             row   |-> a.row - 1,
             col   |-> Len(a.lines[a.row - 1])]
      [] OTHER -> a

AreaLeft(a) ==
    CASE a.col > 0 -> [a EXCEPT !.col = @ - 1]
      [] Joins(a)  -> At(a, a.row - 1, Len(a.lines[a.row - 1]))
      [] OTHER     -> a

AreaRight(a) ==
    CASE a.col < Len(Line(a))    -> [a EXCEPT !.col = @ + 1]
      [] a.col = Len(Line(a)) /\ a.row < Len(a.lines) -> At(a, a.row + 1, 0)
      [] OTHER                   -> a

\* Plausible bug: The column is kept on a shorter line, too.
ToRowSameColumn(a, row) == At(a, row, a.col)

\* Up and down keep the column, or the end of a shorter line.
ToRow(a, row) == At(a, row, Min({a.col, Len(a.lines[row])}))
AreaUp(a)     == IF a.row > 1 THEN ToRow(a, a.row - 1) ELSE a
AreaDown(a)   == IF a.row < Len(a.lines) THEN ToRow(a, a.row + 1) ELSE a

\* text(): the lines joined by line breaks, and the cursor's place in it.
JoinLines(lines) ==
    FoldLeft(LAMBDA t, l : t \o <<NL>> \o l, Head(lines), Tail(lines))
AreaText(a) == JoinLines(a.lines)
AreaPos(a)  == Len(JoinLines(Append(SubSeq(a.lines, 1, a.row - 1), SubSeq(Line(a), 1, a.col))))

AreaOK(a, Char) ==
    /\ a.lines \in Seq(Seq(Char))
    /\ a.row \in 1..Len(a.lines)
    /\ a.col \in 0..Len(Line(a))

=============================================================================
