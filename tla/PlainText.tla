----------------------------- MODULE PlainText ------------------------------
(***************************************************************************)
(* What a user expects of the message body: one text with a cursor in it,  *)
(* in which line breaks are characters like any other.  TextArea's lines,  *)
(* row and column implement it: see TypesPlainText in Compose.          *)
(***************************************************************************)
EXTENDS Integers, Sequences, FiniteSetsExt, SequencesExt

CONSTANTS Char, NL

VARIABLES text, pos    \* pos characters are before the cursor

Place == 0..Len(text)

\* A line of the text is named by the place of its start.
LineStart(p) == Max({0} \cup {q \in 1..p : text[q] = NL})
LineEnd(p)   == Min({Len(text)} \cup {q - 1 : q \in {r \in p + 1..Len(text) : text[r] = NL}})
Column(p)    == p - LineStart(p)

Init == text = <<>> /\ pos = 0

Type(c) ==
    /\ text' = InsertAt(text, pos + 1, c)
    /\ pos' = pos + 1

Erase ==
    /\ pos > 0
    /\ text' = RemoveAt(text, pos)
    /\ pos' = pos - 1

Step == pos' \in {pos - 1, pos + 1} \cap Place /\ UNCHANGED text

\* To the line above or below, at the same column or at the line's end.
ChangeLine ==
    \E p \in Place :
        /\ \/ LineStart(p) = LineEnd(pos) + 1
           \/ LineEnd(p) = LineStart(pos) - 1
        /\ Column(p) = Min({Column(pos), LineEnd(p) - LineStart(p)})
        /\ pos' = p
        /\ UNCHANGED text

\* A window is closed and another one opened.
Clear == text' = <<>> /\ pos' = 0

Next == (\E c \in Char \cup {NL} : Type(c)) \/ Erase \/ Step \/ ChangeLine \/ Clear

Spec == Init /\ [][Next]_<<text, pos>>

=============================================================================
