--------------------------------- MODULE Paper ---------------------------------
(***************************************************************************)
(* What the terminal promises: an endless sheet on which text is written   *)
(* row by row, its last rows being the screen.  Each line of the log has   *)
(* its tag in the colour of its level and the rest in grey; a character    *)
(* stands in the ink and on the ground that were chosen when it was        *)
(* written.                                                                *)
(***************************************************************************)
EXTENDS Integers, Sequences

CONSTANTS width, height, Messages, Grounds, Levels, Tag, TagInk, Grey, Black, NoInk, Control, Scratch,
          KernelPanic, StackSmashing

VARIABLES sheet,         \* its rows: [0 .. width - 1 -> cell]
          row, column,   \* where the next character goes
          pen, ground,   \* the ink and the ground in use
          text,          \* what is still to be written: [ch, ink]
          cursor,        \* where on the screen the cursor shows
          halted

paperVars == <<sheet, row, column, pen, ground, text, cursor, halted>>

Cell(ch, ink, on) == [ch |-> ch, ink |-> IF ch = " " THEN NoInk ELSE ink, ground |-> on]
Blank == [i \in 0 .. width - 1 |-> Cell(" ", NoInk, ground)]
Top == Len(sheet) - height + 1          \* the first row on the screen
Inked(chars, ink) == [i \in DOMAIN chars |-> [ch |-> chars[i], ink |-> ink]]

\* A line begins in whatever ink was in use.
Line(level, message, ink) ==
  IF level \in DOMAIN Tag
  THEN Inked(<<"[">>, ink) \o Inked(Tag[level], TagInk[level])
         \o Inked(<<"]", " ">> \o message \o <<"\n">>, Grey)
  ELSE Inked(message \o <<"\n">>, ink)

\* The cursor may show anywhere, or nowhere, until something is written.
Init ==
  /\ sheet = [r \in 1 .. height |-> [i \in 0 .. width - 1 |-> Scratch]]
  /\ row = 1 /\ column = 0
  /\ pen = Grey /\ ground = Black
  /\ text = <<>> /\ cursor \in Nat /\ halted = FALSE

Say ==
  /\ text = <<>> /\ ~halted
  /\ \E message \in Messages :
       \/ text' = Inked(message, pen)
       \/ \E level \in Levels : text' = Line(level, message, pen)
  /\ UNCHANGED <<sheet, row, column, pen, ground, cursor, halted>>

Dip ==
  /\ text # <<>>
  /\ pen' = Head(text).ink
  /\ UNCHANGED <<sheet, row, column, ground, text, cursor, halted>>

\* After the last column, and at a line's end, writing goes on in a new row.
Write ==
  LET ch == Head(text).ch
      newRow == ch = "\n" \/ (ch \notin Control /\ column = width - 1)
      written == IF ch = "\n" \/ ch \in Control THEN sheet
                 ELSE [sheet EXCEPT ![row][column] = Cell(ch, pen, ground)]
  IN  /\ text # <<>> /\ pen = Head(text).ink
      /\ text' = Tail(text)
      /\ row' = IF newRow THEN row + 1 ELSE row
      /\ column' = IF newRow THEN 0 ELSE IF ch \in Control THEN column ELSE column + 1
      /\ sheet' = IF row' > Len(sheet) THEN Append(written, Blank) ELSE written
      /\ cursor' = (row' - (Len(sheet') - height + 1)) * width + column'
      /\ UNCHANGED <<pen, ground, halted>>

\* The screen is wiped; where writing goes on is not changed.
Clear ==
  /\ text = <<>> /\ ~halted
  /\ sheet' = [r \in DOMAIN sheet |-> IF r >= Top THEN Blank ELSE sheet[r]]
  /\ UNCHANGED <<row, column, pen, ground, text, cursor, halted>>

ChooseGround ==
  /\ text = <<>> /\ ~halted
  /\ ground' \in Grounds
  /\ UNCHANGED <<sheet, row, column, pen, text, cursor, halted>>

\* A panic breaks in on any text, writes its own and is the end.
Panic ==
  /\ ~halted /\ halted' = TRUE
  /\ text' = Line("error", KernelPanic, pen) \o Line("error", StackSmashing, Grey)
  /\ UNCHANGED <<sheet, row, column, pen, ground, cursor>>

Next == Say \/ Dip \/ Write \/ Clear \/ ChooseGround \/ Panic

Spec == Init /\ [][Next]_paperVars
=============================================================================
