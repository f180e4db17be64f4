-------------------------------- MODULE Terminal --------------------------------
(***************************************************************************)
(* The text terminal (Kernel/src/VGA.cpp) and the coloured log on it       *)
(* (Kernel/src/Lib/Log.cpp): one step per call of putChar and of           *)
(* setTextColor, so that a panic, which any function's stack check can     *)
(* raise, breaks in between them.                                          *)
(*                                                                         *)
(* Formats are taken as what printf makes of them (see Printf).  Tags are  *)
(* shorter than in the code, and a panic's own printing is not panicked in *)
(* again.  `scrolled' is a history variable: the rows that have left the   *)
(* screen at its top.                                                      *)
(***************************************************************************)
EXTENDS Integers, Sequences

CONSTANTS
  width, height,
  Byte,               \* 256: values of a byte port
  Levels,             \* of log: the first three have a prefix
  Messages, Grounds,
  KernelPanic, StackSmashing,
  Control,            \* characters below ' ': other than '\n' they do nothing
  MaxCalls            \* bound: calls into the terminal

ASSUME ScreenAssumption ==
  /\ width \in Nat \ {0} /\ height \in Nat \ {0} /\ Byte \in Nat \ {0} /\ MaxCalls \in Nat
  /\ width * height <= Byte * Byte

Newline == "\n"
ASSUME CharacterAssumption ==
  /\ {" ", Newline} \cap Control = {}
  /\ \A message \in Messages \cup {KernelPanic, StackSmashing} :
       message \in Seq(STRING) /\ \A i \in DOMAIN message : message[i] # ""

Tag == [log |-> <<"L">>, warning |-> <<"W", " ">>, error |-> <<"E">>]
TagInk == [log |-> "green", warning |-> "light red", error |-> "red"]
Grey == "light grey"
NoInk == "none"
Black == "black"

VARIABLES
  memory,                            \* the screen: cell number -> vgaEntry
  x, y,
  textColor, backgroundColor, color, \* color is what vgaColor made of the other two
  cursorLow, cursorHigh,             \* registers 0x0F and 0x0E of the controller
  todo,                              \* the putChar and setTextColor calls still to come
  halted,                            \* panic was called
  scrolled,
  calls                              \* how many calls there have been

screen == <<memory, x, y, cursorLow, cursorHigh, scrolled>>
vars == <<screen, textColor, backgroundColor, color, todo, halted, calls>>

Cells == 0 .. width * height - 1
vgaColor(ink, ground) == [ink |-> ink, ground |-> ground]
vgaEntry(ch, c) == [ch |-> ch, ink |-> c.ink, ground |-> c.ground]
Scratch == vgaEntry("old", vgaColor("any", "any"))      \* what the screen showed before

\* The constructor writes neither the screen nor the cursor's registers.
Init ==
  /\ memory = [i \in Cells |-> Scratch]
  /\ x = 0 /\ y = 0
  /\ textColor = Grey /\ backgroundColor = Black
  /\ color = vgaColor(textColor, backgroundColor)
  /\ cursorLow \in 0 .. Byte - 1 /\ cursorHigh \in 0 .. Byte - 1
  /\ todo = <<>> /\ halted = FALSE /\ scrolled = <<>> /\ calls = 0

\* What a cell shows: a blank has no ink.
Seen(cell) == [cell EXCEPT !.ink = IF cell.ch = " " THEN NoInk ELSE @]
SeenRow(m, r) == [i \in 0 .. width - 1 |-> Seen(m[r * width + i])]

-----------------------------------------------------------------------------
\* The rows scroll moves, one less and as it is.
MovedButLast == {i \in Cells : i \div width < height - 2}

Moved == {i \in Cells : i \div width < height - 1}

Scroll(m) == [i \in Cells |-> IF i \in Moved THEN m[i + width] ELSE
                              IF i \div width = height - 1 THEN vgaEntry(" ", color) ELSE m[i]]

\* updateCursor.
UpdateCursor(pos) ==
  /\ cursorLow' = pos % Byte
  /\ cursorHigh' = (pos \div Byte) % Byte

\* Whether the line is full: one column too late, and as it is.
FullLate(column) == column > width

Full(column) == column >= width

PutChar(ch) ==
  LET printed == ch # Newline /\ ch \notin Control
      column == IF ch = Newline THEN 0 ELSE IF printed THEN x + 1 ELSE x
      wraps == Full(column)
      line == y + (IF ch = Newline THEN 1 ELSE 0) + (IF wraps THEN 1 ELSE 0)
      m == IF printed THEN [memory EXCEPT ![y * width + x] = vgaEntry(ch, color)] ELSE memory
  IN  /\ x' = IF wraps \/ line >= height THEN 0 ELSE column
      /\ y' = IF line >= height THEN line - 1 ELSE line
      /\ memory' = IF line >= height THEN Scroll(m) ELSE m
      /\ scrolled' = IF line >= height THEN Append(scrolled, SeenRow(m, 0)) ELSE scrolled
      /\ UpdateCursor(y' * width + x')

-----------------------------------------------------------------------------
\* The calls that log makes.
Put(ch) == [ch |-> ch, ink |-> NoInk]
SetTextColor(ink) == [ch |-> "", ink |-> ink]
PutAll(chars) == [i \in DOMAIN chars |-> Put(chars[i])]

Prefix(level) ==
  <<Put("["), SetTextColor(TagInk[level])>> \o PutAll(Tag[level])
    \o <<SetTextColor(Grey), Put("]"), Put(" ")>>

LogLine(level, message) ==
  (IF level \in DOMAIN Tag THEN Prefix(level) ELSE <<>>) \o PutAll(message) \o <<Put(Newline)>>

\* A call into the terminal from the kernel.
Call == todo = <<>> /\ ~halted /\ calls < MaxCalls /\ calls' = calls + 1
Prints(steps) == todo' = steps /\ UNCHANGED <<screen, textColor, backgroundColor, color>>

Log(level, message) == Call /\ Prints(LogLine(level, message)) /\ UNCHANGED halted

\* __log prints without a prefix and without a newline.
Message(message) == Call /\ Prints(PutAll(message)) /\ UNCHANGED halted

\* __stack_chk_fail calls panic; what was being printed never goes on.
Panic ==
  /\ ~halted /\ halted' = TRUE
  /\ Prints(LogLine("error", KernelPanic) \o LogLine("error", StackSmashing))
  /\ UNCHANGED calls

PrintStep ==
  /\ todo # <<>>
  /\ todo' = Tail(todo)
  /\ IF Head(todo).ch # ""
     THEN PutChar(Head(todo).ch) /\ UNCHANGED <<textColor, color>>
     ELSE /\ textColor' = Head(todo).ink
          /\ color' = vgaColor(textColor', backgroundColor)
          /\ UNCHANGED screen
  /\ UNCHANGED <<backgroundColor, halted, calls>>

Clear ==
  /\ Call
  /\ memory' = [i \in Cells |-> vgaEntry(" ", color)]
  /\ UNCHANGED <<x, y, cursorLow, cursorHigh, scrolled, textColor, backgroundColor, color, todo, halted>>

SetBackgroundColor(c) ==
  /\ Call
  /\ backgroundColor' = c
  /\ color' = vgaColor(textColor, c)
  /\ UNCHANGED <<screen, textColor, todo, halted>>

Next ==
  \/ \E message \in Messages :
       \/ \E level \in Levels : Log(level, message)
       \/ Message(message)
  \/ Panic
  \/ PrintStep
  \/ Clear
  \/ \E c \in Grounds : SetBackgroundColor(c)

Spec == Init /\ [][Next]_vars

-----------------------------------------------------------------------------
\* No putChar leaves the cursor outside the screen, where the next one would
\* write behind the screen's memory.
TypeOK ==
  /\ x \in 0 .. width - 1 /\ y \in 0 .. height - 1
  /\ DOMAIN memory = Cells
  /\ cursorLow \in 0 .. Byte - 1 /\ cursorHigh \in 0 .. Byte - 1
  /\ color = vgaColor(textColor, backgroundColor) /\ halted \in BOOLEAN

\* The ink in use behind the first k of some calls, with `ink' before them, and
\* what they write: the characters, each in the ink that setTextColor chose last.
InkAfter(steps, ink) ==
  LET after[k \in 0 .. Len(steps)] ==
        IF k = 0 THEN ink ELSE IF steps[k].ch = "" THEN steps[k].ink ELSE after[k - 1]
  IN  after

Written(steps, ink) ==
  LET written[k \in 0 .. Len(steps)] ==
        IF k = 0 THEN <<>>
        ELSE IF steps[k].ch = "" THEN written[k - 1]
        ELSE Append(written[k - 1], [ch |-> steps[k].ch, ink |-> InkAfter(steps, ink)[k]])
  IN  written

\* The screen below the rows that have scrolled off, where the next character
\* goes on that sheet, the text still to come, and what the registers make of the
\* cursor.  With the colours in use they implement Paper.
Rows == scrolled \o [r \in 1 .. height |-> SeenRow(memory, r - 1)]
Row == Len(scrolled) + y + 1
Text == Written(todo, textColor)[Len(todo)]
Cursor == cursorHigh * Byte + cursorLow

Sheet ==
  INSTANCE Paper
    WITH sheet <- Rows, row <- Row, column <- x, pen <- textColor,
         ground <- backgroundColor, text <- Text, cursor <- Cursor
ImplementsPaper == Sheet!Spec
=============================================================================
