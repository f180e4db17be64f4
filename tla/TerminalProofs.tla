----------------------------- MODULE TerminalProofs -----------------------------
(***************************************************************************)
(* Proofs that the cursor of the terminal never leaves the screen, and     *)
(* that what is printed on it, whatever its size and whenever a panic      *)
(* breaks in, is what Paper says: a sheet that is written row by row.      *)
(***************************************************************************)
EXTENDS Terminal, Arithmetic, SequenceTheorems, TLAPS

CursorOnScreen == x \in 0 .. width - 1 /\ y \in 0 .. height - 1
Registers == cursorLow \in 0 .. Byte - 1 /\ cursorHigh \in 0 .. Byte - 1
ColorIsCurrent == color = vgaColor(textColor, backgroundColor)

LEMMA TypeParts ==
  TypeOK <=> /\ CursorOnScreen /\ DOMAIN memory = Cells /\ Registers
             /\ ColorIsCurrent /\ halted \in BOOLEAN
BY DEF TypeOK, CursorOnScreen, Registers, ColorIsCurrent

-----------------------------------------------------------------------------
LEMMA NatTimes == ASSUME NEW a \in Nat, NEW b \in Nat PROVE a * b \in Nat
OBVIOUS

\* updateCursor writes two bytes, wherever the cursor is.
LEMMA CursorRegisters ==
  ASSUME NEW pos \in Nat, UpdateCursor(pos)
  PROVE  Registers'
<1>1. Byte \in Nat /\ Byte > 0
  BY ScreenAssumption
<1>2. \A n \in Nat : n % Byte \in 0 .. Byte - 1
  BY <1>1
<1>3. pos \div Byte \in Nat
  BY <1>1
<1> QED BY <1>2, <1>3 DEF UpdateCursor, Registers

\* One character moves the cursor by one column or to the start of the next
\* row; if that row is below the screen, scroll takes it back.
LEMMA PutCharKeepsScreen ==
  ASSUME CursorOnScreen, DOMAIN memory = Cells, NEW ch, PutChar(ch)
  PROVE  CursorOnScreen' /\ (DOMAIN memory = Cells)' /\ Registers'
<1> DEFINE printed == ch # Newline /\ ch \notin Control
           column == IF ch = Newline THEN 0 ELSE IF printed THEN x + 1 ELSE x
           wraps == Full(column)
           line == y + (IF ch = Newline THEN 1 ELSE 0) + (IF wraps THEN 1 ELSE 0)
           m == IF printed THEN [memory EXCEPT ![y * width + x] = vgaEntry(ch, color)] ELSE memory
<1>1. width \in Nat /\ width > 0 /\ height \in Nat /\ height > 0
  BY ScreenAssumption
<1>2. /\ x' = IF wraps \/ line >= height THEN 0 ELSE column
      /\ y' = IF line >= height THEN line - 1 ELSE line
      /\ memory' = IF line >= height THEN Scroll(m) ELSE m
      /\ UpdateCursor(y' * width + x')
  BY DEF PutChar
<1>3. column \in 0 .. width /\ (wraps <=> column >= width)
  BY <1>1 DEF CursorOnScreen, Full
<1>4. line \in {y, y + 1}
  BY <1>1, <1>3 DEF CursorOnScreen
<1>5. CursorOnScreen'
  <2> HIDE DEF column, wraps, line
  <2> QED BY <1>1, <1>2, <1>3, <1>4 DEF CursorOnScreen
<1>6. DOMAIN memory' = Cells
  <2>1. DOMAIN m = Cells /\ DOMAIN Scroll(m) = Cells
    BY DEF Scroll
  <2> HIDE DEF m, line
  <2> QED BY <1>2, <2>1
<1>7. y' * width + x' \in Nat
  <2>1. y' \in Nat /\ x' \in Nat
    BY <1>1, <1>5 DEF CursorOnScreen
  <2>2. y' * width \in Nat
    BY <1>1, <2>1, NatTimes
  <2> HIDE DEF column, wraps, line, m
  <2> QED BY <2>1, <2>2
<1> QED BY <1>2, <1>5, <1>6, <1>7, CursorRegisters

\* The steps of the terminal.
LEMMA InitType == Init => TypeOK
<1> SUFFICES ASSUME Init PROVE TypeOK
  OBVIOUS
<1>1. width \in Nat \ {0} /\ height \in Nat \ {0} /\ Byte \in Nat \ {0}
  BY ScreenAssumption
<1> QED BY <1>1 DEF Init, TypeOK, Cells

LEMMA NextType == TypeOK /\ [Next]_vars => TypeOK'
<1> SUFFICES ASSUME TypeOK, [Next]_vars PROVE TypeOK'
  OBVIOUS
<1>0. CursorOnScreen /\ DOMAIN memory = Cells /\ Registers /\ ColorIsCurrent /\ halted \in BOOLEAN
  BY TypeParts
<1>1. ASSUME NEW message \in Messages, NEW level \in Levels, Log(level, message) PROVE TypeOK'
  BY <1>1 DEF Log, Prints, screen, TypeOK
<1>2. ASSUME NEW message \in Messages, Message(message) PROVE TypeOK'
  BY <1>2 DEF Message, Prints, screen, TypeOK
<1>3. CASE Panic
  BY <1>3 DEF Panic, Prints, screen, TypeOK
<1>4. CASE PrintStep
  <2>1. CASE Head(todo).ch # ""
    <3>1. PutChar(Head(todo).ch) /\ UNCHANGED <<textColor, color, backgroundColor, halted>>
      BY <1>4, <2>1 DEF PrintStep
    <3>2. CursorOnScreen' /\ (DOMAIN memory = Cells)' /\ Registers'
      BY <1>0, <3>1, PutCharKeepsScreen
    <3> QED BY <1>0, <3>1, <3>2 DEF TypeOK, CursorOnScreen, Registers, ColorIsCurrent
  <2>2. CASE ~(Head(todo).ch # "")
    <3>1. color' = vgaColor(textColor', backgroundColor') /\ UNCHANGED <<screen, halted>>
      BY <1>4, <2>2 DEF PrintStep
    <3> QED BY <3>1 DEF screen, TypeOK
  <2> QED BY <2>1, <2>2
<1>5. CASE Clear
  BY <1>5 DEF Clear, TypeOK
<1>6. ASSUME NEW c \in Grounds, SetBackgroundColor(c) PROVE TypeOK'
  BY <1>6 DEF SetBackgroundColor, screen, TypeOK
<1>7. CASE UNCHANGED vars
  BY <1>7 DEF vars, screen, TypeOK
<1> QED BY <1>1, <1>2, <1>3, <1>4, <1>5, <1>6, <1>7 DEF Next

\* On a screen of any size, whatever is printed and whenever a panic breaks in,
\* the next character is written inside the screen's memory, the cursor's
\* registers get bytes, and `color' is made of the colours in use.
THEOREM CursorStaysOnScreen == Spec => []TypeOK
BY InitType, NextType, PTL DEF Spec

-----------------------------------------------------------------------------
\* Calls into the terminal, and characters with their inks.  (The provers do not
\* know of a literal that it is a string.)
Strings == STRING \cup {"", "[", "]", " ", Newline, "L", "W", "E", NoInk, Grey, "green", "light red", "red"}
Calls == [ch : Strings, ink : Strings]

\* The recursion of InkAfter has a solution, so that InkAfter is one.
LEMMA InkEquation ==
  ASSUME NEW s \in Seq(Calls), NEW ink \in Strings
  PROVE  /\ InkAfter(s, ink)[0] = ink
         /\ \A k \in 1 .. Len(s) :
              InkAfter(s, ink)[k] = IF s[k].ch = "" THEN s[k].ink ELSE InkAfter(s, ink)[k - 1]
         /\ \A k \in 0 .. Len(s) : InkAfter(s, ink)[k] \in Strings
<1>0. PICK n \in Nat : n = Len(s)
  OBVIOUS
<1>1. \A k \in 1 .. n : s[k].ink \in Strings
  <2>1. \A k \in 1 .. n : s[k] \in Calls
    BY <1>0
  <2> QED BY <2>1 DEF Calls
<1> DEFINE Step(f, k) == IF k = 0 THEN ink ELSE IF s[k].ch = "" THEN s[k].ink ELSE f[k - 1]
           G == [k \in 1 .. n |-> [c \in Strings |-> IF s[k].ch = "" THEN s[k].ink ELSE c]]
<1>2. \A k \in 1 .. n : \A c \in Strings : G[k][c] = IF s[k].ch = "" THEN s[k].ink ELSE c
  OBVIOUS
<1>3. PICK f \in [0 .. n -> Strings] : f[0] = ink /\ \A k \in 1 .. n : f[k] = G[k][f[k - 1]]
  <2>1. G \in Steps(n, Strings)
    BY <1>1 DEF Steps
  <2> HIDE DEF G
  <2>2. PICK f : Follows(f, n, Strings, ink, G)
    BY <2>1, RecursionUpTo
  <2> QED BY <2>2 DEF Follows
<1>4. f = [k \in 0 .. n |-> Step(f, k)]
  <2>1. ASSUME NEW k \in 0 .. n PROVE f[k] = Step(f, k)
    <3>1. CASE k = 0
      BY <1>3, <3>1
    <3>2. CASE k # 0
      <4>1. k \in 1 .. n /\ k - 1 \in 0 .. n
        BY <3>2
      <4>2. f[k - 1] \in Strings
        BY <4>1
      <4>3. f[k] = G[k][f[k - 1]]
        BY <1>3, <4>1
      <4> HIDE DEF G
      <4> QED BY <1>2, <3>2, <4>1, <4>2, <4>3
    <3> QED BY <3>1, <3>2
  <2>2. f = [k \in 0 .. n |-> f[k]]
    OBVIOUS
  <2> HIDE DEF Step
  <2> QED BY <2>1, <2>2
<1>5. PICK w : w = InkAfter(s, ink) /\ w = [k \in 0 .. n |-> Step(w, k)]
  <2>1. InkAfter(s, ink) = [k \in 0 .. n |-> Step(InkAfter(s, ink), k)]
    BY <1>0, <1>4 DEF InkAfter
  <2> HIDE DEF Step
  <2> QED BY <2>1
<1>6. \A k \in 0 .. n : w[k] = Step(w, k)
  <2> HIDE DEF Step
  <2> QED BY <1>5, Zenon
<1>7. w[0] = ink /\ \A k \in 1 .. n : w[k] = IF s[k].ch = "" THEN s[k].ink ELSE w[k - 1]
  <2>1. 0 \in 0 .. n /\ \A k \in 1 .. n : k \in 0 .. n /\ k # 0
    OBVIOUS
  <2>2. w[0] = Step(w, 0) /\ \A k \in 1 .. n : w[k] = Step(w, k)
    <3> HIDE DEF Step
    <3> QED BY <1>6, <2>1
  <2> QED BY <2>1, <2>2
<1> DEFINE T == {k \in Nat : k <= n => w[k] \in Strings}
<1>8. 0 \in T
  BY <1>7
<1>9. ASSUME NEW k \in T PROVE k + 1 \in T
  <2>1. CASE k + 1 <= n
    <3>1. k + 1 \in 1 .. n /\ (k + 1) - 1 = k /\ k <= n
      BY <2>1
    <3>2. w[k + 1] = IF s[k + 1].ch = "" THEN s[k + 1].ink ELSE w[k]
      BY <1>7, <3>1
    <3>3. s[k + 1].ink \in Strings /\ w[k] \in Strings
      BY <1>1, <3>1
    <3>4. w[k + 1] \in Strings
      BY <3>2, <3>3
    <3> QED BY <3>4
  <2> QED BY <2>1
<1>10. T = Nat
  <2>1. T \in SUBSET Nat
    OBVIOUS
  <2> HIDE DEF T
  <2> QED BY <1>8, <1>9, <2>1, InductionOverNat
<1>11. \A k \in 0 .. n : w[k] \in Strings
  BY <1>10
<1> QED BY <1>0, <1>5, <1>7, <1>11

\* The same for Written.
LEMMA WrittenEquation ==
  ASSUME NEW s \in Seq(Calls), NEW ink \in Strings
  PROVE  /\ Written(s, ink)[0] = <<>>
         /\ \A k \in 1 .. Len(s) :
              Written(s, ink)[k] =
                IF s[k].ch = "" THEN Written(s, ink)[k - 1]
                ELSE Append(Written(s, ink)[k - 1], [ch |-> s[k].ch, ink |-> InkAfter(s, ink)[k]])
         /\ \A k \in 0 .. Len(s) : Written(s, ink)[k] \in Seq(Calls)
<1>0. PICK n \in Nat : n = Len(s)
  OBVIOUS
<1> DEFINE Char(k) == [ch |-> s[k].ch, ink |-> InkAfter(s, ink)[k]]
           Step(f, k) == IF k = 0 THEN <<>> ELSE IF s[k].ch = "" THEN f[k - 1] ELSE Append(f[k - 1], Char(k))
           G == [k \in 1 .. n |-> [c \in Seq(Calls) |-> IF s[k].ch = "" THEN c ELSE Append(c, Char(k))]]
<1>1. \A k \in 1 .. n : Char(k) \in Calls
  <2>1. \A k \in 1 .. n : s[k] \in Calls
    BY <1>0
  <2>2. \A k \in 0 .. n : InkAfter(s, ink)[k] \in Strings
    BY <1>0, InkEquation
  <2>3. \A k \in 1 .. n : k \in 0 .. n
    OBVIOUS
  <2> QED BY <2>1, <2>2, <2>3 DEF Calls
<1> HIDE DEF Char
<1>2. \A k \in 1 .. n : \A c \in Seq(Calls) : G[k][c] = IF s[k].ch = "" THEN c ELSE Append(c, Char(k))
  OBVIOUS
<1>3. PICK f \in [0 .. n -> Seq(Calls)] : f[0] = <<>> /\ \A k \in 1 .. n : f[k] = G[k][f[k - 1]]
  <2>1. G \in Steps(n, Seq(Calls))
    <3>1. ASSUME NEW k \in 1 .. n, NEW c \in Seq(Calls)
          PROVE  (IF s[k].ch = "" THEN c ELSE Append(c, Char(k))) \in Seq(Calls)
      <4>1. Char(k) \in Calls
        BY <1>1
      <4>2. Append(c, Char(k)) \in Seq(Calls)
        BY <4>1, AppendProperties
      <4> QED BY <4>2
    <3> QED BY <3>1 DEF Steps
  <2>2. <<>> \in Seq(Calls)
    OBVIOUS
  <2> HIDE DEF G
  <2>3. PICK f : Follows(f, n, Seq(Calls), <<>>, G)
    BY <2>1, <2>2, RecursionUpTo
  <2> QED BY <2>3 DEF Follows
<1>4. f = [k \in 0 .. n |-> Step(f, k)]
  <2>1. ASSUME NEW k \in 0 .. n PROVE f[k] = Step(f, k)
    <3>1. CASE k = 0
      BY <1>3, <3>1
    <3>2. CASE k # 0
      <4>1. k \in 1 .. n /\ k - 1 \in 0 .. n
        BY <3>2
      <4>2. f[k - 1] \in Seq(Calls)
        BY <4>1
      <4>3. f[k] = G[k][f[k - 1]]
        BY <1>3, <4>1
      <4> HIDE DEF G
      <4> QED BY <1>2, <3>2, <4>1, <4>2, <4>3
    <3> QED BY <3>1, <3>2
  <2>2. f = [k \in 0 .. n |-> f[k]]
    OBVIOUS
  <2> HIDE DEF Step
  <2> QED BY <2>1, <2>2
<1>5. PICK w : w = Written(s, ink) /\ w = [k \in 0 .. n |-> Step(w, k)]
  <2>1. Written(s, ink) = [k \in 0 .. n |-> Step(Written(s, ink), k)]
    BY <1>0, <1>4 DEF Written, Char
  <2> HIDE DEF Step
  <2> QED BY <2>1
<1>6. \A k \in 0 .. n : w[k] = Step(w, k)
  <2> HIDE DEF Step
  <2> QED BY <1>5, Zenon
<1>7. w[0] = <<>> /\ \A k \in 1 .. n : w[k] = IF s[k].ch = "" THEN w[k - 1] ELSE Append(w[k - 1], Char(k))
  <2>1. 0 \in 0 .. n /\ \A k \in 1 .. n : k \in 0 .. n /\ k # 0
    OBVIOUS
  <2>2. w[0] = Step(w, 0) /\ \A k \in 1 .. n : w[k] = Step(w, k)
    <3> HIDE DEF Step
    <3> QED BY <1>6, <2>1
  <2> QED BY <2>1, <2>2
<1> DEFINE T == {k \in Nat : k <= n => w[k] \in Seq(Calls)}
<1>8. 0 \in T
  <2>1. <<>> \in Seq(Calls)
    OBVIOUS
  <2> QED BY <1>7, <2>1
<1>9. ASSUME NEW k \in T PROVE k + 1 \in T
  <2>1. CASE k + 1 <= n
    <3>1. k + 1 \in 1 .. n /\ (k + 1) - 1 = k /\ k <= n
      BY <2>1
    <3>2. w[k + 1] = IF s[k + 1].ch = "" THEN w[k] ELSE Append(w[k], Char(k + 1))
      BY <1>7, <3>1
    <3>3. w[k] \in Seq(Calls) /\ Char(k + 1) \in Calls
      BY <1>1, <3>1
    <3>4. Append(w[k], Char(k + 1)) \in Seq(Calls)
      BY <3>3, AppendProperties
    <3>5. w[k + 1] \in Seq(Calls)
      BY <3>2, <3>3, <3>4
    <3> QED BY <3>5
  <2> QED BY <2>1
<1>10. T = Nat
  <2>1. T \in SUBSET Nat
    OBVIOUS
  <2> HIDE DEF T
  <2> QED BY <1>8, <1>9, <2>1, InductionOverNat
<1>11. \A k \in 0 .. n : w[k] \in Seq(Calls)
  <2>1. \A k \in 0 .. n : k \in T /\ k <= n
    <3> HIDE DEF T
    <3> QED BY <1>10
  <2> QED BY <2>1
<1> QED BY <1>0, <1>5, <1>7, <1>11 DEF Char

\* What is true of the empty sequence, and of a longer one when it is of all but
\* its last element, is true of every sequence.
LEMMA SequenceInduction ==
  ASSUME NEW S, NEW T \in SUBSET Seq(S), <<>> \in T, \A s \in T, e \in S : Append(s, e) \in T
  PROVE  T = Seq(S)
<1> DEFINE K == {k \in Nat : \A s \in Seq(S) : Len(s) = k => s \in T}
<1>1. 0 \in K
  OBVIOUS
<1>2. ASSUME NEW k \in K PROVE k + 1 \in K
  <2>1. ASSUME NEW s \in Seq(S), Len(s) = k + 1 PROVE s \in T
    <3>1. s # <<>>
      BY <2>1
    <3>2. PICK r \in Seq(S), e \in S : s = Append(r, e)
      BY <3>1, SequenceEmptyOrAppend
    <3>3. Len(r) = k
      BY <2>1, <3>2
    <3>4. r \in T
      BY <3>3
    <3> QED BY <3>2, <3>4
  <2> QED BY <2>1
<1>3. K = Nat
  <2>1. K \in SUBSET Nat
    OBVIOUS
  <2> HIDE DEF K
  <2> QED BY <1>1, <1>2, <2>1, InductionOverNat
<1>4. ASSUME NEW s \in Seq(S) PROVE s \in T
  <2>1. Len(s) \in K
    <3> HIDE DEF K
    <3> QED BY <1>3
  <2> QED BY <2>1
<1> QED BY <1>4

\* What all of some calls write, and the ink in use behind them.
TextOf(s, ink) == Written(s, ink)[Len(s)]
InkBehind(s, ink) == InkAfter(s, ink)[Len(s)]

LEMMA TextTypes ==
  ASSUME NEW s \in Seq(Calls), NEW ink \in Strings
  PROVE  TextOf(s, ink) \in Seq(Calls) /\ InkBehind(s, ink) \in Strings
<1>1. Len(s) \in 0 .. Len(s)
  OBVIOUS
<1> QED BY <1>1, InkEquation, WrittenEquation DEF TextOf, InkBehind

LEMMA TextOfNothing ==
  ASSUME NEW ink \in Strings
  PROVE  TextOf(<<>>, ink) = <<>> /\ InkBehind(<<>>, ink) = ink
<1>1. <<>> \in Seq(Calls) /\ Len(<<>>) = 0
  OBVIOUS
<1> QED BY <1>1, InkEquation, WrittenEquation DEF TextOf, InkBehind

\* A character with its ink.
Char(ch, ink) == [ch |-> ch, ink |-> ink]

\* One call more: a colour writes nothing, and a character is written in the ink
\* in use.
LEMMA TextOfOneMore ==
  ASSUME NEW s \in Seq(Calls), NEW c \in Calls, NEW ink \in Strings
  PROVE  /\ c.ch = "" => /\ TextOf(Append(s, c), ink) = TextOf(s, ink)
                         /\ InkBehind(Append(s, c), ink) = c.ink
         /\ c.ch # "" => /\ TextOf(Append(s, c), ink) = Append(TextOf(s, ink), Char(c.ch, InkBehind(s, ink)))
                         /\ InkBehind(Append(s, c), ink) = InkBehind(s, ink)
<1>1. PICK n \in Nat, r \in Seq(Calls) :
        /\ n = Len(s) /\ r = Append(s, c) /\ Len(r) = n + 1
        /\ r[n + 1] = c /\ \A k \in 1 .. n : r[k] = s[k]
  <2>1. PICK n \in Nat : n = Len(s)
    OBVIOUS
  <2>2. PICK r \in Seq(Calls) : r = Append(s, c)
    BY AppendProperties
  <2>3. Len(r) = n + 1 /\ r[n + 1] = c /\ \A k \in 1 .. n : r[k] = s[k]
    BY <2>1, <2>2, AppendProperties
  <2> QED BY <2>1, <2>2, <2>3
<1>2. PICK f : f = InkAfter(s, ink)
  OBVIOUS
<1>3. PICK g : g = InkAfter(r, ink)
  OBVIOUS
<1>4. PICK v : v = Written(s, ink)
  OBVIOUS
<1>5. PICK w : w = Written(r, ink)
  OBVIOUS
<1>6. /\ f[0] = ink /\ v[0] = <<>>
      /\ \A k \in 1 .. n : f[k] = IF s[k].ch = "" THEN s[k].ink ELSE f[k - 1]
      /\ \A k \in 1 .. n : v[k] = IF s[k].ch = "" THEN v[k - 1] ELSE Append(v[k - 1], Char(s[k].ch, f[k]))
  BY <1>1, <1>2, <1>4, InkEquation, WrittenEquation, ZenonT(40) DEF Char
<1>7. /\ g[0] = ink /\ w[0] = <<>>
      /\ \A k \in 1 .. n + 1 : g[k] = IF r[k].ch = "" THEN r[k].ink ELSE g[k - 1]
      /\ \A k \in 1 .. n + 1 : w[k] = IF r[k].ch = "" THEN w[k - 1] ELSE Append(w[k - 1], Char(r[k].ch, g[k]))
  <2>1. PICK m \in Nat : m = n + 1 /\ m = Len(r)
    BY <1>1
  <2>2. /\ g[0] = ink /\ w[0] = <<>>
        /\ \A k \in 1 .. m : g[k] = IF r[k].ch = "" THEN r[k].ink ELSE g[k - 1]
        /\ \A k \in 1 .. m : w[k] = IF r[k].ch = "" THEN w[k - 1] ELSE Append(w[k - 1], Char(r[k].ch, g[k]))
    <3>1. g[0] = ink /\ \A k \in 1 .. m : g[k] = IF r[k].ch = "" THEN r[k].ink ELSE g[k - 1]
      <4>1. /\ InkAfter(r, ink)[0] = ink
            /\ \A k \in 1 .. Len(r) :
                 InkAfter(r, ink)[k] = IF r[k].ch = "" THEN r[k].ink ELSE InkAfter(r, ink)[k - 1]
        BY InkEquation
      <4> QED BY <2>1, <1>3, <4>1
    <3>2. /\ w[0] = <<>>
          /\ \A k \in 1 .. m : w[k] = IF r[k].ch = "" THEN w[k - 1] ELSE Append(w[k - 1], Char(r[k].ch, g[k]))
      BY <2>1, <1>3, <1>5, WrittenEquation DEF Char
    <3> QED BY <3>1, <3>2
  <2> QED BY <2>1, <2>2
<1> DEFINE T == {k \in Nat : k <= n => g[k] = f[k] /\ w[k] = v[k]}
<1>8. 0 \in T
  BY <1>6, <1>7
<1>9. ASSUME NEW k \in T PROVE k + 1 \in T
  <2>1. CASE k + 1 <= n
    <3>1. k + 1 \in 1 .. n /\ k + 1 \in 1 .. n + 1 /\ (k + 1) - 1 = k /\ k <= n
      BY <2>1
    <3>2. /\ f[k + 1] = (IF s[k + 1].ch = "" THEN s[k + 1].ink ELSE f[k])
          /\ v[k + 1] = (IF s[k + 1].ch = "" THEN v[k] ELSE Append(v[k], Char(s[k + 1].ch, f[k + 1])))
      BY <1>6, <3>1
    <3>3. /\ g[k + 1] = (IF r[k + 1].ch = "" THEN r[k + 1].ink ELSE g[k])
          /\ w[k + 1] = (IF r[k + 1].ch = "" THEN w[k] ELSE Append(w[k], Char(r[k + 1].ch, g[k + 1])))
      BY <1>7, <3>1
    <3>4. r[k + 1] = s[k + 1] /\ g[k] = f[k] /\ w[k] = v[k]
      BY <1>1, <3>1
    <3>5. g[k + 1] = f[k + 1]
      BY <3>2, <3>3, <3>4
    <3>6. w[k + 1] = v[k + 1]
      BY <3>2, <3>3, <3>4, <3>5
    <3> QED BY <3>5, <3>6
  <2> QED BY <2>1
<1>10. g[n] = f[n] /\ w[n] = v[n]
  <2>1. T \in SUBSET Nat
    OBVIOUS
  <2>2. T = Nat
    <3> HIDE DEF T
    <3> QED BY <1>8, <1>9, <2>1, InductionOverNat
  <2>3. n \in T
    <3> HIDE DEF T
    <3> QED BY <2>2
  <2> QED BY <2>3
<1>11. /\ g[n + 1] = IF c.ch = "" THEN c.ink ELSE f[n]
       /\ w[n + 1] = IF c.ch = "" THEN v[n] ELSE Append(v[n], Char(c.ch, g[n + 1]))
  <2>1. PICK k \in 1 .. n + 1 : k = n + 1 /\ k - 1 = n
    OBVIOUS
  <2>2. /\ g[k] = IF r[k].ch = "" THEN r[k].ink ELSE g[k - 1]
        /\ w[k] = IF r[k].ch = "" THEN w[k - 1] ELSE Append(w[k - 1], Char(r[k].ch, g[k]))
    BY <1>7
  <2>3. r[k] = c
    BY <1>1, <2>1
  <2>4. g[k - 1] = f[n] /\ w[k - 1] = v[n]
    BY <1>10, <2>1
  <2> HIDE DEF T
  <2>5. /\ g[k] = IF c.ch = "" THEN c.ink ELSE f[n]
        /\ w[k] = IF c.ch = "" THEN v[n] ELSE Append(v[n], Char(c.ch, g[k]))
    BY <2>2, <2>3, <2>4
  <2> QED BY <2>1, <2>5
<1> QED BY <1>1, <1>2, <1>3, <1>4, <1>5, <1>11 DEF TextOf, InkBehind

LEMMA AppendToConcat ==
  ASSUME NEW p \in Seq(Calls), NEW q \in Seq(Calls), NEW e \in Calls
  PROVE  Append(p \o q, e) = p \o Append(q, e)
<1>1. p \o q \in Seq(Calls) /\ <<e>> \in Seq(Calls)
  BY ConcatProperties
<1>2. Append(p \o q, e) = (p \o q) \o <<e>> /\ Append(q, e) = q \o <<e>>
  BY <1>1, AppendIsConcat
<1> QED BY <1>1, <1>2, ConcatAssociative

\* Text of calls one after the other.
LEMMA TextConcat ==
  ASSUME NEW s \in Seq(Calls), NEW u \in Seq(Calls), NEW ink \in Strings
  PROVE  /\ TextOf(s \o u, ink) = TextOf(s, ink) \o TextOf(u, InkBehind(s, ink))
         /\ InkBehind(s \o u, ink) = InkBehind(u, InkBehind(s, ink))
<1>1. PICK mid \in Strings, front \in Seq(Calls) : mid = InkBehind(s, ink) /\ front = TextOf(s, ink)
  BY TextTypes
<1> DEFINE T == {r \in Seq(Calls) : /\ TextOf(s \o r, ink) = front \o TextOf(r, mid)
                                    /\ InkBehind(s \o r, ink) = InkBehind(r, mid)}
<1>2. <<>> \in T
  <2>1. s \o <<>> = s /\ front \o <<>> = front /\ <<>> \in Seq(Calls)
    BY ConcatEmptySeq
  <2> QED BY <1>1, <2>1, TextOfNothing
<1>3. ASSUME NEW r \in T, NEW c \in Calls PROVE Append(r, c) \in T
  <2>1. r \in Seq(Calls) /\ s \o r \in Seq(Calls) /\ Append(r, c) \in Seq(Calls)
    BY ConcatProperties
  <2>2. s \o Append(r, c) = Append(s \o r, c)
    BY <2>1, AppendToConcat
  <2>3. PICK back \in Seq(Calls), end \in Strings : back = TextOf(r, mid) /\ end = InkBehind(r, mid)
    BY <2>1, TextTypes
  <2>4. PICK q \in Seq(Calls) : q = s \o r /\ TextOf(q, ink) = front \o back /\ InkBehind(q, ink) = end
    BY <2>1, <2>3
  <2>5. s \o Append(r, c) = Append(q, c)
    BY <2>2, <2>4
  <2>6. CASE c.ch = ""
    <3>1. TextOf(Append(r, c), mid) = back /\ InkBehind(Append(r, c), mid) = c.ink
      BY <2>1, <2>3, <2>6, TextOfOneMore, ZenonT(40)
    <3>2. TextOf(Append(q, c), ink) = front \o back /\ InkBehind(Append(q, c), ink) = c.ink
      BY <2>4, <2>6, TextOfOneMore
    <3> QED BY <2>1, <2>5, <3>1, <3>2
  <2>7. CASE c.ch # ""
    <3>1. PICK e \in Calls : e = Char(c.ch, end)
      BY DEF Char, Calls
    <3>2. TextOf(Append(r, c), mid) = Append(back, e) /\ InkBehind(Append(r, c), mid) = end
      <4>1. /\ TextOf(Append(r, c), mid) = Append(TextOf(r, mid), Char(c.ch, InkBehind(r, mid)))
            /\ InkBehind(Append(r, c), mid) = InkBehind(r, mid)
        BY <2>1, <2>7, TextOfOneMore, ZenonT(40)
      <4> QED BY <2>3, <3>1, <4>1
    <3>3. TextOf(Append(q, c), ink) = Append(front \o back, e) /\ InkBehind(Append(q, c), ink) = end
      <4>1. /\ TextOf(Append(q, c), ink) = Append(TextOf(q, ink), Char(c.ch, InkBehind(q, ink)))
            /\ InkBehind(Append(q, c), ink) = InkBehind(q, ink)
        BY <2>7, TextOfOneMore
      <4> QED BY <2>4, <3>1, <4>1
    <3>4. Append(front \o back, e) = front \o Append(back, e)
      <4>1. front \in Seq(Calls) /\ back \in Seq(Calls) /\ e \in Calls
        OBVIOUS
      <4> QED BY <4>1, AppendToConcat
    <3> QED BY <2>1, <2>5, <3>2, <3>3, <3>4
  <2> QED BY <2>6, <2>7
<1>4. T = Seq(Calls)
  <2>1. T \in SUBSET Seq(Calls)
    OBVIOUS
  <2> HIDE DEF T
  <2> QED BY <1>2, <1>3, <2>1, SequenceInduction
<1> QED BY <1>1, <1>4

\* The characters that can be printed: "" marks a call that is none.
Chars == Strings \ {""}

LEMMA CallTypes ==
  /\ \A ch \in Strings : Put(ch) \in Calls /\ Put(ch).ch = ch
  /\ \A c \in Strings : SetTextColor(c) \in Calls /\ SetTextColor(c).ch = "" /\ SetTextColor(c).ink = c
  /\ \A ch, ink \in Strings : Char(ch, ink) \in Calls /\ Char(ch, ink).ch = ch /\ Char(ch, ink).ink = ink
<1>1. NoInk \in Strings
  BY DEF Strings
<1>2. "" \in Strings
  BY DEF Strings
<1> QED BY <1>1, <1>2, Zenon DEF Put, SetTextColor, Char, Calls

\* One call alone.
LEMMA TextOfOne ==
  ASSUME NEW c \in Calls, NEW ink \in Strings
  PROVE  /\ <<c>> \in Seq(Calls)
         /\ c.ch = "" => TextOf(<<c>>, ink) = <<>> /\ InkBehind(<<c>>, ink) = c.ink
         /\ c.ch # "" => TextOf(<<c>>, ink) = <<Char(c.ch, ink)>> /\ InkBehind(<<c>>, ink) = ink
<1>1. PICK none \in Seq(Calls) : none = <<>>
  <2>1. <<>> \in Seq(Calls)
    OBVIOUS
  <2> QED BY <2>1
<1>2. TextOf(none, ink) = <<>> /\ InkBehind(none, ink) = ink
  BY <1>1, TextOfNothing
<1>3. Append(none, c) = <<c>> /\ <<c>> \in Seq(Calls)
  BY <1>1
<1>4. /\ c.ch = "" => TextOf(<<c>>, ink) = <<>> /\ InkBehind(<<c>>, ink) = c.ink
      /\ c.ch # "" => TextOf(<<c>>, ink) = Append(<<>>, Char(c.ch, ink)) /\ InkBehind(<<c>>, ink) = ink
  <2>1. /\ c.ch = "" => TextOf(Append(none, c), ink) = TextOf(none, ink) /\ InkBehind(Append(none, c), ink) = c.ink
        /\ c.ch # "" => /\ TextOf(Append(none, c), ink) = Append(TextOf(none, ink), Char(c.ch, InkBehind(none, ink)))
                        /\ InkBehind(Append(none, c), ink) = InkBehind(none, ink)
    BY TextOfOneMore
  <2> QED BY <1>2, <1>3, <2>1
<1>5. Append(<<>>, Char(c.ch, ink)) = <<Char(c.ch, ink)>>
  OBVIOUS
<1> QED BY <1>3, <1>4, <1>5

\* The first of some calls.
LEMMA TextStep ==
  ASSUME NEW s \in Seq(Calls), s # <<>>, NEW ink \in Strings
  PROVE  /\ Head(s) \in Calls /\ Tail(s) \in Seq(Calls)
         /\ Head(s).ch = "" => TextOf(s, ink) = TextOf(Tail(s), Head(s).ink)
         /\ Head(s).ch # "" => TextOf(s, ink) = <<Char(Head(s).ch, ink)>> \o TextOf(Tail(s), ink)
<1>1. PICK c \in Calls, r \in Seq(Calls) : c = Head(s) /\ r = Tail(s)
  BY HeadTailProperties
<1>2. s = <<c>> \o r
  BY <1>1
<1>3. <<c>> \in Seq(Calls) /\ c.ink \in Strings
  <2>1. c.ink \in Strings
    BY DEF Calls
  <2> QED BY <2>1
<1>4. TextOf(s, ink) = TextOf(<<c>>, ink) \o TextOf(r, InkBehind(<<c>>, ink))
  BY <1>2, <1>3, TextConcat
<1>5. CASE c.ch = ""
  <2>1. TextOf(s, ink) = <<>> \o TextOf(r, c.ink)
    BY <1>4, <1>5, TextOfOne
  <2>2. TextOf(r, c.ink) \in Seq(Calls)
    BY <1>3, TextTypes
  <2> QED BY <1>1, <1>5, <2>1, <2>2, ConcatEmptySeq
<1>6. CASE c.ch # ""
  <2>1. TextOf(s, ink) = <<Char(c.ch, ink)>> \o TextOf(r, ink)
    BY <1>4, <1>6, TextOfOne
  <2> QED BY <1>1, <1>6, <2>1
<1> QED BY <1>5, <1>6

\* Inked text.
LEMMA InkedIs ==
  ASSUME NEW chars \in Seq(Strings), NEW ink \in Strings
  PROVE  /\ Sheet!Inked(chars, ink) \in Seq(Calls) /\ Len(Sheet!Inked(chars, ink)) = Len(chars)
         /\ \A i \in 1 .. Len(chars) : Sheet!Inked(chars, ink)[i] = Char(chars[i], ink)
<1>1. DOMAIN chars = 1 .. Len(chars) /\ Len(chars) \in Nat /\ \A i \in 1 .. Len(chars) : chars[i] \in Strings
  OBVIOUS
<1>2. PICK f : f = Sheet!Inked(chars, ink)
  OBVIOUS
<1>3. f = [i \in 1 .. Len(chars) |-> Char(chars[i], ink)]
  BY <1>1, <1>2 DEF Sheet!Inked, Char
<1>4. \A i \in 1 .. Len(chars) : Char(chars[i], ink) \in Calls
  BY <1>1, CallTypes
<1>5. f \in Seq(Calls) /\ Len(f) = Len(chars)
  BY <1>1, <1>3, <1>4
<1> QED BY <1>2, <1>3, <1>5

LEMMA InkedConcat ==
  ASSUME NEW a \in Seq(Strings), NEW b \in Seq(Strings), NEW ink \in Strings
  PROVE  /\ a \o b \in Seq(Strings)
         /\ Sheet!Inked(a \o b, ink) = Sheet!Inked(a, ink) \o Sheet!Inked(b, ink)
<1>1. PICK c \in Seq(Strings) : c = a \o b
  BY ConcatProperties
<1>2. Len(c) = Len(a) + Len(b) /\ Len(a) \in Nat /\ Len(b) \in Nat
      /\ \A i \in 1 .. Len(a) + Len(b) : c[i] = IF i <= Len(a) THEN a[i] ELSE b[i - Len(a)]
  BY <1>1, ConcatProperties
<1>3. PICK f \in Seq(Calls), g \in Seq(Calls), h \in Seq(Calls) :
        /\ f = Sheet!Inked(a, ink) /\ g = Sheet!Inked(b, ink) /\ h = Sheet!Inked(c, ink)
        /\ Len(f) = Len(a) /\ Len(g) = Len(b) /\ Len(h) = Len(c)
        /\ \A i \in 1 .. Len(a) : f[i] = Char(a[i], ink)
        /\ \A i \in 1 .. Len(b) : g[i] = Char(b[i], ink)
        /\ \A i \in 1 .. Len(c) : h[i] = Char(c[i], ink)
  <2>1. \E h \in Seq(Calls) : h = Sheet!Inked(c, ink) /\ Len(h) = Len(c) /\ \A i \in 1 .. Len(c) : h[i] = Char(c[i], ink)
    BY InkedIs
  <2>2. \E f \in Seq(Calls) : f = Sheet!Inked(a, ink) /\ Len(f) = Len(a) /\ \A i \in 1 .. Len(a) : f[i] = Char(a[i], ink)
    BY InkedIs
  <2>3. \E g \in Seq(Calls) : g = Sheet!Inked(b, ink) /\ Len(g) = Len(b) /\ \A i \in 1 .. Len(b) : g[i] = Char(b[i], ink)
    BY InkedIs
  <2> QED BY <2>1, <2>2, <2>3
<1>4. f \o g \in Seq(Calls) /\ Len(f \o g) = Len(f) + Len(g)
      /\ \A i \in 1 .. Len(f) + Len(g) : (f \o g)[i] = IF i <= Len(f) THEN f[i] ELSE g[i - Len(f)]
  BY ConcatProperties
<1>5. ASSUME NEW i \in 1 .. Len(h) PROVE h[i] = (f \o g)[i]
  <2>1. CASE i <= Len(a)
    <3>1. i \in 1 .. Len(a) /\ i \in 1 .. Len(a) + Len(b) /\ i \in 1 .. Len(c)
      BY <1>2, <1>3, <2>1
    <3>2. h[i] = Char(c[i], ink) /\ c[i] = a[i] /\ f[i] = Char(a[i], ink) /\ (f \o g)[i] = f[i]
      BY <1>2, <1>3, <1>4, <2>1, <3>1
    <3> QED BY <3>2
  <2>2. CASE ~(i <= Len(a))
    <3>1. i - Len(a) \in 1 .. Len(b) /\ i \in 1 .. Len(a) + Len(b) /\ i \in 1 .. Len(c)
      BY <1>2, <1>3, <2>2
    <3>2. h[i] = Char(c[i], ink) /\ c[i] = b[i - Len(a)] /\ g[i - Len(a)] = Char(b[i - Len(a)], ink)
          /\ (f \o g)[i] = g[i - Len(a)]
      BY <1>2, <1>3, <1>4, <2>2, <3>1
    <3> QED BY <3>2
  <2> QED BY <2>1, <2>2
<1>6. h = f \o g
  <2>1. Len(h) = Len(f \o g)
    BY <1>2, <1>3, <1>4
  <2> QED BY <1>4, <1>5, <2>1, SeqEqual
<1> QED BY <1>1, <1>3, <1>6

LEMMA InkedTwo ==
  ASSUME NEW p \in Strings, NEW q \in Strings, NEW ink \in Strings
  PROVE  Sheet!Inked(<<p, q>>, ink) = <<Char(p, ink), Char(q, ink)>>
<1>1. PICK s \in Seq(Strings) : s = <<p, q>> /\ Len(s) = 2 /\ s[1] = p /\ s[2] = q
  <2>1. <<p, q>> \in Seq(Strings)
    OBVIOUS
  <2> QED BY <2>1
<1>2. PICK f \in Seq(Calls) : f = Sheet!Inked(s, ink) /\ Len(f) = 2 /\ \A i \in 1 .. 2 : f[i] = Char(s[i], ink)
  BY <1>1, InkedIs
<1>3. PICK c \in Calls, d \in Calls : c = Char(p, ink) /\ d = Char(q, ink)
  BY CallTypes
<1>4. PICK g \in Seq(Calls) : g = <<c, d>> /\ Len(g) = 2 /\ g[1] = c /\ g[2] = d
  <2>1. <<c, d>> \in Seq(Calls)
    OBVIOUS
  <2> QED BY <2>1
<1>5. f = g
  <2>1. f[1] = g[1] /\ f[2] = g[2]
    BY <1>1, <1>2, <1>3, <1>4
  <2>2. \A i \in 1 .. Len(f) : f[i] = g[i]
    <3>1. \A i \in 1 .. 2 : i = 1 \/ i = 2
      OBVIOUS
    <3> QED BY <1>2, <2>1, <3>1
  <2> QED BY <1>2, <1>4, <2>2, SeqEqual
<1> QED BY <1>1, <1>2, <1>3, <1>4, <1>5

\* The calls that print some characters.
LEMMA PutAllIs ==
  ASSUME NEW chars \in Seq(Chars)
  PROVE  /\ PutAll(chars) \in Seq(Calls) /\ Len(PutAll(chars)) = Len(chars)
         /\ \A i \in 1 .. Len(chars) : PutAll(chars)[i] = Put(chars[i])
<1>1. DOMAIN chars = 1 .. Len(chars) /\ Len(chars) \in Nat /\ \A i \in 1 .. Len(chars) : chars[i] \in Chars
  OBVIOUS
<1>2. PICK f : f = PutAll(chars)
  OBVIOUS
<1>3. f = [i \in 1 .. Len(chars) |-> Put(chars[i])]
  BY <1>1, <1>2 DEF PutAll
<1>4. \A i \in 1 .. Len(chars) : Put(chars[i]) \in Calls
  BY <1>1, CallTypes DEF Chars
<1>5. f \in Seq(Calls) /\ Len(f) = Len(chars)
  BY <1>1, <1>3, <1>4
<1> QED BY <1>2, <1>3, <1>5

LEMMA TextOfPutAll ==
  ASSUME NEW chars \in Seq(Chars), NEW ink \in Strings
  PROVE  TextOf(PutAll(chars), ink) = Sheet!Inked(chars, ink) /\ InkBehind(PutAll(chars), ink) = ink
<1> DEFINE T == {r \in Seq(Chars) : TextOf(PutAll(r), ink) = Sheet!Inked(r, ink) /\ InkBehind(PutAll(r), ink) = ink}
<1>0. \A r \in Seq(Chars) : r \in Seq(Strings)
  <2>1. Chars \subseteq Strings
    BY DEF Chars
  <2> QED BY <2>1, SeqMonotonic
<1>1. <<>> \in T
  <2>1. PICK none \in Seq(Chars) : none = <<>> /\ Len(none) = 0
    <3>1. <<>> \in Seq(Chars) /\ Len(<<>>) = 0
      OBVIOUS
    <3> QED BY <3>1
  <2>2. PutAll(none) = <<>>
    BY <2>1, PutAllIs, EmptySeq
  <2>3. Sheet!Inked(none, ink) = <<>>
    BY <1>0, <2>1, InkedIs, EmptySeq
  <2> QED BY <2>1, <2>2, <2>3, TextOfNothing
<1>2. ASSUME NEW r \in T, NEW ch \in Chars PROVE Append(r, ch) \in T
  <2>1. PICK q \in Seq(Chars), n \in Nat :
          /\ q = Append(r, ch) /\ n = Len(r) /\ Len(q) = n + 1
          /\ q[n + 1] = ch /\ \A i \in 1 .. n : q[i] = r[i]
    <3>1. PICK n \in Nat : n = Len(r)
      OBVIOUS
    <3>2. PICK q \in Seq(Chars) : q = Append(r, ch)
      BY AppendProperties
    <3>3. Len(q) = n + 1 /\ q[n + 1] = ch /\ \A i \in 1 .. n : q[i] = r[i]
      BY <3>1, <3>2, AppendProperties
    <3> QED BY <3>1, <3>2, <3>3
  <2>2. PutAll(q) = Append(PutAll(r), Put(ch))
    <3>1. PICK f \in Seq(Calls) : f = PutAll(q) /\ Len(f) = n + 1 /\ \A i \in 1 .. n + 1 : f[i] = Put(q[i])
      BY <2>1, PutAllIs
    <3>2. PICK g \in Seq(Calls) : g = PutAll(r) /\ Len(g) = n /\ \A i \in 1 .. n : g[i] = Put(r[i])
      BY <2>1, PutAllIs
    <3>3. Put(ch) \in Calls
      BY CallTypes DEF Chars
    <3>4. PICK h \in Seq(Calls) : /\ h = Append(g, Put(ch)) /\ Len(h) = n + 1
                                  /\ h[n + 1] = Put(ch) /\ \A i \in 1 .. n : h[i] = g[i]
      <4>1. PICK h \in Seq(Calls) : h = Append(g, Put(ch))
        BY <3>3, AppendProperties
      <4>2. Len(h) = n + 1 /\ h[n + 1] = Put(ch) /\ \A i \in 1 .. n : h[i] = g[i]
        BY <3>2, <3>3, <4>1, AppendProperties
      <4> QED BY <4>1, <4>2
    <3>5. \A i \in 1 .. Len(f) : f[i] = h[i]
      <4>1. \A i \in 1 .. n + 1 : i = n + 1 \/ i \in 1 .. n
        OBVIOUS
      <4> QED BY <2>1, <3>1, <3>2, <3>4, <4>1
    <3>6. f = h
      BY <3>1, <3>4, <3>5, SeqEqual
    <3> QED BY <3>1, <3>2, <3>4, <3>6
  <2>3. Sheet!Inked(q, ink) = Append(Sheet!Inked(r, ink), Char(ch, ink))
    <3>1. PICK f \in Seq(Calls) : f = Sheet!Inked(q, ink) /\ Len(f) = n + 1 /\ \A i \in 1 .. n + 1 : f[i] = Char(q[i], ink)
      BY <1>0, <2>1, InkedIs, ZenonT(40)
    <3>2. PICK g \in Seq(Calls) : g = Sheet!Inked(r, ink) /\ Len(g) = n /\ \A i \in 1 .. n : g[i] = Char(r[i], ink)
      BY <1>0, <2>1, InkedIs
    <3>3. Char(ch, ink) \in Calls
      BY CallTypes DEF Chars
    <3>4. PICK h \in Seq(Calls) : /\ h = Append(g, Char(ch, ink)) /\ Len(h) = n + 1
                                  /\ h[n + 1] = Char(ch, ink) /\ \A i \in 1 .. n : h[i] = g[i]
      <4>1. PICK h \in Seq(Calls) : h = Append(g, Char(ch, ink))
        BY <3>3, AppendProperties
      <4>2. Len(h) = n + 1 /\ h[n + 1] = Char(ch, ink) /\ \A i \in 1 .. n : h[i] = g[i]
        BY <3>2, <3>3, <4>1, AppendProperties
      <4> QED BY <4>1, <4>2
    <3>5. \A i \in 1 .. Len(f) : f[i] = h[i]
      <4>1. \A i \in 1 .. n + 1 : i = n + 1 \/ i \in 1 .. n
        OBVIOUS
      <4> QED BY <2>1, <3>1, <3>2, <3>4, <4>1
    <3>6. f = h
      BY <3>1, <3>4, <3>5, SeqEqual
    <3> QED BY <3>1, <3>2, <3>4, <3>6
  <2>4. PICK p \in Seq(Calls), c \in Calls : p = PutAll(r) /\ c = Put(ch) /\ c.ch = ch /\ c.ch # ""
    BY PutAllIs, CallTypes DEF Chars
  <2>5. /\ TextOf(Append(p, c), ink) = Append(TextOf(p, ink), Char(c.ch, InkBehind(p, ink)))
        /\ InkBehind(Append(p, c), ink) = InkBehind(p, ink)
    BY <2>4, TextOfOneMore
  <2> QED BY <2>1, <2>2, <2>3, <2>4, <2>5
<1>3. T = Seq(Chars)
  <2>1. T \in SUBSET Seq(Chars)
    OBVIOUS
  <2> HIDE DEF T
  <2> QED BY <1>1, <1>2, <2>1, SequenceInduction
<1> QED BY <1>3

-----------------------------------------------------------------------------
\* What log writes.
LEMMA Literals ==
  /\ \A ch \in {"[", "]", " ", Newline, "L", "W", "E"} : ch \in Chars
  /\ Grey \in Strings /\ \A ink \in {"green", "light red", "red"} : ink \in Strings
BY DEF Chars, Strings, Newline, Grey

LEMMA Tags ==
  ASSUME NEW level \in DOMAIN Tag
  PROVE  Tag[level] \in Seq(Chars) /\ Tag[level] # <<>> /\ TagInk[level] \in Strings
<1>1. level \in {"log", "warning", "error"}
  BY DEF Tag
<1>2. PICK l \in Chars, w \in Chars, e \in Chars, b \in Chars : l = "L" /\ w = "W" /\ e = "E" /\ b = " "
  BY Literals
<1>3. /\ <<l>> \in Seq(Chars) /\ <<w, b>> \in Seq(Chars) /\ <<e>> \in Seq(Chars)
      /\ <<l>> # <<>> /\ <<w, b>> # <<>> /\ <<e>> # <<>>
  OBVIOUS
<1>4. Tag["log"] = <<l>> /\ Tag["warning"] = <<w, b>> /\ Tag["error"] = <<e>>
  BY <1>2 DEF Tag
<1>5. TagInk["log"] = "green" /\ TagInk["warning"] = "light red" /\ TagInk["error"] = "red"
  BY DEF TagInk
<1> QED BY <1>1, <1>3, <1>4, <1>5, Literals

LEMMA MessageChars ==
  \A message \in Messages \cup {KernelPanic, StackSmashing} : message \in Seq(Chars) /\ message \in Seq(Strings)
<1> SUFFICES ASSUME NEW message \in Messages \cup {KernelPanic, StackSmashing}
             PROVE  message \in Seq(Chars) /\ message \in Seq(Strings)
  OBVIOUS
<1>0. message \in Seq(STRING)
  BY CharacterAssumption
<1>1. \A i \in DOMAIN message : message[i] # ""
  BY CharacterAssumption
<1>2. Len(message) \in Nat /\ DOMAIN message = 1 .. Len(message) /\ message = [i \in 1 .. Len(message) |-> message[i]]
  BY <1>0
<1>3. \A i \in 1 .. Len(message) : message[i] \in STRING
  BY <1>0
<1>4. \A i \in 1 .. Len(message) : message[i] \in Chars /\ message[i] \in Strings
  BY <1>1, <1>2, <1>3 DEF Chars, Strings
<1> QED BY <1>2, <1>4, IsASeq

\* With `ink' in use some calls write a text, and behind them `end' is in use.
Writes(s, ink, text, end) ==
  s \in Seq(Calls) /\ ink \in Strings /\ TextOf(s, ink) = text /\ InkBehind(s, ink) = end

LEMMA WritesConcat ==
  ASSUME NEW s, NEW u, NEW ink, NEW mid, NEW end, NEW a, NEW b,
         Writes(s, ink, a, mid), Writes(u, mid, b, end)
  PROVE  Writes(s \o u, ink, a \o b, end)
<1>1. /\ s \in Seq(Calls) /\ ink \in Strings /\ TextOf(s, ink) = a /\ InkBehind(s, ink) = mid
      /\ u \in Seq(Calls) /\ mid \in Strings /\ TextOf(u, mid) = b /\ InkBehind(u, mid) = end
  BY DEF Writes
<1>2. s \o u \in Seq(Calls)
  BY <1>1, ConcatProperties
<1>3. /\ TextOf(s \o u, ink) = TextOf(s, ink) \o TextOf(u, InkBehind(s, ink))
      /\ InkBehind(s \o u, ink) = InkBehind(u, InkBehind(s, ink))
  BY <1>1, TextConcat
<1> QED BY <1>1, <1>2, <1>3 DEF Writes

LEMMA WritesOne ==
  ASSUME NEW ink \in Strings
  PROVE  /\ \A ch \in Chars : Writes(<<Put(ch)>>, ink, <<Char(ch, ink)>>, ink)
         /\ \A c \in Strings : Writes(<<SetTextColor(c)>>, ink, <<>>, c)
<1>1. ASSUME NEW ch \in Chars PROVE Writes(<<Put(ch)>>, ink, <<Char(ch, ink)>>, ink)
  <2>1. PICK c \in Calls : c = Put(ch) /\ c.ch = ch /\ c.ch # ""
    BY CallTypes DEF Chars
  <2>2. /\ <<c>> \in Seq(Calls)
        /\ TextOf(<<c>>, ink) = <<Char(c.ch, ink)>> /\ InkBehind(<<c>>, ink) = ink
    BY <2>1, TextOfOne
  <2> QED BY <2>1, <2>2 DEF Writes
<1>2. ASSUME NEW i \in Strings PROVE Writes(<<SetTextColor(i)>>, ink, <<>>, i)
  <2>1. PICK c \in Calls : c = SetTextColor(i) /\ c.ch = "" /\ c.ink = i
    BY CallTypes
  <2>2. <<c>> \in Seq(Calls) /\ TextOf(<<c>>, ink) = <<>> /\ InkBehind(<<c>>, ink) = i
    BY <2>1, TextOfOne
  <2> QED BY <2>1, <2>2 DEF Writes
<1> QED BY <1>1, <1>2

LEMMA WritesAll ==
  ASSUME NEW ink \in Strings, NEW chars \in Seq(Chars)
  PROVE  Writes(PutAll(chars), ink, Sheet!Inked(chars, ink), ink)
BY PutAllIs, TextOfPutAll DEF Writes

LEMMA Associative ==
  /\ \A p, q, r \in Seq(Calls) : (p \o q) \o r = p \o (q \o r)
  /\ \A p, q, r \in Seq(Strings) : (p \o q) \o r = p \o (q \o r)
<1>1. ASSUME NEW p \in Seq(Calls), NEW q \in Seq(Calls), NEW r \in Seq(Calls)
      PROVE  (p \o q) \o r = p \o (q \o r)
  BY ConcatAssociative, SMTT(20)
<1>2. ASSUME NEW p \in Seq(Strings), NEW q \in Seq(Strings), NEW r \in Seq(Strings)
      PROVE  (p \o q) \o r = p \o (q \o r)
  BY ConcatAssociative, SMTT(20)
<1> QED BY <1>1, <1>2

\* Sequences of two and three, put together.
LEMMA ShortSeqs ==
  /\ \A a, b : <<a>> \o <<b>> = <<a, b>> /\ <<>> \o (<<a>> \o <<b>>) = <<a, b>>
  /\ \A a : <<a>> \o <<>> = <<a>>
  /\ \A a, b, c : <<a>> \o (<<b>> \o <<c>>) = <<a, b, c>>
<1>1. ASSUME NEW p, NEW q PROVE <<p>> \o <<q>> = <<p, q>>
  <2>1. PICK s \in Seq({p, q}), u \in Seq({p, q}), v \in Seq({p, q}) : s = <<p>> /\ u = <<q>> /\ v = <<p, q>>
    <3>1. <<p>> \in Seq({p, q}) /\ <<q>> \in Seq({p, q}) /\ <<p, q>> \in Seq({p, q})
      OBVIOUS
    <3> QED BY <3>1
  <2>2. /\ Len(s) = 1 /\ s[1] = p /\ Len(u) = 1 /\ u[1] = q
        /\ Len(v) = 2 /\ v[1] = p /\ v[2] = q
    BY <2>1
  <2>3. PICK w \in Seq({p, q}) : w = s \o u /\ Len(w) = 2 /\ w[1] = p /\ w[2] = q
    <3>1. PICK w \in Seq({p, q}) : w = s \o u
      BY ConcatProperties
    <3>2. Len(w) = 2 /\ w[1] = p /\ w[2] = q
      BY <2>2, <3>1, ConcatProperties
    <3> QED BY <3>1, <3>2
  <2>4. w = v
    <3>1. \A i \in 1 .. Len(w) : w[i] = v[i]
      BY <2>2, <2>3
    <3> QED BY <2>2, <2>3, <3>1, SeqEqual
  <2> QED BY <2>1, <2>3, <2>4
<1>2. ASSUME NEW p, NEW q, NEW r PROVE <<p>> \o <<q, r>> = <<p, q, r>>
  <2>1. PICK s \in Seq({p, q, r}), u \in Seq({p, q, r}), v \in Seq({p, q, r}) : s = <<p>> /\ u = <<q, r>> /\ v = <<p, q, r>>
    <3>1. <<p>> \in Seq({p, q, r}) /\ <<q, r>> \in Seq({p, q, r}) /\ <<p, q, r>> \in Seq({p, q, r})
      OBVIOUS
    <3> QED BY <3>1
  <2>2. /\ Len(s) = 1 /\ s[1] = p /\ Len(u) = 2 /\ u[1] = q /\ u[2] = r
        /\ Len(v) = 3 /\ v[1] = p /\ v[2] = q /\ v[3] = r
    BY <2>1
  <2>3. PICK w \in Seq({p, q, r}) : w = s \o u /\ Len(w) = 3 /\ w[1] = p /\ w[2] = q /\ w[3] = r
    <3>1. PICK w \in Seq({p, q, r}) : w = s \o u
      BY ConcatProperties
    <3>2. Len(w) = 3 /\ \A i \in 1 .. 3 : w[i] = IF i <= 1 THEN s[i] ELSE u[i - 1]
      <4>1. /\ Len(s \o u) = Len(s) + Len(u)
            /\ \A i \in 1 .. Len(s) + Len(u) : (s \o u)[i] = IF i <= Len(s) THEN s[i] ELSE u[i - Len(s)]
        BY ConcatProperties
      <4> QED BY <2>2, <3>1, <4>1
    <3>3. w[1] = s[1] /\ w[2] = u[1] /\ w[3] = u[2]
      BY <3>2
    <3>4. Len(w) = 3 /\ w[1] = p /\ w[2] = q /\ w[3] = r
      BY <2>2, <3>2, <3>3
    <3> QED BY <3>1, <3>4
  <2>4. w = v
    <3>1. \A i \in 1 .. Len(w) : w[i] = v[i]
      <4>1. \A i \in 1 .. 3 : i = 1 \/ i = 2 \/ i = 3
        OBVIOUS
      <4> QED BY <2>2, <2>3, <4>1
    <3> QED BY <2>2, <2>3, <3>1, SeqEqual
  <2> QED BY <2>1, <2>3, <2>4
<1>3. ASSUME NEW a, NEW b PROVE <<a>> \o <<>> = <<a>> /\ <<>> \o <<a, b>> = <<a, b>>
  OBVIOUS
<1>4. \A a, b : <<a>> \o <<b>> = <<a, b>>
  BY <1>1
<1>5. \A a, b, c : <<a>> \o (<<b>> \o <<c>>) = <<a, b, c>>
  BY <1>2, <1>4, Zenon
<1>6. \A a, b : <<a>> \o <<>> = <<a>> /\ <<>> \o (<<a>> \o <<b>>) = <<a, b>>
  BY <1>3, <1>4, Zenon
<1> QED BY <1>4, <1>5, <1>6, Zenon

\* A line's tag, and the bracket and the blank behind it.
LEMMA WritesPrefix ==
  ASSUME NEW level \in DOMAIN Tag, NEW ink \in Strings
  PROVE  Writes(Prefix(level), ink,
                (<<Char("[", ink)>> \o Sheet!Inked(Tag[level], TagInk[level])) \o <<Char("]", Grey), Char(" ", Grey)>>,
                Grey)
<1>1. PICK tag \in Seq(Chars), tagInk \in Strings : tag = Tag[level] /\ tagInk = TagInk[level]
  BY Tags
<1>2. Writes(<<Put("[")>> \o <<SetTextColor(tagInk)>>, ink, <<Char("[", ink)>> \o <<>>, tagInk)
  <2>1. Writes(<<Put("[")>>, ink, <<Char("[", ink)>>, ink)
    BY WritesOne, Literals
  <2>2. Writes(<<SetTextColor(tagInk)>>, ink, <<>>, tagInk)
    BY WritesOne
  <2> QED BY <2>1, <2>2, WritesConcat
<1>3. Writes(PutAll(tag), tagInk, Sheet!Inked(tag, tagInk), tagInk)
  BY WritesAll
<1>4. Writes(<<SetTextColor(Grey)>> \o (<<Put("]")>> \o <<Put(" ")>>), tagInk,
             <<>> \o (<<Char("]", Grey)>> \o <<Char(" ", Grey)>>), Grey)
  <2>1. Writes(<<SetTextColor(Grey)>>, tagInk, <<>>, Grey)
    BY WritesOne, Literals
  <2>2. Writes(<<Put("]")>>, Grey, <<Char("]", Grey)>>, Grey)
    BY WritesOne, Literals
  <2>3. Writes(<<Put(" ")>>, Grey, <<Char(" ", Grey)>>, Grey)
    BY WritesOne, Literals
  <2>4. Writes(<<Put("]")>> \o <<Put(" ")>>, Grey, <<Char("]", Grey)>> \o <<Char(" ", Grey)>>, Grey)
    BY <2>2, <2>3, WritesConcat
  <2> QED BY <2>1, <2>4, WritesConcat
<1>5. /\ <<Put("[")>> \o <<SetTextColor(tagInk)>> = <<Put("["), SetTextColor(tagInk)>>
      /\ <<Char("[", ink)>> \o <<>> = <<Char("[", ink)>>
      /\ <<SetTextColor(Grey)>> \o (<<Put("]")>> \o <<Put(" ")>>) = <<SetTextColor(Grey), Put("]"), Put(" ")>>
      /\ <<>> \o (<<Char("]", Grey)>> \o <<Char(" ", Grey)>>) = <<Char("]", Grey), Char(" ", Grey)>>
  BY ShortSeqs, Zenon
<1>6. /\ Writes(<<Put("["), SetTextColor(tagInk)>>, ink, <<Char("[", ink)>>, tagInk)
      /\ Writes(<<SetTextColor(Grey), Put("]"), Put(" ")>>, tagInk, <<Char("]", Grey), Char(" ", Grey)>>, Grey)
  BY <1>2, <1>4, <1>5, Zenon
<1>7. Writes((<<Put("["), SetTextColor(tagInk)>> \o PutAll(tag)) \o <<SetTextColor(Grey), Put("]"), Put(" ")>>, ink,
             (<<Char("[", ink)>> \o Sheet!Inked(tag, tagInk)) \o <<Char("]", Grey), Char(" ", Grey)>>, Grey)
  <2>1. Writes(<<Put("["), SetTextColor(tagInk)>> \o PutAll(tag), ink, <<Char("[", ink)>> \o Sheet!Inked(tag, tagInk), tagInk)
    BY <1>3, <1>6, WritesConcat
  <2> QED BY <1>6, <2>1, WritesConcat
<1> QED BY <1>1, <1>7, Zenon DEF Prefix

\* log writes a line.
LEMMA WritesLine ==
  ASSUME NEW level, NEW message \in Messages \cup {KernelPanic, StackSmashing}, NEW ink \in Strings
  PROVE  Writes(LogLine(level, message), ink, Sheet!Line(level, message, ink),
                IF level \in DOMAIN Tag THEN Grey ELSE ink)
<1>1. message \in Seq(Chars) /\ message \in Seq(Strings)
  BY MessageChars
<1>2. PICK nl \in Chars : nl = Newline /\ nl \in Strings
  BY Literals DEF Chars
<1>3. \A i \in Strings : Writes(PutAll(message) \o <<Put(Newline)>>, i, Sheet!Inked(message \o <<"\n">>, i), i)
  <2> SUFFICES ASSUME NEW i \in Strings
               PROVE  Writes(PutAll(message) \o <<Put(Newline)>>, i, Sheet!Inked(message \o <<"\n">>, i), i)
    OBVIOUS
  <2>1. Writes(PutAll(message), i, Sheet!Inked(message, i), i)
    BY <1>1, WritesAll
  <2>2. Writes(<<Put(Newline)>>, i, <<Char(Newline, i)>>, i)
    BY <1>2, WritesOne
  <2>3. Writes(PutAll(message) \o <<Put(Newline)>>, i, Sheet!Inked(message, i) \o <<Char(Newline, i)>>, i)
    BY <2>1, <2>2, WritesConcat
  <2>4. <<Newline>> \in Seq(Strings)
    BY <1>2
  <2>5. Sheet!Inked(message \o <<Newline>>, i) = Sheet!Inked(message, i) \o Sheet!Inked(<<Newline>>, i)
    BY <1>1, <2>4, InkedConcat
  <2>6. Sheet!Inked(<<Newline>>, i) = <<Char(Newline, i)>>
    BY DEF Sheet!Inked, Char
  <2>7. Sheet!Inked(message \o <<"\n">>, i) = Sheet!Inked(message, i) \o <<Char(Newline, i)>>
    BY <2>5, <2>6 DEF Newline
  <2> QED BY <2>3, <2>7
<1>4. CASE level \in DOMAIN Tag
  <2>1. PICK a \in Seq(Calls), b \in Seq(Calls), p \in Seq(Calls), m \in Seq(Calls), n \in Seq(Calls) :
          /\ a = <<Char("[", ink)>> \o Sheet!Inked(Tag[level], TagInk[level])
          /\ b = <<Char("]", Grey), Char(" ", Grey)>>
          /\ p = Prefix(level) /\ m = PutAll(message) /\ n = <<Put(Newline)>>
    <3>1. PICK tag \in Seq(Strings), tagInk \in Strings : tag = Tag[level] /\ tagInk = TagInk[level]
      <4>1. Chars \subseteq Strings
        BY DEF Chars
      <4>2. Tag[level] \in Seq(Strings) /\ TagInk[level] \in Strings
        BY <1>4, <4>1, Tags, SeqMonotonic
      <4> QED BY <4>2
    <3>2. Sheet!Inked(tag, tagInk) \in Seq(Calls)
      BY InkedIs
    <3>3. <<Char("[", ink)>> \in Seq(Calls) /\ <<Char("]", Grey), Char(" ", Grey)>> \in Seq(Calls)
      <4>1. Char("[", ink) \in Calls /\ Char("]", Grey) \in Calls /\ Char(" ", Grey) \in Calls
        BY CallTypes, Literals DEF Chars
      <4>2. PICK e \in Calls, f \in Calls, g \in Calls : e = Char("[", ink) /\ f = Char("]", Grey) /\ g = Char(" ", Grey)
        BY <4>1
      <4>3. <<e>> \in Seq(Calls) /\ <<f, g>> \in Seq(Calls)
        OBVIOUS
      <4> QED BY <4>2, <4>3
    <3>4. <<Char("[", ink)>> \o Sheet!Inked(tag, tagInk) \in Seq(Calls)
      BY <3>2, <3>3, ConcatProperties
    <3>5. Prefix(level) \in Seq(Calls) /\ PutAll(message) \in Seq(Calls) /\ <<Put(Newline)>> \in Seq(Calls)
      <4>1. Prefix(level) \in Seq(Calls)
        BY <1>4, WritesPrefix DEF Writes
      <4>2. PutAll(message) \in Seq(Calls)
        BY <1>1, PutAllIs
      <4>3. Put(Newline) \in Calls
        BY <1>2, CallTypes
      <4> QED BY <4>1, <4>2, <4>3
    <3> QED BY <3>1, <3>3, <3>4, <3>5
  <2>2. PICK d \in Seq(Calls) : d = Sheet!Inked(message \o <<"\n">>, Grey)
    <3>1. <<Newline>> \in Seq(Strings)
      BY <1>2
    <3>2. message \o <<Newline>> \in Seq(Strings)
      BY <1>1, <3>1, InkedConcat
    <3> QED BY <3>2, InkedIs, Literals DEF Newline
  <2>3. Writes(p, ink, a \o b, Grey)
    BY <1>4, <2>1, WritesPrefix
  <2>4. Writes(m \o n, Grey, d, Grey)
    BY <1>3, <2>1, <2>2, Literals
  <2>5. Writes(p \o (m \o n), ink, (a \o b) \o d, Grey)
    BY <2>3, <2>4, WritesConcat
  <2>6. p \o (m \o n) = (p \o m) \o n /\ (a \o b) \o d = a \o (b \o d)
    <3>1. (p \o m) \o n = p \o (m \o n)
      BY Associative, ZenonT(40)
    <3>2. (a \o b) \o d = a \o (b \o d)
      BY Associative, SMTT(20)
    <3> QED BY <3>1, <3>2
  <2>7. LogLine(level, message) = (p \o m) \o n
    BY <1>4, <2>1 DEF LogLine
  <2>8. Sheet!Line(level, message, ink) = a \o (b \o d)
    <3>1. Sheet!Inked(<<"[">>, ink) = <<Char("[", ink)>>
      BY DEF Sheet!Inked, Char
    <3>2. Sheet!Inked(<<"]", " ">>, Grey) = <<Char("]", Grey), Char(" ", Grey)>>
      BY InkedTwo, Literals, ZenonT(40) DEF Chars
    <3>3. PICK u \in Seq(Strings), v \in Seq(Strings), w \in Seq(Strings) : u = <<"]", " ">> /\ v = message /\ w = <<"\n">>
      <4>1. <<"]", " ">> \in Seq(Strings) /\ <<"\n">> \in Seq(Strings)
        <5>1. PICK e \in Strings, f \in Strings, g \in Strings : e = "]" /\ f = " " /\ g = "\n"
          BY Literals DEF Chars, Newline
        <5>2. <<e, f>> \in Seq(Strings) /\ <<g>> \in Seq(Strings)
          OBVIOUS
        <5> QED BY <5>1, <5>2
      <4> QED BY <1>1, <4>1
    <3>4. (u \o v) \o w = u \o (v \o w) /\ v \o w \in Seq(Strings)
      <4>1. v \o w \in Seq(Strings)
        BY ConcatProperties
      <4>2. (u \o v) \o w = u \o (v \o w)
        BY Associative, ZenonT(40)
      <4> QED BY <4>1, <4>2
    <3>5. Sheet!Inked(u \o (v \o w), Grey) = Sheet!Inked(u, Grey) \o Sheet!Inked(v \o w, Grey)
      BY <3>4, InkedConcat, Literals
    <3>6. Sheet!Inked((<<"]", " ">> \o message) \o <<"\n">>, Grey) = b \o d
      BY <2>1, <2>2, <3>2, <3>3, <3>4, <3>5
    <3> QED BY <1>4, <2>1, <3>1, <3>6 DEF Sheet!Line
  <2> QED BY <1>4, <2>5, <2>6, <2>7, <2>8
<1>5. CASE level \notin DOMAIN Tag
  <2>1. PutAll(message) \in Seq(Calls)
    BY <1>1, PutAllIs
  <2>2. LogLine(level, message) = PutAll(message) \o <<Put(Newline)>>
    BY <1>5, <2>1, ConcatEmptySeq DEF LogLine
  <2>3. Sheet!Line(level, message, ink) = Sheet!Inked(message \o <<"\n">>, ink)
    BY <1>5 DEF Sheet!Line
  <2> QED BY <1>3, <1>5, <2>2, <2>3
<1> QED BY <1>4, <1>5

-----------------------------------------------------------------------------
\* A call is setTextColor's.  (This hides "", which one of the provers cannot read.)
Colors(c) == c.ch = ""

LEMMA ColorsIs ==
  /\ \A ch \in Chars : Put(ch) \in Calls /\ ~Colors(Put(ch))
  /\ \A c \in Strings : SetTextColor(c) \in Calls /\ Colors(SetTextColor(c))
<1>1. \A ch \in Chars : ch \in Strings /\ ch # ""
  BY DEF Chars
<1> QED BY <1>1, CallTypes, Zenon DEF Colors

\* Behind a call that chooses a colour comes a character: the colour is that of
\* the next one to be written.
Paired(s) == s \in Seq(Calls) /\ \A k \in 1 .. Len(s) : Colors(s[k]) => k < Len(s) /\ ~Colors(s[k + 1])

LEMMA PairedConcat ==
  ASSUME NEW p, NEW q, Paired(p), Paired(q)
  PROVE  Paired(p \o q)
<1>1. PICK m \in Nat, n \in Nat : m = Len(p) /\ n = Len(q)
  BY DEF Paired
<1>2. PICK r \in Seq(Calls) : r = p \o q
  BY ConcatProperties DEF Paired
<1>3. Len(r) = m + n /\ \A k \in 1 .. m + n : r[k] = IF k <= m THEN p[k] ELSE q[k - m]
  BY <1>1, <1>2, ConcatProperties DEF Paired
<1>4. ASSUME NEW k \in 1 .. m + n, Colors(r[k]) PROVE k < m + n /\ ~Colors(r[k + 1])
  <2>1. CASE k <= m
    <3>1. k \in 1 .. m /\ r[k] = p[k]
      BY <1>3, <2>1
    <3>2. k < m /\ ~Colors(p[k + 1])
      BY <1>1, <1>4, <3>1 DEF Paired
    <3>3. k + 1 \in 1 .. m + n /\ k + 1 <= m
      BY <3>2
    <3> QED BY <1>3, <3>2, <3>3
  <2>2. CASE ~(k <= m)
    <3>1. PICK l \in 1 .. n : l = k - m /\ r[k] = q[l]
      BY <1>3, <2>2
    <3>2. l < n /\ ~Colors(q[l + 1])
      BY <1>1, <1>4, <3>1 DEF Paired
    <3>3. k + 1 \in 1 .. m + n /\ ~(k + 1 <= m) /\ (k + 1) - m = l + 1
      BY <2>2, <3>1, <3>2
    <3>4. r[k + 1] = q[l + 1]
      BY <1>3, <3>3
    <3> QED BY <3>2, <3>3, <3>4
  <2> QED BY <2>1, <2>2
<1> QED BY <1>2, <1>3, <1>4 DEF Paired

LEMMA PairedTail ==
  ASSUME NEW s, Paired(s), s # <<>>
  PROVE  /\ Paired(Tail(s))
         /\ Colors(Head(s)) => Tail(s) # <<>> /\ ~Colors(Head(Tail(s)))
<1>1. PICK n \in Nat : n = Len(s) /\ n > 0
  BY DEF Paired
<1>2. PICK r \in Seq(Calls) : r = Tail(s)
  BY HeadTailProperties DEF Paired
<1>3. Len(r) = n - 1 /\ \A k \in 1 .. n - 1 : r[k] = s[k + 1]
  BY <1>1, <1>2, HeadTailProperties DEF Paired
<1>4. ASSUME NEW k \in 1 .. n - 1, Colors(r[k]) PROVE k < n - 1 /\ ~Colors(r[k + 1])
  <2>1. k + 1 \in 1 .. n /\ r[k] = s[k + 1]
    BY <1>3
  <2>2. k + 1 < n /\ ~Colors(s[(k + 1) + 1])
    BY <1>1, <1>4, <2>1 DEF Paired
  <2>3. k + 1 \in 1 .. n - 1
    BY <2>2
  <2> QED BY <1>3, <2>2, <2>3
<1>5. ASSUME Colors(Head(s)) PROVE r # <<>> /\ ~Colors(Head(r))
  <2>1. Head(s) = s[1] /\ 1 \in 1 .. n
    BY <1>1 DEF Paired
  <2>2. 1 < n /\ ~Colors(s[1 + 1])
    BY <1>1, <1>5, <2>1 DEF Paired
  <2>3. r[1] = s[1 + 1] /\ Len(r) > 0
    BY <1>3, <2>2
  <2> QED BY <2>2, <2>3
<1> QED BY <1>2, <1>3, <1>4, <1>5 DEF Paired

\* Characters need no partner, a colour has one in the call that follows.
LEMMA PairedAll ==
  ASSUME NEW chars \in Seq(Chars) PROVE Paired(PutAll(chars))
<1>1. PICK n \in Nat : n = Len(chars)
  OBVIOUS
<1>2. PICK s \in Seq(Calls) : s = PutAll(chars) /\ Len(s) = n /\ \A k \in 1 .. n : s[k] = Put(chars[k])
  BY <1>1, PutAllIs
<1>3. ASSUME NEW k \in 1 .. n PROVE ~Colors(s[k])
  <2>1. chars[k] \in Chars
    BY <1>1
  <2> QED BY <1>2, <2>1, ColorsIs
<1> QED BY <1>2, <1>3 DEF Paired

LEMMA PairedColor ==
  ASSUME NEW q, Paired(q), q # <<>>, ~Colors(q[1]), NEW c \in Strings
  PROVE  Paired(<<SetTextColor(c)>> \o q)
<1>1. PICK n \in Nat : n = Len(q) /\ n > 0
  BY DEF Paired
<1>2. PICK p \in Seq(Calls) : p = <<SetTextColor(c)>> /\ Len(p) = 1
  <2>1. PICK d \in Calls : d = SetTextColor(c)
    BY ColorsIs
  <2>2. <<d>> \in Seq(Calls) /\ Len(<<d>>) = 1
    OBVIOUS
  <2> QED BY <2>1, <2>2
<1>3. PICK r \in Seq(Calls) : r = p \o q
  BY ConcatProperties DEF Paired
<1>4. Len(r) = 1 + n /\ \A k \in 1 .. 1 + n : r[k] = IF k <= 1 THEN p[k] ELSE q[k - 1]
  BY <1>1, <1>2, <1>3, ConcatProperties DEF Paired
<1>5. ASSUME NEW k \in 1 .. 1 + n, Colors(r[k]) PROVE k < 1 + n /\ ~Colors(r[k + 1])
  <2>1. CASE k = 1
    <3>1. k + 1 \in 1 .. 1 + n /\ ~(k + 1 <= 1) /\ (k + 1) - 1 = 1
      BY <1>1, <2>1
    <3>2. r[k + 1] = q[1]
      BY <1>4, <3>1
    <3> QED BY <1>1, <2>1, <3>2
  <2>2. CASE k # 1
    <3>1. PICK l \in 1 .. n : l = k - 1 /\ r[k] = q[l]
      BY <1>4, <2>2
    <3>2. l < n /\ ~Colors(q[l + 1])
      BY <1>1, <1>5, <3>1 DEF Paired
    <3>3. k + 1 \in 1 .. 1 + n /\ ~(k + 1 <= 1) /\ (k + 1) - 1 = l + 1
      BY <3>1, <3>2
    <3>4. r[k + 1] = q[l + 1]
      BY <1>4, <3>3
    <3> QED BY <3>2, <3>3, <3>4
  <2> QED BY <2>1, <2>2
<1> QED BY <1>2, <1>3, <1>4, <1>5 DEF Paired

\* Characters one after the other, the first of them.
LEMMA PutAllFirst ==
  ASSUME NEW chars \in Seq(Chars), chars # <<>>
  PROVE  PutAll(chars) # <<>> /\ ~Colors(PutAll(chars)[1])
<1>1. Len(chars) \in Nat /\ Len(chars) > 0 /\ chars[1] \in Chars
  OBVIOUS
<1>2. PICK s \in Seq(Calls) : s = PutAll(chars) /\ Len(s) = Len(chars) /\ s[1] = Put(chars[1])
  BY <1>1, PutAllIs
<1> QED BY <1>1, <1>2, ColorsIs

LEMMA PairedLine ==
  ASSUME NEW level, NEW message \in Messages \cup {KernelPanic, StackSmashing}
  PROVE  Paired(LogLine(level, message))
<1>1. Paired(PutAll(message))
  BY MessageChars, PairedAll
<1>2. \A ch \in Chars : Paired(<<Put(ch)>>)
  <2> SUFFICES ASSUME NEW ch \in Chars PROVE Paired(<<Put(ch)>>)
    OBVIOUS
  <2>1. PICK c \in Calls : c = Put(ch) /\ ~Colors(c)
    BY ColorsIs
  <2>2. <<c>> \in Seq(Calls) /\ Len(<<c>>) = 1 /\ <<c>>[1] = c
    OBVIOUS
  <2> QED BY <2>1, <2>2 DEF Paired
<1>3. Paired(<<Put(Newline)>>)
  BY <1>2, Literals
<1>4. Paired(<<>>)
  BY DEF Paired
<1>5. ASSUME level \in DOMAIN Tag PROVE Paired(Prefix(level))
  <2>1. PICK tag \in Seq(Chars), tagInk \in Strings : tag = Tag[level] /\ tagInk = TagInk[level] /\ tag # <<>>
    BY <1>5, Tags
  <2>2. Paired(<<SetTextColor(tagInk)>> \o PutAll(tag))
    BY <2>1, PairedAll, PutAllFirst, PairedColor
  <2>3. Paired(<<Put("[")>>) /\ Paired(<<Put("]")>>) /\ Paired(<<Put(" ")>>)
    BY <1>2, Literals
  <2>4. Paired(<<Put("[")>> \o (<<SetTextColor(tagInk)>> \o PutAll(tag)))
    BY <2>2, <2>3, PairedConcat
  <2>5. <<Put("[")>> \o (<<SetTextColor(tagInk)>> \o PutAll(tag)) = <<Put("["), SetTextColor(tagInk)>> \o PutAll(tag)
    <3>1. PICK a \in Seq(Calls), b \in Seq(Calls), t \in Seq(Calls) :
            a = <<Put("[")>> /\ b = <<SetTextColor(tagInk)>> /\ t = PutAll(tag)
      <4>1. Put("[") \in Calls /\ SetTextColor(tagInk) \in Calls
        BY CallTypes, ColorsIs, Literals DEF Chars
      <4>2. <<Put("[")>> \in Seq(Calls) /\ <<SetTextColor(tagInk)>> \in Seq(Calls)
        BY <4>1
      <4> QED BY <4>2, PutAllIs
    <3>2. (a \o b) \o t = a \o (b \o t)
      BY Associative
    <3>3. a \o b = <<Put("["), SetTextColor(tagInk)>>
      BY <3>1, ShortSeqs, Zenon
    <3> QED BY <3>1, <3>2, <3>3
  <2>6. Paired(<<SetTextColor(Grey), Put("]"), Put(" ")>>)
    <3>1. Paired(<<Put("]")>> \o <<Put(" ")>>)
      BY <2>3, PairedConcat
    <3>2. PICK c \in Calls, d \in Calls : c = Put("]") /\ d = Put(" ") /\ ~Colors(c)
      BY CallTypes, ColorsIs, Literals DEF Chars
    <3>3. <<c>> \o <<d>> = <<c, d>>
      BY ShortSeqs, Zenon
    <3>4. <<c, d>> # <<>> /\ ~Colors(<<c, d>>[1])
      BY <3>2
    <3>5. Paired(<<SetTextColor(Grey)>> \o (<<c>> \o <<d>>))
      BY <3>1, <3>2, <3>3, <3>4, Literals, PairedColor
    <3> QED BY <3>2, <3>5, ShortSeqs, Zenon
  <2>7. Paired((<<Put("["), SetTextColor(tagInk)>> \o PutAll(tag)) \o <<SetTextColor(Grey), Put("]"), Put(" ")>>)
    BY <2>4, <2>5, <2>6, PairedConcat
  <2> QED BY <2>1, <2>7 DEF Prefix
<1>6. Paired(IF level \in DOMAIN Tag THEN Prefix(level) ELSE <<>>)
  BY <1>4, <1>5
<1>7. Paired((IF level \in DOMAIN Tag THEN Prefix(level) ELSE <<>>) \o PutAll(message))
  BY <1>1, <1>6, PairedConcat
<1>8. Paired(((IF level \in DOMAIN Tag THEN Prefix(level) ELSE <<>>) \o PutAll(message)) \o <<Put(Newline)>>)
  BY <1>3, <1>7, PairedConcat
<1> QED BY <1>8 DEF LogLine

-----------------------------------------------------------------------------
\* The sheet.
Backs == Grounds \cup {Black, "any"}
Inks == Strings \cup {"any"}
CellSet == [ch : Strings \cup {"old"}, ink : Inks, ground : Backs]
RowSet == [0 .. width - 1 -> CellSet]
SheetOf(sc, m) == sc \o [r \in 1 .. height |-> SeenRow(m, r - 1)]

LEMMA Sizes == width \in Nat /\ width > 0 /\ height \in Nat /\ height > 0 /\ Byte \in Nat /\ Byte > 0
BY ScreenAssumption

\* Row and column of a cell, and back.
LEMMA CellAt ==
  ASSUME NEW r \in 0 .. height - 1, NEW i \in 0 .. width - 1
  PROVE  /\ r * width + i \in Cells /\ (r * width + i) \div width = r
         /\ \A s \in 0 .. height - 1, j \in 0 .. width - 1 :
              r * width + i = s * width + j => r = s /\ i = j
<1>1. r * width + i \in Cells
  <2>1. PICK d \in Nat : height = r + 1 + d
    <3>1. height - 1 - r \in Nat /\ height = r + 1 + (height - 1 - r)
      BY Sizes
    <3> QED BY <3>1
  <2>2. height * width = (r + 1 + d) * width /\ (r + 1 + d) * width = r * width + width + d * width
    BY <2>1, Sizes
  <2>3. r * width \in Nat /\ d * width \in Nat /\ width * height = height * width
    BY <2>1, Sizes, NatTimes
  <2>4. width * height = r * width + width + d * width
    BY <2>2, <2>3
  <2>5. r * width + i \in 0 .. width * height - 1
    <3>1. PICK a \in Nat, b \in Nat : a = r * width /\ b = d * width
      BY <2>3
    <3> QED BY <2>4, <3>1, Sizes
  <2> QED BY <2>5 DEF Cells
<1>2. \A s \in 0 .. height - 1, j \in 0 .. width - 1 : (s * width + j) \div width = s /\ (s * width + j) % width = j
  <2>1. ASSUME NEW s \in 0 .. height - 1, NEW j \in 0 .. width - 1
        PROVE  (s * width + j) \div width = s /\ (s * width + j) % width = j
    <3>1. s \in Nat /\ width \in Nat \ {0}
      BY Sizes
    <3> QED BY <3>1, DivMod
  <2> QED BY <2>1
<1>3. ASSUME NEW s \in 0 .. height - 1, NEW j \in 0 .. width - 1, r * width + i = s * width + j
      PROVE  r = s /\ i = j
  <2>1. r = (r * width + i) \div width /\ i = (r * width + i) % width
    BY <1>2, Zenon
  <2>2. s = (s * width + j) \div width /\ j = (s * width + j) % width
    BY <1>2, Zenon
  <2> QED BY <1>3, <2>1, <2>2, Zenon
<1> QED BY <1>1, <1>2, <1>3, Zenon

LEMMA Reinked ==
  ASSUME NEW c, NEW i, NEW o, NEW v
  PROVE  [[ch |-> c, ink |-> i, ground |-> o] EXCEPT !.ink = v] = [ch |-> c, ink |-> v, ground |-> o]
<1> DEFINE r == [ch |-> c, ink |-> i, ground |-> o]
           e == [r EXCEPT !.ink = v]
           t == [ch |-> c, ink |-> v, ground |-> o]
           S == [ch : {c}, ink : {i, v}, ground : {o}]
<1>1. r \in S
  OBVIOUS
<1>2. e \in S /\ e.ch = c /\ e.ink = v /\ e.ground = o
  <2>1. r.ch = c /\ r.ground = o
    OBVIOUS
  <2> HIDE DEF r
  <2> QED BY <1>1, <2>1
<1>3. t \in S /\ t.ch = c /\ t.ink = v /\ t.ground = o
  OBVIOUS
<1>4. ASSUME NEW a \in S, NEW b \in S, a.ch = b.ch, a.ink = b.ink, a.ground = b.ground PROVE a = b
  BY <1>4
<1> HIDE DEF e, t, S
<1>5. e = t
  BY <1>2, <1>3, <1>4
<1> QED BY <1>5 DEF e, t

\* What is seen of an entry.
LEMMA SeenIs ==
  /\ \A ch, ink, on : Seen(vgaEntry(ch, vgaColor(ink, on))) = Sheet!Cell(ch, ink, on)
  /\ Seen(Scratch) = Scratch
  /\ \A c \in CellSet : Seen(c) \in CellSet
<1>1. \A ch, ink, on : Seen(vgaEntry(ch, vgaColor(ink, on))) = Sheet!Cell(ch, ink, on)
  <2> SUFFICES ASSUME NEW ch, NEW ink, NEW on
               PROVE  Seen(vgaEntry(ch, vgaColor(ink, on))) = Sheet!Cell(ch, ink, on)
    OBVIOUS
  <2>1. vgaEntry(ch, vgaColor(ink, on)) = [ch |-> ch, ink |-> ink, ground |-> on]
    BY DEF vgaEntry, vgaColor
  <2>2. [[ch |-> ch, ink |-> ink, ground |-> on] EXCEPT !.ink = IF ch = " " THEN NoInk ELSE @]
          = [ch |-> ch, ink |-> IF ch = " " THEN NoInk ELSE ink, ground |-> on]
    <3>1. CASE ch = " "
      <4>1. [[ch |-> ch, ink |-> ink, ground |-> on] EXCEPT !.ink = NoInk] = [ch |-> ch, ink |-> NoInk, ground |-> on]
        BY Reinked
      <4> QED BY <3>1, <4>1
    <3>2. CASE ch # " "
      BY <3>2
    <3> QED BY <3>1, <3>2
  <2> QED BY <2>1, <2>2 DEF Seen, Sheet!Cell
<1>2. Seen(Scratch) = Scratch
  BY DEF Seen, Scratch, vgaEntry, vgaColor
<1>3. NoInk \in Inks
  BY DEF Inks, Strings
<1>4. \A c \in CellSet : Seen(c) \in CellSet
  BY <1>3 DEF CellSet, Seen
<1> QED BY <1>1, <1>2, <1>4

LEMMA EntryType ==
  /\ \A ch \in Strings, ink \in Strings, on \in Backs : vgaEntry(ch, vgaColor(ink, on)) \in CellSet
  /\ Scratch \in CellSet
<1>1. \A ch \in Strings, ink \in Strings, on \in Backs : vgaEntry(ch, vgaColor(ink, on)) \in CellSet
  BY DEF vgaEntry, vgaColor, CellSet, Inks
<1>2. "any" \in Inks /\ "any" \in Backs
  BY DEF Inks, Backs
<1>3. Scratch \in CellSet
  BY <1>2 DEF Scratch, vgaEntry, vgaColor, CellSet
<1> QED BY <1>1, <1>3

LEMMA SeenRowIs ==
  ASSUME NEW m \in [Cells -> CellSet], NEW r \in 0 .. height - 1
  PROVE  /\ SeenRow(m, r) \in RowSet
         /\ \A i \in 0 .. width - 1 : SeenRow(m, r)[i] = Seen(m[r * width + i])
<1>1. \A i \in 0 .. width - 1 : r * width + i \in Cells
  BY CellAt
<1>2. \A i \in 0 .. width - 1 : Seen(m[r * width + i]) \in CellSet
  BY <1>1, SeenIs
<1> QED BY <1>2 DEF SeenRow, RowSet

LEMMA SameRows ==
  ASSUME NEW a \in RowSet, NEW b \in RowSet, \A i \in 0 .. width - 1 : a[i] = b[i]
  PROVE  a = b
<1>1. a = [i \in 0 .. width - 1 |-> a[i]] /\ b = [i \in 0 .. width - 1 |-> b[i]]
  BY DEF RowSet
<1>2. [i \in 0 .. width - 1 |-> a[i]] = [i \in 0 .. width - 1 |-> b[i]]
  OBVIOUS
<1> QED BY <1>1, <1>2, Zenon

\* The rows of the sheet.
LEMMA SheetRows ==
  ASSUME NEW sc \in Seq(RowSet), NEW m \in [Cells -> CellSet]
  PROVE  /\ SheetOf(sc, m) \in Seq(RowSet) /\ Len(SheetOf(sc, m)) = Len(sc) + height
         /\ \A k \in 1 .. Len(sc) : SheetOf(sc, m)[k] = sc[k]
         /\ \A r \in 0 .. height - 1 : SheetOf(sc, m)[Len(sc) + r + 1] = SeenRow(m, r)
<1>1. PICK n \in Nat, h \in Nat : n = Len(sc) /\ h = height
  BY Sizes
<1> DEFINE f == [r \in 1 .. h |-> SeenRow(m, r - 1)]
<1>2. \A r \in 1 .. h : SeenRow(m, r - 1) \in RowSet
  <2>1. \A r \in 1 .. h : r - 1 \in 0 .. height - 1
    BY <1>1
  <2> QED BY <2>1, SeenRowIs
<1>3. PICK q \in Seq(RowSet) : q = f /\ Len(q) = h /\ \A r \in 1 .. h : q[r] = SeenRow(m, r - 1)
  <2>1. f \in Seq(RowSet) /\ Len(f) = h
    BY <1>2
  <2> QED BY <2>1
<1>4. PICK p \in Seq(RowSet) : p = sc \o q
  BY ConcatProperties
<1>5. Len(p) = n + h /\ \A k \in 1 .. n + h : p[k] = IF k <= n THEN sc[k] ELSE q[k - n]
  <2>1. /\ Len(sc \o q) = Len(sc) + Len(q)
        /\ \A k \in 1 .. Len(sc) + Len(q) : (sc \o q)[k] = IF k <= Len(sc) THEN sc[k] ELSE q[k - Len(sc)]
    BY ConcatProperties
  <2> QED BY <1>1, <1>3, <1>4, <2>1
<1>6. p = SheetOf(sc, m)
  BY <1>1, <1>3, <1>4 DEF SheetOf
<1>7. \A k \in 1 .. n : p[k] = sc[k]
  BY <1>5
<1>8. ASSUME NEW r \in 0 .. h - 1 PROVE p[n + r + 1] = SeenRow(m, r)
  <2>1. n + r + 1 \in 1 .. n + h /\ ~(n + r + 1 <= n) /\ (n + r + 1) - n = r + 1 /\ r + 1 \in 1 .. h /\ (r + 1) - 1 = r
    OBVIOUS
  <2>2. p[n + r + 1] = q[r + 1]
    <3>1. PICK k \in 1 .. n + h : k = n + r + 1 /\ ~(k <= n) /\ k - n = r + 1
      BY <2>1
    <3>2. p[k] = q[k - n]
      BY <1>5, <3>1
    <3> QED BY <3>1, <3>2
  <2>3. q[r + 1] = SeenRow(m, (r + 1) - 1)
    BY <1>3, <2>1
  <2> QED BY <2>1, <2>2, <2>3
<1> QED BY <1>1, <1>5, <1>6, <1>7, <1>8

\* A character written into a cell is written on its row of the sheet.
Overwritten(m, k, ch, ink, on) == [m EXCEPT ![k] = vgaEntry(ch, vgaColor(ink, on))]
WrittenOn(s, row, i, ch, ink, on) == [s EXCEPT ![row][i] = Sheet!Cell(ch, ink, on)]

LEMMA WriteCell ==
  ASSUME NEW sc \in Seq(RowSet), NEW m \in [Cells -> CellSet],
         NEW r \in 0 .. height - 1, NEW i \in 0 .. width - 1,
         NEW ch \in Strings, NEW ink \in Strings, NEW on \in Backs
  PROVE  /\ Overwritten(m, r * width + i, ch, ink, on) \in [Cells -> CellSet]
         /\ SheetOf(sc, Overwritten(m, r * width + i, ch, ink, on))
              = WrittenOn(SheetOf(sc, m), Len(sc) + r + 1, i, ch, ink, on)
<1>0. PICK c \in CellSet : c = vgaEntry(ch, vgaColor(ink, on)) /\ Seen(c) = Sheet!Cell(ch, ink, on) /\ Seen(c) \in CellSet
  BY EntryType, SeenIs
<1>1. PICK w \in [Cells -> CellSet] :
        /\ w = [m EXCEPT ![r * width + i] = c]
        /\ w[r * width + i] = c /\ \A k \in Cells : k # r * width + i => w[k] = m[k]
  <2>1. PICK k \in Cells : k = r * width + i
    BY CellAt
  <2>2. [m EXCEPT ![k] = c] \in [Cells -> CellSet]
    OBVIOUS
  <2> QED BY <2>1, <2>2
<1>2. PICK n \in Nat, h \in Nat : n = Len(sc) /\ h = height
  BY Sizes
<1>3. PICK s \in Seq(RowSet) :
        /\ s = SheetOf(sc, m) /\ Len(s) = n + h
        /\ \A k \in 1 .. n : s[k] = sc[k]
        /\ \A q \in 0 .. h - 1 : s[n + q + 1] = SeenRow(m, q)
  BY <1>2, SheetRows
<1>4. PICK t \in Seq(RowSet) :
        /\ t = SheetOf(sc, w) /\ Len(t) = n + h
        /\ \A k \in 1 .. n : t[k] = sc[k]
        /\ \A q \in 0 .. h - 1 : t[n + q + 1] = SeenRow(w, q)
  BY <1>2, SheetRows, ZenonT(40)
<1>5. n + r + 1 \in 1 .. n + h
  BY <1>2
<1>6. PICK row \in RowSet : row = [s[n + r + 1] EXCEPT ![i] = Seen(c)]
  <2>1. s[n + r + 1] \in RowSet
    BY <1>3, <1>5
  <2> QED BY <1>0, <2>1 DEF RowSet
<1>7. PICK u \in Seq(RowSet) : /\ u = [s EXCEPT ![n + r + 1] = row] /\ Len(u) = n + h
                               /\ u[n + r + 1] = row /\ \A k \in 1 .. n + h : k # n + r + 1 => u[k] = s[k]
  <2>1. PICK u \in Seq(RowSet) : u = [s EXCEPT ![n + r + 1] = row]
    BY <1>3, <1>5, ExceptSeq
  <2>2. Len(u) = n + h /\ u[n + r + 1] = row /\ \A k \in 1 .. n + h : k # n + r + 1 => u[k] = s[k]
    BY <1>3, <1>5, <2>1
  <2> QED BY <2>1, <2>2
<1>8. ASSUME NEW q \in 0 .. height - 1, q # r PROVE SeenRow(w, q) = SeenRow(m, q)
  <2>1. ASSUME NEW j \in 0 .. width - 1 PROVE Seen(w[q * width + j]) = Seen(m[q * width + j])
    <3>1. q * width + j \in Cells /\ q * width + j # r * width + i
      BY <1>8, CellAt
    <3> QED BY <1>1, <3>1
  <2> QED BY <2>1 DEF SeenRow
<1>9. SeenRow(w, r) = row
  <2>1. PICK a \in RowSet, b \in RowSet :
          /\ a = SeenRow(w, r) /\ \A j \in 0 .. width - 1 : a[j] = Seen(w[r * width + j])
          /\ b = SeenRow(m, r) /\ \A j \in 0 .. width - 1 : b[j] = Seen(m[r * width + j])
    BY SeenRowIs
  <2>2. row = [b EXCEPT ![i] = Seen(c)]
    <3>1. r \in 0 .. h - 1
      BY <1>2
    <3> QED BY <1>3, <1>6, <2>1, <3>1
  <2>3. ASSUME NEW j \in 0 .. width - 1 PROVE a[j] = row[j]
    <3>1. CASE j = i
      <4>1. a[j] = Seen(c)
        BY <1>1, <2>1, <3>1
      <4> QED BY <2>2, <3>1, <4>1 DEF RowSet
    <3>2. CASE j # i
      <4>1. r * width + j \in Cells /\ r * width + j # r * width + i
        BY <3>2, CellAt
      <4>2. a[j] = b[j]
        BY <1>1, <2>1, <4>1
      <4> QED BY <2>2, <3>2, <4>2 DEF RowSet
    <3> QED BY <3>1, <3>2
  <2> QED BY <2>1, <2>3, SameRows
<1>10. ASSUME NEW k \in 1 .. Len(t) PROVE t[k] = u[k]
  <2>1. CASE k \in 1 .. n
    <3>1. k # n + r + 1 /\ k \in 1 .. n + h
      BY <2>1
    <3> QED BY <1>3, <1>4, <1>7, <2>1, <3>1
  <2>2. CASE k \notin 1 .. n
    <3>1. PICK q \in 0 .. h - 1 : k = n + q + 1
      <4>1. k - n - 1 \in 0 .. h - 1 /\ k = n + (k - n - 1) + 1
        BY <1>4, <2>2
      <4> QED BY <4>1
    <3>2. t[k] = SeenRow(w, q) /\ s[k] = SeenRow(m, q) /\ q \in 0 .. height - 1
      BY <1>2, <1>3, <1>4, <3>1
    <3>3. CASE q = r
      BY <1>7, <1>9, <3>1, <3>2, <3>3
    <3>4. CASE q # r
      <4>1. k # n + r + 1 /\ k \in 1 .. n + h
        BY <3>1, <3>4
      <4> QED BY <1>7, <1>8, <3>2, <3>4, <4>1
    <3> QED BY <3>3, <3>4
  <2> QED BY <2>1, <2>2
<1>11. t = u
  BY <1>4, <1>7, <1>10, SeqEqual
<1> QED BY <1>0, <1>1, <1>2, <1>3, <1>4, <1>6, <1>7, <1>11 DEF Overwritten, WrittenOn

\* A row of blanks, in a colour.
BlankRow(c) == [i \in 0 .. width - 1 |-> Seen(vgaEntry(" ", c))]
Scrolled(m, c) == [i \in Cells |-> IF i \in Moved THEN m[i + width] ELSE
                                   IF i \div width = height - 1 THEN vgaEntry(" ", c) ELSE m[i]]
Wiped(c) == [i \in Cells |-> vgaEntry(" ", c)]

LEMMA BlankIs ==
  ASSUME NEW ink \in Strings, NEW on \in Backs
  PROVE  /\ BlankRow(vgaColor(ink, on)) \in RowSet /\ Wiped(vgaColor(ink, on)) \in [Cells -> CellSet]
         /\ BlankRow(vgaColor(ink, on)) = [i \in 0 .. width - 1 |-> Sheet!Cell(" ", NoInk, on)]
<1>1. vgaEntry(" ", vgaColor(ink, on)) \in CellSet
  BY EntryType, Literals DEF Chars
<1>2. Seen(vgaEntry(" ", vgaColor(ink, on))) = Sheet!Cell(" ", ink, on)
  BY SeenIs
<1>3. Sheet!Cell(" ", ink, on) = Sheet!Cell(" ", NoInk, on)
  BY DEF Sheet!Cell
<1>4. Seen(vgaEntry(" ", vgaColor(ink, on))) \in CellSet
  BY <1>1, SeenIs
<1> QED BY <1>1, <1>2, <1>3, <1>4 DEF BlankRow, Wiped, RowSet

\* The rows of a scrolled screen are those below them, and the last is blank.
LEMMA ScrolledRows ==
  ASSUME NEW m \in [Cells -> CellSet], NEW ink \in Strings, NEW on \in Backs
  PROVE  LET w == Scrolled(m, vgaColor(ink, on))
         IN  /\ w \in [Cells -> CellSet]
             /\ \A r \in 0 .. height - 2 : SeenRow(w, r) = SeenRow(m, r + 1)
             /\ SeenRow(w, height - 1) = BlankRow(vgaColor(ink, on))
<1>1. PICK c \in CellSet : c = vgaEntry(" ", vgaColor(ink, on))
  BY EntryType, Literals DEF Chars
<1>2. PICK w : w = Scrolled(m, vgaColor(ink, on))
  OBVIOUS
<1>3. ASSUME NEW r \in 0 .. height - 2, NEW i \in 0 .. width - 1
      PROVE  /\ r * width + i \in Cells /\ (r + 1) * width + i \in Cells /\ r * width + i \in Moved
             /\ (r * width + i) + width = (r + 1) * width + i
  <2>1. r \in 0 .. height - 1 /\ r + 1 \in 0 .. height - 1 /\ r < height - 1
    BY Sizes
  <2>2. r * width + i \in Cells /\ (r + 1) * width + i \in Cells /\ (r * width + i) \div width = r
    BY <2>1, CellAt
  <2>3. (r + 1) * width = r * width + width /\ r * width \in Nat
    BY Sizes, NatTimes
  <2>4. (r * width + i) + width = (r + 1) * width + i
    <3>1. PICK a \in Nat : a = r * width
      BY <2>3
    <3> QED BY <2>3, <3>1, Sizes
  <2>5. r * width + i \in Moved
    BY <2>1, <2>2, Zenon DEF Moved
  <2> QED BY <2>2, <2>4, <2>5
<1>4. ASSUME NEW k \in Cells PROVE k \div width \in 0 .. height - 1 /\ k % width \in 0 .. width - 1
                                   /\ k = (k \div width) * width + (k % width)
  <2>1. k \in Nat /\ width \in Nat \ {0}
    BY Sizes DEF Cells
  <2>2. /\ k \div width \in Nat /\ k % width \in 0 .. width - 1
        /\ k = (k \div width) * width + (k % width)
    BY <2>1, DivIs
  <2>3. k \div width <= height - 1
    <3>1. PICK q \in Nat, i \in 0 .. width - 1 : q = k \div width /\ k = q * width + i
      BY <2>2
    <3>2. ASSUME q >= height PROVE FALSE
      <4>1. PICK d \in Nat : q = height + d
        <5>1. q - height \in Nat /\ q = height + (q - height)
          BY <3>2, Sizes
        <5> QED BY <5>1
      <4>2. q * width = height * width + d * width /\ d * width \in Nat /\ height * width = width * height
        BY <4>1, Sizes, NatTimes
      <4>3. k <= width * height - 1 /\ width * height \in Nat
        BY Sizes, NatTimes DEF Cells
      <4>4. PICK a \in Nat, b \in Nat : a = width * height /\ b = d * width
        BY <4>2, <4>3
      <4> QED BY <3>1, <4>2, <4>3, <4>4, Sizes
    <3> QED BY <3>1, <3>2, Sizes
  <2> QED BY <2>2, <2>3, Sizes
<1>5. ASSUME NEW k \in Moved PROVE k + width \in Cells
  <2>1. k \in Cells /\ k \div width < height - 1
    BY DEF Moved
  <2>2. PICK q \in 0 .. height - 1, i \in 0 .. width - 1 : q = k \div width /\ k = q * width + i
    BY <1>4, <2>1
  <2>3. q \in 0 .. height - 2
    BY <2>1, <2>2, Sizes
  <2> QED BY <1>3, <2>2, <2>3
<1>6. w \in [Cells -> CellSet]
  <2>1. \A k \in Cells : (IF k \in Moved THEN m[k + width] ELSE IF k \div width = height - 1 THEN c ELSE m[k]) \in CellSet
    BY <1>5
  <2> QED BY <1>1, <1>2, <2>1 DEF Scrolled
<1>7. ASSUME NEW r \in 0 .. height - 2 PROVE SeenRow(w, r) = SeenRow(m, r + 1)
  <2>1. ASSUME NEW i \in 0 .. width - 1 PROVE w[r * width + i] = m[(r + 1) * width + i]
    <3>1. r * width + i \in Cells /\ r * width + i \in Moved /\ (r * width + i) + width = (r + 1) * width + i
      BY <1>3
    <3>2. w[r * width + i] = m[(r * width + i) + width]
      BY <1>2, <3>1 DEF Scrolled
    <3> QED BY <3>1, <3>2
  <2> QED BY <2>1 DEF SeenRow
<1>8. SeenRow(w, height - 1) = BlankRow(vgaColor(ink, on))
  <2>1. ASSUME NEW i \in 0 .. width - 1 PROVE w[(height - 1) * width + i] = c
    <3>1. PICK k \in Cells : k = (height - 1) * width + i /\ k \div width = height - 1
      <4>1. height - 1 \in 0 .. height - 1
        BY Sizes
      <4> QED BY <4>1, CellAt
    <3>2. k \notin Moved
      BY <3>1, Sizes DEF Moved
    <3> QED BY <1>1, <1>2, <3>1, <3>2 DEF Scrolled
  <2> QED BY <1>1, <2>1 DEF SeenRow, BlankRow
<1> QED BY <1>2, <1>6, <1>7, <1>8

\* What scrolls off stays on the sheet, which grows by a blank row.
LEMMA ScrollIs ==
  ASSUME NEW sc \in Seq(RowSet), NEW m \in [Cells -> CellSet], NEW ink \in Strings, NEW on \in Backs
  PROVE  LET c == vgaColor(ink, on)
         IN  /\ Append(sc, SeenRow(m, 0)) \in Seq(RowSet) /\ Len(Append(sc, SeenRow(m, 0))) = Len(sc) + 1
             /\ SheetOf(Append(sc, SeenRow(m, 0)), Scrolled(m, c)) = Append(SheetOf(sc, m), BlankRow(c))
<1>1. PICK n \in Nat, h \in Nat : n = Len(sc) /\ h = height /\ h > 0
  BY Sizes
<1> DEFINE c == vgaColor(ink, on)
<1>2. PICK top \in RowSet, blank \in RowSet : top = SeenRow(m, 0) /\ blank = BlankRow(c)
  <2>1. 0 \in 0 .. height - 1
    BY Sizes
  <2> QED BY <2>1, SeenRowIs, BlankIs
<1>3. PICK w \in [Cells -> CellSet] :
        /\ w = Scrolled(m, c) /\ SeenRow(w, height - 1) = blank
        /\ \A r \in 0 .. height - 2 : SeenRow(w, r) = SeenRow(m, r + 1)
  BY <1>2, ScrolledRows
<1>4. PICK d \in Seq(RowSet) : /\ d = Append(sc, top) /\ Len(d) = n + 1
                               /\ d[n + 1] = top /\ \A k \in 1 .. n : d[k] = sc[k]
  <2>1. PICK d \in Seq(RowSet) : d = Append(sc, top)
    BY AppendProperties
  <2>2. Len(d) = n + 1 /\ d[n + 1] = top /\ \A k \in 1 .. n : d[k] = sc[k]
    BY <1>1, <2>1, AppendProperties
  <2> QED BY <2>1, <2>2
<1>5. PICK s \in Seq(RowSet) :
        /\ s = SheetOf(sc, m) /\ Len(s) = n + h
        /\ \A k \in 1 .. n : s[k] = sc[k]
        /\ \A q \in 0 .. h - 1 : s[n + q + 1] = SeenRow(m, q)
  BY <1>1, SheetRows, ZenonT(40)
<1>6. PICK t \in Seq(RowSet) :
        /\ t = SheetOf(d, w) /\ Len(t) = n + 1 + h
        /\ \A k \in 1 .. n + 1 : t[k] = d[k]
        /\ \A q \in 0 .. h - 1 : t[n + 1 + q + 1] = SeenRow(w, q)
  <2>1. PICK t \in Seq(RowSet) :
          /\ t = SheetOf(d, w) /\ Len(t) = Len(d) + height
          /\ \A k \in 1 .. Len(d) : t[k] = d[k]
          /\ \A q \in 0 .. height - 1 : t[Len(d) + q + 1] = SeenRow(w, q)
    BY SheetRows
  <2>2. Len(d) = n + 1 /\ height = h
    BY <1>1, <1>4
  <2> QED BY <2>1, <2>2
<1>7. PICK u \in Seq(RowSet) : /\ u = Append(s, blank) /\ Len(u) = n + h + 1
                               /\ u[n + h + 1] = blank /\ \A k \in 1 .. n + h : u[k] = s[k]
  <2>1. PICK u \in Seq(RowSet) : u = Append(s, blank)
    BY AppendProperties
  <2>2. Len(u) = n + h + 1 /\ u[n + h + 1] = blank /\ \A k \in 1 .. n + h : u[k] = s[k]
    <3>1. /\ Len(Append(s, blank)) = Len(s) + 1 /\ Append(s, blank)[Len(s) + 1] = blank
          /\ \A k \in 1 .. Len(s) : Append(s, blank)[k] = s[k]
      BY AppendProperties
    <3> QED BY <1>5, <2>1, <3>1
  <2> QED BY <2>1, <2>2
<1>8. ASSUME NEW k \in 1 .. Len(t) PROVE t[k] = u[k]
  <2>1. CASE k \in 1 .. n
    <3>1. k \in 1 .. n + 1 /\ k \in 1 .. n + h
      BY <1>1, <2>1
    <3> QED BY <1>4, <1>5, <1>6, <1>7, <2>1, <3>1
  <2>2. CASE k = n + 1
    <3>1. k \in 1 .. n + 1 /\ k \in 1 .. n + h /\ 0 \in 0 .. h - 1 /\ k = n + 0 + 1
      BY <1>1, <2>2
    <3>2. t[k] = top
      BY <1>4, <1>6, <2>2, <3>1
    <3>3. s[n + 0 + 1] = SeenRow(m, 0)
      BY <1>5, <3>1
    <3> QED BY <1>2, <1>7, <3>1, <3>2, <3>3
  <2>3. CASE k > n + 1
    <3>1. PICK q \in 0 .. h - 1 : k = n + 1 + q + 1
      <4>1. k - n - 2 \in 0 .. h - 1 /\ k = n + 1 + (k - n - 2) + 1
        BY <1>1, <1>6, <2>3
      <4> QED BY <4>1
    <3>2. t[k] = SeenRow(w, q)
      BY <1>6, <3>1
    <3>3. CASE q = h - 1
      <4>1. k = n + h + 1
        BY <3>1, <3>3
      <4>2. t[k] = blank
        BY <1>1, <1>3, <3>2, <3>3
      <4> QED BY <1>7, <4>1, <4>2
    <3>4. CASE q # h - 1
      <4>1. q \in 0 .. height - 2 /\ q + 1 \in 0 .. h - 1 /\ k = n + (q + 1) + 1 /\ k \in 1 .. n + h
        BY <1>1, <3>1, <3>4
      <4>2. t[k] = SeenRow(m, q + 1)
        BY <1>3, <3>2, <4>1
      <4>3. s[k] = SeenRow(m, q + 1)
        BY <1>5, <4>1
      <4> QED BY <1>7, <4>1, <4>2, <4>3
    <3> QED BY <3>3, <3>4
  <2>4. k \in 1 .. n \/ k = n + 1 \/ k > n + 1
    OBVIOUS
  <2> QED BY <2>1, <2>2, <2>3, <2>4
<1>9. t = u
  <2>1. Len(t) = Len(u)
    BY <1>6, <1>7
  <2> QED BY <1>8, <2>1, SeqEqual
<1> QED BY <1>1, <1>2, <1>3, <1>4, <1>5, <1>6, <1>7, <1>9

\* Clearing the screen blanks the rows that are on it.
LEMMA WipeIs ==
  ASSUME NEW sc \in Seq(RowSet), NEW m \in [Cells -> CellSet], NEW ink \in Strings, NEW on \in Backs
  PROVE  LET s == SheetOf(sc, m)
             c == vgaColor(ink, on)
         IN  SheetOf(sc, Wiped(c)) = [r \in DOMAIN s |-> IF r >= Len(s) - height + 1 THEN BlankRow(c) ELSE s[r]]
<1>1. PICK n \in Nat, h \in Nat : n = Len(sc) /\ h = height /\ h > 0
  BY Sizes
<1> DEFINE c == vgaColor(ink, on)
<1>2. PICK blank \in RowSet, w \in [Cells -> CellSet] : blank = BlankRow(c) /\ w = Wiped(c)
  BY BlankIs
<1>3. PICK s \in Seq(RowSet) :
        /\ s = SheetOf(sc, m) /\ Len(s) = n + h
        /\ \A k \in 1 .. n : s[k] = sc[k]
  BY <1>1, SheetRows
<1>4. PICK t \in Seq(RowSet) :
        /\ t = SheetOf(sc, w) /\ Len(t) = n + h
        /\ \A k \in 1 .. n : t[k] = sc[k]
        /\ \A q \in 0 .. h - 1 : t[n + q + 1] = SeenRow(w, q)
  BY <1>1, SheetRows, ZenonT(40)
<1>5. ASSUME NEW q \in 0 .. h - 1 PROVE SeenRow(w, q) = blank
  <2>1. \A i \in 0 .. width - 1 : q * width + i \in Cells
    BY <1>1, CellAt
  <2>2. \A i \in 0 .. width - 1 : w[q * width + i] = vgaEntry(" ", c)
    BY <1>2, <2>1 DEF Wiped
  <2> QED BY <1>2, <2>2 DEF SeenRow, BlankRow
<1>6. ASSUME NEW k \in 1 .. n + h PROVE t[k] = IF k >= n + 1 THEN blank ELSE s[k]
  <2>1. CASE k \in 1 .. n
    BY <1>3, <1>4, <2>1
  <2>2. CASE k >= n + 1
    <3>1. PICK q \in 0 .. h - 1 : k = n + q + 1
      <4>1. k - n - 1 \in 0 .. h - 1 /\ k = n + (k - n - 1) + 1
        BY <2>2
      <4> QED BY <4>1
    <3> QED BY <1>4, <1>5, <2>2, <3>1
  <2>3. k \in 1 .. n \/ k >= n + 1
    OBVIOUS
  <2> QED BY <2>1, <2>2, <2>3
<1>7. DOMAIN s = 1 .. n + h /\ Len(s) - height + 1 = n + 1 /\ t = [k \in 1 .. n + h |-> t[k]]
  BY <1>1, <1>3, <1>4
<1>8. t = [k \in 1 .. n + h |-> IF k >= n + 1 THEN blank ELSE s[k]]
  BY <1>6, <1>7
<1> QED BY <1>2, <1>3, <1>4, <1>7, <1>8

-----------------------------------------------------------------------------
\* What the cursor's registers make of it: it is on the screen, so that its
\* number fits two bytes.
LEMMA CursorIs ==
  ASSUME NEW pos \in Cells, NEW high, NEW low, high = (pos \div Byte) % Byte, low = pos % Byte
  PROVE  high * Byte + low = pos
<1>1. pos \in Nat /\ Byte \in Nat \ {0}
  BY Sizes DEF Cells
<1>2. PICK q \in Nat, r \in 0 .. Byte - 1 : q = pos \div Byte /\ r = pos % Byte /\ pos = q * Byte + r
  BY <1>1, DivIs
<1>3. q < Byte
  <2> SUFFICES ASSUME q >= Byte PROVE FALSE
    BY <1>1
  <2>1. PICK d \in Nat : q = Byte + d
    <3>1. q - Byte \in Nat /\ q = Byte + (q - Byte)
      BY <1>1
    <3> QED BY <3>1
  <2>2. q * Byte = Byte * Byte + d * Byte /\ d * Byte \in Nat /\ Byte * Byte \in Nat
    BY <1>1, <2>1, NatTimes
  <2>3. pos <= width * height - 1 /\ width * height \in Nat /\ width * height <= Byte * Byte
    BY Sizes, NatTimes, ScreenAssumption DEF Cells
  <2>4. PICK a \in Nat, b \in Nat, c \in Nat : a = Byte * Byte /\ b = d * Byte /\ c = width * height
    BY <2>2, <2>3
  <2> QED BY <1>2, <2>2, <2>3, <2>4
<1>4. q % Byte = q
  BY <1>1, <1>3
<1>5. high = q /\ low = r
  BY <1>2, <1>4
<1> QED BY <1>2, <1>5

\* What the refinement needs of a state besides the cursor's being on the screen.
Printable == /\ textColor \in Strings /\ backgroundColor \in Backs
             /\ memory \in [Cells -> CellSet] /\ scrolled \in Seq(RowSet)
             /\ Paired(todo)
IInv == TypeOK /\ Printable

LEMMA RowsAre ==
  ASSUME Printable
  PROVE  /\ Rows = SheetOf(scrolled, memory) /\ Rows \in Seq(RowSet)
         /\ Len(Rows) = Len(scrolled) + height
<1>1. Rows = SheetOf(scrolled, memory)
  BY DEF Rows, SheetOf
<1> QED BY <1>1, SheetRows DEF Printable

\* A character goes on the sheet where the next one goes.
LEMMA PutCharIs ==
  ASSUME IInv, NEW ch \in Strings, PutChar(ch)
  PROVE  LET newRow == ch = "\n" \/ (ch \notin Control /\ x = width - 1)
             written == IF ch = "\n" \/ ch \in Control THEN Rows
                        ELSE [Rows EXCEPT ![Row][x] = Sheet!Cell(ch, textColor, backgroundColor)]
         IN  /\ x' = IF newRow THEN 0 ELSE IF ch \in Control THEN x ELSE x + 1
             /\ Row' = IF newRow THEN Row + 1 ELSE Row
             /\ Rows' = IF Row' > Len(Rows) THEN Append(written, Sheet!Blank) ELSE written
             /\ Cursor' = (Row' - (Len(Rows') - height + 1)) * width + x'
             /\ memory' \in [Cells -> CellSet] /\ scrolled' \in Seq(RowSet)
<1> DEFINE printed == ch # Newline /\ ch \notin Control
           column == IF ch = Newline THEN 0 ELSE IF printed THEN x + 1 ELSE x
           wraps == Full(column)
           line == y + (IF ch = Newline THEN 1 ELSE 0) + (IF wraps THEN 1 ELSE 0)
           mem == IF printed THEN [memory EXCEPT ![y * width + x] = vgaEntry(ch, color)] ELSE memory
           newRow == ch = "\n" \/ (ch \notin Control /\ x = width - 1)
           written == IF ch = "\n" \/ ch \in Control THEN Rows
                      ELSE [Rows EXCEPT ![Row][x] = Sheet!Cell(ch, textColor, backgroundColor)]
<1>0. /\ x' = IF wraps \/ line >= height THEN 0 ELSE column
      /\ y' = IF line >= height THEN line - 1 ELSE line
      /\ memory' = IF line >= height THEN Scroll(mem) ELSE mem
      /\ scrolled' = IF line >= height THEN Append(scrolled, SeenRow(mem, 0)) ELSE scrolled
      /\ UpdateCursor(y' * width + x')
  BY DEF PutChar
<1>1. /\ x \in 0 .. width - 1 /\ y \in 0 .. height - 1 /\ color = vgaColor(textColor, backgroundColor)
      /\ textColor \in Strings /\ backgroundColor \in Backs
      /\ memory \in [Cells -> CellSet] /\ scrolled \in Seq(RowSet)
  BY DEF IInv, TypeOK, Printable
<1>2. Newline \notin Control /\ Newline = "\n"
  BY CharacterAssumption DEF Newline
<1>3. printed <=> ~(ch = "\n" \/ ch \in Control)
  BY <1>2
<1>4. /\ column = IF ch = "\n" THEN 0 ELSE IF ch \in Control THEN x ELSE x + 1
      /\ wraps <=> ch # "\n" /\ ch \notin Control /\ x = width - 1
      /\ line = IF newRow THEN y + 1 ELSE y
  BY <1>1, <1>2, Sizes DEF Full
<1>5. mem \in [Cells -> CellSet] /\ SheetOf(scrolled, mem) = written
  <2>1. CASE printed
    <3>1. /\ Overwritten(memory, y * width + x, ch, textColor, backgroundColor) \in [Cells -> CellSet]
          /\ SheetOf(scrolled, Overwritten(memory, y * width + x, ch, textColor, backgroundColor))
               = WrittenOn(SheetOf(scrolled, memory), Len(scrolled) + y + 1, x, ch, textColor, backgroundColor)
      BY <1>1, WriteCell
    <3>2. mem = Overwritten(memory, y * width + x, ch, textColor, backgroundColor)
      BY <1>1, <2>1 DEF Overwritten
    <3>3. written = WrittenOn(SheetOf(scrolled, memory), Len(scrolled) + y + 1, x, ch, textColor, backgroundColor)
      BY <1>3, <2>1 DEF Rows, Row, SheetOf, WrittenOn
    <3> HIDE DEF mem, written
    <3> QED BY <3>1, <3>2, <3>3
  <2>2. CASE ~printed
    <3>1. mem = memory /\ written = Rows
      BY <1>3, <2>2
    <3>2. Rows = SheetOf(scrolled, memory)
      BY RowsAre DEF IInv
    <3> HIDE DEF mem, written
    <3> QED BY <1>1, <3>1, <3>2
  <2> QED BY <2>1, <2>2
<1>6. PICK n \in Nat : n = Len(scrolled) /\ Len(Rows) = n + height /\ Row = n + y + 1
  BY <1>1, RowsAre DEF IInv, Row
<1> HIDE DEF mem, written
<1>7. Sheet!Blank = BlankRow(color)
  BY <1>1, BlankIs DEF Sheet!Blank
<1>8. /\ x' = IF newRow THEN 0 ELSE IF ch \in Control THEN x ELSE x + 1
      /\ Row' = IF newRow THEN Row + 1 ELSE Row
      /\ Rows' = IF Row' > Len(Rows) THEN Append(written, Sheet!Blank) ELSE written
      /\ Len(Rows') = Len(scrolled') + height
      /\ Row' - (Len(Rows') - height + 1) = y'
      /\ memory' \in [Cells -> CellSet] /\ scrolled' \in Seq(RowSet)
  <2>1. Rows' = SheetOf(scrolled', memory') /\ Row' = Len(scrolled') + y' + 1
    BY DEF Rows, Row, SheetOf
  <2>2. CASE line >= height
    <3>1. newRow /\ line = height /\ y = height - 1
      BY <1>1, <1>4, <2>2, Sizes
    <3>2. x' = 0 /\ y' = height - 1 /\ memory' = Scrolled(mem, color) /\ scrolled' = Append(scrolled, SeenRow(mem, 0))
      BY <1>0, <2>2, <3>1 DEF Scroll, Scrolled
    <3>3. /\ scrolled' \in Seq(RowSet) /\ Len(scrolled') = n + 1
          /\ Rows' = Append(written, Sheet!Blank)
      BY <1>1, <1>5, <1>6, <1>7, <2>1, <3>2, ScrollIs
    <3>4. memory' \in [Cells -> CellSet]
      BY <1>1, <1>5, <3>2, ScrolledRows
    <3>5. Row' = n + 1 + (height - 1) + 1
      BY <2>1, <3>2, <3>3
    <3>6. Len(Rows') = n + 1 + height
      BY <2>1, <3>3, <3>4, SheetRows
    <3> QED BY <1>6, <3>1, <3>2, <3>3, <3>4, <3>5, <3>6, Sizes
  <2>3. CASE ~(line >= height)
    <3>1. y' = line /\ memory' = mem /\ scrolled' = scrolled
      BY <1>0, <2>3
    <3>2. Rows' = written
      BY <1>5, <2>1, <3>1
    <3>3. Row' = n + line + 1 /\ Len(Rows') = n + height
      BY <1>1, <1>5, <1>6, <2>1, <3>1, SheetRows
    <3>4. x' = IF newRow THEN 0 ELSE IF ch \in Control THEN x ELSE x + 1
      BY <1>0, <1>2, <1>4, <2>3
    <3>5. line \in Nat /\ line < height
      BY <1>1, <1>4, <2>3, Sizes
    <3>6. Row' = IF newRow THEN Row + 1 ELSE Row
      BY <1>1, <1>4, <1>6, <3>3
    <3>7. ~(Row' > Len(Rows))
      BY <1>6, <3>3, <3>5, Sizes
    <3> HIDE DEF line
    <3> QED BY <1>1, <1>5, <1>6, <3>1, <3>2, <3>3, <3>4, <3>5, <3>6, <3>7, Sizes
  <2> QED BY <2>2, <2>3
<1>9. Cursor' = y' * width + x'
  <2>1. x' \in 0 .. width - 1 /\ y' \in 0 .. height - 1
    BY PutCharKeepsScreen DEF IInv, TypeOK, CursorOnScreen
  <2>2. PICK pos \in Cells : pos = y' * width + x'
    BY <2>1, CellAt
  <2>3. cursorLow' = pos % Byte /\ cursorHigh' = (pos \div Byte) % Byte
    BY <1>0, <2>2 DEF UpdateCursor
  <2>4. cursorHigh' * Byte + cursorLow' = pos
    BY <2>3, CursorIs
  <2> QED BY <2>2, <2>4 DEF Cursor
<1> QED BY <1>8, <1>9 DEF written

\* The steps keep what the refinement needs.
LEMMA InitPrintable == Init => IInv
<1> SUFFICES ASSUME Init PROVE Printable
  BY InitType DEF IInv
<1>1. textColor \in Strings /\ backgroundColor \in Backs
  BY Literals DEF Init, Backs
<1>2. memory \in [Cells -> CellSet]
  BY EntryType DEF Init
<1>3. scrolled \in Seq(RowSet) /\ Paired(todo)
  BY DEF Init, Paired
<1> QED BY <1>1, <1>2, <1>3 DEF Printable

\* The next call, when there is one.
LEMMA NextCall ==
  ASSUME Printable, todo # <<>>
  PROVE  /\ Head(todo) \in Calls /\ Head(todo).ch \in Strings /\ Head(todo).ink \in Strings
         /\ Paired(Tail(todo))
<1>1. Paired(todo) /\ todo \in Seq(Calls)
  BY DEF Printable, Paired
<1>2. PICK c \in Calls : c = Head(todo)
  BY <1>1, HeadTailProperties
<1>3. c.ch \in Strings /\ c.ink \in Strings
  BY DEF Calls
<1>4. Paired(Tail(todo))
  BY <1>1, PairedTail
<1> QED BY <1>2, <1>3, <1>4

LEMMA NextPrintable == IInv /\ [Next]_vars => IInv'
<1> SUFFICES ASSUME IInv, [Next]_vars PROVE Printable'
  BY NextType DEF IInv
<1>0. /\ textColor \in Strings /\ backgroundColor \in Backs
      /\ memory \in [Cells -> CellSet] /\ scrolled \in Seq(RowSet) /\ Paired(todo)
      /\ color = vgaColor(textColor, backgroundColor)
  BY DEF IInv, Printable, TypeOK
<1>1. ASSUME NEW steps, Paired(steps), Prints(steps) PROVE Printable'
  BY <1>0, <1>1 DEF Prints, screen, Printable
<1>2. ASSUME NEW message \in Messages, NEW level \in Levels, Log(level, message) PROVE Printable'
  <2>1. Paired(LogLine(level, message))
    BY PairedLine
  <2> QED BY <1>1, <1>2, <2>1 DEF Log
<1>3. ASSUME NEW message \in Messages, Message(message) PROVE Printable'
  <2>1. Paired(PutAll(message))
    BY MessageChars, PairedAll
  <2> QED BY <1>1, <1>3, <2>1 DEF Message
<1>4. CASE Panic
  <2>1. Paired(LogLine("error", KernelPanic)) /\ Paired(LogLine("error", StackSmashing))
    BY PairedLine
  <2>2. Paired(LogLine("error", KernelPanic) \o LogLine("error", StackSmashing))
    BY <2>1, PairedConcat
  <2> QED BY <1>1, <1>4, <2>2 DEF Panic
<1>5. CASE PrintStep
  <2>1. todo # <<>> /\ todo' = Tail(todo) /\ backgroundColor' = backgroundColor
    BY <1>5 DEF PrintStep
  <2>2. Head(todo).ch \in Strings /\ Head(todo).ink \in Strings /\ Paired(todo')
    BY <2>1, NextCall DEF IInv
  <2>3. CASE Head(todo).ch # ""
    <3>1. PutChar(Head(todo).ch) /\ textColor' = textColor
      BY <1>5, <2>3, Zenon DEF PrintStep
    <3>2. memory' \in [Cells -> CellSet] /\ scrolled' \in Seq(RowSet)
      BY <2>2, <3>1, PutCharIs
    <3> QED BY <1>0, <2>1, <2>2, <3>1, <3>2 DEF Printable
  <2>4. CASE ~(Head(todo).ch # "")
    <3>1. textColor' = Head(todo).ink /\ UNCHANGED screen
      BY <1>5, <2>4, Zenon DEF PrintStep
    <3> QED BY <1>0, <2>1, <2>2, <3>1 DEF Printable, screen
  <2> QED BY <2>3, <2>4
<1>6. CASE Clear
  <2>1. memory' = Wiped(color)
    BY <1>6 DEF Clear, Wiped
  <2>2. memory' \in [Cells -> CellSet]
    BY <1>0, <2>1, BlankIs
  <2> QED BY <1>0, <1>6, <2>2 DEF Clear, Printable
<1>7. ASSUME NEW c \in Grounds, SetBackgroundColor(c) PROVE Printable'
  BY <1>0, <1>7 DEF SetBackgroundColor, screen, Printable, Backs
<1>8. CASE UNCHANGED vars
  BY <1>0, <1>8 DEF vars, screen, Printable
<1> QED BY <1>2, <1>3, <1>4, <1>5, <1>6, <1>7, <1>8 DEF Next

\* The empty screen is the abstract specification's.
LEMMA InitImplements == Init => Sheet!Init
<1> SUFFICES ASSUME Init PROVE Sheet!Init
  OBVIOUS
<1>0. IInv
  BY InitPrintable
<1>1. Rows = [r \in 1 .. height |-> [i \in 0 .. width - 1 |-> Scratch]]
  <2>1. PICK h \in Nat : h = height
    BY Sizes
  <2>2. PICK s \in Seq(RowSet) : /\ s = Rows /\ Len(s) = h
                                 /\ \A q \in 0 .. h - 1 : s[q + 1] = SeenRow(memory, q)
    <3>1. scrolled \in Seq(RowSet) /\ memory \in [Cells -> CellSet] /\ Len(scrolled) = 0 /\ Len(scrolled) \in Nat
      BY <1>0 DEF IInv, Printable, Init
    <3>2. /\ SheetOf(scrolled, memory) \in Seq(RowSet)
          /\ Len(SheetOf(scrolled, memory)) = Len(scrolled) + height
          /\ \A q \in 0 .. height - 1 : SheetOf(scrolled, memory)[Len(scrolled) + q + 1] = SeenRow(memory, q)
      BY <3>1, SheetRows
    <3>3. Rows = SheetOf(scrolled, memory)
      BY <1>0, RowsAre DEF IInv
    <3> QED BY <2>1, <3>1, <3>2, <3>3
  <2>3. ASSUME NEW r \in 1 .. h PROVE s[r] = [i \in 0 .. width - 1 |-> Scratch]
    <3>1. r - 1 \in 0 .. height - 1 /\ (r - 1) + 1 = r
      BY <2>1
    <3>2. \A i \in 0 .. width - 1 : memory[(r - 1) * width + i] = Scratch
      BY <3>1, CellAt DEF Init
    <3>3. SeenRow(memory, r - 1) = [i \in 0 .. width - 1 |-> Scratch]
      BY <3>2, SeenIs DEF SeenRow
    <3> QED BY <2>2, <3>1, <3>3, <2>1
  <2>4. s = [r \in 1 .. h |-> s[r]]
    BY <2>2
  <2> QED BY <2>1, <2>2, <2>3, <2>4
<1>2. Row = 1 /\ x = 0
  BY DEF Row, Init
<1>3. Text = <<>>
  <2>1. TextOf(<<>>, Grey) = <<>>
    BY TextOfNothing, Literals
  <2> QED BY <2>1 DEF Init, Text, TextOf
<1>4. Cursor \in Nat
  BY Sizes, ScreenAssumption DEF Init, Cursor
<1> QED BY <1>1, <1>2, <1>3, <1>4 DEF Init, Sheet!Init

\* Each step is one of the abstract specification's, or changes nothing of it.
LEMMA StepImplements == IInv /\ [Next]_vars => [Sheet!Next]_(Sheet!paperVars)
<1> SUFFICES ASSUME IInv, [Next]_vars PROVE Sheet!Next \/ UNCHANGED Sheet!paperVars
  OBVIOUS
<1>0. /\ textColor \in Strings /\ backgroundColor \in Backs
      /\ memory \in [Cells -> CellSet] /\ scrolled \in Seq(RowSet) /\ Paired(todo) /\ todo \in Seq(Calls)
      /\ color = vgaColor(textColor, backgroundColor)
  BY DEF IInv, Printable, TypeOK, Paired
<1>1. Text = TextOf(todo, textColor) /\ Text' = TextOf(todo', textColor')
  BY DEF Text, TextOf
<1>2. ASSUME UNCHANGED screen PROVE UNCHANGED <<Rows, Row, x, Cursor>>
  BY <1>2 DEF screen, Rows, Row, Cursor
<1>3. ASSUME todo = <<>> PROVE Text = <<>>
  BY <1>0, <1>1, <1>3, TextOfNothing
<1>4. ASSUME NEW steps, Prints(steps)
      PROVE  UNCHANGED <<Rows, Row, x, textColor, backgroundColor, Cursor>> /\ Text' = TextOf(steps, textColor)
  BY <1>1, <1>2, <1>4 DEF Prints
<1>5. ASSUME NEW message \in Messages, NEW level \in Levels, Log(level, message) PROVE Sheet!Next
  <2>1. TextOf(LogLine(level, message), textColor) = Sheet!Line(level, message, textColor)
    BY <1>0, WritesLine DEF Writes
  <2>2. Text' = Sheet!Line(level, message, textColor) /\ UNCHANGED <<Rows, Row, x, textColor, backgroundColor, Cursor>>
    BY <1>4, <1>5, <2>1 DEF Log
  <2>3. Text = <<>> /\ ~halted /\ halted' = halted
    BY <1>3, <1>5 DEF Log, Call
  <2>4. Sheet!Say
    BY <2>2, <2>3 DEF Sheet!Say
  <2> QED BY <2>4 DEF Sheet!Next
<1>6. ASSUME NEW message \in Messages, Message(message) PROVE Sheet!Next
  <2>1. TextOf(PutAll(message), textColor) = Sheet!Inked(message, textColor)
    BY <1>0, MessageChars, TextOfPutAll
  <2>2. Text' = Sheet!Inked(message, textColor) /\ UNCHANGED <<Rows, Row, x, textColor, backgroundColor, Cursor>>
    BY <1>4, <1>6, <2>1 DEF Message
  <2>3. Text = <<>> /\ ~halted /\ halted' = halted
    BY <1>3, <1>6 DEF Message, Call
  <2>4. Sheet!Say
    BY <2>2, <2>3 DEF Sheet!Say
  <2> QED BY <2>4 DEF Sheet!Next
<1>7. CASE Panic
  <2>1. "error" \in DOMAIN Tag
    BY DEF Tag
  <2>2. Writes(LogLine("error", KernelPanic), textColor, Sheet!Line("error", KernelPanic, textColor), Grey)
    BY <1>0, <2>1, WritesLine
  <2>3. Writes(LogLine("error", StackSmashing), Grey, Sheet!Line("error", StackSmashing, Grey), Grey)
    BY <2>1, Literals, WritesLine
  <2>4. TextOf(LogLine("error", KernelPanic) \o LogLine("error", StackSmashing), textColor)
          = Sheet!Line("error", KernelPanic, textColor) \o Sheet!Line("error", StackSmashing, Grey)
    <3>1. Writes(LogLine("error", KernelPanic) \o LogLine("error", StackSmashing), textColor,
                 Sheet!Line("error", KernelPanic, textColor) \o Sheet!Line("error", StackSmashing, Grey), Grey)
      BY <2>2, <2>3, WritesConcat
    <3> QED BY <3>1 DEF Writes
  <2>5. /\ Text' = Sheet!Line("error", KernelPanic, textColor) \o Sheet!Line("error", StackSmashing, Grey)
        /\ UNCHANGED <<Rows, Row, x, textColor, backgroundColor, Cursor>>
    BY <1>4, <1>7, <2>4 DEF Panic
  <2>6. ~halted /\ halted' = TRUE
    BY <1>7 DEF Panic
  <2>7. Sheet!Panic
    BY <2>5, <2>6 DEF Sheet!Panic
  <2> QED BY <2>7 DEF Sheet!Next
<1>8. CASE PrintStep
  <2>1. todo # <<>> /\ todo' = Tail(todo) /\ UNCHANGED <<backgroundColor, halted>>
    BY <1>8 DEF PrintStep
  <2>2. Head(todo).ch \in Strings /\ Head(todo).ink \in Strings /\ Paired(todo')
    BY <2>1, NextCall DEF IInv
  <2>3. CASE Head(todo).ch # ""
    <3>1. PutChar(Head(todo).ch) /\ textColor' = textColor
      BY <1>8, <2>3, Zenon DEF PrintStep
    <3>2. PICK ch \in Strings, rest \in Seq(Calls) :
            ch = Head(todo).ch /\ rest = TextOf(todo', textColor)
            /\ Text = <<Char(ch, textColor)>> \o rest
      <4>1. TextOf(todo', textColor) \in Seq(Calls)
        BY <1>0, <2>2, TextTypes DEF Paired
      <4>2. TextOf(todo, textColor) = <<Char(Head(todo).ch, textColor)>> \o TextOf(todo', textColor)
        BY <1>0, <2>1, <2>3, TextStep
      <4> QED BY <1>1, <2>2, <4>1, <4>2
    <3>3. Text # <<>> /\ Head(Text) = Char(ch, textColor) /\ Tail(Text) = rest
      <4>1. PICK c \in Calls : c = Char(ch, textColor)
        BY <1>0, CallTypes
      <4>2. <<c>> \o rest # <<>> /\ Head(<<c>> \o rest) = c /\ Tail(<<c>> \o rest) = rest
        OBVIOUS
      <4> QED BY <3>2, <4>1, <4>2
    <3>4. Head(Text).ch = ch /\ Head(Text).ink = textColor /\ Text' = Tail(Text)
      BY <1>1, <3>1, <3>2, <3>3 DEF Char
    <3>5. LET newRow == ch = "\n" \/ (ch \notin Control /\ x = width - 1)
              written == IF ch = "\n" \/ ch \in Control THEN Rows
                         ELSE [Rows EXCEPT ![Row][x] = Sheet!Cell(ch, textColor, backgroundColor)]
          IN  /\ x' = IF newRow THEN 0 ELSE IF ch \in Control THEN x ELSE x + 1
              /\ Row' = IF newRow THEN Row + 1 ELSE Row
              /\ Rows' = IF Row' > Len(Rows) THEN Append(written, Sheet!Blank) ELSE written
              /\ Cursor' = (Row' - (Len(Rows') - height + 1)) * width + x'
      BY <3>1, <3>2, PutCharIs
    <3>6. Sheet!Write
      BY <2>1, <3>1, <3>3, <3>4, <3>5, Zenon DEF Sheet!Write
    <3> QED BY <3>6 DEF Sheet!Next
  <2>4. CASE ~(Head(todo).ch # "")
    <3>1. textColor' = Head(todo).ink /\ UNCHANGED screen
      BY <1>8, <2>4, Zenon DEF PrintStep
    <3>2. Text' = Text
      <4>1. TextOf(todo, textColor) = TextOf(Tail(todo), Head(todo).ink)
        BY <1>0, <2>1, <2>4, TextStep
      <4> QED BY <1>1, <2>1, <3>1, <4>1
    <3>3. Text' # <<>> /\ Head(Text').ink = textColor'
      <4>1. PICK r \in Seq(Calls), ink \in Strings : r = todo' /\ ink = textColor' /\ r # <<>> /\ ~Colors(Head(r))
        BY <1>0, <2>1, <2>2, <2>4, <3>1, PairedTail DEF Paired, Colors
      <4>2. /\ Head(r) \in Calls /\ Tail(r) \in Seq(Calls)
            /\ TextOf(r, ink) = <<Char(Head(r).ch, ink)>> \o TextOf(Tail(r), ink)
        BY <4>1, TextStep DEF Colors
      <4>3. PICK c \in Calls, rest \in Seq(Calls) :
              c = Char(Head(r).ch, ink) /\ c.ink = ink /\ rest = TextOf(Tail(r), ink)
        <5>1. Head(r).ch \in Strings
          BY <4>2 DEF Calls
        <5>2. Char(Head(r).ch, ink) \in Calls /\ Char(Head(r).ch, ink).ink = ink
          BY <5>1, CallTypes
        <5>3. TextOf(Tail(r), ink) \in Seq(Calls)
          BY <4>2, TextTypes
        <5> QED BY <5>2, <5>3
      <4>4. <<c>> \o rest # <<>> /\ Head(<<c>> \o rest) = c
        OBVIOUS
      <4> QED BY <1>1, <4>1, <4>2, <4>3, <4>4
    <3>4. Sheet!Dip
      BY <1>2, <2>1, <3>1, <3>2, <3>3 DEF Sheet!Dip
    <3> QED BY <3>4 DEF Sheet!Next
  <2> QED BY <2>3, <2>4
<1>9. CASE Clear
  <2>1. memory' = Wiped(color) /\ scrolled' = scrolled
    BY <1>9 DEF Clear, Wiped
  <2>2. Rows' = [r \in DOMAIN Rows |-> IF r >= Len(Rows) - height + 1 THEN BlankRow(color) ELSE Rows[r]]
    <3>1. Rows = SheetOf(scrolled, memory) /\ Rows' = SheetOf(scrolled, Wiped(color))
      BY <2>1 DEF Rows, SheetOf
    <3> QED BY <1>0, <3>1, WipeIs
  <2>3. Sheet!Blank = BlankRow(color)
    BY <1>0, BlankIs DEF Sheet!Blank
  <2>4. Text = <<>> /\ ~halted /\ UNCHANGED <<Row, x, textColor, backgroundColor, Text, Cursor, halted>>
    BY <1>3, <1>9 DEF Clear, Call, Row, Text, Cursor
  <2>5. Sheet!Clear
    BY <2>2, <2>3, <2>4 DEF Sheet!Clear, Sheet!Top
  <2> QED BY <2>5 DEF Sheet!Next
<1>10. ASSUME NEW c \in Grounds, SetBackgroundColor(c) PROVE Sheet!Next
  <2>1. UNCHANGED <<Rows, Row, x, textColor, Text, Cursor, halted>> /\ backgroundColor' = c
    BY <1>2, <1>10 DEF SetBackgroundColor, Text
  <2>2. Text = <<>> /\ ~halted
    BY <1>3, <1>10 DEF SetBackgroundColor, Call
  <2>3. Sheet!ChooseGround
    BY <2>1, <2>2 DEF Sheet!ChooseGround
  <2> QED BY <2>3 DEF Sheet!Next
<1>11. CASE UNCHANGED vars
  <2>1. UNCHANGED <<Rows, Row, x, Cursor, textColor, backgroundColor, Text, halted>>
    BY <1>2, <1>11 DEF vars, Text
  <2> QED BY <2>1 DEF Sheet!paperVars
<1> QED BY <1>5, <1>6, <1>7, <1>8, <1>9, <1>10, <1>11 DEF Next

\* On a screen of any size, whatever is printed, wherever it wraps and scrolls
\* and whenever a panic breaks in, the screen, what has scrolled off it, the
\* cursor the registers show and the colours are those of an endless sheet on
\* which each character stands in the ink and on the ground chosen for it.
THEOREM Refinement == Spec => ImplementsPaper
<1>1. Init => IInv
  BY InitPrintable
<1>2. IInv /\ [Next]_vars => IInv'
  BY NextPrintable
<1>3. Init => Sheet!Init
  BY InitImplements
<1>4. IInv /\ [Next]_vars => [Sheet!Next]_(Sheet!paperVars)
  BY StepImplements
<1> QED BY <1>1, <1>2, <1>3, <1>4, PTL DEF Spec, ImplementsPaper, Sheet!Spec
=============================================================================
