-------------------------------- MODULE Numbers --------------------------------
(***************************************************************************)
(* How printf makes a number into text: countDigit says how long a buffer  *)
(* to take, itos writes the digits from the last one on and a zero behind  *)
(* them, and reverse turns them round (Kernel/src/Lib/String.cpp).         *)
(*                                                                         *)
(* A character is its code.  The buffer is the set of bytes written so     *)
(* far, with or without room for them.                                     *)
(***************************************************************************)
EXTENDS Integers

CONSTANTS
  Width,   \* 2^32: itos takes a u32, and printf gives it an int for %d
  Values   \* the arguments of %d and %x

ASSUME NumberAssumption ==
  /\ Width \in Nat \ {0} /\ Values \subseteq 1 - Width .. Width - 1

VARIABLES
  given,                 \* history: the argument printf passes on
  value, base, buffer,   \* the parameters; buffer: index -> character
  n, i,                  \* the part not yet written, and how many digits are
  j, k,                  \* reverse's two indices
  itosPc

itosVars == <<given, value, base, buffer, n, i, j, k, itosPc>>

NUL == 0

\* countDigit's loop.
countDigit(m) ==
  LET count[rest \in Nat] == IF rest = 0 THEN 0 ELSE 1 + count[rest \div base]
  IN  IF m = 0 THEN 1 ELSE count[m]

Digit(r) == IF r >= 10 THEN 65 + (r - 10) ELSE 48 + r

Nothing == [at \in {} |-> NUL]
ItosIdle ==
  /\ given = 0 /\ value = 0 /\ base = 10 /\ buffer = Nothing /\ n = 0 /\ i = 0 /\ j = 0 /\ k = 0
  /\ itosPc = "idle"

\* A call from printf, in one of the bases that pass the check.  The parameter is
\* a u32: an int below 0 becomes the u32 of the same bits, and abs leaves it so.
Itos(v, b) ==
  /\ itosPc = "idle"
  /\ given' = v /\ value' = v % Width /\ base' = b /\ buffer' = Nothing
  /\ n' = value' /\ i' = 0 /\ j' = 0 /\ k' = 0
  /\ itosPc' = "digits"

Stored(at, ch) == [b \in DOMAIN buffer \cup {at} |-> IF b = at THEN ch ELSE buffer[b]]

WriteDigit ==
  /\ itosPc = "digits" /\ n # 0
  /\ buffer' = Stored(i, Digit(n % base))
  /\ i' = i + 1 /\ n' = n \div base
  /\ UNCHANGED <<given, value, base, j, k, itosPc>>

\* Zero is written as one digit.  The '-' of "value < 0 && base == 10" is never
\* written: no u32 is below 0.
WriteZero ==
  /\ itosPc = "digits" /\ n = 0 /\ i = 0
  /\ buffer' = Stored(0, Digit(0))
  /\ i' = 1
  /\ UNCHANGED <<given, value, base, n, j, k, itosPc>>

\* Where reverse ends: with the zero byte, and as it is.
LastOfAll == i

LastDigit == i - 1

Terminate ==
  /\ itosPc = "digits" /\ n = 0 /\ i # 0
  /\ buffer' = Stored(i, NUL)
  /\ j' = 0 /\ k' = LastDigit
  /\ itosPc' = "reverse"
  /\ UNCHANGED <<given, value, base, n, i>>

Swap ==
  /\ itosPc = "reverse" /\ j < k
  /\ buffer' = [buffer EXCEPT ![j] = buffer[k], ![k] = buffer[j]]
  /\ j' = j + 1 /\ k' = k - 1
  /\ UNCHANGED <<given, value, base, n, i, itosPc>>

Return ==
  /\ itosPc = "reverse" /\ j >= k
  /\ itosPc' = "done"
  /\ UNCHANGED <<given, value, base, buffer, n, i, j, k>>

ItosStep == WriteDigit \/ WriteZero \/ Terminate \/ Swap \/ Return

-----------------------------------------------------------------------------
\* What the first m characters of the buffer mean.
DigitOf(ch) == IF ch >= 65 THEN ch - 65 + 10 ELSE ch - 48
ValueOf[m \in Nat] == IF m = 0 THEN 0 ELSE ValueOf[m - 1] * base + DigitOf(buffer[m - 1])

\* The countDigit characters that printf prints for an argument that is not
\* below 0 are that number, without leading zeros, and itos writes exactly one
\* byte behind the buffer of that length.  A negative int is not printed with the
\* '-' that itos has a branch for but as the u32 of the same bits: -1 is
\* 4294967295.
NumberPrinted ==
  itosPc = "done" =>
    LET numChars == countDigit(value)
    IN  /\ DOMAIN buffer = 0 .. numChars /\ buffer[numChars] = NUL
        /\ ValueOf[numChars] = IF given >= 0 THEN given ELSE given + Width
        /\ buffer[0] = Digit(0) => given = 0
=============================================================================
