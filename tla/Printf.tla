--------------------------------- MODULE Printf ---------------------------------
(***************************************************************************)
(* printf's walk over its format (Kernel/src/Lib/Log.cpp).  What it prints *)
(* is a sequence of characters of the format and of arguments: the n-th    *)
(* one, as a character, a string, a decimal or a hexadecimal number, whose *)
(* characters are those that itos leaves (see Numbers).                    *)
(***************************************************************************)
EXTENDS Numbers, Sequences, SequencesExt, FiniteSetsExt

CONSTANTS Ordinary,   \* characters that mean nothing to printf
          MaxFormat   \* bound: length of a format

ASSUME FormatAssumption == "%" \notin Ordinary /\ MaxFormat \in Nat

VARIABLES format, at,  \* the format, and where in it the pointer is
          used,        \* how many arguments va_arg has taken
          printed

vars == <<format, at, used, printed, itosVars>>

Base == [d |-> 10, x |-> 16]
Conversions == {"c", "s"} \cup DOMAIN Base
Characters == Conversions \cup Ordinary \cup {"%"}

\* The character at a place, up to the zero byte behind the last.
EndOfFormat == "NUL"
Ch(p) == IF p <= Len(format) THEN format[p] ELSE EndOfFormat
Argument(number, conversion) == [number |-> number, as |-> conversion]
Literal(ch) == Argument(0, ch)
AsIs(chars) == [c \in DOMAIN chars |-> Literal(chars[c])]

Init ==
  /\ format \in SeqOf(Characters, MaxFormat) /\ at = 1 /\ used = 0 /\ printed = <<>>
  /\ ItosIdle

More == Ch(at) # EndOfFormat /\ itosPc = "idle"

\* Where a run of characters ends that are printed as they are: at the next '%'
\* from its first character on, and, as it is, behind that.
RunFromFirst(from) == Min({p \in from .. Len(format) + 1 : Ch(p) \in {EndOfFormat, "%"}})

RunEnd(from) == Min({p \in from + 1 .. Len(format) + 1 : Ch(p) \in {EndOfFormat, "%"}})

\* The run after a "%%" begins with its second '%'.
PrintRun ==
  LET from == IF Ch(at) = "%" THEN at + 1 ELSE at
  IN  /\ More
      /\ Ch(at) # "%" \/ Ch(at + 1) = "%"
      /\ printed' = printed \o AsIs(SubSeq(format, from, RunEnd(from) - 1))
      /\ at' = RunEnd(from)
      /\ UNCHANGED <<format, used, itosVars>>

TakeArgument ==
  /\ printed' = Append(printed, Argument(used + 1, Ch(at + 1)))
  /\ used' = used + 1
  /\ at' = at + 2
  /\ UNCHANGED format

PrintArgument ==
  /\ More
  /\ Ch(at) = "%" /\ Ch(at + 1) \in Conversions \ DOMAIN Base
  /\ TakeArgument /\ UNCHANGED itosVars

\* A number is converted, and then printed.
ConvertNumber ==
  /\ More
  /\ Ch(at) = "%" /\ Ch(at + 1) \in DOMAIN Base
  /\ \E v \in Values : Itos(v, Base[Ch(at + 1)])
  /\ UNCHANGED <<format, at, used, printed>>

PrintNumber ==
  /\ itosPc = "done"
  /\ TakeArgument
  /\ itosPc' = "idle" /\ given' = 0 /\ value' = 0 /\ base' = 10 /\ buffer' = Nothing /\ i' = 0 /\ j' = 0 /\ k' = 0
  /\ UNCHANGED n

\* An unknown conversion ends it all: the rest is printed as it is.
PrintRest ==
  /\ More
  /\ Ch(at) = "%" /\ Ch(at + 1) \notin Conversions \cup {"%"}
  /\ printed' = printed \o AsIs(SubSeq(format, at, Len(format)))
  /\ at' = Len(format) + 1
  /\ UNCHANGED <<format, used, itosVars>>

Next ==
  \/ PrintRun \/ PrintArgument \/ ConvertNumber \/ PrintNumber \/ PrintRest
  \/ ItosStep /\ UNCHANGED <<format, at, used, printed>>

Spec == Init /\ [][Next]_vars /\ WF_vars(Next)

-----------------------------------------------------------------------------
\* The meaning of a format, read a character at a time from its end: what it
\* prints from p on when so many arguments have been taken.
Meaning[p \in Nat, taken \in Nat] ==
  CASE Ch(p) = EndOfFormat -> <<>>
    [] Ch(p) # "%" -> <<Literal(Ch(p))>> \o Meaning[p + 1, taken]
    [] Ch(p) = "%" /\ Ch(p + 1) = "%" -> <<Literal("%")>> \o Meaning[p + 2, taken]
    [] Ch(p) = "%" /\ Ch(p + 1) \in Conversions ->
         <<Argument(taken + 1, Ch(p + 1))>> \o Meaning[p + 2, taken + 1]
    [] OTHER -> AsIs(SubSeq(format, p, Len(format)))

\* printf gets to the end of every format, has then printed what the format
\* means, and has taken no argument the format does not name.
FormatPrinted ==
  <>(/\ at = Len(format) + 1
     /\ printed = Meaning[1, 0]
     /\ used = Len(SelectSeq(printed, LAMBDA item : item.number # 0)))
=============================================================================
