----------------------------- MODULE MCInterrupts -----------------------------
(***************************************************************************)
(* Two controllers of three lines, the slave on the second line of the     *)
(* master: a line above the cascade, one below it that is also the         *)
(* master's spurious vector, and three of the slave.                       *)
(***************************************************************************)
EXTENDS Interrupts
=============================================================================
