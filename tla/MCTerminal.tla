------------------------------- MODULE MCTerminal -------------------------------
(***************************************************************************)
(* A screen of four columns and two rows for Terminal: every line of the   *)
(* log wraps, fills its last column exactly or scrolls more than once.     *)
(***************************************************************************)
EXTENDS Terminal

Tab == {"\t"}
Short == <<"a">>
ShortMessages == {Short, <<"\n", " ", "\t", "a">>}
=============================================================================
