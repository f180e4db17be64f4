-------------------------------- MODULE MCVFS --------------------------------
(***************************************************************************)
(* A tree of up to five nodes for VFS: paths that end in the tree, one and *)
(* two names beyond it, in an empty name, and with one in the middle.      *)
(***************************************************************************)
EXTENDS VFS, TLC

CONSTANTS a, b, empty, f, g, null

TwoNames == {a, b}
TwoFiles == {f, g}
WhereToMount == {<<empty>>, <<empty, empty>>, <<a>>, <<a, b>>, <<b, b>>, <<a, empty>>}
WhatToOpen == WhereToMount \cup {<<a, b, a>>, <<a, b, a, b>>, <<a, empty, b>>, <<b, a, a>>}

\* f is a directory with a storage that finds a directory like f under the name
\* a and g under the name b.
SomeFlags == f :> 2 @@ g :> 3
WithStorage == {f}
FoundByF == a :> f @@ b :> g @@ empty :> null
SomeFound == [x \in TwoFiles \X (TwoNames \cup {empty}) |-> IF x[1] = f THEN FoundByF[x[2]] ELSE null]

\* Another kind of storage: it finds itself under the empty name.
OwnName == [SomeFound EXCEPT ![f, empty] = f]
=============================================================================
