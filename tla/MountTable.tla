------------------------------ MODULE MountTable ------------------------------
(***************************************************************************)
(* What the virtual file system promises: a table from the known paths to  *)
(* what is mounted on them.  The known paths are closed under prefixes and *)
(* only grow.  One request is served at a time: mounting makes the         *)
(* prefixes of its path known, one after the other, and then replaces what *)
(* was there; opening a known path answers what is mounted on it, and for  *)
(* any other path only the file system on its longest known prefix has a   *)
(* say: the answer is a file found from there on, or none.                 *)
(***************************************************************************)
EXTENDS Integers, Sequences

CONSTANTS Names,      \* the names of directories and files
          Empty,      \* the empty name: what "//" and a last "/" put into a path
          Files, None,
          Found,      \* [Files \X names -> Files \cup {None}]: what storages find
          Paths       \* paths: sequences of names and Empty, without the first "/"

VARIABLES table,
          request,    \* what is being served: [op, path, file]
          answer      \* what the last open answered

tableVars == <<table, request, answer>>

RootPath == <<Empty>>
Idle == [op |-> "none", path |-> <<>>, file |-> None]

\* The longest known prefix of the request's path, and whether that is all of
\* it up to its first empty name.
IsPrefixOf(q, path) == Len(q) <= Len(path) /\ q = SubSeq(path, 1, Len(q))
Known(path) == {q \in DOMAIN table : IsPrefixOf(q, path)}
Longest(path) == CHOOSE q \in Known(path) : \A other \in Known(path) : Len(other) <= Len(q)
Beyond(path) == SubSeq(path, Len(Longest(path)) + 1, Len(path))
Complete(path) == Beyond(path) = <<>> \/ (Beyond(path) # <<>> /\ Head(Beyond(path)) = Empty)

\* A path that is known from end to end, a last "/" aside.
Whole(path) == path # RootPath /\ Beyond(path) \in {<<>>, RootPath}

\* The file system at `file': every set of files that holds it and what its
\* members' storages find holds all of these.
Closed(S) == \A f \in S, name \in Names \cup {Empty} : Found[f, name] \in S \cup {None}
Below(file) ==
  {f \in Files : \A S \in SUBSET Files : (file \in S \cup {None} /\ Closed(S)) => f \in S}

Init ==
  /\ table = [q \in {<<>>} |-> None]
  /\ request = Idle
  /\ answer = None

Ask(op, path, file) ==
  /\ request = Idle
  /\ request' = [op |-> op, path |-> path, file |-> file]
  /\ UNCHANGED <<table, answer>>

\* A mount makes the next prefix of its path known.
Grow ==
  LET path == request.path
      next == SubSeq(path, 1, Len(Longest(path)) + 1)
  IN  /\ request.op = "mount" /\ ~Complete(path)
      /\ table' = [p \in DOMAIN table \cup {next} |->
                     IF p \in DOMAIN table THEN table[p] ELSE None]
      /\ UNCHANGED <<request, answer>>

Mount ==
  /\ request.op = "mount" /\ Complete(request.path)
  /\ table' = [table EXCEPT ![Longest(request.path)] = request.file]
  /\ request' = Idle
  /\ UNCHANGED answer

\* Only the path "/" itself is refused a second mount.
MountRoot(file) ==
  /\ request = Idle
  /\ table[<<>>] = None
  /\ table' = [table EXCEPT ![<<>>] = file]
  /\ UNCHANGED <<request, answer>>

Open ==
  LET file == table[Longest(request.path)]
  IN  /\ request.op = "open"
      /\ answer' \in IF Whole(request.path) THEN {file} ELSE Below(file) \cup {None}
      /\ request' = Idle
      /\ UNCHANGED table

Next ==
  \/ \E path \in Paths :
       Ask("open", path, None) \/ \E file \in Files : Ask("mount", path, file)
  \/ Grow \/ Mount \/ Open
  \/ \E file \in Files : MountRoot(file)

Spec == Init /\ [][Next]_tableVars
=============================================================================
