---------------------------------- MODULE VFS ----------------------------------
(***************************************************************************)
(* The virtual file system (Kernel/src/FS/VFS.cpp) with its generic tree   *)
(* and list: mount, getMount and openFile.  The calls walk the tree one    *)
(* path token per step.                                                    *)
(*                                                                         *)
(* A path is the sequence of its tokens behind the first "/": "/" is       *)
(* <<Empty>>, "/a/b" is <<a, b>>, and "/a//b" is <<a, Empty, b>>.  A C     *)
(* string that strsep has used up is a null pointer, here <<>>.            *)
(*                                                                         *)
(* Tree nodes are numbered as they are created, the root is 1.  A list     *)
(* inserts at its head, so a child with a larger number comes first.       *)
(***************************************************************************)
EXTENDS Integers, Sequences

CONSTANTS
  Names, Empty,     \* the tokens of paths: names, and the empty string
  Files,            \* the VFSNodes the kernel mounts
  None,             \* nullptr
  Flags,            \* [Files -> Nat]: VFSNode::flags
  Stored,           \* the files that have a storage
  Found,            \* [Files \X Tokens -> Files \cup {None}]: what their storages find
  MountPaths, OpenPaths

Tokens == Names \cup {Empty}
RootPath == <<Empty>>
Root == 1

ASSUME PathAssumption ==
  /\ Empty \notin Names
  /\ None \notin Files /\ Stored \subseteq Files
  /\ MountPaths \cup OpenPaths \subseteq Seq(Tokens) \ {<<>>}
  /\ Flags \in [Files -> Nat]
  /\ Found \in [Files \X Tokens -> Files \cup {None}]

VARIABLES
  nodes,            \* the tree: node number -> [name, parent, file]
  pc,               \* "idle", or the function at work: "mount", "lookup", "find"
  path, file,       \* the arguments of the call at work
  subroot,          \* the node the walk has reached
  rest,             \* the string strsep is called on: what it has left of the path
  filenameStart,    \* openFile's second copy of the path, with its first "/"
  start,            \* openFile's file so far
  answer            \* what the last openFile returned

vfsVars == <<nodes, pc, path, file, subroot, rest, filenameStart, start, answer>>

NodeIds == DOMAIN nodes

\* strsep: the first token, and what is left of the string behind it.
Token(s) == Head(s)
After(s) == Tail(s)

\* A walk ends where strsep returns nullptr, and also where it returns "".
OutOfTokens(s) == s = <<>>

Ended(s) == IF s = <<>> THEN TRUE ELSE Token(s) = Empty

Children(n, name) == {m \in NodeIds : nodes[m].parent = n /\ nodes[m].name = name}

-----------------------------------------------------------------------------
\* VFS::init.
Init ==
  /\ nodes = <<[name |-> Empty, parent |-> 0, file |-> None]>>
  /\ pc = "idle"
  /\ path = <<>>
  /\ file = None
  /\ subroot = Root
  /\ rest = <<>>
  /\ filenameStart = <<>>
  /\ start = None
  /\ answer = None

\* Nothing of a call outlives it but the tree and the answer.
Return ==
  /\ pc' = "idle" /\ path' = <<>> /\ file' = None /\ subroot' = Root /\ rest' = <<>>
  /\ filenameStart' = <<>> /\ start' = None

\* The check of mount("/", f).
RootTaken == nodes[Root].file # None

MountRoot(f) ==
  /\ pc = "idle"
  /\ ~RootTaken
  /\ nodes' = [nodes EXCEPT ![Root].file = f]
  /\ UNCHANGED <<pc, path, file, subroot, rest, filenameStart, start, answer>>

RefuseRoot ==
  /\ pc = "idle"
  /\ RootTaken
  /\ UNCHANGED vfsVars

Mount(p, f) ==
  /\ pc = "idle"
  /\ pc' = "mount" /\ path' = p /\ file' = f /\ subroot' = Root /\ rest' = p
  /\ UNCHANGED <<nodes, filenameStart, start, answer>>

\* The children mountRecursive looks at, the newest only and as it is.
NewestChild(n, name) ==
  {m \in Children(n, name) : \A c \in NodeIds : nodes[c].parent = n => c <= m}

Matches(n, name) == Children(n, name)

\* One call of mountRecursive.  Its loop goes on after a match, so the last
\* match, the oldest child, counts.
MountEnd ==
  /\ pc = "mount" /\ Ended(rest)
  /\ nodes' = [nodes EXCEPT ![subroot].file = file]
  /\ Return /\ UNCHANGED answer

MountDown ==
  /\ pc = "mount" /\ ~Ended(rest)
  /\ \E m \in Matches(subroot, Token(rest)) :
       /\ \A other \in Matches(subroot, Token(rest)) : m <= other
       /\ subroot' = m
  /\ rest' = After(rest)
  /\ UNCHANGED <<nodes, pc, path, file, filenameStart, start, answer>>

MountNew ==
  /\ pc = "mount" /\ ~Ended(rest)
  /\ Matches(subroot, Token(rest)) = {}
  /\ nodes' = Append(nodes, [name |-> Token(rest), parent |-> subroot, file |-> None])
  /\ subroot' = Len(nodes')
  /\ rest' = After(rest)
  /\ UNCHANGED <<pc, path, file, filenameStart, start, answer>>

-----------------------------------------------------------------------------
\* The second copy of the path: strsep's first token of it is the empty string
\* before the first "/".
PathFromSlash(p) == <<Empty>> \o p

\* openFile up to getMount's recursion, which is skipped for "/".
Open(p) ==
  /\ pc = "idle"
  /\ pc' = "lookup" /\ path' = p /\ rest' = p /\ subroot' = Root
  /\ filenameStart' = PathFromSlash(p)
  /\ UNCHANGED <<nodes, file, start, answer>>

\* The file of the mount getMount answers: of the node above, and as it is.
MountedAbove(n) == nodes[IF n = Root THEN Root ELSE nodes[n].parent].file

MountedAt(n) == nodes[n].file

\* getMount answers node n, and `left' is what is left of the first copy.  The
\* loop of openFile starts on it, unless nothing is left.
FoundMount(n, left) ==
  /\ pc' = "find" /\ subroot' = n /\ rest' = left
  /\ start' = MountedAt(n)
  /\ UNCHANGED <<nodes, path, file, filenameStart, answer>>

LookupRoot == pc = "lookup" /\ path = RootPath /\ FoundMount(Root, rest)

\* One call of getMountRecursive.  The token that stops it is used up.
LookupEnd ==
  /\ pc = "lookup" /\ path # RootPath
  /\ Ended(rest)
  /\ FoundMount(subroot, IF rest = <<>> THEN <<>> ELSE After(rest))

LookupMiss ==
  /\ pc = "lookup" /\ path # RootPath
  /\ ~Ended(rest) /\ Children(subroot, Token(rest)) = {}
  /\ FoundMount(subroot, After(rest))

LookupDown ==
  /\ pc = "lookup" /\ path # RootPath
  /\ ~Ended(rest)
  /\ \E m \in Children(subroot, Token(rest)) :
       /\ \A other \in Children(subroot, Token(rest)) : other <= m
       /\ subroot' = m
  /\ rest' = After(rest)
  /\ UNCHANGED <<nodes, pc, path, file, filenameStart, start, answer>>

\* findDirectory: bit 1 of the flags is FS_DIRECTORY.
Searchable(f) == f \in Stored /\ (Flags[f] \div 2) % 2 = 1
FindDirectory(f, name) == IF Searchable(f) THEN Found[f, name] ELSE None

\* One turn of openFile's loop, and its end.
FindStep ==
  LET next == FindDirectory(start, Token(filenameStart))
  IN  /\ pc = "find" /\ rest # <<>> /\ filenameStart # <<>>
      /\ IF next = None
         THEN answer' = None /\ Return /\ UNCHANGED nodes
         ELSE /\ start' = next
              /\ filenameStart' = After(filenameStart)
              /\ UNCHANGED <<nodes, pc, path, file, subroot, rest, answer>>

OpenEnd ==
  /\ pc = "find" /\ (rest = <<>> \/ filenameStart = <<>>)
  /\ answer' = start
  /\ Return /\ UNCHANGED nodes

Next ==
  \/ \E f \in Files : MountRoot(f)
  \/ RefuseRoot
  \/ \E p \in MountPaths \ {RootPath}, f \in Files : Mount(p, f)
  \/ MountEnd \/ MountDown \/ MountNew
  \/ \E p \in OpenPaths : Open(p)
  \/ LookupRoot \/ LookupEnd \/ LookupMiss \/ LookupDown
  \/ FindStep \/ OpenEnd

Spec == Init /\ [][Next]_vfsVars

-----------------------------------------------------------------------------
TypeOK ==
  /\ \A n \in NodeIds \ {Root} :
       nodes[n] \in [name : Names, parent : 1 .. n - 1, file : Files \cup {None}]
  /\ pc \in {"idle", "mount", "lookup", "find"}
  /\ path \in MountPaths \cup OpenPaths \cup {<<>>}
  /\ file \in Files \cup {None}
  /\ subroot \in NodeIds
  /\ rest \in Seq(Tokens) /\ filenameStart \in Seq(Tokens)
  /\ start \in Files \cup {None}
  /\ answer \in Files \cup {None}

\* No two children of a node have one name, so that mount, which takes the last
\* match, and getMount, which takes the first, always mean the same node.
SiblingsUnique ==
  \A m, n \in NodeIds :
    (m # n /\ nodes[m].parent = nodes[n].parent) => nodes[m].name # nodes[n].name

\* The tree implements the table of MountTable.
PathOf[n \in NodeIds] ==
  IF n = Root THEN <<>> ELSE Append(PathOf[nodes[n].parent], nodes[n].name)
NodePaths == {PathOf[n] : n \in NodeIds}
Table == [q \in NodePaths |-> nodes[CHOOSE n \in NodeIds : PathOf[n] = q].file]
Serving == IF pc = "idle" THEN "none" ELSE IF pc = "mount" THEN "mount" ELSE "open"
Mounts ==
  INSTANCE MountTable
    WITH Paths <- MountPaths \cup OpenPaths,
         table <- Table,
         request <- [op |-> Serving, path |-> path, file |-> file]
ImplementsMountTable == Mounts!Spec

\* The comment "when it hits to the point where next subdirectory is filesystem
\* it passes control to the filesystem class": a storage is asked for names
\* behind its mount point only.
FilesystemGetsRest ==
  (pc = "find" /\ path # RootPath /\ rest # <<>> /\ filenameStart # <<>> /\ Searchable(start)) =>
    Len(filenameStart) <= Len(path) - Len(PathOf[subroot])
=============================================================================
