-------------------------------- MODULE VFSProofs --------------------------------
(***************************************************************************)
(* Proofs about the tree of the virtual file system: its types, that no    *)
(* mount ever makes two children of one name, and that the walks from name *)
(* to name implement the table of MountTable.                              *)
(***************************************************************************)
EXTENDS VFS, Arithmetic, SequenceTheorems, TLAPS

Node == [name : Tokens, parent : Nat, file : Files \cup {None}]

\* What TypeOK leaves out: the tree is a sequence of nodes, and nobody is the
\* root's parent.
Tree == nodes \in Seq(Node) /\ nodes # <<>> /\ nodes[Root].parent = 0

IInv == Tree /\ TypeOK /\ SiblingsUnique

-----------------------------------------------------------------------------
\* What strsep yields of a string that is not used up: a token, and a string.
LEMMA StrsepTypes ==
  ASSUME NEW s \in Seq(Tokens), s # <<>>
  PROVE  Token(s) \in Tokens /\ After(s) \in Seq(Tokens)
BY DEF Token, After

\* A walk that has not ended is at a name.
LEMMA WalkHasName ==
  ASSUME NEW s \in Seq(Tokens), ~Ended(s)
  PROVE  s # <<>> /\ Token(s) \in Names /\ After(s) \in Seq(Tokens)
<1>1. s # <<>> /\ Token(s) # Empty
  BY DEF Ended
<1> QED BY <1>1, StrsepTypes DEF Tokens

\* The nodes of a tree are records.
LEMMA NodeTypes ==
  ASSUME Tree, NEW m \in NodeIds
  PROVE  nodes[m] \in Node
BY DEF Tree, NodeIds

\* The paths of callers are strings.
LEMMA PathTypes ==
  ASSUME NEW p \in MountPaths \cup OpenPaths
  PROVE  p \in Seq(Tokens) /\ PathFromSlash(p) \in Seq(Tokens)
<1>1. p \in Seq(Tokens)
  BY PathAssumption
<1>2. <<Empty>> \in Seq(Tokens)
  BY DEF Tokens
<1> QED BY <1>1, <1>2 DEF PathFromSlash

\* Replacing the file of a node disturbs neither names nor parents.
LEMMA RemountKeepsTree ==
  ASSUME Tree, \A n \in NodeIds \ {Root} : nodes[n] \in [name : Names, parent : 1 .. n - 1, file : Files \cup {None}],
         SiblingsUnique,
         NEW n \in NodeIds, NEW f \in Files \cup {None},
         nodes' = [nodes EXCEPT ![n].file = f]
  PROVE  /\ Tree' /\ SiblingsUnique' /\ NodeIds' = NodeIds
         /\ \A m \in NodeIds \ {Root} : nodes'[m] \in [name : Names, parent : 1 .. m - 1, file : Files \cup {None}]
<1>1. NodeIds = 1 .. Len(nodes) /\ Root \in NodeIds
  BY DEF Tree, NodeIds, Root
<1>2. nodes' \in Seq(Node) /\ NodeIds' = NodeIds /\ nodes' # <<>>
  <2>1. [nodes[n] EXCEPT !.file = f] \in Node
    BY NodeTypes DEF Node
  <2>2. nodes' = [nodes EXCEPT ![n] = [nodes[n] EXCEPT !.file = f]]
    OBVIOUS
  <2>3. nodes' \in Seq(Node) /\ Len(nodes') = Len(nodes)
    BY <1>1, <2>1, <2>2 DEF Tree
  <2>4. NodeIds' = 1 .. Len(nodes') /\ nodes' # <<>>
    BY <2>3 DEF NodeIds, Tree
  <2> QED BY <1>1, <2>3, <2>4
<1>3. \A m \in NodeIds : nodes'[m].name = nodes[m].name /\ nodes'[m].parent = nodes[m].parent
  BY <1>1, NodeTypes DEF Node
<1>4. \A m \in NodeIds \ {Root} : nodes'[m] \in [name : Names, parent : 1 .. m - 1, file : Files \cup {None}]
  OBVIOUS
<1>5. Tree'
  BY <1>1, <1>2, <1>3 DEF Tree
<1>6. SiblingsUnique'
  BY <1>2, <1>3 DEF SiblingsUnique
<1> QED BY <1>2, <1>4, <1>5, <1>6

\* The first state.
LEMMA InitTree == Init => IInv
<1> SUFFICES ASSUME Init PROVE IInv
  OBVIOUS
<1>1. nodes = <<[name |-> Empty, parent |-> 0, file |-> None]>> /\ NodeIds = {1}
  BY DEF Init, NodeIds
<1>2. Tree
  BY <1>1 DEF Tree, Node, Tokens, Root
<1>3. TypeOK
  BY <1>1 DEF Init, TypeOK, Root
<1>4. SiblingsUnique
  BY <1>1 DEF SiblingsUnique
<1> QED BY <1>2, <1>3, <1>4 DEF IInv

\* Every step of a call, and what the caller leaves alone.
LEMMA NextTree == IInv /\ [Next]_vfsVars => IInv'
<1> SUFFICES ASSUME IInv, [Next]_vfsVars PROVE IInv'
  OBVIOUS
<1> USE DEF IInv
<1>0. NodeIds = 1 .. Len(nodes) /\ Root \in NodeIds /\ <<>> \in Seq(Tokens)
  BY DEF Tree, NodeIds, Root
<1>1. ASSUME NEW f \in Files, MountRoot(f) PROVE IInv'
  <2>1. nodes' = [nodes EXCEPT ![Root].file = f]
    BY <1>1 DEF MountRoot
  <2>2. /\ Tree' /\ SiblingsUnique' /\ NodeIds' = NodeIds
        /\ \A m \in NodeIds \ {Root} : nodes'[m] \in [name : Names, parent : 1 .. m - 1, file : Files \cup {None}]
    BY <1>0, <2>1, RemountKeepsTree DEF TypeOK
  <2>3. TypeOK'
    BY <1>1, <2>2 DEF MountRoot, TypeOK
  <2> QED BY <2>2, <2>3
<1>2. CASE RefuseRoot
  BY <1>2 DEF RefuseRoot, vfsVars, Tree, TypeOK, SiblingsUnique, NodeIds
<1>3. ASSUME NEW p \in MountPaths \ {RootPath}, NEW f \in Files, Mount(p, f) PROVE IInv'
  <2>1. p \in Seq(Tokens)
    BY PathTypes
  <2> QED BY <1>0, <1>3, <2>1 DEF Mount, Tree, TypeOK, SiblingsUnique, NodeIds
<1>4. CASE MountEnd
  <2>1. nodes' = [nodes EXCEPT ![subroot].file = file] /\ subroot \in NodeIds /\ file \in Files \cup {None}
    BY <1>4 DEF MountEnd, TypeOK
  <2>2. /\ Tree' /\ SiblingsUnique' /\ NodeIds' = NodeIds
        /\ \A m \in NodeIds \ {Root} : nodes'[m] \in [name : Names, parent : 1 .. m - 1, file : Files \cup {None}]
    BY <2>1, RemountKeepsTree DEF TypeOK
  <2>3. TypeOK'
    BY <1>0, <1>4, <2>2 DEF MountEnd, Return, TypeOK
  <2> QED BY <2>2, <2>3
<1>5. CASE MountDown
  <2>1. rest' \in Seq(Tokens) /\ subroot' \in NodeIds
    BY <1>5, WalkHasName DEF MountDown, Matches, Children, TypeOK
  <2> QED BY <1>5, <2>1 DEF MountDown, Tree, TypeOK, SiblingsUnique, NodeIds
<1>6. CASE MountNew
  <2> DEFINE new == [name |-> Token(rest), parent |-> subroot, file |-> None]
             n == Len(nodes) + 1
  <2>1. Token(rest) \in Names /\ After(rest) \in Seq(Tokens)
    BY <1>6, WalkHasName DEF MountNew, TypeOK
  <2>2. subroot \in 1 .. Len(nodes) /\ new \in Node
    BY <1>0, <2>1 DEF TypeOK, Node, Tokens
  <2>3. /\ nodes' \in Seq(Node) /\ Len(nodes') = n /\ nodes'[n] = new
        /\ \A m \in 1 .. Len(nodes) : nodes'[m] = nodes[m]
    BY <1>6, <2>2 DEF MountNew, Tree
  <2>4. NodeIds' = NodeIds \cup {n} /\ n \notin NodeIds
    BY <1>0, <2>3 DEF NodeIds
  <2>5. Tree'
    BY <1>0, <2>3 DEF Tree, Root
  <2>6. \A m \in NodeIds' \ {Root} :
          nodes'[m] \in [name : Names, parent : 1 .. m - 1, file : Files \cup {None}]
    <3>1. nodes'[n] \in [name : Names, parent : 1 .. n - 1, file : Files \cup {None}]
      BY <2>1, <2>2, <2>3
    <3>2. \A m \in NodeIds \ {Root} :
            nodes'[m] \in [name : Names, parent : 1 .. m - 1, file : Files \cup {None}]
      BY <1>0, <2>3 DEF TypeOK
    <3> QED BY <2>4, <3>1, <3>2
  <2>7. TypeOK'
    BY <1>0, <1>6, <2>1, <2>3, <2>4, <2>6 DEF MountNew, TypeOK
  <2>8. \A m \in NodeIds : ~(nodes[m].parent = subroot /\ nodes[m].name = Token(rest))
    BY <1>6 DEF MountNew, Matches, Children
  <2>9. SiblingsUnique'
    BY <1>0, <2>3, <2>4, <2>8 DEF SiblingsUnique
  <2> QED BY <2>5, <2>7, <2>9
<1>7. ASSUME NEW p \in OpenPaths, Open(p) PROVE IInv'
  <2>1. p \in Seq(Tokens) /\ PathFromSlash(p) \in Seq(Tokens)
    BY PathTypes
  <2> QED BY <1>0, <1>7, <2>1 DEF Open, Tree, TypeOK, SiblingsUnique, NodeIds
<1>8. ASSUME NEW m \in NodeIds, NEW left \in Seq(Tokens), FoundMount(m, left) PROVE IInv'
  <2>1. nodes[m].file \in Files \cup {None}
    BY NodeTypes DEF Node
  <2> QED BY <1>8, <2>1 DEF FoundMount, MountedAt, Tree, TypeOK, SiblingsUnique, NodeIds
<1>9. CASE LookupRoot
  BY <1>0, <1>8, <1>9 DEF LookupRoot, TypeOK
<1>10. CASE LookupEnd
  <2>1. (IF rest = <<>> THEN <<>> ELSE After(rest)) \in Seq(Tokens)
    BY <1>0, StrsepTypes DEF TypeOK
  <2> QED BY <1>8, <1>10, <2>1 DEF LookupEnd, TypeOK
<1>11. CASE LookupMiss
  <2>1. After(rest) \in Seq(Tokens)
    BY <1>11, WalkHasName DEF LookupMiss, TypeOK
  <2> QED BY <1>8, <1>11, <2>1 DEF LookupMiss, TypeOK
<1>12. CASE LookupDown
  <2>1. rest' \in Seq(Tokens) /\ subroot' \in NodeIds
    BY <1>12, WalkHasName DEF LookupDown, Children, TypeOK
  <2> QED BY <1>12, <2>1 DEF LookupDown, Tree, TypeOK, SiblingsUnique, NodeIds
<1>13. CASE FindStep
  <2>1. rest # <<>> /\ filenameStart # <<>> /\ nodes' = nodes
    BY <1>13 DEF FindStep, Return
  <2>2. Token(filenameStart) \in Tokens /\ After(filenameStart) \in Seq(Tokens)
    BY <2>1, StrsepTypes DEF TypeOK
  <2>3. FindDirectory(start, Token(filenameStart)) \in Files \cup {None}
    BY <2>2, PathAssumption DEF FindDirectory, Searchable
  <2> QED BY <1>0, <1>13, <2>1, <2>2, <2>3 DEF FindStep, Return, Tree, TypeOK, SiblingsUnique, NodeIds
<1>14. CASE OpenEnd
  BY <1>0, <1>14 DEF OpenEnd, Return, Tree, TypeOK, SiblingsUnique, NodeIds
<1>15. CASE UNCHANGED vfsVars
  BY <1>15 DEF vfsVars, Tree, TypeOK, SiblingsUnique, NodeIds
<1> QED BY <1>1, <1>2, <1>3, <1>4, <1>5, <1>6, <1>7, <1>9, <1>10, <1>11, <1>12, <1>13, <1>14, <1>15 DEF Next

\* Nodes, walks and answers stay in their types, for any names, files and
\* storages, whatever those find.
THEOREM TypeCorrect == Spec => []TypeOK
<1>1. IInv => TypeOK
  BY DEF IInv
<1> QED BY <1>1, InitTree, NextTree, PTL DEF Spec

\* No order of mounts makes two children of one name: mountRecursive looks at
\* every child before it makes a new one.
THEOREM NoTwins == Spec => []SiblingsUnique
<1>1. IInv => SiblingsUnique
  BY DEF IInv
<1> QED BY <1>1, InitTree, NextTree, PTL DEF Spec

-----------------------------------------------------------------------------
\* Trees as values, so that what is proved of them holds before and after a step.
Grown(t) ==
  /\ t \in Seq(Node) /\ t # <<>> /\ t[Root].parent = 0
  /\ \A n \in DOMAIN t \ {Root} : t[n].name \in Names /\ t[n].parent \in 1 .. n - 1

Single(t) ==
  \A m, n \in DOMAIN t : (m # n /\ t[m].parent = t[n].parent) => t[m].name # t[n].name

PathIn(t) ==
  LET p[n \in DOMAIN t] == IF n = Root THEN <<>> ELSE Append(p[t[n].parent], t[n].name)
  IN  p

TableIn(t) ==
  [q \in {PathIn(t)[n] : n \in DOMAIN t} |-> t[CHOOSE n \in DOMAIN t : PathIn(t)[n] = q].file]

\* The nodes of a tree are numbered from the root on, and parents are older.
LEMMA TreeShape ==
  ASSUME NEW t, Grown(t)
  PROVE  /\ Len(t) \in Nat /\ Len(t) >= 1 /\ DOMAIN t = 1 .. Len(t) /\ Root \in DOMAIN t
         /\ \A n \in DOMAIN t : t[n].name \in Tokens /\ t[n].file \in Files \cup {None} /\ t[n].parent \in Nat
         /\ \A n \in DOMAIN t \ {Root} : t[n].parent \in DOMAIN t /\ t[n].parent < n /\ t[n].name \in Names
<1>1. t \in Seq(Node) /\ t # <<>>
  BY DEF Grown
<1>2. Len(t) \in Nat /\ Len(t) >= 1 /\ DOMAIN t = 1 .. Len(t) /\ Root \in DOMAIN t
  BY <1>1 DEF Root
<1>3. \A n \in DOMAIN t : t[n] \in Node
  BY <1>1, <1>2
<1>4. \A n \in DOMAIN t : t[n].name \in Tokens /\ t[n].file \in Files \cup {None} /\ t[n].parent \in Nat
  BY <1>3 DEF Node
<1>5. \A n \in DOMAIN t \ {Root} : t[n].name \in Names /\ t[n].parent \in 1 .. n - 1
  BY DEF Grown
<1> QED BY <1>2, <1>4, <1>5 DEF Root

\* What is true of the root, and of a node when it is of its parent, is true of
\* every node.
LEMMA TreeInduction ==
  ASSUME NEW t, Grown(t), NEW T \in SUBSET (DOMAIN t), Root \in T,
         \A n \in DOMAIN t \ {Root} : t[n].parent \in T => n \in T
  PROVE  T = DOMAIN t
<1> DEFINE K == {k \in Nat : \A n \in DOMAIN t : n <= k => n \in T}
<1>1. DOMAIN t \subseteq Nat \ {0}
  BY TreeShape
<1>2. 0 \in K
  BY <1>1
<1>3. ASSUME NEW k \in K PROVE k + 1 \in K
  <2>1. ASSUME NEW n \in DOMAIN t, n <= k + 1, n # Root PROVE n \in T
    <3>1. t[n].parent \in DOMAIN t /\ t[n].parent < n
      BY <2>1, TreeShape
    <3>2. t[n].parent <= k
      BY <1>1, <2>1, <3>1
    <3> QED BY <2>1, <3>1, <3>2
  <2> QED BY <2>1
<1>4. K = Nat
  <2>1. K \in SUBSET Nat
    OBVIOUS
  <2> HIDE DEF K
  <2> QED BY <1>2, <1>3, <2>1, InductionOverNat
<1> QED BY <1>1, <1>4

\* The recursion of PathIn has a solution, so that PathIn is one.
LEMMA PathEquation ==
  ASSUME NEW t, Grown(t)
  PROVE  /\ DOMAIN PathIn(t) = DOMAIN t
         /\ PathIn(t)[Root] = <<>>
         /\ \A n \in DOMAIN t \ {Root} : PathIn(t)[n] = Append(PathIn(t)[t[n].parent], t[n].name)
<1> DEFINE Step(p, n) == IF n = Root THEN <<>> ELSE Append(p[t[n].parent], t[n].name)
           Upto(k) == {n \in DOMAIN t : n <= k}
           T == {k \in Nat : \E p : p = [n \in Upto(k) |-> Step(p, n)]}
<1>1. Len(t) \in Nat /\ DOMAIN t = 1 .. Len(t) /\ Root \in DOMAIN t
  BY TreeShape
<1>2. \A n \in DOMAIN t \ {Root} : t[n].parent \in DOMAIN t /\ t[n].parent < n
  BY TreeShape
<1>3. 0 \in T
  <2> DEFINE p == [n \in {} |-> <<>>]
  <2>1. Upto(0) = {}
    BY <1>1
  <2>2. p = [n \in Upto(0) |-> Step(p, n)]
    BY <2>1
  <2> QED BY <2>2
<1>4. ASSUME NEW k \in T PROVE k + 1 \in T
  <2>1. PICK p : p = [n \in Upto(k) |-> Step(p, n)]
    OBVIOUS
  <2> DEFINE q == [n \in Upto(k + 1) |-> Step(p, n)]
  <2>2. \A n \in Upto(k) : p[n] = Step(p, n)
    BY <2>1
  <2>3. \A n \in Upto(k) : n \in Upto(k + 1) /\ q[n] = p[n]
    BY <1>1, <2>2
  <2>4. ASSUME NEW n \in Upto(k + 1) PROVE Step(q, n) = Step(p, n)
    <3>1. CASE n = Root
      BY <3>1
    <3>2. CASE n # Root
      <4>1. t[n].parent \in Upto(k)
        BY <1>1, <1>2, <3>2
      <4>2. q[t[n].parent] = p[t[n].parent]
        BY <2>3, <4>1
      <4> HIDE DEF q
      <4> QED BY <4>2
    <3> QED BY <3>1, <3>2
  <2>5. q = [n \in Upto(k + 1) |-> Step(q, n)]
    <3>1. q = [n \in Upto(k + 1) |-> Step(p, n)]
      OBVIOUS
    <3> HIDE DEF q, Step, Upto
    <3> QED BY <2>4, <3>1, Zenon
  <2>6. \E r : r = [n \in Upto(k + 1) |-> Step(r, n)]
    <3> HIDE DEF q, Step, Upto
    <3> QED BY <2>5
  <2>7. k + 1 \in Nat
    OBVIOUS
  <2> HIDE DEF Step, Upto, q
  <2> QED BY <2>6, <2>7
<1>5. T = Nat
  <2>1. T \in SUBSET Nat
    OBVIOUS
  <2> HIDE DEF T
  <2> QED BY <1>3, <1>4, <2>1, InductionOverNat
<1>6. PICK p : p = [n \in DOMAIN t |-> Step(p, n)]
  <2>1. Upto(Len(t)) = DOMAIN t
    BY <1>1
  <2>2. Len(t) \in T
    BY <1>1, <1>5
  <2> HIDE DEF Upto
  <2> QED BY <2>1, <2>2
<1>7. PathIn(t) = [n \in DOMAIN t |-> Step(PathIn(t), n)]
  BY <1>6 DEF PathIn
<1>8. DOMAIN PathIn(t) = DOMAIN t /\ \A n \in DOMAIN t : PathIn(t)[n] = Step(PathIn(t), n)
  <2> HIDE DEF Step
  <2> QED BY <1>7, Zenon
<1> QED BY <1>1, <1>8

\* Paths are made of names.
LEMMA PathTyped ==
  ASSUME NEW t, Grown(t)
  PROVE  \A n \in DOMAIN t : PathIn(t)[n] \in Seq(Names)
<1> DEFINE T == {n \in DOMAIN t : PathIn(t)[n] \in Seq(Names)}
<1>1. Root \in T
  <2>1. PathIn(t)[Root] = <<>> /\ Root \in DOMAIN t /\ <<>> \in Seq(Names)
    BY TreeShape, PathEquation
  <2> QED BY <2>1
<1>2. ASSUME NEW n \in DOMAIN t \ {Root}, t[n].parent \in T PROVE n \in T
  <2>1. t[n].name \in Names /\ PathIn(t)[n] = Append(PathIn(t)[t[n].parent], t[n].name)
    BY TreeShape, PathEquation
  <2>2. PathIn(t)[t[n].parent] \in Seq(Names)
    BY <1>2
  <2>3. PathIn(t)[n] \in Seq(Names)
    BY <2>1, <2>2, AppendProperties
  <2> QED BY <2>3
<1>3. T \in SUBSET DOMAIN t
  OBVIOUS
<1>4. T = DOMAIN t
  <2> HIDE DEF T
  <2> QED BY <1>1, <1>2, <1>3, TreeInduction
<1> QED BY <1>4

\* One name more.
LEMMA PathGrows ==
  ASSUME NEW t, Grown(t), NEW n \in DOMAIN t \ {Root}
  PROVE  /\ t[n].parent \in DOMAIN t /\ t[n].parent < n /\ t[n].name \in Names
         /\ PathIn(t)[t[n].parent] \in Seq(Names)
         /\ PathIn(t)[n] = Append(PathIn(t)[t[n].parent], t[n].name)
         /\ PathIn(t)[n] # <<>>
<1>1. t[n].parent \in DOMAIN t /\ t[n].parent < n /\ t[n].name \in Names
  BY TreeShape
<1>2. PathIn(t)[t[n].parent] \in Seq(Names)
  BY <1>1, PathTyped
<1>3. PathIn(t)[n] = Append(PathIn(t)[t[n].parent], t[n].name)
  BY PathEquation
<1> QED BY <1>1, <1>2, <1>3, AppendProperties

\* Where no twins are, a path means one node.
LEMMA PathInjective ==
  ASSUME NEW t, Grown(t), Single(t)
  PROVE  \A m, n \in DOMAIN t : PathIn(t)[m] = PathIn(t)[n] => m = n
<1> DEFINE T == {n \in DOMAIN t : \A m \in DOMAIN t : PathIn(t)[m] = PathIn(t)[n] => m = n}
<1>1. Root \in T
  BY TreeShape, PathEquation, PathGrows
<1>2. ASSUME NEW n \in DOMAIN t \ {Root}, t[n].parent \in T PROVE n \in T
  <2>1. ASSUME NEW m \in DOMAIN t, PathIn(t)[m] = PathIn(t)[n] PROVE m = n
    <3>1. m # Root
      BY <2>1, PathEquation, PathGrows
    <3>2. /\ PathIn(t)[m] = Append(PathIn(t)[t[m].parent], t[m].name)
          /\ PathIn(t)[n] = Append(PathIn(t)[t[n].parent], t[n].name)
          /\ PathIn(t)[t[m].parent] \in Seq(Names) /\ PathIn(t)[t[n].parent] \in Seq(Names)
          /\ t[m].name \in Names /\ t[n].name \in Names /\ t[m].parent \in DOMAIN t
      BY <3>1, PathGrows
    <3>3. PathIn(t)[t[m].parent] = PathIn(t)[t[n].parent] /\ t[m].name = t[n].name
      <4>1. PICK p \in Seq(Names), q \in Seq(Names), x \in Names, y \in Names :
              /\ p = PathIn(t)[t[m].parent] /\ q = PathIn(t)[t[n].parent]
              /\ x = t[m].name /\ y = t[n].name
        BY <3>2
      <4>2. Append(p, x) = Append(q, y)
        BY <2>1, <3>2, <4>1
      <4>3. p = q /\ x = y
        BY <4>2, AppendInjective
      <4> QED BY <4>1, <4>3
    <3>4. t[m].parent = t[n].parent
      BY <1>2, <3>2, <3>3
    <3> QED BY <3>3, <3>4 DEF Single
  <2> QED BY <2>1
<1>3. T \in SUBSET DOMAIN t
  OBVIOUS
<1>4. T = DOMAIN t
  <2> HIDE DEF T
  <2> QED BY <1>1, <1>2, <1>3, TreeInduction
<1> QED BY <1>4

\* The nodes a tree had keep their paths while it grows.
LEMMA PathKept ==
  ASSUME NEW t, NEW u, Grown(t), Grown(u), DOMAIN t \subseteq DOMAIN u,
         \A n \in DOMAIN t : u[n].name = t[n].name /\ u[n].parent = t[n].parent
  PROVE  \A n \in DOMAIN t : PathIn(u)[n] = PathIn(t)[n]
<1> DEFINE T == {n \in DOMAIN t : PathIn(u)[n] = PathIn(t)[n]}
<1>1. Root \in T
  BY TreeShape, PathEquation
<1>2. ASSUME NEW n \in DOMAIN t \ {Root}, t[n].parent \in T PROVE n \in T
  <2>1. t[n].parent \in DOMAIN t /\ n \in DOMAIN u \ {Root}
    BY TreeShape
  <2>2. PathIn(t)[n] = Append(PathIn(t)[t[n].parent], t[n].name)
    BY PathEquation
  <2>3. PathIn(u)[n] = Append(PathIn(u)[u[n].parent], u[n].name)
    BY <2>1, PathEquation
  <2>4. PathIn(u)[t[n].parent] = PathIn(t)[t[n].parent]
    BY <1>2
  <2> QED BY <2>2, <2>3, <2>4
<1>3. T \in SUBSET DOMAIN t
  OBVIOUS
<1>4. T = DOMAIN t
  <2> HIDE DEF T
  <2> QED BY <1>1, <1>2, <1>3, TreeInduction
<1> QED BY <1>4

\* Known paths are closed under prefixes.
LEMMA PrefixKnown ==
  ASSUME NEW t, Grown(t)
  PROVE  \A n \in DOMAIN t : \A j \in 0 .. Len(PathIn(t)[n]) :
           \E m \in DOMAIN t : PathIn(t)[m] = SubSeq(PathIn(t)[n], 1, j)
<1> DEFINE Closed(n) == \A j \in 0 .. Len(PathIn(t)[n]) :
                          \E m \in DOMAIN t : PathIn(t)[m] = SubSeq(PathIn(t)[n], 1, j)
           T == {n \in DOMAIN t : Closed(n)}
<1>1. Root \in T
  <2>1. PathIn(t)[Root] = <<>> /\ Root \in DOMAIN t
    BY TreeShape, PathEquation
  <2>2. SubSeq(<<>>, 1, 0) = <<>> /\ Len(<<>>) = 0
    BY SubSeqEmpty
  <2>3. ASSUME NEW j \in 0 .. Len(PathIn(t)[Root])
        PROVE  \E m \in DOMAIN t : PathIn(t)[m] = SubSeq(PathIn(t)[Root], 1, j)
    <3>1. j = 0
      BY <2>1, <2>2, <2>3
    <3> QED BY <2>1, <2>2, <3>1
  <2> QED BY <2>1, <2>3
<1>2. ASSUME NEW n \in DOMAIN t \ {Root}, t[n].parent \in T PROVE n \in T
  <2>1. ASSUME NEW j \in 0 .. Len(PathIn(t)[n])
        PROVE  \E m \in DOMAIN t : PathIn(t)[m] = SubSeq(PathIn(t)[n], 1, j)
    <3>1. PICK q \in Seq(Names), x \in Names : q = PathIn(t)[t[n].parent] /\ PathIn(t)[n] = Append(q, x)
      BY PathGrows
    <3>2. Len(q) \in Nat /\ Len(Append(q, x)) = Len(q) + 1 /\ Append(q, x) \in Seq(Names)
      BY <3>1
    <3>3. CASE j = Len(q) + 1
      <4>1. SubSeq(Append(q, x), 1, j) = Append(q, x)
        BY <3>2, <3>3
      <4> QED BY <3>1, <4>1
    <3>4. CASE j # Len(q) + 1
      <4>1. j \in 0 .. Len(q)
        BY <3>1, <3>2, <3>4
      <4>2. SubSeq(Append(q, x), 1, j) = SubSeq(q, 1, j)
        BY <3>1, <4>1
      <4>3. PICK m \in DOMAIN t : PathIn(t)[m] = SubSeq(q, 1, j)
        BY <1>2, <3>1, <4>1
      <4> QED BY <3>1, <4>2, <4>3
    <3> QED BY <3>3, <3>4
  <2> QED BY <2>1
<1>3. T \in SUBSET DOMAIN t
  OBVIOUS
<1>4. T = DOMAIN t
  <2> HIDE DEF T
  <2> QED BY <1>1, <1>2, <1>3, TreeInduction
<1> QED BY <1>4

-----------------------------------------------------------------------------
\* A prefix of a string whose rest is known.
LEMMA PrefixOfConcat ==
  ASSUME NEW q \in Seq(Tokens), NEW r \in Seq(Tokens)
  PROVE  /\ q \o r \in Seq(Tokens) /\ Len(q \o r) = Len(q) + Len(r)
         /\ SubSeq(q \o r, 1, Len(q)) = q
         /\ SubSeq(q \o r, Len(q) + 1, Len(q \o r)) = r
         /\ r # <<>> => SubSeq(q \o r, 1, Len(q) + 1) = Append(q, Head(r))
<1>1. Len(q) \in Nat /\ Len(r) \in Nat
  OBVIOUS
<1>2. q \o r \in Seq(Tokens) /\ Len(q \o r) = Len(q) + Len(r)
      /\ (\A i \in 1 .. Len(q) + Len(r) : (q \o r)[i] = IF i <= Len(q) THEN q[i] ELSE r[i - Len(q)])
  BY ConcatProperties
<1>3. PICK s \in Seq(Tokens) : s = q \o r
  BY <1>2
<1>4. SubSeq(s, 1, Len(q)) = q
  <2>1. SubSeq(s, 1, Len(q)) \in Seq(Tokens) /\ Len(SubSeq(s, 1, Len(q))) = Len(q)
        /\ \A i \in 1 .. Len(q) : SubSeq(s, 1, Len(q))[i] = s[i]
    BY <1>1, <1>2, <1>3
  <2>2. \A i \in 1 .. Len(q) : s[i] = q[i]
    BY <1>1, <1>2, <1>3
  <2> QED BY <2>1, <2>2, SeqEqual
<1>5. SubSeq(s, Len(q) + 1, Len(s)) = r
  <2> DEFINE u == SubSeq(s, Len(q) + 1, Len(s))
  <2>1. u \in Seq(Tokens) /\ Len(u) = Len(r) /\ \A i \in 1 .. Len(r) : u[i] = s[Len(q) + i]
    BY <1>1, <1>2, <1>3
  <2>2. \A i \in 1 .. Len(r) : s[Len(q) + i] = r[i]
    <3>1. ASSUME NEW i \in 1 .. Len(r) PROVE s[Len(q) + i] = r[i]
      <4>1. PICK j \in 1 .. Len(q) + Len(r) : j = Len(q) + i /\ ~(j <= Len(q)) /\ j - Len(q) = i
        BY <1>1
      <4> QED BY <1>2, <1>3, <4>1
    <3> QED BY <3>1
  <2> HIDE DEF u
  <2>3. u = r
    BY <2>1, <2>2, SeqEqual
  <2> QED BY <2>3 DEF u
<1>6. ASSUME r # <<>> PROVE SubSeq(s, 1, Len(q) + 1) = Append(q, Head(r))
  <2> DEFINE u == SubSeq(s, 1, Len(q) + 1)
             v == Append(q, Head(r))
  <2>0. Len(r) >= 1 /\ Head(r) = r[1] /\ Head(r) \in Tokens
    BY <1>6
  <2>1. u \in Seq(Tokens) /\ Len(u) = Len(q) + 1 /\ \A i \in 1 .. Len(q) + 1 : u[i] = s[i]
    BY <1>1, <1>2, <1>3, <2>0
  <2>2. v \in Seq(Tokens) /\ Len(v) = Len(q) + 1 /\ (\A i \in 1 .. Len(q) : v[i] = q[i]) /\ v[Len(q) + 1] = Head(r)
    BY <2>0, AppendProperties
  <2>3. \A i \in 1 .. Len(q) + 1 : u[i] = v[i]
    <3>1. \A i \in 1 .. Len(q) : u[i] = v[i]
      BY <1>1, <1>2, <1>3, <2>1, <2>2
    <3>2. u[Len(q) + 1] = r[1]
      <4>1. s[Len(q) + 1] = r[1]
        <5>1. PICK j \in 1 .. Len(q) + Len(r) : j = Len(q) + 1 /\ ~(j <= Len(q)) /\ j - Len(q) = 1
          BY <1>1, <2>0, SMTT(20)
        <5> QED BY <1>2, <1>3, <5>1
      <4> QED BY <1>1, <2>1, <4>1
    <3> HIDE DEF u, v
    <3> QED BY <1>1, <2>0, <2>2, <3>1, <3>2, SMTT(20)
  <2> HIDE DEF u, v
  <2>4. u = v
    BY <2>1, <2>2, <2>3, SeqEqual
  <2> QED BY <2>4 DEF u, v
<1> QED BY <1>2, <1>3, <1>4, <1>5, <1>6

\* A walk stops at n before r when r is used up, at an empty name, or at a name
\* n has no child of.
StopsIn(t, n, r) ==
  r # <<>> => (Head(r) = Empty \/ \A m \in DOMAIN t : ~(t[m].parent = n /\ t[m].name = Head(r)))

\* Where a walk stops, it has reached the longest known prefix of the path.
LEMMA StopIsLongest ==
  ASSUME NEW t, Grown(t), Single(t), NEW s \in DOMAIN t, NEW r \in Seq(Tokens), StopsIn(t, s, r),
         NEW n \in DOMAIN t, Len(PathIn(t)[n]) <= Len(PathIn(t)[s] \o r),
         PathIn(t)[n] = SubSeq(PathIn(t)[s] \o r, 1, Len(PathIn(t)[n]))
  PROVE  Len(PathIn(t)[n]) <= Len(PathIn(t)[s])
<1> SUFFICES ASSUME Len(PathIn(t)[n]) > Len(PathIn(t)[s]) PROVE FALSE
  <2>1. PathIn(t)[n] \in Seq(Names) /\ PathIn(t)[s] \in Seq(Names)
    BY PathTyped
  <2> QED BY <2>1
<1>1. PICK q \in Seq(Names), p \in Seq(Names) : q = PathIn(t)[s] /\ p = PathIn(t)[n]
  BY PathTyped
<1>2. q \in Seq(Tokens) /\ p \in Seq(Tokens)
  BY DEF Tokens
<1>3. Len(q \o r) = Len(q) + Len(r) /\ Len(p) > Len(q) /\ Len(p) <= Len(q) + Len(r) /\ Len(q) \in Nat /\ Len(r) \in Nat
  BY <1>1, <1>2, PrefixOfConcat
<1>4. r # <<>>
  BY <1>3
<1>5. SubSeq(q \o r, 1, Len(q) + 1) = Append(q, Head(r))
  BY <1>2, <1>4, PrefixOfConcat
<1>6. SubSeq(p, 1, Len(q) + 1) = SubSeq(q \o r, 1, Len(q) + 1)
  <2>1. PICK w \in Seq(Tokens) : w = q \o r /\ Len(w) >= Len(p) /\ p = SubSeq(w, 1, Len(p))
    BY <1>1, <1>2, <1>3, PrefixOfConcat
  <2>2. PICK l \in Nat : l = Len(q) + 1 /\ l <= Len(p) /\ l <= Len(w)
    BY <1>3, <2>1
  <2>3. SubSeq(p, 1, l) \in Seq(Tokens) /\ Len(SubSeq(p, 1, l)) = l /\ \A i \in 1 .. l : SubSeq(p, 1, l)[i] = p[i]
    BY <1>2, <2>2
  <2>4. SubSeq(w, 1, l) \in Seq(Tokens) /\ Len(SubSeq(w, 1, l)) = l /\ \A i \in 1 .. l : SubSeq(w, 1, l)[i] = w[i]
    BY <2>1, <2>2
  <2>5. \A i \in 1 .. l : p[i] = w[i]
    <3>1. \A i \in 1 .. Len(p) : SubSeq(w, 1, Len(p))[i] = w[i]
      BY <1>2, <2>1
    <3> QED BY <2>1, <2>2, <3>1
  <2>6. SubSeq(p, 1, l) = SubSeq(w, 1, l)
    BY <2>3, <2>4, <2>5, SeqEqual
  <2> QED BY <2>1, <2>2, <2>6
<1>7. PICK m \in DOMAIN t : PathIn(t)[m] = Append(q, Head(r))
  <2>1. Len(q) + 1 \in 0 .. Len(PathIn(t)[n])
    BY <1>1, <1>3
  <2>2. \E m \in DOMAIN t : PathIn(t)[m] = SubSeq(PathIn(t)[n], 1, Len(q) + 1)
    BY <2>1, PrefixKnown
  <2> QED BY <1>1, <1>5, <1>6, <2>2
<1>8. Head(r) \in Tokens
  BY <1>4
<1>9. m # Root
  <2>1. PathIn(t)[Root] = <<>>
    BY PathEquation
  <2> QED BY <1>2, <1>7, <1>8, <2>1, AppendProperties
<1>10. /\ PathIn(t)[m] = Append(PathIn(t)[t[m].parent], t[m].name)
       /\ PathIn(t)[t[m].parent] \in Seq(Names) /\ t[m].name \in Names /\ t[m].parent \in DOMAIN t
  BY <1>9, PathGrows
<1>11. PICK o \in Seq(Names), x \in Names : o = PathIn(t)[t[m].parent] /\ x = t[m].name
  BY <1>10
<1>12. o = q /\ x = Head(r)
  <2>1. PICK y \in Tokens : y = Head(r)
    BY <1>8
  <2>2. o \in Seq(Tokens) /\ x \in Tokens
    BY DEF Tokens
  <2>3. Append(o, x) = Append(q, y)
    BY <1>7, <1>10, <1>11, <2>1
  <2>4. o = q /\ x = y
    BY <1>2, <2>2, <2>3, AppendInjective
  <2> QED BY <2>1, <2>4
<1>13. t[m].parent = s
  BY <1>1, <1>10, <1>11, <1>12, PathInjective
<1> QED BY <1>4, <1>11, <1>12, <1>13, PathAssumption DEF StopsIn

-----------------------------------------------------------------------------
\* The table of a tree has the node's file under the node's path.
LEMMA TableIs ==
  ASSUME NEW t, Grown(t), Single(t)
  PROVE  /\ DOMAIN TableIn(t) = {PathIn(t)[n] : n \in DOMAIN t}
         /\ TableIn(t) = [q \in DOMAIN TableIn(t) |-> TableIn(t)[q]]
         /\ \A n \in DOMAIN t : TableIn(t)[PathIn(t)[n]] = t[n].file
<1>1. ASSUME NEW n \in DOMAIN t PROVE (CHOOSE m \in DOMAIN t : PathIn(t)[m] = PathIn(t)[n]) = n
  BY PathInjective
<1> QED BY <1>1 DEF TableIn

\* The model's operators are these, before a step and after it.
LEMMA TreeIs ==
  /\ PathOf = PathIn(nodes) /\ PathOf' = PathIn(nodes')
  /\ Table = TableIn(nodes) /\ Table' = TableIn(nodes')
<1>1. PathOf = PathIn(nodes) /\ PathOf' = PathIn(nodes')
  BY DEF PathOf, PathIn, NodeIds
<1> QED BY <1>1 DEF Table, TableIn, NodePaths, NodeIds

LEMMA TreeGrown ==
  ASSUME Tree, TypeOK, SiblingsUnique
  PROVE  Grown(nodes) /\ Single(nodes) /\ NodeIds = DOMAIN nodes
BY DEF Tree, TypeOK, SiblingsUnique, NodeIds, Grown, Single

LEMMA TreeGrownAfter ==
  ASSUME Tree', TypeOK', SiblingsUnique'
  PROVE  Grown(nodes') /\ Single(nodes')
BY DEF Tree, TypeOK, SiblingsUnique, NodeIds, Grown, Single

\* Where the walks are: a call that walks has its node's path behind it and the
\* rest of its own path before it, and getMount has stopped at the longest known
\* prefix, with one token used up.  From the file there the storages lead.
Walk ==
  /\ pc = "idle" => path = <<>> /\ file = None
  /\ pc \in {"lookup", "find"} => file = None
  /\ pc \in {"mount", "lookup"} => path = PathIn(nodes)[subroot] \o rest
  /\ pc = "find" =>
       /\ \E r \in Seq(Tokens) :
            /\ path = PathIn(nodes)[subroot] \o r
            /\ StopsIn(nodes, subroot, r)
            /\ path # RootPath => rest = (IF r = <<>> THEN <<>> ELSE After(r))
       /\ path # RootPath /\ rest = <<>> => start = nodes[subroot].file
       /\ start \in Mounts!Below(nodes[subroot].file) \cup {None}

\* What the table says where a walk has stopped.
LEMMA LongestIs ==
  ASSUME IInv, NEW r \in Seq(Tokens), path = PathIn(nodes)[subroot] \o r, StopsIn(nodes, subroot, r)
  PROVE  /\ Mounts!Longest(path) = PathIn(nodes)[subroot]
         /\ Mounts!Beyond(path) = r
         /\ Mounts!Complete(path) <=> Ended(r)
         /\ PathIn(nodes)[subroot] \in DOMAIN Table
<1>1. Grown(nodes) /\ Single(nodes) /\ subroot \in DOMAIN nodes
  BY TreeGrown DEF IInv, TypeOK
<1>2. DOMAIN Table = {PathIn(nodes)[n] : n \in DOMAIN nodes}
  BY <1>1, TreeIs, TableIs
<1>3. PICK q \in Seq(Names) : q = PathIn(nodes)[subroot] /\ q \in DOMAIN Table /\ q \in Seq(Tokens)
  <2>1. PathIn(nodes)[subroot] \in Seq(Names)
    BY <1>1, PathTyped
  <2>2. PathIn(nodes)[subroot] \in Seq(Tokens)
    BY <2>1 DEF Tokens
  <2> QED BY <1>1, <1>2, <2>1, <2>2
<1>4. PICK w \in Seq(Tokens) : w = path /\ w = q \o r
  BY <1>3, PrefixOfConcat
<1>5. Len(w) = Len(q) + Len(r) /\ SubSeq(w, 1, Len(q)) = q /\ SubSeq(w, Len(q) + 1, Len(w)) = r
      /\ Len(q) \in Nat /\ Len(r) \in Nat
  <2>1. q \in Seq(Tokens)
    BY <1>3
  <2>2. Len(q) \in Nat /\ Len(r) \in Nat
    BY <2>1
  <2>3. /\ Len(q \o r) = Len(q) + Len(r) /\ SubSeq(q \o r, 1, Len(q)) = q
        /\ SubSeq(q \o r, Len(q) + 1, Len(q \o r)) = r
    BY <2>1, PrefixOfConcat
  <2>4. w = q \o r
    BY <1>4
  <2> QED BY <2>2, <2>3, <2>4
<1> DEFINE Best(p) == p \in Mounts!Known(w) /\ \A other \in Mounts!Known(w) : Len(other) <= Len(p)
<1>6. \A p : p \in Mounts!Known(w) <=> p \in DOMAIN Table /\ Len(p) <= Len(w) /\ p = SubSeq(w, 1, Len(p))
  BY DEF Mounts!Known, Mounts!IsPrefixOf
<1>7. Best(q)
  <2>1. q \in Mounts!Known(w)
    BY <1>3, <1>5, <1>6, SMTT(20)
  <2>2. ASSUME NEW other \in Mounts!Known(w) PROVE Len(other) <= Len(q)
    <3>1. PICK n \in DOMAIN nodes : other = PathIn(nodes)[n]
      BY <1>2, <1>6
    <3>2. Len(PathIn(nodes)[n]) <= Len(PathIn(nodes)[subroot] \o r)
          /\ PathIn(nodes)[n] = SubSeq(PathIn(nodes)[subroot] \o r, 1, Len(PathIn(nodes)[n]))
      BY <1>3, <1>4, <1>6, <3>1
    <3> QED BY <1>1, <1>3, <3>1, <3>2, StopIsLongest
  <2> QED BY <2>1, <2>2
<1>8. ASSUME NEW p, Best(p) PROVE p = q
  <2>1. Len(p) <= Len(q) /\ Len(q) <= Len(p)
    BY <1>7, <1>8
  <2>2. p \in Seq(Names)
    <3>1. p \in DOMAIN Table
      BY <1>6, <1>8
    <3>2. PICK n \in DOMAIN nodes : p = PathIn(nodes)[n]
      BY <1>2, <3>1
    <3>3. PathIn(nodes)[n] \in Seq(Names)
      BY <1>1, PathTyped
    <3> QED BY <3>2, <3>3
  <2>3. Len(p) = Len(q)
    BY <1>5, <2>1, <2>2
  <2> QED BY <1>5, <1>6, <1>8, <2>3
<1>9. Mounts!Longest(w) = q
  <2>1. Mounts!Longest(w) = CHOOSE p : Best(p)
    BY DEF Mounts!Longest
  <2> HIDE DEF Best
  <2> QED BY <1>7, <1>8, <2>1
<1>10. Mounts!Beyond(w) = r
  BY <1>5, <1>9 DEF Mounts!Beyond
<1>11. Mounts!Complete(w) <=> Ended(r)
  BY <1>10 DEF Mounts!Complete, Ended, Token
<1> QED BY <1>3, <1>4, <1>9, <1>10, <1>11

\* A search finds what the storage of a directory finds.
LEMMA FoundIs ==
  ASSUME NEW g, NEW name \in Tokens, FindDirectory(g, name) # None
  PROVE  g \in Stored /\ FindDirectory(g, name) = Found[g, name] /\ FindDirectory(g, name) \in Files \cup {None}
<1>1. g \in Stored /\ FindDirectory(g, name) = Found[g, name]
  BY ZenonT(30) DEF FindDirectory, Searchable
<1>2. Found[g, name] \in Files \cup {None}
  BY <1>1, PathAssumption, Zenon
<1> QED BY <1>1, <1>2, Zenon

\* What a storage finds stays in the file system it was mounted with.
LEMMA FoundBelow ==
  ASSUME NEW f \in Files \cup {None}
  PROVE  /\ f \in Mounts!Below(f) \cup {None}
         /\ \A g \in Mounts!Below(f) \cup {None}, name \in Tokens :
              FindDirectory(g, name) \in Mounts!Below(f) \cup {None}
<1>1. f \in Mounts!Below(f) \cup {None}
  BY DEF Mounts!Below
<1>2. ASSUME NEW g \in Mounts!Below(f) \cup {None}, NEW name \in Tokens, FindDirectory(g, name) # None
      PROVE  FindDirectory(g, name) \in Mounts!Below(f)
  <2> DEFINE h == FindDirectory(g, name)
  <2>1. g \in Stored /\ h = Found[g, name] /\ h \in Files \cup {None}
    BY <1>2, FoundIs
  <2> HIDE DEF h
  <2>2. g \in Files /\ g # None /\ g \in Mounts!Below(f) /\ h \in Files
    <3>1. g \in Files /\ g # None
      BY <2>1, PathAssumption, Zenon
    <3>2. h \in Files
      BY <1>2, <2>1 DEF h
    <3> QED BY <3>1, <3>2
  <2>3. ASSUME NEW S \in SUBSET Files, f \in S \cup {None}, Mounts!Closed(S)
        PROVE  h \in S
    <3>1. g \in S
      BY <2>2, <2>3 DEF Mounts!Below
    <3>2. Found[g, name] \in S \cup {None}
      BY <2>3, <3>1, Zenon DEF Mounts!Closed, Tokens
    <3>3. h \in S \cup {None}
      BY <2>1, <3>2, Zenon
    <3> QED BY <1>2, <3>3 DEF h
  <2>4. h \in Mounts!Below(f)
    BY <2>2, <2>3 DEF Mounts!Below
  <2> QED BY <2>4 DEF h
<1> QED BY <1>1, <1>2

\* A walk that goes down by a name goes from a node's path to its child's.
LEMMA DownIs ==
  ASSUME NEW t, Grown(t), NEW s \in DOMAIN t, NEW m \in DOMAIN t, NEW r \in Seq(Tokens), r # <<>>,
         t[m].parent = s, t[m].name = Head(r)
  PROVE  PathIn(t)[s] \o r = PathIn(t)[m] \o Tail(r)
<1>1. m # Root /\ s \in Nat /\ s >= 1
  BY TreeShape DEF Grown
<1>2. PathIn(t)[m] = Append(PathIn(t)[s], Head(r)) /\ PathIn(t)[s] \in Seq(Names)
  BY <1>1, PathGrows
<1>3. PICK q \in Seq(Tokens) : q = PathIn(t)[s]
  <2>1. PathIn(t)[s] \in Seq(Tokens)
    BY <1>2 DEF Tokens
  <2> QED BY <2>1
<1>4. q \o r = Append(q, Head(r)) \o Tail(r)
  <2>1. PICK x \in Tokens, u \in Seq(Tokens) : x = Head(r) /\ u = Tail(r)
    BY HeadTailProperties
  <2>2. r = <<x>> \o u /\ <<x>> \in Seq(Tokens)
    BY <2>1
  <2>3. Append(q, x) = q \o <<x>>
    BY AppendIsConcat
  <2>4. (q \o <<x>>) \o u = q \o (<<x>> \o u)
    BY <2>2, ConcatAssociative
  <2> QED BY <2>1, <2>2, <2>3, <2>4
<1> QED BY <1>2, <1>3, <1>4

\* The walk invariant of the first state and of every step.
LEMMA InitWalk == Init => Walk
BY DEF Init, Walk

LEMMA NextWalk == IInv /\ IInv' /\ Walk /\ [Next]_vfsVars => Walk'
<1> SUFFICES ASSUME IInv, IInv', Walk, [Next]_vfsVars PROVE Walk'
  OBVIOUS
<1>0. /\ Grown(nodes) /\ Grown(nodes') /\ NodeIds = DOMAIN nodes /\ Root \in DOMAIN nodes
      /\ PathIn(nodes)[Root] = <<>> /\ subroot \in DOMAIN nodes /\ rest \in Seq(Tokens)
  BY TreeGrown, TreeGrownAfter, TreeShape, PathEquation DEF IInv, TypeOK
<1>1. ASSUME NEW f \in Files, MountRoot(f) PROVE Walk'
  BY <1>1 DEF MountRoot, Walk
<1>2. CASE RefuseRoot
  BY <1>2 DEF RefuseRoot, vfsVars, Walk
<1>3. ASSUME NEW p \in MountPaths \ {RootPath}, NEW f \in Files, Mount(p, f) PROVE Walk'
  <2>1. p \in Seq(Tokens)
    BY PathTypes
  <2>2. <<>> \o p = p
    BY <2>1, ConcatEmptySeq
  <2> QED BY <1>0, <1>3, <2>2 DEF Mount, Walk
<1>4. CASE MountEnd
  BY <1>4 DEF MountEnd, Return, Walk
<1>5. CASE MountDown
  <2>1. rest # <<>> /\ rest' = Tail(rest) /\ nodes' = nodes /\ pc' = "mount" /\ path' = path
    BY <1>5 DEF MountDown, Ended, After
  <2>2. subroot' \in DOMAIN nodes /\ nodes[subroot'].parent = subroot /\ nodes[subroot'].name = Head(rest)
    BY <1>5 DEF MountDown, Matches, Children, Token, NodeIds
  <2>3. path = PathIn(nodes)[subroot] \o rest
    BY <1>5 DEF MountDown, Walk
  <2>4. path = PathIn(nodes)[subroot'] \o Tail(rest)
    BY <1>0, <2>1, <2>2, <2>3, DownIs
  <2> QED BY <2>1, <2>4 DEF Walk
<1>6. CASE MountNew
  <2>1. rest # <<>> /\ rest' = Tail(rest) /\ pc' = "mount" /\ path' = path /\ subroot' = Len(nodes')
        /\ nodes' = Append(nodes, [name |-> Head(rest), parent |-> subroot, file |-> None])
    BY <1>6 DEF MountNew, Ended, After, Token
  <2>2. /\ DOMAIN nodes = 1 .. Len(nodes) /\ Len(nodes) \in Nat /\ subroot' = Len(nodes) + 1
        /\ DOMAIN nodes' = 1 .. Len(nodes) + 1 /\ nodes'[subroot'] = [name |-> Head(rest), parent |-> subroot, file |-> None]
        /\ \A n \in DOMAIN nodes : nodes'[n] = nodes[n]
    <3>1. nodes \in Seq(Node)
      BY DEF IInv, Tree
    <3>2. [name |-> Head(rest), parent |-> subroot, file |-> None] \in Node
      BY <1>0, <2>1, TreeShape DEF Node
    <3> QED BY <2>1, <3>1, <3>2
  <2>3. PathIn(nodes')[subroot] = PathIn(nodes)[subroot]
    <3>1. PICK u : u = nodes' /\ Grown(u)
      BY <1>0
    <3>2. DOMAIN nodes \subseteq DOMAIN u
          /\ \A n \in DOMAIN nodes : u[n].name = nodes[n].name /\ u[n].parent = nodes[n].parent
      BY <2>2, <3>1
    <3>3. \A n \in DOMAIN nodes : PathIn(u)[n] = PathIn(nodes)[n]
      BY <1>0, <3>1, <3>2, PathKept
    <3> QED BY <1>0, <3>1, <3>3
  <2>4. path = PathIn(nodes)[subroot] \o rest
    BY <1>6 DEF MountNew, Walk
  <2>5. PathIn(nodes')[subroot] \o rest = PathIn(nodes')[subroot'] \o Tail(rest)
    <3>1. PICK u : u = nodes' /\ Grown(u)
      BY <1>0
    <3>2. PICK m : m = subroot'
      OBVIOUS
    <3>3. m \in DOMAIN u /\ subroot \in DOMAIN u /\ u[m].parent = subroot /\ u[m].name = Head(rest)
      BY <1>0, <2>2, <3>1, <3>2
    <3>4. PathIn(u)[subroot] \o rest = PathIn(u)[m] \o Tail(rest)
      BY <1>0, <2>1, <3>1, <3>3, DownIs
    <3> QED BY <3>1, <3>2, <3>4
  <2> QED BY <2>1, <2>3, <2>4, <2>5 DEF Walk
<1>7. ASSUME NEW p \in OpenPaths, Open(p) PROVE Walk'
  <2>1. p \in Seq(Tokens)
    BY PathTypes
  <2>2. <<>> \o p = p
    BY <2>1, ConcatEmptySeq
  <2> QED BY <1>0, <1>7, <2>2 DEF Open, Walk
<1>8. CASE LookupRoot
  <2>1. /\ pc = "lookup" /\ pc' = "find" /\ subroot' = Root /\ nodes' = nodes /\ path' = path /\ file' = file
        /\ start' = nodes[Root].file /\ path = RootPath /\ file = None
    BY <1>8 DEF LookupRoot, FoundMount, MountedAt, Walk
  <2>2. PathIn(nodes)[Root] = <<>> /\ Root \in DOMAIN nodes
    BY <1>0, PathEquation
  <2>3. RootPath \in Seq(Tokens) /\ RootPath = <<>> \o RootPath /\ StopsIn(nodes, Root, RootPath)
    <3>1. RootPath \in Seq(Tokens) /\ Head(RootPath) = Empty
      BY DEF RootPath, Tokens
    <3> QED BY <3>1, ConcatEmptySeq DEF StopsIn
  <2>4. nodes[Root].file \in Files \cup {None}
    BY <1>0, NodeTypes DEF IInv, Node
  <2>5. start' \in Mounts!Below(nodes[Root].file) \cup {None}
    BY <2>1, <2>4, FoundBelow
  <2>6. (/\ \E r \in Seq(Tokens) :
               /\ path = PathIn(nodes)[subroot] \o r
               /\ StopsIn(nodes, subroot, r)
               /\ path # RootPath => rest = (IF r = <<>> THEN <<>> ELSE After(r)))'
    BY <2>1, <2>2, <2>3
  <2> QED BY <2>1, <2>5, <2>6 DEF Walk
<1>9. ASSUME pc = "lookup", path # RootPath, StopsIn(nodes, subroot, rest),
             FoundMount(subroot, IF rest = <<>> THEN <<>> ELSE After(rest))
      PROVE  Walk'
  <2>1. /\ pc' = "find" /\ subroot' = subroot /\ nodes' = nodes /\ path' = path /\ file' = file
        /\ start' = nodes[subroot].file /\ rest' = (IF rest = <<>> THEN <<>> ELSE After(rest))
    BY <1>9 DEF FoundMount, MountedAt
  <2>2. path = PathIn(nodes)[subroot] \o rest /\ file = None
    BY <1>9 DEF Walk
  <2>3. (\E r \in Seq(Tokens) :
           /\ path = PathIn(nodes)[subroot] \o r
           /\ StopsIn(nodes, subroot, r)
           /\ path # RootPath => rest = (IF r = <<>> THEN <<>> ELSE After(r)))'
    BY <1>0, <1>9, <2>1, <2>2
  <2>4. nodes[subroot].file \in Files \cup {None}
    BY <1>0, NodeTypes DEF IInv, Node
  <2>5. (start \in Mounts!Below(nodes[subroot].file) \cup {None})'
    BY <2>1, <2>4, FoundBelow
  <2> QED BY <2>1, <2>2, <2>3, <2>5 DEF Walk
<1>10. CASE LookupEnd
  <2>1. StopsIn(nodes, subroot, rest)
    BY <1>10 DEF LookupEnd, Ended, StopsIn, Token
  <2> QED BY <1>9, <1>10, <2>1 DEF LookupEnd
<1>11. CASE LookupMiss
  <2>1. rest # <<>> /\ StopsIn(nodes, subroot, rest)
    BY <1>0, <1>11 DEF LookupMiss, Ended, StopsIn, Token, Children
  <2>2. FoundMount(subroot, IF rest = <<>> THEN <<>> ELSE After(rest))
    BY <1>11, <2>1 DEF LookupMiss
  <2> QED BY <1>9, <1>11, <2>1, <2>2 DEF LookupMiss
<1>12. CASE LookupDown
  <2>1. rest # <<>> /\ rest' = Tail(rest) /\ nodes' = nodes /\ pc' = "lookup" /\ path' = path /\ file' = file
    BY <1>12 DEF LookupDown, Ended, After
  <2>2. subroot' \in DOMAIN nodes /\ nodes[subroot'].parent = subroot /\ nodes[subroot'].name = Head(rest)
    BY <1>12 DEF LookupDown, Children, Token, NodeIds
  <2>3. path = PathIn(nodes)[subroot] \o rest /\ file = None
    BY <1>12 DEF LookupDown, Walk
  <2>4. path = PathIn(nodes)[subroot'] \o Tail(rest)
    BY <1>0, <2>1, <2>2, <2>3, DownIs
  <2> QED BY <2>1, <2>3, <2>4 DEF Walk
<1>13. CASE FindStep
  <2>1. CASE FindDirectory(start, Token(filenameStart)) = None
    BY <1>13, <2>1 DEF FindStep, Return, Walk
  <2>2. CASE FindDirectory(start, Token(filenameStart)) # None
    <3>1. /\ pc = "find" /\ pc' = "find" /\ nodes' = nodes /\ path' = path /\ file' = file
          /\ subroot' = subroot /\ rest' = rest /\ rest # <<>>
          /\ start' = FindDirectory(start, Token(filenameStart)) /\ filenameStart # <<>>
      BY <1>13, <2>2 DEF FindStep
    <3>2. (\E r \in Seq(Tokens) :
             /\ path = PathIn(nodes)[subroot] \o r
             /\ StopsIn(nodes, subroot, r)
             /\ path # RootPath => rest = (IF r = <<>> THEN <<>> ELSE After(r)))'
      BY <3>1 DEF Walk
    <3>3. Token(filenameStart) \in Tokens
      BY <1>0, <3>1 DEF Token, IInv, TypeOK
    <3>4. nodes[subroot].file \in Files \cup {None}
      BY <1>0, NodeTypes DEF IInv, Node
    <3>5. (start \in Mounts!Below(nodes[subroot].file) \cup {None})'
      BY <3>1, <3>3, <3>4, FoundBelow DEF Walk
    <3> QED BY <3>1, <3>2, <3>5 DEF Walk
  <2> QED BY <2>1, <2>2
<1>14. CASE OpenEnd
  BY <1>14 DEF OpenEnd, Return, Walk
<1>15. CASE UNCHANGED vfsVars
  BY <1>15 DEF vfsVars, Walk
<1> QED BY <1>1, <1>2, <1>3, <1>4, <1>5, <1>6, <1>7, <1>8, <1>10, <1>11, <1>12, <1>13, <1>14, <1>15 DEF Next

-----------------------------------------------------------------------------
\* A remount as the tree's nodes see it.
LEMMA RemountOfTree ==
  ASSUME NEW t \in Seq(Node), NEW u, NEW s \in DOMAIN t, NEW f, u = [t EXCEPT ![s].file = f]
  PROVE  /\ DOMAIN u = DOMAIN t
         /\ \A n \in DOMAIN t : u[n].name = t[n].name /\ u[n].parent = t[n].parent
         /\ \A n \in DOMAIN t : u[n].file = IF n = s THEN f ELSE t[n].file
<1>1. \A n \in DOMAIN t : t[n] \in Node
  OBVIOUS
<1> QED BY <1>1 DEF Node

\* A remount replaces one entry of the table.
LEMMA RemountIs ==
  ASSUME NEW t, NEW u, Grown(t), Single(t), Grown(u), Single(u), NEW s \in DOMAIN t, NEW f,
         DOMAIN u = DOMAIN t,
         \A n \in DOMAIN t : u[n].name = t[n].name /\ u[n].parent = t[n].parent,
         \A n \in DOMAIN t : u[n].file = IF n = s THEN f ELSE t[n].file
  PROVE  TableIn(u) = [TableIn(t) EXCEPT ![PathIn(t)[s]] = f]
<1>1. /\ DOMAIN u = DOMAIN t
      /\ \A n \in DOMAIN t : u[n].name = t[n].name /\ u[n].parent = t[n].parent
      /\ \A n \in DOMAIN t : u[n].file = IF n = s THEN f ELSE t[n].file
  OBVIOUS
<1>2. \A n \in DOMAIN t : PathIn(u)[n] = PathIn(t)[n]
  BY <1>1, PathKept
<1>3. DOMAIN TableIn(u) = DOMAIN TableIn(t)
  <2>1. {PathIn(u)[n] : n \in DOMAIN u} = {PathIn(t)[n] : n \in DOMAIN t}
    BY <1>1, <1>2
  <2> QED BY <2>1, TableIs
<1>4. ASSUME NEW q \in DOMAIN TableIn(t)
      PROVE  TableIn(u)[q] = IF q = PathIn(t)[s] THEN f ELSE TableIn(t)[q]
  <2>0. DOMAIN TableIn(t) = {PathIn(t)[n] : n \in DOMAIN t}
    BY TableIs
  <2>1. PICK n \in DOMAIN t : q = PathIn(t)[n]
    BY <2>0
  <2>2. TableIn(u)[q] = u[n].file
    <3>1. TableIn(u)[PathIn(u)[n]] = u[n].file
      BY <1>1, TableIs
    <3> QED BY <1>2, <2>1, <3>1
  <2>3. TableIn(t)[q] = t[n].file
    BY <2>1, TableIs
  <2>4. q = PathIn(t)[s] <=> n = s
    BY <2>1, PathInjective
  <2> QED BY <1>1, <2>2, <2>3, <2>4
<1>5. TableIn(u) = [q \in DOMAIN TableIn(u) |-> TableIn(u)[q]]
  BY TableIs
<1>6. TableIn(t) = [q \in DOMAIN TableIn(t) |-> TableIn(t)[q]]
  BY TableIs
<1> QED BY <1>3, <1>4, <1>5, <1>6

\* Tree u is tree t with one more node m, a child of s named x.
OneMore(t, u, m, s, x) ==
  /\ DOMAIN u = DOMAIN t \cup {m} /\ m \notin DOMAIN t
  /\ \A n \in DOMAIN t : u[n] = t[n]
  /\ u[m].parent = s /\ u[m].name = x /\ u[m].file = None

\* Table f with path q made known.
WithPath(f, q) == [p \in DOMAIN f \cup {q} |-> IF p \in DOMAIN f THEN f[p] ELSE None]

\* A new node makes its path known.
LEMMA GrowIs ==
  ASSUME NEW t, NEW u, Grown(t), Single(t), Grown(u), Single(u), NEW s \in DOMAIN t, NEW x, NEW m,
         OneMore(t, u, m, s, x)
  PROVE  TableIn(u) = WithPath(TableIn(t), Append(PathIn(t)[s], x))
<1>2. /\ DOMAIN u = DOMAIN t \cup {m} /\ m \notin DOMAIN t /\ m \in DOMAIN u /\ m # Root
      /\ \A n \in DOMAIN t : u[n] = t[n]
      /\ u[m].parent = s /\ u[m].name = x /\ u[m].file = None
  BY TreeShape DEF OneMore
<1>3. \A n \in DOMAIN t : PathIn(u)[n] = PathIn(t)[n]
  <2>1. DOMAIN t \subseteq DOMAIN u /\ \A n \in DOMAIN t : u[n].name = t[n].name /\ u[n].parent = t[n].parent
    BY <1>2
  <2> QED BY <2>1, PathKept
<1>4. PathIn(u)[m] = Append(PathIn(t)[s], x)
  <2>1. PathIn(u)[m] = Append(PathIn(u)[s], x)
    BY <1>2, PathGrows
  <2> QED BY <1>3, <2>1
<1>5. DOMAIN TableIn(u) = DOMAIN TableIn(t) \cup {PathIn(u)[m]}
  <2>1. {PathIn(u)[n] : n \in DOMAIN u} = {PathIn(t)[n] : n \in DOMAIN t} \cup {PathIn(u)[m]}
    BY <1>2, <1>3
  <2> QED BY <2>1, TableIs
<1>6. ASSUME NEW n \in DOMAIN t PROVE TableIn(u)[PathIn(t)[n]] = TableIn(t)[PathIn(t)[n]]
  <2>1. TableIn(u)[PathIn(u)[n]] = u[n].file
    BY <1>2, TableIs
  <2>2. TableIn(t)[PathIn(t)[n]] = t[n].file
    BY TableIs
  <2> QED BY <1>2, <1>3, <2>1, <2>2
<1>7. PathIn(u)[m] \notin DOMAIN TableIn(t) /\ TableIn(u)[PathIn(u)[m]] = None
  <2>1. \A n \in DOMAIN t : PathIn(u)[m] # PathIn(t)[n]
    BY <1>2, <1>3, PathInjective
  <2>2. TableIn(u)[PathIn(u)[m]] = u[m].file
    BY <1>2, TableIs
  <2>3. DOMAIN TableIn(t) = {PathIn(t)[n] : n \in DOMAIN t}
    BY TableIs
  <2> QED BY <1>2, <2>1, <2>2, <2>3
<1>8. ASSUME NEW p \in DOMAIN TableIn(u)
      PROVE  TableIn(u)[p] = IF p \in DOMAIN TableIn(t) THEN TableIn(t)[p] ELSE None
  <2>1. CASE p \in DOMAIN TableIn(t)
    <3>1. DOMAIN TableIn(t) = {PathIn(t)[n] : n \in DOMAIN t}
      BY TableIs
    <3>2. PICK n \in DOMAIN t : p = PathIn(t)[n]
      BY <2>1, <3>1
    <3> QED BY <1>6, <2>1, <3>2
  <2>2. CASE p \notin DOMAIN TableIn(t)
    BY <1>5, <1>7, <2>2
  <2> QED BY <2>1, <2>2
<1>9. TableIn(u) = [p \in DOMAIN TableIn(u) |-> TableIn(u)[p]]
  BY TableIs
<1>10. TableIn(u) = WithPath(TableIn(t), PathIn(u)[m])
  BY <1>5, <1>8, <1>9 DEF WithPath
<1> QED BY <1>4, <1>10

\* What a walk knows where it stops: all of what it has to ask the table.
LEMMA OpenedIs ==
  ASSUME IInv, Walk, pc = "find"
  PROVE  /\ start \in Mounts!Below(Table[Mounts!Longest(path)]) \cup {None}
         /\ Mounts!Whole(path) => rest = <<>> /\ start = Table[Mounts!Longest(path)]
<1>1. PICK r \in Seq(Tokens) :
        /\ path = PathIn(nodes)[subroot] \o r
        /\ StopsIn(nodes, subroot, r)
        /\ path # RootPath => rest = (IF r = <<>> THEN <<>> ELSE After(r))
  BY DEF Walk
<1>2. Mounts!Longest(path) = PathIn(nodes)[subroot] /\ Mounts!Beyond(path) = r
  BY <1>1, LongestIs
<1>3. Table[PathIn(nodes)[subroot]] = nodes[subroot].file
  <2>1. Grown(nodes) /\ Single(nodes) /\ subroot \in DOMAIN nodes
    BY TreeGrown DEF IInv, TypeOK
  <2> QED BY <2>1, TreeIs, TableIs
<1>4. ASSUME Mounts!Whole(path) PROVE path # RootPath /\ rest = <<>>
  BY <1>1, <1>2, <1>4 DEF After, Mounts!Whole, RootPath, Mounts!RootPath
<1> QED BY <1>2, <1>3, <1>4 DEF Walk

\* Every step of the tree and its walks is a step of the table, or none.
LEMMA StepImplements ==
  IInv /\ IInv' /\ Walk /\ Walk' /\ [Next]_vfsVars => [Mounts!Next]_(Mounts!tableVars)
<1> SUFFICES ASSUME IInv, IInv', Walk, Walk', [Next]_vfsVars
             PROVE  Mounts!Next \/ UNCHANGED Mounts!tableVars
  OBVIOUS
<1> DEFINE Request == [op |-> Serving, path |-> path, file |-> file]
<1>0. Grown(nodes) /\ Single(nodes) /\ NodeIds = DOMAIN nodes /\ Root \in NodeIds /\ subroot \in NodeIds
      /\ PathIn(nodes)[Root] = <<>>
  BY TreeGrown, TreeShape, PathEquation DEF IInv, TypeOK
<1>1. ASSUME pc = "idle" PROVE Request = Mounts!Idle
  BY <1>1 DEF Serving, Walk, Mounts!Idle
<1>2. ASSUME pc' = "idle" PROVE Request' = Mounts!Idle
  BY <1>2 DEF Serving, Walk, Mounts!Idle
<1>3. ASSUME nodes' = nodes PROVE Table' = Table
  BY <1>3, TreeIs
<1>17. ASSUME NEW s \in NodeIds, NEW f, nodes' = [nodes EXCEPT ![s].file = f]
       PROVE  Table' = [Table EXCEPT ![PathIn(nodes)[s]] = f]
  <2>1. PICK u : u = nodes' /\ Grown(u) /\ Single(u)
    BY TreeGrownAfter DEF IInv
  <2>2. /\ DOMAIN u = DOMAIN nodes
        /\ \A n \in DOMAIN nodes : u[n].name = nodes[n].name /\ u[n].parent = nodes[n].parent
        /\ \A n \in DOMAIN nodes : u[n].file = IF n = s THEN f ELSE nodes[n].file
    BY <1>0, <1>17, <2>1, RemountOfTree DEF IInv, Tree
  <2>3. TableIn(u) = [TableIn(nodes) EXCEPT ![PathIn(nodes)[s]] = f]
    <3>1. Grown(u) /\ Single(u) /\ s \in DOMAIN nodes
      BY <1>0, <2>1
    <3>2. Grown(nodes) /\ Single(nodes)
      BY <1>0
    <3> QED BY <2>2, <3>1, <3>2, RemountIs
  <2> QED BY <2>1, <2>3, TreeIs
<1>4. ASSUME NEW f \in Files, MountRoot(f) PROVE Mounts!Next
  <2>1. Table[<<>>] = None
    <3>1. TableIn(nodes)[PathIn(nodes)[Root]] = nodes[Root].file
      BY <1>0, TableIs
    <3> QED BY <1>0, <1>4, <3>1, TreeIs DEF MountRoot, RootTaken
  <2>2. Table' = [Table EXCEPT ![<<>>] = f]
    <3>1. Table' = [Table EXCEPT ![PathIn(nodes)[Root]] = f]
      BY <1>0, <1>4, <1>17 DEF MountRoot
    <3> QED BY <1>0, <3>1
  <2>3. Request' = Request /\ Request = Mounts!Idle /\ answer' = answer
    BY <1>1, <1>4 DEF MountRoot, Serving
  <2>4. Mounts!MountRoot(f)
    BY <2>1, <2>2, <2>3 DEF Mounts!MountRoot
  <2> QED BY <2>4 DEF Mounts!Next
<1>5. ASSUME NEW p \in MountPaths \ {RootPath}, NEW f \in Files, Mount(p, f) PROVE Mounts!Next
  <2>1. Request = Mounts!Idle /\ Table' = Table /\ answer' = answer
    BY <1>1, <1>3, <1>5 DEF Mount
  <2>2. Request' = [op |-> "mount", path |-> p, file |-> f]
    BY <1>5 DEF Mount, Serving
  <2>3. Mounts!Ask("mount", p, f)
    BY <2>1, <2>2 DEF Mounts!Ask
  <2> QED BY <2>3 DEF Mounts!Next
<1>6. CASE MountEnd
  <2>1. /\ path = PathIn(nodes)[subroot] \o rest /\ rest \in Seq(Tokens) /\ StopsIn(nodes, subroot, rest) /\ Ended(rest)
        /\ pc = "mount" /\ pc' = "idle" /\ answer' = answer
    BY <1>6 DEF MountEnd, Return, Walk, IInv, TypeOK, StopsIn, Ended, Token
  <2>2. Mounts!Longest(path) = PathIn(nodes)[subroot] /\ Mounts!Complete(path)
    BY <2>1, LongestIs
  <2>3. Table' = [Table EXCEPT ![PathIn(nodes)[subroot]] = file]
    BY <1>0, <1>6, <1>17 DEF MountEnd
  <2>4. Request.op = "mount" /\ Request.path = path /\ Request.file = file
    BY <2>1 DEF Serving
  <2>5. Mounts!Mount
    BY <1>2, <2>1, <2>2, <2>3, <2>4 DEF Mounts!Mount
  <2> QED BY <2>5 DEF Mounts!Next
<1>7. CASE MountNew
  <2>1. /\ path = PathIn(nodes)[subroot] \o rest /\ rest \in Seq(Tokens) /\ ~Ended(rest) /\ rest # <<>>
        /\ pc = "mount" /\ pc' = pc /\ path' = path /\ file' = file /\ answer' = answer
    BY <1>7 DEF MountNew, Walk, IInv, TypeOK, Ended
  <2>2. StopsIn(nodes, subroot, rest)
    BY <1>0, <1>7 DEF MountNew, Matches, Children, StopsIn, Token
  <2>3. Mounts!Longest(path) = PathIn(nodes)[subroot] /\ ~Mounts!Complete(path)
    BY <2>1, <2>2, LongestIs
  <2> DEFINE next == Append(PathIn(nodes)[subroot], Head(rest))
  <2>4. Table' = WithPath(Table, next)
    <3> DEFINE new == [name |-> Head(rest), parent |-> subroot, file |-> None]
    <3>1. PICK u : u = nodes' /\ Grown(u) /\ Single(u)
      BY TreeGrownAfter DEF IInv
    <3>2. PICK m : /\ DOMAIN u = DOMAIN nodes \cup {m} /\ m \notin DOMAIN nodes
                   /\ (\A n \in DOMAIN nodes : u[n] = nodes[n])
                   /\ u[m].parent = subroot /\ u[m].name = Head(rest) /\ u[m].file = None
      <4>1. nodes \in Seq(Node) /\ u = Append(nodes, new)
        BY <1>7, <3>1 DEF MountNew, Token, IInv, Tree
      <4>2. new \in Node
        BY <1>0, <2>1, TreeShape DEF Node
      <4>3. /\ DOMAIN nodes = 1 .. Len(nodes) /\ DOMAIN u = 1 .. Len(nodes) + 1 /\ Len(nodes) \in Nat
            /\ u[Len(nodes) + 1] = new /\ \A n \in DOMAIN nodes : u[n] = nodes[n]
        BY <4>1, <4>2
      <4> QED BY <4>3
    <3>3. TableIn(u) = WithPath(TableIn(nodes), next)
      <4>1. Grown(u) /\ Single(u)
        BY <3>1
      <4>2. Grown(nodes) /\ Single(nodes) /\ subroot \in DOMAIN nodes
        BY <1>0
      <4>3. OneMore(nodes, u, m, subroot, Head(rest))
        BY <3>2 DEF OneMore
      <4> QED BY <4>1, <4>2, <4>3, GrowIs
    <3> QED BY <3>1, <3>3, TreeIs
  <2>5. SubSeq(path, 1, Len(Mounts!Longest(path)) + 1) = next
    <3>1. PathIn(nodes)[subroot] \in Seq(Names)
      BY <1>0, PathTyped
    <3>2. PICK q \in Seq(Tokens) : q = PathIn(nodes)[subroot]
      BY <3>1 DEF Tokens
    <3>3. SubSeq(q \o rest, 1, Len(q) + 1) = Append(q, Head(rest))
      BY <2>1, PrefixOfConcat
    <3> QED BY <2>1, <2>3, <3>2, <3>3
  <2>6. Request.op = "mount" /\ Request.path = path /\ Request' = Request
    BY <2>1 DEF Serving
  <2>7. Mounts!Grow
    <3> HIDE DEF next, Request
    <3>1. PICK w : w = path
      OBVIOUS
    <3> QED BY <2>1, <2>3, <2>4, <2>5, <2>6 DEF Mounts!Grow, Request, WithPath
  <2> QED BY <2>7 DEF Mounts!Next
<1>8. ASSUME NEW p \in OpenPaths, Open(p) PROVE Mounts!Next
  <2>1. Request = Mounts!Idle /\ Table' = Table /\ answer' = answer
    BY <1>1, <1>3, <1>8 DEF Open
  <2>2. Request' = [op |-> "open", path |-> p, file |-> None]
    BY <1>8 DEF Open, Serving, Walk
  <2>3. Mounts!Ask("open", p, None)
    BY <2>1, <2>2 DEF Mounts!Ask
  <2> QED BY <2>3 DEF Mounts!Next
<1>9. ASSUME nodes' = nodes, Serving' = Serving, path' = path, file' = file, answer' = answer
      PROVE  UNCHANGED Mounts!tableVars
  BY <1>3, <1>9 DEF Mounts!tableVars
<1>10. ASSUME pc = "find", pc' = "idle", nodes' = nodes,
              answer' = start \/ (answer' = None /\ rest # <<>>)
       PROVE  Mounts!Next
  <2>1. Request.op = "open" /\ Request.path = path /\ Request' = Mounts!Idle /\ Table' = Table
    BY <1>2, <1>3, <1>10 DEF Serving
  <2>2. answer' \in IF Mounts!Whole(path) THEN {Table[Mounts!Longest(path)]}
                    ELSE Mounts!Below(Table[Mounts!Longest(path)]) \cup {None}
    BY <1>10, OpenedIs
  <2>3. Mounts!Open
    <3> HIDE DEF Request
    <3> QED BY <1>10, <2>1, <2>2 DEF Mounts!Open, Request
  <2> QED BY <2>3 DEF Mounts!Next
<1>11. CASE FindStep
  <2>1. CASE FindDirectory(start, Token(filenameStart)) = None
    BY <1>10, <1>11, <2>1 DEF FindStep, Return
  <2>2. CASE FindDirectory(start, Token(filenameStart)) # None
    BY <1>9, <1>11, <2>2 DEF FindStep, Serving
  <2> QED BY <2>1, <2>2
<1>12. CASE OpenEnd
  BY <1>10, <1>12 DEF OpenEnd, Return, IInv, TypeOK
<1>13. CASE RefuseRoot \/ UNCHANGED vfsVars
  BY <1>9, <1>13 DEF RefuseRoot, vfsVars, Serving
<1>14. CASE MountDown
  BY <1>9, <1>14 DEF MountDown, Serving
<1>15. CASE LookupRoot \/ LookupEnd \/ LookupMiss
  BY <1>9, <1>15 DEF LookupRoot, LookupEnd, LookupMiss, FoundMount, Serving
<1>16. CASE LookupDown
  BY <1>9, <1>16 DEF LookupDown, Serving
<1> HIDE DEF Request
<1> QED BY <1>4, <1>5, <1>6, <1>7, <1>8, <1>11, <1>12, <1>13, <1>14, <1>15, <1>16 DEF Next

\* The tree starts as the table that knows the root only.
LEMMA InitImplements == Init => Mounts!Init
<1> SUFFICES ASSUME Init PROVE Mounts!Init
  OBVIOUS
<1>1. Grown(nodes) /\ Single(nodes) /\ DOMAIN nodes = {Root} /\ nodes[Root].file = None
  BY InitTree, TreeGrown DEF IInv, Init, Root
<1>2. PathIn(nodes)[Root] = <<>>
  BY <1>1, PathEquation
<1>3. DOMAIN TableIn(nodes) = {<<>>} /\ TableIn(nodes)[<<>>] = None
  <2>1. DOMAIN TableIn(nodes) = {PathIn(nodes)[n] : n \in DOMAIN nodes}
    BY <1>1, TableIs
  <2>2. TableIn(nodes)[PathIn(nodes)[Root]] = nodes[Root].file
    BY <1>1, TableIs
  <2> QED BY <1>1, <1>2, <2>1, <2>2
<1>4. TableIn(nodes) = [q \in DOMAIN TableIn(nodes) |-> TableIn(nodes)[q]]
  BY <1>1, TableIs
<1>5. Table = [q \in {<<>>} |-> None]
  BY <1>3, <1>4, TreeIs
<1> QED BY <1>5 DEF Init, Serving, Mounts!Init, Mounts!Idle

\* The tree with its calls, one token at a time, does what the table promises,
\* for any names, files, storages and paths, however many mounts there have been:
\* mounting makes the prefixes of a path known and replaces what was there, and
\* opening a known path answers what is mounted on it.  Of a path that goes
\* beyond the known ones, and of "/", it says that the answer comes from the file
\* system on its longest known prefix, or is none; not which file it is.
THEOREM Refinement == Spec => ImplementsMountTable
<1>1. Init => IInv /\ Walk
  BY InitTree, InitWalk
<1>2. IInv /\ Walk /\ [Next]_vfsVars => (IInv /\ Walk)'
  BY NextTree, NextWalk
<1>3. IInv /\ Walk /\ (IInv /\ Walk)' /\ [Next]_vfsVars => [Mounts!Next]_(Mounts!tableVars)
  BY StepImplements
<1> QED BY <1>1, <1>2, <1>3, InitImplements, PTL DEF Spec, ImplementsMountTable, Mounts!Spec
=============================================================================
