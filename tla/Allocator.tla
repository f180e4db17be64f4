------------------------------ MODULE Allocator ------------------------------
(***************************************************************************)
(* What an allocator of contiguous blocks promises its callers, whatever   *)
(* it is made of.  The frame allocator (PMM) and the kernel heap (Heap)    *)
(* are both shown to implement it: a block is handed out only if it        *)
(* overlaps no block that is still held, and only a held block is given    *)
(* back.  Which free block is chosen, and when a request is refused, is    *)
(* left open.                                                              *)
(***************************************************************************)
EXTENDS Integers

CONSTANT Block          \* every block that may be handed out: records [base, size]

VARIABLE held           \* the blocks the callers hold

\* The units (frames, bytes) a block is made of.
Span(b) == b.base .. b.base + b.size - 1

Init == held = {}

Hand(b) ==
  /\ held' = held \cup {b}
  /\ \A h \in held : Span(h) \cap Span(b) = {}

TakeBack(b) ==
  /\ b \in held
  /\ held' = held \ {b}

Next == \E b \in Block : Hand(b) \/ TakeBack(b)

Spec == Init /\ [][Next]_held

\* No unit is held twice: the promise callers rely on.
Disjoint == \A a, b \in held : a # b => Span(a) \cap Span(b) = {}
=============================================================================
