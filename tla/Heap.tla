--------------------------------- MODULE Heap ---------------------------------
(***************************************************************************)
(* The kernel heap (Kernel/src/MM/Heap.cpp, behind kmalloc, new and        *)
(* delete): a doubly linked list of chunks whose headers lie in the heap   *)
(* itself, so that `mem', the heap's bytes, is all there is.  malloc does  *)
(* not round the sizes it is asked for, so a header may start at any       *)
(* address; its pointers and sizes are read and written as four bytes.  A  *)
(* pointer that leads out of the heap's pages faults, and the fault        *)
(* handler returns to the same instruction for ever.                       *)
(*                                                                         *)
(* malloc is split at every chunk its search visits, because on a broken   *)
(* list the search need not end.  Callers write what they like into their  *)
(* blocks, and give blocks back in the order FreeOrder allows.             *)
(***************************************************************************)
EXTENDS Integers, Sequences, SequencesExt

CONSTANTS
  Start,        \* the heap's first address (KERNEL_HEAP_START)
  MemorySize,   \* its size in bytes (KERNEL_HEAP_SIZE)
  Byte,         \* 2^8: the values of a byte are 0 .. Byte - 1
  Magic,        \* HEAP_MAGIC
  Junk,         \* what a byte of the heap's frames holds at first
  UserData,     \* the bytes callers write into their blocks
  Requests,     \* the sizes callers ask for
  FreeOrder     \* "lifo" or "any": who may be freed

Word == 4
HeaderSize == 5 * Word               \* sizeof(MemoryChunk)
Range32 == Byte * Byte * Byte * Byte
U32 == 0 .. Range32 - 1
nullptr == 0
NoAnswer == -1

\* The heap's bytes, and the addresses at which a whole word lies.
Addresses == Start .. Start + MemorySize - 1
Words == Start .. Start + MemorySize - Word

ASSUME LayoutAssumption ==
  /\ Byte \in Nat /\ Byte > 1
  /\ Start \in Nat \ {0} /\ MemorySize \in Nat
  /\ Start + MemorySize < Range32 /\ 2 * (MemorySize + HeaderSize) <= Range32
  /\ Magic \in U32 /\ {Junk} \cup UserData \subseteq 0 .. Byte - 1
  /\ Requests \subseteq U32
  /\ FreeOrder \in {"lifo", "any"}

VARIABLES
  mem,          \* the bytes of the heap's pages
  usedMemory,
  pc,           \* "idle", "search" and "split" inside malloc, "fault" for ever
  want, chunk,  \* malloc's argument and its loop variable
  reply,        \* the last answer of malloc
  held          \* the blocks callers hold, the oldest first

heapVars == <<mem, usedMemory, pc, want, chunk, reply, held>>

\* The fields of the header at address c.
next(c) == c
prev(c) == c + Word
magic(c) == c + 2 * Word
allocated(c) == c + 3 * Word
size(c) == c + 4 * Word

HeaderMapped(c) == c \in Words /\ size(c) \in Words

\* A word in memory: its bytes, the lowest first; how it is read and written.
Upper(word) == word \div Byte
BytesOf(word) ==
  <<word % Byte, Upper(word) % Byte, Upper(Upper(word)) % Byte, Upper(Upper(Upper(word)))>>

Peek(m, a) ==
  IF a \in Words THEN m[a] + Byte * (m[a + 1] + Byte * (m[a + 2] + Byte * m[a + 3])) ELSE 0

Put(m, a, word) ==
  [x \in Addresses |-> IF x - a \in 0 .. Word - 1 THEN BytesOf(word)[x - a + 1] ELSE m[x]]

Wrapped(n) == n % Range32

\* The flag `allocated' is one byte, a bool; the three behind it are never used.
Flagged(m, c, flag) == [m EXCEPT ![allocated(c)] = flag]
IsAllocated(m, c) == allocated(c) \in Addresses /\ m[allocated(c)] # 0

-----------------------------------------------------------------------------
\* The constructor: one free chunk, if its header fits.
first == IF MemorySize < HeaderSize THEN nullptr ELSE Start

raw == [a \in Addresses |-> Junk]

\* A free chunk's header, written over what is there.
WithHeader(m, c, before, after, room) ==
  Put(Put(Put(Put(Flagged(m, c, 0), prev(c), before), next(c), after), size(c), room),
      magic(c), Magic)

Init ==
  /\ mem = IF first = nullptr THEN raw
           ELSE WithHeader(raw, first, nullptr, nullptr, MemorySize - HeaderSize)
  /\ usedMemory = 0
  /\ pc = "idle"
  /\ want = 0
  /\ chunk = nullptr
  /\ reply = NoAnswer
  /\ held = <<>>

Answer(address) == reply' = address /\ pc' = "idle"

\* The guard of malloc without the header's room, with room for two headers,
\* and as it is: the sum is a u32, so an enormous request passes.
TooBigAlone(bytes) == Wrapped(usedMemory + bytes) >= MemorySize
TooBigForTwo(bytes) == Wrapped(usedMemory + bytes + 2 * HeaderSize) >= MemorySize

TooBig(bytes) == Wrapped(usedMemory + bytes + HeaderSize) >= MemorySize

\* malloc up to its loop.
Malloc(bytes) ==
  /\ pc = "idle"
  /\ want' = bytes
  /\ chunk' = first
  /\ IF TooBig(bytes) THEN Answer(nullptr) ELSE pc' = "search" /\ UNCHANGED reply
  /\ UNCHANGED <<mem, usedMemory, held>>

\* The search taking allocated chunks, too, and as it is.
FitsAnyway(c) == Peek(mem, size(c)) > want

Fits(c) == Peek(mem, size(c)) > want /\ ~IsAllocated(mem, c)

\* One turn of malloc's loop.
Search ==
  /\ pc = "search"
  /\ \/ chunk = nullptr /\ Answer(nullptr) /\ UNCHANGED chunk
     \/ HeaderMapped(chunk) /\ Fits(chunk) /\ pc' = "split" /\ UNCHANGED <<chunk, reply>>
     \/ HeaderMapped(chunk) /\ ~Fits(chunk) /\ chunk' = Peek(mem, next(chunk)) /\ UNCHANGED <<pc, reply>>
     \/ chunk # nullptr /\ ~HeaderMapped(chunk) /\ pc' = "fault" /\ UNCHANGED <<chunk, reply>>
  /\ UNCHANGED <<mem, usedMemory, want, held>>

\* memset(temp, 0, sizeof(MemoryChunk)) writes the bytes 1 .. 20 of temp: not
\* its first byte, but the first byte behind it.
Cleared(m, temp) == [a \in Addresses |-> IF a - temp \in 1 .. HeaderSize THEN 0 ELSE m[a]]

\* The size of the chunk split off, signed with its header counted twice, and as
\* it is.
RestSigned(c) == Peek(mem, size(c)) - 2 * HeaderSize - want

Rest(c) == Wrapped(Peek(mem, size(c)) - HeaderSize - want)

\* The chunk behind the one split off, set to the wrong chunk, and as it is.
RestNextIsResult(c) == c

RestNext(c) == Peek(mem, next(c))

\* The counter after a success, with the header forgotten, and as it is.
CountedWithoutHeader == Wrapped(usedMemory + want)

Counted == Wrapped(usedMemory + want + HeaderSize)

\* The end of malloc: the chunk found is always split, room for the second
\* header or not.
Split ==
  LET temp == Wrapped(chunk + HeaderSize + want)
      after == RestNext(chunk)
      linked == WithHeader(Cleared(mem, temp), temp, chunk, after, Rest(chunk))
      joined == IF after = nullptr THEN linked ELSE Put(linked, prev(after), temp)
  IN  /\ pc = "split"
      /\ IF /\ HeaderMapped(temp)
            /\ temp + HeaderSize \in Addresses
            /\ after # nullptr => prev(after) \in Words
         THEN /\ mem' = Put(Flagged(Put(joined, next(chunk), temp), chunk, 1), size(chunk), want)
              /\ usedMemory' = Counted
              /\ Answer(chunk + HeaderSize)
              /\ held' = Append(held, [base |-> chunk + HeaderSize, size |-> want])
         ELSE /\ pc' = "fault"
              /\ UNCHANGED <<mem, usedMemory, reply, held>>
      /\ UNCHANGED <<want, chunk>>

\* The two merges of free, as functions of the memory.  A chunk is merged into
\* its predecessor if that is allocated (it ought to be free).
MergesUp(m, c) ==
  LET p == Peek(m, prev(c)) IN p # nullptr /\ IsAllocated(m, p)

\* The first merge with the room of the header lost, and as it is.
MergedUpShort(m, c) ==
  LET p == Peek(m, prev(c))
      n == Peek(m, next(c))
      grown == Put(Put(m, next(p), n), size(p), Wrapped(Peek(m, size(p)) + Peek(m, size(c))))
  IN  IF n = nullptr THEN grown ELSE Put(grown, prev(n), p)

MergedUp(m, c) ==
  LET p == Peek(m, prev(c))
      n == Peek(m, next(c))
      grown == Put(Put(m, next(p), n),
                   size(p), Wrapped(Peek(m, size(p)) + Peek(m, size(c)) + HeaderSize))
  IN  IF n = nullptr THEN grown ELSE Put(grown, prev(n), p)

MergesDown(m, c) ==
  LET n == Peek(m, next(c)) IN n # nullptr /\ ~IsAllocated(m, n)

\* The chunk behind the merged one is linked back to the predecessor of the
\* merged chunk, not to the merged chunk.
MergedDown(m, c) ==
  LET n == Peek(m, next(c))
      nn == Peek(m, next(n))
      grown == Put(Put(m, size(c), Wrapped(Peek(m, size(c)) + Peek(m, size(n)) + HeaderSize)),
                   next(c), nn)
  IN  IF nn = nullptr THEN grown ELSE Put(grown, prev(nn), Peek(m, prev(c)))

\* The chunks free follows pointers to from chunk c.
Touched(m, c) ==
  LET p == Peek(m, prev(c))
      n == Peek(m, next(c))
  IN  {c, p, n, Peek(m, next(n))} \ {nullptr}

Free(i) ==
  LET c == held[i].base - HeaderSize
      released == Flagged(mem, c, 0)
      up == MergesUp(released, c)
      k == IF up THEN Peek(released, prev(c)) ELSE c
      merged == IF up THEN MergedUp(released, c) ELSE released
  IN  /\ pc = "idle"
      /\ FreeOrder = "lifo" => i = Len(held)
      /\ IF \A t \in Touched(released, c) \cup Touched(merged, k) : HeaderMapped(t)
         THEN /\ mem' = IF MergesDown(merged, k) THEN MergedDown(merged, k) ELSE merged
              /\ pc' = pc
         ELSE pc' = "fault" /\ UNCHANGED mem
      /\ held' = RemoveAt(held, i)
      /\ reply' = NoAnswer
      /\ UNCHANGED <<usedMemory, want, chunk>>

Data(b) == b.base .. b.base + b.size - 1

\* The holder of a block writes into it.
Use(i, byte) ==
  /\ pc = "idle"
  /\ mem' = [a \in Addresses |-> IF a \in Data(held[i]) THEN byte ELSE mem[a]]
  /\ UNCHANGED <<usedMemory, pc, want, chunk, reply, held>>

Next ==
  \/ \E bytes \in Requests : Malloc(bytes)
  \/ Search
  \/ Split
  \/ \E i \in DOMAIN held : Free(i)
  \/ \E i \in DOMAIN held, byte \in UserData : Use(i, byte)

Spec == Init /\ [][Next]_heapVars /\ WF_heapVars(Search \/ Split)

-----------------------------------------------------------------------------
TypeOK ==
  /\ DOMAIN mem = Addresses /\ \A a \in Addresses : mem[a] \in 0 .. Byte - 1
  /\ usedMemory \in U32
  /\ pc \in {"idle", "search", "split", "fault"}
  /\ want \in Requests \cup {0}
  /\ chunk \in U32
  /\ reply \in U32 \/ reply = NoAnswer
  /\ \A i \in DOMAIN held : held[i].base \in U32 /\ held[i].size \in Requests

\* The chunks of the list, found as malloc finds them.
ChunkAt[n \in 0 .. MemorySize \div HeaderSize] ==
  IF n = 0 THEN first ELSE Peek(mem, next(ChunkAt[n - 1]))
Chunks == {ChunkAt[n] : n \in DOMAIN ChunkAt} \ {nullptr}

\* The list tiles the heap: every chunk ends where the next one starts, the
\* last one where the heap ends, the links agree both ways, the magic numbers
\* stand.  Neither malloc nor free nor a caller using its block breaks this.
TilesHeap ==
  \A c \in Chunks :
    LET n == Peek(mem, next(c))
        end == c + HeaderSize + Peek(mem, size(c))
    IN  /\ HeaderMapped(c)
        /\ Peek(mem, magic(c)) = Magic
        /\ IF n = nullptr THEN end = Start + MemorySize
                          ELSE end = n /\ Peek(mem, prev(n)) = c

\* Every held block is still inside an allocated chunk of the list: it is never
\* searched, split or merged away under its holder.
HeldBlocksAreChunks ==
  \A i \in DOMAIN held :
    LET c == held[i].base - HeaderSize
    IN  /\ c \in Chunks
        /\ IsAllocated(mem, c)
        /\ Peek(mem, size(c)) >= held[i].size

BytesUpTo[n \in 0 .. Len(held)] ==
  IF n = 0 THEN 0 ELSE BytesUpTo[n - 1] + held[n].size + HeaderSize
BytesHeld == BytesUpTo[Len(held)]

\* free never lowers usedMemory, so it counts the held blocks only as long as
\* nothing has been freed, as in the kernel today.
NothingFreed == usedMemory = BytesHeld

\* Until a block is freed, "Out of memory" is true: when malloc answers nullptr,
\* the held blocks with their headers and the refused one do not fit.
HonestUntilFreed ==
  (pc = "idle" /\ reply = nullptr /\ NothingFreed) => BytesHeld + want + HeaderSize >= MemorySize

\* Until then the counter and the list agree: once the guard has let a request
\* of less than the heap pass, the search finds a chunk.
GuardDecides == (pc = "search" /\ NothingFreed /\ want < MemorySize) => chunk # nullptr

\* malloc faults only on a request that would leave no room behind the second
\* header: then the header, or the byte memset writes behind it, leaves the heap.
FaultOnlyAtBrim == pc = "fault" => usedMemory + want + 2 * HeaderSize >= MemorySize

\* malloc's loop ends: the chunks never form a cycle.
SearchEnds == pc = "search" ~> pc # "search"

\* The heap implements Allocator: no byte is in two blocks.
Blocks == INSTANCE Allocator
            WITH Block <- [base : Addresses, size : Requests],
                 held <- Range(held)
ImplementsAllocator == Blocks!Spec

\* The check in malloc's loop: a chunk without the magic number is an error.
MagicIsRight ==
  (pc = "search" /\ HeaderMapped(chunk)) => Peek(mem, magic(chunk)) = Magic
=============================================================================
