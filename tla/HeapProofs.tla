------------------------------- MODULE HeapProofs -------------------------------
(***************************************************************************)
(* Theorems about the kernel heap, of any size and for any requests.  With *)
(* blocks given back in the opposite order of their handing out, the list  *)
(* is the held blocks' chunks in order and behind them one free chunk, or, *)
(* once free has merged a chunk into an allocated one, nothing.            *)
(***************************************************************************)
EXTENDS Heap, Arithmetic, SequenceTheorems, TLAPS

\* A memory, and the words in this one, wherever they start.
Memory == [Addresses -> 0 .. Byte - 1]
word == [a \in Words |-> Peek(mem, a)]

End == Start + MemorySize
head(i) == held[i].base - HeaderSize
Newest == Len(held)
tail == IF held = <<>> THEN Start ELSE held[Newest].base + held[Newest].size
Before(i) == IF i = 1 THEN nullptr ELSE head(i - 1)

\* The held blocks lie one behind the other, each behind its header.
Blocked ==
  /\ first = nullptr => held = <<>>
  /\ \A i \in DOMAIN held :
       /\ held[i].base \in Nat /\ held[i].size \in Requests
       /\ held[i].base >= Start + HeaderSize * i
       /\ held[i].base + held[i].size < End
  /\ held # <<>> => head(1) = Start
  /\ \A i, j \in DOMAIN held : i < j => held[i].base + held[i].size <= head(j)
  /\ \A i \in DOMAIN held : i + 1 \in DOMAIN held => head(i + 1) = held[i].base + held[i].size

\* Their headers are linked both ways, and marked.
Linked ==
  \A i \in DOMAIN held :
    /\ word[prev(head(i))] = Before(i)
    /\ word[magic(head(i))] = Magic
    /\ mem[allocated(head(i))] # 0
    /\ i + 1 \in DOMAIN held => word[next(head(i))] = head(i + 1) /\ word[size(head(i))] = held[i].size

\* What follows: a free chunk up to the heap's end, or nothing, if the newest
\* block's chunk has grown up to there.
Open ==
  /\ HeaderMapped(tail)
  /\ word[next(tail)] = nullptr
  /\ word[prev(tail)] = Before(Newest + 1)
  /\ word[magic(tail)] = Magic
  /\ mem[allocated(tail)] = 0
  /\ tail + HeaderSize + word[size(tail)] = End
  /\ held # <<>> => word[next(head(Newest))] = tail /\ word[size(head(Newest))] = held[Newest].size

Closed ==
  /\ held # <<>>
  /\ word[next(head(Newest))] = nullptr
  /\ held[Newest].base + word[size(head(Newest))] = End

\* The counter has all that was ever handed out.
Accounted ==
  /\ usedMemory \in 0 .. MemorySize
  /\ tail - Start <= usedMemory /\ (Closed => tail - Start < usedMemory)
  /\ pc \in {"search", "split"} => Wrapped(usedMemory + want + HeaderSize) < MemorySize

\* malloc's loop stands at a chunk of the list, or has found none.
Searching ==
  /\ pc = "search" =>
       \/ chunk = nullptr /\ (first # nullptr /\ Open => word[size(tail)] <= want)
       \/ chunk = tail /\ first # nullptr /\ Open
       \/ \E i \in DOMAIN held : chunk = head(i)
  /\ pc = "split" => first # nullptr /\ Open /\ chunk = tail /\ word[size(tail)] > want
  /\ (pc = "idle" /\ reply = nullptr /\ usedMemory = tail - Start) =>
       usedMemory + want + HeaderSize >= MemorySize
  /\ pc = "fault" => usedMemory + want + 2 * HeaderSize >= MemorySize

Layout == Blocked /\ Linked /\ (first # nullptr => Open \/ Closed) /\ Accounted /\ Searching

-----------------------------------------------------------------------------
\* A byte of a word, and the rest.
LEMMA Shifted ==
  ASSUME NEW R \in Nat, NEW w \in 0 .. R * Byte - 1
  PROVE  Upper(w) \in 0 .. R - 1 /\ w % Byte \in 0 .. Byte - 1 /\ w = (w % Byte) + Byte * Upper(w)
<1>1. Byte \in Nat \ {0}
  BY LayoutAssumption
<1>2. PICK b \in Nat \ {0} : b = Byte
  BY <1>1
<1>3. w \in Nat /\ R * b \in Nat /\ w < R * b
  BY <1>2
<1>4. PICK q \in Nat, r \in 0 .. b - 1 : q = w \div b /\ r = w % b /\ w = q * b + r
  BY <1>2, <1>3, DivIs
<1>5. q < R
  <2> SUFFICES ASSUME R <= q PROVE FALSE
    OBVIOUS
  <2>1. PICK d \in Nat : q = R + d
    <3>1. q - R \in Nat /\ q = R + (q - R)
      OBVIOUS
    <3> QED BY <3>1
  <2>2. q * b = R * b + d * b /\ d * b \in Nat
    BY <2>1
  <2>3. w >= R * b
    BY <1>4, <2>2
  <2> QED BY <1>3, <2>3
<1>6. b * q = q * b
  OBVIOUS
<1> QED BY <1>2, <1>4, <1>5, <1>6 DEF Upper

LEMMA Placed ==
  ASSUME NEW R \in Nat, NEW b \in 0 .. Byte - 1, NEW h \in 0 .. R - 1
  PROVE  b + Byte * h \in 0 .. R * Byte - 1
<1>1. PICK n \in Nat : n = Byte /\ n > 0
  BY LayoutAssumption
<1>2. PICK d \in Nat : R = h + 1 + d
  <2>1. R - h - 1 \in Nat /\ R = h + 1 + (R - h - 1)
    OBVIOUS
  <2> QED BY <2>1
<1>3. R * n = n * h + n + d * n /\ d * n \in Nat /\ n * h \in Nat
  BY <1>2
<1>4. b + n * h \in 0 .. R * n - 1
  BY <1>1, <1>3
<1> QED BY <1>1, <1>4

\* A u32 is its four bytes, and four bytes are a u32.
LEMMA FourBytes ==
  /\ Range32 \in Nat /\ 0 \in U32
  /\ \A w \in U32 :
       /\ \A i \in 1 .. 4 : BytesOf(w)[i] \in 0 .. Byte - 1
       /\ w = BytesOf(w)[1] + Byte * (BytesOf(w)[2] + Byte * (BytesOf(w)[3] + Byte * BytesOf(w)[4]))
  /\ \A a, b, c, d \in 0 .. Byte - 1 : a + Byte * (b + Byte * (c + Byte * d)) \in U32
<1>1. PICK n \in Nat : n = Byte /\ n > 1
  BY LayoutAssumption
<1>2. /\ n * n \in Nat /\ n * n > 0 /\ (n * n) * n \in Nat /\ (n * n) * n > 0
      /\ ((n * n) * n) * n \in Nat /\ ((n * n) * n) * n > 0
  <2>1. n * n \in Nat /\ n * n > 0
    BY <1>1
  <2>2. PICK k \in Nat : k = n * n /\ k > 0
    BY <2>1
  <2>3. k * n \in Nat /\ k * n > 0
    BY <1>1, <2>2
  <2>4. PICK l \in Nat : l = k * n /\ l > 0
    BY <2>3
  <2>5. l * n \in Nat /\ l * n > 0
    BY <1>1, <2>4
  <2> QED BY <2>1, <2>2, <2>3, <2>4, <2>5
<1>3. PICK k \in Nat, l \in Nat : k = n * n /\ l = k * n /\ l * n \in Nat /\ l * n > 0
  BY <1>2
<1>4. Range32 = l * Byte /\ Range32 \in Nat /\ Range32 > 0 /\ l = k * Byte /\ k = n * Byte
  BY <1>1, <1>3 DEF Range32
<1>5. U32 = 0 .. l * Byte - 1
  BY <1>4 DEF U32
<1>6. 0 \in U32
  BY <1>1, <1>3, <1>4 DEF U32
<1>7. ASSUME NEW w \in U32
      PROVE  /\ \A i \in 1 .. 4 : BytesOf(w)[i] \in 0 .. Byte - 1
             /\ w = BytesOf(w)[1] + Byte * (BytesOf(w)[2] + Byte * (BytesOf(w)[3] + Byte * BytesOf(w)[4]))
  <2>1. PICK x : x = Upper(w) /\ x \in 0 .. l - 1 /\ w % Byte \in 0 .. Byte - 1 /\ w = (w % Byte) + Byte * x
    BY <1>5, Shifted
  <2>2. PICK y : y = Upper(x) /\ y \in 0 .. k - 1 /\ x % Byte \in 0 .. Byte - 1 /\ x = (x % Byte) + Byte * y
    <3>1. x \in 0 .. k * Byte - 1
      BY <1>4, <2>1
    <3> QED BY <3>1, Shifted
  <2>3. PICK z : z = Upper(y) /\ z \in 0 .. n - 1 /\ y % Byte \in 0 .. Byte - 1 /\ y = (y % Byte) + Byte * z
    <3>1. y \in 0 .. n * Byte - 1
      BY <1>4, <2>2
    <3> QED BY <3>1, Shifted
  <2>4. BytesOf(w) = <<w % Byte, x % Byte, y % Byte, z>>
    BY <2>1, <2>2, <2>3 DEF BytesOf
  <2>5. /\ BytesOf(w)[1] = w % Byte /\ BytesOf(w)[2] = x % Byte
        /\ BytesOf(w)[3] = y % Byte /\ BytesOf(w)[4] = z
    BY <2>4
  <2>6. \A i \in 1 .. 4 : BytesOf(w)[i] \in 0 .. Byte - 1
    <3>1. \A i \in 1 .. 4 : i = 1 \/ i = 2 \/ i = 3 \/ i = 4
      OBVIOUS
    <3> QED BY <1>1, <2>1, <2>2, <2>3, <2>5, <3>1
  <2> QED BY <2>1, <2>2, <2>3, <2>5, <2>6
<1>8. ASSUME NEW a \in 0 .. Byte - 1, NEW b \in 0 .. Byte - 1,
             NEW c \in 0 .. Byte - 1, NEW d \in 0 .. Byte - 1
      PROVE  a + Byte * (b + Byte * (c + Byte * d)) \in U32
  <2>1. PICK z : z = c + Byte * d /\ z \in 0 .. k - 1
    <3>1. d \in 0 .. n - 1
      BY <1>1
    <3> QED BY <1>4, <3>1, Placed
  <2>2. PICK y : y = b + Byte * z /\ y \in 0 .. l - 1
    BY <1>4, <2>1, Placed
  <2>3. a + Byte * y \in 0 .. l * Byte - 1
    BY <2>2, Placed
  <2> QED BY <1>5, <2>1, <2>2, <2>3
<1> QED BY <1>4, <1>6, <1>7, <1>8

\* The heap's addresses, and what a mapped header is.
LEMMA WordsAre ==
  /\ Start \in Nat /\ Start > 0 /\ MemorySize \in Nat
  /\ End \in Nat /\ End < Range32 /\ Range32 \in Nat
  /\ \A a : a \in Words <=> a \in Nat /\ Start <= a /\ a + 4 <= End
  /\ \A a : a \in Addresses <=> a \in Nat /\ Start <= a /\ a < End
<1>1. /\ Start \in Nat /\ Start > 0 /\ MemorySize \in Nat /\ End \in Nat /\ End < Range32 /\ Range32 \in Nat
  BY LayoutAssumption, FourBytes DEF End
<1>2. Words = Start .. End - 4 /\ Addresses = Start .. End - 1
  BY <1>1 DEF Words, Addresses, Word, End
<1> QED BY <1>1, <1>2

\* The header at c is mapped if it lies in the heap.
LEMMA HeaderIs ==
  ASSUME NEW c
  PROVE  /\ HeaderMapped(c) <=> c \in Nat /\ Start <= c /\ c + 20 <= End
         /\ HeaderMapped(c) => /\ {next(c), prev(c), magic(c), allocated(c), size(c)} \subseteq Words
                               /\ allocated(c) \in Addresses
BY WordsAre DEF HeaderMapped, next, prev, magic, allocated, size, Word

LEMMA WrappedInU32 ==
  /\ \A n \in Int : Wrapped(n) \in U32
  /\ \A n \in U32 : Wrapped(n) = n
  /\ 0 \in U32 /\ U32 \subseteq Nat
BY WordsAre DEF Wrapped, U32

LEMMA SumInU32 ==
  ASSUME NEW a \in U32, NEW b \in U32
  PROVE  Wrapped(a + b + HeaderSize) \in U32
BY WordsAre DEF Wrapped, U32, HeaderSize, Word

\* The bytes of a word.
LEMMA PlacesOf ==
  ASSUME NEW a \in Words
  PROVE  {a, a + 1, a + 2, a + 3} \subseteq Addresses /\ a \in Nat
BY WordsAre

LEMMA Peeked ==
  ASSUME NEW m \in Memory, NEW a
  PROVE  Peek(m, a) \in U32
<1>1. CASE a \in Words
  <2>1. {m[a], m[a + 1], m[a + 2], m[a + 3]} \subseteq 0 .. Byte - 1
    BY <1>1, PlacesOf DEF Memory
  <2> QED BY <1>1, <2>1, FourBytes DEF Peek
<1>2. CASE a \notin Words
  BY <1>2, FourBytes DEF Peek
<1> QED BY <1>1, <1>2

LEMMA Primed ==
  /\ word = [a \in Words |-> Peek(mem, a)] /\ word' = [a \in Words |-> Peek(mem', a)]
  /\ \A a \in Words : word[a] = Peek(mem, a) /\ word'[a] = Peek(mem', a)
BY DEF word, Peek

LEMMA WordTyped ==
  /\ mem \in Memory => word \in [Words -> U32]
  /\ mem' \in Memory => word' \in [Words -> U32]
BY Peeked, Primed

\* A word whose bytes two memories agree on is the same in both.
LEMMA SameWord ==
  ASSUME NEW m, NEW o, NEW a \in Words, \A x \in Addresses : a <= x /\ x < a + 4 => o[x] = m[x]
  PROVE  Peek(o, a) = Peek(m, a)
<1>1. {a, a + 1, a + 2, a + 3} \subseteq Addresses /\ a \in Nat
  BY PlacesOf
<1>2. o[a] = m[a] /\ o[a + 1] = m[a + 1] /\ o[a + 2] = m[a + 2] /\ o[a + 3] = m[a + 3]
  BY <1>1
<1> QED BY <1>2 DEF Peek

\* A word written is the word read back, and the other bytes stay.
LEMMA Written ==
  ASSUME NEW m \in Memory, NEW a \in Int, NEW w \in U32
  PROVE  /\ Put(m, a, w) \in Memory
         /\ \A x \in Addresses : x < a \/ a + 4 <= x => Put(m, a, w)[x] = m[x]
         /\ \A y \in Words : y + 4 <= a \/ a + 4 <= y => Peek(Put(m, a, w), y) = Peek(m, y)
         /\ a \in Words => Peek(Put(m, a, w), a) = w
<1>1. \A x \in Addresses : x \in Nat
  BY WordsAre
<1>2. ASSUME NEW x \in Addresses
      PROVE  /\ Put(m, a, w)[x] \in 0 .. Byte - 1
             /\ x < a \/ a + 4 <= x => Put(m, a, w)[x] = m[x]
  <2>1. Put(m, a, w)[x] = IF x - a \in 0 .. Word - 1 THEN BytesOf(w)[x - a + 1] ELSE m[x]
    BY DEF Put
  <2>2. m[x] \in 0 .. Byte - 1
    BY DEF Memory
  <2>3. CASE x - a \in 0 .. Word - 1
    <3>1. x - a + 1 \in 1 .. 4 /\ ~(x < a) /\ ~(a + 4 <= x)
      BY <1>1, <2>3 DEF Word
    <3>2. BytesOf(w)[x - a + 1] \in 0 .. Byte - 1
      BY <3>1, FourBytes
    <3> QED BY <2>1, <2>3, <3>1, <3>2
  <2>4. CASE x - a \notin 0 .. Word - 1
    BY <2>1, <2>2, <2>4
  <2> QED BY <2>3, <2>4
<1>3. Put(m, a, w) \in Memory
  <2>1. Put(m, a, w) = [x \in Addresses |-> Put(m, a, w)[x]]
    BY DEF Put
  <2> QED BY <1>2, <2>1 DEF Memory
<1>4. ASSUME NEW y \in Words, y + 4 <= a \/ a + 4 <= y PROVE Peek(Put(m, a, w), y) = Peek(m, y)
  <2>1. y \in Nat
    BY PlacesOf
  <2>2. \A x \in Addresses : y <= x /\ x < y + 4 => Put(m, a, w)[x] = m[x]
    BY <1>1, <1>2, <1>4, <2>1
  <2> QED BY <2>2, SameWord
<1>5. ASSUME a \in Words PROVE Peek(Put(m, a, w), a) = w
  <2>1. {a, a + 1, a + 2, a + 3} \subseteq Addresses
    BY <1>5, PlacesOf
  <2>2. /\ Put(m, a, w)[a] = BytesOf(w)[1] /\ Put(m, a, w)[a + 1] = BytesOf(w)[2]
        /\ Put(m, a, w)[a + 2] = BytesOf(w)[3] /\ Put(m, a, w)[a + 3] = BytesOf(w)[4]
    <3>1. \A i \in 0 .. 3 : a + i \in Addresses
                            => Put(m, a, w)[a + i] = BytesOf(w)[i + 1]
      <4> TAKE i \in 0 .. 3
      <4>1. (a + i) - a = i /\ i \in 0 .. Word - 1
        BY DEF Word
      <4> QED BY <4>1 DEF Put
    <3>2. /\ 0 \in 0 .. 3 /\ 1 \in 0 .. 3 /\ 2 \in 0 .. 3 /\ 3 \in 0 .. 3
          /\ a + 0 = a /\ 0 + 1 = 1 /\ 1 + 1 = 2 /\ 2 + 1 = 3 /\ 3 + 1 = 4
      OBVIOUS
    <3> HIDE DEF Put
    <3> QED BY <2>1, <3>1, <3>2
  <2> QED BY <1>5, <2>2, FourBytes DEF Peek
<1> QED BY <1>2, <1>3, <1>4, <1>5

\* The flag set: every word before it and behind it stays.
LEMMA FlagSet ==
  ASSUME NEW m \in Memory, NEW c \in Int, NEW flag \in {0, 1}
  PROVE  /\ Flagged(m, c, flag) \in Memory
         /\ allocated(c) \in Addresses => Flagged(m, c, flag)[allocated(c)] = flag
         /\ \A x \in Addresses : x # allocated(c) => Flagged(m, c, flag)[x] = m[x]
         /\ \A y \in Words : y + 4 <= allocated(c) \/ allocated(c) < y =>
              Peek(Flagged(m, c, flag), y) = Peek(m, y)
<1>1. flag \in 0 .. Byte - 1
  BY LayoutAssumption
<1>2. /\ Flagged(m, c, flag) \in Memory
      /\ allocated(c) \in Addresses => Flagged(m, c, flag)[allocated(c)] = flag
      /\ \A x \in Addresses : x # allocated(c) => Flagged(m, c, flag)[x] = m[x]
  BY <1>1 DEF Flagged, Memory
<1>3. ASSUME NEW y \in Words, y + 4 <= allocated(c) \/ allocated(c) < y
      PROVE  Peek(Flagged(m, c, flag), y) = Peek(m, y)
  <2>1. y \in Nat /\ allocated(c) \in Int /\ \A x \in Addresses : x \in Nat
    BY PlacesOf, WordsAre DEF allocated, Word
  <2>2. \A x \in Addresses : y <= x /\ x < y + 4 => Flagged(m, c, flag)[x] = m[x]
    BY <1>2, <1>3, <2>1
  <2> QED BY <2>2, SameWord
<1> QED BY <1>2, <1>3

\* What lies apart in a header.
LEMMA FieldsOf ==
  ASSUME NEW c \in Int
  PROVE  next(c) = c /\ prev(c) = c + 4 /\ magic(c) = c + 8 /\ allocated(c) = c + 12 /\ size(c) = c + 16
BY DEF next, prev, magic, allocated, size, Word

\* A header all of whose bytes two memories agree on is the same in both.
LEMMA SameHeader ==
  ASSUME NEW m, NEW o, NEW c, HeaderMapped(c),
         \A x \in Addresses : c <= x /\ x < c + 20 => o[x] = m[x]
  PROVE  /\ Peek(o, next(c)) = Peek(m, next(c)) /\ Peek(o, prev(c)) = Peek(m, prev(c))
         /\ Peek(o, magic(c)) = Peek(m, magic(c)) /\ o[allocated(c)] = m[allocated(c)]
         /\ Peek(o, size(c)) = Peek(m, size(c))
<1>1. /\ c \in Nat /\ {next(c), prev(c), magic(c), allocated(c), size(c)} \subseteq Words
      /\ allocated(c) \in Addresses /\ \A x \in Addresses : x \in Nat
  BY HeaderIs, WordsAre
<1>2. next(c) = c /\ prev(c) = c + 4 /\ magic(c) = c + 8 /\ allocated(c) = c + 12 /\ size(c) = c + 16
  BY <1>1, FieldsOf
<1>3. ASSUME NEW a \in Words, c <= a, a + 4 <= c + 20 PROVE Peek(o, a) = Peek(m, a)
  <2>1. \A x \in Addresses : a <= x /\ x < a + 4 => o[x] = m[x]
    BY <1>1, <1>3, PlacesOf
  <2> QED BY <2>1, SameWord
<1>4. o[allocated(c)] = m[allocated(c)]
  BY <1>1, <1>2
<1>5. /\ c <= next(c) /\ next(c) + 4 <= c + 20 /\ c <= prev(c) /\ prev(c) + 4 <= c + 20
      /\ c <= magic(c) /\ magic(c) + 4 <= c + 20 /\ c <= size(c) /\ size(c) + 4 <= c + 20
  BY <1>1, <1>2
<1> QED BY <1>1, <1>3, <1>4, <1>5

\* What a free chunk's header, written, reads, and that nothing else is touched.
LEMMA HeaderWritten ==
  ASSUME NEW m \in Memory, NEW c, HeaderMapped(c),
         NEW before \in U32, NEW after \in U32, NEW room \in U32,
         NEW o, o = WithHeader(m, c, before, after, room)
  PROVE  /\ o \in Memory
         /\ Peek(o, next(c)) = after /\ Peek(o, prev(c)) = before /\ Peek(o, magic(c)) = Magic
         /\ o[allocated(c)] = 0 /\ Peek(o, size(c)) = room
         /\ \A x \in Addresses : x < c \/ c + 20 <= x => o[x] = m[x]
<1>1. /\ c \in Nat /\ {next(c), prev(c), magic(c), size(c)} \subseteq Words
      /\ allocated(c) \in Addresses /\ \A x \in Addresses : x \in Nat
      /\ Magic \in U32 /\ 0 \in {0, 1}
  BY HeaderIs, WordsAre, LayoutAssumption
<1>2. next(c) = c /\ prev(c) = c + 4 /\ magic(c) = c + 8 /\ allocated(c) = c + 12 /\ size(c) = c + 16
  BY <1>1, FieldsOf
<1> DEFINE e1 == Flagged(m, c, 0)
           e2 == Put(e1, prev(c), before)
           e3 == Put(e2, next(c), after)
           e4 == Put(e3, size(c), room)
           e5 == Put(e4, magic(c), Magic)
<1>3. o = e5
  BY DEF WithHeader
<1>4. /\ e1 \in Memory /\ e1[allocated(c)] = 0
      /\ \A x \in Addresses : x # allocated(c) => e1[x] = m[x]
  BY <1>1, FlagSet
<1> HIDE DEF e1
<1>5. /\ e2 \in Memory /\ Peek(e2, prev(c)) = before
      /\ \A x \in Addresses : x < prev(c) \/ prev(c) + 4 <= x => e2[x] = e1[x]
  BY <1>1, <1>2, <1>4, Written
<1> HIDE DEF e2
<1>6. /\ e3 \in Memory /\ Peek(e3, next(c)) = after
      /\ \A x \in Addresses : x < next(c) \/ next(c) + 4 <= x => e3[x] = e2[x]
      /\ \A y \in Words : y + 4 <= next(c) \/ next(c) + 4 <= y => Peek(e3, y) = Peek(e2, y)
  BY <1>1, <1>2, <1>5, Written
<1> HIDE DEF e3
<1>7. /\ e4 \in Memory /\ Peek(e4, size(c)) = room
      /\ \A x \in Addresses : x < size(c) \/ size(c) + 4 <= x => e4[x] = e3[x]
      /\ \A y \in Words : y + 4 <= size(c) \/ size(c) + 4 <= y => Peek(e4, y) = Peek(e3, y)
  BY <1>1, <1>2, <1>6, Written
<1> HIDE DEF e4
<1>8. /\ e5 \in Memory /\ Peek(e5, magic(c)) = Magic
      /\ \A x \in Addresses : x < magic(c) \/ magic(c) + 4 <= x => e5[x] = e4[x]
      /\ \A y \in Words : y + 4 <= magic(c) \/ magic(c) + 4 <= y => Peek(e5, y) = Peek(e4, y)
  BY <1>1, <1>2, <1>7, Written
<1> HIDE DEF e5
<1>9. /\ Peek(e5, next(c)) = after /\ Peek(e5, prev(c)) = before /\ Peek(e5, size(c)) = room
  BY <1>1, <1>2, <1>5, <1>6, <1>7, <1>8
<1>10. e5[allocated(c)] = 0
  BY <1>1, <1>2, <1>4, <1>5, <1>6, <1>7, <1>8
<1>11. ASSUME NEW x \in Addresses, x < c \/ c + 20 <= x PROVE e5[x] = m[x]
  BY <1>1, <1>2, <1>4, <1>5, <1>6, <1>7, <1>8, <1>11
<1> QED BY <1>3, <1>8, <1>9, <1>10, <1>11

\* The merges keep the memory's shape, and for headers that are apart they write
\* what they ought to.
LEMMA MergedTyped ==
  ASSUME NEW m \in Memory, NEW c \in Int
  PROVE  MergedUp(m, c) \in Memory /\ MergedDown(m, c) \in Memory
<1>1. \A a : Peek(m, a) \in U32
  BY Peeked
<1>2. \A x \in U32 : next(x) \in Int /\ prev(x) \in Int /\ size(x) \in Int
  BY WrappedInU32 DEF next, prev, size, Word
<1>3. next(c) \in Int /\ size(c) \in Int
  BY DEF next, size, Word
<1>4. \A a, b : Wrapped(Peek(m, a) + Peek(m, b) + HeaderSize) \in U32
  BY <1>1, SumInU32
<1>5. \A o \in Memory, a \in Int, w \in U32 : Put(o, a, w) \in Memory
  BY Written
<1>6. MergedUp(m, c) \in Memory
  <2> DEFINE p == Peek(m, prev(c))
             n == Peek(m, next(c))
             grown == Put(Put(m, next(p), n),
                          size(p), Wrapped(Peek(m, size(p)) + Peek(m, size(c)) + HeaderSize))
  <2>1. MergedUp(m, c) = IF n = nullptr THEN grown ELSE Put(grown, prev(n), p)
    BY DEF MergedUp
  <2>2. p \in U32 /\ n \in U32 /\ next(p) \in Int /\ size(p) \in Int /\ prev(n) \in Int
    BY <1>1, <1>2
  <2>3. Put(m, next(p), n) \in Memory
    BY <1>5, <2>2
  <2>4. grown \in Memory
    BY <1>4, <1>5, <2>2, <2>3
  <2> HIDE DEF grown, p, n
  <2> QED BY <1>5, <2>1, <2>2, <2>4
<1>7. MergedDown(m, c) \in Memory
  <2> DEFINE n == Peek(m, next(c))
             nn == Peek(m, next(n))
             grown == Put(Put(m, size(c), Wrapped(Peek(m, size(c)) + Peek(m, size(n)) + HeaderSize)),
                          next(c), nn)
  <2>1. MergedDown(m, c) = IF nn = nullptr THEN grown ELSE Put(grown, prev(nn), Peek(m, prev(c)))
    BY DEF MergedDown
  <2>2. nn \in U32 /\ prev(nn) \in Int /\ Peek(m, prev(c)) \in U32
    BY <1>1, <1>2
  <2>3. Put(m, size(c), Wrapped(Peek(m, size(c)) + Peek(m, size(n)) + HeaderSize)) \in Memory
    BY <1>3, <1>4, <1>5
  <2>4. grown \in Memory
    BY <1>3, <1>5, <2>2, <2>3
  <2> HIDE DEF grown, nn
  <2> QED BY <1>5, <2>1, <2>2, <2>4
<1> QED BY <1>6, <1>7

LEMMA MergedUpIs ==
  ASSUME NEW m \in Memory, NEW c \in Int, NEW o, o = MergedUp(m, c),
         NEW p, p = Peek(m, prev(c)), HeaderMapped(p),
         NEW n, n = Peek(m, next(c)), n = nullptr \/ (HeaderMapped(n) /\ p + 20 <= n)
  PROVE  /\ Peek(o, next(p)) = n
         /\ Peek(o, size(p)) = Wrapped(Peek(m, size(p)) + Peek(m, size(c)) + HeaderSize)
         /\ \A x \in Addresses : \/ x < p
                                 \/ p + 4 <= x /\ x < p + 16
                                 \/ p + 20 <= x /\ (n # nullptr => x < n + 4 \/ n + 8 <= x)
                                 => o[x] = m[x]
<1>1. /\ p \in Nat /\ next(p) \in Words /\ size(p) \in Words /\ \A x \in Addresses : x \in Nat
      /\ n # nullptr => n \in Nat /\ prev(n) \in Words
  BY HeaderIs, WordsAre
<1>2. next(p) = p /\ size(p) = p + 16 /\ (n # nullptr => prev(n) = n + 4)
  BY <1>1, FieldsOf
<1>3. p \in U32 /\ n \in U32 /\ Wrapped(Peek(m, size(p)) + Peek(m, size(c)) + HeaderSize) \in U32
  BY Peeked, SumInU32
<1> DEFINE sum == Wrapped(Peek(m, size(p)) + Peek(m, size(c)) + HeaderSize)
           e1 == Put(m, next(p), n)
           e2 == Put(e1, size(p), sum)
           e3 == Put(e2, prev(n), p)
<1>4. o = IF n = nullptr THEN e2 ELSE e3
  BY DEF MergedUp
<1>5. /\ e1 \in Memory /\ Peek(e1, next(p)) = n
      /\ \A x \in Addresses : x < next(p) \/ next(p) + 4 <= x => e1[x] = m[x]
  BY <1>1, <1>2, <1>3, Written
<1> HIDE DEF e1, sum
<1>6. /\ e2 \in Memory /\ Peek(e2, size(p)) = sum
      /\ \A x \in Addresses : x < size(p) \/ size(p) + 4 <= x => e2[x] = e1[x]
      /\ Peek(e2, next(p)) = Peek(e1, next(p))
  <2>1. size(p) \in Int /\ sum \in U32 /\ e1 \in Memory /\ size(p) \in Words /\ next(p) \in Words
        /\ next(p) + 4 <= size(p)
    BY <1>1, <1>2, <1>3, <1>5 DEF sum
  <2> QED BY <2>1, Written
<1> HIDE DEF e2
<1>7. CASE n = nullptr
  BY <1>1, <1>2, <1>4, <1>5, <1>6, <1>7 DEF sum
<1>8. CASE n # nullptr
  <2>1. /\ \A x \in Addresses : x < prev(n) \/ prev(n) + 4 <= x => e3[x] = e2[x]
        /\ \A y \in Words : y + 4 <= prev(n) \/ prev(n) + 4 <= y => Peek(e3, y) = Peek(e2, y)
    <3>1. prev(n) \in Int
      BY <1>1, <1>2, <1>8
    <3> QED BY <1>3, <1>6, <3>1, Written
  <2> HIDE DEF e3
  <2>2. Peek(e3, next(p)) = Peek(e2, next(p)) /\ Peek(e3, size(p)) = Peek(e2, size(p))
    BY <1>1, <1>2, <1>8, <2>1
  <2>3. ASSUME NEW x \in Addresses,
               \/ x < p
               \/ p + 4 <= x /\ x < p + 16
               \/ p + 20 <= x /\ (x < n + 4 \/ n + 8 <= x)
        PROVE  e3[x] = m[x]
    BY <1>1, <1>2, <1>5, <1>6, <1>8, <2>1, <2>3
  <2> QED BY <1>4, <1>5, <1>6, <1>8, <2>2, <2>3 DEF sum
<1> QED BY <1>7, <1>8

\* The second merge, where nothing follows the chunk it takes.
LEMMA MergedDownIs ==
  ASSUME NEW m \in Memory, NEW c, HeaderMapped(c), NEW o, o = MergedDown(m, c),
         NEW n, n = Peek(m, next(c)), Peek(m, next(n)) = nullptr
  PROVE  /\ Peek(o, next(c)) = nullptr
         /\ Peek(o, size(c)) = Wrapped(Peek(m, size(c)) + Peek(m, size(n)) + HeaderSize)
         /\ \A x \in Addresses : x < c \/ (c + 4 <= x /\ x < c + 16) \/ c + 20 <= x => o[x] = m[x]
<1>1. c \in Nat /\ next(c) \in Words /\ size(c) \in Words /\ \A x \in Addresses : x \in Nat
  BY HeaderIs, WordsAre
<1>2. next(c) = c /\ size(c) = c + 16
  BY <1>1, FieldsOf
<1>3. nullptr \in U32 /\ Wrapped(Peek(m, size(c)) + Peek(m, size(n)) + HeaderSize) \in U32
  BY Peeked, SumInU32, WrappedInU32 DEF nullptr
<1> DEFINE sum == Wrapped(Peek(m, size(c)) + Peek(m, size(n)) + HeaderSize)
           e1 == Put(m, size(c), sum)
           e2 == Put(e1, next(c), nullptr)
<1>4. o = e2
  BY DEF MergedDown
<1> HIDE DEF sum
<1>5. /\ e1 \in Memory /\ Peek(e1, size(c)) = sum
      /\ \A x \in Addresses : x < size(c) \/ size(c) + 4 <= x => e1[x] = m[x]
  BY <1>1, <1>2, <1>3, Written DEF sum
<1> HIDE DEF e1
<1>6. /\ Peek(e2, next(c)) = nullptr
      /\ \A x \in Addresses : x < next(c) \/ next(c) + 4 <= x => e2[x] = e1[x]
      /\ Peek(e2, size(c)) = Peek(e1, size(c))
  BY <1>1, <1>2, <1>3, <1>5, Written
<1> HIDE DEF e2
<1>7. ASSUME NEW x \in Addresses, x < c \/ (c + 4 <= x /\ x < c + 16) \/ c + 20 <= x PROVE e2[x] = m[x]
  BY <1>1, <1>2, <1>5, <1>6, <1>7
<1> QED BY <1>4, <1>5, <1>6, <1>7 DEF sum

-----------------------------------------------------------------------------
\* Types, whatever the order of the frees and the state of the list.
Blocks32 == [base : U32, size : Requests]
Types ==
  /\ mem \in Memory
  /\ usedMemory \in U32
  /\ pc \in {"idle", "search", "split", "fault"}
  /\ want \in Requests \cup {0} /\ (pc \in {"search", "split"} => want \in Requests)
  /\ chunk \in U32 /\ (pc = "split" => HeaderMapped(chunk))
  /\ reply \in U32 \cup {NoAnswer}
  /\ held \in Seq(Blocks32)

\* The memory Cleared leaves: nothing before temp is touched.
LEMMA ClearedIs ==
  ASSUME NEW m \in Memory, NEW temp \in Int
  PROVE  /\ Cleared(m, temp) \in Memory
         /\ \A x \in Addresses : x < temp => Cleared(m, temp)[x] = m[x]
<1>1. 0 \in 0 .. Byte - 1 /\ \A x \in Addresses : x \in Nat /\ m[x] \in 0 .. Byte - 1
  BY LayoutAssumption, WordsAre DEF Memory
<1>2. Cleared(m, temp) \in Memory
  BY <1>1 DEF Cleared, Memory
<1>3. ASSUME NEW x \in Addresses, x < temp PROVE x - temp \notin 1 .. HeaderSize
  BY <1>1, <1>3 DEF HeaderSize, Word
<1> QED BY <1>2, <1>3 DEF Cleared

\* The memory a split leaves: well typed always; and where the chunk found is the
\* last one and what is split off lies behind it, two headers are written.
Temp == Wrapped(chunk + HeaderSize + want)
LEMMA SplitWrites ==
  ASSUME Types, Split, pc' # "fault"
  PROVE  /\ mem' \in Memory
         /\ usedMemory' = Counted /\ held' = Append(held, [base |-> chunk + HeaderSize, size |-> want])
         /\ pc' = "idle" /\ reply' = chunk + HeaderSize /\ UNCHANGED <<want, chunk>>
         /\ HeaderMapped(Temp) /\ Temp + HeaderSize \in Addresses
         /\ word[next(chunk)] = nullptr /\ Temp >= chunk + HeaderSize =>
              /\ \A x \in Addresses :
                   x < Temp /\ (x < chunk \/ (chunk + 4 <= x /\ x < chunk + 12) \/ chunk + 20 <= x) =>
                     mem'[x] = mem[x]
              /\ word'[next(chunk)] = Temp /\ word'[size(chunk)] = want
              /\ mem'[allocated(chunk)] = 1
              /\ word'[next(Temp)] = nullptr /\ word'[prev(Temp)] = chunk /\ word'[magic(Temp)] = Magic
              /\ mem'[allocated(Temp)] = 0 /\ word'[size(Temp)] = Rest(chunk)
<1> DEFINE after == Peek(mem, next(chunk))
           e0 == Cleared(mem, Temp)
           e1 == WithHeader(e0, Temp, chunk, after, Rest(chunk))
           e2 == IF after = nullptr THEN e1 ELSE Put(e1, prev(after), Temp)
           e3 == Put(e2, next(chunk), Temp)
           e4 == Flagged(e3, chunk, 1)
           e5 == Put(e4, size(chunk), want)
<1>1. /\ mem' = e5 /\ HeaderMapped(Temp) /\ Temp + HeaderSize \in Addresses
      /\ usedMemory' = Counted /\ held' = Append(held, [base |-> chunk + HeaderSize, size |-> want])
      /\ pc' = "idle" /\ reply' = chunk + HeaderSize /\ UNCHANGED <<want, chunk>>
  BY DEF Split, Answer, RestNext, Temp
<1>2. /\ mem \in Memory /\ HeaderMapped(chunk) /\ chunk \in U32 /\ want \in U32 /\ Temp \in U32
      /\ want \in Nat /\ chunk \in Nat /\ Temp \in Nat /\ 1 \in {0, 1}
      /\ {next(chunk), allocated(chunk), size(chunk)} \subseteq Words /\ allocated(chunk) \in Addresses
      /\ {next(Temp), prev(Temp), magic(Temp), size(Temp)} \subseteq Words /\ allocated(Temp) \in Addresses
  <2>1. mem \in Memory /\ HeaderMapped(chunk) /\ chunk \in U32 /\ want \in U32
    BY LayoutAssumption, WrappedInU32 DEF Types, Split
  <2>2. chunk \in Nat /\ want \in Nat
    BY <2>1, WrappedInU32
  <2>3. chunk + HeaderSize + want \in Int
    BY <2>2 DEF HeaderSize, Word
  <2>4. Temp \in U32 /\ Temp \in Nat
    BY <2>3, WrappedInU32 DEF Temp
  <2> QED BY <1>1, <2>1, <2>2, <2>4, HeaderIs
<1>3. after \in U32 /\ Rest(chunk) \in U32
  <2>1. Peek(mem, size(chunk)) \in U32
    BY <1>2, Peeked
  <2>2. PICK n \in Nat : n = Peek(mem, size(chunk))
    BY <2>1, WrappedInU32
  <2>3. n - HeaderSize - want \in Int
    BY <1>2, <2>2 DEF HeaderSize, Word
  <2> QED BY <1>2, <2>2, <2>3, Peeked, WrappedInU32 DEF Rest
<1>4. e0 \in Memory /\ \A x \in Addresses : x < Temp => e0[x] = mem[x]
  BY <1>2, ClearedIs
<1> HIDE DEF after, e0
<1>5. /\ e1 \in Memory
      /\ Peek(e1, next(Temp)) = after /\ Peek(e1, prev(Temp)) = chunk /\ Peek(e1, magic(Temp)) = Magic
      /\ e1[allocated(Temp)] = 0 /\ Peek(e1, size(Temp)) = Rest(chunk)
      /\ \A x \in Addresses : x < Temp \/ Temp + 20 <= x => e1[x] = e0[x]
  <2>1. e0 \in Memory /\ HeaderMapped(Temp) /\ chunk \in U32 /\ after \in U32 /\ Rest(chunk) \in U32
    BY <1>1, <1>2, <1>3, <1>4
  <2> HIDE DEF e1
  <2>2. e1 = WithHeader(e0, Temp, chunk, after, Rest(chunk))
    BY DEF e1
  <2> QED BY <2>1, <2>2, HeaderWritten, SMTT(30)
<1> HIDE DEF e1
<1>6. e2 \in Memory /\ (after = nullptr => e2 = e1)
  <2>1. prev(after) \in Int
    BY <1>3, WrappedInU32 DEF prev, Word
  <2> QED BY <1>2, <1>5, <2>1, Written
<1> HIDE DEF e2
<1>7. next(chunk) = chunk /\ allocated(chunk) = chunk + 12 /\ size(chunk) = chunk + 16
  BY <1>2, FieldsOf
<1>8. /\ e3 \in Memory /\ Peek(e3, next(chunk)) = Temp
      /\ \A x \in Addresses : x < next(chunk) \/ next(chunk) + 4 <= x => e3[x] = e2[x]
  BY <1>2, <1>6, <1>7, Written
<1> HIDE DEF e3
<1>9. /\ e4 \in Memory /\ e4[allocated(chunk)] = 1
      /\ \A x \in Addresses : x # allocated(chunk) => e4[x] = e3[x]
      /\ \A y \in Words : y + 4 <= allocated(chunk) \/ allocated(chunk) < y => Peek(e4, y) = Peek(e3, y)
  <2>1. chunk \in Int /\ allocated(chunk) \in Addresses /\ 1 \in {0, 1} /\ e3 \in Memory
    BY <1>2, <1>8
  <2> HIDE DEF e5
  <2> QED BY <2>1, FlagSet
<1> HIDE DEF e4
<1>10. /\ e5 \in Memory /\ Peek(e5, size(chunk)) = want
       /\ \A x \in Addresses : x < size(chunk) \/ size(chunk) + 4 <= x => e5[x] = e4[x]
       /\ \A y \in Words : y + 4 <= size(chunk) \/ size(chunk) + 4 <= y => Peek(e5, y) = Peek(e4, y)
  BY <1>2, <1>7, <1>9, Written
<1> HIDE DEF e5
<1>11. ASSUME after = nullptr, Temp >= chunk + HeaderSize
       PROVE  /\ \A x \in Addresses :
                   x < Temp /\ (x < chunk \/ (chunk + 4 <= x /\ x < chunk + 12) \/ chunk + 20 <= x) =>
                     mem'[x] = mem[x]
              /\ Peek(e5, next(chunk)) = Temp /\ Peek(e5, size(chunk)) = want
              /\ e5[allocated(chunk)] = 1
              /\ Peek(e5, next(Temp)) = nullptr /\ Peek(e5, prev(Temp)) = chunk
              /\ Peek(e5, magic(Temp)) = Magic
              /\ e5[allocated(Temp)] = 0 /\ Peek(e5, size(Temp)) = Rest(chunk)
  <2>1. \A x \in Addresses : x \in Nat
    BY WordsAre
  <2>2. Temp >= chunk + 20 /\ e2 = e1
    BY <1>6, <1>11 DEF HeaderSize, Word
  <2>3. ASSUME NEW x \in Addresses,
               x < Temp /\ (x < chunk \/ (chunk + 4 <= x /\ x < chunk + 12) \/ chunk + 20 <= x)
        PROVE  e5[x] = mem[x]
    <3>1. e5[x] = e2[x]
      BY <1>2, <1>7, <1>8, <1>9, <1>10, <2>1, <2>3
    <3>2. e1[x] = mem[x]
      BY <1>4, <1>5, <2>3
    <3> QED BY <2>2, <3>1, <3>2
  <2>4. Peek(e5, next(chunk)) = Temp /\ e5[allocated(chunk)] = 1
    <3>1. /\ next(chunk) + 4 <= allocated(chunk) /\ next(chunk) + 4 <= size(chunk)
          /\ allocated(chunk) < size(chunk)
      BY <1>2, <1>7
    <3> QED BY <1>2, <1>8, <1>9, <1>10, <3>1
  <2>5. \A x \in Addresses : Temp <= x /\ x < Temp + 20 => e5[x] = e1[x]
    <3>1. \A x \in Addresses : Temp <= x => e5[x] = e2[x]
      BY <1>2, <1>7, <1>8, <1>9, <1>10, <2>1, <2>2
    <3> QED BY <2>2, <3>1
  <2>6. /\ Peek(e5, next(Temp)) = Peek(e1, next(Temp)) /\ Peek(e5, prev(Temp)) = Peek(e1, prev(Temp))
        /\ Peek(e5, magic(Temp)) = Peek(e1, magic(Temp)) /\ e5[allocated(Temp)] = e1[allocated(Temp)]
        /\ Peek(e5, size(Temp)) = Peek(e1, size(Temp))
    BY <1>1, <2>5, SameHeader
  <2> QED BY <1>1, <1>5, <1>10, <1>11, <2>3, <2>4, <2>6
<1>12. word[next(chunk)] = after
  BY <1>2, Primed DEF after
<1>13. \A a \in Words : word'[a] = Peek(e5, a)
  BY <1>1, Primed
<1> QED BY <1>1, <1>2, <1>10, <1>11, <1>12, <1>13

\* Free's memory: the flag reset, and the merges.
LEMMA FreeTyped ==
  ASSUME Types, NEW i \in DOMAIN held, Free(i)
  PROVE  mem' \in Memory /\ held' = RemoveAt(held, i)
<1> DEFINE c == held[i].base - HeaderSize
           released == Flagged(mem, c, 0)
           up == MergesUp(released, c)
           k == IF up THEN Peek(released, prev(c)) ELSE c
           merged == IF up THEN MergedUp(released, c) ELSE released
<1>1. /\ held' = RemoveAt(held, i)
      /\ \/ mem' = IF MergesDown(merged, k) THEN MergedDown(merged, k) ELSE merged
         \/ mem' = mem
  BY DEF Free
<1>2. mem \in Memory /\ c \in Int /\ 0 \in {0, 1}
  <2>1. held[i] \in Blocks32
    BY DEF Types
  <2> QED BY <2>1, WordsAre DEF Types, Blocks32, U32, HeaderSize, Word
<1> HIDE DEF c
<1>3. released \in Memory
  BY <1>2, FlagSet
<1> HIDE DEF released
<1>4. merged \in Memory /\ k \in Int
  <2>1. MergedUp(released, c) \in Memory
    BY <1>2, <1>3, MergedTyped
  <2>2. Peek(released, prev(c)) \in U32 /\ U32 \subseteq Int
    BY <1>3, Peeked, WrappedInU32
  <2> QED BY <1>2, <1>3, <2>1, <2>2
<1> HIDE DEF merged, k
<1>5. MergedDown(merged, k) \in Memory
  BY <1>4, MergedTyped
<1> QED BY <1>1, <1>2, <1>4, <1>5

\* What is left of a sequence without one of its elements.
LEMMA Removed ==
  ASSUME NEW S, NEW s \in Seq(S), NEW i \in DOMAIN s
  PROVE  /\ RemoveAt(s, i) \in Seq(S) /\ Len(RemoveAt(s, i)) = Len(s) - 1
         /\ \A j \in 1 .. Len(s) - 1 : RemoveAt(s, i)[j] = IF j < i THEN s[j] ELSE s[j + 1]
<1>1. Len(s) \in Nat /\ DOMAIN s = 1 .. Len(s) /\ i \in 1 .. Len(s)
  BY LenProperties
<1>2. \A j \in 1 .. Len(s) : s[j] \in S
  BY ElementOfSeq
<1>3. PICK t : t = SubSeq(s, 1, i - 1)
  OBVIOUS
<1>4. PICK u : u = SubSeq(s, i + 1, Len(s))
  OBVIOUS
<1>5. /\ t \in Seq(S) /\ Len(t) = i - 1
      /\ \A j \in 1 .. i - 1 : t[j] = s[j]
  <2>1. i - 1 \in Int /\ 1 \in Int /\ \A j \in 1 .. i - 1 : s[j] \in S
    BY <1>1, <1>2
  <2>2. /\ t \in Seq(S) /\ Len(t) = IF 1 <= i - 1 THEN i - 1 - 1 + 1 ELSE 0
        /\ \A j \in 1 .. (i - 1) - 1 + 1 : t[j] = s[1 + j - 1]
    BY <1>3, <2>1, SubSeqProperties
  <2> QED BY <1>1, <2>2
<1>6. /\ u \in Seq(S) /\ Len(u) = Len(s) - i
      /\ \A j \in 1 .. Len(s) - i : u[j] = s[i + j]
  <2>1. i + 1 \in Int /\ Len(s) \in Int /\ \A j \in i + 1 .. Len(s) : s[j] \in S
    BY <1>1, <1>2
  <2>2. /\ u \in Seq(S) /\ Len(u) = IF i + 1 <= Len(s) THEN Len(s) - (i + 1) + 1 ELSE 0
        /\ \A j \in 1 .. Len(s) - (i + 1) + 1 : u[j] = s[i + 1 + j - 1]
    BY <1>4, <2>1, SubSeqProperties
  <2> QED BY <1>1, <2>2, SMTT(20)
<1>7. /\ t \o u \in Seq(S) /\ Len(t \o u) = Len(s) - 1
      /\ \A j \in 1 .. Len(s) - 1 : (t \o u)[j] = IF j <= i - 1 THEN t[j] ELSE u[j - (i - 1)]
  <2>1. /\ t \o u \in Seq(S) /\ Len(t \o u) = Len(t) + Len(u)
        /\ \A j \in 1 .. Len(t) + Len(u) : (t \o u)[j] = IF j <= Len(t) THEN t[j] ELSE u[j - Len(t)]
    BY <1>5, <1>6, ConcatProperties
  <2>2. Len(t) + Len(u) = Len(s) - 1
    BY <1>1, <1>5, <1>6
  <2> QED BY <1>5, <2>1, <2>2
<1>8. ASSUME NEW j \in 1 .. Len(s) - 1
      PROVE  (t \o u)[j] = IF j < i THEN s[j] ELSE s[j + 1]
  <2>1. CASE j < i
    BY <1>1, <1>5, <1>7, <2>1
  <2>2. CASE ~(j < i)
    <3>1. PICK d \in 1 .. Len(s) - i : d = j - (i - 1)
      BY <1>1, <2>2
    <3>2. u[d] = s[i + d] /\ i + d = j + 1
      BY <1>1, <1>6, <3>1
    <3>3. (t \o u)[j] = u[d]
      BY <1>1, <1>7, <2>2, <3>1
    <3> QED BY <2>2, <3>2, <3>3
  <2> QED BY <2>1, <2>2
<1> QED BY <1>3, <1>4, <1>7, <1>8 DEF RemoveAt

\* What the constructor leaves in memory.
LEMMA FirstChunk ==
  ASSUME Init
  PROVE  /\ mem \in Memory
         /\ first # nullptr =>
              /\ first = Start /\ HeaderMapped(Start)
              /\ word[next(Start)] = nullptr /\ word[prev(Start)] = nullptr /\ word[magic(Start)] = Magic
              /\ mem[allocated(Start)] = 0 /\ word[size(Start)] = MemorySize - HeaderSize
<1>1. mem = IF first = nullptr THEN raw ELSE WithHeader(raw, first, nullptr, nullptr, MemorySize - HeaderSize)
  BY DEF Init
<1>2. raw \in Memory /\ nullptr \in U32
  BY LayoutAssumption, WrappedInU32 DEF raw, nullptr, Memory
<1>3. CASE first = nullptr
  BY <1>1, <1>2, <1>3
<1>4. CASE first # nullptr
  <2>1. first = Start /\ HeaderMapped(Start) /\ MemorySize - HeaderSize \in U32
    BY <1>4, WordsAre, HeaderIs DEF first, End, U32, HeaderSize, Word
  <2>2. {next(Start), prev(Start), magic(Start), size(Start)} \subseteq Words
    BY <2>1, HeaderIs
  <2>3. mem = WithHeader(raw, Start, nullptr, nullptr, MemorySize - HeaderSize)
    BY <1>1, <1>4, <2>1
  <2>4. /\ mem \in Memory
        /\ Peek(mem, next(Start)) = nullptr /\ Peek(mem, prev(Start)) = nullptr
        /\ Peek(mem, magic(Start)) = Magic
        /\ mem[allocated(Start)] = 0 /\ Peek(mem, size(Start)) = MemorySize - HeaderSize
    BY <1>2, <2>1, <2>3, HeaderWritten
  <2> QED BY <2>1, <2>2, <2>4, Primed
<1> QED BY <1>3, <1>4

LEMMA TypesInductive ==
  /\ Init => Types
  /\ Types /\ [Next]_heapVars => Types'
<1>1. ASSUME Init PROVE Types
  <2>1. mem \in Memory
    BY <1>1, FirstChunk
  <2>2. /\ usedMemory \in U32 /\ pc = "idle" /\ want \in Requests \cup {0} /\ chunk \in U32
        /\ reply \in U32 \cup {NoAnswer}
    BY <1>1, WrappedInU32 DEF Init, nullptr
  <2>3. held \in Seq(Blocks32)
    BY <1>1 DEF Init
  <2> QED BY <2>1, <2>2, <2>3 DEF Types
<1>2. ASSUME Types, Next PROVE Types'
  <2>1. first \in U32 /\ nullptr \in U32
    BY WordsAre, WrappedInU32 DEF first, nullptr, U32, End
  <2>2. ASSUME NEW bytes \in Requests, Malloc(bytes) PROVE Types'
    BY <1>2, <2>1, <2>2 DEF Types, Malloc, Answer, HeaderMapped
  <2>3. CASE Search
    <3>1. Peek(mem, next(chunk)) \in U32
      BY <1>2, Peeked DEF Types
    <3> QED BY <1>2, <2>1, <2>3, <3>1 DEF Types, Search, Answer, HeaderMapped
  <2>4. CASE Split
    <3>1. CASE pc' = "fault"
      BY <1>2, <2>4, <3>1 DEF Types, Split, Answer
    <3>2. CASE pc' # "fault"
      <4>1. /\ mem' \in Memory /\ usedMemory' = Counted
            /\ held' = Append(held, [base |-> chunk + HeaderSize, size |-> want])
            /\ pc' = "idle" /\ reply' = chunk + HeaderSize /\ UNCHANGED <<want, chunk>>
        BY <1>2, <2>4, <3>2, SplitWrites
      <4>2. chunk + HeaderSize \in U32 /\ want \in Requests /\ HeaderMapped(chunk)
        <5>1. HeaderMapped(chunk) /\ chunk \in U32 /\ want \in Requests
          BY <1>2, <2>4 DEF Types, Split
        <5> QED BY <5>1, HeaderIs, WordsAre DEF U32, HeaderSize, Word
      <4>3. Counted \in U32
        <5>1. usedMemory \in U32 /\ want \in U32
          BY <1>2, <4>2, LayoutAssumption DEF Types
        <5> QED BY <5>1, SumInU32 DEF Counted
      <4>4. held' \in Seq(Blocks32)
        <5>1. PICK b \in Blocks32 : b = [base |-> chunk + HeaderSize, size |-> want]
          BY <4>2 DEF Blocks32
        <5> QED BY <1>2, <4>1, <5>1, AppendProperties DEF Types
      <4> QED BY <1>2, <4>1, <4>2, <4>3, <4>4 DEF Types
    <3> QED BY <3>1, <3>2
  <2>5. ASSUME NEW i \in DOMAIN held, Free(i) PROVE Types'
    <3>1. mem' \in Memory /\ held' = RemoveAt(held, i)
      BY <1>2, <2>5, FreeTyped
    <3>2. held' \in Seq(Blocks32)
      BY <1>2, <3>1, Removed DEF Types
    <3>3. pc' \in {"idle", "fault"} /\ reply' = NoAnswer /\ UNCHANGED <<usedMemory, want, chunk>>
      BY <2>5 DEF Free
    <3> QED BY <1>2, <3>1, <3>2, <3>3 DEF Types
  <2>6. ASSUME NEW i \in DOMAIN held, NEW byte \in UserData, Use(i, byte) PROVE Types'
    <3>1. byte \in 0 .. Byte - 1
      BY LayoutAssumption
    <3>2. mem' \in Memory
      BY <1>2, <2>6, <3>1 DEF Types, Use, Memory
    <3> QED BY <1>2, <2>6, <3>2 DEF Types, Use, HeaderMapped
  <2> QED BY <1>2, <2>2, <2>3, <2>4, <2>5, <2>6 DEF Next
<1>3. ASSUME Types, UNCHANGED heapVars PROVE Types'
  BY <1>3 DEF Types, heapVars, HeaderMapped
<1> QED BY <1>1, <1>2, <1>3

\* Memory keeps its shape and every byte its width, whatever order blocks are
\* given back in: the sums malloc and free write are u32s.
THEOREM TypeCorrect == Spec => []TypeOK
<1>1. Types => TypeOK
  <2> SUFFICES ASSUME Types PROVE TypeOK
    OBVIOUS
  <2>1. \A i \in DOMAIN held : held[i] \in Blocks32
    BY LenProperties, ElementOfSeq DEF Types
  <2>2. \A i \in DOMAIN held : held[i].base \in U32 /\ held[i].size \in Requests
    BY <2>1 DEF Blocks32
  <2> QED BY <2>2 DEF Types, TypeOK, Memory
<1> QED BY <1>1, TypesInductive, PTL DEF Spec

-----------------------------------------------------------------------------
\* Where the headers lie: each in the heap, in order, and all before the tail.
LEMMA HeadersAre ==
  ASSUME Types, Blocked
  PROVE  /\ Newest \in Nat /\ DOMAIN held = 1 .. Newest /\ (held = <<>> <=> Newest = 0)
         /\ \A i \in 1 .. Newest :
              /\ held[i].size \in Nat /\ held[i].base = head(i) + 20
              /\ head(i) \in Nat /\ Start <= head(i) /\ HeaderMapped(head(i))
              /\ head(i) + 20 + held[i].size <= tail
              /\ \A j \in 1 .. Newest : i < j => head(i) + 20 + held[i].size <= head(j)
         /\ tail \in Nat /\ tail <= End /\ Start + 20 * Newest <= tail
<1>1. Newest \in Nat /\ DOMAIN held = 1 .. Newest /\ (held = <<>> <=> Newest = 0)
  BY LenProperties, EmptySeq DEF Newest, Types
<1>2. ASSUME NEW i \in 1 .. Newest
      PROVE  /\ held[i].size \in Nat /\ held[i].base = head(i) + 20
             /\ held[i].base \in Nat /\ held[i].base >= Start + 20 * i
             /\ held[i].base + held[i].size < End
             /\ head(i) \in Nat /\ Start <= head(i)
             /\ \A j \in 1 .. Newest : i < j => head(i) + 20 + held[i].size <= head(j)
  <2>1. PICK b \in Nat : b = held[i].base
    BY <1>1 DEF Blocked
  <2>2. PICK s \in Nat : s = held[i].size
    BY <1>1, LayoutAssumption, WrappedInU32 DEF Blocked, Word
  <2>3. b >= Start + 20 * i /\ b + s < End /\ i \in Nat /\ i >= 1
    BY <1>1, <2>1, <2>2, WordsAre DEF Blocked, HeaderSize, Word
  <2>4. head(i) = b - 20
    BY <2>1 DEF head, HeaderSize, Word
  <2>5. ASSUME NEW j \in 1 .. Newest, i < j PROVE b + s <= head(j)
    BY <1>1, <2>1, <2>2, <2>5 DEF Blocked
  <2> QED BY <2>1, <2>2, <2>3, <2>4, <2>5, WordsAre
<1>3. CASE held = <<>>
  BY <1>1, <1>3, WordsAre DEF tail, End
<1>4. CASE held # <<>>
  <2>1. Newest \in 1 .. Newest /\ tail = held[Newest].base + held[Newest].size
    BY <1>1, <1>4 DEF tail
  <2>2. tail \in Nat /\ tail <= End /\ Start + 20 * Newest <= tail
    <3>1. PICK b \in Nat, s \in Nat : b = held[Newest].base /\ s = held[Newest].size
      BY <1>2, <2>1
    <3>2. b + s <= End /\ b >= Start + 20 * Newest
      BY <1>2, <2>1, <3>1, WordsAre
    <3> QED BY <2>1, <3>1, <3>2, WordsAre
  <2>3. ASSUME NEW i \in 1 .. Newest
        PROVE  HeaderMapped(head(i)) /\ head(i) + 20 + held[i].size <= tail
    <3>1. PICK b \in Nat, s \in Nat : b = held[Newest].base /\ s = held[Newest].size
      BY <1>2, <2>1
    <3>2. i = Newest \/ i < Newest
      BY <1>1
    <3>3. head(i) + 20 + held[i].size <= tail
      BY <1>2, <2>1, <3>1, <3>2
    <3>4. head(i) + 20 <= End
      BY <1>2, <2>2, <3>3, WordsAre
    <3> QED BY <1>2, <3>3, <3>4, HeaderIs
  <2> QED BY <1>1, <1>2, <2>2, <2>3
<1> QED BY <1>3, <1>4

\* Layout's parts are about the memory and the held blocks only.
LEMMA SameHeap ==
  ASSUME UNCHANGED <<mem, held>>
  PROVE  /\ (Blocked => Blocked') /\ (Linked => Linked') /\ tail' = tail /\ word' = word
         /\ (Open <=> Open') /\ (Closed <=> Closed')
         /\ \A i \in DOMAIN held : head(i)' = head(i)
<1>1. /\ tail' = tail /\ Newest' = Newest /\ \A i : head(i)' = head(i)
      /\ \A i : Before(i)' = Before(i)
  BY DEF tail, Newest, head, Before
<1>2. \A c : HeaderMapped(c)' = HeaderMapped(c)
  BY DEF HeaderMapped
<1>3. word' = word
  BY Primed
<1> QED BY <1>1, <1>2, <1>3 DEF Blocked, Linked, Open, Closed

\* The list in a few words: what the proofs about malloc and free start from.
LEMMA ListIs ==
  ASSUME Types, Layout
  PROVE  /\ \A i \in 1 .. Newest :
              /\ word[prev(head(i))] = Before(i) /\ word[magic(head(i))] = Magic
              /\ mem[allocated(head(i))] # 0 /\ IsAllocated(mem, head(i))
              /\ i < Newest => word[next(head(i))] = head(i + 1) /\ word[size(head(i))] = held[i].size
         /\ Newest > 0 => head(1) = Start
         /\ \A i \in 2 .. Newest : head(i) = head(i - 1) + 20 + held[i - 1].size
         /\ first = nullptr => Newest = 0
         /\ first # nullptr => first = Start /\ (Open \/ Closed)
         /\ Open => tail # nullptr /\ ~Closed /\ ~IsAllocated(mem, tail)
<1>1. Blocked /\ Linked /\ (first # nullptr => Open \/ Closed)
  BY DEF Layout
<1>2. Newest \in Nat /\ DOMAIN held = 1 .. Newest /\ (held = <<>> <=> Newest = 0)
  BY <1>1, HeadersAre
<1>3. ASSUME NEW i \in 1 .. Newest
      PROVE  /\ word[prev(head(i))] = Before(i) /\ word[magic(head(i))] = Magic
             /\ mem[allocated(head(i))] # 0 /\ IsAllocated(mem, head(i))
             /\ i < Newest => word[next(head(i))] = head(i + 1) /\ word[size(head(i))] = held[i].size
  <2>1. allocated(head(i)) \in Addresses
    BY <1>1, HeadersAre, HeaderIs
  <2>2. i < Newest => i + 1 \in DOMAIN held
    BY <1>2
  <2> QED BY <1>1, <1>2, <2>1, <2>2 DEF Linked, IsAllocated
<1>4. Newest > 0 => head(1) = Start
  BY <1>1, <1>2 DEF Blocked
<1>5. ASSUME NEW i \in 2 .. Newest PROVE head(i) = head(i - 1) + 20 + held[i - 1].size
  <2>1. i - 1 \in DOMAIN held /\ (i - 1) + 1 = i /\ i \in DOMAIN held /\ i - 1 \in 1 .. Newest
    BY <1>2
  <2>2. head(i) = held[i - 1].base + held[i - 1].size
    BY <1>1, <2>1 DEF Blocked
  <2>3. held[i - 1].base = head(i - 1) + 20
    BY <1>1, <2>1, HeadersAre
  <2> QED BY <2>2, <2>3
<1>6. first # nullptr => first = Start
  BY DEF first
<1>7. ASSUME Open PROVE tail # nullptr /\ ~Closed /\ ~IsAllocated(mem, tail)
  <2>1. tail # nullptr
    BY <1>1, HeadersAre, WordsAre DEF nullptr
  <2>2. ~Closed
    BY <1>7, <2>1 DEF Open, Closed
  <2>3. allocated(tail) \in Words
    BY <1>7, HeaderIs DEF Open
  <2> QED BY <1>7, <2>1, <2>2, <2>3 DEF Open, IsAllocated, Peek
<1> QED BY <1>1, <1>2, <1>3, <1>4, <1>5, <1>6, <1>7 DEF Blocked

LEMMA InitLayout == Init => Layout
<1> SUFFICES ASSUME Init PROVE Layout
  OBVIOUS
<1>1. /\ held = <<>> /\ usedMemory = 0 /\ pc = "idle" /\ reply = NoAnswer
      /\ tail = Start /\ Newest = 0 /\ DOMAIN held = {}
  BY EmptySeq DEF Init, tail, Newest
<1>2. Blocked /\ Linked
  BY <1>1 DEF Blocked, Linked
<1>3. ASSUME first # nullptr PROVE Open
  <2>1. Before(Newest + 1) = nullptr
    BY <1>1 DEF Before
  <2>2. tail + HeaderSize + (MemorySize - HeaderSize) = End
    BY <1>1, WordsAre DEF End, HeaderSize, Word
  <2> QED BY <1>1, <1>3, <2>1, <2>2, FirstChunk DEF Open
<1>4. Accounted
  BY <1>1, WordsAre DEF Accounted, Closed
<1>5. Searching
  BY <1>1 DEF Searching, NoAnswer, nullptr
<1> QED BY <1>2, <1>3, <1>4, <1>5 DEF Layout

LEMMA MallocKeepsLayout ==
  ASSUME Types, Layout, NEW bytes \in Requests, Malloc(bytes)
  PROVE  Layout'
<1>1. UNCHANGED <<mem, held, usedMemory>> /\ want' = bytes /\ chunk' = first
  BY DEF Malloc
<1>2. /\ (Blocked => Blocked') /\ (Linked => Linked') /\ tail' = tail /\ word' = word
      /\ (Open <=> Open') /\ (Closed <=> Closed')
      /\ \A i \in DOMAIN held : head(i)' = head(i)
  BY <1>1, SameHeap
<1>3. bytes \in Nat /\ usedMemory \in Nat /\ MemorySize \in Nat
  BY LayoutAssumption, WrappedInU32 DEF Types
<1>4. PICK n \in Nat : n = usedMemory + bytes + HeaderSize
  BY <1>3 DEF HeaderSize, Word
<1>5. Wrapped(n) <= n /\ Wrapped(n) \in Nat
  BY WordsAre DEF Wrapped
<1>6. CASE TooBig(bytes)
  <2>1. pc' = "idle" /\ reply' = nullptr
    BY <1>6 DEF Malloc, Answer
  <2>2. usedMemory' + want' + HeaderSize >= MemorySize
    BY <1>1, <1>3, <1>4, <1>5, <1>6 DEF TooBig
  <2>3. Accounted'
    BY <1>1, <1>2, <2>1 DEF Layout, Accounted
  <2>4. Searching'
    BY <2>1, <2>2 DEF Searching
  <2> QED BY <1>2, <2>3, <2>4 DEF Layout
<1>7. CASE ~TooBig(bytes)
  <2>1. pc' = "search"
    BY <1>7 DEF Malloc
  <2>2. Wrapped(usedMemory' + want' + HeaderSize) < MemorySize
    BY <1>1, <1>3, <1>4, <1>5, <1>7 DEF TooBig
  <2>3. Accounted'
    BY <1>1, <1>2, <2>1, <2>2 DEF Layout, Accounted
  <2>4. \/ chunk' = nullptr /\ first = nullptr
        \/ chunk' = tail' /\ first # nullptr /\ Open'
        \/ \E i \in DOMAIN held' : chunk' = head(i)'
    <3>1. CASE first # nullptr /\ held # <<>>
      <4>1. 1 \in DOMAIN held /\ head(1) = Start /\ first = Start
        BY <3>1, HeadersAre, ListIs DEF Layout
      <4> QED BY <1>1, <1>2, <4>1
    <3>2. CASE first # nullptr /\ held = <<>>
      <4>1. first = Start /\ tail = Start /\ Open
        BY <3>2, ListIs DEF tail, Closed
      <4> QED BY <1>1, <1>2, <3>2, <4>1
    <3> QED BY <1>1, <3>1, <3>2
  <2>5. Searching'
    BY <2>1, <2>4 DEF Searching
  <2> QED BY <1>2, <2>3, <2>5 DEF Layout
<1> QED BY <1>6, <1>7

\* The search stands at chunks of the list only, so it never faults, and it stops
\* at the free chunk, if that is large enough.
LEMMA SearchKeepsLayout ==
  ASSUME Types, Layout, Search
  PROVE  Layout' /\ pc' # "fault"
<1>1. UNCHANGED <<mem, held, usedMemory, want>> /\ pc = "search"
  BY DEF Search
<1>2. /\ (Blocked => Blocked') /\ (Linked => Linked') /\ tail' = tail /\ word' = word
      /\ (Open <=> Open') /\ (Closed <=> Closed')
      /\ \A i \in DOMAIN held : head(i)' = head(i)
  BY <1>1, SameHeap
<1>3. Blocked /\ Accounted /\ Searching
  BY DEF Layout
<1>4. DOMAIN held = 1 .. Newest /\ Newest \in Nat
  BY <1>3, HeadersAre
<1>5. want \in Nat /\ usedMemory \in Nat /\ MemorySize \in Nat /\ tail \in Nat
  BY <1>3, HeadersAre, LayoutAssumption, WrappedInU32 DEF Types
<1>6. SUFFICES Accounted' /\ Searching' /\ pc' # "fault"
  BY <1>2 DEF Layout
<1>7. CASE chunk = nullptr
  <2>1. (pc' = "idle" /\ reply' = nullptr) \/ HeaderMapped(nullptr)
    BY <1>7 DEF Search, Answer
  <2>2. pc' = "idle" /\ reply' = nullptr
    BY <2>1, HeaderIs, WordsAre DEF nullptr
  <2>3. Accounted'
    BY <1>1, <1>2, <1>3, <2>2 DEF Accounted
  <2>4. ASSUME usedMemory = tail - Start PROVE usedMemory + want + HeaderSize >= MemorySize
    <3>1. CASE first = nullptr
      BY <1>5, <3>1, WordsAre DEF first, nullptr, HeaderSize, Word
    <3>2. CASE first # nullptr
      <4>1. Open
        BY <1>3, <1>5, <2>4, <3>2, ListIs, WordsAre DEF Accounted
      <4>2. word[size(tail)] <= want
        <5>1. \A i \in DOMAIN held : head(i) # nullptr
          BY <1>3, <1>4, HeadersAre, WordsAre DEF nullptr
        <5>2. tail # nullptr
          BY <4>1, ListIs
        <5> QED BY <1>1, <1>3, <1>7, <3>2, <4>1, <5>1, <5>2 DEF Searching
      <4>3. word[size(tail)] \in Nat
        <5>1. size(tail) \in Words
          BY <4>1, HeaderIs DEF Open
        <5> QED BY <5>1, WordTyped, WrappedInU32 DEF Types
      <4>4. tail + HeaderSize + word[size(tail)] = End
        BY <4>1 DEF Open
      <4> QED BY <1>5, <2>4, <4>2, <4>3, <4>4, WordsAre DEF End, HeaderSize, Word
    <3> QED BY <3>1, <3>2
  <2>5. Searching'
    BY <1>1, <1>2, <2>2, <2>4 DEF Searching
  <2> QED BY <2>2, <2>3, <2>5
<1>8. CASE chunk = tail /\ first # nullptr /\ Open
  <2>1. HeaderMapped(chunk) /\ ~IsAllocated(mem, tail) /\ {next(tail), size(tail)} \subseteq Words
        /\ chunk # nullptr /\ word[size(tail)] \in Nat
    <3>1. HeaderMapped(chunk) /\ ~IsAllocated(mem, tail) /\ {next(tail), size(tail)} \subseteq Words
          /\ chunk # nullptr
      BY <1>8, ListIs, HeaderIs DEF Open
    <3> QED BY <3>1, WordTyped, WrappedInU32 DEF Types
  <2>2. Fits(chunk) <=> word[size(tail)] > want
    BY <1>8, <2>1, Primed DEF Fits
  <2>3. CASE Fits(chunk)
    <3>1. pc' = "split" /\ UNCHANGED <<chunk, reply>>
      BY <2>1, <2>3 DEF Search
    <3>2. Accounted'
      BY <1>1, <1>2, <1>3, <3>1 DEF Accounted
    <3>3. word'[size(tail')] > want'
      BY <1>1, <1>2, <2>2, <2>3
    <3>4. Searching'
      BY <1>1, <1>2, <1>8, <3>1, <3>3 DEF Searching
    <3> QED BY <3>1, <3>2, <3>4
  <2>4. CASE ~Fits(chunk)
    <3>1. pc' = "search" /\ chunk' = nullptr
      BY <1>1, <1>8, <2>1, <2>4, Primed DEF Search, Open
    <3>2. Accounted'
      BY <1>1, <1>2, <1>3, <3>1 DEF Accounted
    <3>3. word[size(tail)] <= want
      BY <1>5, <2>1, <2>2, <2>4
    <3>4. word'[size(tail')] <= want'
      BY <1>1, <1>2, <3>3
    <3>5. Searching'
      BY <3>1, <3>4 DEF Searching
    <3> QED BY <3>1, <3>2, <3>5
  <2> QED BY <2>3, <2>4
<1>9. ASSUME NEW i \in DOMAIN held, chunk = head(i) PROVE Accounted' /\ Searching' /\ pc' # "fault"
  <2>1. HeaderMapped(chunk) /\ IsAllocated(mem, chunk) /\ chunk # nullptr
    BY <1>3, <1>4, <1>9, HeadersAre, ListIs, WordsAre DEF nullptr
  <2>2. pc' = "search" /\ chunk' = word[next(chunk)]
    BY <1>1, <2>1, HeaderIs, Primed DEF Search, Fits
  <2>3. Accounted'
    BY <1>1, <1>2, <1>3, <2>2 DEF Accounted
  <2>4. CASE i < Newest
    <3>1. chunk' = head(i + 1) /\ i + 1 \in DOMAIN held
      BY <1>4, <1>9, <2>2, <2>4, ListIs
    <3> QED BY <1>1, <1>2, <2>2, <2>3, <3>1 DEF Searching
  <2>5. CASE i = Newest
    <3>1. held # <<>> /\ first # nullptr
      BY <1>3, <1>4 DEF Blocked
    <3>2. CASE Open
      <4>1. chunk' = tail
        BY <1>9, <2>2, <2>5, <3>1, <3>2 DEF Open
      <4> QED BY <1>1, <1>2, <2>2, <2>3, <3>1, <3>2, <4>1 DEF Searching
    <3>3. CASE Closed
      <4>1. chunk' = nullptr /\ ~Open
        BY <1>9, <2>2, <2>5, <3>1, <3>3, ListIs DEF Closed
      <4> QED BY <1>1, <1>2, <2>2, <2>3, <4>1 DEF Searching
    <3> QED BY <3>1, <3>2, <3>3, ListIs
  <2> QED BY <1>4, <2>4, <2>5
<1> QED BY <1>1, <1>3, <1>7, <1>8, <1>9 DEF Searching

\* What a holder writes falls between the headers.
LEMMA UseKeepsLayout ==
  ASSUME Types, Layout, NEW i \in DOMAIN held, NEW byte \in UserData, Use(i, byte)
  PROVE  Layout'
<1>1. UNCHANGED <<usedMemory, pc, want, chunk, reply, held>> /\ pc = "idle"
      /\ mem' = [a \in Addresses |-> IF a \in Data(held[i]) THEN byte ELSE mem[a]]
  BY DEF Use
<1>2. Blocked /\ Accounted /\ Searching /\ Linked
  BY DEF Layout
<1>3. i \in 1 .. Newest /\ Newest \in Nat /\ DOMAIN held = 1 .. Newest
  BY <1>2, HeadersAre
<1>4. /\ tail' = tail /\ Newest' = Newest /\ \A j : head(j)' = head(j)
      /\ \A j : Before(j)' = Before(j) /\ \A c : HeaderMapped(c)' = HeaderMapped(c)
  BY <1>1 DEF tail, Newest, head, Before, HeaderMapped
<1>5. \A a \in Addresses : a \notin Data(held[i]) => mem'[a] = mem[a]
  BY <1>1
<1>6. /\ Data(held[i]) = head(i) + 20 .. head(i) + 20 + held[i].size - 1
      /\ head(i) \in Nat /\ held[i].size \in Nat
  BY <1>2, <1>3, HeadersAre DEF Data
<1>7. ASSUME NEW c, HeaderMapped(c), c = tail \/ \E j \in 1 .. Newest : c = head(j)
      PROVE  /\ word'[next(c)] = word[next(c)] /\ word'[prev(c)] = word[prev(c)]
             /\ word'[magic(c)] = word[magic(c)] /\ mem'[allocated(c)] = mem[allocated(c)]
             /\ word'[size(c)] = word[size(c)]
  <2>1. c \in Nat /\ (c + 20 <= head(i) + 20 \/ head(i) + 20 + held[i].size <= c)
    <3>1. CASE c = tail
      BY <1>2, <1>3, <3>1, HeadersAre
    <3>2. CASE \E j \in 1 .. Newest : c = head(j)
      <4>1. PICK j \in 1 .. Newest : c = head(j)
        BY <3>2
      <4>2. j < i \/ j = i \/ i < j
        BY <1>3, <4>1
      <4>3. CASE j < i
        <5>1. head(j) + 20 + held[j].size <= head(i) /\ head(j) \in Nat /\ held[j].size \in Nat
          BY <1>2, <1>3, <4>3, HeadersAre
        <5> QED BY <1>6, <4>1, <5>1
      <4>4. CASE j = i
        BY <1>6, <4>1, <4>4
      <4>5. CASE i < j
        <5>1. head(i) + 20 + held[i].size <= head(j) /\ head(j) \in Nat
          BY <1>2, <1>3, <4>5, HeadersAre
        <5> QED BY <4>1, <5>1
      <4> QED BY <4>2, <4>3, <4>4, <4>5
    <3> QED BY <1>7, <3>1, <3>2
  <2>2. \A x \in Addresses : c <= x /\ x < c + 20 => mem'[x] = mem[x]
    <3>1. PICK h \in Nat, s \in Nat : h = head(i) /\ s = held[i].size
      BY <1>6
    <3>2. Data(held[i]) = h + 20 .. h + 20 + s - 1 /\ (c + 20 <= h + 20 \/ h + 20 + s <= c)
      BY <1>6, <2>1, <3>1
    <3>3. \A x \in Addresses : x \in Nat
      BY WordsAre
    <3>4. ASSUME NEW x \in Addresses, c <= x, x < c + 20 PROVE x \notin Data(held[i])
      BY <2>1, <3>1, <3>2, <3>3, <3>4
    <3> QED BY <1>5, <3>4
  <2>3. {next(c), prev(c), magic(c), size(c)} \subseteq Words
    BY <1>7, HeaderIs
  <2> QED BY <1>7, <2>2, <2>3, SameHeader, Primed
<1>8. \A j \in 1 .. Newest :
        LET c == head(j)
        IN  /\ word'[next(c)] = word[next(c)] /\ word'[prev(c)] = word[prev(c)]
            /\ word'[magic(c)] = word[magic(c)] /\ mem'[allocated(c)] = mem[allocated(c)]
            /\ word'[size(c)] = word[size(c)]
  BY <1>2, <1>3, <1>7, HeadersAre
<1>9. Blocked'
  BY <1>1, <1>2, <1>4 DEF Blocked
<1>10. Linked'
  <2>1. ASSUME NEW j \in 1 .. Newest
        PROVE  /\ word'[prev(head(j))] = Before(j) /\ word'[magic(head(j))] = Magic
               /\ mem'[allocated(head(j))] # 0
               /\ j + 1 \in 1 .. Newest => /\ word'[next(head(j))] = head(j + 1)
                                          /\ word'[size(head(j))] = held[j].size
    <3>1. /\ word[prev(head(j))] = Before(j) /\ word[magic(head(j))] = Magic
          /\ mem[allocated(head(j))] # 0
          /\ j + 1 \in 1 .. Newest => /\ word[next(head(j))] = head(j + 1)
                                     /\ word[size(head(j))] = held[j].size
      BY <1>2, <1>3 DEF Linked
    <3>2. /\ word'[next(head(j))] = word[next(head(j))] /\ word'[prev(head(j))] = word[prev(head(j))]
          /\ word'[magic(head(j))] = word[magic(head(j))]
          /\ mem'[allocated(head(j))] = mem[allocated(head(j))]
          /\ word'[size(head(j))] = word[size(head(j))]
      BY <1>8
    <3> QED BY <3>1, <3>2
  <2>2. /\ held' = held /\ \A j : prev(j)' = prev(j) /\ magic(j)' = magic(j)
        /\ \A j : allocated(j)' = allocated(j) /\ next(j)' = next(j) /\ size(j)' = size(j)
    BY <1>1 DEF next, prev, magic, allocated, size
  <2>3. ASSUME NEW j \in DOMAIN held'
        PROVE  /\ word'[prev(head(j)')] = Before(j)' /\ word'[magic(head(j)')] = Magic
               /\ mem'[allocated(head(j)')] # 0
               /\ j + 1 \in DOMAIN held' => /\ word'[next(head(j)')] = head(j + 1)'
                                           /\ word'[size(head(j)')] = held'[j].size
    <3>1. j \in 1 .. Newest /\ (j + 1 \in DOMAIN held' => j + 1 \in 1 .. Newest)
      BY <1>3, <2>2
    <3>2. /\ head(j)' = head(j) /\ head(j + 1)' = head(j + 1) /\ Before(j)' = Before(j)
          /\ held'[j].size = held[j].size
      BY <1>4, <2>2
    <3> QED BY <2>1, <3>1, <3>2
  <2> QED BY <2>3 DEF Linked, next, prev, magic, allocated, size
<1>11. (Open => Open') /\ (Open' => Open) /\ (Closed <=> Closed')
  <2>1. held # <<>> => Newest \in 1 .. Newest
    BY <1>2, <1>3, HeadersAre
  <2>2. HeaderMapped(tail) =>
          /\ word'[next(tail)] = word[next(tail)] /\ word'[prev(tail)] = word[prev(tail)]
          /\ word'[magic(tail)] = word[magic(tail)] /\ mem'[allocated(tail)] = mem[allocated(tail)]
          /\ word'[size(tail)] = word[size(tail)]
    BY <1>7
  <2>3. Open <=> Open'
    BY <1>1, <1>4, <1>8, <2>1, <2>2 DEF Open
  <2>4. Closed <=> Closed'
    BY <1>1, <1>4, <1>8, <2>1 DEF Closed
  <2> QED BY <2>3, <2>4
<1>12. Accounted'
  BY <1>1, <1>2, <1>4, <1>11 DEF Accounted
<1>13. Searching'
  BY <1>1, <1>2, <1>4 DEF Searching
<1> QED BY <1>9, <1>10, <1>11, <1>12, <1>13 DEF Layout

\* Where a split puts the chunk it splits off, and when there is no room for it.
LEMMA SplitPlace ==
  ASSUME Types, Layout, pc = "split"
  PROVE  /\ Open /\ chunk = tail /\ first # nullptr /\ want \in Requests
         /\ want \in Nat /\ usedMemory \in Nat /\ word[size(tail)] \in Nat
         /\ word[size(tail)] > want /\ tail + 20 + word[size(tail)] = End
         /\ Temp = tail + 20 + want /\ Temp \in Nat /\ Temp < End
         /\ usedMemory + want + 20 < MemorySize /\ Counted = usedMemory + want + 20
<1>1. Blocked /\ Accounted /\ Searching
  BY DEF Layout
<1>2. Open /\ chunk = tail /\ first # nullptr /\ word[size(tail)] > want
  BY <1>1 DEF Searching
<1>3. want \in Requests /\ want \in Nat /\ usedMemory \in Nat
  BY LayoutAssumption, WrappedInU32 DEF Types
<1>4. word[size(tail)] \in Nat
  <2>1. size(tail) \in Words
    BY <1>2, HeaderIs DEF Open
  <2> QED BY <2>1, WordTyped, WrappedInU32 DEF Types
<1>5. tail \in Nat /\ Start <= tail /\ tail + 20 + word[size(tail)] = End
  BY <1>1, <1>2, HeadersAre, HeaderIs DEF Open, HeaderSize, Word
<1>6. PICK t \in Nat : t = tail + 20 + want /\ t < End
  BY <1>2, <1>3, <1>4, <1>5
<1>7. Temp = t
  <2>1. t \in U32
    BY <1>6, WordsAre DEF U32
  <2>2. Wrapped(t) = t
    BY <2>1, WrappedInU32
  <2>3. tail + HeaderSize + want = t
    BY <1>6 DEF HeaderSize, Word
  <2> QED BY <1>2, <2>2, <2>3 DEF Temp
<1>8. PICK u \in Nat : u = usedMemory + want + 20
  BY <1>3
<1>9. u < Range32
  BY <1>1, <1>2, <1>3, <1>4, <1>5, <1>8, LayoutAssumption, WordsAre DEF Accounted, End, HeaderSize, Word
<1>10. Wrapped(u) = u
  <2>1. u \in U32
    BY <1>9, WordsAre DEF U32
  <2> QED BY <2>1, WrappedInU32
<1>11. usedMemory + want + HeaderSize = u
  BY <1>8 DEF HeaderSize, Word
<1> QED BY <1>1, <1>2, <1>3, <1>4, <1>5, <1>6, <1>7, <1>8, <1>10, <1>11 DEF Accounted, Counted

\* The fault of a split: no room for the second header, or none behind it.
LEMMA SplitFaults ==
  ASSUME Types, Layout, Split, pc' = "fault"
  PROVE  Layout'
<1>1. pc = "split" /\ UNCHANGED <<mem, usedMemory, reply, held, want, chunk>>
      /\ ~(HeaderMapped(Temp) /\ Temp + HeaderSize \in Addresses
        /\ (Peek(mem, next(chunk)) # nullptr => prev(Peek(mem, next(chunk))) \in Words))
  BY DEF Split, Answer, RestNext, Temp
<1>2. /\ (Blocked => Blocked') /\ (Linked => Linked') /\ tail' = tail /\ word' = word
      /\ (Open <=> Open') /\ (Closed <=> Closed')
  BY <1>1, SameHeap
<1>3. Peek(mem, next(chunk)) = nullptr
  <2>1. word[next(chunk)] = nullptr /\ next(chunk) \in Words
    BY <1>1, SplitPlace, HeaderIs DEF Open
  <2> QED BY <2>1, Primed
<1>4. /\ Temp \in Nat /\ Temp = tail + 20 + want /\ want \in Nat /\ usedMemory \in Nat
      /\ tail \in Nat /\ Start <= tail /\ tail - Start <= usedMemory
  BY <1>1, SplitPlace, HeadersAre, HeaderIs DEF Layout, Accounted, Open
<1>5. ~(Temp + 20 < End)
  <2> SUFFICES ASSUME Temp + 20 < End PROVE FALSE
    OBVIOUS
  <2>1. HeaderMapped(Temp)
    BY <1>4, WordsAre, HeaderIs
  <2>2. Temp + HeaderSize \in Addresses
    BY <1>4, WordsAre DEF HeaderSize, Word
  <2> QED BY <1>1, <1>3, <2>1, <2>2
<1>6. usedMemory + want + 2 * HeaderSize >= MemorySize
  BY <1>4, <1>5, WordsAre DEF End, HeaderSize, Word
<1>7. Accounted'
  BY <1>1, <1>2 DEF Layout, Accounted
<1>8. Searching'
  BY <1>1, <1>6 DEF Searching
<1> QED BY <1>1, <1>2, <1>7, <1>8 DEF Layout

\* A split hands the last chunk's front out, and its rest is the last chunk.
LEMMA SplitKeepsLayout ==
  ASSUME Types, Layout, Split, pc' # "fault"
  PROVE  Layout'
<1>1. pc = "split" /\ Blocked /\ Linked /\ Accounted
  BY DEF Split, Layout
<1>2. /\ Open /\ chunk = tail /\ first # nullptr /\ want \in Requests
      /\ want \in Nat /\ usedMemory \in Nat /\ word[size(tail)] \in Nat
      /\ word[size(tail)] > want /\ tail + 20 + word[size(tail)] = End
      /\ Temp = tail + 20 + want /\ Temp \in Nat /\ Temp < End
      /\ usedMemory + want + 20 < MemorySize /\ Counted = usedMemory + want + 20
  BY <1>1, SplitPlace
<1>3. /\ Newest \in Nat /\ DOMAIN held = 1 .. Newest /\ (held = <<>> <=> Newest = 0)
      /\ tail \in Nat /\ Start <= tail /\ Start + 20 * Newest <= tail
  BY <1>1, <1>2, HeadersAre, HeaderIs DEF Open
<1>4. PICK n \in Nat : n = Newest
  BY <1>3
<1>5. PICK b : b = [base |-> tail + 20, size |-> want]
  OBVIOUS
<1>6. /\ mem' \in Memory
      /\ usedMemory' = Counted /\ held' = Append(held, b)
      /\ pc' = "idle" /\ reply' = tail + 20 /\ UNCHANGED <<want, chunk>>
      /\ HeaderMapped(Temp) /\ Temp + HeaderSize \in Addresses
  BY <1>2, <1>5, SplitWrites DEF HeaderSize, Word
<1>7. /\ \A x \in Addresses :
           x < Temp /\ (x < tail \/ (tail + 4 <= x /\ x < tail + 12) \/ tail + 20 <= x) => mem'[x] = mem[x]
      /\ word'[next(tail)] = Temp /\ word'[size(tail)] = want
      /\ mem'[allocated(tail)] = 1
      /\ word'[next(Temp)] = nullptr /\ word'[prev(Temp)] = tail /\ word'[magic(Temp)] = Magic
      /\ mem'[allocated(Temp)] = 0 /\ word'[size(Temp)] = Rest(tail)
  <2>1. word[next(chunk)] = nullptr /\ Temp >= chunk + HeaderSize
    BY <1>2, <1>3 DEF Open, HeaderSize, Word
  <2>2. /\ \A x \in Addresses :
             x < Temp /\ (x < chunk \/ (chunk + 4 <= x /\ x < chunk + 12) \/ chunk + 20 <= x) =>
               mem'[x] = mem[x]
        /\ word'[next(chunk)] = Temp /\ word'[size(chunk)] = want
        /\ mem'[allocated(chunk)] = 1
        /\ word'[next(Temp)] = nullptr /\ word'[prev(Temp)] = chunk /\ word'[magic(Temp)] = Magic
        /\ mem'[allocated(Temp)] = 0 /\ word'[size(Temp)] = Rest(chunk)
    BY <2>1, SplitWrites
  <2> QED BY <1>2, <2>2
<1>8. /\ Len(held') = n + 1 /\ DOMAIN held' = 1 .. n + 1
      /\ held'[n + 1] = b /\ \A i \in 1 .. n : held'[i] = held[i]
  <2>1. b \in Blocks32
    <3>1. tail + 20 \in U32
      BY <1>2, <1>3, WordsAre DEF U32
    <3> QED BY <1>2, <1>5, <3>1 DEF Blocks32
  <2>2. held \in Seq(Blocks32) /\ Len(held) = n
    BY <1>4 DEF Types, Newest
  <2> QED BY <1>6, <2>1, <2>2, AppendProperties, LenProperties
<1>9. /\ Newest' = n + 1 /\ tail' = Temp /\ head(n + 1)' = tail
      /\ \A i \in 1 .. n : head(i)' = head(i)
  <2>1. Newest' = n + 1
    BY <1>8 DEF Newest
  <2>2. held'[n + 1].base = tail + 20 /\ held'[n + 1].size = want
    BY <1>5, <1>8
  <2>3. held' # <<>>
    BY <1>8
  <2>4. tail' = Temp
    BY <1>2, <2>1, <2>2, <2>3 DEF tail
  <2>5. head(n + 1)' = tail
    BY <1>3, <2>2 DEF head, HeaderSize, Word
  <2>6. \A i \in 1 .. n : head(i)' = head(i)
    BY <1>8 DEF head
  <2> QED BY <2>1, <2>4, <2>5, <2>6
<1>10. /\ \A i \in 1 .. n : Before(i)' = Before(i)
       /\ Before(n + 1)' = Before(n + 1) /\ Before(n + 2)' = tail
  <2>1. \A i \in 2 .. n + 1 : i - 1 \in 1 .. n
    BY <1>4
  <2>2. \A i \in 1 .. n + 1 : Before(i)' = Before(i)
    <3> TAKE i \in 1 .. n + 1
    <3>1. CASE i = 1
      BY <3>1 DEF Before
    <3>2. CASE i # 1
      <4>1. i - 1 \in 1 .. n
        BY <3>2
      <4> QED BY <1>9, <3>2, <4>1 DEF Before
    <3> QED BY <3>1, <3>2
  <2>3. Before(n + 2)' = head(n + 1)'
    BY <1>4 DEF Before
  <2> QED BY <1>9, <2>2, <2>3
<1>11. Blocked'
  <2>1. ASSUME NEW i \in 1 .. n + 1
        PROVE  /\ held'[i].base \in Nat /\ held'[i].size \in Requests
               /\ held'[i].base >= Start + HeaderSize * i
               /\ held'[i].base + held'[i].size < End
    <3>1. CASE i \in 1 .. n
      BY <1>1, <1>3, <1>4, <1>8, <3>1 DEF Blocked
    <3>2. CASE i = n + 1
      <4>1. tail + 20 >= Start + 20 * (n + 1)
        BY <1>3, <1>4, WordsAre
      <4>2. held'[i].base = tail + 20 /\ held'[i].size = want
        BY <1>5, <1>8, <3>2
      <4>3. PICK t \in Nat, w \in Nat, e \in Nat, z \in Nat :
              /\ t = tail /\ w = want /\ e = End /\ z = Start
              /\ t + 20 + w < e /\ t + 20 >= z + 20 * (n + 1)
        <5>1. tail + 20 + want < End /\ End \in Nat /\ Start \in Nat
          BY <1>2, <1>3, HeaderIs, WordsAre
        <5> QED BY <1>2, <1>3, <4>1, <5>1
      <4>4. t + 20 \in Nat
        BY <4>3
      <4>5. HeaderSize = 20
        BY DEF HeaderSize, Word
      <4>6. held'[i].base = t + 20 /\ held'[i].size = w /\ w \in Requests
        BY <1>2, <4>2, <4>3
      <4>7. t + 20 >= Start + HeaderSize * i /\ t + 20 + w < End
        BY <3>2, <4>3, <4>5
      <4> QED BY <4>4, <4>6, <4>7
    <3> QED BY <3>1, <3>2
  <2>2. head(1)' = Start
    <3>1. CASE n = 0
      BY <1>3, <1>4, <1>9, <3>1 DEF tail
    <3>2. CASE n # 0
      BY <1>1, <1>3, <1>4, <1>9, <3>2 DEF Blocked
    <3> QED BY <3>1, <3>2
  <2>3. ASSUME NEW i \in 1 .. n + 1, NEW j \in 1 .. n + 1, i < j
        PROVE  held'[i].base + held'[i].size <= head(j)'
    <3>1. i \in 1 .. n
      BY <2>3
    <3>2. CASE j \in 1 .. n
      BY <1>1, <1>3, <1>4, <1>8, <1>9, <2>3, <3>1, <3>2 DEF Blocked
    <3>3. CASE j = n + 1
      <4>1. held[i].base + held[i].size <= tail
        <5>1. held[i].base = head(i) + 20 /\ head(i) + 20 + held[i].size <= tail
          BY <1>1, <1>4, <3>1, HeadersAre
        <5> QED BY <5>1
      <4> QED BY <1>8, <1>9, <3>1, <3>3, <4>1
    <3> QED BY <3>2, <3>3
  <2>4. ASSUME NEW i \in 1 .. n + 1, i + 1 \in 1 .. n + 1
        PROVE  head(i + 1)' = held'[i].base + held'[i].size
    <3>1. i \in 1 .. n
      BY <2>4
    <3>2. CASE i + 1 \in 1 .. n
      BY <1>1, <1>3, <1>4, <1>8, <1>9, <3>1, <3>2 DEF Blocked
    <3>3. CASE i + 1 = n + 1
      <4>1. i = n /\ tail = held[n].base + held[n].size
        BY <1>3, <1>4, <3>1, <3>3 DEF tail
      <4> QED BY <1>8, <1>9, <3>1, <3>3, <4>1
    <3> QED BY <2>4, <3>2, <3>3
  <2> QED BY <1>2, <1>8, <2>1, <2>2, <2>3, <2>4 DEF Blocked
<1>12. Linked'
  <2>1. ASSUME NEW i \in 1 .. n
        PROVE  /\ word'[prev(head(i))] = word[prev(head(i))] /\ word'[magic(head(i))] = word[magic(head(i))]
               /\ mem'[allocated(head(i))] = mem[allocated(head(i))]
               /\ word'[next(head(i))] = word[next(head(i))] /\ word'[size(head(i))] = word[size(head(i))]
    <3>1. PICK h \in Nat : h = head(i) /\ HeaderMapped(h) /\ h + 20 <= tail
      <4>1. head(i) \in Nat /\ HeaderMapped(head(i)) /\ held[i].size \in Nat
            /\ head(i) + 20 + held[i].size <= tail
        BY <1>1, <1>4, HeadersAre
      <4> QED BY <1>3, <4>1
    <3>2. \A x \in Addresses : h <= x /\ x < h + 20 => mem'[x] = mem[x]
      <4>1. PICK t \in Nat : t = tail /\ h + 20 <= t /\ t <= Temp
        BY <1>2, <1>3, <3>1
      <4>2. \A x \in Addresses : x < Temp /\ x < t => mem'[x] = mem[x]
        BY <1>7, <4>1
      <4>3. \A x \in Addresses : x \in Nat
        BY WordsAre
      <4> QED BY <1>2, <4>1, <4>2, <4>3
    <3>3. {next(h), prev(h), magic(h), size(h)} \subseteq Words
      BY <3>1, HeaderIs
    <3> QED BY <3>1, <3>2, <3>3, SameHeader, Primed
  <2>2. ASSUME NEW i \in 1 .. n
        PROVE  /\ word'[prev(head(i)')] = Before(i)' /\ word'[magic(head(i)')] = Magic
               /\ mem'[allocated(head(i)')] # 0
               /\ word'[next(head(i)')] = head(i + 1)' /\ word'[size(head(i)')] = held'[i].size
    <3>1. /\ word[prev(head(i))] = Before(i) /\ word[magic(head(i))] = Magic
          /\ mem[allocated(head(i))] # 0
          /\ i < n => word[next(head(i))] = head(i + 1) /\ word[size(head(i))] = held[i].size
      BY <1>4, ListIs
    <3>2. CASE i < n
      <4>1. i + 1 \in 1 .. n
        BY <3>2
      <4> QED BY <1>8, <1>9, <1>10, <2>1, <3>1, <3>2, <4>1
    <3>3. CASE i = n
      <4>1. word[next(head(n))] = tail /\ word[size(head(n))] = held[n].size
        BY <1>2, <1>3, <1>4, <3>3 DEF Open
      <4> QED BY <1>8, <1>9, <1>10, <2>1, <3>1, <3>3, <4>1
    <3> QED BY <3>2, <3>3
  <2>3. /\ word'[prev(head(n + 1)')] = Before(n + 1)' /\ word'[magic(head(n + 1)')] = Magic
        /\ mem'[allocated(head(n + 1)')] # 0
    <3>1. word'[prev(tail)] = word[prev(tail)] /\ word'[magic(tail)] = word[magic(tail)]
      <4>1. prev(tail) \in Words /\ magic(tail) \in Words /\ prev(tail) = tail + 4 /\ magic(tail) = tail + 8
        <5>1. HeaderMapped(tail) /\ tail \in Int
          BY <1>2, <1>3 DEF Open
        <5> QED BY <5>1, HeaderIs, FieldsOf
      <4>2. \A x \in Addresses : tail + 4 <= x /\ x < tail + 12 => mem'[x] = mem[x]
        <5>1. PICK t \in Nat : t = tail /\ t + 20 <= Temp /\ \A x \in Addresses : x \in Nat
          BY <1>2, <1>3, WordsAre
        <5>2. \A x \in Addresses :
                x < Temp /\ (x < t \/ (t + 4 <= x /\ x < t + 12) \/ t + 20 <= x) => mem'[x] = mem[x]
          BY <1>7, <5>1
        <5> QED BY <1>2, <5>1, <5>2
      <4>3. \A a \in {prev(tail), magic(tail)}, x \in Addresses : a <= x /\ x < a + 4 => mem'[x] = mem[x]
        BY <1>3, <4>1, <4>2, WordsAre
      <4> QED BY <4>1, <4>3, SameWord, Primed
    <3> QED BY <1>2, <1>4, <1>7, <1>9, <1>10, <3>1 DEF Open
  <2>4. ASSUME NEW i \in DOMAIN held'
        PROVE  /\ word'[prev(head(i)')] = Before(i)'
               /\ word'[magic(head(i)')] = Magic
               /\ mem'[allocated(head(i)')] # 0
               /\ i + 1 \in DOMAIN held' => /\ word'[next(head(i)')] = head(i + 1)'
                                            /\ word'[size(head(i)')] = held'[i].size
    <3>1. i \in 1 .. n \/ (i = n + 1 /\ i + 1 \notin DOMAIN held')
      BY <1>8
    <3> QED BY <2>2, <2>3, <3>1
  <2> QED BY <2>4 DEF Linked, prev, magic, allocated, next, size
<1>13. Open' /\ ~Closed'
  <2>1. Rest(tail) = End - Temp - 20
    <3>1. size(tail) \in Words
      BY <1>2, HeaderIs DEF Open
    <3>2. Temp + 20 < End
      BY <1>2, <1>6, WordsAre DEF HeaderSize, Word
    <3>3. PICK s \in Nat : s = word[size(tail)]
      BY <1>2
    <3>4. s - HeaderSize - want = End - Temp - 20 /\ End - Temp - 20 \in U32
      <4>1. PICK t \in Nat, e \in Nat, w \in Nat, x \in Nat :
              t = tail /\ e = Temp /\ w = want /\ x = End
        BY <1>2, <1>3, WordsAre
      <4>2. e = t + 20 + w /\ t + 20 + s = x /\ e + 20 < x /\ x < Range32 /\ Range32 \in Nat
        BY <1>2, <3>2, <3>3, <4>1, WordsAre
      <4>3. s - 20 - w = x - e - 20 /\ x - e - 20 \in 0 .. Range32 - 1
        BY <4>2
      <4> QED BY <4>1, <4>3 DEF HeaderSize, Word, U32
    <3>5. Wrapped(End - Temp - 20) = End - Temp - 20
      BY <3>4, WrappedInU32
    <3> QED BY <3>1, <3>3, <3>4, <3>5, Primed DEF Rest
  <2>2. word'[next(tail)] = tail' /\ word'[size(tail)] = held'[n + 1].size /\ tail' # nullptr
    BY <1>2, <1>3, <1>5, <1>7, <1>8, <1>9, WordsAre DEF nullptr
  <2>3. Temp + HeaderSize + word'[size(Temp)] = End
    BY <1>2, <1>7, <2>1, WordsAre DEF HeaderSize, Word
  <2>4. Before(Newest + 1)' = tail
    <3>1. (n + 1) + 1 = n + 2
      BY <1>4
    <3> QED BY <1>9, <1>10, <3>1 DEF Before
  <2>5. Open'
    <3>1. HeaderMapped(tail)'
      BY <1>6, <1>9 DEF HeaderMapped, size
    <3> QED BY <1>7, <1>9, <2>2, <2>3, <2>4, <3>1 DEF Open, next, prev, magic, allocated, size
  <2>6. ~Closed'
    BY <1>9, <2>2 DEF Closed, next
  <2> QED BY <2>5, <2>6
<1>14. Accounted'
  BY <1>1, <1>2, <1>3, <1>6, <1>9, <1>13, WordsAre DEF Accounted
<1>15. Searching'
  <2>1. reply' # nullptr
    BY <1>3, <1>6 DEF nullptr
  <2> QED BY <1>6, <2>1 DEF Searching
<1> QED BY <1>11, <1>12, <1>13, <1>14, <1>15 DEF Layout

\* A sum of sizes that fits the heap does not wrap.
LEMMA SumFits ==
  ASSUME NEW a \in Nat, NEW b \in Nat, a + b + 20 <= End
  PROVE  Wrapped(a + b + HeaderSize) = a + b + 20
<1>1. PICK u \in Nat : u = a + b + 20
  OBVIOUS
<1>2. u \in U32
  BY <1>1, WordsAre DEF U32
<1>3. Wrapped(u) = u
  BY <1>2, WrappedInU32
<1>4. a + b + HeaderSize = u
  BY <1>1 DEF HeaderSize, Word
<1> QED BY <1>1, <1>3, <1>4

\* What giving the newest block back writes.  The first block's chunk becomes the
\* one free chunk; any other goes up into its predecessor, which stays allocated
\* and reaches to the heap's end.
LEMMA FreeWrites ==
  ASSUME Types, Layout, held # <<>>, Free(Newest), NEW n, n = Newest
  PROVE  /\ UNCHANGED <<usedMemory, pc, want, chunk>> /\ pc = "idle" /\ reply' = NoAnswer
         /\ held' = RemoveAt(held, n)
         /\ n = 1 =>
              /\ word'[next(Start)] = nullptr /\ word'[prev(Start)] = nullptr /\ word'[magic(Start)] = Magic
              /\ mem'[allocated(Start)] = 0
              /\ Start + HeaderSize + word'[size(Start)] = End
         /\ n > 1 =>
              /\ \A p \in Nat, x \in Addresses :
                   p = head(n - 1) /\ x < head(n) /\ (x < p \/ (p + 4 <= x /\ x < p + 16) \/ p + 20 <= x) =>
                     mem'[x] = mem[x]
              /\ word'[next(head(n - 1))] = nullptr
              /\ held[n - 1].base + word'[size(head(n - 1))] = End
<1>1. Blocked /\ Types
  BY DEF Layout
<1>2. n \in Nat /\ n >= 1 /\ n \in 1 .. Newest /\ DOMAIN held = 1 .. n /\ Newest = n
  BY <1>1, HeadersAre
<1> DEFINE c == head(n)
           released == Flagged(mem, c, 0)
           up == MergesUp(released, c)
           k == IF up THEN Peek(released, prev(c)) ELSE c
           merged == IF up THEN MergedUp(released, c) ELSE released
<1>3. /\ pc = "idle" /\ reply' = NoAnswer /\ held' = RemoveAt(held, n)
      /\ UNCHANGED <<usedMemory, want, chunk>>
      /\ (\A t \in Touched(released, c) \cup Touched(merged, k) : HeaderMapped(t)) =>
            /\ mem' = IF MergesDown(merged, k) THEN MergedDown(merged, k) ELSE merged
            /\ pc' = pc
  BY <1>2 DEF Free, head
<1>4. /\ c \in Nat /\ HeaderMapped(c) /\ Start <= c /\ c + 20 <= End /\ mem \in Memory
      /\ held[n].base = c + 20 /\ held[n].size \in Nat /\ tail = c + 20 + held[n].size /\ tail \in Nat
      /\ word \in [Words -> U32] /\ \A x \in Addresses : x \in Nat
  <2>1. /\ c \in Nat /\ HeaderMapped(c) /\ Start <= c /\ held[n].base = c + 20 /\ held[n].size \in Nat
        /\ tail \in Nat
    BY <1>1, <1>2, HeadersAre
  <2>2. tail = held[n].base + held[n].size
    BY <1>2 DEF tail
  <2> QED BY <2>1, <2>2, HeaderIs, WordTyped, WordsAre DEF Types
<1>5. PICK s \in Nat : s = word[size(c)]
  <2>1. size(c) \in Words
    BY <1>4, HeaderIs
  <2> QED BY <1>4, <2>1, WrappedInU32
<1>6. PICK nx : nx = word[next(c)]
  OBVIOUS
<1>7. \/ Open /\ nx = tail /\ c + 20 + s = tail
      \/ Closed /\ nx = nullptr /\ c + 20 + s = End
  <2>1. first # nullptr
    BY <1>2, ListIs
  <2>2. CASE Open
    BY <1>2, <1>4, <1>5, <1>6, <2>2 DEF Open
  <2>3. CASE Closed
    BY <1>2, <1>4, <1>5, <1>6, <2>3 DEF Closed
  <2> QED BY <2>1, <2>2, <2>3, ListIs
<1>8. /\ released \in Memory /\ released[allocated(c)] = 0
      /\ \A x \in Addresses : x # allocated(c) => released[x] = mem[x]
      /\ \A y \in Words : y + 4 <= allocated(c) \/ allocated(c) < y => Peek(released, y) = Peek(mem, y)
  <2>1. allocated(c) \in Addresses /\ c \in Int /\ 0 \in {0, 1}
    BY <1>4, HeaderIs
  <2> QED BY <1>4, <2>1, FlagSet
<1> HIDE DEF released
\* What the headers around the block say, before and after the flag is reset.
<1>9. /\ {next(c), prev(c), magic(c), allocated(c), size(c)} \subseteq Words
      /\ next(c) = c /\ prev(c) = c + 4 /\ magic(c) = c + 8 /\ allocated(c) = c + 12 /\ size(c) = c + 16
      /\ Peek(released, next(c)) = nx /\ Peek(released, prev(c)) = Before(n)
      /\ Peek(released, magic(c)) = Magic /\ Peek(released, size(c)) = s
  <2>1. /\ next(c) \in Words /\ prev(c) \in Words /\ magic(c) \in Words
        /\ allocated(c) \in Words /\ size(c) \in Words
    BY <1>4, HeaderIs
  <2>2. next(c) = c /\ prev(c) = c + 4 /\ magic(c) = c + 8 /\ allocated(c) = c + 12 /\ size(c) = c + 16
    <3>1. c \in Int
      BY <1>4
    <3> HIDE DEF c
    <3> QED BY <3>1, FieldsOf
  <2>3. word[prev(c)] = Before(n) /\ word[magic(c)] = Magic
    BY <1>2, ListIs
  <2>4. /\ Peek(released, next(c)) = word[next(c)] /\ Peek(released, prev(c)) = word[prev(c)]
        /\ Peek(released, magic(c)) = word[magic(c)] /\ Peek(released, size(c)) = word[size(c)]
    <3>1. /\ next(c) + 4 <= allocated(c) /\ prev(c) + 4 <= allocated(c) /\ magic(c) + 4 <= allocated(c)
          /\ allocated(c) < size(c)
      BY <1>4, <2>2
    <3> HIDE DEF c
    <3> QED BY <1>8, <2>1, <3>1, Primed
  <2> QED BY <1>5, <1>6, <2>1, <2>2, <2>3, <2>4
<1>10. ASSUME Open
       PROVE  /\ HeaderMapped(tail) /\ tail # nullptr /\ c + 20 <= tail
              /\ {next(tail), prev(tail), size(tail)} \subseteq Words /\ allocated(tail) \in Addresses
              /\ Peek(released, next(tail)) = nullptr /\ released[allocated(tail)] = 0
              /\ Peek(released, size(tail)) = word[size(tail)] /\ word[size(tail)] \in Nat
              /\ tail + 20 + word[size(tail)] = End
  <2>1. /\ HeaderMapped(tail) /\ tail # nullptr /\ {next(tail), prev(tail), size(tail)} \subseteq Words
        /\ allocated(tail) \in Addresses
    BY <1>10, ListIs, HeaderIs DEF Open
  <2>2. c + 20 <= tail
    BY <1>4
  <2>3. /\ Peek(released, next(tail)) = Peek(mem, next(tail))
        /\ Peek(released, size(tail)) = Peek(mem, size(tail))
        /\ released[allocated(tail)] = mem[allocated(tail)]
    <3>1. \A x \in Addresses : tail <= x /\ x < tail + 20 => released[x] = mem[x]
      BY <1>4, <1>8, <1>9, <2>2
    <3> QED BY <2>1, <3>1, SameHeader
  <2>4. word[size(tail)] \in Nat
    BY <1>4, <2>1, WrappedInU32
  <2> QED BY <1>10, <2>1, <2>2, <2>3, <2>4, Primed DEF Open, HeaderSize, Word
<1>11. nullptr \notin Words /\ Peek(released, next(nullptr)) = nullptr
  <2>1. nullptr \notin Words /\ next(nullptr) \notin Words
    BY WordsAre DEF next, nullptr
  <2> QED BY <2>1 DEF Peek, nullptr
<1>12. CASE n = 1
  <2>1. c = Start /\ Before(n) = nullptr
    BY <1>2, <1>12, ListIs DEF Before
  <2>2. Peek(released, next(c)) = nx /\ Peek(released, prev(c)) = nullptr
    BY <1>9, <2>1
  <2>3. ~up /\ merged = released /\ k = c
    BY <2>2 DEF MergesUp
  <2> HIDE DEF up, merged, k
  <2>4. CASE Open
    <3>1. nx = tail /\ c + 20 + s = tail
      BY <1>7, <2>4, ListIs
    <3>2. Touched(released, c) \subseteq {c, tail}
      BY <1>10, <2>2, <2>4, <3>1 DEF Touched
    <3>3. /\ mem' = IF MergesDown(released, c) THEN MergedDown(released, c) ELSE released
          /\ pc' = pc
      BY <1>3, <1>4, <1>10, <2>3, <2>4, <3>2
    <3>4. MergesDown(released, c)
      BY <1>10, <2>2, <2>4, <3>1 DEF MergesDown, IsAllocated
    <3>5. /\ Peek(mem', next(c)) = nullptr
          /\ Peek(mem', size(c)) = Wrapped(s + word[size(tail)] + HeaderSize)
          /\ \A x \in Addresses : x < c \/ (c + 4 <= x /\ x < c + 16) \/ c + 20 <= x => mem'[x] = released[x]
      <4>1. mem' = MergedDown(released, c) /\ tail = Peek(released, next(c)) /\ Peek(released, next(tail)) = nullptr
        BY <1>10, <2>2, <2>4, <3>1, <3>3, <3>4
      <4>2. Peek(released, size(c)) = s /\ Peek(released, size(tail)) = word[size(tail)]
        BY <1>9, <1>10, <2>4
      <4> HIDE DEF c
      <4> QED BY <1>4, <1>8, <4>1, <4>2, MergedDownIs
    <3>6. word'[size(c)] = s + word[size(tail)] + 20
      <4>1. PICK y \in Nat, t \in Nat :
              y = word[size(tail)] /\ t = tail /\ t + 20 + y = End /\ c + 20 + s = t
        BY <1>4, <1>10, <2>4, <3>1
      <4>2. s + y + 20 <= End
        <5>1. PICK x \in Nat, e \in Nat : x = c /\ e = End
          BY <1>4, WordsAre
        <5>2. s + y + 20 <= e
          BY <4>1, <5>1, SMTT(20)
        <5> QED BY <5>1, <5>2
      <4>3. Wrapped(s + y + HeaderSize) = s + y + 20
        BY <4>2, SumFits
      <4>4. word'[size(c)] = Peek(mem', size(c))
        BY <1>9, Primed
      <4> QED BY <3>5, <4>1, <4>3, <4>4
    <3>7. /\ word'[next(c)] = nullptr /\ word'[prev(c)] = nullptr /\ word'[magic(c)] = Magic
          /\ mem'[allocated(c)] = 0
      <4>1. \A x \in Addresses : c + 4 <= x /\ x < c + 16 => mem'[x] = released[x]
        BY <3>5
      <4>2. Peek(mem', prev(c)) = Peek(released, prev(c)) /\ Peek(mem', magic(c)) = Peek(released, magic(c))
        <5>1. \A a \in {prev(c), magic(c)}, x \in Addresses : a <= x /\ x < a + 4 => mem'[x] = released[x]
          BY <1>4, <1>9, <4>1
        <5> QED BY <1>9, <5>1, SameWord
      <4>3. mem'[allocated(c)] = released[allocated(c)]
        <5>1. allocated(c) \in Addresses /\ c + 4 <= allocated(c) /\ allocated(c) < c + 16
          BY <1>4, <1>9, HeaderIs
        <5> QED BY <4>1, <5>1
      <4>4. /\ word'[next(c)] = Peek(mem', next(c)) /\ word'[prev(c)] = Peek(mem', prev(c))
            /\ word'[magic(c)] = Peek(mem', magic(c))
        BY <1>9, Primed
      <4> QED BY <1>8, <1>9, <2>2, <3>5, <4>2, <4>3, <4>4
    <3>8. c + HeaderSize + word'[size(c)] = End
      BY <1>4, <1>10, <2>4, <3>1, <3>6, SMTT(20) DEF HeaderSize, Word
    <3> QED BY <1>3, <1>12, <2>1, <3>3, <3>7, <3>8
  <2>5. CASE Closed
    <3>1. nx = nullptr /\ c + 20 + s = End
      BY <1>7, <2>5, ListIs
    <3>2. Touched(released, c) \subseteq {c}
      BY <1>11, <2>2, <3>1 DEF Touched
    <3>3. ~MergesDown(released, c)
      BY <2>2, <3>1 DEF MergesDown
    <3>4. mem' = released /\ pc' = pc
      BY <1>3, <1>4, <2>3, <3>2, <3>3
    <3>5. /\ word'[next(c)] = nullptr /\ word'[prev(c)] = nullptr /\ word'[magic(c)] = Magic /\ word'[size(c)] = s
      BY <1>9, <2>2, <3>1, <3>4, Primed
    <3>6. c + HeaderSize + word'[size(c)] = End
      BY <3>1, <3>5 DEF HeaderSize, Word
    <3> QED BY <1>3, <1>8, <1>12, <2>1, <3>4, <3>5, <3>6
  <2> QED BY <1>7, <2>4, <2>5
<1>13. CASE n > 1
  <2>1. PICK p \in Nat : /\ p = head(n - 1) /\ HeaderMapped(p) /\ c = p + 20 + held[n - 1].size
                         /\ held[n - 1].size \in Nat /\ held[n - 1].base = p + 20 /\ p # nullptr
                         /\ word[size(p)] = held[n - 1].size /\ word[prev(p)] = Before(n - 1)
                         /\ mem[allocated(p)] # 0
    <3>1. n - 1 \in 1 .. Newest /\ n - 1 < Newest /\ n \in 2 .. Newest
      BY <1>2, <1>13
    <3>2. /\ head(n - 1) \in Nat /\ HeaderMapped(head(n - 1)) /\ held[n - 1].size \in Nat
          /\ held[n - 1].base = head(n - 1) + 20 /\ head(n - 1) # nullptr
      BY <1>1, <3>1, HeadersAre, WordsAre, SMTT(20) DEF nullptr
    <3> QED BY <3>1, <3>2, ListIs
  <2>2. /\ {next(p), prev(p), size(p)} \subseteq Words /\ allocated(p) \in Addresses /\ p + 20 <= c
        /\ next(p) = p /\ prev(p) = p + 4 /\ allocated(p) = p + 12 /\ size(p) = p + 16
    <3>1. p + 20 <= c
      BY <1>4, <2>1
    <3>2. {next(p), prev(p), size(p)} \subseteq Words /\ allocated(p) \in Addresses
      BY <2>1, HeaderIs
    <3> QED BY <3>1, <3>2, FieldsOf
  <2>3. Before(n) = p
    BY <1>2, <1>13, <2>1 DEF Before
  <2>4. Peek(released, prev(c)) = p /\ Peek(released, next(c)) = nx /\ Peek(released, size(c)) = s
    BY <1>9, <2>3
  <2>5. \A x \in Addresses : x < c => released[x] = mem[x]
    BY <1>4, <1>8, <1>9
  <2>6. /\ Peek(released, size(p)) = held[n - 1].size /\ Peek(released, prev(p)) = Before(n - 1)
        /\ IsAllocated(released, p)
    <3>1. \A x \in Addresses : p <= x /\ x < p + 20 => released[x] = mem[x]
      BY <1>4, <2>2, <2>5
    <3>2. /\ Peek(released, size(p)) = Peek(mem, size(p)) /\ Peek(released, prev(p)) = Peek(mem, prev(p))
          /\ released[allocated(p)] = mem[allocated(p)]
      <4>1. HeaderMapped(p)
        BY <2>1
      <4> HIDE DEF c
      <4> QED BY ONLY <3>1, <4>1, SameHeader
    <3> QED BY <2>1, <2>2, <3>2, Primed DEF IsAllocated
  <2>7. up /\ merged = MergedUp(released, c) /\ k = p
    BY <2>1, <2>4, <2>6 DEF MergesUp
  <2> HIDE DEF up, merged, k
  <2>8. nx # nullptr => nx = tail /\ Open /\ c + 20 <= tail /\ tail \in Nat
    BY <1>4, <1>7
  <2>9. /\ merged \in Memory /\ Peek(merged, next(p)) = nx
        /\ Peek(merged, size(p)) = Wrapped(held[n - 1].size + s + HeaderSize)
        /\ \A x \in Addresses : \/ x < p
                                \/ p + 4 <= x /\ x < p + 16
                                \/ p + 20 <= x /\ (nx # nullptr => x < nx + 4 \/ nx + 8 <= x)
                                => merged[x] = released[x]
    <3>1. nx = nullptr \/ (HeaderMapped(nx) /\ p + 20 <= nx)
      BY <1>4, <1>10, <2>1, <2>2, <2>8
    <3>2. c \in Int /\ merged = MergedUp(released, c) /\ p = Peek(released, prev(c)) /\ nx = Peek(released, next(c))
      BY <1>4, <2>4, <2>7
    <3>3. merged \in Memory
      BY <1>8, <3>2, MergedTyped
    <3> HIDE DEF c
    <3> QED BY <1>8, <2>1, <2>4, <2>6, <3>1, <3>2, <3>3, MergedUpIs
  <2>10. ASSUME NEW x \in Addresses, x < c, x < p \/ (p + 4 <= x /\ x < p + 16) \/ p + 20 <= x
         PROVE  merged[x] = mem[x]
    <3>1. nx # nullptr => x < nx + 4
      BY <1>4, <2>8, <2>10
    <3>2. merged[x] = released[x]
      BY <2>9, <2>10, <3>1
    <3> QED BY <2>5, <2>10, <3>2
  <2>11. Peek(merged, prev(p)) = Before(n - 1)
    <3>1. \A x \in Addresses : prev(p) <= x /\ x < prev(p) + 4 => merged[x] = released[x]
      BY <1>4, <2>1, <2>2, <2>9
    <3> QED BY <2>2, <2>6, <3>1, SameWord
  <2>12. Wrapped(held[n - 1].size + s + HeaderSize) = held[n - 1].size + s + 20
    <3>1. PICK q \in Nat : q = held[n - 1].size /\ c = p + 20 + q
      BY <2>1
    <3>2. c + 20 + s <= End
      <4>1. tail <= End
        BY <1>1, HeadersAre
      <4> QED BY <1>4, <1>7, <4>1, WordsAre
    <3>3. q + s + 20 <= End
      <4>1. PICK x \in Nat, e \in Nat : e = End /\ x = p + 20 + q /\ x + 20 + s <= e
        BY <1>4, <3>1, <3>2, WordsAre
      <4>2. q + s + 20 <= e
        BY <4>1
      <4> QED BY <4>1, <4>2
    <3> QED BY <3>1, <3>3, SumFits
  <2>13. Before(n - 1) = nullptr \/ HeaderMapped(Before(n - 1))
    <3>1. n - 1 = 1 \/ (n - 1) - 1 \in 1 .. Newest
      BY <1>2, <1>13
    <3> QED BY <1>1, <3>1, HeadersAre DEF Before
  <2>14. CASE Open
    <3>1. nx = tail /\ c + 20 + s = tail /\ nx # nullptr
      BY <1>7, <1>10, <2>14, ListIs
    <3>2. /\ Peek(merged, next(tail)) = nullptr /\ Peek(merged, size(tail)) = word[size(tail)]
          /\ merged[allocated(tail)] = 0
      <4>1. PICK t \in Nat : t = tail /\ p + 20 <= t
        BY <1>4, <2>2, <2>8, <3>1
      <4>2. next(t) = t /\ allocated(t) = t + 12 /\ size(t) = t + 16
        BY FieldsOf
      <4>3. \A x \in Addresses : (t <= x /\ x < t + 4) \/ (t + 8 <= x /\ x < t + 20) => merged[x] = released[x]
        <5>1. \A x \in Addresses : p + 20 <= x /\ (x < t + 4 \/ t + 8 <= x) => merged[x] = released[x]
          BY <2>9, <3>1, <4>1
        <5> QED BY <1>4, <4>1, <5>1
      <4>4. \A a \in {next(t), size(t)}, x \in Addresses : a <= x /\ x < a + 4 => merged[x] = released[x]
        BY <1>4, <4>2, <4>3
      <4>5. Peek(merged, next(t)) = Peek(released, next(t)) /\ Peek(merged, size(t)) = Peek(released, size(t))
        BY <1>10, <2>14, <4>1, <4>4, SameWord
      <4>6. merged[allocated(t)] = released[allocated(t)]
        <5>1. allocated(t) \in Addresses
          BY <1>10, <2>14, <4>1
        <5> QED BY <4>2, <4>3, <5>1
      <4> QED BY <1>10, <2>14, <4>1, <4>5, <4>6
    <3>3. Touched(released, c) \subseteq {c, p, tail}
      BY <1>10, <2>4, <2>14, <3>1 DEF Touched
    <3>4. Touched(merged, p) \subseteq {p, Before(n - 1), tail} \ {nullptr}
      BY <2>1, <2>9, <2>11, <3>1, <3>2 DEF Touched
    <3>5. /\ mem' = IF MergesDown(merged, p) THEN MergedDown(merged, p) ELSE merged
          /\ pc' = pc
      <4>1. \A t \in Touched(released, c) \cup Touched(merged, p) : HeaderMapped(t)
        BY <1>4, <1>10, <2>1, <2>13, <2>14, <3>3, <3>4, ZenonT(40)
      <4> QED BY <1>3, <2>7, <4>1
    <3>6. MergesDown(merged, p)
      BY <1>10, <2>9, <2>14, <3>1, <3>2 DEF MergesDown, IsAllocated
    <3>7. /\ Peek(mem', next(p)) = nullptr
          /\ Peek(mem', size(p)) = Wrapped(Peek(merged, size(p)) + word[size(tail)] + HeaderSize)
          /\ \A x \in Addresses : x < p \/ (p + 4 <= x /\ x < p + 16) \/ p + 20 <= x => mem'[x] = merged[x]
      <4>1. mem' = MergedDown(merged, p) /\ tail = Peek(merged, next(p)) /\ Peek(merged, next(tail)) = nullptr
        BY <2>9, <3>1, <3>2, <3>5, <3>6
      <4> QED BY <2>1, <2>9, <3>2, <4>1, MergedDownIs
    <3>8. PICK y \in Nat, q \in Nat, t \in Nat, x \in Nat, e \in Nat :
            /\ y = word[size(tail)] /\ q = held[n - 1].size /\ t = tail /\ x = c /\ e = End
            /\ t + 20 + y = e /\ x + 20 + s = t /\ x = p + 20 + q
      <4>1. PICK y \in Nat, t \in Nat :
              y = word[size(tail)] /\ t = tail /\ t + 20 + y = End /\ c + 20 + s = t
        BY <1>4, <1>10, <2>14, <3>1
      <4>2. PICK q \in Nat : q = held[n - 1].size /\ c = p + 20 + q
        BY <2>1
      <4>3. PICK x \in Nat, e \in Nat : x = c /\ e = End
        BY <1>4, WordsAre
      <4> HIDE DEF c
      <4>4. t + 20 + y = e /\ x + 20 + s = t /\ x = p + 20 + q
        BY <4>1, <4>2, <4>3
      <4> QED BY <4>1, <4>2, <4>3, <4>4
    <3>9. PICK z \in Nat : z = q + s + 20 /\ z + y + 20 <= e /\ p + 20 + (z + y + 20) = e
      <4>1. PICK z \in Nat : z = q + s + 20
        OBVIOUS
      <4>2. z + y + 20 <= e /\ p + 20 + (z + y + 20) = e
        <5>1. x = p + 20 + q /\ t = x + 20 + s /\ e = t + 20 + y
          BY <3>8
        <5>2. t = p + 20 + z
          BY <4>1, <5>1
        <5> QED BY <5>1, <5>2
      <4> QED BY <4>1, <4>2
    <3>10. word'[size(p)] = z + y + 20
      <4>1. Wrapped(z + y + HeaderSize) = z + y + 20
        <5>1. z \in Nat /\ y \in Nat /\ z + y + 20 <= End
          BY <3>8, <3>9
        <5> QED BY ONLY <5>1, SumFits
      <4>2. Peek(merged, size(p)) = z
        BY <2>9, <2>12, <3>8, <3>9
      <4>3. word'[size(p)] = Peek(mem', size(p))
        BY <2>2, Primed
      <4> QED BY <3>7, <3>8, <4>1, <4>2, <4>3
    <3>11. word'[next(p)] = nullptr /\ held[n - 1].base + word'[size(p)] = End
      <4>1. word'[next(p)] = Peek(mem', next(p))
        BY <2>2, Primed
      <4>2. held[n - 1].base + word'[size(p)] = p + 20 + (z + y + 20)
        BY <2>1, <3>10
      <4> QED BY <3>7, <3>8, <3>9, <4>1, <4>2
    <3>12. ASSUME NEW a \in Addresses, a < c, a < p \/ (p + 4 <= a /\ a < p + 16) \/ p + 20 <= a
           PROVE  mem'[a] = mem[a]
      BY <2>10, <3>7, <3>12
    <3> QED BY <1>3, <1>13, <2>1, <3>5, <3>11, <3>12
  <2>15. CASE Closed
    <3>1. nx = nullptr /\ c + 20 + s = End
      BY <1>7, <2>15, ListIs
    <3>2. Peek(merged, next(nullptr)) = nullptr
      <4>1. next(nullptr) \notin Words
        BY WordsAre DEF next, nullptr
      <4> QED BY <4>1 DEF Peek, nullptr
    <3>3. Touched(released, c) \subseteq {c, p} /\ Touched(merged, p) \subseteq {p, Before(n - 1)} \ {nullptr}
      BY <1>11, <2>1, <2>4, <2>9, <2>11, <3>1, <3>2 DEF Touched
    <3>4. ~MergesDown(merged, p)
      BY <2>9, <3>1 DEF MergesDown
    <3>5. mem' = merged /\ pc' = pc
      <4>1. \A t \in Touched(released, c) \cup Touched(merged, p) : HeaderMapped(t)
        BY <1>4, <2>1, <2>13, <3>3
      <4> QED BY <1>3, <2>7, <3>4, <4>1
    <3>6. word'[next(p)] = nullptr /\ word'[size(p)] = held[n - 1].size + s + 20
      BY <2>2, <2>9, <2>12, <3>1, <3>5, Primed
    <3>7. held[n - 1].base + word'[size(p)] = End
      <4>1. PICK q \in Nat, x \in Nat : q = held[n - 1].size /\ x = c /\ x = p + 20 + q /\ x + 20 + s = End
        BY <1>4, <2>1, <3>1
      <4>2. (p + 20) + (q + s + 20) = x + 20 + s
        BY <4>1
      <4> QED BY <2>1, <3>6, <4>1, <4>2
    <3>8. \A x \in Addresses : x < c /\ (x < p \/ (p + 4 <= x /\ x < p + 16) \/ p + 20 <= x) => mem'[x] = mem[x]
      BY <2>10, <3>5
    <3>9. UNCHANGED <<usedMemory, pc, want, chunk>> /\ pc = "idle" /\ reply' = NoAnswer /\ held' = RemoveAt(held, n)
      BY <1>3, <3>5
    <3>10. \A y \in Nat, x \in Addresses :
             y = head(n - 1) /\ x < c /\ (x < y \/ (y + 4 <= x /\ x < y + 16) \/ y + 20 <= x) => mem'[x] = mem[x]
      <4>1. \A y \in Nat : y = head(n - 1) => y = p
        BY <2>1
      <4> HIDE DEF c
      <4> QED BY ONLY <3>8, <4>1
    <3>11. word'[next(head(n - 1))] = nullptr /\ held[n - 1].base + word'[size(head(n - 1))] = End
      BY <2>1, <3>6, <3>7
    <3>12. n # 1
      BY <1>13
    <3> HIDE DEF merged, k, up
    <3> QED BY ONLY <3>9, <3>10, <3>11, <3>12
  <2> QED BY <1>7, <2>14, <2>15
<1> QED BY <1>2, <1>12, <1>13

\* Without the newest block the list is one chunk shorter.
LEMMA FreeKeepsLayout ==
  ASSUME Types, Layout, FreeOrder = "lifo", NEW i \in DOMAIN held, Free(i)
  PROVE  Layout' /\ pc' # "fault"
<1>1. Blocked /\ Linked /\ Accounted
  BY DEF Layout
<1>2. /\ i = Newest /\ Newest \in Nat /\ DOMAIN held = 1 .. Newest /\ Newest >= 1 /\ held # <<>> /\ Free(Newest)
  <2>1. i = Newest
    BY DEF Free, Newest
  <2> QED BY <1>1, <2>1, HeadersAre
<1>3. PICK n \in Nat : n = Newest /\ n >= 1
  BY <1>2
<1>4. /\ UNCHANGED <<usedMemory, pc, want, chunk>> /\ pc = "idle" /\ reply' = NoAnswer
      /\ held' = RemoveAt(held, n)
      /\ n = 1 =>
           /\ word'[next(Start)] = nullptr /\ word'[prev(Start)] = nullptr /\ word'[magic(Start)] = Magic
           /\ mem'[allocated(Start)] = 0
           /\ Start + HeaderSize + word'[size(Start)] = End
      /\ n > 1 =>
           /\ \A p \in Nat, x \in Addresses :
                p = head(n - 1) /\ x < head(n) /\ (x < p \/ (p + 4 <= x /\ x < p + 16) \/ p + 20 <= x) =>
                  mem'[x] = mem[x]
           /\ word'[next(head(n - 1))] = nullptr
           /\ held[n - 1].base + word'[size(head(n - 1))] = End
  BY <1>2, <1>3, FreeWrites
<1>5. /\ held' \in Seq(Blocks32) /\ Len(held') = n - 1 /\ DOMAIN held' = 1 .. n - 1
      /\ \A j \in 1 .. n - 1 : held'[j] = held[j]
  <2>1. held \in Seq(Blocks32) /\ Len(held) = n /\ n \in DOMAIN held
    BY <1>2, <1>3 DEF Types, Newest
  <2>2. /\ held' \in Seq(Blocks32) /\ Len(held') = n - 1
        /\ \A j \in 1 .. n - 1 : held'[j] = IF j < n THEN held[j] ELSE held[j + 1]
    BY <1>4, <2>1, Removed
  <2>3. DOMAIN held' = 1 .. n - 1
    BY <2>2, LenProperties
  <2> QED BY <2>2, <2>3
<1>6. /\ Newest' = n - 1 /\ \A j \in 1 .. n - 1 : head(j)' = head(j)
      /\ \A j \in 1 .. n - 1 : Before(j)' = Before(j)
  <2>1. Newest' = n - 1 /\ \A j \in 1 .. n - 1 : head(j)' = head(j)
    BY <1>5 DEF Newest, head
  <2>2. ASSUME NEW j \in 1 .. n - 1 PROVE Before(j)' = Before(j)
    <3>1. j = 1 \/ j - 1 \in 1 .. n - 1
      BY <1>3
    <3> QED BY <2>1, <3>1 DEF Before
  <2> QED BY <2>1, <2>2
<1>7. first # nullptr /\ first = Start
  BY <1>2, ListIs
<1>8. Searching'
  BY <1>4 DEF Searching, NoAnswer, nullptr
<1>9. CASE n = 1
  <2>1. held' = <<>> /\ tail' = Start /\ DOMAIN held' = {}
    <3>1. held' = <<>>
      BY <1>5, <1>9, EmptySeq
    <3> QED BY <1>5, <1>9, <3>1 DEF tail
  <2>2. Blocked' /\ Linked' /\ ~Closed'
    BY <1>7, <2>1 DEF Blocked, Linked, Closed
  <2>3. HeaderMapped(Start)
    BY <1>2, <1>3, <1>9, <1>1, HeadersAre, ListIs
  <2>4. HeaderMapped(tail)'
    BY <2>1, <2>3 DEF HeaderMapped, size
  <2>5. Before(Newest + 1)' = nullptr
    BY <1>6, <1>9 DEF Before
  <2>6. Open'
    BY <1>4, <1>9, <2>1, <2>4, <2>5 DEF Open, next, prev, magic, allocated, size
  <2>7. Accounted'
    BY <1>1, <1>4, <2>1, <2>2, WordsAre DEF Accounted
  <2> QED BY <1>4, <1>8, <2>2, <2>6, <2>7 DEF Layout
<1>10. CASE n > 1
  <2>1. PICK k \in Nat : k = n - 1 /\ k >= 1 /\ k \in 1 .. Newest /\ k + 1 = n
    BY <1>3, <1>10
  <2>2. PICK c \in Nat, p \in Nat :
          /\ c = head(n) /\ p = head(k) /\ HeaderMapped(c) /\ HeaderMapped(p) /\ p + 20 <= c
          /\ c + 20 <= tail /\ c = held[k].base + held[k].size /\ Start <= c
    <3>1. /\ head(n) \in Nat /\ head(k) \in Nat /\ HeaderMapped(head(n)) /\ HeaderMapped(head(k))
          /\ held[k].size \in Nat /\ held[n].size \in Nat /\ held[k].base = head(k) + 20
          /\ head(n) + 20 + held[n].size <= tail /\ Start <= head(n) /\ tail \in Nat
      BY <1>1, <1>2, <1>3, <2>1, HeadersAre
    <3>2. n \in 2 .. Newest
      BY <1>3, <1>10
    <3>3. head(n) = head(n - 1) + 20 + held[n - 1].size
      BY <3>2, ListIs
    <3> QED BY <2>1, <3>1, <3>3
  <2>3. held' # <<>> /\ DOMAIN held' = 1 .. k /\ Newest' = k /\ tail' = c
    <3>1. held' # <<>> /\ DOMAIN held' = 1 .. k /\ Newest' = k
      BY <1>5, <1>6, <2>1
    <3> QED BY <1>5, <2>1, <2>2, <3>1 DEF tail
  <2>4. Blocked'
    <3>1. \A j \in 1 .. k : j \in DOMAIN held /\ held'[j] = held[j] /\ head(j)' = head(j)
      BY <1>2, <1>3, <1>5, <1>6, <2>1
    <3>2. 1 \in 1 .. k
      BY <2>1
    <3>3. head(1)' = Start
      BY <1>1, <1>2, <3>1, <3>2 DEF Blocked
    <3>4. \A j \in 1 .. k : /\ held'[j].base \in Nat /\ held'[j].size \in Requests
                            /\ held'[j].base >= Start + HeaderSize * j
                            /\ held'[j].base + held'[j].size < End
      BY <1>1, <3>1 DEF Blocked
    <3>5. \A j, l \in 1 .. k : j < l => held'[j].base + held'[j].size <= head(l)'
      BY <1>1, <3>1 DEF Blocked
    <3>6. \A j \in 1 .. k : j + 1 \in 1 .. k => head(j + 1)' = held'[j].base + held'[j].size
      BY <1>1, <3>1 DEF Blocked
    <3> QED BY <1>7, <2>3, <3>3, <3>4, <3>5, <3>6 DEF Blocked
  <2>5. ASSUME NEW j \in 1 .. k
        PROVE  /\ word'[prev(head(j))] = word[prev(head(j))] /\ word'[magic(head(j))] = word[magic(head(j))]
               /\ mem'[allocated(head(j))] = mem[allocated(head(j))]
               /\ j < k => /\ word'[next(head(j))] = word[next(head(j))]
                           /\ word'[size(head(j))] = word[size(head(j))]
    <3>1. PICK h \in Nat : /\ h = head(j) /\ HeaderMapped(h) /\ (j = k => h = p)
                           /\ (j < k => h + 20 <= p) /\ h + 20 <= c
      <4>1. /\ head(j) \in Nat /\ HeaderMapped(head(j)) /\ held[j].size \in Nat
            /\ \A l \in 1 .. Newest : j < l => head(j) + 20 + held[j].size <= head(l)
        <5>1. Types /\ Blocked /\ j \in 1 .. Newest
          BY <1>1, <1>3, <2>1
        <5> QED BY ONLY <5>1, HeadersAre, SMTT(30)
      <4>2. j < k => head(j) + 20 + held[j].size <= p
        BY <2>1, <2>2, <4>1
      <4>3. j = k \/ j < k
        BY <2>1
      <4> QED BY <2>2, <4>1, <4>2, <4>3
    <3>2. /\ {next(h), prev(h), magic(h), size(h)} \subseteq Words /\ allocated(h) \in Addresses
          /\ prev(h) = h + 4 /\ magic(h) = h + 8 /\ allocated(h) = h + 12 /\ \A x \in Addresses : x \in Nat
      BY <3>1, HeaderIs, FieldsOf, WordsAre
    <3>3. \A x \in Addresses :
            x < c /\ (x < p \/ (p + 4 <= x /\ x < p + 16) \/ p + 20 <= x) => mem'[x] = mem[x]
      BY <1>4, <1>10, <2>1, <2>2
    <3>4. CASE j < k
      <4>1. \A x \in Addresses : h <= x /\ x < h + 20 => mem'[x] = mem[x]
        BY <2>2, <3>1, <3>2, <3>3, <3>4
      <4> QED BY <3>1, <3>2, <4>1, SameHeader, Primed
    <3>5. CASE j = k
      <4>1. \A x \in Addresses : h + 4 <= x /\ x < h + 16 => mem'[x] = mem[x]
        BY <2>2, <3>1, <3>2, <3>3, <3>5
      <4>2. \A a \in {prev(h), magic(h)}, x \in Addresses : a <= x /\ x < a + 4 => mem'[x] = mem[x]
        BY <3>1, <3>2, <4>1
      <4>3. Peek(mem', prev(h)) = Peek(mem, prev(h)) /\ Peek(mem', magic(h)) = Peek(mem, magic(h))
        BY <3>2, <4>2, SameWord
      <4>4. mem'[allocated(h)] = mem[allocated(h)]
        BY <3>1, <3>2, <4>1
      <4> QED BY <3>1, <3>2, <3>5, <4>3, <4>4, Primed
    <3> QED BY <2>1, <3>4, <3>5
  <2>6. Linked'
    <3>1. ASSUME NEW j \in 1 .. k
          PROVE  /\ word'[prev(head(j)')] = Before(j)' /\ word'[magic(head(j)')] = Magic
                 /\ mem'[allocated(head(j)')] # 0
                 /\ j + 1 \in 1 .. k => word'[next(head(j)')] = head(j + 1)' /\ word'[size(head(j)')] = held'[j].size
      <4>1. j \in 1 .. Newest /\ j < Newest /\ j \in 1 .. n - 1 /\ j \in Nat
        BY <1>3, <2>1
      <4>2. /\ word[prev(head(j))] = Before(j) /\ word[magic(head(j))] = Magic
            /\ mem[allocated(head(j))] # 0
            /\ word[next(head(j))] = head(j + 1) /\ word[size(head(j))] = held[j].size
        BY <4>1, ListIs
      <4>3. head(j)' = head(j) /\ Before(j)' = Before(j) /\ held'[j] = held[j]
        BY <1>5, <1>6, <4>1
      <4>4. j + 1 \in 1 .. k => j < k /\ head(j + 1)' = head(j + 1)
        BY <1>6, <2>1
      <4> QED BY <2>5, <4>2, <4>3, <4>4
    <3> QED BY <2>3, <3>1 DEF Linked, prev, magic, allocated, next, size
  <2>7. Closed'
    <3>1. head(k)' = p /\ held'[k] = held[k]
      BY <1>5, <1>6, <2>1, <2>2
    <3>2. word'[next(p)] = nullptr /\ held[k].base + word'[size(p)] = End
      BY <1>4, <1>10, <2>1, <2>2
    <3> QED BY <2>3, <3>1, <3>2 DEF Closed, next, size
  <2>8. Accounted'
    <3>1. tail' < tail /\ tail \in Nat
      BY <1>1, <2>2, <2>3, HeadersAre, SMTT(20)
    <3>2. usedMemory \in 0 .. MemorySize /\ tail - Start <= usedMemory
      BY <1>1 DEF Accounted
    <3>3. tail' - Start < usedMemory /\ tail' - Start <= usedMemory
      BY <2>2, <2>3, <3>1, <3>2, WordsAre
    <3> QED BY <1>4, <3>2, <3>3 DEF Accounted
  <2> QED BY <1>4, <1>8, <2>4, <2>6, <2>7, <2>8 DEF Layout
<1> QED BY <1>3, <1>9, <1>10

\* The inductive invariant of a heap whose blocks are given back newest first.
LEMMA LayoutInductive ==
  ASSUME FreeOrder = "lifo"
  PROVE  /\ Init => Layout
         /\ Types /\ Layout /\ [Next]_heapVars => Layout'
<1>1. ASSUME Types, Layout, Next PROVE Layout'
  <2>1. ASSUME NEW bytes \in Requests, Malloc(bytes) PROVE Layout'
    BY <1>1, <2>1, MallocKeepsLayout
  <2>2. CASE Search
    BY <1>1, <2>2, SearchKeepsLayout
  <2>3. CASE Split
    BY <1>1, <2>3, SplitFaults, SplitKeepsLayout
  <2>4. ASSUME NEW i \in DOMAIN held, Free(i) PROVE Layout'
    BY <1>1, <2>4, FreeKeepsLayout
  <2>5. ASSUME NEW i \in DOMAIN held, NEW byte \in UserData, Use(i, byte) PROVE Layout'
    BY <1>1, <2>5, UseKeepsLayout
  <2> QED BY <1>1, <2>1, <2>2, <2>3, <2>4, <2>5 DEF Next
<1>2. ASSUME Layout, UNCHANGED heapVars PROVE Layout'
  <2>1. UNCHANGED <<mem, held, usedMemory, pc, want, chunk, reply>>
    BY <1>2 DEF heapVars
  <2>2. /\ (Blocked => Blocked') /\ (Linked => Linked') /\ tail' = tail /\ word' = word
        /\ (Open <=> Open') /\ (Closed <=> Closed')
        /\ \A i \in DOMAIN held : head(i)' = head(i)
    BY <2>1, SameHeap
  <2>3. Accounted'
    BY <1>2, <2>1, <2>2 DEF Layout, Accounted
  <2>4. Searching'
    BY <1>2, <2>1, <2>2 DEF Layout, Searching
  <2> QED BY <1>2, <2>2, <2>3, <2>4 DEF Layout
<1> QED BY <1>1, <1>2, InitLayout

\* How many bytes the held blocks and their headers take: all before the tail.
LEMMA BytesAre ==
  ASSUME Types, Layout
  PROVE  BytesHeld = tail - Start
<1>1. Blocked
  BY DEF Layout
<1>2. PICK n \in Nat : n = Newest /\ n = Len(held) /\ DOMAIN held = 1 .. n /\ (held = <<>> <=> n = 0)
  BY <1>1, HeadersAre DEF Newest
<1> DEFINE Step(f) == [m \in 0 .. Len(held) |-> IF m = 0 THEN 0 ELSE f[m - 1] + held[m].size + HeaderSize]
           to(m) == IF m = 0 THEN 0 ELSE head(m) + 20 + held[m].size - Start
           sums == [m \in 0 .. Len(held) |-> to(m)]
<1>3. ASSUME NEW m \in 1 .. n
      PROVE  to(m) = to(m - 1) + held[m].size + HeaderSize /\ to(m) \in Int
  <2>1. PICK h \in Nat, s \in Nat : h = head(m) /\ s = held[m].size
    BY <1>1, <1>2, HeadersAre
  <2>2. CASE m = 1
    <3>1. h = Start
      BY <1>2, <2>1, <2>2, ListIs
    <3> QED BY <2>1, <2>2, <3>1, WordsAre DEF HeaderSize, Word
  <2>3. CASE m # 1
    <3>1. m \in 2 .. Newest /\ m - 1 \in 1 .. Newest /\ m - 1 # 0 /\ m # 0
      BY <1>2, <2>3
    <3>2. PICK g \in Nat, r \in Nat : g = head(m - 1) /\ r = held[m - 1].size
      BY <1>1, <3>1, HeadersAre
    <3>3. h = g + 20 + r
      BY <2>1, <3>1, <3>2, ListIs
    <3>4. to(m) = h + 20 + s - Start /\ to(m - 1) = g + 20 + r - Start
      BY <2>1, <3>1, <3>2
    <3> HIDE DEF to
    <3> QED BY <2>1, <3>3, <3>4, WordsAre DEF HeaderSize, Word
  <2> QED BY <2>2, <2>3
<1>4. sums = Step(sums)
  <2>2. \A m \in 1 .. n : sums[m] = sums[m - 1] + held[m].size + HeaderSize
    <3> HIDE DEF to
    <3> QED BY <1>2, <1>3
  <2>3. sums[0] = 0
    BY <1>2
  <2>4. \A m \in 0 .. Len(held) : sums[m] = IF m = 0 THEN 0 ELSE sums[m - 1] + held[m].size + HeaderSize
    <3> HIDE DEF sums
    <3>1. \A m \in 0 .. n : m # 0 => m \in 1 .. n
      OBVIOUS
    <3> QED BY <1>2, <2>2, <2>3, <3>1
  <2>5. sums = [m \in 0 .. Len(held) |-> sums[m]]
    OBVIOUS
  <2> HIDE DEF sums
  <2> QED BY <2>4, <2>5
<1>5. BytesUpTo = Step(BytesUpTo)
  <2> HIDE DEF sums
  <2> QED BY <1>4 DEF BytesUpTo
<1>6. \A m \in 0 .. n : BytesUpTo[m] = IF m = 0 THEN 0 ELSE BytesUpTo[m - 1] + held[m].size + HeaderSize
  BY <1>2, <1>5, Zenon
<1> DEFINE T == {m \in Nat : m <= n => BytesUpTo[m] = to(m)}
<1>7. T = Nat
  <2>1. 0 \in T
    BY <1>2, <1>6
  <2>2. ASSUME NEW m \in T PROVE m + 1 \in T
    <3>1. CASE m + 1 <= n
      <4>1. m + 1 \in 0 .. n /\ m + 1 \in 1 .. n /\ m + 1 # 0 /\ (m + 1) - 1 = m /\ BytesUpTo[m] = to(m)
        BY <2>2, <3>1
      <4>2. BytesUpTo[m + 1] = BytesUpTo[m] + held[m + 1].size + HeaderSize
        BY <1>6, <4>1
      <4>3. to(m + 1) = to(m) + held[m + 1].size + HeaderSize
        <5> HIDE DEF to
        <5> QED BY <1>3, <4>1
      <4> HIDE DEF to
      <4> QED BY <4>1, <4>2, <4>3
    <3>2. CASE ~(m + 1 <= n)
      BY <3>2
    <3> QED BY <3>1, <3>2
  <2> HIDE DEF T
  <2>3. T \in SUBSET Nat
    BY DEF T
  <2> QED BY <2>1, <2>2, <2>3, InductionOverNat
<1>8. BytesUpTo[n] = to(n)
  BY <1>7
<1>9. to(n) = tail - Start
  <2>1. CASE n = 0
    BY <1>2, <2>1, WordsAre DEF tail
  <2>2. CASE n # 0
    <3>1. n \in 1 .. Newest /\ tail = held[n].base + held[n].size
      BY <1>2, <2>2 DEF tail
    <3>2. held[n].base = head(n) + 20
      BY <1>1, <3>1, HeadersAre
    <3>3. PICK h \in Nat, s \in Nat : h = head(n) /\ s = held[n].size
      BY <1>1, <3>1, HeadersAre
    <3>4. tail = h + 20 + s
      BY <3>1, <3>2, <3>3
    <3> QED BY <2>2, <3>3, <3>4, WordsAre
  <2> QED BY <2>1, <2>2
<1> QED BY <1>2, <1>8, <1>9 DEF BytesHeld

\* Until a block is freed, a refusal means that the blocks held with their headers
\* and the block refused would not fit (the guard of malloc, and the search behind
\* it, at any size of the heap).
THEOREM RefusalIsHonest == FreeOrder = "lifo" /\ Spec => []HonestUntilFreed
<1>1. ASSUME Types, Layout PROVE HonestUntilFreed
  BY <1>1, BytesAre DEF HonestUntilFreed, NothingFreed, Layout, Searching
<1>2. FreeOrder = "lifo" => (Spec => []HonestUntilFreed)
  <2> SUFFICES ASSUME FreeOrder = "lifo" PROVE Spec => []HonestUntilFreed
    OBVIOUS
  <2> QED BY <1>1, TypesInductive, LayoutInductive, PTL DEF Spec
<1> QED BY <1>2

\* Until then the guard alone decides: when the search runs for a request smaller
\* than the heap, it finds a chunk.
THEOREM GuardIsExact == FreeOrder = "lifo" /\ Spec => []GuardDecides
<1>1. ASSUME Types, Layout PROVE GuardDecides
  <2> SUFFICES ASSUME pc = "search", NothingFreed, want < MemorySize, chunk = nullptr PROVE FALSE
    BY DEF GuardDecides
  <2>1. Blocked /\ Accounted /\ Searching
    BY <1>1 DEF Layout
  <2>2. usedMemory = tail - Start
    BY <1>1, BytesAre DEF NothingFreed
  <2>3. /\ want \in Nat /\ usedMemory \in Nat /\ usedMemory <= MemorySize
        /\ tail \in Nat /\ MemorySize \in Nat
    <3>1. want \in Requests /\ Requests \subseteq Nat
      BY <1>1, LayoutAssumption, WrappedInU32 DEF Types
    <3>2. tail \in Nat /\ MemorySize \in Nat
      BY <1>1, <2>1, HeadersAre, WordsAre
    <3>3. usedMemory \in 0 .. MemorySize
      BY <2>1 DEF Accounted
    <3> QED BY <3>1, <3>2, <3>3
  <2>4. Wrapped(usedMemory + want + HeaderSize) = usedMemory + want + 20
    <3>1. PICK u \in Nat : u = usedMemory + want + 20
      BY <2>3
    <3>2. u < Range32
      BY <2>3, <3>1, LayoutAssumption, WordsAre DEF HeaderSize, Word
    <3>3. u \in U32
      BY <3>1, <3>2, WordsAre DEF U32
    <3>4. usedMemory + want + HeaderSize = u
      BY <3>1 DEF HeaderSize, Word
    <3> QED BY <3>1, <3>3, <3>4, WrappedInU32
  <2>5. usedMemory + want + 20 < MemorySize
    <3>1. Wrapped(usedMemory + want + HeaderSize) < MemorySize
      BY <2>1 DEF Accounted
    <3> QED BY <2>4, <3>1
  <2>6. first # nullptr /\ Open
    <3>1. first # nullptr
      BY <2>3, <2>5, WordsAre DEF first, nullptr, HeaderSize, Word
    <3>2. ~Closed
      BY <2>1, <2>2, <2>3, WordsAre DEF Accounted
    <3> QED BY <1>1, <3>1, <3>2, ListIs
  <2>7. word[size(tail)] <= want
    <3>1. \A i \in DOMAIN held : head(i) # nullptr
      BY <1>1, <2>1, HeadersAre, WordsAre DEF nullptr
    <3>2. tail # nullptr
      BY <1>1, <2>6, ListIs
    <3> QED BY <2>1, <2>6, <3>1, <3>2 DEF Searching
  <2>8. word[size(tail)] \in Nat /\ tail + 20 + word[size(tail)] = End
    <3>1. size(tail) \in Words
      BY <2>6, HeaderIs DEF Open
    <3>2. word[size(tail)] \in Nat
      BY <1>1, <3>1, WordTyped, WrappedInU32 DEF Types
    <3>3. tail + HeaderSize + word[size(tail)] = End
      BY <2>6 DEF Open
    <3> QED BY <3>2, <3>3 DEF HeaderSize, Word
  <2> QED BY <2>2, <2>3, <2>5, <2>7, <2>8, WordsAre DEF End
<1>2. FreeOrder = "lifo" => (Spec => []GuardDecides)
  <2> SUFFICES ASSUME FreeOrder = "lifo" PROVE Spec => []GuardDecides
    OBVIOUS
  <2> QED BY <1>1, TypesInductive, LayoutInductive, PTL DEF Spec
<1> QED BY <1>2

\* malloc leaves the heap's pages only for a request that leaves no room behind
\* the second header it writes.
THEOREM FaultsAtTheBrim == FreeOrder = "lifo" /\ Spec => []FaultOnlyAtBrim
<1>1. Layout => FaultOnlyAtBrim
  BY DEF Layout, Searching, FaultOnlyAtBrim
<1>2. FreeOrder = "lifo" => (Spec => []FaultOnlyAtBrim)
  <2> SUFFICES ASSUME FreeOrder = "lifo" PROVE Spec => []FaultOnlyAtBrim
    OBVIOUS
  <2> QED BY <1>1, TypesInductive, LayoutInductive, PTL DEF Spec
<1> QED BY <1>2

-----------------------------------------------------------------------------
\* What malloc's walk of the list meets: the held blocks' chunks, the free one, if
\* there is one, and then nothing.
Link(m) ==
  IF m < Newest THEN head(m + 1)
  ELSE IF m = Newest /\ first # nullptr /\ Open THEN tail ELSE nullptr

LEMMA LinksFollow ==
  ASSUME Types, Layout, NEW m \in Nat
  PROVE  /\ m = 0 => Link(m) = first
         /\ m # 0 => Link(m) = Peek(mem, next(Link(m - 1)))
<1>1. Blocked
  BY DEF Layout
<1>2. PICK n \in Nat : n = Newest /\ DOMAIN held = 1 .. n /\ (held = <<>> <=> n = 0)
  BY <1>1, HeadersAre
<1>3. CASE m = 0
  <2>1. CASE n > 0
    <3>1. head(1) = Start /\ first = Start
      BY <1>2, <2>1, ListIs
    <3>2. Link(m) = head(m + 1) /\ m + 1 = 1
      BY <1>2, <1>3, <2>1 DEF Link
    <3> QED BY <1>3, <3>1, <3>2
  <2>2. CASE n = 0
    <3>1. Link(m) = IF first # nullptr /\ Open THEN tail ELSE nullptr
      BY <1>2, <1>3, <2>2 DEF Link
    <3>2. first # nullptr => first = Start /\ Open /\ tail = Start
      BY <1>2, <2>2, ListIs DEF Closed, tail
    <3> QED BY <1>3, <3>1, <3>2
  <2> QED BY <1>2, <2>1, <2>2
<1>4. CASE m # 0
  <2>1. PICK l \in Nat : l = m - 1 /\ m = l + 1
    BY <1>4
  <2>2. CASE l < n
    <3>1. /\ Link(l) = head(m) /\ m \in 1 .. Newest /\ first # nullptr
      BY <1>2, <2>1, <2>2, ListIs DEF Link
    <3>2. Peek(mem, next(Link(l))) = word[next(head(m))]
      <4>1. next(head(m)) \in Words
        BY <1>1, <3>1, HeadersAre, HeaderIs
      <4> QED BY <3>1, <4>1, Primed
    <3>3. CASE m < n
      <4>1. Link(m) = head(m + 1) /\ word[next(head(m))] = head(m + 1)
        BY <1>2, <3>1, <3>3, ListIs DEF Link
      <4> QED BY <1>4, <2>1, <3>2, <4>1
    <3>4. CASE m = n
      <4>1. Link(m) = IF Open THEN tail ELSE nullptr
        BY <1>2, <3>1, <3>4 DEF Link
      <4>2. word[next(head(n))] = IF Open THEN tail ELSE nullptr
        BY <1>2, <3>1, <3>4, ListIs DEF Open, Closed
      <4> QED BY <1>4, <2>1, <3>2, <3>4, <4>1, <4>2
    <3> QED BY <1>2, <2>1, <2>2, <3>3, <3>4
  <2>3. CASE ~(l < n)
    <3>1. Link(m) = nullptr
      BY <1>2, <2>1, <2>3 DEF Link
    <3>2. CASE l = n /\ first # nullptr /\ Open
      <4>1. Link(l) = tail /\ next(tail) \in Words /\ word[next(tail)] = nullptr
        BY <1>2, <3>2, HeaderIs DEF Link, Open
      <4> QED BY <1>4, <2>1, <3>1, <4>1, Primed
    <3>3. CASE ~(l = n /\ first # nullptr /\ Open)
      <4>1. Link(l) = nullptr
        BY <1>2, <2>3, <3>3 DEF Link
      <4>2. Peek(mem, next(nullptr)) = nullptr
        BY WordsAre DEF Peek, next, nullptr
      <4> QED BY <1>4, <2>1, <3>1, <4>1, <4>2
    <3> QED BY <3>2, <3>3
  <2> QED BY <2>2, <2>3
<1> QED BY <1>3, <1>4

LEMMA ChunksAre ==
  ASSUME Types, Layout
  PROVE  /\ \A c \in Chunks : (c = tail /\ first # nullptr /\ Open) \/ \E i \in 1 .. Newest : c = head(i)
         /\ \A i \in 1 .. Newest : head(i) \in Chunks
<1> DEFINE D == 0 .. MemorySize \div HeaderSize
           Follow(f) == [m \in D |-> IF m = 0 THEN first ELSE Peek(mem, next(f[m - 1]))]
           links == [m \in D |-> Link(m)]
<1>1. MemorySize \div HeaderSize \in Nat /\ D \subseteq Nat /\ 0 \in D
      /\ \A m \in D : m # 0 => m - 1 \in D
  <2>1. PICK d \in Nat : d = MemorySize \div HeaderSize
    BY WordsAre DEF HeaderSize, Word
  <2> QED BY <2>1
<1>2. links = Follow(links)
  <2>1. ASSUME NEW m \in D
        PROVE  links[m] = IF m = 0 THEN first ELSE Peek(mem, next(links[m - 1]))
    <3>1. CASE m = 0
      BY <1>1, <3>1, LinksFollow
    <3>2. CASE m # 0
      <4>1. links[m] = Link(m) /\ links[m - 1] = Link(m - 1) /\ m \in Nat
        BY <1>1, <3>2
      <4> HIDE DEF links
      <4> QED BY <3>2, <4>1, LinksFollow
    <3> QED BY <3>1, <3>2
  <2>2. links = [m \in D |-> links[m]]
    OBVIOUS
  <2> HIDE DEF links, D
  <2> QED BY <2>1, <2>2
<1>3. ChunkAt = Follow(ChunkAt)
  <2> HIDE DEF links
  <2> QED BY <1>2 DEF ChunkAt
<1>4. DOMAIN ChunkAt = D /\ \A m \in D : ChunkAt[m] = IF m = 0 THEN first ELSE Peek(mem, next(ChunkAt[m - 1]))
  <2> HIDE DEF D
  <2> QED BY <1>3, Zenon
<1> HIDE DEF D
<1> DEFINE T == {m \in Nat : m \in D => ChunkAt[m] = Link(m)}
<1>5. T = Nat
  <2>1. 0 \in T
    <3>1. ChunkAt[0] = first
      BY <1>1, <1>4
    <3>2. Link(0) = first
      BY LinksFollow
    <3> QED BY <3>1, <3>2
  <2>2. ASSUME NEW m \in T PROVE m + 1 \in T
    <3>1. CASE m + 1 \in D
      <4>1. m + 1 # 0 /\ (m + 1) - 1 = m /\ m + 1 \in Nat /\ m \in D
        BY <1>1, <3>1
      <4>2. ChunkAt[m + 1] = Peek(mem, next(ChunkAt[m]))
        BY <1>4, <3>1, <4>1
      <4>3. Link(m + 1) = Peek(mem, next(Link(m)))
        BY <4>1, LinksFollow
      <4>4. ChunkAt[m] = Link(m)
        BY <2>2, <4>1
      <4> QED BY <4>1, <4>2, <4>3, <4>4
    <3>2. CASE m + 1 \notin D
      BY <3>2
    <3> QED BY <3>1, <3>2
  <2>3. T \in SUBSET Nat
    OBVIOUS
  <2> HIDE DEF T
  <2> QED BY <2>1, <2>2, <2>3, InductionOverNat
<1>6. \A m \in D : ChunkAt[m] = Link(m)
  BY <1>1, <1>5
<1>7. Chunks = {Link(m) : m \in D} \ {nullptr}
  BY <1>4, <1>6 DEF Chunks
<1>8. Blocked
  BY DEF Layout
<1>9. PICK n \in Nat : n = Newest
  BY <1>8, HeadersAre
<1>10. ASSUME NEW c \in Chunks
       PROVE  (c = tail /\ first # nullptr /\ Open) \/ \E i \in 1 .. Newest : c = head(i)
  <2>1. PICK m \in D : c = Link(m) /\ c # nullptr
    BY <1>7
  <2>2. CASE m < n
    <3>1. m + 1 \in 1 .. Newest /\ c = head(m + 1)
      BY <1>1, <1>9, <2>1, <2>2 DEF Link
    <3> QED BY <3>1
  <2>3. CASE ~(m < n)
    <3>1. Link(m) = IF m = n /\ first # nullptr /\ Open THEN tail ELSE nullptr
      BY <1>9, <2>3 DEF Link
    <3> QED BY <2>1, <3>1
  <2> QED BY <2>2, <2>3
<1>11. ASSUME NEW i \in 1 .. Newest PROVE head(i) \in Chunks
  <2>1. PICK j \in Nat : j = i - 1 /\ i = j + 1 /\ j < n
    BY <1>9
  <2>2. Start + 20 * i <= End
    <3>1. held[i].base >= Start + HeaderSize * i /\ held[i].base + held[i].size < End
      BY <1>8, HeadersAre DEF Blocked
    <3>2. held[i].base \in Nat /\ held[i].size \in Nat
      BY <1>8, HeadersAre DEF Blocked
    <3> QED BY <1>9, <3>1, <3>2, WordsAre DEF HeaderSize, Word
  <2>3. 20 * j <= MemorySize
    BY <2>1, <2>2, WordsAre DEF End
  <2>4. j <= MemorySize \div HeaderSize
    BY <2>1, <2>3, WordsAre DEF HeaderSize, Word
  <2>5. j \in D
    BY <1>1, <2>1, <2>4 DEF D
  <2>6. Link(j) = head(i)
    BY <1>9, <2>1 DEF Link
  <2>7. head(i) # nullptr
    BY <1>8, HeadersAre, WordsAre DEF nullptr
  <2> QED BY <1>7, <2>5, <2>6, <2>7
<1> QED BY <1>10, <1>11

\* The list tiles the heap and its links agree both ways, whatever is asked for:
\* malloc's split and free's merges, wrong as they are, keep it so as long as
\* blocks come back newest first.
THEOREM ListTilesHeap == FreeOrder = "lifo" /\ Spec => []TilesHeap
<1>1. ASSUME Types, Layout PROVE TilesHeap
  <2>1. Blocked
    BY <1>1 DEF Layout
  <2>2. PICK n \in Nat : n = Newest /\ DOMAIN held = 1 .. n /\ (held = <<>> <=> n = 0)
    BY <1>1, <2>1, HeadersAre
  <2> SUFFICES ASSUME NEW c \in Chunks
               PROVE  LET m == Peek(mem, next(c))
                          end == c + HeaderSize + Peek(mem, size(c))
                      IN  /\ HeaderMapped(c)
                          /\ Peek(mem, magic(c)) = Magic
                          /\ IF m = nullptr THEN end = Start + MemorySize
                                            ELSE end = m /\ Peek(mem, prev(m)) = c
    BY DEF TilesHeap
  <2>3. CASE c = tail /\ Open
    <3>1. /\ HeaderMapped(c) /\ word[magic(c)] = Magic /\ word[next(c)] = nullptr
          /\ c + HeaderSize + word[size(c)] = Start + MemorySize
      BY <2>3 DEF Open, End
    <3>2. next(c) \in Words /\ magic(c) \in Words /\ size(c) \in Words
      BY <3>1, HeaderIs
    <3> QED BY <3>1, <3>2, Primed
  <2>4. CASE \E i \in 1 .. Newest : c = head(i)
    <3>1. PICK i \in 1 .. Newest : c = head(i)
      BY <2>4
    <3>2. /\ HeaderMapped(c) /\ word[magic(c)] = Magic /\ held[i].size \in Nat /\ held[i].base = c + 20
      BY <1>1, <2>1, <3>1, HeadersAre, ListIs
    <3>3. next(c) \in Words /\ magic(c) \in Words /\ size(c) \in Words
      BY <3>2, HeaderIs
    <3>4. Peek(mem, next(c)) = word[next(c)] /\ Peek(mem, size(c)) = word[size(c)] /\ Peek(mem, magic(c)) = Magic
      BY <3>2, <3>3, Primed
    <3>5. CASE i < n
      <4>1. i + 1 \in 1 .. Newest /\ i + 1 \in 2 .. Newest /\ (i + 1) - 1 = i /\ i + 1 # 1
        BY <2>2, <3>5
      <4>2. word[next(c)] = head(i + 1) /\ word[size(c)] = held[i].size
        BY <1>1, <2>2, <3>1, <3>5, ListIs
      <4>3. head(i + 1) = c + 20 + held[i].size
        <5>1. head(i + 1) = head((i + 1) - 1) + 20 + held[(i + 1) - 1].size
          BY <1>1, <4>1, ListIs
        <5> QED BY <3>1, <4>1, <5>1
      <4>4. word[prev(head(i + 1))] = Before(i + 1)
        BY <1>1, <4>1, ListIs
      <4>5. Before(i + 1) = c
        BY <3>1, <4>1 DEF Before
      <4>6. HeaderMapped(head(i + 1)) /\ head(i + 1) # nullptr
        BY <1>1, <2>1, <4>1, HeadersAre, WordsAre DEF nullptr
      <4>7. Peek(mem, prev(head(i + 1))) = c
        BY <4>4, <4>5, <4>6, HeaderIs, Primed
      <4> QED BY <3>2, <3>4, <4>2, <4>3, <4>6, <4>7 DEF HeaderSize, Word
    <3>6. CASE i = n
      <4>1. first # nullptr /\ held # <<>> /\ (Open \/ Closed)
        BY <1>1, <2>2, <3>1, <3>6, ListIs
      <4>2. CASE Open
        <5>1. word[next(c)] = tail /\ word[size(c)] = held[n].size /\ tail = held[n].base + held[n].size
          BY <2>2, <3>1, <3>6, <4>1, <4>2 DEF Open, tail
        <5>2. tail # nullptr /\ prev(tail) \in Words
          BY <1>1, <4>2, ListIs, HeaderIs DEF Open
        <5>3. word[prev(tail)] = Before(n + 1)
          BY <2>2, <4>2 DEF Open
        <5>4. n + 1 # 1 /\ (n + 1) - 1 = n
          BY <2>2, <3>6
        <5>5. Before(n + 1) = c
          BY <3>1, <3>6, <5>4 DEF Before
        <5>6. tail = c + 20 + held[n].size
          BY <3>2, <3>6, <5>1
        <5> QED BY <3>2, <3>4, <5>1, <5>2, <5>3, <5>5, <5>6, Primed DEF HeaderSize, Word
      <4>3. CASE Closed
        <5>1. word[next(c)] = nullptr /\ held[n].base + word[size(c)] = End
          BY <2>2, <3>1, <3>6, <4>3 DEF Closed
        <5> QED BY <3>2, <3>4, <3>6, <5>1 DEF End, HeaderSize, Word
      <4> QED BY <4>1, <4>2, <4>3
    <3> QED BY <2>2, <3>5, <3>6
  <2> QED BY <1>1, <2>3, <2>4, ChunksAre
<1>2. FreeOrder = "lifo" => (Spec => []TilesHeap)
  <2> SUFFICES ASSUME FreeOrder = "lifo" PROVE Spec => []TilesHeap
    OBVIOUS
  <2> QED BY <1>1, TypesInductive, LayoutInductive, PTL DEF Spec
<1> QED BY <1>2

\* No held block is searched, split or merged away under its holder: its chunk is
\* in the list, marked, and at least as large as was asked for.
THEOREM BlocksStayChunks == FreeOrder = "lifo" /\ Spec => []HeldBlocksAreChunks
<1>1. ASSUME Types, Layout PROVE HeldBlocksAreChunks
  <2>1. Blocked
    BY <1>1 DEF Layout
  <2>2. PICK n \in Nat : n = Newest /\ DOMAIN held = 1 .. n /\ (held = <<>> <=> n = 0)
    BY <1>1, <2>1, HeadersAre
  <2>3. ASSUME NEW i \in 1 .. n
        PROVE  head(i) \in Chunks /\ IsAllocated(mem, head(i)) /\ Peek(mem, size(head(i))) >= held[i].size
    <3>1. head(i) \in Chunks /\ IsAllocated(mem, head(i))
      BY <1>1, <2>2, ChunksAre, ListIs
    <3>2. /\ HeaderMapped(head(i)) /\ held[i].size \in Nat /\ held[i].base = head(i) + 20 /\ head(i) \in Nat
          /\ head(i) + 20 + held[i].size <= tail /\ tail <= End /\ tail \in Nat
      BY <1>1, <2>1, <2>2, HeadersAre
    <3>3. Peek(mem, size(head(i))) = word[size(head(i))] /\ word[size(head(i))] \in Nat
      <4>1. size(head(i)) \in Words
        BY <3>2, HeaderIs
      <4> QED BY <1>1, <4>1, Primed, WordTyped, WrappedInU32 DEF Types
    <3>4. word[size(head(i))] >= held[i].size
      <4>1. CASE i < n
        BY <1>1, <2>2, <3>2, <4>1, ListIs
      <4>2. CASE i = n
        <5>1. first # nullptr /\ held # <<>> /\ (Open \/ Closed)
          BY <1>1, <2>2, <4>2, ListIs
        <5>2. CASE Open
          BY <2>2, <3>2, <4>2, <5>1, <5>2 DEF Open
        <5>3. CASE Closed
          <6>1. held[i].base + word[size(head(i))] = End
            BY <2>2, <4>2, <5>3 DEF Closed
          <6> QED BY <3>2, <3>3, <6>1, WordsAre
        <5> QED BY <5>1, <5>2, <5>3
      <4> QED BY <4>1, <4>2
    <3> QED BY <3>1, <3>3, <3>4
  <2> QED BY <2>2, <2>3 DEF HeldBlocksAreChunks, head
<1>2. FreeOrder = "lifo" => (Spec => []HeldBlocksAreChunks)
  <2> SUFFICES ASSUME FreeOrder = "lifo" PROVE Spec => []HeldBlocksAreChunks
    OBVIOUS
  <2> QED BY <1>1, TypesInductive, LayoutInductive, PTL DEF Spec
<1> QED BY <1>2

-----------------------------------------------------------------------------
\* The heap implements Allocator: a new block overlaps no held one, and giving one
\* back takes exactly that one away.
THEOREM Refinement == FreeOrder = "lifo" /\ Spec => ImplementsAllocator
<1> DEFINE BlockSet == [base : Addresses, size : Requests]
<1>1. ASSUME Init PROVE Blocks!Init
  BY <1>1 DEF Init, Blocks!Init, Range
<1>2. ASSUME Types, Layout, FreeOrder = "lifo", [Next]_heapVars
      PROVE  Blocks!Next \/ UNCHANGED Range(held)
  <2>1. Blocked
    BY <1>2 DEF Layout
  <2>2. PICK n \in Nat : n = Newest /\ DOMAIN held = 1 .. n /\ (held = <<>> <=> n = 0)
    BY <1>2, <2>1, HeadersAre
  <2>3. ASSUME UNCHANGED held PROVE UNCHANGED Range(held)
    BY <2>3
  <2>4. CASE Split /\ pc' # "fault"
    <3>1. pc = "split" /\ held' = Append(held, [base |-> chunk + HeaderSize, size |-> want])
      BY <1>2, <2>4, SplitWrites DEF Split
    <3>2. chunk = tail /\ Open /\ want \in Requests /\ want \in Nat
      BY <1>2, <3>1, SplitPlace
    <3>3. PICK b : b = [base |-> tail + HeaderSize, size |-> want]
      OBVIOUS
    <3>4. tail \in Nat /\ tail + HeaderSize \in Addresses
      <4>1. HeaderMapped(tail) /\ Temp = tail + 20 + want /\ Temp < End
        BY <1>2, <3>1, SplitPlace DEF Open
      <4> QED BY <3>2, <4>1, HeaderIs, WordsAre DEF HeaderSize, Word
    <3>5. b \in BlockSet
      BY <3>2, <3>3, <3>4
    <3>6. held' = Append(held, b) /\ held \in Seq(Blocks32) /\ b \in Blocks32
      <4>1. tail + HeaderSize \in U32
        <5>1. PICK t \in Nat, e \in Nat : t = tail /\ e = End /\ t + 20 <= e /\ e < Range32
          BY <3>2, <3>4, HeaderIs, WordsAre DEF Open
        <5>2. t + 20 \in 0 .. Range32 - 1
          BY <5>1, WordsAre
        <5> QED BY <5>1, <5>2 DEF U32, HeaderSize, Word
      <4> QED BY <1>2, <3>1, <3>2, <3>3, <4>1 DEF Types, Blocks32
    <3>7. /\ Len(held) = n /\ DOMAIN held' = 1 .. n + 1
          /\ held'[n + 1] = b /\ \A i \in 1 .. n : held'[i] = held[i]
      BY <2>2, <3>6, AppendProperties, LenProperties DEF Newest
    <3>8. Range(held)' = Range(held) \cup {b}
      <4>1. \A i \in 1 .. n + 1 : i \in 1 .. n \/ i = n + 1
        OBVIOUS
      <4> QED BY <2>2, <3>7, <4>1 DEF Range
    <3>9. ASSUME NEW h \in Range(held) PROVE Blocks!Span(h) \cap Blocks!Span(b) = {}
      <4>1. PICK i \in 1 .. n : h = held[i]
        BY <2>2 DEF Range
      <4>2. PICK x \in Nat, y \in Nat : x = held[i].base /\ y = held[i].size /\ x + y <= tail
        <5>1. /\ held[i].size \in Nat /\ held[i].base = head(i) + 20 /\ head(i) \in Nat
              /\ head(i) + 20 + held[i].size <= tail
          BY <1>2, <2>1, <2>2, HeadersAre
        <5> QED BY <5>1
      <4>3. Blocks!Span(h) = x .. x + y - 1
        BY <4>1, <4>2 DEF Blocks!Span
      <4>4. Blocks!Span(b) = tail + 20 .. tail + 20 + want - 1
        BY <3>3 DEF Blocks!Span, HeaderSize, Word
      <4>5. PICK t \in Nat, w \in Nat : t = tail /\ w = want
        BY <3>2, <3>4
      <4>6. (x .. x + y - 1) \cap (t + 20 .. t + 20 + w - 1) = {}
        <5>1. x + y <= t
          BY <4>2, <4>5
        <5> QED BY <5>1
      <4> QED BY <4>3, <4>4, <4>5, <4>6
    <3>10. Blocks!Hand(b)
      BY <3>8, <3>9 DEF Blocks!Hand
    <3> QED BY <3>5, <3>10 DEF Blocks!Next
  <2>5. CASE Split /\ pc' = "fault"
    <3>1. UNCHANGED held
      BY <2>5 DEF Split, Answer
    <3> QED BY <2>3, <3>1
  <2>6. ASSUME NEW i \in DOMAIN held, Free(i) PROVE Blocks!Next
    <3>1. i = n /\ n \in 1 .. n /\ held' = RemoveAt(held, n) /\ held \in Seq(Blocks32) /\ Len(held) = n
      BY <1>2, <2>2, <2>6 DEF Free, Newest, Types
    <3>2. /\ held' \in Seq(Blocks32) /\ Len(held') = n - 1
          /\ \A j \in 1 .. n - 1 : held'[j] = IF j < n THEN held[j] ELSE held[j + 1]
      BY <2>2, <3>1, Removed
    <3>3. DOMAIN held' = 1 .. n - 1 /\ \A j \in 1 .. n - 1 : held'[j] = held[j]
      BY <3>2, LenProperties
    <3>4. ASSUME NEW j \in 1 .. n - 1 PROVE held[j] # held[n]
      <4>1. held[j].base # held[n].base
        <5>1. /\ j \in 1 .. Newest /\ n \in 1 .. Newest /\ j < n
          BY <2>2, <3>1
        <5>2. /\ head(j) + 20 + held[j].size <= head(n) /\ head(j) \in Nat /\ head(n) \in Nat
              /\ held[j].size \in Nat /\ held[j].base = head(j) + 20 /\ held[n].base = head(n) + 20
          BY <1>2, <2>1, <5>1, HeadersAre
        <5> QED BY <5>2
      <4> QED BY <4>1
    <3>5. Range(held)' = Range(held) \ {held[n]}
      <4>1. \A j \in 1 .. n : j \in 1 .. n - 1 \/ j = n
        OBVIOUS
      <4> QED BY <2>2, <3>1, <3>3, <3>4, <4>1 DEF Range
    <3>6. held[n] \in Range(held)
      BY <2>2, <3>1 DEF Range
    <3>7. held[n] \in BlockSet
      <4>1. held[n] \in Blocks32
        BY <2>2, <3>1, ElementOfSeq
      <4>2. held[n].base \in Addresses
        <5>1. /\ held[n].base = head(n) + 20 /\ head(n) \in Nat /\ Start <= head(n) /\ held[n].size \in Nat
              /\ held[n].base + held[n].size < End
          BY <1>2, <2>1, <2>2, <3>1, HeadersAre DEF Blocked
        <5> QED BY <5>1, WordsAre
      <4> QED BY <4>1, <4>2 DEF Blocks32
    <3> QED BY <3>5, <3>6, <3>7 DEF Blocks!Next, Blocks!TakeBack
  <2>7. CASE UNCHANGED heapVars
    BY <2>3, <2>7 DEF heapVars
  <2>8. ASSUME NEW bytes \in Requests, Malloc(bytes) PROVE UNCHANGED Range(held)
    BY <2>3, <2>8 DEF Malloc
  <2>9. CASE Search
    BY <2>3, <2>9 DEF Search
  <2>10. ASSUME NEW i \in DOMAIN held, NEW byte \in UserData, Use(i, byte) PROVE UNCHANGED Range(held)
    BY <2>3, <2>10 DEF Use
  <2> QED BY <1>2, <2>4, <2>5, <2>6, <2>7, <2>8, <2>9, <2>10 DEF Next
<1>3. FreeOrder = "lifo" => (Spec => ImplementsAllocator)
  <2> SUFFICES ASSUME FreeOrder = "lifo" PROVE Spec => ImplementsAllocator
    OBVIOUS
  <2>1. Types /\ Layout /\ [Next]_heapVars => [Blocks!Next]_(Range(held))
    BY <1>2
  <2> QED BY <1>1, <2>1, TypesInductive, LayoutInductive, PTL DEF Spec, ImplementsAllocator, Blocks!Spec
<1> QED BY <1>3
=============================================================================
