------------------------------ MODULE PrintfProofs ------------------------------
(***************************************************************************)
(* Proof of what itos prints: for every width, not only for the ten bits   *)
(* TLC can count through, what printf finds in the buffer after            *)
(* WriteDigit, Terminate and reverse means the number it was given, or, of *)
(* a negative int, the u32 of the same bits.                               *)
(***************************************************************************)
EXTENDS Printf, Arithmetic

-----------------------------------------------------------------------------
(***************************************************************************)
(* Digits.                                                                 *)
(***************************************************************************)
LEMMA DigitIs ==
  ASSUME NEW r \in 0 .. 15
  PROVE  DigitOf(Digit(r)) = r /\ (Digit(r) = Digit(0) => r = 0)
BY DEF DigitOf, Digit

\* The quotients that division by b leaves of v, m divisions long.
Quotients(r, m, v, b) ==
  /\ r \in [0 .. m -> Nat] /\ r[0] = v
  /\ \A p \in 0 .. m - 1 : r[p + 1] = r[p] \div b
  /\ IF v = 0 THEN m \in {0, 1} ELSE \A p \in 0 .. m - 1 : r[p] # 0

LEMMA NoneYet ==
  ASSUME NEW v \in Nat, NEW b
  PROVE  \E r : Quotients(r, 0, v, b) /\ r[0] = v
<1> DEFINE r == [p \in 0 .. 0 |-> v]
<1>1. Quotients(r, 0, v, b) /\ r[0] = v
  BY DEF Quotients
<1> HIDE DEF r
<1> QED BY <1>1

\* One division more, of what is not 0.
LEMMA OneMore ==
  ASSUME NEW m \in Nat, NEW v \in Nat, NEW b \in Nat \ {0}, NEW r, Quotients(r, m, v, b),
         r[m] # 0 \/ (m = 0 /\ v = 0)
  PROVE  \E q : /\ Quotients(q, m + 1, v, b) /\ q[m + 1] = r[m] \div b
                /\ \A p \in 0 .. m : q[p] = r[p]
<1> DEFINE q == [p \in 0 .. m + 1 |-> IF p = m + 1 THEN r[m] \div b ELSE r[p]]
<1>1. r \in [0 .. m -> Nat] /\ r[0] = v /\ r[m] \in Nat
  BY DEF Quotients
<1>2. r[m] \div b \in Nat
  BY <1>1, DivIs
<1>3. q \in [0 .. m + 1 -> Nat] /\ q[m + 1] = r[m] \div b /\ \A p \in 0 .. m : q[p] = r[p]
  BY <1>1, <1>2
<1> HIDE DEF q
<1>4. ASSUME NEW p \in 0 .. m PROVE q[p + 1] = q[p] \div b
  <2>1. CASE p = m
    BY <1>3, <2>1
  <2>2. CASE p # m
    <3>1. p \in 0 .. m - 1 /\ p + 1 \in 0 .. m
      BY <2>2
    <3>2. r[p + 1] = r[p] \div b
      BY <3>1 DEF Quotients
    <3> QED BY <1>3, <3>1, <3>2
  <2> QED BY <2>1, <2>2
<1>5. IF v = 0 THEN m + 1 \in {0, 1} ELSE \A p \in 0 .. m : q[p] # 0
  <2>1. CASE v = 0
    <3>1. m = 0
      <4>1. m \in {0, 1}
        BY <2>1 DEF Quotients
      <4>2. CASE m = 1
        <5>1. r[0 + 1] = r[0] \div b
          BY <4>2 DEF Quotients
        <5>2. 0 \div b = 0
          <6>1. (0 * b + 0) \div b = 0
            BY DivMod
          <6> QED BY <6>1
        <5>3. r[m] = 0
          BY <1>1, <2>1, <4>2, <5>1, <5>2
        <5> QED BY <4>2, <5>3
      <4> QED BY <4>1, <4>2
    <3> QED BY <2>1, <3>1
  <2>2. CASE v # 0
    <3>1. \A p \in 0 .. m - 1 : r[p] # 0
      BY <2>2 DEF Quotients
    <3>2. ASSUME NEW p \in 0 .. m PROVE q[p] # 0
      BY <1>3, <2>2, <3>1
    <3> QED BY <2>2, <3>2
  <2> QED BY <2>1, <2>2
<1>6. (m + 1) - 1 = m /\ q[0] = v
  BY <1>1, <1>3
<1>7. Quotients(q, m + 1, v, b)
  BY <1>3, <1>4, <1>5, <1>6 DEF Quotients
<1> QED BY <1>3, <1>7

-----------------------------------------------------------------------------
(***************************************************************************)
(* The two recursions: countDigit's, and the meaning of digits.            *)
(***************************************************************************)
LEMMA CountEquation ==
  ASSUME base \in Nat, base > 1
  PROVE  \E count : /\ \A m \in Nat \ {0} : countDigit(m) = count[m]
                    /\ countDigit(0) = 1
                    /\ count \in [Nat -> Nat] /\ count[0] = 0
                    /\ \A m \in Nat \ {0} : count[m] = 1 + count[m \div base]
<1> DEFINE Right(c) == c = [rest \in Nat |-> IF rest = 0 THEN 0 ELSE 1 + c[rest \div base]]
           D == [m \in Nat |-> m \div base]
           e == [m \in Nat |-> 1]
<1>1. ASSUME NEW m \in Nat \ {0} PROVE m \div base \in 0 .. m - 1
  <2>1. PICK q \in Nat, s \in 0 .. base - 1 : q = m \div base /\ m = q * base + s
    BY DivIs
  <2>2. CASE q = 0
    BY <2>1, <2>2
  <2>3. CASE q # 0
    <3>1. PICK d \in Nat : base = 2 + d
      <4>1. base - 2 \in Nat /\ base = 2 + (base - 2)
        OBVIOUS
      <4> QED BY <4>1
    <3>2. q * base = q + q + q * d /\ q * d \in Nat
      <4>1. q * (2 + d) = q + q + q * d /\ q * d \in Nat
        OBVIOUS
      <4> QED BY <3>1, <4>1
    <3>3. m > q
      <4>1. PICK x \in Nat, y \in Nat : x = q * base /\ y = q * d
        BY <2>1, <3>2
      <4>2. x = q + q + y /\ m = x + s
        BY <2>1, <3>2, <4>1
      <4> QED BY <2>1, <2>3, <4>2
    <3> QED BY <2>1, <3>3
  <2> QED BY <2>2, <2>3
<1>2. PICK f : Below(f, D, 1, e)
  <2>1. \A m \in Nat \ {0} : D[m] \in 0 .. m - 1
    BY <1>1
  <2> HIDE DEF D, e
  <2> QED BY <2>1, RecursionBelow
<1>3. \A m \in Nat : f[m] = IF m = 0 THEN 0 ELSE f[m \div base] * 1 + 1
  BY <1>2 DEF Below
<1>4. \A m \in Nat : f[m] \in Nat
  <2> DEFINE T == {m \in Nat : f[m] \in Nat}
  <2>1. ASSUME NEW a \in Nat, \A m \in 0 .. a - 1 : m \in T PROVE a \in T
    <3>1. CASE a = 0
      BY <1>3, <3>1
    <3>2. CASE a # 0
      <4>1. f[a \div base] \in Nat
        BY <1>1, <2>1, <3>2
      <4>2. f[a] = f[a \div base] * 1 + 1
        BY <1>3, <3>2
      <4> QED BY <4>1, <4>2
    <3> QED BY <3>1, <3>2
  <2>2. T \in SUBSET Nat
    OBVIOUS
  <2>3. T = Nat
    <3> HIDE DEF T
    <3> QED BY <2>1, <2>2, StrongInduction
  <2> QED BY <2>3
<1>5. ASSUME NEW m \in Nat PROVE f[m] = IF m = 0 THEN 0 ELSE 1 + f[m \div base]
  <2>1. CASE m = 0
    BY <1>3, <2>1
  <2>2. CASE m # 0
    <3>1. m \div base \in Nat
      BY <1>1, <2>2
    <3>2. f[m] = f[m \div base] * 1 + 1 /\ f[m \div base] \in Nat
      BY <1>3, <1>4, <2>2, <3>1
    <3> QED BY <2>2, <3>2
  <2> QED BY <2>1, <2>2
<1>6. Right(f)
  <2>1. f = [m \in Nat |-> f[m]]
    BY <1>2 DEF Below
  <2>2. f = [m \in Nat |-> IF m = 0 THEN 0 ELSE 1 + f[m \div base]]
    BY <1>5, <2>1, Zenon
  <2> QED BY <2>2
<1> DEFINE count == CHOOSE c : Right(c)
<1>7. Right(count)
  <2> HIDE DEF Right
  <2> QED BY <1>6
<1>8. \A m \in Nat : count[m] = IF m = 0 THEN 0 ELSE 1 + count[m \div base]
  <2> HIDE DEF count
  <2> QED BY <1>7
<1>9. count = f
  <2> DEFINE T == {m \in Nat : count[m] = f[m]}
  <2>1. ASSUME NEW a \in Nat, \A m \in 0 .. a - 1 : m \in T PROVE a \in T
    <3>1. CASE a = 0
      <4> HIDE DEF count
      <4> QED BY <1>5, <1>8, <3>1
    <3>2. CASE a # 0
      <4>1. count[a \div base] = f[a \div base]
        <5> HIDE DEF count
        <5> QED BY <1>1, <2>1, <3>2
      <4> HIDE DEF count
      <4> QED BY <1>5, <1>8, <3>2, <4>1
    <3> QED BY <3>1, <3>2
  <2>2. T \in SUBSET Nat
    OBVIOUS
  <2>3. T = Nat
    <3> HIDE DEF T
    <3> QED BY <2>1, <2>2, StrongInduction
  <2>4. \A m \in Nat : count[m] = f[m]
    BY <2>3
  <2>5. count = [m \in Nat |-> count[m]] /\ f = [m \in Nat |-> f[m]]
    <3>1. f = [m \in Nat |-> f[m]]
      BY <1>2 DEF Below
    <3> HIDE DEF count
    <3> QED BY <1>7, <3>1
  <2> HIDE DEF count
  <2> QED BY <2>4, <2>5
<1>10. \A m \in Nat \ {0} : countDigit(m) = count[m]
  BY DEF countDigit
<1>11. countDigit(0) = 1
  BY DEF countDigit
<1>12. count \in [Nat -> Nat]
  <2>1. f \in [Nat -> Nat]
    BY <1>2, <1>4 DEF Below
  <2> HIDE DEF count
  <2> QED BY <1>9, <2>1
<1> HIDE DEF count
<1> QED BY <1>8, <1>10, <1>11, <1>12

LEMMA ValueEquation ==
  /\ ValueOf[0] = 0
  /\ \A m \in Nat : ValueOf[m + 1] = ValueOf[m] * base + DigitOf(buffer[m])
<1> DEFINE Right(v) == v = [m \in Nat |-> IF m = 0 THEN 0 ELSE v[m - 1] * base + DigitOf(buffer[m - 1])]
           D == [m \in Nat |-> m - 1]
           e == [m \in Nat |-> DigitOf(buffer[m - 1])]
<1>1. PICK f : Below(f, D, base, e)
  <2>1. \A m \in Nat \ {0} : D[m] \in 0 .. m - 1
    OBVIOUS
  <2> HIDE DEF D, e
  <2> QED BY <2>1, RecursionBelow
<1>2. Right(f)
  <2>1. \A m \in Nat : D[m] = m - 1 /\ e[m] = DigitOf(buffer[m - 1])
    OBVIOUS
  <2> HIDE DEF D, e
  <2> QED BY <1>1, <2>1, Zenon DEF Below
<1> DEFINE v == CHOOSE w : Right(w)
<1>3. Right(v)
  <2> HIDE DEF Right
  <2> QED BY <1>2
<1>4. ValueOf = v
  BY DEF ValueOf
<1> HIDE DEF v
<1>5. ValueOf[0] = 0
  BY <1>3, <1>4
<1>6. ASSUME NEW m \in Nat
      PROVE  ValueOf[m + 1] = ValueOf[m] * base + DigitOf(buffer[m])
  <2>1. m + 1 \in Nat /\ m + 1 # 0 /\ (m + 1) - 1 = m
    OBVIOUS
  <2>2. v[m + 1] = v[(m + 1) - 1] * base + DigitOf(buffer[(m + 1) - 1])
    BY <1>3, <2>1, Zenon
  <2> QED BY <1>4, <2>1, <2>2
<1> QED BY <1>5, <1>6

\* As many digits are counted as there are quotients before the last, 0.
LEMMA CountIs ==
  ASSUME base \in Nat, base > 1, NEW v \in Nat, NEW m \in Nat \ {0}, NEW r,
         Quotients(r, m, v, base), r[m] = 0
  PROVE  countDigit(v) = m
<1>1. PICK count : /\ \A l \in Nat \ {0} : countDigit(l) = count[l]
                   /\ countDigit(0) = 1
                   /\ count \in [Nat -> Nat] /\ count[0] = 0
                   /\ \A l \in Nat \ {0} : count[l] = 1 + count[l \div base]
  BY CountEquation
<1>2. CASE v = 0
  BY <1>1, <1>2 DEF Quotients
<1>3. CASE v # 0
  <2>1. /\ r[0] = v /\ \A p \in 0 .. m - 1 : r[p + 1] = r[p] \div base
        /\ \A p \in 0 .. m - 1 : r[p] \in Nat \ {0}
    BY <1>3 DEF Quotients
  <2> DEFINE T == {p \in Nat : p <= m => count[r[m - p]] = p}
  <2>2. 0 \in T
    BY <1>1
  <2>3. ASSUME NEW p \in T PROVE p + 1 \in T
    <3>1. SUFFICES ASSUME p + 1 <= m PROVE count[r[m - (p + 1)]] = p + 1
      OBVIOUS
    <3>2. PICK l \in 0 .. m - 1 : l = m - (p + 1) /\ l + 1 = m - p
      <4>1. m - (p + 1) \in 0 .. m - 1 /\ (m - (p + 1)) + 1 = m - p
        BY <3>1
      <4> QED BY <4>1
    <3>3. count[r[l + 1]] = p
      BY <3>1, <3>2
    <3>4. count[r[l]] = 1 + count[r[l] \div base] /\ r[l + 1] = r[l] \div base
      BY <1>1, <2>1
    <3> QED BY <3>2, <3>3, <3>4
  <2>4. T \in SUBSET Nat
    OBVIOUS
  <2>5. T = Nat
    <3> HIDE DEF T
    <3> QED BY <2>2, <2>3, <2>4, InductionOverNat
  <2>6. count[r[m - m]] = m
    BY <2>5
  <2>7. m - m = 0
    OBVIOUS
  <2> QED BY <1>1, <1>3, <2>1, <2>6, <2>7
<1> QED BY <1>2, <1>3

\* The digits, from the last quotient's on, mean the number.
LEMMA ValueIs ==
  ASSUME base \in {10, 16}, NEW v \in Nat, NEW m \in Nat, NEW r,
         Quotients(r, m, v, base), r[m] = 0,
         \A p \in 0 .. m - 1 : buffer[p] = Digit(r[m - 1 - p] % base)
  PROVE  ValueOf[m] = v
<1> DEFINE T == {p \in Nat : p <= m => ValueOf[p] = r[m - p]}
<1>1. 0 \in T
  <2>1. m - 0 = m
    OBVIOUS
  <2> QED BY <2>1, ValueEquation
<1>2. ASSUME NEW p \in T PROVE p + 1 \in T
  <2>1. SUFFICES ASSUME p + 1 <= m PROVE ValueOf[p + 1] = r[m - (p + 1)]
    OBVIOUS
  <2>2. PICK l \in 0 .. m - 1 : l = m - (p + 1) /\ l + 1 = m - p /\ l = m - 1 - p
    <3>1. /\ m - (p + 1) \in 0 .. m - 1 /\ (m - (p + 1)) + 1 = m - p
          /\ m - (p + 1) = m - 1 - p
      BY <2>1
    <3> QED BY <3>1
  <2>3. ValueOf[p] = r[l + 1] /\ r[l + 1] = r[l] \div base /\ r[l] \in Nat
    BY <2>1, <2>2 DEF Quotients
  <2>4. base \in Nat \ {0} /\ r[l] % base \in 0 .. base - 1 /\ r[l] % base \in 0 .. 15
    <3>1. base \in Nat \ {0}
      OBVIOUS
    <3>2. r[l] % base \in 0 .. base - 1
      BY <2>3, <3>1, DivIs
    <3> QED BY <3>1, <3>2
  <2>5. DigitOf(buffer[p]) = r[l] % base
    <3>1. p \in 0 .. m - 1
      BY <2>1
    <3>2. buffer[p] = Digit(r[l] % base)
      BY <2>2, <3>1
    <3> QED BY <2>4, <3>2, DigitIs
  <2>6. r[l] = (r[l] \div base) * base + (r[l] % base)
    BY <2>3, <2>4, DivIs
  <2>7. ValueOf[p + 1] = ValueOf[p] * base + DigitOf(buffer[p])
    BY ValueEquation
  <2> QED BY <2>2, <2>3, <2>5, <2>6, <2>7
<1>3. T \in SUBSET Nat
  OBVIOUS
<1>4. T = Nat
  <2> HIDE DEF T
  <2> QED BY <1>1, <1>2, <1>3, InductionOverNat
<1>5. ValueOf[m] = r[m - m]
  BY <1>4
<1>6. m - m = 0
  OBVIOUS
<1> QED BY <1>5, <1>6 DEF Quotients

-----------------------------------------------------------------------------
(***************************************************************************)
(* The invariant.  While itos writes, the buffer has the last digits of    *)
(* the number, the last first, and n is the quotient that is left; then    *)
(* the digits outside j .. k have changed places with their mirror images. *)
(***************************************************************************)
Writing ==
  \E r : /\ Quotients(r, i, value, base) /\ r[i] = n
         /\ DOMAIN buffer = 0 .. i - 1
         /\ \A p \in 0 .. i - 1 : buffer[p] = Digit(r[p] % base)

Place(p) == IF j <= p /\ p <= k THEN p ELSE i - 1 - p

Turning ==
  /\ i # 0 /\ j \in Nat /\ k \in Int /\ j + k = i - 1 /\ j <= k + 1
  /\ DOMAIN buffer = 0 .. i /\ buffer[i] = NUL
  /\ \E r : /\ Quotients(r, i, value, base) /\ r[i] = 0
            /\ \A p \in 0 .. i - 1 : buffer[p] = Digit(r[Place(p)] % base)

NInv ==
  /\ base \in {10, 16} /\ value \in Nat /\ i \in Nat
  /\ given \in Int /\ value = (IF given >= 0 THEN given ELSE given + Width)
  /\ value = 0 => given = 0
  /\ itosPc \in {"idle", "digits", "reverse", "done"}
  /\ itosPc = "digits" => Writing
  /\ itosPc \in {"reverse", "done"} => Turning
  /\ itosPc = "done" => j >= k

\* What a conversion to a u32 makes of an int.
LEMMA SameBits ==
  ASSUME NEW w \in Nat \ {0}, NEW v \in Int, v < w, -w < v
  PROVE  v % w = IF v >= 0 THEN v ELSE v + w
<1>1. PICK p \in Int, s \in 0 .. w - 1 : s = v % w /\ v = w * p + s
  <2>1. v \div w \in Int /\ v % w \in 0 .. w - 1
    OBVIOUS
  <2>2. v = w * (v \div w) + (v % w)
    OBVIOUS
  <2> QED BY <2>1, <2>2
<1>2. CASE p >= 1
  <2>1. PICK d \in Nat : p = 1 + d
    <3>1. p - 1 \in Nat /\ p = 1 + (p - 1)
      BY <1>2
    <3> QED BY <3>1
  <2>2. w * p = w + w * d /\ w * d \in Nat
    BY <2>1
  <2> QED BY <1>1, <2>2
<1>3. CASE p <= -2
  <2>1. PICK d \in Nat : p = -2 - d
    <3>1. -2 - p \in Nat /\ p = -2 - (-2 - p)
      BY <1>3
    <3> QED BY <3>1
  <2>2. w * p = -w - w - w * d /\ w * d \in Nat
    BY <2>1
  <2> QED BY <1>1, <2>2
<1>4. CASE p = 0
  BY <1>1, <1>4
<1>5. CASE p = -1
  <2>1. w * p = -w
    BY <1>5
  <2> QED BY <1>1, <2>1
<1> QED BY <1>2, <1>3, <1>4, <1>5

LEMMA NInitially == Init => NInv
BY DEF Init, ItosIdle, NInv

LEMMA ItosStarts ==
  ASSUME NEW v \in Values, NEW b \in {10, 16}, Itos(v, b)
  PROVE  NInv'
<1>1. /\ v \in Int /\ v % Width \in Nat
      /\ v % Width = (IF v >= 0 THEN v ELSE v + Width)
      /\ v % Width = 0 => v = 0
  <2>1. v \in Int /\ Width \in Nat \ {0} /\ v < Width /\ -Width < v
    BY NumberAssumption
  <2>2. v % Width = IF v >= 0 THEN v ELSE v + Width
    BY <2>1, SameBits
  <2> QED BY <2>1, <2>2
<1>2. /\ given' = v /\ value' = v % Width /\ base' = b /\ n' = value' /\ i' = 0 /\ itosPc' = "digits"
      /\ buffer' = Nothing
  BY DEF Itos
<1>3. PICK r : Quotients(r, 0, value', base') /\ r[0] = value'
  BY <1>1, <1>2, NoneYet
<1>4. DOMAIN buffer' = 0 .. 0 - 1
  BY <1>2 DEF Nothing
<1>5. Writing'
  BY <1>2, <1>3, <1>4 DEF Writing
<1> QED BY <1>1, <1>2, <1>5 DEF NInv

\* A digit written behind those there are.
LEMMA DigitWritten ==
  ASSUME NInv, itosPc = "digits", n # 0 \/ i = 0,
         buffer' = Stored(i, Digit(n % base)), i' = i + 1, n' = n \div base,
         UNCHANGED <<given, value, base, itosPc>>
  PROVE  NInv'
<1>1. base \in Nat \ {0} /\ value \in Nat /\ i \in Nat
  BY DEF NInv
<1>2. PICK r : /\ Quotients(r, i, value, base) /\ r[i] = n
               /\ DOMAIN buffer = 0 .. i - 1
               /\ \A p \in 0 .. i - 1 : buffer[p] = Digit(r[p] % base)
  BY DEF NInv, Writing
<1>3. r[i] # 0 \/ (i = 0 /\ value = 0)
  BY <1>2 DEF Quotients
<1>4. PICK q : /\ Quotients(q, i + 1, value, base) /\ q[i + 1] = r[i] \div base
               /\ \A p \in 0 .. i : q[p] = r[p]
  BY <1>1, <1>2, <1>3, OneMore
<1>5. /\ DOMAIN buffer' = 0 .. i
      /\ \A p \in 0 .. i : buffer'[p] = IF p = i THEN Digit(n % base) ELSE buffer[p]
  <2>1. (0 .. i - 1) \cup {i} = 0 .. i
    BY <1>1
  <2>2. buffer' = [p \in 0 .. i |-> IF p = i THEN Digit(n % base) ELSE buffer[p]]
    BY <1>2, <2>1 DEF Stored
  <2> QED BY <2>2
<1>6. \A p \in 0 .. i : buffer'[p] = Digit(q[p] % base)
  <2> SUFFICES ASSUME NEW p \in 0 .. i PROVE buffer'[p] = Digit(q[p] % base)
    OBVIOUS
  <2>1. CASE p = i
    BY <1>2, <1>4, <1>5, <2>1
  <2>2. CASE p # i
    <3>1. p \in 0 .. i - 1
      BY <1>1, <2>2
    <3> QED BY <1>2, <1>4, <1>5, <2>2, <3>1
  <2> QED BY <2>1, <2>2
<1>7. i' - 1 = i /\ i' \in Nat
  BY <1>1
<1>8. Writing'
  BY <1>2, <1>4, <1>5, <1>6, <1>7 DEF Writing
<1> QED BY <1>1, <1>7, <1>8 DEF NInv

LEMMA Terminated == NInv /\ Terminate => NInv'
<1> SUFFICES ASSUME NInv, Terminate PROVE NInv'
  OBVIOUS
<1>1. /\ itosPc = "digits" /\ n = 0 /\ i # 0 /\ i \in Nat
      /\ buffer' = Stored(i, NUL) /\ j' = 0 /\ k' = i - 1 /\ itosPc' = "reverse"
      /\ UNCHANGED <<given, value, base, n, i>>
  BY DEF NInv, Terminate, LastDigit
<1>2. PICK r : /\ Quotients(r, i, value, base) /\ r[i] = 0
               /\ DOMAIN buffer = 0 .. i - 1
               /\ \A p \in 0 .. i - 1 : buffer[p] = Digit(r[p] % base)
  BY <1>1 DEF NInv, Writing
<1>3. /\ DOMAIN buffer' = 0 .. i /\ buffer'[i] = NUL
      /\ \A p \in 0 .. i - 1 : buffer'[p] = buffer[p]
  <2>1. (0 .. i - 1) \cup {i} = 0 .. i
    BY <1>1
  <2>2. buffer' = [p \in 0 .. i |-> IF p = i THEN NUL ELSE buffer[p]]
    BY <1>1, <1>2, <2>1 DEF Stored
  <2>3. i \in 0 .. i /\ \A p \in 0 .. i - 1 : p \in 0 .. i /\ p # i
    BY <1>1
  <2> QED BY <2>2, <2>3
<1>4. \A p \in 0 .. i - 1 : Place(p)' = p
  BY <1>1 DEF Place
<1>5. Turning'
  BY <1>1, <1>2, <1>3, <1>4 DEF Turning
<1> QED BY <1>1, <1>5 DEF NInv

LEMMA Swapped == NInv /\ Swap => NInv'
<1> SUFFICES ASSUME NInv, Swap PROVE NInv'
  OBVIOUS
<1>1. /\ itosPc = "reverse" /\ j < k /\ Turning
      /\ buffer' = [buffer EXCEPT ![j] = buffer[k], ![k] = buffer[j]]
      /\ j' = j + 1 /\ k' = k - 1 /\ UNCHANGED <<given, value, base, n, i, itosPc>>
  BY DEF NInv, Swap
<1>2. /\ i \in Nat /\ i # 0 /\ j \in Nat /\ k \in Int /\ j + k = i - 1
      /\ DOMAIN buffer = 0 .. i /\ buffer[i] = NUL
  BY <1>1 DEF NInv, Turning
<1>3. PICK r : /\ Quotients(r, i, value, base) /\ r[i] = 0
               /\ \A p \in 0 .. i - 1 : buffer[p] = Digit(r[Place(p)] % base)
  BY <1>1 DEF Turning
<1>4. j \in 0 .. i - 1 /\ k \in 0 .. i - 1 /\ j # k /\ k # i /\ j # i
  BY <1>1, <1>2
<1>5. /\ DOMAIN buffer' = 0 .. i
      /\ \A p \in 0 .. i : buffer'[p] = IF p = k THEN buffer[j] ELSE IF p = j THEN buffer[k] ELSE buffer[p]
  BY <1>1, <1>2, <1>4
<1>6. \A p \in 0 .. i - 1 : buffer'[p] = Digit(r[Place(p)'] % base)
  <2> SUFFICES ASSUME NEW p \in 0 .. i - 1 PROVE buffer'[p] = Digit(r[Place(p)'] % base)
    OBVIOUS
  <2>1. Place(p)' = IF j + 1 <= p /\ p <= k - 1 THEN p ELSE i - 1 - p
    BY <1>1 DEF Place
  <2>2. CASE p = k
    <3>1. Place(p)' = j
      BY <1>1, <1>2, <2>1, <2>2
    <3>2. Place(j) = j
      BY <1>1, <1>2 DEF Place
    <3>3. buffer[j] = Digit(r[j] % base)
      BY <1>3, <1>4, <3>2
    <3>4. buffer'[p] = buffer[j]
      BY <1>2, <1>4, <1>5, <2>2
    <3> QED BY <3>1, <3>3, <3>4
  <2>3. CASE p = j
    <3>1. Place(p)' = k
      BY <1>1, <1>2, <2>1, <2>3
    <3>2. Place(k) = k
      BY <1>1, <1>2 DEF Place
    <3>3. buffer[k] = Digit(r[k] % base)
      BY <1>3, <1>4, <3>2
    <3>4. buffer'[p] = buffer[k]
      BY <1>2, <1>4, <1>5, <2>3
    <3> QED BY <3>1, <3>3, <3>4
  <2>4. CASE p # k /\ p # j
    <3>1. Place(p)' = Place(p)
      BY <1>1, <1>2, <2>1, <2>4 DEF Place
    <3>2. buffer'[p] = buffer[p]
      BY <1>2, <1>5, <2>4
    <3> QED BY <1>3, <3>1, <3>2
  <2> QED BY <2>2, <2>3, <2>4
<1>7. j' \in Nat /\ k' \in Int /\ j' + k' = i' - 1 /\ j' <= k' + 1 /\ i' # 0
  BY <1>1, <1>2
<1>8. DOMAIN buffer' = 0 .. i' /\ buffer'[i'] = NUL
  BY <1>1, <1>2, <1>4, <1>5
<1>9. Turning'
  <2>1. /\ Quotients(r, i', value', base') /\ r[i'] = 0
        /\ \A p \in 0 .. i' - 1 : buffer'[p] = Digit(r[Place(p)'] % base')
    BY <1>1, <1>3, <1>6
  <2> QED BY <1>7, <1>8, <2>1 DEF Turning
<1> QED BY <1>1, <1>2, <1>9 DEF NInv

LEMMA NInductive == NInv /\ [Next]_vars => NInv'
<1> SUFFICES ASSUME NInv, [Next]_vars PROVE NInv'
  OBVIOUS
<1>1. CASE UNCHANGED itosVars
  BY <1>1 DEF NInv, Writing, Turning, Place, itosVars
<1>2. CASE ConvertNumber
  <2>1. PICK v \in Values : Itos(v, Base[Ch(at + 1)]) /\ Ch(at + 1) \in DOMAIN Base
    BY <1>2 DEF ConvertNumber
  <2>2. Base[Ch(at + 1)] \in {10, 16}
    BY <2>1 DEF Base
  <2> QED BY <2>1, <2>2, ItosStarts
<1>3. CASE PrintNumber
  BY <1>3 DEF PrintNumber, NInv
<1>4. CASE WriteDigit
  BY <1>4, DigitWritten DEF WriteDigit
<1>5. CASE WriteZero
  <2>1. /\ itosPc = "digits" /\ n = 0 /\ i = 0 /\ buffer' = Stored(0, Digit(0)) /\ i' = 1
        /\ UNCHANGED <<given, value, base, n, itosPc>>
    BY <1>5 DEF WriteZero
  <2>2. 0 \div base = 0 /\ 0 % base = 0
    <3>1. base \in Nat \ {0}
      BY DEF NInv
    <3>2. (0 * base + 0) \div base = 0 /\ (0 * base + 0) % base = 0
      BY <3>1, DivMod
    <3>3. 0 * base + 0 = 0
      BY <3>1
    <3> QED BY <3>2, <3>3
  <2>3. buffer' = Stored(i, Digit(n % base)) /\ i' = i + 1 /\ n' = n \div base
    BY <2>1, <2>2
  <2> QED BY <2>1, <2>3, DigitWritten
<1>6. CASE Terminate
  BY <1>6, Terminated
<1>7. CASE Swap
  BY <1>7, Swapped
<1>8. CASE Return
  <2>1. itosPc = "reverse" /\ j >= k /\ itosPc' = "done"
        /\ UNCHANGED <<given, value, base, buffer, n, i, j, k>>
    BY <1>8 DEF Return
  <2>2. Turning' <=> Turning
    BY <2>1 DEF Turning, Place
  <2> QED BY <2>1, <2>2 DEF NInv
<1>9. CASE PrintRun \/ PrintArgument \/ PrintRest
  BY <1>1, <1>9 DEF PrintRun, PrintArgument, PrintRest
<1>10. CASE UNCHANGED vars
  BY <1>1, <1>10 DEF vars
<1> QED BY <1>2, <1>3, <1>4, <1>5, <1>6, <1>7, <1>8, <1>9, <1>10 DEF Next, ItosStep

\* What printf prints for %d and %x: countDigit's many characters, which mean the
\* argument in its base if it is not below 0, and else the u32 of the same bits,
\* so that no negative int is printed as itself; no leading zero, and one byte
\* behind them, the zero, is all that itos writes besides.
THEOREM EveryNumberPrinted == Spec => []NumberPrinted
<1>1. NInv => NumberPrinted
  <2> SUFFICES ASSUME NInv, itosPc = "done"
               PROVE  /\ DOMAIN buffer = 0 .. countDigit(value) /\ buffer[countDigit(value)] = NUL
                      /\ ValueOf[countDigit(value)] = IF given >= 0 THEN given ELSE given + Width
                      /\ buffer[0] = Digit(0) => given = 0
    BY DEF NumberPrinted
  <2>1. /\ base \in {10, 16} /\ base \in Nat \ {0} /\ base > 1 /\ value \in Nat
        /\ i \in Nat \ {0} /\ j \in Nat /\ k \in Int /\ j + k = i - 1 /\ j <= k + 1 /\ j >= k
        /\ DOMAIN buffer = 0 .. i /\ buffer[i] = NUL
    BY DEF NInv, Turning
  <2>2. PICK r : /\ Quotients(r, i, value, base) /\ r[i] = 0
                 /\ \A p \in 0 .. i - 1 : buffer[p] = Digit(r[Place(p)] % base)
    BY DEF NInv, Turning
  <2>3. \A p \in 0 .. i - 1 : Place(p) = i - 1 - p
    BY <2>1 DEF Place
  <2>4. \A p \in 0 .. i - 1 : buffer[p] = Digit(r[i - 1 - p] % base)
    BY <2>2, <2>3
  <2>5. countDigit(value) = i
    BY <2>1, <2>2, CountIs
  <2>6. ValueOf[i] = value
    BY <2>1, <2>2, <2>4, ValueIs
  <2>7. ASSUME buffer[0] = Digit(0) PROVE value = 0
    <3>1. PICK l \in 0 .. i - 1 : l = i - 1 - 0 /\ l + 1 = i
      <4>1. i - 1 - 0 \in 0 .. i - 1 /\ (i - 1 - 0) + 1 = i /\ 0 \in 0 .. i - 1
        BY <2>1
      <4> QED BY <4>1
    <3>2. r[l] \in Nat /\ r[l] \div base = 0
      BY <2>2, <3>1 DEF Quotients
    <3>3. PICK x \in 0 .. base - 1 : x = r[l] % base
      <4>1. r[l] % base \in 0 .. base - 1
        BY <2>1, <3>2, DivIs
      <4> QED BY <4>1
    <3>4. r[l] = r[l] % base /\ r[l] \in 0 .. 15
      <4>1. r[l] = (r[l] \div base) * base + (r[l] % base)
        BY <2>1, <3>2, DivIs
      <4>2. r[l] = 0 * base + x
        BY <3>2, <3>3, <4>1
      <4>3. 0 * base = 0
        BY <2>1
      <4>4. x \in 0 .. 15
        <5>1. base = 10 \/ base = 16
          BY <2>1
        <5>2. CASE base = 10
          BY <5>2
        <5>3. CASE base = 16
          BY <5>3
        <5> QED BY <5>1, <5>2, <5>3
      <4>5. r[l] = 0 + x
        BY <4>2, <4>3
      <4>6. 0 + x = x
        BY <4>4
      <4> QED BY <3>3, <4>4, <4>5, <4>6
    <3>5. Digit(r[l]) = Digit(0)
      <4>1. 0 \in 0 .. i - 1
        BY <2>1
      <4> QED BY <2>4, <2>7, <3>1, <3>4, <4>1
    <3>6. r[l] = 0
      BY <3>4, <3>5, DigitIs
    <3> QED BY <2>2, <3>1, <3>6 DEF Quotients
  <2> QED BY <2>1, <2>5, <2>6, <2>7 DEF NInv
<1>2. NInv /\ [Next]_vars => NInv'
  BY NInductive
<1> QED BY <1>1, <1>2, NInitially, PTL DEF Spec
=============================================================================
