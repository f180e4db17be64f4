------------------------------- MODULE Arithmetic -------------------------------
(***************************************************************************)
(* What the proofs of several parts share about numbers: induction, from   *)
(* the least counterexample, and what \div and % are for a divisor that is *)
(* not a literal.                                                          *)
(***************************************************************************)
EXTENDS Integers, WellFoundedInduction, TLAPS

\* A set of naturals with zero and every successor has every natural.
LEMMA InductionOverNat ==
  ASSUME NEW T \in SUBSET Nat, 0 \in T, \A n \in T : n + 1 \in T
  PROVE  T = Nat
<1> SUFFICES ASSUME Nat \ T # {} PROVE FALSE
  OBVIOUS
<1> DEFINE R == OpToRel(<, Nat)
<1>1. PICK x \in Nat \ T : \A y \in Nat \ T : ~ (<<y, x>> \in R)
  <2> HIDE DEF R
  <2>1. IsWellFoundedOn(R, Nat)
    BY NatLessThanWellFounded DEF R
  <2>2. Nat \ T \subseteq Nat /\ Nat \ T # {}
    OBVIOUS
  <2> QED BY <2>1, <2>2, WFMin
<1>2. x - 1 \in Nat /\ x - 1 < x
  OBVIOUS
<1>3. x - 1 \in T
  BY <1>1, <1>2 DEF OpToRel
<1> QED BY <1>2, <1>3

\* A function on 0 .. n whose values are each made of the one before, by G.
Steps(n, V) == [1 .. n -> [V -> V]]
Follows(f, n, V, v, G) ==
  f \in [0 .. n -> V] /\ f[0] = v /\ \A k \in 1 .. n : f[k] = G[k][f[k - 1]]

LEMMA RecursionUpTo ==
  ASSUME NEW n \in Nat, NEW V, NEW v \in V, NEW G \in Steps(n, V)
  PROVE  \E f : Follows(f, n, V, v, G)
<1>0. G \in [1 .. n -> [V -> V]]
  BY DEF Steps
<1> DEFINE Good(m, f) == /\ f \in [0 .. m -> V] /\ f[0] = v
                         /\ \A k \in 1 .. m : k <= n => f[k] = G[k][f[k - 1]]
           T == {m \in Nat : \E f : Good(m, f)}
<1>1. 0 \in T
  <2> DEFINE f == [k \in 0 .. 0 |-> v]
  <2>1. Good(0, f)
    OBVIOUS
  <2> HIDE DEF Good, f
  <2> QED BY <2>1
<1>2. ASSUME NEW m \in T PROVE m + 1 \in T
  <2>1. PICK f : Good(m, f)
    OBVIOUS
  <2> DEFINE last == IF m + 1 <= n THEN G[m + 1][f[m]] ELSE v
             g == [k \in 0 .. m + 1 |-> IF k = m + 1 THEN last ELSE f[k]]
  <2>2. last \in V
    <3>1. f[m] \in V
      BY <2>1
    <3>2. CASE m + 1 <= n
      <4>1. m + 1 \in 1 .. n /\ G[m + 1] \in [V -> V]
        BY <1>0, <3>2
      <4> QED BY <3>1, <3>2, <4>1
    <3> QED BY <3>2
  <2>3. g \in [0 .. m + 1 -> V] /\ g[0] = v
    <3> HIDE DEF last
    <3> QED BY <2>1, <2>2
  <2>4. ASSUME NEW k \in 1 .. m + 1, k <= n PROVE g[k] = G[k][g[k - 1]]
    <3>1. CASE k = m + 1
      <4>1. g[k] = G[k][f[m]] /\ g[k - 1] = f[m]
        BY <2>4, <3>1
      <4> HIDE DEF g
      <4> QED BY <4>1
    <3>2. CASE k # m + 1
      <4>1. k \in 1 .. m /\ k - 1 \in 0 .. m /\ k - 1 # m + 1
        BY <3>2
      <4>2. g[k] = f[k] /\ g[k - 1] = f[k - 1]
        BY <3>2, <4>1
      <4>3. f[k] = G[k][f[k - 1]]
        BY <2>1, <2>4, <4>1
      <4> HIDE DEF g
      <4> QED BY <4>2, <4>3
    <3> QED BY <3>1, <3>2
  <2>5. Good(m + 1, g)
    <3> HIDE DEF g
    <3> QED BY <2>3, <2>4
  <2> HIDE DEF Good, g
  <2> QED BY <2>5
<1>3. n \in T
  <2>1. T \in SUBSET Nat
    OBVIOUS
  <2>2. T = Nat
    <3> HIDE DEF T
    <3> QED BY <1>1, <1>2, <2>1, InductionOverNat
  <2> QED BY <2>2
<1>4. PICK f : Good(n, f)
  BY <1>3
<1>5. Follows(f, n, V, v, G)
  BY <1>4 DEF Follows
<1> QED BY <1>5

\* A set of naturals with every number below which it has all has every natural.
LEMMA StrongInduction ==
  ASSUME NEW T \in SUBSET Nat, \A n \in Nat : (\A m \in 0 .. n - 1 : m \in T) => n \in T
  PROVE  T = Nat
<1> DEFINE B == {n \in Nat : \A m \in 0 .. n - 1 : m \in T}
<1>1. 0 \in B
  OBVIOUS
<1>2. ASSUME NEW n \in B PROVE n + 1 \in B
  <2>1. n \in T
    OBVIOUS
  <2> QED BY <2>1
<1>3. B \in SUBSET Nat
  OBVIOUS
<1>4. B = Nat
  <2> HIDE DEF B
  <2> QED BY <1>1, <1>2, <1>3, InductionOverNat
<1> QED BY <1>4

\* A function on the naturals whose value at m is b times its value at a smaller
\* number, D[m], and e[m] more.
Below(f, D, b, e) == f = [m \in Nat |-> IF m = 0 THEN 0 ELSE f[D[m]] * b + e[m]]

LEMMA RecursionBelow ==
  ASSUME NEW D, NEW b, NEW e, \A m \in Nat \ {0} : D[m] \in 0 .. m - 1
  PROVE  \E f : Below(f, D, b, e)
<1> DEFINE Step(p, m) == IF m = 0 THEN 0 ELSE p[D[m]] * b + e[m]
           Good(k, p) == p = [m \in 0 .. k |-> Step(p, m)]
           T == {k \in Nat : \E p : Good(k, p)}
<1>1. ASSUME NEW m \in Nat, NEW p, NEW q, m # 0 => p[D[m]] = q[D[m]]
      PROVE  Step(p, m) = Step(q, m)
  <2>1. CASE m = 0
    BY <2>1
  <2>2. CASE m # 0
    <3>1. p[D[m]] = q[D[m]]
      BY <1>1, <2>2
    <3> QED BY <3>1
  <2> QED BY <2>1, <2>2
<1> HIDE DEF Step
<1>2. T = Nat
  <2>1. 0 \in T
    <3> DEFINE p == [m \in 0 .. 0 |-> 0]
    <3>1. \A m \in 0 .. 0 : Step(p, m) = 0
      BY DEF Step
    <3>2. Good(0, p)
      <4> HIDE DEF Step
      <4> QED BY <3>1
    <3> HIDE DEF Good, p
    <3> QED BY <3>2
  <2>2. ASSUME NEW k \in T PROVE k + 1 \in T
    <3>1. PICK p : Good(k, p)
      OBVIOUS
    <3> DEFINE q == [m \in 0 .. k + 1 |-> Step(p, m)]
    <3>2. \A m \in 0 .. k : p[m] = Step(p, m)
      BY <3>1
    <3>3. \A m \in 0 .. k : m \in 0 .. k + 1 /\ q[m] = p[m]
      BY <3>2
    <3>4. ASSUME NEW m \in 0 .. k + 1 PROVE Step(q, m) = Step(p, m)
      <4>1. m \in Nat /\ (m # 0 => D[m] \in 0 .. k)
        OBVIOUS
      <4>2. m # 0 => q[D[m]] = p[D[m]]
        <5> HIDE DEF q
        <5> QED BY <3>3, <4>1
      <4> HIDE DEF q
      <4> QED BY <1>1, <4>1, <4>2
    <3>5. Good(k + 1, q)
      <4>1. q = [m \in 0 .. k + 1 |-> Step(p, m)]
        OBVIOUS
      <4> HIDE DEF q
      <4> QED BY <3>4, <4>1, Zenon
    <3> HIDE DEF Good, q
    <3> QED BY <3>5
  <2>3. T \in SUBSET Nat
    OBVIOUS
  <2> HIDE DEF T
  <2> QED BY <2>1, <2>2, <2>3, InductionOverNat
<1>3. ASSUME NEW k \in Nat, NEW l \in Nat, NEW p, NEW q, Good(k, p), Good(l, q)
      PROVE  \A m \in 0 .. k : m <= l => p[m] = q[m]
  <2> DEFINE S == {m \in Nat : m <= k /\ m <= l => p[m] = q[m]}
  <2>1. ASSUME NEW n \in Nat, \A m \in 0 .. n - 1 : m \in S PROVE n \in S
    <3> SUFFICES ASSUME n <= k, n <= l PROVE p[n] = q[n]
      OBVIOUS
    <3>1. p[n] = Step(p, n) /\ q[n] = Step(q, n)
      <4>1. n \in 0 .. k /\ n \in 0 .. l
        OBVIOUS
      <4>2. p = [m \in 0 .. k |-> Step(p, m)] /\ q = [m \in 0 .. l |-> Step(q, m)]
        BY <1>3
      <4> HIDE DEF S, T, Good
      <4>3. p[n] = Step(p, n)
        BY <4>1, <4>2, Zenon
      <4>4. q[n] = Step(q, n)
        BY <4>1, <4>2, Zenon
      <4> QED BY <4>3, <4>4
    <3>2. n # 0 => p[D[n]] = q[D[n]]
      <4>1. n # 0 => D[n] \in S /\ D[n] <= k /\ D[n] <= l
        <5> HIDE DEF S
        <5> QED BY <2>1
      <4> QED BY <4>1
    <3> QED BY <1>1, <3>1, <3>2
  <2>2. S \in SUBSET Nat
    OBVIOUS
  <2>3. S = Nat
    <3> HIDE DEF S
    <3> QED BY <2>1, <2>2, StrongInduction
  <2> QED BY <2>3
<1> HIDE DEF Good
<1> DEFINE a(k) == CHOOSE p : Good(k, p)
           f == [m \in Nat |-> a(m)[m]]
<1>4. ASSUME NEW k \in Nat PROVE Good(k, a(k))
  BY <1>2
<1> HIDE DEF a
<1>5. ASSUME NEW m \in Nat PROVE f[m] = Step(f, m)
  <2>1. a(m)[m] = Step(a(m), m)
    BY <1>4 DEF Good
  <2>2. m # 0 => a(m)[D[m]] = f[D[m]]
    <3> SUFFICES ASSUME m # 0 PROVE a(m)[D[m]] = f[D[m]]
      OBVIOUS
    <3>1. D[m] \in Nat /\ D[m] <= m /\ D[m] \in 0 .. m
      OBVIOUS
    <3>2. a(m)[D[m]] = a(D[m])[D[m]]
      <4>1. PICK d \in Nat : d = D[m]
        BY <3>1
      <4>2. Good(m, a(m)) /\ Good(d, a(d)) /\ d \in 0 .. m /\ d <= d
        BY <1>4, <3>1, <4>1
      <4>3. a(m)[d] = a(d)[d]
        BY <1>3, <4>2
      <4> QED BY <4>1, <4>3
    <3> QED BY <3>1, <3>2
  <2>3. Step(a(m), m) = Step(f, m)
    <3> HIDE DEF f
    <3> QED BY <1>1, <2>2
  <2> QED BY <2>1, <2>3
<1>6. f = [m \in Nat |-> Step(f, m)]
  <2>1. f = [m \in Nat |-> f[m]]
    OBVIOUS
  <2> HIDE DEF f
  <2> QED BY <1>5, <2>1, Zenon
<1> HIDE DEF f
<1> QED BY <1>6 DEF Step, Below

\* Quotient and remainder make up the number that is divided.
LEMMA DivIs ==
  ASSUME NEW n \in Nat \ {0}, NEW x \in Nat
  PROVE  /\ x \div n \in Nat /\ x % n \in 0 .. n - 1
         /\ x = (x \div n) * n + (x % n)
<1>1. x \div n \in Nat /\ x % n \in 0 .. n - 1 /\ x = n * (x \div n) + (x % n)
  OBVIOUS
<1>2. PICK q \in Nat : q = x \div n
  BY <1>1
<1>3. n * q = q * n
  BY <1>2
<1> QED BY <1>1, <1>2, <1>3

\* Division by the number that was multiplied by.
LEMMA DivMod ==
  ASSUME NEW n \in Nat \ {0}, NEW q \in Nat, NEW r \in 0 .. n - 1
  PROVE  (q * n + r) \div n = q /\ (q * n + r) % n = r
<1> DEFINE x == q * n + r
<1>1. x \in Nat
  OBVIOUS
<1>2. PICK p \in Nat, s \in 0 .. n - 1 : p = x \div n /\ s = x % n /\ x = n * p + s
  <2> HIDE DEF x
  <2>1. x \div n \in Nat /\ x % n \in 0 .. n - 1 /\ x = n * (x \div n) + (x % n)
    BY <1>1
  <2> QED BY <2>1
<1>3. n * p + s = q * n + r
  BY <1>2
<1>4. p = q
  <2>1. CASE p > q
    <3>1. PICK d \in Nat : p = q + 1 + d
      <4>1. p - q - 1 \in Nat /\ p = q + 1 + (p - q - 1)
        BY <2>1
      <4> QED BY <4>1
    <3>2. n * p = q * n + n + n * d /\ n * d \in Nat /\ q * n \in Nat
      BY <3>1
    <3> QED BY <1>3, <3>2
  <2>2. CASE q > p
    <3>1. PICK d \in Nat : q = p + 1 + d
      <4>1. q - p - 1 \in Nat /\ q = p + 1 + (q - p - 1)
        BY <2>2
      <4> QED BY <4>1
    <3>2. q * n = n * p + n + n * d /\ n * d \in Nat /\ n * p \in Nat
      BY <3>1
    <3> QED BY <1>3, <3>2
  <2> QED BY <2>1, <2>2
<1>5. s = r
  <2> DEFINE y == n * q
  <2>1. y \in Nat /\ q * n = y /\ n * p = y
    BY <1>4
  <2> HIDE DEF y
  <2> QED BY <1>3, <2>1
<1> QED BY <1>2, <1>4, <1>5

\* A larger number has no smaller quotient.
LEMMA DivMonotone ==
  ASSUME NEW n \in Nat \ {0}, NEW x \in Nat, NEW y \in Nat, x <= y
  PROVE  x \div n <= y \div n
<1>1. PICK p \in Nat, r \in 0 .. n - 1 : p = x \div n /\ x = p * n + r
  BY DivIs
<1>2. PICK q \in Nat, s \in 0 .. n - 1 : q = y \div n /\ y = q * n + s
  BY DivIs
<1>3. ASSUME p > q PROVE FALSE
  <2>1. PICK d \in Nat : p = q + 1 + d
    <3>1. p - q - 1 \in Nat /\ p = q + 1 + (p - q - 1)
      BY <1>3
    <3> QED BY <3>1
  <2>2. p * n = q * n + n + n * d /\ n * d \in Nat /\ q * n \in Nat
    BY <2>1
  <2> QED BY <1>1, <1>2, <2>2
<1> QED BY <1>1, <1>2, <1>3
=============================================================================
