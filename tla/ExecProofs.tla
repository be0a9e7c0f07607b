----------------------------- MODULE ExecProofs -----------------------------
(***************************************************************************)
(* The decoder and the integer instructions, for bytes of any width, every  *)
(* memory and every instruction.                                            *)
(***************************************************************************)
EXTENDS Exec, WellFoundedInduction, TLAPS

-----------------------------------------------------------------------------
(* Induction *)

\* A set with 0, and with the successor of each of its members, is Nat.
LEMMA Induction ==
  ASSUME NEW T \in SUBSET Nat, 0 \in T, \A n \in T : n + 1 \in T
  PROVE  T = Nat
<1> DEFINE R == OpToRel(<, Nat)
           C == Nat \ T
<1>1. IsWellFoundedOn(R, Nat)
  BY Zenon, NatLessThanWellFounded
<1>2. \A x, y \in Nat : y < x => <<y, x>> \in R
  BY DEF OpToRel
<1> HIDE DEF R
<1> SUFFICES ASSUME C # {} PROVE FALSE
  BY Zenon
<1>3. PICK x \in C : \A y \in C : <<y, x>> \notin R
  <2>1. C \in SUBSET Nat
    OBVIOUS
  <2> HIDE DEF C
  <2> QED BY Zenon, <1>1, <2>1, WFMin
<1>4. x \in Nat /\ x # 0 /\ x \notin T
  OBVIOUS
<1>5. x - 1 \in Nat /\ x - 1 < x
  BY <1>4
<1>6. x - 1 \in T
  BY Zenon, <1>2, <1>3, <1>4, <1>5
<1>7. (x - 1) + 1 \in T
  BY <1>6
<1> QED BY <1>4, <1>7

\* f[0] = z and f[k] = c * f[k - 1] + t[k] up to n.
Solves(f, c, z, t, n) == f[0] = z /\ \A k \in 1 .. n : f[k] = c * f[k - 1] + t[k]

\* Such a recursion has a solution up to any n ...
LEMMA SolutionUpto ==
  ASSUME NEW c \in Int, NEW z \in Int, NEW t \in [Nat -> Int], NEW n \in Nat
  PROVE  \E g \in [0 .. n -> Int] : Solves(g, c, z, t, n)
<1> DEFINE T == {m \in Nat : \E g \in [0 .. m -> Int] : Solves(g, c, z, t, m)}
<1>1. 0 \in T
  <2> DEFINE g == [k \in 0 .. 0 |-> z]
  <2>1. g \in [0 .. 0 -> Int] /\ Solves(g, c, z, t, 0)
    BY DEF Solves
  <2> QED BY Zenon, <2>1
<1>2. ASSUME NEW m \in T PROVE m + 1 \in T
  <2>1. PICK g \in [0 .. m -> Int] : Solves(g, c, z, t, m)
    BY Zenon
  <2>2. m \in Nat
    BY Zenon
  <2> DEFINE h == [k \in 0 .. m + 1 |-> IF k = m + 1 THEN c * g[m] + t[m + 1] ELSE g[k]]
  <2>3. h \in [0 .. m + 1 -> Int]
    <3>1. g[m] \in Int /\ t[m + 1] \in Int
      BY <2>2
    <3>2. c * g[m] + t[m + 1] \in Int
      BY <3>1
    <3> QED BY <2>2, <3>2
  <2>4. h[0] = z
    BY <2>1, <2>2 DEF Solves
  <2>5. ASSUME NEW k \in 1 .. m + 1 PROVE h[k] = c * h[k - 1] + t[k]
    <3>1. CASE k = m + 1
      BY <2>2, <3>1
    <3>2. CASE k # m + 1
      <4>1. k \in 1 .. m /\ h[k] = g[k] /\ h[k - 1] = g[k - 1]
        BY <2>2, <3>2
      <4> QED BY <2>1, <4>1 DEF Solves
    <3> QED BY <3>1, <3>2
  <2>6. m + 1 \in Nat /\ Solves(h, c, z, t, m + 1)
    <3> HIDE DEF h
    <3>1. m + 1 \in Nat
      BY <2>2
    <3> QED BY Zenon, <2>4, <2>5, <3>1 DEF Solves
  <2> QED BY Zenon, <2>3, <2>6
<1>3. T \in SUBSET Nat
  OBVIOUS
<1> HIDE DEF T
<1>4. T = Nat
  BY Zenon, <1>1, <1>2, <1>3, Induction
<1>5. n \in T
  BY <1>4
<1> QED BY Zenon, <1>5 DEF T

\* ... two solutions agree where both are defined ...
LEMMA SolutionsAgree ==
  ASSUME NEW c \in Int, NEW z \in Int, NEW t \in [Nat -> Int], NEW m \in Nat, NEW n \in Nat, m <= n,
         NEW g, NEW h, Solves(g, c, z, t, m), Solves(h, c, z, t, n)
  PROVE  g[m] = h[m]
<1> DEFINE T == {k \in Nat : k <= m => g[k] = h[k]}
<1>1. 0 \in T
  BY DEF Solves
<1>2. ASSUME NEW k \in T PROVE k + 1 \in T
  <2> SUFFICES ASSUME k + 1 <= m PROVE g[k + 1] = h[k + 1]
    OBVIOUS
  <2>1. k \in Nat /\ k <= m /\ g[k] = h[k]
    OBVIOUS
  <2>2. k + 1 \in 1 .. m /\ k + 1 \in 1 .. n /\ (k + 1) - 1 = k
    BY <2>1
  <2>3. g[k + 1] = c * g[k] + t[k + 1]
    BY <2>2 DEF Solves
  <2>4. h[k + 1] = c * h[k] + t[k + 1]
    BY <2>2 DEF Solves
  <2> QED BY <2>1, <2>3, <2>4
<1>3. T \in SUBSET Nat
  OBVIOUS
<1>4. T = Nat
  <2> HIDE DEF T
  <2> QED BY Zenon, <1>1, <1>2, <1>3, Induction
<1>5. m \in T /\ m <= m
  <2> HIDE DEF T
  <2> QED BY <1>4
<1> QED BY <1>5

\* ... so that it has one on all numbers.
LEMMA Solution ==
  ASSUME NEW c \in Int, NEW z \in Int, NEW t \in [Nat -> Int]
  PROVE  \E f \in [Nat -> Int] : \A n \in Nat : Solves(f, c, z, t, n)
<1> DEFINE G(n) == CHOOSE g \in [0 .. n -> Int] : Solves(g, c, z, t, n)
           f == [n \in Nat |-> G(n)[n]]
<1>1. ASSUME NEW n \in Nat PROVE G(n) \in [0 .. n -> Int] /\ Solves(G(n), c, z, t, n)
  BY Zenon, SolutionUpto
<1> HIDE DEF G
<1>2. f \in [Nat -> Int]
  <2>1. ASSUME NEW n \in Nat PROVE G(n)[n] \in Int
    <3>1. n \in 0 .. n
      OBVIOUS
    <3> QED BY Zenon, <1>1, <3>1
  <2> QED BY <2>1
<1>3. f[0] = z
  <2>1. 0 \in Nat
    OBVIOUS
  <2> QED BY <1>1, <2>1 DEF Solves
<1>4. ASSUME NEW k \in Nat \ {0} PROVE f[k] = c * f[k - 1] + t[k]
  <2>1. k - 1 \in Nat /\ k \in Nat /\ k - 1 <= k /\ k \in 1 .. k /\ k - 1 \in 0 .. k - 1
    OBVIOUS
  <2>2. Solves(G(k), c, z, t, k) /\ Solves(G(k - 1), c, z, t, k - 1)
    BY Zenon, <1>1, <2>1
  <2>3. G(k - 1)[k - 1] = G(k)[k - 1]
    <3>1. ASSUME NEW m \in Nat, m <= k, Solves(G(m), c, z, t, m) PROVE G(m)[m] = G(k)[m]
      <4> DEFINE g == G(m)
                 h == G(k)
      <4>1. Solves(g, c, z, t, m) /\ Solves(h, c, z, t, k) /\ k \in Nat
        BY Zenon, <2>1, <2>2, <3>1
      <4> HIDE DEF g, h
      <4>2. g[m] = h[m]
        BY <4>1, <3>1, SolutionsAgree
      <4> QED BY Zenon, <4>2 DEF g, h
    <3> QED BY Zenon, <2>1, <2>2, <3>1
  <2>4. G(k)[k] = c * G(k)[k - 1] + t[k]
    BY Zenon, <2>1, <2>2 DEF Solves
  <2> QED BY <2>1, <2>3, <2>4
<1>5. ASSUME NEW n \in Nat PROVE Solves(f, c, z, t, n)
  <2> HIDE DEF f
  <2>1. ASSUME NEW k \in 1 .. n PROVE k \in Nat \ {0}
    OBVIOUS
  <2> QED BY Zenon, <1>3, <1>4, <2>1 DEF Solves
<1> HIDE DEF f
<1> QED BY Zenon, <1>2, <1>5

-----------------------------------------------------------------------------
(* Powers of two *)

LEMMA PowDef ==
  /\ Pow2 \in [Nat -> Int]
  /\ Pow2[0] = 1
  /\ \A n \in Nat : Pow2[n + 1] = 2 * Pow2[n]
<1> DEFINE t == [n \in Nat |-> 0]
           Step(g, n) == IF n = 0 THEN 1 ELSE 2 * g[n - 1]
<1>1. t \in [Nat -> Int]
  OBVIOUS
<1>2. PICK f \in [Nat -> Int] : \A n \in Nat : Solves(f, 2, 1, t, n)
  <2> HIDE DEF t
  <2>1. 2 \in Int /\ 1 \in Int
    OBVIOUS
  <2> QED BY Zenon, <1>1, <2>1, Solution
<1>3. f = [n \in Nat |-> Step(f, n)]
  <2>1. ASSUME NEW n \in Nat PROVE f[n] = Step(f, n)
    <3>1. CASE n = 0
      BY <1>2, <3>1 DEF Solves
    <3>2. CASE n # 0
      <4>1. n \in 1 .. n /\ n - 1 \in Nat /\ t[n] = 0
        BY <3>2
      <4>2. f[n] = 2 * f[n - 1] + t[n]
        BY Zenon, <1>2, <4>1 DEF Solves
      <4>3. f[n - 1] \in Int
        BY <4>1
      <4> QED BY <3>2, <4>1, <4>2, <4>3
    <3> QED BY <3>1, <3>2
  <2> QED BY <2>1
<1>4. Pow2 = [n \in Nat |-> Step(Pow2, n)]
  BY Zenon, <1>3 DEF Pow2
<1>5. Pow2[0] = 1
  BY <1>4
<1>6. ASSUME NEW n \in Nat PROVE Pow2[n + 1] = 2 * Pow2[n]
  <2>1. n + 1 \in Nat /\ n + 1 # 0 /\ (n + 1) - 1 = n
    OBVIOUS
  <2>2. Pow2[n + 1] = Step(Pow2, n + 1)
    BY <1>4, <2>1
  <2> QED BY <2>1, <2>2
<1> DEFINE T == {n \in Nat : Pow2[n] \in Int}
<1>7. T = Nat
  <2>1. 0 \in T
    BY <1>5
  <2>2. ASSUME NEW n \in T PROVE n + 1 \in T
    <3>1. n + 1 \in Nat /\ Pow2[n] \in Int
      OBVIOUS
    <3> QED BY <1>6, <3>1
  <2>3. T \in SUBSET Nat
    OBVIOUS
  <2> HIDE DEF T
  <2> QED BY Zenon, <2>1, <2>2, <2>3, Induction
<1>8. Pow2 = [n \in Nat |-> Pow2[n]]
  BY Zenon, <1>4
<1>9. \A n \in Nat : Pow2[n] \in Int
  BY <1>7
<1> QED BY <1>5, <1>6, <1>8, <1>9

LEMMA PowPos == \A n \in Nat : Pow2[n] \in Nat /\ Pow2[n] >= 1
<1> DEFINE T == {n \in Nat : Pow2[n] \in Nat /\ Pow2[n] >= 1}
<1>1. 0 \in T
  BY PowDef
<1>2. ASSUME NEW n \in T PROVE n + 1 \in T
  <2>1. n \in Nat /\ n + 1 \in Nat /\ Pow2[n] \in Nat /\ Pow2[n] >= 1
    OBVIOUS
  <2>2. Pow2[n + 1] = 2 * Pow2[n]
    BY <2>1, PowDef
  <2> QED BY <2>1, <2>2
<1>3. T \in SUBSET Nat
  OBVIOUS
<1>4. T = Nat
  <2> HIDE DEF T
  <2> QED BY Zenon, <1>1, <1>2, <1>3, Induction
<1> QED BY <1>4

LEMMA PowOne == Pow2[1] = 2
<1>1. 0 \in Nat /\ 0 + 1 = 1
  OBVIOUS
<1> QED BY <1>1, PowDef

LEMMA PowAdd ==
  ASSUME NEW a \in Nat, NEW b \in Nat
  PROVE  Pow2[a + b] = Pow2[a] * Pow2[b]
<1> DEFINE T == {n \in Nat : Pow2[a + n] = Pow2[a] * Pow2[n]}
<1>1. 0 \in T
  <2>1. a + 0 = a /\ Pow2[a] \in Nat /\ Pow2[0] = 1
    BY PowPos, PowDef
  <2> QED BY <2>1
<1>2. ASSUME NEW n \in T PROVE n + 1 \in T
  <2>1. n \in Nat /\ n + 1 \in Nat /\ a + n \in Nat /\ a + (n + 1) = (a + n) + 1
    OBVIOUS
  <2>2. Pow2[n + 1] = 2 * Pow2[n] /\ Pow2[(a + n) + 1] = 2 * Pow2[a + n]
    BY <2>1, PowDef
  <2>3. Pow2[a] \in Nat /\ Pow2[n] \in Nat
    BY <2>1, PowPos
  <2>4. Pow2[a + n] = Pow2[a] * Pow2[n]
    OBVIOUS
  <2>5. 2 * (Pow2[a] * Pow2[n]) = Pow2[a] * (2 * Pow2[n])
    BY <2>3
  <2> QED BY <2>1, <2>2, <2>4, <2>5
<1>3. T \in SUBSET Nat
  OBVIOUS
<1>4. T = Nat
  <2> HIDE DEF T
  <2> QED BY Zenon, <1>1, <1>2, <1>3, Induction
<1> QED BY <1>4

LEMMA PowSplit ==
  ASSUME NEW a \in Nat, NEW b \in Nat, a <= b
  PROVE  b - a \in Nat /\ Pow2[b] = Pow2[a] * Pow2[b - a]
<1>1. b - a \in Nat /\ a + (b - a) = b
  OBVIOUS
<1> QED BY <1>1, PowAdd

LEMMA PowMonotone ==
  ASSUME NEW a \in Nat, NEW b \in Nat, a <= b
  PROVE  Pow2[a] <= Pow2[b]
<1>1. Pow2[b] = Pow2[a] * Pow2[b - a] /\ b - a \in Nat
  BY PowSplit
<1>2. Pow2[a] \in Nat /\ Pow2[b - a] \in Nat /\ Pow2[b - a] >= 1
  BY <1>1, PowPos
<1> DEFINE p == Pow2[a]
           q == Pow2[b - a]
<1>3. p \in Nat /\ q \in Nat /\ q >= 1
  BY <1>2
<1> HIDE DEF p, q
<1>4. p <= p * q
  BY <1>3
<1> QED BY <1>1, <1>4 DEF p, q

-----------------------------------------------------------------------------
(* Quotients and remainders *)

LEMMA DivMod ==
  ASSUME NEW x \in Int, NEW p \in Nat, p >= 1
  PROVE  /\ x \div p \in Int
         /\ x % p \in 0 .. p - 1
         /\ x = p * (x \div p) + (x % p)
OBVIOUS

LEMMA DivUnique ==
  ASSUME NEW x \in Int, NEW p \in Nat, p >= 1, NEW q \in Int, NEW r \in 0 .. p - 1, x = p * q + r
  PROVE  x \div p = q /\ x % p = r
OBVIOUS

LEMMA DivDiv ==
  ASSUME NEW x \in Int, NEW p \in Nat, p >= 1, NEW q \in Nat, q >= 1
  PROVE  (x \div p) \div q = x \div (p * q)
OBVIOUS

LEMMA ProductPos ==
  ASSUME NEW p \in Nat, p >= 1, NEW q \in Nat, q >= 1
  PROVE  p * q \in Nat /\ p * q >= 1
OBVIOUS

\* The quotient and the remainder of a remainder by a multiple.
LEMMA ModDiv ==
  ASSUME NEW x \in Int, NEW p \in Nat, p >= 1, NEW q \in Nat, q >= 1
  PROVE  (x % (p * q)) \div p = (x \div p) % q /\ (x % (p * q)) % p = x % p
<1> DEFINE y == x \div p
           s == x % p
           z == y \div q
           r == y % q
           v == p * r + s
<1>1. y \in Int /\ s \in 0 .. p - 1 /\ x = p * y + s
  BY DivMod
<1>2. z \in Int /\ r \in 0 .. q - 1 /\ y = q * z + r
  <2> HIDE DEF y
  <2> QED BY <1>1, DivMod
<1> HIDE DEF y, s, z, r
<1>3. v \in 0 .. p * q - 1
  <2>1. p * r <= p * (q - 1)
    BY <1>2
  <2>2. p * (q - 1) = p * q - p
    OBVIOUS
  <2>3. p * r \in Nat
    BY <1>2
  <2> QED BY <1>1, <2>1, <2>2, <2>3
<1>4. x = (p * q) * z + v
  <2>1. x = p * (q * z + r) + s
    BY <1>1, <1>2
  <2>2. p * (q * z + r) = p * (q * z) + p * r
    BY <1>2
  <2>3. p * (q * z) = (p * q) * z
    BY <1>2
  <2> QED BY <1>1, <1>2, <2>1, <2>2, <2>3
<1>5. x % (p * q) = v
  <2> DEFINE pq == p * q
  <2>1. pq \in Nat /\ pq >= 1
    BY ProductPos
  <2> HIDE DEF pq, v
  <2>2. v \in 0 .. pq - 1 /\ x = pq * z + v
    BY <1>3, <1>4 DEF pq
  <2> QED BY Zenon, <1>2, <2>1, <2>2, DivUnique DEF pq
<1>6. v \div p = r /\ v % p = s
  <2> HIDE DEF v
  <2>1. v \in Int /\ v = p * r + s /\ r \in Int
    BY <1>1, <1>2, <1>3 DEF v
  <2> QED BY <1>1, <2>1, DivUnique
<1> QED BY Zenon, <1>5, <1>6 DEF y, s, r

LEMMA MulDiv ==
  ASSUME NEW x \in Int, NEW p \in Nat, p >= 1, NEW q \in Nat, q >= 1
  PROVE  (x * p) \div (p * q) = x \div q /\ (x * p) % (p * q) = p * (x % q)
<1> DEFINE y == x \div q
           r == x % q
           pq == p * q
           v == p * r
<1>1. y \in Int /\ r \in 0 .. q - 1 /\ x = q * y + r
  BY DivMod
<1> HIDE DEF y, r
<1>2. v \in 0 .. p * q - 1
  <2>1. p * r <= p * (q - 1)
    BY <1>1
  <2>2. p * (q - 1) = p * q - p
    OBVIOUS
  <2>3. p * r \in Nat
    BY <1>1
  <2> QED BY <1>1, <2>1, <2>2, <2>3
<1>3. x * p = pq * y + v
  <2>1. (q * y + r) * p = (q * y) * p + r * p
    BY <1>1
  <2>2. (q * y) * p = (p * q) * y /\ r * p = p * r
    BY <1>1
  <2> QED BY <1>1, <2>1, <2>2
<1>4. pq \in Nat /\ pq >= 1 /\ x * p \in Int
  BY ProductPos
<1>5. v \in 0 .. pq - 1
  BY <1>2
<1> HIDE DEF pq, v
<1>6. (x * p) \div pq = y /\ (x * p) % pq = v
  BY <1>1, <1>3, <1>4, <1>5, DivUnique
<1> QED BY <1>6 DEF y, r, pq, v

-----------------------------------------------------------------------------
(* Bits *)

LEMMA BitType ==
  ASSUME NEW x \in Int, NEW k \in Nat
  PROVE  Bit(x, k) \in {0, 1}
<1>1. Pow2[k] \in Nat /\ Pow2[k] >= 1
  BY PowPos
<1>2. x \div Pow2[k] \in Int
  BY Zenon, <1>1, DivMod
<1> QED BY <1>2 DEF Bit

\* Shifts move the bits.
LEMMA BitShr ==
  ASSUME NEW x \in Int, NEW n \in Nat, NEW k \in Nat
  PROVE  x \div Pow2[n] \in Int /\ Bit(x \div Pow2[n], k) = Bit(x, n + k)
<1>1. Pow2[n] \in Nat /\ Pow2[n] >= 1 /\ Pow2[k] \in Nat /\ Pow2[k] >= 1
  BY PowPos
<1>2. (x \div Pow2[n]) \div Pow2[k] = x \div (Pow2[n] * Pow2[k])
  BY Zenon, <1>1, DivDiv
<1>3. Pow2[n + k] = Pow2[n] * Pow2[k]
  BY Zenon, PowAdd
<1>4. x \div Pow2[n] \in Int
  BY Zenon, <1>1, DivMod
<1> QED BY Zenon, <1>2, <1>3, <1>4 DEF Bit

LEMMA BitMul ==
  ASSUME NEW x \in Int, NEW n \in Nat, NEW k \in Nat
  PROVE  x * Pow2[n] \in Int /\ Bit(x * Pow2[n], k) = IF k < n THEN 0 ELSE Bit(x, k - n)
<1>1. Pow2[n] \in Nat /\ Pow2[n] >= 1 /\ Pow2[k] \in Nat /\ Pow2[k] >= 1
  BY PowPos
<1>2. CASE k < n
  <2>1. n - k \in Nat /\ Pow2[n] = Pow2[k] * Pow2[n - k]
    BY <1>2, PowSplit
  <2>2. n - k - 1 \in Nat /\ (n - k - 1) + 1 = n - k
    BY <1>2
  <2>3. Pow2[n - k] = 2 * Pow2[n - k - 1] /\ Pow2[n - k - 1] \in Nat
    BY <2>2, PowDef, PowPos
  <2> DEFINE p == Pow2[k]
             q == Pow2[n - k - 1]
             y == x * q
  <2>4. p \in Nat /\ p >= 1 /\ q \in Nat /\ Pow2[n] = p * (2 * q)
    BY <1>1, <2>1, <2>3
  <2>5. y \in Int
    BY <2>4
  <2> HIDE DEF p, q
  <2>6. x * (p * (2 * q)) = p * (2 * y) + 0
    BY <2>4
  <2> HIDE DEF y
  <2>7. x * Pow2[n] = p * (2 * y) + 0 /\ 0 \in 0 .. p - 1 /\ 2 * y \in Int /\ x * Pow2[n] \in Int
    BY <1>1, <2>4, <2>5, <2>6
  <2>8. (x * Pow2[n]) \div p = 2 * y
    BY Zenon, <2>4, <2>7, DivUnique
  <2>9. (2 * y) % 2 = 0
    BY <2>5
  <2> QED BY <1>2, <2>7, <2>8, <2>9 DEF Bit, p
<1>3. CASE ~(k < n)
  <2>1. k - n \in Nat /\ Pow2[k] = Pow2[n] * Pow2[k - n]
    BY <1>3, PowSplit
  <2>2. Pow2[k - n] \in Nat /\ Pow2[k - n] >= 1
    BY <2>1, PowPos
  <2>3. (x * Pow2[n]) \div (Pow2[n] * Pow2[k - n]) = x \div Pow2[k - n]
    BY Zenon, <1>1, <2>2, MulDiv
  <2>4. x * Pow2[n] \in Int
    BY <1>1
  <2> QED BY Zenon, <1>3, <2>1, <2>3, <2>4 DEF Bit
<1> QED BY Zenon, <1>2, <1>3

LEMMA HighBits ==
  ASSUME NEW n \in Nat, NEW x \in 0 .. Pow2[n] - 1, NEW k \in Nat, k >= n
  PROVE  Bit(x, k) = 0
<1>1. Pow2[n] \in Nat /\ Pow2[k] \in Nat /\ Pow2[k] >= Pow2[n]
  BY PowPos, PowMonotone
<1> DEFINE p == Pow2[k]
<1>2. p \in Nat /\ p >= 1 /\ x \in 0 .. p - 1 /\ x \in Int
  BY <1>1
<1>3. x = p * 0 + x /\ 0 \in Int
  BY <1>2
<1> HIDE DEF p
<1>4. x \div p = 0
  BY <1>2, <1>3, DivUnique
<1> QED BY <1>4 DEF Bit, p

LEMMA BitMod ==
  ASSUME NEW x \in Int, NEW n \in Nat, NEW k \in Nat
  PROVE  /\ x % Pow2[n] \in 0 .. Pow2[n] - 1
         /\ Bit(x % Pow2[n], k) = IF k < n THEN Bit(x, k) ELSE 0
<1>1. Pow2[n] \in Nat /\ Pow2[n] >= 1 /\ Pow2[k] \in Nat /\ Pow2[k] >= 1
  BY PowPos
<1>2. x % Pow2[n] \in 0 .. Pow2[n] - 1
  BY Zenon, <1>1, DivMod
<1>3. CASE k < n
  <2>1. n - k \in Nat /\ Pow2[n] = Pow2[k] * Pow2[n - k]
    BY <1>3, PowSplit
  <2>2. n - k - 1 \in Nat /\ (n - k - 1) + 1 = n - k
    BY <1>3
  <2>3. Pow2[n - k] = 2 * Pow2[n - k - 1] /\ Pow2[n - k - 1] \in Nat /\ Pow2[n - k - 1] >= 1
    BY <2>2, PowDef, PowPos
  <2> DEFINE p == Pow2[k]
             q == Pow2[n - k - 1]
             y == x \div p
  <2>4. p \in Nat /\ p >= 1 /\ q \in Nat /\ q >= 1 /\ Pow2[n] = p * (2 * q) /\ 2 * q \in Nat /\ 2 * q >= 1
    BY <1>1, <2>1, <2>3
  <2>5. (x % (p * (2 * q))) \div p = y % (2 * q)
    <3> HIDE DEF p, q
    <3> QED BY Zenon, <2>4, ModDiv
  <2>6. y \in Int /\ 2 \in Nat /\ 2 >= 1
    <3>1. y \in Int
      <4> HIDE DEF p
      <4> QED BY Zenon, <2>4, DivMod
    <3> QED BY <3>1
  <2>7. (y % (2 * q)) % 2 = y % 2
    <3> HIDE DEF q, y
    <3> QED BY Zenon, <2>4, <2>6, ModDiv
  <2> QED BY <1>2, <1>3, <2>4, <2>5, <2>7 DEF Bit
<1>4. CASE ~(k < n)
  BY <1>2, <1>4, HighBits
<1> QED BY Zenon, <1>2, <1>3, <1>4

\* A number below 2^n in front of which another one is written.
LEMMA BitConcat ==
  ASSUME NEW n \in Nat, NEW hi \in Int, NEW lo \in 0 .. Pow2[n] - 1, NEW k \in Nat
  PROVE  /\ hi * Pow2[n] + lo \in Int
         /\ Bit(hi * Pow2[n] + lo, k) = IF k < n THEN Bit(lo, k) ELSE Bit(hi, k - n)
<1> DEFINE p == Pow2[n]
           x == hi * p + lo
<1>1. p \in Nat /\ p >= 1
  BY PowPos
<1>2. x \in Int /\ x = p * hi + lo /\ lo \in 0 .. p - 1
  <2>1. lo \in 0 .. p - 1
    OBVIOUS
  <2> HIDE DEF p
  <2> QED BY <1>1, <2>1
<1> HIDE DEF x
<1>3. x \div p = hi /\ x % p = lo
  <2> HIDE DEF p
  <2> QED BY Zenon, <1>1, <1>2, DivUnique
<1>4. CASE k < n
  BY Zenon, <1>2, <1>3, <1>4, BitMod DEF x
<1>5. CASE ~(k < n)
  <2>1. k - n \in Nat /\ n + (k - n) = k
    BY <1>5
  <2>2. Bit(x \div Pow2[n], k - n) = Bit(x, n + (k - n))
    BY Zenon, <1>2, <2>1, BitShr
  <2> QED BY <1>2, <1>3, <1>5, <2>1, <2>2 DEF x
<1> QED BY Zenon, <1>4, <1>5

\* The complement, and a mask of ones.
LEMMA BitNot ==
  ASSUME NEW x \in Int, NEW n \in Nat, NEW k \in 0 .. n - 1
  PROVE  Bit(Pow2[n] - 1 - x, k) = 1 - Bit(x, k)
<1> DEFINE p == Pow2[k]
           q == Pow2[n - k - 1]
           y == x \div p
           r == x % p
<1>1. k \in Nat /\ n - k - 1 \in Nat /\ k + 1 \in Nat /\ n = (k + 1) + (n - k - 1)
  OBVIOUS
<1>2. p \in Nat /\ p >= 1 /\ q \in Nat /\ q >= 1
  BY <1>1, PowPos
<1>3. Pow2[n] = (2 * p) * q
  <2>1. Pow2[k + 1] = 2 * Pow2[k]
    BY <1>1, PowDef
  <2> QED BY <1>1, <2>1, PowAdd
<1>4. y \in Int /\ r \in 0 .. p - 1 /\ x = p * y + r
  BY Zenon, <1>1, <1>2, DivMod
<1> DEFINE z == 2 * q - 1 - y
           s == p - 1 - r
           v == Pow2[n] - 1 - x
<1> HIDE DEF p, q, y, r
<1>5. z \in Int /\ s \in 0 .. p - 1
  BY <1>2, <1>4
<1>6. v = p * z + s /\ v \in Int
  <2>1. p * (2 * q - 1 - y) = p * (2 * q) - p - p * y
    BY <1>2, <1>4
  <2>2. p * (2 * q) = (2 * p) * q
    BY <1>2
  <2>3. (2 * p) * q \in Int /\ p * y \in Int
    BY <1>2, <1>4
  <2> QED BY <1>2, <1>3, <1>4, <2>1, <2>2, <2>3
<1> HIDE DEF v
<1>7. v \div p = z
  <2> HIDE DEF z, s
  <2> QED BY Zenon, <1>2, <1>5, <1>6, DivUnique
<1>8. z % 2 = 1 - (y % 2)
  BY <1>2, <1>4
<1> QED BY <1>7, <1>8 DEF Bit, v, p, y

LEMMA BitZero ==
  ASSUME NEW k \in Nat
  PROVE  Bit(0, k) = 0
<1>1. 0 \in 0 .. Pow2[0] - 1 /\ k >= 0 /\ 0 \in Nat
  BY PowDef
<1> QED BY Zenon, <1>1, HighBits

LEMMA BitOnes ==
  ASSUME NEW n \in Nat, NEW k \in Nat
  PROVE  Bit(Pow2[n] - 1, k) = IF k < n THEN 1 ELSE 0
<1>1. Pow2[n] \in Nat /\ Pow2[n] >= 1
  BY PowPos
<1>2. CASE k < n
  <2>1. Bit(Pow2[n] - 1 - 0, k) = 1 - Bit(0, k)
    BY <1>2, BitNot
  <2>2. Pow2[n] - 1 - 0 = Pow2[n] - 1
    BY <1>1
  <2> QED BY <1>2, <2>1, <2>2, BitZero
<1>3. CASE ~(k < n)
  <2>1. Pow2[n] - 1 \in 0 .. Pow2[n] - 1 /\ k >= n
    BY <1>1, <1>3
  <2> QED BY <1>3, <2>1, HighBits
<1> QED BY Zenon, <1>2, <1>3

\* The bits are the number.
LEMMA BitsDetermine ==
  ASSUME NEW n \in Nat, NEW x \in 0 .. Pow2[n] - 1, NEW y \in 0 .. Pow2[n] - 1,
         \A k \in 0 .. n - 1 : Bit(x, k) = Bit(y, k)
  PROVE  x = y
<1> DEFINE T == {m \in Nat : m <= n => x % Pow2[m] = y % Pow2[m]}
<1>0. x \in Int /\ y \in Int /\ Pow2[n] \in Nat /\ Pow2[n] >= 1
  BY PowPos
<1>1. 0 \in T
  BY <1>0, PowDef
<1>2. ASSUME NEW m \in T PROVE m + 1 \in T
  <2> SUFFICES ASSUME m + 1 <= n PROVE x % Pow2[m + 1] = y % Pow2[m + 1]
    OBVIOUS
  <2>1. m \in Nat /\ m \in 0 .. n - 1 /\ x % Pow2[m] = y % Pow2[m]
    OBVIOUS
  <2>2. Pow2[m + 1] = Pow2[m] * 2 /\ Pow2[m] \in Nat /\ Pow2[m] >= 1
    BY <2>1, PowDef, PowPos
  <2> DEFINE p == Pow2[m]
  <2>3. ASSUME NEW z \in Int PROVE z % (p * 2) = p * Bit(z, m) + (z % p)
    <3> DEFINE u == z % (p * 2)
    <3>1. u \in Int
      BY <2>2
    <3>2. u \div p = (z \div p) % 2 /\ u % p = z % p
      <4>1. 2 \in Nat /\ 2 >= 1
        OBVIOUS
      <4> HIDE DEF p
      <4> QED BY Zenon, <2>2, <4>1, ModDiv DEF p
    <3> HIDE DEF u
    <3>3. u = p * (u \div p) + (u % p)
      BY Zenon, <2>2, <3>1, DivMod
    <3> QED BY Zenon, <3>2, <3>3 DEF Bit, u
  <2> QED BY <1>0, <2>1, <2>2, <2>3
<1>3. T \in SUBSET Nat
  OBVIOUS
<1>4. T = Nat
  <2> HIDE DEF T
  <2> QED BY Zenon, <1>1, <1>2, <1>3, Induction
<1>5. x % Pow2[n] = y % Pow2[n]
  BY <1>4
<1>6. \A p \in Nat : \A z \in 0 .. p - 1 : z % p = z
  OBVIOUS
<1> QED BY <1>0, <1>5, <1>6

-----------------------------------------------------------------------------
(* Numbers made of digits *)

\* f[k] is the number made of the first k digits of d.
Sums(f, d, n, w) == f[0] = 0 /\ \A k \in 0 .. n - 1 : f[k + 1] = d[k] * Pow2[k * w] + f[k]

LEMMA DigitsDef ==
  ASSUME NEW n \in Nat, NEW w \in Nat, NEW d, \A k \in 0 .. n - 1 : d[k] \in Int
  PROVE  \E f \in [0 .. n -> Int] : Sums(f, d, n, w) /\ Digits(d, n, w) = f[n]
<1> DEFINE t == [k \in Nat |-> IF k \in 1 .. n THEN d[k - 1] * Pow2[(k - 1) * w] ELSE 0]
           Step(g, k) == IF k = 0 THEN 0 ELSE g[k - 1] + d[k - 1] * Pow2[(k - 1) * w]
           f == CHOOSE g : g = [k \in 0 .. n |-> Step(g, k)]
<1>1. \A k \in 1 .. n : d[k - 1] * Pow2[(k - 1) * w] \in Int
  <2> TAKE k \in 1 .. n
  <2>1. k - 1 \in Nat /\ d[k - 1] \in Int
    OBVIOUS
  <2>2. (k - 1) * w \in Nat
    BY <2>1
  <2>3. Pow2[(k - 1) * w] \in Int
    BY <2>2, PowPos
  <2> QED BY <2>1, <2>3
<1>2. t \in [Nat -> Int]
  BY <1>1
<1>3. PICK g \in [Nat -> Int] : \A m \in Nat : Solves(g, 1, 0, t, m)
  <2> HIDE DEF t
  <2>1. 1 \in Int /\ 0 \in Int
    OBVIOUS
  <2> QED BY Zenon, <1>2, <2>1, Solution
<1> DEFINE h == [k \in 0 .. n |-> g[k]]
<1>4. h = [k \in 0 .. n |-> Step(h, k)]
  <2>1. ASSUME NEW k \in 0 .. n PROVE g[k] = Step(h, k)
    <3>1. CASE k = 0
      BY <1>3, <3>1 DEF Solves
    <3>2. CASE k # 0
      <4>1. k \in 1 .. n /\ k - 1 \in 0 .. n /\ h[k - 1] = g[k - 1] /\ k - 1 \in Nat /\ n \in Nat
        BY <3>2
      <4>2. g[k] = 1 * g[k - 1] + t[k]
        BY Zenon, <1>3, <4>1 DEF Solves
      <4>3. t[k] = d[k - 1] * Pow2[(k - 1) * w] /\ g[k - 1] \in Int
        BY <4>1
      <4> QED BY <3>2, <4>1, <4>2, <4>3
    <3> QED BY <3>1, <3>2
  <2> QED BY <2>1
<1>5. f = [k \in 0 .. n |-> Step(f, k)]
  <2> HIDE DEF h
  <2> QED BY Zenon, <1>4
<1>6. Digits(d, n, w) = f[n]
  BY DEF Digits
<1> HIDE DEF f
<1>7. f[0] = 0
  BY <1>5
<1>8. ASSUME NEW k \in 0 .. n - 1 PROVE f[k + 1] = f[k] + d[k] * Pow2[k * w]
  <2>1. k + 1 \in 0 .. n /\ k + 1 # 0 /\ (k + 1) - 1 = k
    OBVIOUS
  <2>2. f[k + 1] = Step(f, k + 1)
    BY <1>5, <2>1
  <2> QED BY <2>1, <2>2
<1>9. ASSUME NEW k \in 0 .. n - 1 PROVE d[k] * Pow2[k * w] \in Int
  <2>1. k + 1 \in 1 .. n /\ (k + 1) - 1 = k
    OBVIOUS
  <2> QED BY <1>1, <2>1
<1> DEFINE T == {k \in Nat : k <= n => f[k] \in Int}
<1>10. T = Nat
  <2>1. 0 \in T
    BY <1>7
  <2>2. ASSUME NEW k \in T PROVE k + 1 \in T
    <3> SUFFICES ASSUME k + 1 <= n PROVE f[k + 1] \in Int
      OBVIOUS
    <3>1. k \in 0 .. n - 1 /\ f[k] \in Int
      OBVIOUS
    <3>2. f[k + 1] = f[k] + d[k] * Pow2[k * w] /\ d[k] * Pow2[k * w] \in Int
      BY <1>8, <1>9, <3>1
    <3> QED BY <3>1, <3>2
  <2>3. T \in SUBSET Nat
    OBVIOUS
  <2> HIDE DEF T
  <2> QED BY Zenon, <2>1, <2>2, <2>3, Induction
<1>11. \A k \in 0 .. n : f[k] \in Int
  BY <1>10
<1>12. f \in [0 .. n -> Int]
  <2>1. f = [k \in 0 .. n |-> f[k]]
    BY Zenon, <1>5
  <2> QED BY <1>11, <2>1
<1>13. ASSUME NEW k \in 0 .. n - 1 PROVE f[k + 1] = d[k] * Pow2[k * w] + f[k]
  <2>1. k \in 0 .. n
    OBVIOUS
  <2> QED BY <1>8, <1>9, <1>11, <2>1
<1> QED BY Zenon, <1>6, <1>7, <1>12, <1>13 DEF Sums

\* A digit a before b, and the place of a bit within digits of w bits.
LEMMA DigitBound ==
  ASSUME NEW p \in Nat, NEW q \in Nat, NEW a \in 0 .. q - 1, NEW b \in 0 .. p - 1
  PROVE  a * p + b \in 0 .. p * q - 1
<1>1. a * p <= (q - 1) * p /\ a * p >= 0 /\ a * p \in Int
  OBVIOUS
<1>2. (q - 1) * p = p * q - p /\ p * q \in Int
  OBVIOUS
<1> QED BY <1>1, <1>2

LEMMA Place ==
  ASSUME NEW w \in Nat, w >= 1, NEW k \in Nat, NEW j \in 0 .. w - 1
  PROVE  /\ k * w \in Nat /\ k * w + j \in Nat
         /\ (k + 1) * w = k * w + w
         /\ \A m \in Nat : k < m => k * w + j < m * w
<1>1. k * w \in Nat /\ (k + 1) * w = k * w + w
  OBVIOUS
<1>2. ASSUME NEW m \in Nat, k < m PROVE k * w + j < m * w
  <2>1. (k + 1) * w <= m * w /\ m * w \in Nat
    BY <1>2
  <2> QED BY <1>1, <2>1
<1> QED BY <1>1, <1>2

\* Each bit of a digit of w bits is a bit of the number.
LEMMA DigitsBits ==
  ASSUME NEW n \in Nat, NEW w \in Nat, w >= 1, NEW d,
         \A k \in 0 .. n - 1 : d[k] \in 0 .. Pow2[w] - 1
  PROVE  /\ Digits(d, n, w) \in 0 .. Pow2[n * w] - 1
         /\ \A k \in 0 .. n - 1, j \in 0 .. w - 1 : Bit(Digits(d, n, w), k * w + j) = Bit(d[k], j)
<1>1. Pow2[w] \in Nat /\ Pow2[w] >= 1 /\ \A k \in 0 .. n - 1 : d[k] \in Int
  BY PowPos
<1>2. PICK f \in [0 .. n -> Int] : Sums(f, d, n, w) /\ Digits(d, n, w) = f[n]
  BY Zenon, <1>1, DigitsDef
<1> DEFINE Good(m) == /\ f[m] \in 0 .. Pow2[m * w] - 1
                      /\ \A k \in 0 .. m - 1, j \in 0 .. w - 1 : Bit(f[m], k * w + j) = Bit(d[k], j)
           T == {m \in Nat : m <= n => Good(m)}
<1>3. 0 \in T
  <2>1. f[0] = 0 /\ 0 * w = 0 /\ Pow2[0] = 1
    BY <1>2, PowDef DEF Sums
  <2> QED BY <2>1
<1>4. ASSUME NEW m \in T PROVE m + 1 \in T
  <2> SUFFICES ASSUME m + 1 <= n PROVE Good(m + 1)
    OBVIOUS
  <2>1. m \in Nat /\ m \in 0 .. n - 1 /\ Good(m)
    OBVIOUS
  <2> HIDE DEF T
  <2>2. d[m] \in 0 .. Pow2[w] - 1 /\ d[m] \in Int
    BY <1>1, <2>1
  <2>3. m * w \in Nat /\ (m + 1) * w = m * w + w
    <3> HIDE DEF Good
    <3> QED BY <2>1
  <2>4. f[m + 1] = d[m] * Pow2[m * w] + f[m] /\ f[m] \in 0 .. Pow2[m * w] - 1
    BY Zenon, <1>2, <2>1 DEF Sums
  <2>5. f[m + 1] \in 0 .. Pow2[(m + 1) * w] - 1
    <3>1. Pow2[(m + 1) * w] = Pow2[m * w] * Pow2[w] /\ Pow2[m * w] \in Nat
      BY Zenon, <2>3, PowAdd, PowPos
    <3>2. d[m] * Pow2[m * w] + f[m] \in 0 .. Pow2[m * w] * Pow2[w] - 1
      BY Zenon, <1>1, <2>2, <2>4, <3>1, DigitBound
    <3> QED BY Zenon, <2>4, <3>1, <3>2
  <2>6. ASSUME NEW k \in 0 .. m, NEW j \in 0 .. w - 1 PROVE Bit(f[m + 1], k * w + j) = Bit(d[k], j)
    <3>0. k \in Nat
      BY <2>1
    <3>1. k * w \in Nat /\ k * w + j \in Nat /\ \A i \in Nat : k < i => k * w + j < i * w
      BY Zenon, <3>0, Place
    <3>2. Bit(d[m] * Pow2[m * w] + f[m], k * w + j) =
            IF k * w + j < m * w THEN Bit(f[m], k * w + j) ELSE Bit(d[m], (k * w + j) - m * w)
      <4> DEFINE i == k * w + j
                 s == m * w
      <4>1. i \in Nat /\ s \in Nat /\ f[m] \in 0 .. Pow2[s] - 1
        BY Zenon, <2>3, <2>4, <3>1
      <4> HIDE DEF i, s
      <4>2. Bit(d[m] * Pow2[s] + f[m], i) = IF i < s THEN Bit(f[m], i) ELSE Bit(d[m], i - s)
        BY Zenon, <2>2, <4>1, BitConcat
      <4> QED BY Zenon, <4>2 DEF i, s
    <3>3. CASE k = m
      <4>1. ~(k * w + j < m * w) /\ (k * w + j) - m * w = j
        <5> HIDE DEF Good
        <5> QED BY <2>3, <3>3
      <4> QED BY Zenon, <2>4, <3>2, <3>3, <4>1
    <3>4. CASE k # m
      <4>1. k \in 0 .. m - 1 /\ k < m
        <5> HIDE DEF Good
        <5> QED BY <2>1, <3>4
      <4>2. k * w + j < m * w
        BY Zenon, <2>1, <3>1, <4>1
      <4> QED BY Zenon, <2>1, <2>4, <3>2, <4>1, <4>2
    <3> QED BY Zenon, <3>3, <3>4
  <2>7. (m + 1) - 1 = m
    BY <2>1
  <2> QED BY Zenon, <2>5, <2>6, <2>7
<1>5. T \in SUBSET Nat
  OBVIOUS
<1>6. T = Nat
  <2> HIDE DEF T
  <2> QED BY Zenon, <1>3, <1>4, <1>5, Induction
<1>7. Good(n)
  <2> HIDE DEF Good
  <2>1. n \in T /\ n <= n
    <3> HIDE DEF T
    <3> QED BY <1>6
  <2> QED BY <2>1
<1> QED BY Zenon, <1>2, <1>7

\* Digits that are bits.
LEMMA BitDigits ==
  ASSUME NEW n \in Nat, NEW d, \A k \in 0 .. n - 1 : d[k] \in {0, 1}
  PROVE  /\ Digits(d, n, 1) \in 0 .. Pow2[n] - 1
         /\ \A k \in 0 .. n - 1 : Bit(Digits(d, n, 1), k) = d[k]
<1>1. \A k \in 0 .. n - 1 : d[k] \in 0 .. Pow2[1] - 1
  BY PowOne
<1>2. 1 \in Nat /\ 1 >= 1 /\ n * 1 = n
  OBVIOUS
<1>3. /\ Digits(d, n, 1) \in 0 .. Pow2[n * 1] - 1
      /\ \A k \in 0 .. n - 1, j \in 0 .. 1 - 1 : Bit(Digits(d, n, 1), k * 1 + j) = Bit(d[k], j)
  BY <1>1, <1>2, DigitsBits
<1>4. ASSUME NEW k \in 0 .. n - 1 PROVE Bit(Digits(d, n, 1), k) = d[k]
  <2>1. 0 \in 0 .. 1 - 1 /\ k * 1 + 0 = k
    OBVIOUS
  <2>2. Bit(Digits(d, n, 1), k * 1 + 0) = Bit(d[k], 0)
    BY Zenon, <1>3, <2>1
  <2>3. d[k] \in {0, 1} /\ Pow2[0] = 1
    BY PowDef
  <2>4. Bit(d[k], 0) = d[k]
    BY <2>3 DEF Bit
  <2> QED BY <2>1, <2>2, <2>4
<1> QED BY <1>2, <1>3, <1>4

-----------------------------------------------------------------------------
(* Words *)

LEMMA Sizes ==
  /\ W \in Nat /\ W >= 1 /\ W >= 4 /\ W - 1 \in Nat
  /\ M \in Nat /\ M >= 1 /\ M = Pow2[W] /\ M = 2 * Pow2[W - 1] /\ M \div 2 = Pow2[W - 1]
  /\ Word = 0 .. Pow2[W] - 1
<1>1. W \in Nat /\ W >= 4
  BY ExecAssumption DEF W
<1>2. W - 1 \in Nat /\ (W - 1) + 1 = W
  BY <1>1
<1>3. Pow2[W] = 2 * Pow2[W - 1] /\ Pow2[W - 1] \in Nat /\ Pow2[W] \in Nat /\ Pow2[W] >= 1
  BY <1>1, <1>2, PowDef, PowPos
<1>4. (2 * Pow2[W - 1]) \div 2 = Pow2[W - 1]
  BY <1>3
<1> QED BY <1>1, <1>2, <1>3, <1>4 DEF M, Word

LEMMA ShlBits ==
  ASSUME NEW x \in Int, NEW n \in Nat
  PROVE  /\ Shl(x, n) \in Word
         /\ \A k \in 0 .. W - 1 : Bit(Shl(x, n), k) = IF k < n THEN 0 ELSE Bit(x, k - n)
<1>1. ASSUME NEW k \in 0 .. W - 1
      PROVE  Bit(Shl(x, n), k) = IF k < n THEN 0 ELSE Bit(x, k - n)
  <2>1. k \in Nat /\ k < W
    BY Sizes
  <2>2. x * Pow2[n] \in Int /\ Bit(x * Pow2[n], k) = IF k < n THEN 0 ELSE Bit(x, k - n)
    BY Zenon, <2>1, BitMul
  <2>3. Bit((x * Pow2[n]) % Pow2[W], k) = Bit(x * Pow2[n], k)
    BY Zenon, <2>1, <2>2, Sizes, BitMod
  <2> QED BY Zenon, <2>2, <2>3, Sizes DEF Shl
<1>2. Shl(x, n) \in Word
  <2>1. x * Pow2[n] \in Int /\ 0 \in Nat
    BY PowPos
  <2> QED BY Zenon, <2>1, Sizes, BitMod DEF Shl
<1> QED BY Zenon, <1>1, <1>2

\* A quotient by a power of two is no longer than the number.
LEMMA ShrBits ==
  ASSUME NEW x \in Word, NEW n \in Nat
  PROVE  /\ Shr(x, n) \in Word
         /\ \A k \in Nat : Bit(Shr(x, n), k) = Bit(x, n + k)
<1>1. x \in Int /\ x >= 0 /\ x < M /\ M \in Nat
  BY Sizes DEF Word
<1>2. Pow2[n] \in Nat /\ Pow2[n] >= 1
  BY PowPos
<1>3. \A p \in Nat : p >= 1 => x \div p \in 0 .. x
  <2> TAKE p \in Nat
  <2> HAVE p >= 1
  <2>1. x \div p \in Int /\ x % p \in 0 .. p - 1 /\ x = p * (x \div p) + (x % p)
    BY <1>1, DivMod
  <2> DEFINE y == x \div p
  <2>2. y \in Int /\ x % p \in 0 .. p - 1 /\ x = p * y + (x % p)
    BY <2>1
  <2> HIDE DEF y
  <2>3. y >= 0
    BY <1>1, <2>2
  <2>4. y <= p * y
    BY <2>2, <2>3
  <2> QED BY <1>1, <2>2, <2>3, <2>4 DEF y
<1>4. Shr(x, n) \in 0 .. x
  BY Zenon, <1>2, <1>3 DEF Shr
<1>5. Shr(x, n) \in Word
  BY <1>1, <1>4 DEF Word
<1>6. ASSUME NEW k \in Nat PROVE Bit(Shr(x, n), k) = Bit(x, n + k)
  BY Zenon, <1>1, BitShr DEF Shr
<1> QED BY Zenon, <1>5, <1>6

LEMMA OrBits ==
  ASSUME NEW x \in Int, NEW y \in Int
  PROVE  /\ Or(x, y) \in Word
         /\ \A k \in 0 .. W - 1 : Bit(Or(x, y), k) = Bool(Bit(x, k) = 1 \/ Bit(y, k) = 1)
<1> DEFINE d == [k \in 0 .. W - 1 |-> Bool(Bit(x, k) = 1 \/ Bit(y, k) = 1)]
<1>1. \A k \in 0 .. W - 1 : d[k] = Bool(Bit(x, k) = 1 \/ Bit(y, k) = 1) /\ d[k] \in {0, 1}
  BY Zenon DEF Bool
<1>2. Or(x, y) = Digits(d, W, 1)
  BY Zenon DEF Or
<1> HIDE DEF d
<1>3. /\ Digits(d, W, 1) \in 0 .. Pow2[W] - 1
      /\ \A k \in 0 .. W - 1 : Bit(Digits(d, W, 1), k) = d[k]
  BY Zenon, <1>1, Sizes, BitDigits
<1> QED BY Zenon, <1>1, <1>2, <1>3, Sizes

LEMMA AndBits ==
  ASSUME NEW x \in Int, NEW y \in Int
  PROVE  /\ And(x, y) \in Word
         /\ \A k \in 0 .. W - 1 : Bit(And(x, y), k) = Bit(x, k) * Bit(y, k)
<1> DEFINE d == [k \in 0 .. W - 1 |-> Bit(x, k) * Bit(y, k)]
<1>1. \A k \in 0 .. W - 1 : d[k] = Bit(x, k) * Bit(y, k) /\ d[k] \in {0, 1}
  <2> TAKE k \in 0 .. W - 1
  <2>1. k \in Nat
    BY Sizes
  <2>2. Bit(x, k) \in {0, 1} /\ Bit(y, k) \in {0, 1}
    BY Zenon, <2>1, BitType
  <2> QED BY <2>2
<1>2. And(x, y) = Digits(d, W, 1)
  BY Zenon DEF And
<1> HIDE DEF d
<1>3. /\ Digits(d, W, 1) \in 0 .. Pow2[W] - 1
      /\ \A k \in 0 .. W - 1 : Bit(Digits(d, W, 1), k) = d[k]
  BY Zenon, <1>1, Sizes, BitDigits
<1> QED BY Zenon, <1>1, <1>2, <1>3, Sizes

LEMMA NotBits ==
  ASSUME NEW x \in Word
  PROVE  /\ Not_(x) \in Word
         /\ \A k \in 0 .. W - 1 : Bit(Not_(x), k) = 1 - Bit(x, k)
<1>1. x \in Int /\ Not_(x) = Pow2[W] - 1 - x /\ Not_(x) \in Word
  BY Sizes DEF Word, Not_
<1>2. ASSUME NEW k \in 0 .. W - 1 PROVE Bit(Not_(x), k) = 1 - Bit(x, k)
  BY Zenon, <1>1, Sizes, BitNot
<1> QED BY Zenon, <1>1, <1>2

LEMMA MaskBits ==
  ASSUME NEW n \in Nat
  PROVE  /\ Mask(n) \in Word
         /\ \A k \in 0 .. W - 1 : Bit(Mask(n), k) = IF k < n THEN 1 ELSE 0
<1>1. Pow2[n] - 1 \in Int /\ 0 \in Nat
  BY PowPos
<1>2. Mask(n) \in Word
  BY Zenon, <1>1, Sizes, BitMod DEF Mask
<1>3. ASSUME NEW k \in 0 .. W - 1 PROVE Bit(Mask(n), k) = IF k < n THEN 1 ELSE 0
  <2>1. k \in Nat /\ k < W
    BY Sizes
  <2>2. Bit((Pow2[n] - 1) % Pow2[W], k) = Bit(Pow2[n] - 1, k)
    BY Zenon, <1>1, <2>1, Sizes, BitMod
  <2> QED BY Zenon, <2>1, <2>2, Sizes, BitOnes DEF Mask
<1> QED BY Zenon, <1>2, <1>3

LEMMA TopDigit ==
  ASSUME NEW h \in Nat, h >= 1, NEW y \in 0 .. 2 * h - 1
  PROVE  y \div h = IF y >= h THEN 1 ELSE 0
<1>1. CASE y >= h
  <2>1. y = h * 1 + (y - h) /\ y - h \in 0 .. h - 1 /\ 1 \in Int /\ y \in Int
    BY <1>1
  <2> QED BY <1>1, <2>1, DivUnique
<1>2. CASE ~(y >= h)
  <2>1. y = h * 0 + y /\ y \in 0 .. h - 1 /\ 0 \in Int /\ y \in Int
    BY <1>2
  <2> QED BY <1>2, <2>1, DivUnique
<1> QED BY <1>1, <1>2

\* A number of n bits read as a signed one: its last bit is repeated for ever.
LEMMA SignBits ==
  ASSUME NEW n \in Nat, n >= 1, NEW y \in 0 .. Pow2[n] - 1,
         NEW s \in Int, s = IF y >= Pow2[n - 1] THEN y - Pow2[n] ELSE y
  PROVE  \A k \in Nat : Bit(s, k) = IF k < n THEN Bit(y, k) ELSE Bit(y, n - 1)
<1> DEFINE h == Pow2[n - 1]
<1>1. n - 1 \in Nat /\ (n - 1) + 1 = n
  OBVIOUS
<1>2. Pow2[n] = 2 * h /\ h \in Nat /\ h >= 1
  BY <1>1, PowDef, PowPos
<1>3. y \in 0 .. 2 * h - 1 /\ y \in Int
  BY <1>2
<1> HIDE DEF h
<1>4. y \div h = IF y >= h THEN 1 ELSE 0
  BY Zenon, <1>2, <1>3, TopDigit
<1>5. Bit(y, n - 1) = IF y >= h THEN 1 ELSE 0
  BY <1>4 DEF Bit, h
<1>6. ASSUME NEW k \in Nat PROVE Bit(s, k) = IF k < n THEN Bit(y, k) ELSE Bit(y, n - 1)
  <2>1. CASE k < n
    <3>1. s % Pow2[n] = y
      <4>1. s = Pow2[n] * (IF y >= h THEN -1 ELSE 0) + y
        BY <1>2, <1>3 DEF h
      <4>2. Pow2[n] \in Nat /\ Pow2[n] >= 1 /\ (IF y >= h THEN -1 ELSE 0) \in Int
        BY <1>2
      <4> QED BY Zenon, <4>1, <4>2, DivUnique
    <3>2. Bit(s % Pow2[n], k) = Bit(s, k)
      BY Zenon, <2>1, BitMod
    <3> QED BY Zenon, <2>1, <3>1, <3>2
  <2>2. CASE ~(k < n)
    <3> DEFINE p == Pow2[k]
    <3>1. p \in Nat /\ p >= 2 * h
      BY <1>2, <2>2, PowMonotone, PowPos
    <3>2. CASE y >= h
      <4> HIDE DEF p
      <4>1. s = p * (-1) + (s + p) /\ s + p \in 0 .. p - 1 /\ -1 \in Int /\ p >= 1
        BY <1>2, <1>3, <3>1, <3>2 DEF h
      <4>2. s \div p = -1
        BY <3>1, <4>1, DivUnique
      <4> QED BY <1>5, <2>2, <3>2, <4>2 DEF Bit, p
    <3>3. CASE ~(y >= h)
      <4> HIDE DEF p
      <4>1. s = p * 0 + s /\ s \in 0 .. p - 1 /\ 0 \in Int /\ p >= 1
        BY <1>2, <1>3, <3>1, <3>3 DEF h
      <4>2. s \div p = 0
        BY <3>1, <4>1, DivUnique
      <4> QED BY <1>5, <2>2, <3>3, <4>2 DEF Bit, p
    <3> QED BY <3>2, <3>3
  <2> QED BY Zenon, <2>1, <2>2
<1> QED BY Zenon, <1>6

-----------------------------------------------------------------------------
(* Shifts, rotations and bit fields *)

LEMMA SarBits ==
  ASSUME NEW x \in Word, NEW n \in Nat, NEW k \in 0 .. W - 1
  PROVE  Bit(Sar(x, n), k) = IF k + n < W THEN Bit(x, k + n) ELSE Bit(x, W - 1)
<1>1. k \in Nat /\ k < W /\ n + k \in Nat /\ n + k = k + n
  BY Sizes
<1>2. S(x) \in Int /\ S(x) = IF x >= Pow2[W - 1] THEN x - Pow2[W] ELSE x
  BY Sizes DEF S, Word
<1>3. x \in 0 .. Pow2[W] - 1
  BY Zenon, Sizes
<1>4. Bit(S(x), n + k) = IF n + k < W THEN Bit(x, n + k) ELSE Bit(x, W - 1)
  <2> DEFINE s == S(x)
  <2>1. s \in Int /\ s = IF x >= Pow2[W - 1] THEN x - Pow2[W] ELSE x
    BY Zenon, <1>2
  <2> HIDE DEF s
  <2>2. \A j \in Nat : Bit(s, j) = IF j < W THEN Bit(x, j) ELSE Bit(x, W - 1)
    BY Zenon, <1>3, <2>1, Sizes, SignBits
  <2> QED BY Zenon, <1>1, <2>2 DEF s
<1>5. S(x) \div Pow2[n] \in Int /\ Bit(S(x) \div Pow2[n], k) = Bit(S(x), n + k)
  BY Zenon, <1>1, <1>2, BitShr
<1>6. Bit((S(x) \div Pow2[n]) % Pow2[W], k) = Bit(S(x) \div Pow2[n], k)
  BY Zenon, <1>1, <1>5, Sizes, BitMod
<1> QED BY Zenon, <1>1, <1>4, <1>5, <1>6, Sizes DEF Sar

LEMMA SextBits ==
  ASSUME NEW x \in Int, NEW n \in Nat, n >= 1, n <= W, NEW k \in 0 .. W - 1
  PROVE  Bit(Sext(x, n), k) = Bit(x, IF k < n THEN k ELSE n - 1)
<1> DEFINE y == x % Pow2[n]
           s == IF y >= Pow2[n - 1] THEN y - Pow2[n] ELSE y
<1>1. k \in Nat /\ k < W /\ n - 1 \in Nat /\ n - 1 < n
  BY Sizes
<1>2. Pow2[n] \in Nat /\ y \in 0 .. Pow2[n] - 1
  BY Zenon, <1>1, BitMod, PowPos
<1>3. s \in Int
  BY <1>2
<1>4. Bit(s, k) = IF k < n THEN Bit(y, k) ELSE Bit(y, n - 1)
  <2> DEFINE r == s
  <2>1. r \in Int /\ r = IF y >= Pow2[n - 1] THEN y - Pow2[n] ELSE y
    BY Zenon, <1>3
  <2> HIDE DEF r, y
  <2>2. Bit(r, k) = IF k < n THEN Bit(y, k) ELSE Bit(y, n - 1)
    BY <1>1, <1>2, <2>1, SignBits
  <2> QED BY Zenon, <2>2 DEF r
<1>5. (k < n => Bit(y, k) = Bit(x, k)) /\ Bit(y, n - 1) = Bit(x, n - 1)
  BY Zenon, <1>1, BitMod
<1>6. Bit(s % Pow2[W], k) = Bit(s, k)
  <2> HIDE DEF s
  <2> QED BY Zenon, <1>1, <1>3, Sizes, BitMod
<1>7. Sext(x, n) = s % Pow2[W]
  BY Zenon, Sizes DEF Sext
<1> HIDE DEF s, y
<1> QED BY Zenon, <1>4, <1>5, <1>6, <1>7

LEMMA Wraps ==
  ASSUME NEW x \in Nat, NEW w \in Nat, w >= 1
  PROVE  /\ x < w => x % w = x
         /\ x >= w /\ x < 2 * w => x % w = x - w
<1>1. ASSUME x < w PROVE x % w = x
  <2>1. x = w * 0 + x /\ x \in 0 .. w - 1 /\ 0 \in Int /\ x \in Int
    BY <1>1
  <2> QED BY <2>1, DivUnique
<1>2. ASSUME x >= w, x < 2 * w PROVE x % w = x - w
  <2>1. x = w * 1 + (x - w) /\ x - w \in 0 .. w - 1 /\ 1 \in Int /\ x \in Int
    BY <1>2
  <2> QED BY <2>1, DivUnique
<1> QED BY <1>1, <1>2

LEMMA RotrBits ==
  ASSUME NEW x \in Word, NEW sa \in 0 .. W - 1, NEW k \in 0 .. W - 1
  PROVE  Bit(rotr(x, sa), k) = Bit(x, (k + sa) % W)
<1>0. W \in Nat /\ W >= 1
  BY Zenon, Sizes
<1>1. x \in Int /\ sa \in Nat /\ W - sa \in Nat /\ k \in Nat /\ sa + k \in Nat
  BY Sizes DEF Word
<1>2. Shr(x, sa) \in Word /\ Bit(Shr(x, sa), k) = Bit(x, sa + k)
  BY Zenon, <1>1, ShrBits
<1>3. Shl(x, W - sa) \in Word
  BY Zenon, <1>1, ShlBits
<1>4. Bit(Shl(x, W - sa), k) = IF k < W - sa THEN 0 ELSE Bit(x, k - (W - sa))
  BY Zenon, <1>1, ShlBits
<1>5. Shr(x, sa) \in Int /\ Shl(x, W - sa) \in Int
  BY <1>2, <1>3 DEF Word
<1>6. Bit(rotr(x, sa), k) = Bool(Bit(Shr(x, sa), k) = 1 \/ Bit(Shl(x, W - sa), k) = 1)
  BY Zenon, <1>5, OrBits DEF rotr
<1>7. CASE k < W - sa
  <2>1. (k + sa) % W = sa + k
    <3>1. k + sa \in Nat /\ k + sa < W /\ k + sa = sa + k
      BY <1>0, <1>1, <1>7
    <3>2. (k + sa) % W = k + sa
      BY Zenon, <1>0, <3>1, Wraps
    <3> QED BY Zenon, <3>1, <3>2
  <2>2. Bit(x, sa + k) \in {0, 1}
    BY Zenon, <1>1, BitType
  <2> QED BY <1>2, <1>4, <1>6, <1>7, <2>1, <2>2 DEF Bool
<1>8. CASE ~(k < W - sa)
  <2>1. k - (W - sa) \in Nat /\ sa + k >= W
    BY <1>0, <1>1, <1>8
  <2>2. (k + sa) % W = k - (W - sa)
    <3>1. k + sa \in Nat /\ k + sa >= W /\ k + sa < 2 * W /\ (k + sa) - W = k - (W - sa)
      BY <1>0, <1>1, <1>8
    <3>2. (k + sa) % W = (k + sa) - W
      BY Zenon, <1>0, <3>1, Wraps
    <3> QED BY Zenon, <3>1, <3>2
  <2>3. Bit(x, sa + k) = 0
    BY Zenon, <1>1, <2>1, Sizes, HighBits
  <2>4. Bit(x, k - (W - sa)) \in {0, 1}
    BY Zenon, <1>1, <2>1, BitType
  <2> QED BY <1>2, <1>4, <1>6, <1>8, <2>2, <2>3, <2>4 DEF Bool
<1> QED BY Zenon, <1>7, <1>8

LEMMA ExtBits ==
  ASSUME NEW rs \in Word, NEW lsb \in 0 .. W - 1, NEW msbd \in 0 .. W - 1, NEW k \in 0 .. W - 1
  PROVE  Bit(ext(rs, lsb, msbd), k) =
           IF k <= msbd THEN IF k + lsb \in 0 .. W - 1 THEN Bit(rs, k + lsb) ELSE 0 ELSE 0
<1> DEFINE mask == Mask(msbd + 1)
           field == Shl(mask, lsb)
           both == And(rs, field)
<1>0. W \in Nat /\ W >= 1
  BY Zenon, Sizes
<1>1. rs \in Int /\ lsb \in Nat /\ k \in Nat /\ msbd + 1 \in Nat /\ lsb + k \in Nat /\ lsb + k = k + lsb
  BY Sizes DEF Word
<1>2. mask \in Word /\ \A i \in 0 .. W - 1 : Bit(mask, i) = IF i < msbd + 1 THEN 1 ELSE 0
  BY Zenon, <1>1, MaskBits
<1>3. mask \in Int
  BY <1>2 DEF Word
<1>4. field \in Word /\ \A i \in 0 .. W - 1 : Bit(field, i) = IF i < lsb THEN 0 ELSE Bit(mask, i - lsb)
  <2> HIDE DEF mask
  <2> QED BY Zenon, <1>1, <1>3, ShlBits
<1>5. field \in Int
  BY <1>4 DEF Word
<1>6. both \in Word /\ \A i \in 0 .. W - 1 : Bit(both, i) = Bit(rs, i) * Bit(field, i)
  <2> HIDE DEF field
  <2> QED BY Zenon, <1>1, <1>5, AndBits
<1> HIDE DEF mask, field, both
<1>7. Bit(ext(rs, lsb, msbd), k) = Bit(both, lsb + k)
  BY Zenon, <1>1, <1>6, ShrBits DEF ext, mask, field, both
<1>8. CASE lsb + k \in 0 .. W - 1
  <2>1. ~(lsb + k < lsb) /\ (lsb + k) - lsb = k
    BY <1>1
  <2>2. Bit(field, lsb + k) = IF k < msbd + 1 THEN 1 ELSE 0
    BY <1>2, <1>4, <1>8, <2>1
  <2>3. Bit(rs, lsb + k) \in {0, 1}
    BY Zenon, <1>1, BitType
  <2>4. Bit(both, lsb + k) = Bit(rs, lsb + k) * Bit(field, lsb + k)
    BY Zenon, <1>6, <1>8
  <2> QED BY <1>1, <1>7, <1>8, <2>2, <2>3, <2>4
<1>9. CASE lsb + k \notin 0 .. W - 1
  <2>1. lsb + k >= W
    BY <1>0, <1>1, <1>9
  <2>2. Bit(both, lsb + k) = 0
    BY Zenon, <1>1, <1>6, <2>1, Sizes, HighBits
  <2> QED BY Zenon, <1>1, <1>7, <1>9, <2>2
<1> QED BY Zenon, <1>8, <1>9

LEMMA InsBits ==
  ASSUME NEW rs \in Word, NEW rt \in Word, NEW lsb \in 0 .. W - 1, NEW msb \in 0 .. W - 1,
         lsb <= msb, NEW k \in 0 .. W - 1
  PROVE  Bit(ins(rs, rt, lsb, msb), k) = IF k \in lsb .. msb THEN Bit(rs, k - lsb) ELSE Bit(rt, k)
<1> DEFINE mask == Mask(msb - lsb + 1)
           field == Shl(mask, lsb)
           kept == And(rt, Not_(field))
           cut == And(rs, mask)
           new == Shl(cut, lsb)
<1>1. /\ rs \in Int /\ rt \in Int /\ lsb \in Nat /\ msb \in Nat /\ k \in Nat /\ msb - lsb + 1 \in Nat
      /\ k >= lsb => k - lsb \in 0 .. W - 1
  BY Sizes DEF Word
<1>2. mask \in Word /\ \A i \in 0 .. W - 1 : Bit(mask, i) = IF i < msb - lsb + 1 THEN 1 ELSE 0
  BY Zenon, <1>1, MaskBits
<1>3. mask \in Int
  BY <1>2 DEF Word
<1>4. field \in Word /\ \A i \in 0 .. W - 1 : Bit(field, i) = IF i < lsb THEN 0 ELSE Bit(mask, i - lsb)
  <2> HIDE DEF mask
  <2> QED BY Zenon, <1>1, <1>3, ShlBits
<1>5. Not_(field) \in Word /\ \A i \in 0 .. W - 1 : Bit(Not_(field), i) = 1 - Bit(field, i)
  <2> HIDE DEF field
  <2> QED BY Zenon, <1>4, NotBits
<1>6. Not_(field) \in Int
  <2> HIDE DEF field
  <2> QED BY <1>5 DEF Word
<1>7. kept \in Word /\ Bit(kept, k) = Bit(rt, k) * Bit(Not_(field), k)
  <2> HIDE DEF field
  <2> QED BY Zenon, <1>1, <1>6, AndBits
<1>8. cut \in Word /\ \A i \in 0 .. W - 1 : Bit(cut, i) = Bit(rs, i) * Bit(mask, i)
  <2> HIDE DEF mask
  <2> QED BY Zenon, <1>1, <1>3, AndBits
<1>9. kept \in Int /\ cut \in Int
  <2> HIDE DEF kept, cut
  <2> QED BY <1>7, <1>8 DEF Word
<1>10. new \in Word /\ Bit(new, k) = IF k < lsb THEN 0 ELSE Bit(cut, k - lsb)
  <2> HIDE DEF cut
  <2> QED BY Zenon, <1>1, <1>9, ShlBits
<1>11. new \in Int
  <2> HIDE DEF new
  <2> QED BY <1>10 DEF Word
<1> HIDE DEF mask, field, kept, cut, new
<1>12. Bit(ins(rs, rt, lsb, msb), k) = Bool(Bit(kept, k) = 1 \/ Bit(new, k) = 1)
  BY Zenon, <1>9, <1>11, OrBits DEF ins, mask, field, kept, cut, new
<1>13. Bit(rt, k) \in {0, 1} /\ (k >= lsb => Bit(rs, k - lsb) \in {0, 1})
  <2>1. k >= lsb => k - lsb \in Nat
    BY <1>1
  <2> QED BY Zenon, <1>1, <2>1, BitType
<1>14. CASE k < lsb
  <2>1. Bit(new, k) = 0 /\ Bit(kept, k) = Bit(rt, k) /\ k \notin lsb .. msb
    BY <1>1, <1>4, <1>5, <1>7, <1>10, <1>13, <1>14
  <2> QED BY <1>12, <1>13, <2>1 DEF Bool
<1>15. CASE k \in lsb .. msb
  <2>1. k - lsb \in 0 .. W - 1 /\ k - lsb < msb - lsb + 1 /\ ~(k < lsb)
    BY <1>1, <1>15
  <2>2. Bit(mask, k - lsb) = 1
    BY Zenon, <1>2, <2>1
  <2>3. Bit(kept, k) = 0
    BY <1>4, <1>5, <1>7, <1>13, <2>1, <2>2
  <2>4. Bit(new, k) = Bit(rs, k - lsb)
    BY <1>1, <1>8, <1>10, <1>13, <2>1, <2>2
  <2> QED BY <1>1, <1>12, <1>13, <1>15, <2>1, <2>3, <2>4 DEF Bool
<1>16. CASE k > msb
  <2>1. k - lsb \in 0 .. W - 1 /\ ~(k - lsb < msb - lsb + 1) /\ ~(k < lsb) /\ k \notin lsb .. msb
    BY <1>1, <1>16
  <2>2. Bit(mask, k - lsb) = 0
    BY Zenon, <1>2, <2>1
  <2>3. Bit(kept, k) = Bit(rt, k)
    BY <1>4, <1>5, <1>7, <1>13, <2>1, <2>2
  <2>4. Bit(new, k) = 0
    BY <1>1, <1>8, <1>10, <1>13, <2>1, <2>2
  <2> QED BY <1>12, <1>13, <2>1, <2>3, <2>4 DEF Bool
<1> QED BY <1>1, <1>14, <1>15, <1>16

-----------------------------------------------------------------------------
(* Words and their bytes *)

LEMMA Places ==
  ASSUME NEW B \in Nat, B >= 1, NEW j \in 0 .. 3, NEW i \in 0 .. B - 1, NEW q \in 0 .. 4
  PROVE  /\ j * B + i \in 0 .. 4 * B - 1 /\ j * B + i \in Nat /\ j * B \in Nat /\ q * B \in Nat
         /\ j * B + i < q * B <=> j < q
         /\ j >= q => (j * B + i) - q * B = (j - q) * B + i
         /\ q * B + (j * B + i) = (q + j) * B + i
         /\ 4 * B - q * B = (4 - q) * B
<1>2. j = 0 \/ j = 1 \/ j = 2 \/ j = 3
  OBVIOUS
<1>3. q = 0 \/ q = 1 \/ q = 2 \/ q = 3 \/ q = 4
  OBVIOUS
<1> QED BY <1>2, <1>3

LEMMA ByteSizes ==
  /\ ByteBits \in Nat /\ ByteBits >= 1 /\ W = 4 * ByteBits
  /\ Pow2[ByteBits] \in Nat /\ Pow2[ByteBits] >= 1 /\ Byte = 0 .. Pow2[ByteBits] - 1
<1>1. ByteBits \in Nat /\ ByteBits >= 1
  BY ExecAssumption
<1> QED BY Zenon, <1>1, PowPos DEF W, Byte

\* The byte a bit of a word is in, and its place there.
LEMMA PlaceOf ==
  ASSUME NEW k \in 0 .. W - 1
  PROVE  /\ k \div ByteBits \in 0 .. 3 /\ k % ByteBits \in 0 .. ByteBits - 1
         /\ (k \div ByteBits) * ByteBits + (k % ByteBits) = k
<1> DEFINE j == k \div ByteBits
           i == k % ByteBits
<1>1. k \in Int /\ k >= 0 /\ k < 4 * ByteBits /\ ByteBits \in Nat /\ ByteBits >= 1
  BY ByteSizes
<1>2. k = ByteBits * j + i /\ j \in Int /\ i \in 0 .. ByteBits - 1
  BY Zenon, <1>1, DivMod
<1>3. j \in 0 .. 3 /\ j * ByteBits + i = k
  <2> HIDE DEF i, j
  <2> QED BY <1>1, <1>2
<1> QED BY Zenon, <1>2, <1>3

\* Two words with the same bits in every byte are the same.
LEMMA BytesDetermine ==
  ASSUME NEW x \in Word, NEW y \in Word,
         \A j \in 0 .. 3, i \in 0 .. ByteBits - 1 : Bit(x, j * ByteBits + i) = Bit(y, j * ByteBits + i)
  PROVE  x = y
<1>1. ASSUME NEW k \in 0 .. W - 1
      PROVE  Bit(x, k) = Bit(y, k)
  <2> DEFINE j == k \div ByteBits
             i == k % ByteBits
  <2>1. j \in 0 .. 3 /\ i \in 0 .. ByteBits - 1 /\ j * ByteBits + i = k
    BY Zenon, PlaceOf
  <2> HIDE DEF i, j
  <2> QED BY Zenon, <2>1
<1>2. x \in 0 .. Pow2[W] - 1 /\ y \in 0 .. Pow2[W] - 1 /\ W \in Nat
  BY Zenon, Sizes
<1> QED BY Zenon, <1>1, <1>2, BitsDetermine

LEMMA BytesBits ==
  ASSUME NEW x \in Int, NEW j \in 0 .. 3
  PROVE  /\ Bytes(x)[j] = (x \div Pow2[j * ByteBits]) % Pow2[ByteBits]
         /\ Bytes(x)[j] \in Byte
         /\ \A i \in 0 .. ByteBits - 1 : Bit(Bytes(x)[j], i) = Bit(x, j * ByteBits + i)
<1> DEFINE n == j * ByteBits
           y == x \div Pow2[n]
<1>1. n \in Nat
  BY ByteSizes
<1>2. Bytes(x)[j] = y % Pow2[ByteBits]
  BY DEF Bytes
<1> HIDE DEF n
<1>3. y \in Int /\ \A i \in Nat : Bit(y, i) = Bit(x, n + i)
  <2>1. 0 \in Nat
    OBVIOUS
  <2> QED BY Zenon, <1>1, <2>1, BitShr
<1> HIDE DEF y
<1>4. y % Pow2[ByteBits] \in Byte
  BY Zenon, <1>1, <1>3, ByteSizes, BitMod
<1>5. \A i \in 0 .. ByteBits - 1 : i \in Nat /\ i < ByteBits
  BY ByteSizes
<1>6. \A i \in 0 .. ByteBits - 1 : Bit(y % Pow2[ByteBits], i) = Bit(x, n + i)
  BY Zenon, <1>3, <1>5, ByteSizes, BitMod
<1> QED BY Zenon, <1>2, <1>4, <1>6 DEF n, y

LEMMA JoinedBits ==
  ASSUME NEW n \in 0 .. 4, NEW b, \A k \in 0 .. n - 1 : b[k] \in Byte
  PROVE  /\ Joined(b, n) \in Word
         /\ \A j \in 0 .. 3, i \in 0 .. ByteBits - 1 :
              Bit(Joined(b, n), j * ByteBits + i) = IF j < n THEN Bit(b[j], i) ELSE 0
<1> DEFINE x == Joined(b, n)
<1>1. n \in Nat /\ n * ByteBits \in Nat /\ n * ByteBits <= W
  <2>1. n = 0 \/ n = 1 \/ n = 2 \/ n = 3 \/ n = 4
    OBVIOUS
  <2> QED BY <2>1, ByteSizes
<1>2. /\ x \in 0 .. Pow2[n * ByteBits] - 1
      /\ \A j \in 0 .. n - 1, i \in 0 .. ByteBits - 1 : Bit(x, j * ByteBits + i) = Bit(b[j], i)
  <2>1. \A k \in 0 .. n - 1 : b[k] \in 0 .. Pow2[ByteBits] - 1
    BY Zenon, ByteSizes
  <2>2. ByteBits \in Nat /\ ByteBits >= 1
    BY Zenon, ByteSizes
  <2>3. n \in Nat
    OBVIOUS
  <2>4. /\ Digits(b, n, ByteBits) \in 0 .. Pow2[n * ByteBits] - 1
        /\ \A k \in 0 .. n - 1, i \in 0 .. ByteBits - 1 :
             Bit(Digits(b, n, ByteBits), k * ByteBits + i) = Bit(b[k], i)
    BY <2>1, <2>2, <2>3, DigitsBits
  <2> QED BY Zenon, <2>4 DEF Joined
<1> HIDE DEF x
<1>3. x \in Word
  <2>1. Pow2[n * ByteBits] \in Nat /\ Pow2[n * ByteBits] <= Pow2[W] /\ Pow2[W] \in Nat
    BY Zenon, <1>1, Sizes, PowMonotone, PowPos
  <2>2. x \in 0 .. Pow2[W] - 1
    BY <1>2, <2>1
  <2> QED BY Zenon, <2>2, Sizes
<1>4. ASSUME NEW j \in 0 .. 3, NEW i \in 0 .. ByteBits - 1
      PROVE  Bit(x, j * ByteBits + i) = IF j < n THEN Bit(b[j], i) ELSE 0
  <2>1. CASE j < n
    <3>1. j \in 0 .. n - 1
      BY <2>1
    <3> QED BY Zenon, <1>2, <2>1, <3>1
  <2>2. CASE ~(j < n)
    <3>1. j * ByteBits + i \in Nat /\ ~(j * ByteBits + i < n * ByteBits)
      BY Zenon, <2>2, ByteSizes, Places
    <3>2. j * ByteBits + i >= n * ByteBits
      BY <1>1, <3>1
    <3>3. Bit(x, j * ByteBits + i) = 0
      BY Zenon, <1>1, <1>2, <3>1, <3>2, HighBits
    <3> QED BY Zenon, <2>2, <3>3
  <2> QED BY Zenon, <2>1, <2>2
<1> QED BY Zenon, <1>3, <1>4 DEF x

LEMMA WsbhBits ==
  ASSUME NEW x \in Word, NEW k \in 0 .. W - 1
  PROVE  LET byte == k \div ByteBits
             other == IF byte % 2 = 0 THEN byte + 1 ELSE byte - 1
         IN  Bit(wsbh(x), k) = Bit(x, other * ByteBits + (k % ByteBits))
<1> DEFINE b == Bytes(x)
           d == [p \in 0 .. 3 |-> b[IF p % 2 = 0 THEN p + 1 ELSE p - 1]]
           j == k \div ByteBits
           i == k % ByteBits
<1>1. \A p \in 0 .. 3 : /\ d[p] = b[IF p % 2 = 0 THEN p + 1 ELSE p - 1]
                        /\ (IF p % 2 = 0 THEN p + 1 ELSE p - 1) \in 0 .. 3
  OBVIOUS
<1>2. x \in Int
  BY DEF Word
<1>3. \A p \in 0 .. 3 : b[p] \in Byte /\ \A q \in 0 .. ByteBits - 1 : Bit(b[p], q) = Bit(x, p * ByteBits + q)
  BY Zenon, <1>2, BytesBits
<1> HIDE DEF b, d
<1>4. \A p \in 0 .. 4 - 1 : d[p] \in Byte
  <2>1. 4 - 1 = 3
    OBVIOUS
  <2> QED BY Zenon, <1>1, <1>3, <2>1
<1>5. \A p \in 0 .. 3, q \in 0 .. ByteBits - 1 :
        Bit(Joined(d, 4), p * ByteBits + q) = IF p < 4 THEN Bit(d[p], q) ELSE 0
  <2>1. 4 \in 0 .. 4
    OBVIOUS
  <2> QED BY Zenon, <1>4, <2>1, JoinedBits
<1>6. i \in 0 .. ByteBits - 1 /\ j \in 0 .. 3 /\ j * ByteBits + i = k
  BY Zenon, PlaceOf
<1>8. wsbh(x) = Joined(d, 4)
  BY Zenon DEF wsbh, b, d
<1>9. Bit(wsbh(x), k) = Bit(d[j], i)
  <2> HIDE DEF i, j
  <2>1. j < 4
    BY <1>6
  <2> QED BY Zenon, <1>5, <1>6, <1>8, <2>1
<1>10. Bit(d[j], i) = Bit(x, (IF j % 2 = 0 THEN j + 1 ELSE j - 1) * ByteBits + i)
  <2> HIDE DEF i, j
  <2> QED BY Zenon, <1>1, <1>3, <1>6
<1> QED BY Zenon, <1>9, <1>10

-----------------------------------------------------------------------------
(* Parts of unaligned words *)

LEMMA MemByte ==
  ASSUME NEW m \in Mem, NEW a \in 0 .. MemSize - 1
  PROVE  m[a] \in Byte
BY DEF Mem

\* The first bytes of the word in a register, read from memory.
LEMMA ReadBits ==
  ASSUME NEW m \in Mem, NEW a \in Nat, NEW n \in 1 .. 4, a + n <= MemSize
  PROVE  /\ vaddr_read(m, a, n) \in Word
         /\ \A j \in 0 .. 3, i \in 0 .. ByteBits - 1 :
              Bit(vaddr_read(m, a, n), j * ByteBits + i) = IF j < n THEN Bit(m[a + j], i) ELSE 0
<1> DEFINE b == [k \in 0 .. n - 1 |-> m[a + k]]
<1>1. MemSize \in Nat
  BY ExecAssumption
<1>2. a < MemSize /\ n \in 0 .. 4 /\ \A k \in 0 .. n - 1 : a + k \in 0 .. MemSize - 1
  BY <1>1
<1>3. \A k \in 0 .. n - 1 : b[k] = m[a + k] /\ b[k] \in Byte
  BY Zenon, <1>2, MemByte
<1>4. vaddr_read(m, a, n) = Joined(b, n)
  BY Zenon, <1>2 DEF vaddr_read, Mapped
<1> HIDE DEF b
<1>5. /\ Joined(b, n) \in Word
      /\ \A j \in 0 .. 3, i \in 0 .. ByteBits - 1 :
           Bit(Joined(b, n), j * ByteBits + i) = IF j < n THEN Bit(b[j], i) ELSE 0
  BY Zenon, <1>2, <1>3, JoinedBits
<1>6. \A j \in 0 .. 3 : j < n => j \in 0 .. n - 1
  OBVIOUS
<1> QED BY Zenon, <1>3, <1>4, <1>5, <1>6

LEMMA ShlBytes ==
  ASSUME NEW x \in Word, NEW q \in 0 .. 4
  PROVE  /\ Shl(x, q * ByteBits) \in Word
         /\ \A j \in 0 .. 3, i \in 0 .. ByteBits - 1 :
              Bit(Shl(x, q * ByteBits), j * ByteBits + i) =
                IF j < q THEN 0 ELSE Bit(x, (j - q) * ByteBits + i)
<1> DEFINE n == q * ByteBits
<1>0. 0 \in 0 .. 3 /\ 0 \in 0 .. ByteBits - 1 /\ x \in Int
  BY ByteSizes DEF Word
<1>1. n \in Nat
  BY Zenon, <1>0, ByteSizes, Places
<1> HIDE DEF n
<1>2. Shl(x, n) \in Word /\ \A k \in 0 .. W - 1 : Bit(Shl(x, n), k) = IF k < n THEN 0 ELSE Bit(x, k - n)
  BY Zenon, <1>0, <1>1, ShlBits
<1>3. ASSUME NEW j \in 0 .. 3, NEW i \in 0 .. ByteBits - 1
      PROVE  Bit(Shl(x, n), j * ByteBits + i) = IF j < q THEN 0 ELSE Bit(x, (j - q) * ByteBits + i)
  <2> DEFINE k == j * ByteBits + i
  <2>1. k \in 0 .. W - 1 /\ (k < n <=> j < q) /\ (j >= q => k - n = (j - q) * ByteBits + i)
    BY Zenon, ByteSizes, Places DEF n
  <2>2. j < q \/ j >= q
    OBVIOUS
  <2> HIDE DEF k
  <2>3. Bit(Shl(x, n), k) = IF j < q THEN 0 ELSE Bit(x, (j - q) * ByteBits + i)
    BY Zenon, <1>2, <2>1, <2>2
  <2> QED BY Zenon, <2>3 DEF k
<1> QED BY Zenon, <1>2, <1>3 DEF n

LEMMA ShrBytes ==
  ASSUME NEW x \in Word, NEW q \in 0 .. 4
  PROVE  /\ Shr(x, q * ByteBits) \in Word
         /\ \A j \in 0 .. 3, i \in 0 .. ByteBits - 1 :
              Bit(Shr(x, q * ByteBits), j * ByteBits + i) =
                IF j + q < 4 THEN Bit(x, (j + q) * ByteBits + i) ELSE 0
<1> DEFINE n == q * ByteBits
<1>0. 0 \in 0 .. 3 /\ 0 \in 0 .. ByteBits - 1 /\ x \in Int /\ x \in 0 .. Pow2[W] - 1
  <2>1. 0 \in 0 .. 3 /\ 0 \in 0 .. ByteBits - 1 /\ x \in Int
    BY ByteSizes DEF Word
  <2> QED BY Zenon, <2>1, Sizes
<1>1. n \in Nat
  BY Zenon, <1>0, ByteSizes, Places
<1> HIDE DEF n
<1>2. Shr(x, n) \in Word /\ \A k \in Nat : Bit(Shr(x, n), k) = Bit(x, n + k)
  BY Zenon, <1>0, <1>1, ShrBits
<1>3. ASSUME NEW j \in 0 .. 3, NEW i \in 0 .. ByteBits - 1
      PROVE  Bit(Shr(x, n), j * ByteBits + i) = IF j + q < 4 THEN Bit(x, (j + q) * ByteBits + i) ELSE 0
  <2> DEFINE k == j * ByteBits + i
  <2>1. k \in Nat /\ n + k = (q + j) * ByteBits + i
    BY Zenon, ByteSizes, Places DEF n
  <2>2. q + j = j + q
    OBVIOUS
  <2> HIDE DEF k
  <2>3. Bit(Shr(x, n), k) = Bit(x, (j + q) * ByteBits + i)
    BY Zenon, <1>2, <2>1, <2>2
  <2>4. ASSUME ~(j + q < 4) PROVE Bit(x, (j + q) * ByteBits + i) = 0
    <3> DEFINE p == (j + q) * ByteBits + i
    <3>1. p \in Nat /\ p >= W
      BY <2>4, ByteSizes
    <3> HIDE DEF p
    <3>2. Bit(x, p) = 0
      BY Zenon, <1>0, <3>1, Sizes, HighBits
    <3> QED BY Zenon, <3>2 DEF p
  <2> QED BY Zenon, <2>3, <2>4 DEF k
<1> QED BY Zenon, <1>2, <1>3 DEF n

LEMMA OrBytes ==
  ASSUME NEW x \in Word, NEW y \in Word
  PROVE  /\ Or(x, y) \in Word
         /\ \A j \in 0 .. 3, i \in 0 .. ByteBits - 1 :
              LET p == j * ByteBits + i
              IN  /\ Bit(x, p) = 0 => Bit(Or(x, y), p) = Bit(y, p)
                  /\ Bit(y, p) = 0 => Bit(Or(x, y), p) = Bit(x, p)
<1>1. x \in Int /\ y \in Int
  BY DEF Word
<1>2. Or(x, y) \in Word /\ \A k \in 0 .. W - 1 : Bit(Or(x, y), k) = Bool(Bit(x, k) = 1 \/ Bit(y, k) = 1)
  BY Zenon, <1>1, OrBits
<1>3. ASSUME NEW j \in 0 .. 3, NEW i \in 0 .. ByteBits - 1
      PROVE  LET p == j * ByteBits + i
             IN  /\ Bit(x, p) = 0 => Bit(Or(x, y), p) = Bit(y, p)
                 /\ Bit(y, p) = 0 => Bit(Or(x, y), p) = Bit(x, p)
  <2> DEFINE p == j * ByteBits + i
  <2>1. p \in Nat /\ p \in 0 .. W - 1
    <3>1. 0 \in 0 .. 4
      OBVIOUS
    <3> QED BY Zenon, <3>1, ByteSizes, Places
  <2> HIDE DEF p
  <2>2. Bit(x, p) \in {0, 1} /\ Bit(y, p) \in {0, 1}
    BY Zenon, <1>1, <2>1, BitType
  <2>3. Bit(Or(x, y), p) = Bool(Bit(x, p) = 1 \/ Bit(y, p) = 1)
    BY Zenon, <1>2, <2>1
  <2>4. /\ Bit(x, p) = 0 => Bit(Or(x, y), p) = Bit(y, p)
        /\ Bit(y, p) = 0 => Bit(Or(x, y), p) = Bit(x, p)
    BY <2>2, <2>3 DEF Bool
  <2> QED BY Zenon, <2>4 DEF p
<1> QED BY Zenon, <1>2, <1>3

\* lwl at the last byte of an aligned word's part: bytes of the register from the
\* top, the others stay.
LEMMA lwlBits ==
  ASSUME NEW m \in Mem, NEW r \in 0 .. MemSize - 1, NEW rt \in Word
  PROVE  /\ lwl(m, r, rt) \in Word
         /\ \A j \in 0 .. 3, i \in 0 .. ByteBits - 1 :
              Bit(lwl(m, r, rt), j * ByteBits + i) =
                IF j >= 3 - (r % 4) THEN Bit(m[(r \div 4) * 4 + (j - (3 - (r % 4)))], i)
                                    ELSE Bit(rt, j * ByteBits + i)
<1> DEFINE len == (r % 4) + 1
           base == (r \div 4) * 4
           rdata == vaddr_read(m, base, len)
           high == Shl(rdata, W - len * ByteBits)
           rest == Shr(Shl(rt, len * ByteBits), len * ByteBits)
           q == 4 - len
<1>1. len \in 1 .. 4 /\ base \in Nat /\ base + len <= MemSize /\ len \in 0 .. 4 /\ q \in 0 .. 4 /\ 3 - (r % 4) = q
  BY ExecAssumption
<1>2. lwl(m, r, rt) = IF len < 4 THEN Or(high, rest) ELSE rdata
  BY Zenon DEF lwl
<1> HIDE DEF len, base, q
<1>3. /\ rdata \in Word
      /\ \A j \in 0 .. 3, i \in 0 .. ByteBits - 1 :
           Bit(rdata, j * ByteBits + i) = IF j < len THEN Bit(m[base + j], i) ELSE 0
  BY Zenon, <1>1, ReadBits
<1> HIDE DEF rdata
<1>4. W - len * ByteBits = q * ByteBits
  <2>1. 0 \in 0 .. 3 /\ 0 \in 0 .. ByteBits - 1
    BY ByteSizes
  <2> QED BY Zenon, <1>1, <2>1, ByteSizes, Places DEF q
<1>5. /\ high \in Word
      /\ \A j \in 0 .. 3, i \in 0 .. ByteBits - 1 :
           Bit(high, j * ByteBits + i) = IF j < q THEN 0 ELSE Bit(rdata, (j - q) * ByteBits + i)
  <2>1. high = Shl(rdata, q * ByteBits)
    BY Zenon, <1>4
  <2>2. /\ Shl(rdata, q * ByteBits) \in Word
        /\ \A j \in 0 .. 3, i \in 0 .. ByteBits - 1 :
             Bit(Shl(rdata, q * ByteBits), j * ByteBits + i) =
               IF j < q THEN 0 ELSE Bit(rdata, (j - q) * ByteBits + i)
    BY Zenon, <1>1, <1>3, ShlBytes
  <2> HIDE DEF high
  <2> QED BY Zenon, <2>1, <2>2
<1>6. /\ rest \in Word
      /\ \A j \in 0 .. 3, i \in 0 .. ByteBits - 1 :
           Bit(rest, j * ByteBits + i) = IF j < q THEN Bit(rt, j * ByteBits + i) ELSE 0
  <2> DEFINE up == Shl(rt, len * ByteBits)
  <2>1. /\ up \in Word
        /\ \A j \in 0 .. 3, i \in 0 .. ByteBits - 1 :
             Bit(up, j * ByteBits + i) = IF j < len THEN 0 ELSE Bit(rt, (j - len) * ByteBits + i)
    BY Zenon, <1>1, ShlBytes
  <2> HIDE DEF up
  <2>2. /\ Shr(up, len * ByteBits) \in Word
        /\ \A j \in 0 .. 3, i \in 0 .. ByteBits - 1 :
             Bit(Shr(up, len * ByteBits), j * ByteBits + i) =
               IF j + len < 4 THEN Bit(up, (j + len) * ByteBits + i) ELSE 0
    BY Zenon, <1>1, <2>1, ShrBytes
  <2>3. \A j \in 0 .. 3 : /\ j + len < 4 <=> j < q
                          /\ j < q => j + len \in 0 .. 3 /\ ~(j + len < len) /\ (j + len) - len = j
    BY <1>1 DEF q
  <2>4. rest = Shr(up, len * ByteBits)
    BY Zenon DEF up
  <2> HIDE DEF rest
  <2>5. ASSUME NEW j \in 0 .. 3, NEW i \in 0 .. ByteBits - 1
        PROVE  Bit(rest, j * ByteBits + i) = IF j < q THEN Bit(rt, j * ByteBits + i) ELSE 0
    <3>1. CASE j < q
      <4>1. j + len \in 0 .. 3 /\ ~(j + len < len) /\ (j + len) - len = j /\ j + len < 4
        BY Zenon, <2>3, <3>1
      <4>2. Bit(up, (j + len) * ByteBits + i) = Bit(rt, j * ByteBits + i)
        BY Zenon, <2>1, <4>1
      <4> QED BY Zenon, <2>2, <2>4, <3>1, <4>1, <4>2
    <3>2. CASE ~(j < q)
      BY Zenon, <2>2, <2>3, <2>4, <3>2
    <3> QED BY Zenon, <3>1, <3>2
  <2> QED BY Zenon, <2>2, <2>4, <2>5
<1> HIDE DEF high, rest
<1>7. CASE len < 4
  <2>1. lwl(m, r, rt) = Or(high, rest)
    BY Zenon, <1>2, <1>7
  <2>2. /\ Or(high, rest) \in Word
        /\ \A j \in 0 .. 3, i \in 0 .. ByteBits - 1 :
             LET p == j * ByteBits + i
             IN  /\ Bit(high, p) = 0 => Bit(Or(high, rest), p) = Bit(rest, p)
                 /\ Bit(rest, p) = 0 => Bit(Or(high, rest), p) = Bit(high, p)
    BY Zenon, <1>5, <1>6, OrBytes
  <2>3. \A j \in 0 .. 3 : /\ j >= q <=> ~(j < q)
                          /\ j >= q => j - q \in 0 .. 3 /\ j - q < len
    BY <1>1 DEF q
  <2>4. \A j \in 0 .. 3, i \in 0 .. ByteBits - 1 :
          Bit(Or(high, rest), j * ByteBits + i) =
            IF j >= q THEN Bit(m[base + (j - q)], i) ELSE Bit(rt, j * ByteBits + i)
    <3> SUFFICES ASSUME NEW j \in 0 .. 3, NEW i \in 0 .. ByteBits - 1
                 PROVE  Bit(Or(high, rest), j * ByteBits + i) =
                          IF j >= q THEN Bit(m[base + (j - q)], i) ELSE Bit(rt, j * ByteBits + i)
      OBVIOUS
    <3>1. CASE j >= q
      <4>1. Bit(high, j * ByteBits + i) = Bit(m[base + (j - q)], i)
        BY Zenon, <1>3, <1>5, <2>3, <3>1
      <4>2. Bit(rest, j * ByteBits + i) = 0
        BY Zenon, <1>6, <2>3, <3>1
      <4> QED BY Zenon, <2>2, <3>1, <4>1, <4>2
    <3>2. CASE ~(j >= q)
      <4>1. Bit(high, j * ByteBits + i) = 0
        BY Zenon, <1>5, <2>3, <3>2
      <4>2. Bit(rest, j * ByteBits + i) = Bit(rt, j * ByteBits + i)
        BY Zenon, <1>6, <2>3, <3>2
      <4> QED BY Zenon, <2>2, <3>2, <4>1, <4>2
    <3> QED BY Zenon, <3>1, <3>2
  <2> QED BY Zenon, <1>1, <2>1, <2>2, <2>4 DEF base
<1>8. CASE ~(len < 4)
  <2>1. lwl(m, r, rt) = rdata
    BY Zenon, <1>2, <1>8
  <2>2. \A j \in 0 .. 3 : j >= q /\ j < len /\ j - q = j
    BY <1>1, <1>8 DEF q
  <2>3. ASSUME NEW j \in 0 .. 3, NEW i \in 0 .. ByteBits - 1
        PROVE  Bit(rdata, j * ByteBits + i) =
                 IF j >= q THEN Bit(m[base + (j - q)], i) ELSE Bit(rt, j * ByteBits + i)
    BY Zenon, <1>3, <2>2
  <2> QED BY Zenon, <1>1, <1>3, <2>1, <2>3 DEF base
<1> QED BY Zenon, <1>7, <1>8

\* lwr: the bytes of the register from the bottom, the others stay.
LEMMA lwrBits ==
  ASSUME NEW m \in Mem, NEW r \in 0 .. MemSize - 1, NEW rt \in Word
  PROVE  /\ lwr(m, r, rt) \in Word
         /\ \A j \in 0 .. 3, i \in 0 .. ByteBits - 1 :
              Bit(lwr(m, r, rt), j * ByteBits + i) =
                IF j < 4 - (r % 4) THEN Bit(m[r + j], i) ELSE Bit(rt, j * ByteBits + i)
<1> DEFINE idx == r % 4
           len == 4 - idx
           rdata == vaddr_read(m, r, len)
           low == Shr(Shl(rdata, idx * ByteBits), idx * ByteBits)
           rest == Shl(Shr(rt, len * ByteBits), len * ByteBits)
<1>1. len \in 1 .. 4 /\ r \in Nat /\ r + len <= MemSize /\ len \in 0 .. 4 /\ idx \in 0 .. 4
  BY ExecAssumption
<1>2. lwr(m, r, rt) = IF len < 4 THEN Or(low, rest) ELSE low
  BY Zenon DEF lwr
<1> HIDE DEF idx
<1>3. /\ rdata \in Word
      /\ \A j \in 0 .. 3, i \in 0 .. ByteBits - 1 :
           Bit(rdata, j * ByteBits + i) = IF j < len THEN Bit(m[r + j], i) ELSE 0
  <2> HIDE DEF len
  <2> QED BY Zenon, <1>1, ReadBits
<1> HIDE DEF rdata
<1>4. /\ low \in Word
      /\ \A j \in 0 .. 3, i \in 0 .. ByteBits - 1 :
           Bit(low, j * ByteBits + i) = IF j < len THEN Bit(m[r + j], i) ELSE 0
  <2> DEFINE up == Shl(rdata, idx * ByteBits)
  <2>1. /\ up \in Word
        /\ \A j \in 0 .. 3, i \in 0 .. ByteBits - 1 :
             Bit(up, j * ByteBits + i) = IF j < idx THEN 0 ELSE Bit(rdata, (j - idx) * ByteBits + i)
    BY Zenon, <1>1, <1>3, ShlBytes
  <2> HIDE DEF up
  <2>2. /\ Shr(up, idx * ByteBits) \in Word
        /\ \A j \in 0 .. 3, i \in 0 .. ByteBits - 1 :
             Bit(Shr(up, idx * ByteBits), j * ByteBits + i) =
               IF j + idx < 4 THEN Bit(up, (j + idx) * ByteBits + i) ELSE 0
    BY Zenon, <1>1, <2>1, ShrBytes
  <2>3. \A j \in 0 .. 3 : /\ j + idx < 4 <=> j < len
                          /\ j < len => j + idx \in 0 .. 3 /\ ~(j + idx < idx) /\ (j + idx) - idx = j
    BY <1>1
  <2>4. low = Shr(up, idx * ByteBits)
    BY Zenon DEF up
  <2> HIDE DEF low, len
  <2>5. ASSUME NEW j \in 0 .. 3, NEW i \in 0 .. ByteBits - 1
        PROVE  Bit(low, j * ByteBits + i) = IF j < len THEN Bit(m[r + j], i) ELSE 0
    <3>1. CASE j < len
      <4>1. j + idx \in 0 .. 3 /\ ~(j + idx < idx) /\ (j + idx) - idx = j /\ j + idx < 4
        BY Zenon, <2>3, <3>1
      <4>2. Bit(up, (j + idx) * ByteBits + i) = Bit(rdata, j * ByteBits + i)
        BY Zenon, <2>1, <4>1
      <4>3. Bit(rdata, j * ByteBits + i) = Bit(m[r + j], i)
        BY Zenon, <1>3, <3>1
      <4> QED BY Zenon, <2>2, <2>4, <3>1, <4>1, <4>2, <4>3
    <3>2. CASE ~(j < len)
      BY Zenon, <2>2, <2>3, <2>4, <3>2
    <3> QED BY Zenon, <3>1, <3>2
  <2> QED BY Zenon, <2>2, <2>4, <2>5
<1>5. /\ rest \in Word
      /\ \A j \in 0 .. 3, i \in 0 .. ByteBits - 1 :
           Bit(rest, j * ByteBits + i) = IF j < len THEN 0 ELSE Bit(rt, j * ByteBits + i)
  <2> DEFINE down == Shr(rt, len * ByteBits)
  <2> HIDE DEF len
  <2>1. /\ down \in Word
        /\ \A j \in 0 .. 3, i \in 0 .. ByteBits - 1 :
             Bit(down, j * ByteBits + i) = IF j + len < 4 THEN Bit(rt, (j + len) * ByteBits + i) ELSE 0
    BY Zenon, <1>1, ShrBytes
  <2> HIDE DEF down
  <2>2. /\ Shl(down, len * ByteBits) \in Word
        /\ \A j \in 0 .. 3, i \in 0 .. ByteBits - 1 :
             Bit(Shl(down, len * ByteBits), j * ByteBits + i) =
               IF j < len THEN 0 ELSE Bit(down, (j - len) * ByteBits + i)
    BY Zenon, <1>1, <2>1, ShlBytes
  <2>3. \A j \in 0 .. 3 : ~(j < len) => j - len \in 0 .. 3 /\ (j - len) + len < 4 /\ (j - len) + len = j
    BY <1>1
  <2>4. rest = Shl(down, len * ByteBits)
    BY Zenon DEF down
  <2> HIDE DEF rest
  <2>5. ASSUME NEW j \in 0 .. 3, NEW i \in 0 .. ByteBits - 1
        PROVE  Bit(rest, j * ByteBits + i) = IF j < len THEN 0 ELSE Bit(rt, j * ByteBits + i)
    <3>1. CASE j < len
      BY Zenon, <2>2, <2>4, <3>1
    <3>2. CASE ~(j < len)
      <4>1. j - len \in 0 .. 3 /\ (j - len) + len < 4 /\ (j - len) + len = j
        BY Zenon, <2>3, <3>2
      <4>2. Bit(down, (j - len) * ByteBits + i) = Bit(rt, j * ByteBits + i)
        BY Zenon, <2>1, <4>1
      <4> QED BY Zenon, <2>2, <2>4, <3>2, <4>2
    <3> QED BY Zenon, <3>1, <3>2
  <2> QED BY Zenon, <2>2, <2>4, <2>5
<1> HIDE DEF low, rest
<1>6. CASE len < 4
  <2>1. lwr(m, r, rt) = Or(low, rest)
    BY Zenon, <1>2, <1>6
  <2>2. /\ Or(low, rest) \in Word
        /\ \A j \in 0 .. 3, i \in 0 .. ByteBits - 1 :
             LET p == j * ByteBits + i
             IN  /\ Bit(low, p) = 0 => Bit(Or(low, rest), p) = Bit(rest, p)
                 /\ Bit(rest, p) = 0 => Bit(Or(low, rest), p) = Bit(low, p)
    BY Zenon, <1>4, <1>5, OrBytes
  <2>3. \A j \in 0 .. 3, i \in 0 .. ByteBits - 1 :
          Bit(Or(low, rest), j * ByteBits + i) =
            IF j < len THEN Bit(m[r + j], i) ELSE Bit(rt, j * ByteBits + i)
    BY Zenon, <1>4, <1>5, <2>2
  <2> QED BY Zenon, <2>1, <2>2, <2>3 DEF idx
<1>7. CASE ~(len < 4)
  <2>1. \A j \in 0 .. 3 : j < len
    BY <1>1, <1>7
  <2> QED BY Zenon, <1>2, <1>4, <1>7, <2>1 DEF idx
<1> QED BY Zenon, <1>6, <1>7

\* The two parts of the word at addr: lwl and swl work on the aligned word that
\* its last byte is in.
LEMMA Parts ==
  ASSUME NEW addr \in 0 .. MemSize - 4
  PROVE  LET r == addr % 4
             e == (addr + 3) % 4
             base == ((addr + 3) \div 4) * 4
         IN  /\ addr \in 0 .. MemSize - 1 /\ addr + 3 \in 0 .. MemSize - 1
             /\ r \in 0 .. 3 /\ e \in 0 .. 3 /\ base \in Nat /\ base < MemSize
             /\ base = addr + (3 - e)
             /\ (r = 0 /\ e = 3) \/ (r \in 1 .. 3 /\ e = r - 1)
<1>1. MemSize \in Nat /\ MemSize % 4 = 0
  BY ExecAssumption
<1> QED BY <1>1

LEMMA MovedBytes ==
  ASSUME NEW x \in Word, NEW q \in 0 .. 3, NEW j \in 0 .. 3, q + j <= 3
  PROVE  Bytes(Shr(x, q * ByteBits))[j] = Bytes(x)[q + j]
<1> DEFINE n == q * ByteBits
           k == j * ByteBits
<1>1. x \in Int /\ q + j \in 0 .. 3 /\ n \in Nat /\ k \in Nat /\ (q + j) * ByteBits = n + k
  BY ByteSizes DEF Word
<1> HIDE DEF n, k
<1>2. x \div Pow2[n] \in Int
  BY Zenon, <1>1, BitShr
<1>3. Pow2[n] \in Nat /\ Pow2[n] >= 1 /\ Pow2[k] \in Nat /\ Pow2[k] >= 1 /\ Pow2[n + k] = Pow2[n] * Pow2[k]
  BY Zenon, <1>1, PowPos, PowAdd
<1>4. (x \div Pow2[n]) \div Pow2[k] = x \div Pow2[n + k]
  <2>1. (x \div Pow2[n]) \div Pow2[k] = x \div (Pow2[n] * Pow2[k])
    BY Zenon, <1>1, <1>3, DivDiv
  <2> QED BY Zenon, <1>3, <2>1
<1>5. Bytes(x)[q + j] = (x \div Pow2[n + k]) % Pow2[ByteBits]
  BY Zenon, <1>1, BytesBits
<1>6. Bytes(x \div Pow2[n])[j] = ((x \div Pow2[n]) \div Pow2[k]) % Pow2[ByteBits]
  BY Zenon, <1>2, BytesBits DEF k
<1> QED BY Zenon, <1>4, <1>5, <1>6 DEF Shr, n

\* The bytes of the word rt at addr that lie in part, in memory m.
WithBytes(m, part, addr, rt) == [x \in DOMAIN m |-> IF x \in part THEN Bytes(rt)[x - addr] ELSE m[x]]

\* What swl and swr write for the word at addr.
LEMMA StoredParts ==
  ASSUME NEW m, NEW rt \in Word, NEW addr \in 0 .. MemSize - 4
  PROVE  /\ Stored("swl", m, addr + 3, rt) =
              WithBytes(m, addr + (3 - ((addr + 3) % 4)) .. addr + 3, addr, rt)
         /\ Stored("swr", m, addr, rt) = WithBytes(m, addr .. addr + (3 - (addr % 4)), addr, rt)
<1> DEFINE r == addr % 4
           e == (addr + 3) % 4
           base == ((addr + 3) \div 4) * 4
           data == Shr(rt, (3 - e) * ByteBits)
<1>1. /\ addr \in 0 .. MemSize - 1 /\ r \in 0 .. 3 /\ e \in 0 .. 3 /\ base \in Nat /\ base < MemSize
      /\ base = addr + (3 - e)
  BY Zenon, Parts
<1>2. MemSize \in Nat
  BY ExecAssumption
<1>3. Stored("swl", m, addr + 3, rt) = vaddr_write(m, base, e + 1, data)
  BY DEF Stored
<1>4. Stored("swr", m, addr, rt) = vaddr_write(m, addr, 4 - r, rt)
  BY DEF Stored
<1>5. base .. base + (e + 1) - 1 = addr + (3 - e) .. addr + 3
  <2> HIDE DEF base, e
  <2> QED BY <1>1
<1>6. \A x \in addr + (3 - e) .. addr + 3 : Bytes(data)[x - base] = Bytes(rt)[x - addr]
  <2> HIDE DEF base, e
  <2> SUFFICES ASSUME NEW x \in addr + (3 - e) .. addr + 3
               PROVE  Bytes(data)[x - base] = Bytes(rt)[x - addr]
    OBVIOUS
  <2>1. 3 - e \in 0 .. 3 /\ x - base \in 0 .. 3 /\ (3 - e) + (x - base) <= 3 /\ (3 - e) + (x - base) = x - addr
    BY <1>1
  <2>2. Bytes(data)[x - base] = Bytes(rt)[(3 - e) + (x - base)]
    BY Zenon, <2>1, MovedBytes
  <2> QED BY Zenon, <2>1, <2>2
<1>7. vaddr_write(m, base, e + 1, data) =
        [x \in DOMAIN m |-> IF x \in addr + (3 - e) .. addr + 3 THEN Bytes(rt)[x - addr] ELSE m[x]]
  <2>1. vaddr_write(m, base, e + 1, data) =
          [x \in DOMAIN m |-> IF x \in base .. base + (e + 1) - 1 THEN Bytes(data)[x - base] ELSE m[x]]
    <3> HIDE DEF base, e, data
    <3> QED BY Zenon, <1>1 DEF vaddr_write, Mapped
  <2> HIDE DEF base, e, data
  <2> QED BY Zenon, <1>5, <1>6, <2>1
<1>8. vaddr_write(m, addr, 4 - r, rt) =
        [x \in DOMAIN m |-> IF x \in addr .. addr + (3 - r) THEN Bytes(rt)[x - addr] ELSE m[x]]
  <2> HIDE DEF r
  <2>1. addr < MemSize /\ addr + (4 - r) - 1 = addr + (3 - r)
    BY <1>1, <1>2
  <2> QED BY Zenon, <2>1 DEF vaddr_write, Mapped
<1> QED BY Zenon, <1>3, <1>4, <1>7, <1>8 DEF WithBytes

LEMMA UnalignedParts ==
  ASSUME NEW m \in Mem, NEW rt \in Word, NEW addr \in 0 .. MemSize - 4
  PROVE  LET word == Joined([k \in 0 .. 3 |-> m[addr + k]], 4)
             both == Stored("swr", Stored("swl", m, addr + 3, rt), addr, rt)
         IN /\ lwr(m, addr, lwl(m, addr + 3, rt)) = word
            /\ lwl(m, addr + 3, lwr(m, addr, rt)) = word
            /\ both = [x \in DOMAIN m |-> IF x \in addr .. addr + 3 THEN Bytes(rt)[x - addr] ELSE m[x]]
            /\ Stored("swl", Stored("swr", m, addr, rt), addr + 3, rt) = both
<1> DEFINE r == addr % 4
           e == (addr + 3) % 4
           b == [k \in 0 .. 3 |-> m[addr + k]]
           word == Joined(b, 4)
           all == [x \in DOMAIN m |-> IF x \in addr .. addr + 3 THEN Bytes(rt)[x - addr] ELSE m[x]]
<1>1. /\ addr \in 0 .. MemSize - 1 /\ addr + 3 \in 0 .. MemSize - 1
      /\ r \in 0 .. 3 /\ e \in 0 .. 3 /\ ((addr + 3) \div 4) * 4 = addr + (3 - e)
      /\ (r = 0 /\ e = 3) \/ (r \in 1 .. 3 /\ e = r - 1)
  BY Zenon, Parts
<1>2. /\ word \in Word
      /\ \A j \in 0 .. 3, i \in 0 .. ByteBits - 1 : Bit(word, j * ByteBits + i) = Bit(m[addr + j], i)
  <2>1. 4 \in 0 .. 4 /\ 4 - 1 = 3 /\ \A j \in 0 .. 3 : j < 4 /\ addr + j \in 0 .. MemSize - 1
    BY <1>1, ExecAssumption
  <2>2. \A k \in 0 .. 4 - 1 : b[k] = m[addr + k] /\ b[k] \in Byte
    BY Zenon, <2>1, MemByte
  <2> HIDE DEF b
  <2>3. /\ Joined(b, 4) \in Word
        /\ \A j \in 0 .. 3, i \in 0 .. ByteBits - 1 :
             Bit(Joined(b, 4), j * ByteBits + i) = IF j < 4 THEN Bit(b[j], i) ELSE 0
    BY Zenon, <2>1, <2>2, JoinedBits
  <2> QED BY Zenon, <2>1, <2>2, <2>3
<1>3. ASSUME NEW x \in Word
      PROVE  /\ lwl(m, addr + 3, x) \in Word
             /\ \A j \in 0 .. 3, i \in 0 .. ByteBits - 1 :
                  Bit(lwl(m, addr + 3, x), j * ByteBits + i) =
                    IF j >= 3 - e THEN Bit(m[addr + j], i) ELSE Bit(x, j * ByteBits + i)
  <2>1. \A j \in 0 .. 3 : ((addr + 3) \div 4) * 4 + (j - (3 - e)) = addr + j
    <3> DEFINE base == ((addr + 3) \div 4) * 4
    <3>1. addr \in Int /\ base = addr + (3 - e)
      BY <1>1
    <3> HIDE DEF base, e
    <3>2. \A j \in 0 .. 3 : base + (j - (3 - e)) = addr + j
      BY <1>1, <3>1
    <3> QED BY Zenon, <3>2 DEF base
  <2>2. /\ lwl(m, addr + 3, x) \in Word
        /\ \A j \in 0 .. 3, i \in 0 .. ByteBits - 1 :
             Bit(lwl(m, addr + 3, x), j * ByteBits + i) =
               IF j >= 3 - e THEN Bit(m[((addr + 3) \div 4) * 4 + (j - (3 - e))], i)
                             ELSE Bit(x, j * ByteBits + i)
    BY Zenon, <1>1, lwlBits
  <2> HIDE DEF e
  <2> QED BY Zenon, <2>1, <2>2
<1>4. ASSUME NEW x \in Word
      PROVE  /\ lwr(m, addr, x) \in Word
             /\ \A j \in 0 .. 3, i \in 0 .. ByteBits - 1 :
                  Bit(lwr(m, addr, x), j * ByteBits + i) =
                    IF j < 4 - r THEN Bit(m[addr + j], i) ELSE Bit(x, j * ByteBits + i)
  BY Zenon, <1>1, lwrBits
<1>5. \A j \in 0 .. 3 : j >= 3 - e \/ j < 4 - r
  <2> HIDE DEF e, r
  <2> QED BY <1>1
<1>6. lwr(m, addr, lwl(m, addr + 3, rt)) = word
  <2> DEFINE x == lwl(m, addr + 3, rt)
             y == lwr(m, addr, x)
  <2>1. x \in Word
    BY Zenon, <1>3
  <2>2. \A j \in 0 .. 3, i \in 0 .. ByteBits - 1 :
          j >= 3 - e => Bit(x, j * ByteBits + i) = Bit(m[addr + j], i)
    BY Zenon, <1>3
  <2> HIDE DEF x
  <2>3. y \in Word
    BY Zenon, <1>4, <2>1
  <2>4. \A j \in 0 .. 3, i \in 0 .. ByteBits - 1 :
          Bit(y, j * ByteBits + i) = IF j < 4 - r THEN Bit(m[addr + j], i) ELSE Bit(x, j * ByteBits + i)
    BY Zenon, <1>4, <2>1
  <2> HIDE DEF y, word, e, r
  <2>5. \A j \in 0 .. 3, i \in 0 .. ByteBits - 1 : Bit(y, j * ByteBits + i) = Bit(word, j * ByteBits + i)
    <3> SUFFICES ASSUME NEW j \in 0 .. 3, NEW i \in 0 .. ByteBits - 1
                 PROVE  Bit(y, j * ByteBits + i) = Bit(m[addr + j], i)
      BY Zenon, <1>2
    <3>1. CASE j < 4 - r
      BY Zenon, <2>4, <3>1
    <3>2. CASE ~(j < 4 - r)
      BY Zenon, <1>5, <2>2, <2>4, <3>2
    <3> QED BY Zenon, <3>1, <3>2
  <2>6. y = word
    BY Zenon, <1>2, <2>3, <2>5, BytesDetermine
  <2> QED BY Zenon, <2>6 DEF x, y
<1>7. lwl(m, addr + 3, lwr(m, addr, rt)) = word
  <2> DEFINE x == lwr(m, addr, rt)
             y == lwl(m, addr + 3, x)
  <2>1. x \in Word
    BY Zenon, <1>4
  <2>2. \A j \in 0 .. 3, i \in 0 .. ByteBits - 1 :
          j < 4 - r => Bit(x, j * ByteBits + i) = Bit(m[addr + j], i)
    BY Zenon, <1>4
  <2> HIDE DEF x
  <2>3. y \in Word
    BY Zenon, <1>3, <2>1
  <2>4. \A j \in 0 .. 3, i \in 0 .. ByteBits - 1 :
          Bit(y, j * ByteBits + i) = IF j >= 3 - e THEN Bit(m[addr + j], i) ELSE Bit(x, j * ByteBits + i)
    BY Zenon, <1>3, <2>1
  <2> HIDE DEF y, word, e, r
  <2>5. \A j \in 0 .. 3, i \in 0 .. ByteBits - 1 : Bit(y, j * ByteBits + i) = Bit(word, j * ByteBits + i)
    <3> SUFFICES ASSUME NEW j \in 0 .. 3, NEW i \in 0 .. ByteBits - 1
                 PROVE  Bit(y, j * ByteBits + i) = Bit(m[addr + j], i)
      BY Zenon, <1>2
    <3>1. CASE j >= 3 - e
      BY Zenon, <2>4, <3>1
    <3>2. CASE ~(j >= 3 - e)
      BY Zenon, <1>5, <2>2, <2>4, <3>2
    <3> QED BY Zenon, <3>1, <3>2
  <2>6. y = word
    BY Zenon, <1>2, <2>3, <2>5, BytesDetermine
  <2> QED BY Zenon, <2>6 DEF x, y
<1>8. \A x \in DOMAIN m :
        /\ x \in addr .. addr + 3 <=> x \in addr + (3 - e) .. addr + 3 \/ x \in addr .. addr + (3 - r)
        /\ x \in Int
  <2> HIDE DEF e, r
  <2>1. DOMAIN m = 0 .. MemSize - 1
    BY Zenon DEF Mem
  <2>2. MemSize \in Nat
    BY ExecAssumption
  <2> QED BY <1>1, <2>1, <2>2
<1>9. Stored("swr", Stored("swl", m, addr + 3, rt), addr, rt) = all
  <2> DEFINE n == WithBytes(m, addr + (3 - e) .. addr + 3, addr, rt)
  <2>1. Stored("swl", m, addr + 3, rt) = n
    BY Zenon, StoredParts
  <2>2. Stored("swr", n, addr, rt) = WithBytes(n, addr .. addr + (3 - r), addr, rt)
    <3> HIDE DEF n
    <3> QED BY Zenon, StoredParts
  <2> HIDE DEF e, r
  <2>3. WithBytes(n, addr .. addr + (3 - r), addr, rt) = all
    BY Zenon, <1>8 DEF WithBytes
  <2> QED BY Zenon, <2>1, <2>2, <2>3
<1>10. Stored("swl", Stored("swr", m, addr, rt), addr + 3, rt) = all
  <2> DEFINE n == WithBytes(m, addr .. addr + (3 - r), addr, rt)
  <2>1. Stored("swr", m, addr, rt) = n
    BY Zenon, StoredParts
  <2>2. Stored("swl", n, addr + 3, rt) = WithBytes(n, addr + (3 - e) .. addr + 3, addr, rt)
    <3> HIDE DEF n
    <3> QED BY Zenon, StoredParts
  <2> HIDE DEF e, r
  <2>3. WithBytes(n, addr + (3 - e) .. addr + 3, addr, rt) = all
    BY Zenon, <1>8 DEF WithBytes
  <2> QED BY Zenon, <2>1, <2>2, <2>3
<1> QED BY Zenon, <1>6, <1>7, <1>9, <1>10

-----------------------------------------------------------------------------
(* What a handler does, by its kind *)

\* The state a handler works on, its operands and the address it computes.
Begun(c0) == [c0 EXCEPT !.gpr[0] = 0]
RsOf(o, c0) == Begun(c0).gpr[o.rs]
RtOf(o, c0) == Begun(c0).gpr[o.rt]
AddrOf(o, c0) == (RsOf(o, c0) + I_SI(o)) % M

\* InstAssert fails.
Refused(h, o) == \E f \in ZeroFields(h, o) : o[f] # 0

\* The outcomes that leave badvaddr, and the ones that set a register.
Trapped(c0, exc) == Raise(Begun(c0), exc, Begun(c0).badvaddr)
SetRd(h, o, c0) == [Begun(c0) EXCEPT !.gpr[o.rd] = RdValue(h, o, Begun(c0), RsOf(o, c0), RtOf(o, c0))]
SetRt(h, o, c0) == [Begun(c0) EXCEPT !.gpr[o.rt] = RtValue(h, o, RsOf(o, c0), RtOf(o, c0))]

\* The checks of some handlers.
Overflowing(h, o, c0) == Overflows(h, o, RsOf(o, c0), RtOf(o, c0))
Dividing(h, o, c0) == IF h = "divide" THEN DivTraps(S(RsOf(o, c0)), S(RtOf(o, c0))) ELSE RtOf(o, c0) = 0

\* What is left to do once no check has failed.
Acts(h, o, c0) ==
  CASE h \in Loads -> LoadInto(h, Begun(c0), o.rt, AddrOf(o, c0))
    [] h \in Stores -> StoreFrom(h, Begun(c0), o.rt, AddrOf(o, c0))
    [] h \in Products -> Multiplied(h, Begun(c0), RsOf(o, c0), RtOf(o, c0))
    [] h \in {"divide", "divu"} ->
         IF Dividing(h, o, c0) THEN Trapped(c0, "SIGFPE")
         ELSE Divided(h, Begun(c0), RsOf(o, c0), RtOf(o, c0))
    [] h = "mthi" -> [Begun(c0) EXCEPT !.hi = RsOf(o, c0)]
    [] h = "mtlo" -> [Begun(c0) EXCEPT !.lo = RsOf(o, c0)]
    [] h \in ToRd -> SetRd(h, o, c0)
    [] h \in ToRt -> SetRt(h, o, c0)
    [] h = "inv" -> Trapped(c0, "RI")
    [] OTHER -> Begun(c0)

LEMMA ExecuteDef ==
  ASSUME NEW h, NEW o, NEW c0
  PROVE  Execute(h, o, c0) =
           IF Refused(h, o) THEN Trapped(c0, "RI")
           ELSE IF h \in {"add", "sub", "addi"} /\ Overflowing(h, o, c0) THEN Trapped(c0, "Ov")
           ELSE IF h = "ins" /\ o.shamt > o.rd THEN Trapped(c0, "abort")
           ELSE IF h \in Loads \union Stores /\ AddrOf(o, c0) % Align(h) # 0
           THEN Raise(Begun(c0), IF h \in Loads THEN "AdEL" ELSE "AdES", AddrOf(o, c0))
           ELSE Acts(h, o, c0)
BY Zenon DEF Execute, Acts, Refused, Begun, RsOf, RtOf, AddrOf, Trapped, SetRd, SetRt, Overflowing, Dividing

LEMMA ExecuteRd ==
  ASSUME NEW h \in ToRd, NEW o, NEW c0
  PROVE  /\ Refused(h, o) => Execute(h, o, c0) = Trapped(c0, "RI")
         /\ ~Refused(h, o) /\ h \in {"add", "sub"} /\ Overflowing(h, o, c0) =>
              Execute(h, o, c0) = Trapped(c0, "Ov")
         /\ ~Refused(h, o) /\ ~(h \in {"add", "sub"} /\ Overflowing(h, o, c0)) =>
              Execute(h, o, c0) = SetRd(h, o, c0)
<1>1. /\ h \notin Loads /\ h \notin Stores /\ h \notin Products /\ h \notin {"divide", "divu"}
      /\ h # "mthi" /\ h # "mtlo" /\ h \notin ToRt /\ h # "inv"
      /\ h # "ins"
      /\ h \in {"add", "sub"} <=> h \in {"add", "sub", "addi"}
  BY DEF Loads, Stores, Products, ToRd, ToRt
<1>2. Acts(h, o, c0) = SetRd(h, o, c0)
  BY Zenon, <1>1 DEF Acts
<1> QED BY Zenon, <1>1, <1>2, ExecuteDef

LEMMA ExecuteRt ==
  ASSUME NEW h \in ToRt, NEW o, NEW c0
  PROVE  /\ Refused(h, o) => Execute(h, o, c0) = Trapped(c0, "RI")
         /\ ~Refused(h, o) /\ h = "addi" /\ Overflowing(h, o, c0) => Execute(h, o, c0) = Trapped(c0, "Ov")
         /\ ~Refused(h, o) /\ h = "ins" /\ o.shamt > o.rd => Execute(h, o, c0) = Trapped(c0, "abort")
         /\ /\ ~Refused(h, o)
            /\ ~(h = "addi" /\ Overflowing(h, o, c0))
            /\ ~(h = "ins" /\ o.shamt > o.rd)
            => Execute(h, o, c0) = SetRt(h, o, c0)
<1>1. /\ h \notin Loads /\ h \notin Stores /\ h \notin Products /\ h \notin {"divide", "divu"}
      /\ h # "mthi" /\ h # "mtlo" /\ h \notin ToRd /\ h # "inv"
      /\ h = "addi" <=> h \in {"add", "sub", "addi"}
  BY DEF Loads, Stores, Products, ToRd, ToRt
<1>2. Acts(h, o, c0) = SetRt(h, o, c0)
  BY Zenon, <1>1 DEF Acts
<1> QED BY Zenon, <1>1, <1>2, ExecuteDef

LEMMA ExecuteLoad ==
  ASSUME NEW h \in Loads, NEW o, NEW c0
  PROVE  /\ AddrOf(o, c0) % Align(h) # 0 => Execute(h, o, c0) = Raise(Begun(c0), "AdEL", AddrOf(o, c0))
         /\ AddrOf(o, c0) % Align(h) = 0 => Execute(h, o, c0) = LoadInto(h, Begun(c0), o.rt, AddrOf(o, c0))
<1>1. /\ h \notin Stores /\ h \notin Products /\ h \notin {"divide", "divu"} /\ h # "mthi"
      /\ h # "mtlo" /\ h \notin ToRd /\ h \notin ToRt /\ h # "inv"
      /\ ~Refused(h, o)
      /\ h \notin {"add", "sub", "addi"}
      /\ h # "ins"
  BY DEF Loads, Stores, Products, ToRd, ToRt, ZeroFields, Refused
<1>2. Acts(h, o, c0) = LoadInto(h, Begun(c0), o.rt, AddrOf(o, c0))
  BY Zenon, <1>1 DEF Acts
<1> QED BY Zenon, <1>1, <1>2, ExecuteDef

LEMMA ExecuteStore ==
  ASSUME NEW h \in Stores, NEW o, NEW c0
  PROVE  /\ AddrOf(o, c0) % Align(h) # 0 => Execute(h, o, c0) = Raise(Begun(c0), "AdES", AddrOf(o, c0))
         /\ AddrOf(o, c0) % Align(h) = 0 => Execute(h, o, c0) = StoreFrom(h, Begun(c0), o.rt, AddrOf(o, c0))
<1>1. /\ h \notin Loads /\ h \notin Products /\ h \notin {"divide", "divu"} /\ h # "mthi"
      /\ h # "mtlo" /\ h \notin ToRd /\ h \notin ToRt /\ h # "inv"
      /\ ~Refused(h, o)
      /\ h \notin {"add", "sub", "addi"}
      /\ h # "ins"
  BY DEF Loads, Stores, Products, ToRd, ToRt, ZeroFields, Refused
<1>2. Acts(h, o, c0) = StoreFrom(h, Begun(c0), o.rt, AddrOf(o, c0))
  BY Zenon, <1>1 DEF Acts
<1> QED BY Zenon, <1>1, <1>2, ExecuteDef

LEMMA ExecuteProduct ==
  ASSUME NEW h \in Products, NEW o, NEW c0
  PROVE  /\ Refused(h, o) => Execute(h, o, c0) = Trapped(c0, "RI")
         /\ ~Refused(h, o) => Execute(h, o, c0) = Multiplied(h, Begun(c0), RsOf(o, c0), RtOf(o, c0))
<1>1. /\ h \notin Loads /\ h \notin Stores /\ h \notin {"divide", "divu"} /\ h # "mthi"
      /\ h # "mtlo" /\ h \notin ToRd /\ h \notin ToRt /\ h # "inv"
      /\ h \notin {"add", "sub", "addi"}
      /\ h # "ins"
  BY DEF Loads, Stores, Products, ToRd, ToRt
<1>2. Acts(h, o, c0) = Multiplied(h, Begun(c0), RsOf(o, c0), RtOf(o, c0))
  BY Zenon, <1>1 DEF Acts
<1> QED BY Zenon, <1>1, <1>2, ExecuteDef

LEMMA ExecuteDivide ==
  ASSUME NEW h \in {"divide", "divu"}, NEW o, NEW c0
  PROVE  /\ Refused(h, o) => Execute(h, o, c0) = Trapped(c0, "RI")
         /\ ~Refused(h, o) /\ Dividing(h, o, c0) => Execute(h, o, c0) = Trapped(c0, "SIGFPE")
         /\ ~Refused(h, o) /\ ~Dividing(h, o, c0) =>
              Execute(h, o, c0) = Divided(h, Begun(c0), RsOf(o, c0), RtOf(o, c0))
<1>1. /\ h \notin Loads /\ h \notin Stores /\ h \notin Products /\ h # "mthi"
      /\ h # "mtlo" /\ h \notin ToRd /\ h \notin ToRt /\ h # "inv"
      /\ h \notin {"add", "sub", "addi"}
      /\ h # "ins"
  BY DEF Loads, Stores, Products, ToRd, ToRt
<1>2. Acts(h, o, c0) = IF Dividing(h, o, c0) THEN Trapped(c0, "SIGFPE")
                        ELSE Divided(h, Begun(c0), RsOf(o, c0), RtOf(o, c0))
  BY Zenon, <1>1 DEF Acts
<1> QED BY Zenon, <1>1, <1>2, ExecuteDef

LEMMA ExecuteMove ==
  ASSUME NEW h \in {"mthi", "mtlo"}, NEW o, NEW c0
  PROVE  /\ Refused(h, o) => Execute(h, o, c0) = Trapped(c0, "RI")
         /\ ~Refused(h, o) /\ h = "mthi" => Execute(h, o, c0) = [Begun(c0) EXCEPT !.hi = RsOf(o, c0)]
         /\ ~Refused(h, o) /\ h = "mtlo" => Execute(h, o, c0) = [Begun(c0) EXCEPT !.lo = RsOf(o, c0)]
<1>1. /\ h \notin Loads /\ h \notin Stores /\ h \notin Products /\ h \notin {"divide", "divu"}
      /\ h \notin ToRd /\ h \notin ToRt /\ h # "inv"
      /\ h # "mthi" => h = "mtlo"
      /\ h = "mtlo" => h # "mthi"
      /\ h \notin {"add", "sub", "addi"}
      /\ h # "ins"
  BY DEF Loads, Stores, Products, ToRd, ToRt
<1>2. Acts(h, o, c0) = IF h = "mthi" THEN [Begun(c0) EXCEPT !.hi = RsOf(o, c0)]
                      ELSE [Begun(c0) EXCEPT !.lo = RsOf(o, c0)]
  BY Zenon, <1>1 DEF Acts
<1> QED BY Zenon, <1>1, <1>2, ExecuteDef

LEMMA ExecuteOther ==
  ASSUME NEW h \in {"inv", "pref"}, NEW o, NEW c0
  PROVE  /\ h = "inv" => Execute(h, o, c0) = Trapped(c0, "RI")
         /\ h = "pref" => Execute(h, o, c0) = Begun(c0)
<1>1. /\ h \notin Loads /\ h \notin Stores /\ h \notin Products /\ h \notin {"divide", "divu"}
      /\ h # "mthi" /\ h # "mtlo" /\ h \notin ToRd /\ h \notin ToRt
      /\ ~Refused(h, o)
      /\ h \notin {"add", "sub", "addi"}
      /\ h # "ins"
      /\ h = "pref" => h # "inv"
  BY DEF Loads, Stores, Products, ToRd, ToRt, ZeroFields, Refused
<1>2. Acts(h, o, c0) = IF h = "inv" THEN Trapped(c0, "RI") ELSE Begun(c0)
  BY Zenon, <1>1 DEF Acts
<1> QED BY Zenon, <1>1, <1>2, ExecuteDef

-----------------------------------------------------------------------------
(* The fields a handler reads are the fields that are decoded *)

ByRegister == Products \union ToRd \union {"ins", "ext", "divide", "divu", "mthi", "mtlo"}
ByImmediate == Loads \union Stores \union (ToRt \ {"ins", "ext"})
Shuffles == {"wsbh", "seb", "seh"}

\* The integer handlers of each table.
LEMMA Tables ==
  ASSUME NEW f
  PROVE  /\ Entry(special_table, f) \in Integer => Entry(special_table, f) \in ByRegister \union {"inv"}
         /\ Entry(regimm_table, f) \in Integer => Entry(regimm_table, f) = "inv"
         /\ Entry(cop0_table_func, f) \in Integer => Entry(cop0_table_func, f) = "inv"
         /\ Entry(cop0_table_rs, f) \in Integer => Entry(cop0_table_rs, f) = "inv"
         /\ Entry(special2_table, f) \in Integer => Entry(special2_table, f) \in ByRegister \union {"inv"}
         /\ Entry(special3_table, f) \in Integer => Entry(special3_table, f) \in ByRegister \union {"inv"}
         /\ Entry(bshfl_table, f) \in Integer => Entry(bshfl_table, f) \in Shuffles \union {"inv"}
         /\ f \in {2, 3} => Entry(opcode_table, f) \notin Integer
         /\ Entry(opcode_table, f) \in Integer => Entry(opcode_table, f) \in ByImmediate \union {"inv", "pref"}
<1> USE DEF Entry, Integer, ByRegister, ByImmediate, Shuffles, Loads, Stores, Products, ToRd, ToRt
<1>1. Entry(special_table, f) \in Integer => Entry(special_table, f) \in ByRegister \union {"inv"}
  BY DEF special_table
<1>2. Entry(regimm_table, f) \in Integer => Entry(regimm_table, f) = "inv"
  BY DEF regimm_table
<1>3. Entry(cop0_table_func, f) \in Integer => Entry(cop0_table_func, f) = "inv"
  BY DEF cop0_table_func
<1>4. Entry(cop0_table_rs, f) \in Integer => Entry(cop0_table_rs, f) = "inv"
  BY DEF cop0_table_rs
<1>5. Entry(special2_table, f) \in Integer => Entry(special2_table, f) \in ByRegister \union {"inv"}
  BY DEF special2_table
<1>6. Entry(special3_table, f) \in Integer => Entry(special3_table, f) \in ByRegister \union {"inv"}
  BY DEF special3_table
<1>7. Entry(bshfl_table, f) \in Integer => Entry(bshfl_table, f) \in Shuffles \union {"inv"}
  BY DEF bshfl_table
<1>8. f \in {2, 3} => Entry(opcode_table, f) \notin Integer
  BY DEF opcode_table
<1>9. Entry(opcode_table, f) \in Integer => Entry(opcode_table, f) \in ByImmediate \union {"inv", "pref"}
  BY DEF opcode_table
<1> QED BY Zenon, <1>1, <1>2, <1>3, <1>4, <1>5, <1>6, <1>7, <1>8, <1>9

LEMMA Decoded ==
  ASSUME NEW i, decoder_get_handler(i) \in Integer
  PROVE  LET h == decoder_get_handler(i)
         IN  \/ h \in {"inv", "pref"}
             \/ h \in ByRegister /\ {"rs", "rt", "rd", "shamt"} \subseteq DecodedFields(i)
             \/ h \in Shuffles /\ {"rt", "rd"} \subseteq DecodedFields(i)
             \/ h \in ByImmediate /\ {"rs", "rt", "imm"} \subseteq DecodedFields(i)
<1> DEFINE h == decoder_get_handler(i)
<1>0. "fpu" \notin Integer
  BY DEF Integer, Loads, Stores, Products, ToRd, ToRt
<1>1. CASE i.op = 0
  <2>1. h = Entry(special_table, i.func) /\ DecodedFields(i) = {"rs", "rt", "rd", "shamt", "func"}
    BY <1>1 DEF decoder_get_handler, DecodedFields
  <2> QED BY <2>1, Tables
<1>2. CASE i.op = 1
  <2>1. h = Entry(regimm_table, i.rt)
    BY <1>2 DEF decoder_get_handler
  <2> QED BY <2>1, Tables
<1>3. CASE i.op = 16
  <2>1. h = Entry(cop0_table_func, i.func) \/ h = Entry(cop0_table_rs, i.rs)
    BY <1>3 DEF decoder_get_handler
  <2> QED BY <2>1, Tables
<1>4. CASE i.op = 17
  BY <1>0, <1>4 DEF decoder_get_handler
<1>5. CASE i.op = 28
  <2>1. h = Entry(special2_table, i.func) /\ DecodedFields(i) = {"rs", "rt", "rd", "shamt"}
    BY <1>5 DEF decoder_get_handler, DecodedFields
  <2> QED BY <2>1, Tables
<1>6. CASE i.op = 31 /\ i.func = 32
  <2>1. h = Entry(bshfl_table, i.shamt) /\ DecodedFields(i) = {"rt", "rd"}
    BY <1>6 DEF decoder_get_handler, DecodedFields
  <2> QED BY <2>1, Tables
<1>7. CASE i.op = 31 /\ i.func # 32
  <2>1. h = Entry(special3_table, i.func) /\ DecodedFields(i) = {"rs", "rt", "rd", "shamt"}
    BY <1>7 DEF decoder_get_handler, DecodedFields
  <2> QED BY <2>1, Tables
<1>8. CASE i.op \notin {0, 1, 16, 17, 28, 31}
  <2>1. h = Entry(opcode_table, i.op)
    BY <1>8 DEF decoder_get_handler
  <2>2. i.op \notin {2, 3}
    BY <2>1, Tables
  <2>3. DecodedFields(i) = {"rs", "rt", "imm"}
    BY <1>8, <2>2 DEF DecodedFields
  <2> QED BY <2>1, <2>3, Tables
<1> QED BY Zenon, <1>1, <1>2, <1>3, <1>4, <1>5, <1>6, <1>7, <1>8

LEMMA SameByRegister ==
  ASSUME NEW h \in ByRegister, NEW o, NEW p, NEW c0,
         o.rs = p.rs, o.rt = p.rt, o.rd = p.rd, o.shamt = p.shamt
  PROVE  Execute(h, o, c0) = Execute(h, p, c0)
<1>1. RsOf(o, c0) = RsOf(p, c0) /\ RtOf(o, c0) = RtOf(p, c0)
  BY Zenon DEF RsOf, RtOf
<1>2. ZeroFields(h, o) = ZeroFields(h, p) /\ ZeroFields(h, p) \subseteq {"rs", "rt", "rd", "shamt"}
  <2>1. ZeroFields(h, o) = ZeroFields(h, p)
    BY Zenon DEF ZeroFields
  <2>2. ZeroFields(h, p) \subseteq {"rs", "rt", "rd", "shamt"}
    BY DEF ZeroFields
  <2> QED BY Zenon, <2>1, <2>2
<1>3. Refused(h, o) <=> Refused(h, p)
  BY <1>2 DEF Refused
<1>4. CASE h \in ToRd
  <2>1. h \in {"add", "sub"} => Overflowing(h, o, c0) = Overflowing(h, p, c0)
    BY <1>1 DEF Overflows, Overflowing
  <2>2. RdValue(h, o, Begun(c0), RsOf(o, c0), RtOf(o, c0)) = RdValue(h, p, Begun(c0), RsOf(p, c0), RtOf(p, c0))
    BY Zenon, <1>1 DEF RdValue
  <2>3. SetRd(h, o, c0) = SetRd(h, p, c0)
    BY Zenon, <2>2 DEF SetRd
  <2> QED BY <1>3, <1>4, <2>1, <2>3, ExecuteRd
<1>5. CASE h \in {"ins", "ext"}
  <2>1. h \in ToRt /\ h # "addi"
    BY <1>5 DEF ToRt
  <2>2. RtValue(h, o, RsOf(o, c0), RtOf(o, c0)) = RtValue(h, p, RsOf(p, c0), RtOf(p, c0))
    BY <1>1, <1>5 DEF RtValue
  <2>3. SetRt(h, o, c0) = SetRt(h, p, c0)
    BY Zenon, <2>2 DEF SetRt
  <2> QED BY <1>3, <2>1, <2>3, ExecuteRt
<1>6. CASE h \in Products
  BY <1>1, <1>3, <1>6, ExecuteProduct
<1>7. CASE h \in {"divide", "divu"}
  <2>1. Dividing(h, o, c0) = Dividing(h, p, c0)
    BY Zenon, <1>1 DEF Dividing
  <2> QED BY <1>1, <1>3, <1>7, <2>1, ExecuteDivide
<1>8. CASE h \in {"mthi", "mtlo"}
  BY <1>1, <1>3, <1>8, ExecuteMove
<1> QED BY <1>4, <1>5, <1>6, <1>7, <1>8 DEF ByRegister

LEMMA SameByImmediate ==
  ASSUME NEW h \in ByImmediate, NEW o, NEW p, NEW c0,
         o.rs = p.rs, o.rt = p.rt, o.imm = p.imm
  PROVE  Execute(h, o, c0) = Execute(h, p, c0)
<1>1. RsOf(o, c0) = RsOf(p, c0) /\ RtOf(o, c0) = RtOf(p, c0)
  BY Zenon DEF RsOf, RtOf
<1>2. I_SI(o) = I_SI(p) /\ I_UI(o) = I_UI(p) /\ AddrOf(o, c0) = AddrOf(p, c0)
  BY Zenon, <1>1 DEF I_SI, I_UI, AddrOf
<1>3. CASE h \in Loads
  BY <1>2, <1>3, ExecuteLoad
<1>4. CASE h \in Stores
  BY <1>2, <1>4, ExecuteStore
<1>5. CASE h \in ToRt /\ h # "ins" /\ h # "ext"
  <2>1. ZeroFields(h, o) = ZeroFields(h, p) /\ ZeroFields(h, p) \subseteq {"rs"}
    BY <1>5 DEF ZeroFields, ToRt
  <2>2. Refused(h, o) <=> Refused(h, p)
    BY <2>1 DEF Refused
  <2>3. h = "addi" => Overflowing(h, o, c0) = Overflowing(h, p, c0)
    BY Zenon, <1>1, <1>2 DEF Overflows, Overflowing
  <2>4. RtValue(h, o, RsOf(o, c0), RtOf(o, c0)) = RtValue(h, p, RsOf(p, c0), RtOf(p, c0))
    BY <1>1, <1>2, <1>5 DEF RtValue, ToRt
  <2>5. SetRt(h, o, c0) = SetRt(h, p, c0)
    BY Zenon, <2>4 DEF SetRt
  <2> QED BY <1>5, <2>2, <2>3, <2>5, ExecuteRt
<1> QED BY Zenon, <1>3, <1>4, <1>5 DEF ByImmediate

LEMMA SameShuffle ==
  ASSUME NEW h \in Shuffles, NEW o, NEW p, NEW c0, o.rt = p.rt, o.rd = p.rd
  PROVE  Execute(h, o, c0) = Execute(h, p, c0)
<1>1. RtOf(o, c0) = RtOf(p, c0)
  BY Zenon DEF RtOf
<1>2. h \in ToRd /\ h \notin {"add", "sub"}
  BY DEF ToRd, Shuffles
<1>3. ~Refused(h, o) /\ ~Refused(h, p)
  BY DEF Refused, ZeroFields, Shuffles
<1>4. RdValue(h, o, Begun(c0), RsOf(o, c0), RtOf(o, c0)) = RdValue(h, p, Begun(c0), RsOf(p, c0), RtOf(p, c0))
  BY <1>1 DEF RdValue, Shuffles
<1>5. SetRd(h, o, c0) = SetRd(h, p, c0)
  BY Zenon, <1>4 DEF SetRd
<1> QED BY <1>2, <1>3, <1>5, ExecuteRd

\* Executing from the fields that were set is executing from the instruction.
LEMMA SameExecute ==
  ASSUME NEW i, NEW ds, NEW c0, decoder_get_handler(i) \in Integer
  PROVE  LET h == decoder_get_handler(i)
         IN  Execute(h, decoder_set_state(ds, i), c0) = Execute(h, i, c0)
<1> DEFINE h == decoder_get_handler(i)
           o == decoder_set_state(ds, i)
<1>1. \A f \in {"rs", "rt", "rd", "shamt", "imm"} : f \in DecodedFields(i) => o[f] = i[f]
  BY Zenon DEF decoder_set_state, Fields
<1>2. /\ "rs" \in DecodedFields(i) => o.rs = i.rs
      /\ "rt" \in DecodedFields(i) => o.rt = i.rt
      /\ "rd" \in DecodedFields(i) => o.rd = i.rd
      /\ "shamt" \in DecodedFields(i) => o.shamt = i.shamt
      /\ "imm" \in DecodedFields(i) => o.imm = i.imm
  BY Zenon, <1>1
<1> HIDE DEF o
<1>3. CASE h \in {"inv", "pref"}
  BY Zenon, <1>3, ExecuteOther DEF o
<1>4. CASE h \in ByRegister /\ {"rs", "rt", "rd", "shamt"} \subseteq DecodedFields(i)
  <2>1. o.rs = i.rs /\ o.rt = i.rt /\ o.rd = i.rd /\ o.shamt = i.shamt
    BY Zenon, <1>2, <1>4
  <2> QED BY Zenon, <1>4, <2>1, SameByRegister DEF o
<1>5. CASE h \in Shuffles /\ {"rt", "rd"} \subseteq DecodedFields(i)
  <2>1. o.rt = i.rt /\ o.rd = i.rd
    BY Zenon, <1>2, <1>5
  <2> QED BY Zenon, <1>5, <2>1, SameShuffle DEF o
<1>6. CASE h \in ByImmediate /\ {"rs", "rt", "imm"} \subseteq DecodedFields(i)
  <2>1. o.rs = i.rs /\ o.rt = i.rt /\ o.imm = i.imm
    BY Zenon, <1>2, <1>6
  <2> QED BY Zenon, <1>6, <2>1, SameByImmediate DEF o
<1> QED BY Zenon, <1>3, <1>4, <1>5, <1>6, Decoded

-----------------------------------------------------------------------------
(* One instruction *)

CpuType == [gpr : [Reg -> Word], hi : Word, lo : Word, mem : Mem, exc : {"none"}, badvaddr : Word]

LEMMA CpuTyped ==
  ASSUME NEW c \in Cpus
  PROVE  c \in CpuType
BY Zenon, ExecAssumption DEF CpuType

\* Register zero is cleared first, and nothing else.
LEMMA BegunFields ==
  ASSUME NEW c \in CpuType
  PROVE  /\ Begun(c) \in CpuType
         /\ Begun(c).gpr = [c.gpr EXCEPT ![0] = 0]
         /\ Begun(c).hi = c.hi /\ Begun(c).lo = c.lo /\ Begun(c).mem = c.mem
         /\ Begun(c).exc = "none" /\ Begun(c).badvaddr = c.badvaddr
<1>1. 0 \in Word
  BY Sizes DEF Word
<1>2. [c.gpr EXCEPT ![0] = 0] \in [Reg -> Word]
  BY Zenon, <1>1 DEF CpuType
<1>3. Begun(c) = [c EXCEPT !.gpr = [c.gpr EXCEPT ![0] = 0]]
  BY Zenon DEF Begun
<1> DEFINE g == [c.gpr EXCEPT ![0] = 0]
<1> HIDE DEF g
<1>4. [c EXCEPT !.gpr = g].gpr = g
  BY DEF CpuType
<1> QED BY <1>2, <1>3, <1>4 DEF CpuType, g

LEMMA RaiseFields ==
  ASSUME NEW c \in CpuType, NEW e, NEW a
  PROVE  /\ Raise(c, e, a).gpr = c.gpr /\ Raise(c, e, a).hi = c.hi /\ Raise(c, e, a).lo = c.lo
         /\ Raise(c, e, a).mem = c.mem /\ Raise(c, e, a).exc = e /\ Raise(c, e, a).badvaddr = a
BY DEF Raise, CpuType

\* What runs to the end raises nothing.
LEMMA GprCompletes ==
  ASSUME NEW c \in CpuType, NEW x, NEW y
  PROVE  [c EXCEPT !.gpr[x] = y].exc = "none"
BY DEF CpuType

LEMMA HiLoCompletes ==
  ASSUME NEW c \in CpuType, NEW x, NEW y
  PROVE  /\ [c EXCEPT !.hi = x].exc = "none"
         /\ [c EXCEPT !.lo = x].exc = "none"
         /\ [c EXCEPT !.hi = x, !.lo = y].exc = "none"
         /\ [c EXCEPT !.lo = x, !.hi = y].exc = "none"
BY DEF CpuType

\* The registers a handler of an instruction reads and writes, as numbers.
LEMMA Operands ==
  ASSUME NEW c \in CpuType, NEW o
  PROVE  /\ o.rs \in Reg => RsOf(o, c) = (IF o.rs = 0 THEN 0 ELSE c.gpr[o.rs]) /\ RsOf(o, c) \in Word
         /\ o.rt \in Reg => RtOf(o, c) = (IF o.rt = 0 THEN 0 ELSE c.gpr[o.rt]) /\ RtOf(o, c) \in Word
<1>1. Begun(c).gpr = [c.gpr EXCEPT ![0] = 0] /\ c.gpr \in [Reg -> Word]
  BY BegunFields DEF CpuType
<1>2. 0 \in Word
  BY Sizes DEF Word
<1>3. ASSUME NEW r \in Reg
      PROVE  Begun(c).gpr[r] = (IF r = 0 THEN 0 ELSE c.gpr[r]) /\ Begun(c).gpr[r] \in Word
  BY <1>1, <1>2
<1> QED BY Zenon, <1>3 DEF RsOf, RtOf

LEMMA RegisterFields ==
  ASSUME NEW i \in Insts, decoder_get_handler(i) \in Integer
  PROVE  LET h == decoder_get_handler(i)
         IN  /\ h \in ByRegister \ Shuffles => i.rs \in Reg /\ i.rt \in Reg /\ i.rd \in Reg /\ i.shamt \in Reg
             /\ h \in Shuffles => i.rt \in Reg /\ i.rd \in Reg
             /\ h \in ByImmediate => i.rs \in Reg /\ i.rt \in Reg
<1> DEFINE h == decoder_get_handler(i)
<1>1. h # "inv" => \A f \in DecodedFields(i) \intersect {"rs", "rt", "rd", "shamt"} : i[f] \in Reg
  BY Zenon, InstAssumption
<1>2. /\ h \in ByRegister => h \notin ByImmediate /\ h \notin {"inv", "pref"}
      /\ h \in ByImmediate => h \notin ByRegister /\ h \notin {"inv", "pref"}
      /\ h \in Shuffles => h \in ByRegister
  BY DEF ByRegister, ByImmediate, Shuffles, Loads, Stores, Products, ToRd, ToRt
<1>3. \/ h \in {"inv", "pref"}
      \/ h \in ByRegister /\ {"rs", "rt", "rd", "shamt"} \subseteq DecodedFields(i)
      \/ h \in Shuffles /\ {"rt", "rd"} \subseteq DecodedFields(i)
      \/ h \in ByImmediate /\ {"rs", "rt", "imm"} \subseteq DecodedFields(i)
  BY Zenon, Decoded
<1> HIDE DEF h
<1>4. h \in ByRegister \ Shuffles => {"rs", "rt", "rd", "shamt"} \subseteq DecodedFields(i) /\ h # "inv"
  BY Zenon, <1>2, <1>3
<1>5. h \in Shuffles => {"rt", "rd"} \subseteq DecodedFields(i) /\ h # "inv"
  BY Zenon, <1>2, <1>3
<1>6. h \in ByImmediate => {"rs", "rt"} \subseteq DecodedFields(i) /\ h # "inv"
  BY Zenon, <1>2, <1>3
<1>7. h \in ByRegister \ Shuffles => i.rs \in Reg /\ i.rt \in Reg /\ i.rd \in Reg /\ i.shamt \in Reg
  BY Zenon, <1>1, <1>4
<1>8. h \in Shuffles => i.rt \in Reg /\ i.rd \in Reg
  BY Zenon, <1>1, <1>5
<1>9. h \in ByImmediate => i.rs \in Reg /\ i.rt \in Reg
  BY Zenon, <1>1, <1>6
<1> QED BY Zenon, <1>7, <1>8, <1>9 DEF h

LEMMA ModAdd ==
  ASSUME NEW a \in Int, NEW b \in Int, NEW m \in Nat, m >= 1
  PROVE  (a + (b % m)) % m = (a + b) % m
<1> DEFINE q == b \div m
           r == b % m
           x == a + r
<1>1. q \in Int /\ r \in 0 .. m - 1 /\ b = m * q + r
  BY DivMod
<1>2. x \in Int
  BY <1>1
<1> HIDE DEF q, r
<1>3. x \div m \in Int /\ x % m \in 0 .. m - 1 /\ x = m * (x \div m) + (x % m)
  BY Zenon, <1>2, DivMod
<1> DEFINE p == x \div m
           s == x % m
<1> HIDE DEF p, s
<1>4. p \in Int /\ s \in 0 .. m - 1 /\ a + r = m * p + s
  BY <1>3 DEF p, s, x
<1>5. a + b = m * (p + q) + s /\ a + b \in Int /\ p + q \in Int
  BY <1>1, <1>4
<1>6. (a + b) % m = s
  BY <1>4, <1>5, DivUnique
<1> QED BY Zenon, <1>6 DEF s, x, r

LEMMA Address ==
  ASSUME NEW i \in Insts, NEW c \in CpuType, i.rs \in Reg
  PROVE  AddrOf(i, c) = ((IF i.rs = 0 THEN 0 ELSE c.gpr[i.rs]) + i.imm) % M
<1>1. RsOf(i, c) = (IF i.rs = 0 THEN 0 ELSE c.gpr[i.rs]) /\ RsOf(i, c) \in Word
  BY Zenon, Operands
<1>2. RsOf(i, c) \in Int
  BY <1>1 DEF Word
<1>3. M \in Nat /\ M >= 1
  BY Zenon, Sizes
<1>4. i.imm \in Int
  <2>1. i.imm \in -(M \div 2) .. (M \div 2) - 1
    BY Zenon, InstAssumption
  <2> QED BY <1>3, <2>1
<1>5. (RsOf(i, c) + (i.imm % M)) % M = (RsOf(i, c) + i.imm) % M
  BY Zenon, <1>2, <1>3, <1>4, ModAdd
<1> QED BY Zenon, <1>1, <1>5 DEF AddrOf, I_SI

\* What an exception leaves as it was.
Kept(c, d) ==
  d.gpr = [c.gpr EXCEPT ![0] = 0] /\ d.hi = c.hi /\ d.lo = c.lo /\ d.mem = c.mem

Addressed == {"TLBL", "TLBS", "AdEL", "AdES"}

LEMMA TrappedKeeps ==
  ASSUME NEW c \in CpuType, NEW e, e \notin Addressed, e # "none"
  PROVE  Kept(c, Trapped(c, e)) /\ Trapped(c, e).exc = e
BY BegunFields, RaiseFields DEF Trapped, Kept

LEMMA RaiseKeeps ==
  ASSUME NEW c \in CpuType, NEW e, NEW a
  PROVE  /\ Kept(c, Raise(Begun(c), e, a))
         /\ Raise(Begun(c), e, a).exc = e /\ Raise(Begun(c), e, a).badvaddr = a
BY BegunFields, RaiseFields DEF Kept

LEMMA SetCompletes ==
  ASSUME NEW h, NEW o, NEW c \in CpuType
  PROVE  SetRd(h, o, c).exc = "none" /\ SetRt(h, o, c).exc = "none"
<1>1. Begun(c) \in CpuType
  BY Zenon, BegunFields
<1>2. SetRd(h, o, c).exc = "none"
  BY Zenon, <1>1, GprCompletes DEF SetRd
<1>3. SetRt(h, o, c).exc = "none"
  BY Zenon, <1>1, GprCompletes DEF SetRt
<1> QED BY Zenon, <1>2, <1>3

\* A load, at the address a.
LEMMA LoadOutcome ==
  ASSUME NEW h \in Loads, NEW r, NEW c \in CpuType, NEW a
  PROVE  LET d == LoadInto(h, Begun(c), r, a)
         IN  /\ d.exc # "none" /\ h # "ll" => Kept(c, d)
             /\ d.exc \in Addressed => d.badvaddr = a
             /\ d.exc = "none" \/ d.exc = "TLBL"
<1> DEFINE b == Begun(c)
           d == LoadInto(h, b, r, a)
<1>1. b \in CpuType
  BY Zenon, BegunFields
<1>2. CASE Mapped(a)
  <2>1. d = [b EXCEPT !.gpr[r] = LoadValue(h, b.mem, a, b.gpr[r])]
    BY Zenon, <1>2 DEF LoadInto
  <2>2. d.exc = "none"
    <3> HIDE DEF b, d
    <3> QED BY Zenon, <1>1, <2>1, GprCompletes
  <2>3. "none" \notin Addressed
    BY DEF Addressed
  <2> HIDE DEF b, d
  <2> QED BY Zenon, <2>2, <2>3 DEF b, d
<1>3. CASE ~Mapped(a) /\ h # "ll"
  <2>1. d = Raise(b, "TLBL", a)
    BY Zenon, <1>3 DEF LoadInto
  <2> HIDE DEF b, d
  <2> QED BY <2>1, RaiseKeeps DEF b, d
<1>4. CASE ~Mapped(a) /\ h = "ll"
  <2> DEFINE z == [b EXCEPT !.gpr[r] = 0]
  <2>1. d = Raise(z, "TLBL", a)
    BY Zenon, <1>4 DEF LoadInto
  <2>2. Raise(z, "TLBL", a).exc = "TLBL" /\ Raise(z, "TLBL", a).badvaddr = a
    <3> HIDE DEF b
    <3>1. DOMAIN z = {"gpr", "hi", "lo", "mem", "exc", "badvaddr"}
      BY <1>1 DEF CpuType
    <3> HIDE DEF z
    <3> QED BY <3>1 DEF Raise
  <2> QED BY Zenon, <1>4, <2>1, <2>2
<1> QED BY Zenon, <1>2, <1>3, <1>4

LEMMA StoreOutcome ==
  ASSUME NEW h \in Stores, NEW r, NEW c \in CpuType, NEW a
  PROVE  LET d == StoreFrom(h, Begun(c), r, a)
         IN  /\ d.exc # "none" => Kept(c, d)
             /\ d.exc \in Addressed => d.badvaddr = a
             /\ d.exc = "none" \/ d.exc = "TLBS"
<1> DEFINE b == Begun(c)
           d == StoreFrom(h, b, r, a)
<1>1. b \in CpuType
  BY Zenon, BegunFields
<1>2. CASE Mapped(a)
  <2>1. d = [b EXCEPT !.mem = Stored(h, @, a, b.gpr[r]), !.gpr[r] = IF h = "sc" THEN 1 ELSE @]
    BY Zenon, <1>2 DEF StoreFrom
  <2>2. d.exc = "none"
    <3> HIDE DEF b, d
    <3>1. b.exc = "none" /\ "exc" \in DOMAIN b
      BY <1>1 DEF CpuType
    <3> QED BY <2>1, <3>1
  <2>3. "none" \notin Addressed
    BY DEF Addressed
  <2> HIDE DEF b, d
  <2> QED BY Zenon, <2>2, <2>3 DEF b, d
<1>3. CASE ~Mapped(a)
  <2>1. d = Raise(b, "TLBS", a)
    BY Zenon, <1>3 DEF StoreFrom
  <2> HIDE DEF b, d
  <2> QED BY <2>1, RaiseKeeps DEF b, d
<1> QED BY Zenon, <1>2, <1>3

LEMMA ArithmeticOutcome ==
  ASSUME NEW h, NEW c \in CpuType, NEW a, NEW b
  PROVE  /\ h \in Products => Multiplied(h, c, a, b).exc = "none"
         /\ Divided(h, c, a, b).exc = "none"
<1>1. Multiplied(h, c, a, b).exc = "none"
  BY HiLoCompletes DEF Multiplied, WithHiLo
<1>2. Divided(h, c, a, b).exc = "none"
  BY HiLoCompletes DEF Divided
<1> QED BY Zenon, <1>1, <1>2

LEMMA Faults ==
  ASSUME NEW i \in Insts, NEW c \in Cpus, decoder_get_handler(i) \in Integer
  PROVE  LET h == decoder_get_handler(i)
             d == Execute(h, i, c)
         IN  /\ d.exc # "none" /\ h # "ll" => Kept(c, d)
             /\ d.exc \in Addressed =>
                  d.badvaddr = ((IF i.rs = 0 THEN 0 ELSE c.gpr[i.rs]) + i.imm) % M
<1> DEFINE h == decoder_get_handler(i)
           d == Execute(h, i, c)
           Good == /\ d.exc # "none" /\ h # "ll" => Kept(c, d)
                   /\ d.exc \in Addressed =>
                        d.badvaddr = ((IF i.rs = 0 THEN 0 ELSE c.gpr[i.rs]) + i.imm) % M
<1> SUFFICES Good
  BY Zenon
<1>0. c \in CpuType /\ Begun(c) \in CpuType
  BY Zenon, CpuTyped, BegunFields
<1>1. ASSUME NEW e \in {"RI", "Ov", "abort", "SIGFPE"}, d = Trapped(c, e)
      PROVE  Good
  <2>1. e \notin Addressed /\ e # "none"
    BY DEF Addressed
  <2> HIDE DEF d
  <2> QED BY Zenon, <1>0, <1>1, <2>1, TrappedKeeps
<1>2. ASSUME d.exc = "none"
      PROVE  Good
  <2>1. "none" \notin Addressed
    BY DEF Addressed
  <2> HIDE DEF d
  <2> QED BY Zenon, <1>2, <2>1
<1>3. CASE h \in ToRd
  <2>1. d = Trapped(c, "RI") \/ d = Trapped(c, "Ov") \/ d = SetRd(h, i, c)
    BY Zenon, <1>3, ExecuteRd
  <2> HIDE DEF d, h, Good
  <2> QED BY Zenon, <1>0, <1>1, <1>2, <2>1, SetCompletes
<1>4. CASE h \in ToRt
  <2>1. d = Trapped(c, "RI") \/ d = Trapped(c, "Ov") \/ d = Trapped(c, "abort") \/ d = SetRt(h, i, c)
    BY Zenon, <1>4, ExecuteRt
  <2> HIDE DEF d, h, Good
  <2> QED BY Zenon, <1>0, <1>1, <1>2, <2>1, SetCompletes
<1>5. CASE h \in Products
  <2>1. d = Trapped(c, "RI") \/ d = Multiplied(h, Begun(c), RsOf(i, c), RtOf(i, c))
    BY Zenon, <1>5, ExecuteProduct
  <2> HIDE DEF d, h, Good
  <2> QED BY Zenon, <1>0, <1>1, <1>2, <1>5, <2>1, ArithmeticOutcome
<1>6. CASE h \in {"divide", "divu"}
  <2>1. d = Trapped(c, "RI") \/ d = Trapped(c, "SIGFPE") \/ d = Divided(h, Begun(c), RsOf(i, c), RtOf(i, c))
    BY <1>6, ExecuteDivide
  <2> HIDE DEF d, h, Good
  <2> QED BY Zenon, <1>0, <1>1, <1>2, <2>1, ArithmeticOutcome
<1>7. CASE h \in {"mthi", "mtlo"}
  <2>1. \/ d = Trapped(c, "RI")
        \/ d = [Begun(c) EXCEPT !.hi = RsOf(i, c)]
        \/ d = [Begun(c) EXCEPT !.lo = RsOf(i, c)]
    BY <1>7, ExecuteMove
  <2> HIDE DEF d, h, Good
  <2>2. d = Trapped(c, "RI") \/ d.exc = "none"
    <3> DEFINE b == Begun(c)
               x == RsOf(i, c)
    <3>1. [b EXCEPT !.hi = x].exc = "none" /\ [b EXCEPT !.lo = x].exc = "none"
      <4> HIDE DEF b, x
      <4>1. b \in CpuType
        BY Zenon, <1>0 DEF b
      <4> QED BY <4>1, HiLoCompletes
    <3> QED BY Zenon, <2>1, <3>1
  <2> QED BY Zenon, <1>1, <1>2, <2>2
<1>8. CASE h \in {"inv", "pref"}
  <2>1. d = Trapped(c, "RI") \/ d = Begun(c)
    BY Zenon, <1>8, ExecuteOther
  <2> HIDE DEF d, h, Good
  <2> QED BY Zenon, <1>0, <1>1, <1>2, <2>1, BegunFields
<1>9. CASE h \in Loads \union Stores
  <2>1. h \in ByImmediate
    BY Zenon, <1>9 DEF ByImmediate
  <2>2. i.rs \in Reg
    BY Zenon, <2>1, RegisterFields
  <2>3. AddrOf(i, c) = ((IF i.rs = 0 THEN 0 ELSE c.gpr[i.rs]) + i.imm) % M
    BY Zenon, <1>0, <2>2, Address
  <2> DEFINE a == AddrOf(i, c)
  <2>4. \/ \E e \in {"AdEL", "AdES"} : d = Raise(Begun(c), e, a)
        \/ h \in Loads /\ d = LoadInto(h, Begun(c), i.rt, a)
        \/ h \in Stores /\ d = StoreFrom(h, Begun(c), i.rt, a)
    BY <1>9, ExecuteLoad, ExecuteStore
  <2> HIDE DEF a, d, h
  <2>5. (d.exc # "none" /\ h # "ll" => Kept(c, d)) /\ (d.exc \in Addressed => d.badvaddr = a)
    <3>1. ASSUME NEW e, d = Raise(Begun(c), e, a)
          PROVE  (d.exc # "none" /\ h # "ll" => Kept(c, d)) /\ (d.exc \in Addressed => d.badvaddr = a)
      BY <1>0, <3>1, RaiseKeeps
    <3>2. ASSUME h \in Loads, d = LoadInto(h, Begun(c), i.rt, a)
          PROVE  (d.exc # "none" /\ h # "ll" => Kept(c, d)) /\ (d.exc \in Addressed => d.badvaddr = a)
      BY Zenon, <1>0, <3>2, LoadOutcome
    <3>3. ASSUME h \in Stores, d = StoreFrom(h, Begun(c), i.rt, a)
          PROVE  (d.exc # "none" /\ h # "ll" => Kept(c, d)) /\ (d.exc \in Addressed => d.badvaddr = a)
      BY Zenon, <1>0, <3>3, StoreOutcome
    <3> QED BY Zenon, <2>4, <3>1, <3>2, <3>3
  <2> QED BY Zenon, <2>3, <2>5 DEF a
<1>10. h \in Integer
  OBVIOUS
<1> HIDE DEF h, d, Good
<1> QED BY Zenon, <1>3, <1>4, <1>5, <1>6, <1>7, <1>8, <1>9, <1>10 DEF Integer

-----------------------------------------------------------------------------
(* Signed arithmetic *)

\* The bit above the sign and the sign of a sum of two signed numbers.
LEMMA CarrySign ==
  ASSUME NEW H \in Nat, H >= 1, NEW M2 \in Nat, M2 = 2 * H, NEW v \in Int, -M2 <= v, v < M2
  PROVE  (v \div M2) % 2 # (v \div H) % 2 <=> ~(v \in -H .. H - 1)
<1>1. CASE v < -H
  <2>1. v + M2 \in 0 .. M2 - 1 /\ v = M2 * (-1) + (v + M2) /\ -1 \in Int /\ M2 >= 1
    BY <1>1
  <2>2. v + M2 \in 0 .. H - 1 /\ v = H * (-2) + (v + M2) /\ -2 \in Int
    BY <1>1
  <2>3. v \div M2 = -1
    BY <2>1, DivUnique
  <2>4. v \div H = -2
    BY <2>2, DivUnique
  <2> QED BY <1>1, <2>3, <2>4
<1>2. CASE -H <= v /\ v < 0
  <2>1. v + M2 \in 0 .. M2 - 1 /\ v = M2 * (-1) + (v + M2) /\ -1 \in Int /\ M2 >= 1
    BY <1>2
  <2>2. v + H \in 0 .. H - 1 /\ v = H * (-1) + (v + H)
    BY <1>2
  <2>3. v \div M2 = -1
    BY <2>1, DivUnique
  <2>4. v \div H = -1
    BY <2>1, <2>2, DivUnique
  <2> QED BY <1>2, <2>3, <2>4
<1>3. CASE 0 <= v /\ v < H
  <2>1. v \in 0 .. M2 - 1 /\ v = M2 * 0 + v /\ 0 \in Int /\ M2 >= 1 /\ v \in 0 .. H - 1 /\ v = H * 0 + v
    BY <1>3
  <2>2. v \div M2 = 0
    BY <2>1, DivUnique
  <2>3. v \div H = 0
    BY <2>1, DivUnique
  <2> QED BY <1>3, <2>2, <2>3
<1>4. CASE H <= v
  <2>1. v \in 0 .. M2 - 1 /\ v = M2 * 0 + v /\ 0 \in Int /\ M2 >= 1
    BY <1>4
  <2>2. v - H \in 0 .. H - 1 /\ v = H * 1 + (v - H) /\ 1 \in Int
    BY <1>4
  <2>3. v \div M2 = 0
    BY <2>1, DivUnique
  <2>4. v \div H = 1
    BY <2>2, DivUnique
  <2> QED BY <1>4, <2>3, <2>4
<1> QED BY <1>1, <1>2, <1>3, <1>4

LEMMA OverflowExact ==
  ASSUME NEW v \in Int, -M <= v, v < M
  PROVE  OverflowBits(v) <=> ~Fits(v, M)
<1> DEFINE H == Pow2[W - 1]
<1>1. W \in Nat /\ W - 1 \in Nat /\ M \in Nat /\ M = Pow2[W] /\ M = 2 * H /\ M \div 2 = H
  BY Zenon, Sizes
<1>2. H \in Nat /\ H >= 1
  BY Zenon, <1>1, PowPos
<1>3. M * M = Pow2[W + W]
  BY Zenon, <1>1, PowAdd
<1>4. W + W \in Nat /\ W < W + W /\ W - 1 < W + W
  BY <1>1, Sizes
<1>5. Bit(v % Pow2[W + W], W) = Bit(v, W) /\ Bit(v % Pow2[W + W], W - 1) = Bit(v, W - 1)
  BY Zenon, <1>1, <1>4, BitMod
<1>6. Bit(v, W) = (v \div M) % 2 /\ Bit(v, W - 1) = (v \div H) % 2
  BY Zenon, <1>1 DEF Bit
<1>7. OverflowBits(v) <=> (v \div M) % 2 # (v \div H) % 2
  BY Zenon, <1>3, <1>5, <1>6 DEF OverflowBits
<1> HIDE DEF H
<1>8. (v \div M) % 2 # (v \div H) % 2 <=> ~(v \in -H .. H - 1)
  BY Zenon, <1>1, <1>2, CarrySign
<1> QED BY Zenon, <1>1, <1>7, <1>8 DEF Fits

LEMMA SignedRange ==
  /\ \A x \in Word : S(x) \in Int /\ S(x) >= -(M \div 2) /\ S(x) < M \div 2
  /\ \A v \in -(M \div 2) .. (M \div 2) - 1 : v \in Int /\ S(v % M) = v
<1> DEFINE H == M \div 2
<1>1. M \in Nat /\ M = 2 * H /\ H \in Nat /\ H >= 1
  <2>1. W - 1 \in Nat /\ M = 2 * Pow2[W - 1] /\ M \div 2 = Pow2[W - 1] /\ M \in Nat
    BY Zenon, Sizes
  <2> QED BY Zenon, <2>1, PowPos
<1> HIDE DEF H
<1>2. ASSUME NEW x \in Word
      PROVE  S(x) \in Int /\ S(x) >= -H /\ S(x) < H
  BY <1>1 DEF S, Word, H
<1>3. ASSUME NEW v \in -H .. H - 1
      PROVE  v \in Int /\ S(v % M) = v
  <2>1. v \in Int /\ M >= 1
    BY <1>1
  <2>2. CASE v >= 0
    <3>1. v = M * 0 + v /\ v \in 0 .. M - 1 /\ 0 \in Int
      BY <1>1, <2>2
    <3>2. v % M = v
      BY <1>1, <2>1, <3>1, DivUnique
    <3>3. ~(v >= M \div 2)
      BY <1>1, <2>1 DEF H
    <3> QED BY Zenon, <2>1, <3>2, <3>3 DEF S
  <2>3. CASE v < 0
    <3>1. v = M * (-1) + (v + M) /\ v + M \in 0 .. M - 1 /\ -1 \in Int
      BY <1>1, <2>3
    <3>2. v % M = v + M
      BY <1>1, <2>1, <3>1, DivUnique
    <3>3. v + M >= M \div 2 /\ (v + M) - M = v
      BY <1>1, <2>1 DEF H
    <3> QED BY Zenon, <2>1, <3>2, <3>3 DEF S
  <2> QED BY <2>1, <2>2, <2>3
<1> QED BY Zenon, <1>2, <1>3 DEF H

\* The two words of a double word.
LEMMA TwoWords ==
  ASSUME NEW v \in Int, NEW m \in Nat, m >= 1
  PROVE  ((v \div m) % m) * m + (v % m) = v % (m * m)
<1> DEFINE q == v \div m
           r == v % m
           p == q \div m
           s == q % m
<1>1. q \in Int /\ r \in 0 .. m - 1 /\ v = m * q + r
  BY Zenon, DivMod
<1> HIDE DEF q, r
<1>2. p \in Int /\ s \in 0 .. m - 1 /\ q = m * p + s
  BY Zenon, <1>1, DivMod
<1> HIDE DEF p, s
<1>3. m * m \in Nat /\ m * m >= 1
  OBVIOUS
<1>4. s * m + r \in 0 .. m * m - 1
  BY <1>1, <1>2
<1>5. v = (m * m) * p + (s * m + r)
  BY <1>1, <1>2
<1> DEFINE mm == m * m
           t == s * m + r
<1> HIDE DEF mm, t
<1>6. mm \in Nat /\ mm >= 1 /\ t \in 0 .. mm - 1 /\ v = mm * p + t
  BY Zenon, <1>3, <1>4, <1>5 DEF mm, t
<1>7. v % mm = t
  BY Zenon, <1>2, <1>6, DivUnique
<1> QED BY Zenon, <1>7 DEF mm, t, s, r, q

\* A double word that does not overflow is read back.
LEMMA DoubleWord ==
  ASSUME NEW v \in Int, NEW acc \in Int, Fits(acc, M * M), v = acc \/ v = acc + M * M, NEW d,
         d.hi = (v \div M) % M, d.lo = v % M
  PROVE  Signed2(d) = acc
<1> DEFINE Q == M * M
           R == Q \div 2
           u == d.hi * M + d.lo
<1>1. M \in Nat /\ M >= 1
  BY Zenon, Sizes
<1>2. Q \in Nat /\ Q = 2 * R /\ R \in Nat /\ R >= 1
  <2> DEFINE H == Pow2[W - 1]
  <2>1. W - 1 \in Nat /\ M = 2 * H
    BY Zenon, Sizes
  <2>2. H \in Nat /\ H >= 1
    BY Zenon, <2>1, PowPos
  <2> HIDE DEF H
  <2> DEFINE hm == H * M
  <2>3. hm \in Nat /\ hm >= 1 /\ Q = 2 * hm
    BY <1>1, <2>1, <2>2
  <2> HIDE DEF hm, Q
  <2> QED BY <2>3
<1>3. u = v % Q
  BY Zenon, <1>1, TwoWords
<1>4. acc \in -R .. R - 1
  BY Zenon DEF Fits
<1>5. Signed2(d) = IF u >= R THEN u - Q ELSE u
  BY Zenon DEF Signed2
<1>6. v = acc \/ v = acc + Q
  BY Zenon
<1> HIDE DEF Q, R, u
<1>7. Q >= 1
  BY <1>2
<1>8. CASE acc >= 0
  <2>1. acc \in 0 .. Q - 1 /\ \E q \in Int : v = Q * q + acc
    <3>1. acc \in 0 .. Q - 1 /\ 0 \in Int /\ 1 \in Int /\ acc = Q * 0 + acc /\ acc + Q = Q * 1 + acc
      BY <1>2, <1>4, <1>8
    <3> QED BY Zenon, <1>6, <3>1
  <2>2. v % Q = acc
    BY <1>2, <1>7, <2>1, DivUnique
  <2> QED BY <1>2, <1>3, <1>4, <1>5, <2>2
<1>9. CASE acc < 0
  <2>1. acc + Q \in 0 .. Q - 1 /\ \E q \in Int : v = Q * q + (acc + Q)
    <3>1. /\ acc + Q \in 0 .. Q - 1 /\ -1 \in Int /\ 0 \in Int
          /\ acc = Q * (-1) + (acc + Q) /\ acc + Q = Q * 0 + (acc + Q)
      BY <1>2, <1>4, <1>9
    <3> QED BY Zenon, <1>6, <3>1
  <2>2. v % Q = acc + Q
    <3> DEFINE t == acc + Q
    <3>1. t \in 0 .. Q - 1 /\ \E q \in Int : v = Q * q + t
      BY Zenon, <2>1
    <3> HIDE DEF t
    <3>2. v % Q = t
      <4>1. PICK n \in Int : v = Q * n + t
        BY Zenon, <3>1
      <4>2. t \in 0 .. Q - 1 /\ Q \in Nat /\ Q >= 1
        BY Zenon, <1>2, <1>7, <3>1
      <4> QED BY Zenon, <4>1, <4>2, DivUnique
    <3> QED BY Zenon, <3>2 DEF t
  <2> QED BY <1>2, <1>3, <1>4, <1>5, <2>2
<1> QED BY <1>8, <1>9

\* A register of an instruction, as the properties read it.
Read(c, r) == IF r = 0 THEN 0 ELSE c.gpr[r]

\* add, addi and sub.
LEMMA TrapsExactly ==
  ASSUME NEW i \in Insts, NEW c \in Cpus, NEW h, h = decoder_get_handler(i), h \in {"add", "addi", "sub"}
  PROVE  LET x == S(Read(c, i.rs))
             y == IF h = "addi" THEN i.imm ELSE S(Read(c, i.rt))
             sum == IF h = "sub" THEN x - y ELSE x + y
             d == Execute(h, i, c)
         IN  d.exc # "RI" => (d.exc = "Ov" <=> ~Fits(sum, M))
<1> DEFINE x == S(Read(c, i.rs))
           y == IF h = "addi" THEN i.imm ELSE S(Read(c, i.rt))
           sum == IF h = "sub" THEN x - y ELSE x + y
           d == Execute(h, i, c)
<1>1. c \in CpuType
  BY Zenon, CpuTyped
<1>2. /\ h \in Integer /\ (h = "addi" => h \in ByImmediate /\ h \in ToRt /\ h # "ins")
      /\ h # "addi" => h \in ByRegister \ Shuffles /\ h \in ToRd /\ h \in {"add", "sub"}
      /\ h \notin Loads /\ h \notin Stores
  BY DEF Integer, ByImmediate, ByRegister, Shuffles, ToRd, ToRt, Loads, Stores, Products
<1>3. i.rs \in Reg /\ i.rt \in Reg
  BY Zenon, <1>2, RegisterFields
<1>4. /\ RsOf(i, c) = Read(c, i.rs) /\ RsOf(i, c) \in Word
      /\ RtOf(i, c) = Read(c, i.rt) /\ RtOf(i, c) \in Word
  BY Zenon, <1>1, <1>3, Operands DEF Read
<1>5. i.imm \in -(M \div 2) .. (M \div 2) - 1
  BY Zenon, InstAssumption
<1>6. x = S(RsOf(i, c)) /\ y = IF h = "addi" THEN S(I_SI(i)) ELSE S(RtOf(i, c))
  BY Zenon, <1>4, <1>5, SignedRange DEF I_SI
<1>7. Overflowing(h, i, c) = OverflowBits(sum)
  BY <1>6 DEF Overflowing, Overflows
<1>8. M \in Nat /\ M \div 2 \in Int /\ M = 2 * (M \div 2)
  <2>1. M \in Nat /\ M = 2 * (M \div 2)
    BY Zenon, Sizes
  <2> QED BY <2>1
<1>9. x \in Int /\ x >= -(M \div 2) /\ x < M \div 2
  BY Zenon, <1>4, SignedRange
<1>10. y \in Int /\ y >= -(M \div 2) /\ y < M \div 2
  <2>1. S(RtOf(i, c)) \in Int /\ S(RtOf(i, c)) >= -(M \div 2) /\ S(RtOf(i, c)) < M \div 2
    BY Zenon, <1>4, SignedRange
  <2>2. i.imm \in Int /\ i.imm >= -(M \div 2) /\ i.imm < M \div 2
    BY <1>5, <1>8
  <2> QED BY Zenon, <1>4, <2>1, <2>2
<1> HIDE DEF x, y
<1>11. sum \in Int /\ -M <= sum /\ sum < M + 1
  BY <1>8, <1>9, <1>10
<1>12. OverflowBits(sum) <=> ~Fits(sum, M)
  <2>1. sum < M
    BY <1>8, <1>9, <1>10
  <2> HIDE DEF sum
  <2> QED BY Zenon, <1>11, <2>1, OverflowExact
<1>13. /\ d.exc # "RI" => ~Refused(h, i)
       /\ ~Refused(h, i) /\ Overflowing(h, i, c) => d.exc = "Ov"
       /\ ~Refused(h, i) /\ ~Overflowing(h, i, c) => d.exc = "none"
  <2>1. Trapped(c, "RI").exc = "RI" /\ Trapped(c, "Ov").exc = "Ov"
    <3>1. "RI" \notin Addressed /\ "Ov" \notin Addressed /\ "RI" # "none" /\ "Ov" # "none"
      BY DEF Addressed
    <3> QED BY Zenon, <1>1, <3>1, TrappedKeeps
  <2>2. SetRd(h, i, c).exc = "none" /\ SetRt(h, i, c).exc = "none"
    BY Zenon, <1>1, SetCompletes
  <2>3. CASE h = "addi"
    BY <1>2, <2>1, <2>2, <2>3, ExecuteRt
  <2>4. CASE h # "addi"
    BY <1>2, <2>1, <2>2, <2>4, ExecuteRd
  <2> QED BY Zenon, <2>3, <2>4
<1>14. d.exc # "RI" => (d.exc = "Ov" <=> ~Fits(sum, M))
  <2> HIDE DEF d, sum
  <2> QED BY <1>7, <1>12, <1>13
<1> QED BY Zenon, <1>14 DEF x, y

\* madd, msub and mult.
LEMMA Accumulates ==
  ASSUME NEW i \in Insts, NEW c \in Cpus, NEW h, h = decoder_get_handler(i), h \in {"madd", "msub", "mult"}
  PROVE  LET x == S(Read(c, i.rs))
             y == S(Read(c, i.rt))
             acc == CASE h = "madd" -> Signed2(c) + x * y
                      [] h = "msub" -> Signed2(c) - x * y
                      [] OTHER -> x * y
             d == Execute(h, i, c)
         IN  d.exc = "none" /\ Fits(acc, M * M) => Signed2(d) = acc
<1> DEFINE x == S(Read(c, i.rs))
           y == S(Read(c, i.rt))
           hilo == c.hi * M + c.lo
           acc == CASE h = "madd" -> Signed2(c) + x * y
                    [] h = "msub" -> Signed2(c) - x * y
                    [] OTHER -> x * y
           v == CASE h = "mult" -> x * y
                  [] h = "madd" -> hilo + x * y
                  [] h = "msub" -> hilo - x * y
           d == Execute(h, i, c)
<1>1. c \in CpuType /\ Begun(c) \in CpuType /\ Begun(c).hi = c.hi /\ Begun(c).lo = c.lo
  BY Zenon, CpuTyped, BegunFields
<1>2. h \in Integer /\ h \in ByRegister \ Shuffles /\ h \in Products /\ h \in {"madd", "msub", "mult"}
  BY DEF Integer, ByRegister, Shuffles, ToRd, Products
<1>3. i.rs \in Reg /\ i.rt \in Reg
  BY Zenon, <1>2, RegisterFields
<1>4. /\ RsOf(i, c) = Read(c, i.rs) /\ RsOf(i, c) \in Word
      /\ RtOf(i, c) = Read(c, i.rt) /\ RtOf(i, c) \in Word
  BY Zenon, <1>1, <1>3, Operands DEF Read
<1>5. x \in Int /\ y \in Int /\ x = S(RsOf(i, c)) /\ y = S(RtOf(i, c))
  BY Zenon, <1>4, SignedRange
<1>6. M \in Nat /\ M * M \in Int /\ c.hi \in Int /\ c.lo \in Int
  BY <1>1, Sizes DEF CpuType, Word
<1>7. ASSUME d.exc = "none"
      PROVE  d = Multiplied(h, Begun(c), RsOf(i, c), RtOf(i, c))
  <2>1. Trapped(c, "RI").exc = "RI"
    <3>1. "RI" \notin Addressed /\ "RI" # "none"
      BY DEF Addressed
    <3> QED BY Zenon, <1>1, <3>1, TrappedKeeps
  <2> QED BY <1>2, <1>7, <2>1, ExecuteProduct
<1>8. Multiplied(h, Begun(c), RsOf(i, c), RtOf(i, c)) = WithHiLo(Begun(c), v)
  BY <1>1, <1>2, <1>5 DEF Multiplied
<1>9. WithHiLo(Begun(c), v).hi = (v \div M) % M /\ WithHiLo(Begun(c), v).lo = v % M
  <2> HIDE DEF v
  <2> QED BY <1>1 DEF WithHiLo, CpuType
<1> DEFINE p == x * y
           q == M * M
<1>10. p \in Int
  <2> HIDE DEF x, y
  <2> QED BY <1>5
<1>11. hilo \in Int
  BY <1>6
<1>12. Signed2(c) = hilo \/ Signed2(c) = hilo - q
  BY Zenon DEF Signed2
<1>13. /\ h = "mult" => v = p /\ acc = p
       /\ h = "madd" => v = hilo + p /\ acc = Signed2(c) + p
       /\ h = "msub" => v = hilo - p /\ acc = Signed2(c) - p
  <2> HIDE DEF hilo, x, y
  <2> QED OBVIOUS
<1> HIDE DEF x, y, p, hilo, q, acc, v
<1>14. v \in Int /\ acc \in Int /\ (v = acc \/ v = acc + q)
  BY <1>2, <1>6, <1>10, <1>11, <1>12, <1>13 DEF q
<1>15. ASSUME d.exc = "none", Fits(acc, M * M)
       PROVE  Signed2(d) = acc
  <2>1. d.hi = (v \div M) % M /\ d.lo = v % M
    BY Zenon, <1>7, <1>8, <1>9, <1>15
  <2> HIDE DEF d
  <2> QED BY Zenon, <1>14, <1>15, <2>1, DoubleWord DEF q
<1> QED BY Zenon, <1>15 DEF acc, x, y

-----------------------------------------------------------------------------
(* The bits of a result *)

LEMMA SetGpr ==
  ASSUME NEW h, NEW o, NEW c \in CpuType
  PROVE  /\ o.rd \in Reg => SetRd(h, o, c).gpr[o.rd] = RdValue(h, o, Begun(c), RsOf(o, c), RtOf(o, c))
         /\ o.rt \in Reg => SetRt(h, o, c).gpr[o.rt] = RtValue(h, o, RsOf(o, c), RtOf(o, c))
<1>1. ASSUME NEW b \in CpuType, NEW r \in Reg, NEW v
      PROVE  [b EXCEPT !.gpr[r] = v].gpr[r] = v
  BY DEF CpuType
<1>2. Begun(c) \in CpuType
  BY Zenon, BegunFields
<1>3. o.rd \in Reg => SetRd(h, o, c).gpr[o.rd] = RdValue(h, o, Begun(c), RsOf(o, c), RtOf(o, c))
  <2> DEFINE b == Begun(c)
             v == RdValue(h, o, Begun(c), RsOf(o, c), RtOf(o, c))
  <2>1. ASSUME o.rd \in Reg PROVE [b EXCEPT !.gpr[o.rd] = v].gpr[o.rd] = v
    <3>1. b \in CpuType
      BY Zenon, <1>2
    <3> HIDE DEF b, v
    <3> QED BY <1>1, <2>1, <3>1
  <2> QED BY Zenon, <2>1 DEF SetRd
<1>4. o.rt \in Reg => SetRt(h, o, c).gpr[o.rt] = RtValue(h, o, RsOf(o, c), RtOf(o, c))
  <2> DEFINE b == Begun(c)
             v == RtValue(h, o, RsOf(o, c), RtOf(o, c))
  <2>1. ASSUME o.rt \in Reg PROVE [b EXCEPT !.gpr[o.rt] = v].gpr[o.rt] = v
    <3>1. b \in CpuType
      BY Zenon, <1>2
    <3> HIDE DEF b, v
    <3> QED BY <1>1, <2>1, <3>1
  <2> QED BY Zenon, <2>1 DEF SetRt
<1> QED BY Zenon, <1>3, <1>4

Moving == {"sll", "sllv", "sra", "srav", "srl", "srlv", "ext", "ins", "wsbh", "seb", "seh"}

\* A left shift.
LEMMA LeftBit ==
  ASSUME NEW b \in Word, NEW sa \in 0 .. W - 1, NEW k \in 0 .. W - 1
  PROVE  Bit(Shl(b, sa), k) = IF k - sa \in 0 .. W - 1 THEN Bit(b, k - sa) ELSE 0
<1>1. b \in Int /\ sa \in Nat /\ (k < sa <=> k - sa \notin 0 .. W - 1)
  BY Sizes DEF Word
<1>2. Bit(Shl(b, sa), k) = IF k < sa THEN 0 ELSE Bit(b, k - sa)
  BY Zenon, <1>1, ShlBits
<1> QED BY Zenon, <1>1, <1>2

\* A right shift.
LEMMA RightBit ==
  ASSUME NEW b \in Word, NEW sa \in 0 .. W - 1, NEW k \in 0 .. W - 1
  PROVE  Bit(Shr(b, sa), k) = IF k + sa \in 0 .. W - 1 THEN Bit(b, k + sa) ELSE 0
<1>0. W \in Nat
  BY Zenon, Sizes
<1>1. sa \in Nat /\ k \in Nat /\ sa + k = k + sa /\ k + sa \in Nat /\ (k + sa \notin 0 .. W - 1 => k + sa >= W)
  BY <1>0
<1>2. Bit(Shr(b, sa), k) = Bit(b, k + sa)
  <2>1. Bit(Shr(b, sa), k) = Bit(b, sa + k)
    BY Zenon, <1>1, ShrBits
  <2> QED BY Zenon, <1>1, <2>1
<1>3. b \in 0 .. Pow2[W] - 1
  BY Zenon, Sizes
<1>4. k + sa \notin 0 .. W - 1 => Bit(b, k + sa) = 0
  BY Zenon, <1>0, <1>1, <1>3, HighBits
<1> QED BY Zenon, <1>2, <1>4

LEMMA RdBits ==
  ASSUME NEW i, NEW c, NEW h \in Moving \ {"ext", "ins"}, NEW a, NEW b \in Word, NEW k \in 0 .. W - 1,
         h \notin Shuffles => a \in Word /\ i.shamt \in Reg
  PROVE  Bit(RdValue(h, i, c, a, b), k) = ResultBit(h, i, a, b, k)
<1>0. W \in Nat /\ W >= 1 /\ ByteBits \in Nat /\ ByteBits >= 1 /\ ByteBits <= W
      /\ 2 * ByteBits \in Nat /\ 2 * ByteBits >= 1 /\ 2 * ByteBits <= W
  <2>1. W \in Nat /\ W >= 1
    BY Zenon, Sizes
  <2> QED BY <2>1, ByteSizes
<1>1. h \notin Shuffles => a % W \in 0 .. W - 1 /\ i.shamt \in 0 .. W - 1
  <2>1. a \in Word => a \in Int
    BY DEF Word
  <2> QED BY Zenon, <1>0, <2>1, DivMod DEF Reg
<1>2. b \in Int
  BY DEF Word
<1>3. CASE h = "sll"
  <2>1. RdValue(h, i, c, a, b) = Shl(b, i.shamt)
    BY <1>3 DEF RdValue
  <2>2. ResultBit(h, i, a, b, k) = IF k - i.shamt \in 0 .. W - 1 THEN Bit(b, k - i.shamt) ELSE 0
    BY <1>3 DEF ResultBit
  <2>3. i.shamt \in 0 .. W - 1
    BY <1>1, <1>3 DEF Shuffles
  <2> QED BY Zenon, <2>1, <2>2, <2>3, LeftBit
<1>4. CASE h = "sllv"
  <2>1. RdValue(h, i, c, a, b) = Shl(b, a % W)
    BY <1>4 DEF RdValue
  <2>2. ResultBit(h, i, a, b, k) = IF k - (a % W) \in 0 .. W - 1 THEN Bit(b, k - (a % W)) ELSE 0
    BY <1>4 DEF ResultBit
  <2>3. a % W \in 0 .. W - 1
    BY <1>1, <1>4 DEF Shuffles
  <2> QED BY Zenon, <2>1, <2>2, <2>3, LeftBit
<1>5. CASE h = "sra"
  <2>1. RdValue(h, i, c, a, b) = Sar(b, i.shamt)
    BY <1>5 DEF RdValue
  <2>2. ResultBit(h, i, a, b, k) = IF k + i.shamt < W THEN Bit(b, k + i.shamt) ELSE Bit(b, W - 1)
    BY <1>5 DEF ResultBit
  <2>3. i.shamt \in Nat
    BY <1>1, <1>5 DEF Shuffles
  <2>4. Bit(Sar(b, i.shamt), k) = IF k + i.shamt < W THEN Bit(b, k + i.shamt) ELSE Bit(b, W - 1)
    BY Zenon, <2>3, SarBits
  <2> QED BY Zenon, <2>1, <2>2, <2>4
<1>6. CASE h = "srav"
  <2>1. RdValue(h, i, c, a, b) = Sar(b, a % W)
    BY <1>6 DEF RdValue
  <2>2. ResultBit(h, i, a, b, k) = IF k + (a % W) < W THEN Bit(b, k + (a % W)) ELSE Bit(b, W - 1)
    BY <1>6 DEF ResultBit
  <2>3. a % W \in Nat
    <3> DEFINE sa == a % W
    <3>1. sa \in 0 .. W - 1
      BY <1>1, <1>6 DEF Shuffles
    <3> HIDE DEF sa
    <3>2. sa \in Nat
      BY <3>1
    <3> QED BY Zenon, <3>2 DEF sa
  <2>4. Bit(Sar(b, a % W), k) = IF k + (a % W) < W THEN Bit(b, k + (a % W)) ELSE Bit(b, W - 1)
    BY Zenon, <2>3, SarBits
  <2> QED BY Zenon, <2>1, <2>2, <2>4
<1>7. CASE h = "srl"
  <2>1. RdValue(h, i, c, a, b) = IF i.rs % 2 = 1 THEN rotr(b, i.shamt) ELSE Shr(b, i.shamt)
    BY <1>7 DEF RdValue
  <2>2. ResultBit(h, i, a, b, k) =
          IF i.rs % 2 = 1 THEN Bit(b, (k + i.shamt) % W)
          ELSE IF k + i.shamt \in 0 .. W - 1 THEN Bit(b, k + i.shamt) ELSE 0
    BY <1>7 DEF ResultBit
  <2>3. i.shamt \in 0 .. W - 1
    BY <1>1, <1>7 DEF Shuffles
  <2>4. CASE i.rs % 2 = 1
    <3>1. Bit(rotr(b, i.shamt), k) = Bit(b, (k + i.shamt) % W)
      BY Zenon, <2>3, RotrBits
    <3> QED BY Zenon, <2>1, <2>2, <2>4, <3>1
  <2>5. CASE i.rs % 2 # 1
    BY Zenon, <2>1, <2>2, <2>3, <2>5, RightBit
  <2> QED BY Zenon, <2>4, <2>5
<1>8. CASE h = "srlv"
  <2>1. RdValue(h, i, c, a, b) = IF i.shamt % 2 = 1 THEN rotr(b, a % W) ELSE Shr(b, a % W)
    BY <1>8 DEF RdValue
  <2>2. ResultBit(h, i, a, b, k) =
          IF i.shamt % 2 = 1 THEN Bit(b, (k + (a % W)) % W)
          ELSE IF k + (a % W) \in 0 .. W - 1 THEN Bit(b, k + (a % W)) ELSE 0
    BY <1>8 DEF ResultBit
  <2>3. a % W \in 0 .. W - 1
    BY <1>1, <1>8 DEF Shuffles
  <2>4. CASE i.shamt % 2 = 1
    <3>1. Bit(rotr(b, a % W), k) = Bit(b, (k + (a % W)) % W)
      BY Zenon, <2>3, RotrBits
    <3> QED BY Zenon, <2>1, <2>2, <2>4, <3>1
  <2>5. CASE i.shamt % 2 # 1
    BY Zenon, <2>1, <2>2, <2>3, <2>5, RightBit
  <2> QED BY Zenon, <2>4, <2>5
<1>9. CASE h = "wsbh"
  <2>1. RdValue(h, i, c, a, b) = wsbh(b)
    BY <1>9 DEF RdValue
  <2>2. ResultBit(h, i, a, b, k) =
          LET byte == k \div ByteBits
              other == IF byte % 2 = 0 THEN byte + 1 ELSE byte - 1
          IN  Bit(b, other * ByteBits + (k % ByteBits))
    BY <1>9 DEF ResultBit
  <2> QED BY Zenon, <2>1, <2>2, WsbhBits
<1>10. CASE h = "seb"
  <2>1. RdValue(h, i, c, a, b) = Sext(b, ByteBits)
    BY <1>10 DEF RdValue
  <2>2. ResultBit(h, i, a, b, k) = Bit(b, IF k < ByteBits THEN k ELSE ByteBits - 1)
    BY <1>10 DEF ResultBit
  <2> QED BY Zenon, <1>0, <1>2, <2>1, <2>2, SextBits
<1>11. CASE h = "seh"
  <2>1. RdValue(h, i, c, a, b) = Sext(b, 2 * ByteBits)
    BY <1>11 DEF RdValue
  <2>2. ResultBit(h, i, a, b, k) = Bit(b, IF k < 2 * ByteBits THEN k ELSE 2 * ByteBits - 1)
    BY <1>11 DEF ResultBit
  <2> QED BY Zenon, <1>0, <1>2, <2>1, <2>2, SextBits
<1> QED BY <1>3, <1>4, <1>5, <1>6, <1>7, <1>8, <1>9, <1>10, <1>11 DEF Moving

LEMMA MovesBits ==
  ASSUME NEW i \in Insts, NEW c \in Cpus, NEW h, h = decoder_get_handler(i), h \in Moving,
         Execute(h, i, c).exc = "none", NEW k \in 0 .. W - 1
  PROVE  Bit(Execute(h, i, c).gpr[IF h \in {"ext", "ins"} THEN i.rt ELSE i.rd], k) =
           ResultBit(h, i, Read(c, i.rs), Read(c, i.rt), k)
<1> DEFINE d == Execute(h, i, c)
           a == Read(c, i.rs)
           b == Read(c, i.rt)
<1>1. c \in CpuType
  BY Zenon, CpuTyped
<1>2. /\ h \in Integer
      /\ h \notin Shuffles => h \in ByRegister \ Shuffles
      /\ h \in {"ext", "ins"} => h \in ToRt /\ h # "addi" /\ h \notin Shuffles
      /\ h \notin {"ext", "ins"} => h \in ToRd /\ h \notin {"add", "sub"} /\ h \in Moving \ {"ext", "ins"}
  BY DEF Moving, Integer, ByRegister, Shuffles, ToRd, ToRt
<1>3. /\ i.rt \in Reg /\ i.rd \in Reg
      /\ h \notin Shuffles => i.rs \in Reg /\ i.shamt \in Reg
  BY Zenon, <1>2, RegisterFields
<1>4. RtOf(i, c) = b /\ b \in Word
  BY Zenon, <1>1, <1>3, Operands DEF Read
<1>5. h \notin Shuffles => RsOf(i, c) = a /\ a \in Word
  BY Zenon, <1>1, <1>3, Operands DEF Read
<1>6. Trapped(c, "RI").exc = "RI" /\ Trapped(c, "abort").exc = "abort"
  <2>1. "RI" \notin Addressed /\ "abort" \notin Addressed /\ "RI" # "none" /\ "abort" # "none"
    BY DEF Addressed
  <2> QED BY Zenon, <1>1, <2>1, TrappedKeeps
<1> HIDE DEF a, b
<1>7. CASE h \notin {"ext", "ins"}
  <2>1. d = SetRd(h, i, c)
    BY <1>2, <1>6, <1>7, ExecuteRd
  <2>2. d.gpr[i.rd] = RdValue(h, i, Begun(c), RsOf(i, c), b)
    BY Zenon, <1>1, <1>3, <1>4, <2>1, SetGpr
  <2>3. h \notin Shuffles => RsOf(i, c) \in Word /\ i.shamt \in Reg
    BY Zenon, <1>3, <1>5
  <2>4. Bit(d.gpr[i.rd], k) = ResultBit(h, i, RsOf(i, c), b, k)
    <3>1. Bit(RdValue(h, i, Begun(c), RsOf(i, c), b), k) = ResultBit(h, i, RsOf(i, c), b, k)
      BY <1>2, <1>4, <1>7, <2>3, RdBits
    <3> QED BY Zenon, <2>2, <3>1
  <2>5. ResultBit(h, i, RsOf(i, c), b, k) = ResultBit(h, i, a, b, k)
    <3>1. CASE h \notin Shuffles
      BY Zenon, <1>5, <3>1
    <3>2. CASE h \in Shuffles
      BY <3>2 DEF ResultBit, Shuffles
    <3> QED BY Zenon, <3>1, <3>2
  <2> QED BY Zenon, <1>7, <2>4, <2>5 DEF a, b
<1>8. CASE h \in {"ext", "ins"}
  <2>0. i.rs \in Reg /\ i.rt \in Reg /\ i.rd \in 0 .. W - 1 /\ i.shamt \in 0 .. W - 1 /\ a \in Word /\ RsOf(i, c) = a
    BY Zenon, <1>2, <1>3, <1>5, <1>8 DEF Reg
  <2>1. d = SetRt(h, i, c) /\ ~(h = "ins" /\ i.shamt > i.rd)
    BY <1>2, <1>6, <1>8, ExecuteRt
  <2>2. d.gpr[i.rt] = RtValue(h, i, a, b)
    BY Zenon, <1>1, <1>3, <1>4, <2>0, <2>1, SetGpr
  <2>3. CASE h = "ext"
    <3>1. RtValue(h, i, a, b) = ext(a, i.shamt, i.rd)
      BY <2>3 DEF RtValue
    <3>2. ResultBit(h, i, a, b, k) =
            IF k <= i.rd THEN IF k + i.shamt \in 0 .. W - 1 THEN Bit(a, k + i.shamt) ELSE 0 ELSE 0
      BY <2>3 DEF ResultBit
    <3>3. Bit(d.gpr[i.rt], k) = ResultBit(h, i, a, b, k)
      <4>1. Bit(ext(a, i.shamt, i.rd), k) =
              IF k <= i.rd THEN IF k + i.shamt \in 0 .. W - 1 THEN Bit(a, k + i.shamt) ELSE 0 ELSE 0
        BY <2>0, ExtBits
      <4> QED BY Zenon, <2>2, <3>1, <3>2, <4>1
    <3> QED BY Zenon, <1>8, <3>3 DEF a, b
  <2>4. CASE h = "ins"
    <3>1. RtValue(h, i, a, b) = ins(a, b, i.shamt, i.rd)
      BY <2>4 DEF RtValue
    <3>2. ResultBit(h, i, a, b, k) = IF k \in i.shamt .. i.rd THEN Bit(a, k - i.shamt) ELSE Bit(b, k)
      BY <2>4 DEF ResultBit
    <3>3. i.shamt <= i.rd
      BY <2>0, <2>1, <2>4
    <3>4. Bit(d.gpr[i.rt], k) = ResultBit(h, i, a, b, k)
      <4>1. Bit(ins(a, b, i.shamt, i.rd), k) = IF k \in i.shamt .. i.rd THEN Bit(a, k - i.shamt) ELSE Bit(b, k)
        BY <1>4, <2>0, <3>3, InsBits
      <4> QED BY Zenon, <2>2, <3>1, <3>2, <4>1
    <3> QED BY Zenon, <1>8, <3>4 DEF a, b
  <2> QED BY Zenon, <1>8, <2>3, <2>4
<1> QED BY Zenon, <1>7, <1>8

-----------------------------------------------------------------------------
(* The theorems *)

\* Before an instruction the state is one of Cpus.
Ready == phase = "ready" => cpu \in Cpus

LEMMA ReadyHolds == Spec => []Ready
<1>1. Init => Ready
  BY Zenon DEF Init, Ready
<1>2. ASSUME Ready, [Next]_vars
      PROVE  Ready'
  <2>1. CASE Next
    <3>1. phase' = "done"
      BY Zenon, <2>1 DEF Next, make_entry
    <3> QED BY <3>1 DEF Ready
  <2>2. CASE UNCHANGED vars
    BY Zenon, <1>2, <2>2 DEF Ready, vars
  <2> QED BY Zenon, <1>2, <2>1, <2>2
<1> QED BY <1>1, <1>2, PTL DEF Spec

\* One step: an instruction, executed as if from its own fields.
LEMMA Step ==
  ASSUME Ready, Next
  PROVE  /\ cpu \in Cpus /\ inst' \in Insts /\ handler' = decoder_get_handler(inst')
         /\ handler' \in Integer => cpu' = Execute(handler', inst', cpu)
         /\ handler' \notin Integer => cpu' = cpu
<1>1. PICK i \in Insts, ds \in Garbage : make_entry(i, ds)
  BY Zenon DEF Next
<1>2. phase = "ready" /\ inst' = i /\ ops' = decoder_set_state(ds, i)
  BY Zenon, <1>1 DEF make_entry
<1>3. handler' = decoder_get_handler(inst')
  BY Zenon DEF handler
<1>4. cpu' = IF decoder_get_handler(i) \in Integer THEN Execute(decoder_get_handler(i), ops', cpu) ELSE cpu
  BY Zenon, <1>1 DEF make_entry
<1>5. cpu \in Cpus
  BY Zenon, <1>2 DEF Ready
<1>6. ASSUME decoder_get_handler(i) \in Integer
      PROVE  cpu' = Execute(decoder_get_handler(i), i, cpu)
  BY Zenon, <1>2, <1>4, <1>6, SameExecute
<1> QED BY Zenon, <1>2, <1>3, <1>4, <1>5, <1>6

\* The fields decoder_set_state copies into a decode_state_t are enough: the integer
\* handlers do the same from them, whatever malloc left in the others, as from
\* the instruction word.
THEOREM CachedSameHolds == Spec => CachedSame
<1>1. ASSUME Ready, [Next]_vars
      PROVE  [handler' \in Integer => cpu' = Execute(handler', inst', cpu)]_vars
  <2>1. CASE Next
    BY Zenon, <1>1, <2>1, Step
  <2>2. CASE UNCHANGED vars
    BY Zenon, <2>2
  <2> QED BY Zenon, <1>1, <2>1, <2>2
<1> QED BY <1>1, ReadyHolds, PTL DEF Spec, CachedSame

LEMMA OldRead == \A r : Old(r) = Read(cpu, r)
BY Zenon DEF Old, Read

\* An instruction that faults, of any handler but ll, has changed no register and
\* no memory, and badvaddr is the address it computes: memory.h and arith.h look
\* at has_exception before they write.
THEOREM RestartableHolds == Spec => Restartable
<1> DEFINE A == /\ cpu'.exc # "none" /\ handler' # "ll" =>
                     /\ cpu'.gpr = [cpu.gpr EXCEPT ![0] = 0]
                     /\ cpu'.hi = cpu.hi /\ cpu'.lo = cpu.lo /\ cpu'.mem = cpu.mem
                /\ cpu'.exc \in {"TLBL", "TLBS", "AdEL", "AdES"} => cpu'.badvaddr = EffectiveAddr
<1>1. ASSUME Ready, [Next]_vars
      PROVE  [A]_vars
  <2>1. CASE Next
    <3>1. /\ cpu \in Cpus /\ inst' \in Insts /\ handler' = decoder_get_handler(inst')
          /\ handler' \in Integer => cpu' = Execute(handler', inst', cpu)
          /\ handler' \notin Integer => cpu' = cpu
      BY Zenon, <1>1, <2>1, Step
    <3>2. CASE handler' \in Integer
      <4>1. EffectiveAddr = ((IF inst'.rs = 0 THEN 0 ELSE cpu.gpr[inst'.rs]) + inst'.imm) % M
        BY Zenon DEF EffectiveAddr, Old
      <4>2. /\ cpu'.exc # "none" /\ handler' # "ll" => Kept(cpu, cpu')
            /\ cpu'.exc \in Addressed =>
                 cpu'.badvaddr = ((IF inst'.rs = 0 THEN 0 ELSE cpu.gpr[inst'.rs]) + inst'.imm) % M
        BY Zenon, <3>1, <3>2, Faults
      <4> QED BY Zenon, <4>1, <4>2 DEF Kept, Addressed
    <3>3. CASE handler' \notin Integer
      <4>1. cpu'.exc = "none"
        BY <3>1, <3>3, CpuTyped DEF CpuType
      <4> QED BY <4>1
    <3> QED BY Zenon, <3>2, <3>3
  <2>2. CASE UNCHANGED vars
    BY Zenon, <2>2
  <2> QED BY Zenon, <1>1, <2>1, <2>2
<1> QED BY <1>1, ReadyHolds, PTL DEF Spec, Restartable

\* add, addi and sub trap exactly when the sum of the signed operands does not fit
\* a word, although the code looks at two bits of a sum of 64 bits; mult, madd
\* and msub leave the exact double word in hi and lo when it fits.
THEOREM SignedExactHolds == Spec => SignedExact
<1> DEFINE x == S(Old(inst'.rs))
           y == IF handler' = "addi" THEN inst'.imm ELSE S(Old(inst'.rt))
           sum == IF handler' = "sub" THEN x - y ELSE x + y
           acc == CASE handler' = "madd" -> Signed2(cpu) + x * y
                    [] handler' = "msub" -> Signed2(cpu) - x * y
                    [] OTHER -> x * y
           A == /\ handler' \in {"add", "addi", "sub"} /\ cpu'.exc # "RI" =>
                     (cpu'.exc = "Ov" <=> ~Fits(sum, M))
                /\ handler' \in {"madd", "msub", "mult"} /\ cpu'.exc = "none" /\ Fits(acc, M * M) =>
                     Signed2(cpu') = acc
<1>1. ASSUME Ready, [Next]_vars
      PROVE  [A]_vars
  <2>1. CASE Next
    <3>1. /\ cpu \in Cpus /\ inst' \in Insts /\ handler' = decoder_get_handler(inst')
          /\ handler' \in Integer => cpu' = Execute(handler', inst', cpu)
      BY Zenon, <1>1, <2>1, Step
    <3>2. ASSUME handler' \in {"add", "addi", "sub"}
          PROVE  cpu'.exc # "RI" => (cpu'.exc = "Ov" <=> ~Fits(sum, M))
      <4>1. handler' \in Integer
        BY <3>2 DEF Integer, ToRd, ToRt
      <4> QED BY Zenon, <3>1, <3>2, <4>1, TrapsExactly DEF Old, Read
    <3>3. ASSUME handler' \in {"madd", "msub", "mult"}
          PROVE  cpu'.exc = "none" /\ Fits(acc, M * M) => Signed2(cpu') = acc
      <4>1. handler' \in Integer /\ handler' # "addi"
        BY <3>3 DEF Integer, Products
      <4>2. x = S(Read(cpu, inst'.rs)) /\ y = S(Read(cpu, inst'.rt))
        BY Zenon, <4>1, OldRead
      <4> DEFINE u == S(Read(cpu, inst'.rs))
                 w == S(Read(cpu, inst'.rt))
                 total == CASE handler' = "madd" -> Signed2(cpu) + u * w
                            [] handler' = "msub" -> Signed2(cpu) - u * w
                            [] OTHER -> u * w
      <4>3. Execute(handler', inst', cpu).exc = "none" /\ Fits(total, M * M) =>
              Signed2(Execute(handler', inst', cpu)) = total
        BY Zenon, <3>1, <3>3, Accumulates
      <4>4. acc = total
        <5> HIDE DEF x, y
        <5> QED BY Zenon, <4>2
      <4> HIDE DEF acc, total
      <4> QED BY Zenon, <3>1, <4>1, <4>3, <4>4
    <3> QED BY Zenon, <3>2, <3>3
  <2>2. CASE UNCHANGED vars
    BY Zenon, <2>2
  <2> QED BY Zenon, <1>1, <2>1, <2>2
<1> QED BY <1>1, ReadyHolds, PTL DEF Spec, SignedExact

\* Shifts, rotations and bit fields move every bit to its place, for words of any
\* size and shift amounts at both ends.
THEOREM BitsInPlaceHolds == Spec => BitsInPlace
<1> DEFINE result == cpu'.gpr[IF handler' \in {"ext", "ins"} THEN inst'.rt ELSE inst'.rd]
           A == handler' \in {"sll", "sllv", "sra", "srav", "srl", "srlv", "ext", "ins", "wsbh", "seb", "seh"}
                /\ cpu'.exc = "none" =>
                  \A k \in 0 .. W - 1 :
                    Bit(result, k) = ResultBit(handler', inst', Old(inst'.rs), Old(inst'.rt), k)
<1>1. ASSUME Ready, [Next]_vars
      PROVE  [A]_vars
  <2>1. CASE Next
    <3>1. /\ cpu \in Cpus /\ inst' \in Insts /\ handler' = decoder_get_handler(inst')
          /\ handler' \in Integer => cpu' = Execute(handler', inst', cpu)
      BY Zenon, <1>1, <2>1, Step
    <3>2. ASSUME handler' \in Moving, cpu'.exc = "none", NEW k \in 0 .. W - 1
          PROVE  Bit(result, k) = ResultBit(handler', inst', Old(inst'.rs), Old(inst'.rt), k)
      <4>1. handler' \in Integer
        BY <3>2 DEF Integer, Moving, ToRd, ToRt
      <4>2. Old(inst'.rs) = Read(cpu, inst'.rs) /\ Old(inst'.rt) = Read(cpu, inst'.rt)
        BY Zenon, OldRead
      <4>3. Execute(handler', inst', cpu).exc = "none" /\ cpu' = Execute(handler', inst', cpu)
        BY Zenon, <3>1, <3>2, <4>1
      <4>4. Bit(Execute(handler', inst', cpu).gpr[IF handler' \in {"ext", "ins"} THEN inst'.rt ELSE inst'.rd], k) =
              ResultBit(handler', inst', Read(cpu, inst'.rs), Read(cpu, inst'.rt), k)
        BY Zenon, <3>1, <3>2, <4>3, MovesBits
      <4> QED BY Zenon, <4>2, <4>3, <4>4
    <3> QED BY Zenon, <3>2 DEF Moving
  <2>2. CASE UNCHANGED vars
    BY Zenon, <2>2
  <2> QED BY Zenon, <1>1, <2>1, <2>2
<1> QED BY <1>1, ReadyHolds, PTL DEF Spec, BitsInPlace

\* lwl and lwr read, and swl and swr write, the word at any address in memory, in
\* either order, and change no other byte.
THEOREM UnalignedHolds == Spec => []Unaligned
<1>1. Ready => Unaligned
  <2>1. ASSUME cpu \in Cpus
        PROVE  cpu.mem \in Mem /\ cpu.gpr[1] \in Word
    <3>1. 1 \in Reg
      BY Sizes DEF Reg
    <3> QED BY <2>1, <3>1, CpuTyped DEF CpuType
  <2> QED BY Zenon, <2>1, UnalignedParts DEF Ready, Unaligned
<1> QED BY <1>1, ReadyHolds, PTL
=============================================================================
