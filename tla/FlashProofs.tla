---------------------------- MODULE FlashProofs ----------------------------
(***************************************************************************)
(* The flash keeps what was programmed, for every table of parts, every     *)
(* page and sector size, every image file and every sequence of bytes.      *)
(***************************************************************************)
EXTENDS Flash, WellFoundedInduction, TLAPS

-----------------------------------------------------------------------------
(* Numbers *)

\* A set of numbers has a least one.
LEMMA LeastOf ==
  ASSUME NEW T \in SUBSET Nat, T # {}
  PROVE  \E x \in T : \A y \in T : ~(y < x)
<1> DEFINE R == OpToRel(<, Nat)
<1>1. IsWellFoundedOn(R, Nat)
  BY Zenon, NatLessThanWellFounded
<1>2. \A x, y \in Nat : y < x => <<y, x>> \in R
  BY DEF OpToRel
<1> HIDE DEF R
<1>3. PICK x \in T : \A y \in T : <<y, x>> \notin R
  BY Zenon, <1>1, WFMin
<1> QED BY Zenon, <1>2, <1>3

\* The bytes of an address make a number: by the least place at which the
\* recursion would fail.
LEMMA NumberType ==
  ASSUME NEW high \in Int, NEW n \in Nat, NEW bytes, \A i \in 1 .. n : bytes[i] \in Int
  PROVE  Number(high, bytes, n) \in Int
<1> DEFINE Step(g, i) == IF i = 0 THEN high ELSE 2 * g[i - 1] + bytes[i]
           Upto(m) == \E g \in [0 .. m -> Int] : \A i \in 0 .. m : g[i] = Step(g, i)
           T == {m \in 0 .. n : ~Upto(m)}
           f == CHOOSE g : g = [i \in 0 .. n |-> Step(g, i)]
<1>1. Upto(0)
  <2> DEFINE g == [i \in 0 .. 0 |-> high]
  <2>1. g \in [0 .. 0 -> Int] /\ \A i \in 0 .. 0 : g[i] = Step(g, i)
    OBVIOUS
  <2> QED BY Zenon, <2>1
<1>2. ASSUME NEW m \in 0 .. n, m # 0, Upto(m - 1) PROVE Upto(m)
  <2>1. PICK g \in [0 .. m - 1 -> Int] : \A i \in 0 .. m - 1 : g[i] = Step(g, i)
    BY Zenon, <1>2
  <2> DEFINE h == [i \in 0 .. m |-> IF i = m THEN 2 * g[m - 1] + bytes[m] ELSE g[i]]
  <2>2. h \in [0 .. m -> Int]
    <3>1. g[m - 1] \in Int /\ bytes[m] \in Int
      BY <1>2
    <3> QED BY <3>1
  <2>3. ASSUME NEW i \in 0 .. m PROVE h[i] = Step(h, i)
    <3>1. CASE i = m
      BY <3>1, <1>2
    <3>2. CASE i # m
      <4>1. i \in 0 .. m - 1 /\ h[i] = g[i]
        BY <3>2
      <4>2. i # 0 => h[i - 1] = g[i - 1]
        BY <4>1
      <4> QED BY <2>1, <4>1, <4>2
    <3> QED BY <3>1, <3>2
  <2> QED BY Zenon, <2>2, <2>3
<1> HIDE DEF Upto
<1>3. T = {}
  <2> SUFFICES ASSUME T # {} PROVE FALSE
    OBVIOUS
  <2>1. T \in SUBSET Nat
    OBVIOUS
  <2>2. PICK x \in T : \A y \in T : ~(y < x)
    <3> HIDE DEF T
    <3> QED BY <2>1, LeastOf
  <2>3. x # 0 /\ x \in 0 .. n /\ ~Upto(x)
    BY <1>1, <2>2
  <2>4. x - 1 \notin T
    BY <2>2, <2>3
  <2>5. Upto(x - 1)
    BY <2>3, <2>4
  <2> QED BY <1>2, <2>3, <2>5
<1>4. PICK g \in [0 .. n -> Int] : \A i \in 0 .. n : g[i] = Step(g, i)
  <2>1. Upto(n)
    BY <1>3
  <2> QED BY Zenon, <2>1 DEF Upto
<1>5. g = [i \in 0 .. n |-> Step(g, i)]
  BY <1>4
<1>6. f = [i \in 0 .. n |-> Step(f, i)]
  BY Zenon, <1>5
<1>7. Number(high, bytes, n) = f[n]
  BY DEF Number
<1> HIDE DEF f
<1> DEFINE B == {m \in 0 .. n : f[m] \notin Int}
<1>8. B = {}
  <2> SUFFICES ASSUME B # {} PROVE FALSE
    OBVIOUS
  <2>1. B \in SUBSET Nat
    OBVIOUS
  <2>2. PICK x \in B : \A y \in B : ~(y < x)
    <3> HIDE DEF B
    <3> QED BY Zenon, <2>1, LeastOf
  <2>3. x \in 0 .. n /\ f[x] = Step(f, x) /\ f[x] \notin Int
    BY <1>6, <2>2
  <2>4. x # 0 /\ f[x - 1] \in Int
    BY <2>2, <2>3
  <2>5. x \in 1 .. n
    BY <2>3, <2>4
  <2>6. bytes[x] \in Int
    BY <2>5
  <2>7. f[x] = 2 * f[x - 1] + bytes[x]
    BY <2>3, <2>4
  <2> HIDE DEF B
  <2> QED BY <2>3, <2>4, <2>6, <2>7
<1> QED BY <1>7, <1>8

LEMMA Remainder ==
  ASSUME NEW x \in Int, NEW c \in Nat \ {0}
  PROVE  x % c \in 0 .. c - 1
OBVIOUS

\* Page d is the addresses from d * PageSize on.
LEMMA PageOf ==
  ASSUME NEW a \in Nat, NEW P \in Nat \ {0}, NEW d \in Int
  PROVE  /\ a \div P \in Nat
         /\ a \div P = d <=> d * P <= a /\ a < d * P + P
<1>1. /\ a \div P \in Nat /\ a % P \in 0 .. P - 1
      /\ a = P * (a \div P) + (a % P)
  OBVIOUS
<1> DEFINE q == a \div P
<1>2. q \in Nat /\ q * P <= a /\ a < q * P + P
  BY <1>1
<1> HIDE DEF q
<1>3. ASSUME d * P <= a, a < d * P + P, q < d PROVE FALSE
  <2>1. q + 1 <= d
    BY <1>2, <1>3
  <2>2. (q + 1) * P <= d * P
    BY <1>2, <2>1
  <2> QED BY <1>2, <1>3, <2>2
<1>4. ASSUME d * P <= a, a < d * P + P, d < q PROVE FALSE
  <2>1. d + 1 <= q
    BY <1>2, <1>4
  <2>2. (d + 1) * P <= q * P
    BY <1>2, <2>1
  <2> QED BY <1>2, <1>4, <2>2
<1> QED BY <1>2, <1>3, <1>4 DEF q

\* A page that begins within a part of whole pages ends within it.
LEMMA WholePages ==
  ASSUME NEW size \in Nat, NEW P \in Nat \ {0}, size % P = 0, NEW a \in 0 .. size - 1
  PROVE  (a \div P) * P + P <= size
<1> DEFINE q == a \div P
           k == size \div P
<1>1. k \in Nat /\ size = k * P
  <2>1. size = P * (size \div P) + (size % P) /\ size \div P \in Nat
    OBVIOUS
  <2> QED BY <2>1
<1>2. q \in Nat /\ q * P <= a
  BY PageOf
<1> HIDE DEF q, k
<1>3. ~(k <= q)
  <2> SUFFICES ASSUME k <= q PROVE FALSE
    OBVIOUS
  <2>1. k * P <= q * P
    BY <1>1, <1>2
  <2> QED BY <1>1, <1>2, <2>1
<1>4. (q + 1) * P <= k * P
  BY <1>1, <1>2, <1>3
<1> QED BY <1>1, <1>2, <1>4 DEF q

-----------------------------------------------------------------------------
(* The image file *)

\* The first part that holds a file is unique, and there is one.
Fits(i, f) ==
  /\ i \in DOMAIN Parts
  /\ Len(f) <= known_devices(i)
  /\ \A j \in 1 .. i - 1 : known_devices(j) < Len(f)

LEMMA PartTypes ==
  /\ DOMAIN Parts \subseteq Nat \ {0}
  /\ \A i \in DOMAIN Parts : /\ known_devices(i) \in Nat \ {0}
                             /\ known_devices(i) % PageSize = 0
                             /\ 1 .. i \subseteq DOMAIN Parts
BY FlashAssumption DEF known_devices

LEMMA FitsUnique ==
  ASSUME NEW f \in Seq(Byte), NEW i, Fits(i, f)
  PROVE  FirstFit(f) = i
<1>1. ASSUME NEW k, Fits(k, f) PROVE k = i
  <2>1. i \in Nat \ {0} /\ k \in Nat \ {0} /\ Len(f) \in Nat
        /\ known_devices(i) \in Nat /\ known_devices(k) \in Nat
    BY <1>1, PartTypes DEF Fits
  <2>2. ~(k < i)
    BY <1>1, <2>1 DEF Fits
  <2>3. ~(i < k)
    BY <1>1, <2>1 DEF Fits
  <2> QED BY <2>1, <2>2, <2>3
<1>2. FirstFit(f) = CHOOSE k \in DOMAIN Parts : Fits(k, f)
  BY Zenon DEF FirstFit, Fits
<1>3. i \in DOMAIN Parts
  BY DEF Fits
<1> QED BY <1>1, <1>2, <1>3

LEMMA FitsExists ==
  ASSUME NEW f \in Seq(Byte), \E i \in DOMAIN Parts : Len(f) <= known_devices(i)
  PROVE  \E i : Fits(i, f)
<1> DEFINE T == {i \in DOMAIN Parts : Len(f) <= known_devices(i)}
<1>1. T \in SUBSET Nat /\ T # {}
  BY PartTypes
<1>2. PICK i \in T : \A j \in T : ~(j < i)
  <2> HIDE DEF T
  <2> QED BY <1>1, LeastOf
<1>3. ASSUME NEW j \in 1 .. i - 1 PROVE known_devices(j) < Len(f)
  <2>1. j \in DOMAIN Parts /\ j < i
    BY <1>2, PartTypes
  <2>2. known_devices(j) \in Nat /\ Len(f) \in Nat
    BY <2>1, PartTypes
  <2> QED BY <1>2, <2>1, <2>2
<1> QED BY <1>2, <1>3 DEF Fits

\* Growing within the part keeps the part.
LEMMA FitsKept ==
  ASSUME NEW f \in Seq(Byte), NEW g \in Seq(Byte), NEW i, Fits(i, f),
         Len(f) <= Len(g), Len(g) <= known_devices(i)
  PROVE  Fits(i, g)
<1>1. ASSUME NEW j \in 1 .. i - 1 PROVE known_devices(j) \in Nat
  <2>1. i \in DOMAIN Parts
    BY DEF Fits
  <2>2. i \in Nat /\ 1 .. i \subseteq DOMAIN Parts
    BY Zenon, <2>1, PartTypes
  <2>3. j \in 1 .. i
    BY <2>2
  <2> QED BY Zenon, <2>2, <2>3, PartTypes
<1> QED BY <1>1 DEF Fits

\* What a run that starts from file f finds at address a.
Found(f, a) == IF a < Len(f) THEN f[a + 1] ELSE 1

\* len bytes at off have been written, those within the part as they are in st.
Copied(f, g, st, size, off, len) ==
  /\ g \in Seq(Byte) /\ Len(f) <= Len(g)
  /\ Len(f) <= size /\ off + len <= size => Len(g) <= size
  /\ \A a \in 0 .. size - 1 : a \in off .. off + len - 1 => Found(g, a) = st[a]
  /\ off <= Len(f) =>
       \A a \in 0 .. size - 1 : a \notin off .. off + len - 1 => Found(g, a) = Found(f, a)

\* What is written agrees with the storage as far as there is any.
Agrees(data, st, size, off, len) ==
  /\ data \in Seq(Byte) /\ Len(data) = len
  /\ \A i \in 1 .. len : off + i - 1 < size => data[i] = st[off + i - 1]

LEMMA WriteType ==
  ASSUME NEW f \in Seq(Byte), NEW size \in Nat, NEW st \in [0 .. size - 1 -> Byte],
         NEW off \in Nat, NEW len \in Nat, NEW data, Agrees(data, st, size, off, len),
         NEW g, g = WriteAt(f, off, data)
  PROVE  Copied(f, g, st, size, off, len)
<1> DEFINE n == IF Len(f) > off + Len(data) THEN Len(f) ELSE off + Len(data)
           v(i) == IF i \in off + 1 .. off + Len(data) THEN data[i - off]
                   ELSE IF i <= Len(f) THEN f[i] ELSE 0
<1>2. data \in Seq(Byte) /\ Len(data) = len
      /\ \A i \in 1 .. len : off + i - 1 < size => data[i] = st[off + i - 1]
  BY DEF Agrees
<1>3. g = [i \in 1 .. n |-> v(i)]
  BY DEF WriteAt
<1>4. n \in Nat /\ Len(f) \in Nat
  BY <1>2
<1>5. \A i \in 1 .. n : v(i) \in Byte
  <2>1. 0 \in Byte
    BY DEF Byte
  <2>2. \A i \in off + 1 .. off + len : data[i - off] \in Byte
    BY <1>2
  <2>3. \A i \in 1 .. Len(f) : f[i] \in Byte
    OBVIOUS
  <2> QED BY <1>2, <1>4, <2>1, <2>2, <2>3
<1> HIDE DEF v
<1>6. g \in Seq(Byte) /\ Len(g) = n
  <2> HIDE DEF n
  <2> QED BY <1>3, <1>4, <1>5
<1>7. \A i \in 1 .. n : g[i] = v(i)
  BY <1>3, <1>4
<1>8. ASSUME NEW a \in 0 .. size - 1, a \in off .. off + len - 1 PROVE Found(g, a) = st[a]
  <2>1. a + 1 \in 1 .. n /\ a + 1 \in off + 1 .. off + len
    BY <1>2, <1>4, <1>8
  <2>2. g[a + 1] = data[a + 1 - off]
    BY <1>2, <1>7, <2>1 DEF v
  <2>3. data[a + 1 - off] = st[a]
    BY <1>2, <1>8
  <2>4. a < Len(g)
    BY <1>4, <1>6, <2>1
  <2> QED BY <2>2, <2>3, <2>4 DEF Found
<1>9. ASSUME NEW a \in 0 .. size - 1, off <= Len(f), a \notin off .. off + len - 1
      PROVE  Found(g, a) = Found(f, a)
  <2>1. a < Len(g) <=> a < Len(f)
    BY <1>2, <1>4, <1>6, <1>9
  <2>2. a < Len(f) => g[a + 1] = f[a + 1]
    BY <1>2, <1>4, <1>7, <1>9 DEF v
  <2> QED BY <2>1, <2>2 DEF Found
<1>10. Len(f) <= Len(g) /\ (Len(f) <= size /\ off + len <= size => Len(g) <= size)
  BY <1>2, <1>4, <1>6
<1> HIDE DEF n
<1> QED BY <1>6, <1>8, <1>9, <1>10 DEF Copied

\* A sync of pages writes the storage.
LEMMA AreaAgrees ==
  ASSUME NEW size \in Nat, NEW st \in [0 .. size - 1 -> Byte],
         NEW off \in Nat, NEW len \in Nat, off + len <= size
  PROVE  Agrees(Area(st, off, len), st, size, off, len)
<1> DEFINE data == Area(st, off, len)
<1>1. data = [i \in 1 .. len |-> st[off + i - 1]]
  BY DEF Area
<1>2. \A i \in 1 .. len : st[off + i - 1] \in Byte
  OBVIOUS
<1> HIDE DEF data
<1>3. data \in Seq(Byte) /\ Len(data) = len /\ \A i \in 1 .. len : data[i] = st[off + i - 1]
  BY <1>1, <1>2
<1> QED BY <1>3 DEF Agrees, data

-----------------------------------------------------------------------------
(* The inductive invariant *)

FlashRec ==
  [size : Nat \ {0}, state : CMDState, cmd : FlashCMD, args : Seq(Byte), len : 0 .. BufSize,
   pos : Nat, loop : BOOLEAN, needed : Nat, addr : Nat, nv : Byte \X Byte, dummy : Byte,
   write_enable : BOOLEAN, long : BOOLEAN, reset_enable : BOOLEAN, ear : Int, dirty : Int]

Addressed == Programs \union Reads \union FastReads \union Erases

\* A command that is being collected has all its bytes since it began, and ends
\* with no fewer than its handler reads.
Collected(t) ==
  /\ t.cmd \in Addressed \union NeedEnable => Len(t.args) = t.len
  /\ t.cmd \in Addressed => t.needed >= get_addr_length(t.cmd, t.long)
  /\ t.cmd \in NeedEnable => t.needed >= 1
  /\ t.cmd = "WNVCR" => t.needed >= 2

Good(t) ==
  /\ t \in FlashRec
  /\ t.addr < t.size
  /\ t.state = "READING_DATA" => t.pos < t.len
  /\ t.loop => t.state = "READING_DATA"
  /\ t.state = "COLLECTING_DATA" => Collected(t)
  /\ t.dirty # None => t.dirty \in Nat /\ t.dirty * PageSize + PageSize <= t.size

\* The file holds every page but the dirty one.
Synced ==
  ~gap => \A a \in 0 .. s.size - 1 :
            a \div PageSize # s.dirty => Found(file, a) = storage[a]

Disk ==
  /\ storage \in [0 .. s.size - 1 -> Byte]
  /\ file \in Seq(Byte) /\ overrun \in BOOLEAN
  /\ \E i \in DOMAIN Parts : s.size = known_devices(i)
  /\ ~overrun => Len(file) <= s.size /\ \E i : Fits(i, file) /\ s.size = known_devices(i)
  /\ Synced

Deselected == ~selected => s.state = "IDLE" /\ s.dirty = None

IInv ==
  /\ Good(s) /\ Disk /\ Deselected
  /\ selected \in BOOLEAN /\ gap \in BOOLEAN

LEMMA IInvImplies == IInv => BufferUsed /\ Durable
<1> SUFFICES ASSUME IInv PROVE BufferUsed /\ Durable
  OBVIOUS
<1>1. BufferUsed
  BY DEF IInv, Good, FlashRec, BufferUsed
<1>2. DOMAIN storage = 0 .. s.size - 1
  BY DEF IInv, Disk
<1>3. \A a \in 0 .. s.size - 1 : Loaded(file, s.size)[a] = Found(file, a)
  BY DEF Loaded, Found
<1>4. Durable
  BY <1>2, <1>3 DEF IInv, Disk, Synced, Deselected, Durable
<1> QED BY <1>1, <1>4

-----------------------------------------------------------------------------
(* Steps of the storage and the file *)

LEMMA SizeKept ==
  ASSUME Disk, s'.size = s.size, storage' \in [0 .. s.size - 1 -> Byte],
         file' \in Seq(Byte), Len(file) <= Len(file'), overrun' \in BOOLEAN,
         ~overrun' => ~overrun /\ Len(file') <= s.size, Synced'
  PROVE  Disk'
<1>1. ASSUME ~overrun'
      PROVE  Len(file') <= s.size /\ \E i : Fits(i, file') /\ s.size = known_devices(i)
  <2>1. PICK i : Fits(i, file) /\ s.size = known_devices(i)
    BY <1>1 DEF Disk
  <2>2. Fits(i, file')
    BY <1>1, <2>1, FitsKept DEF Disk
  <2> QED BY <1>1, <2>1, <2>2
<1>2. \E i \in DOMAIN Parts : s.size = known_devices(i)
  BY DEF Disk
<1> QED BY Zenon, <1>1, <1>2 DEF Disk, Fits, known_devices

\* Nothing is written to the file.
LEMMA NoSync ==
  ASSUME Disk, s'.size = s.size, storage' \in [0 .. s.size - 1 -> Byte],
         UNCHANGED <<file, gap, overrun>>,
         \A a \in 0 .. s.size - 1 : a \div PageSize # s'.dirty =>
           storage'[a] = storage[a] /\ a \div PageSize # s.dirty
  PROVE  Disk'
<1>1. Synced'
  BY DEF Disk, Synced, Found
<1>2. file' \in Seq(Byte) /\ Len(file) <= Len(file') /\ overrun' \in BOOLEAN
      /\ (~overrun' => ~overrun /\ Len(file') <= s.size)
  BY DEF Disk
<1> QED BY <1>1, <1>2, SizeKept

\* The bytes from off on are written to the file.
LEMMA SyncArea ==
  ASSUME Disk, s.size \in Nat, s'.size = s.size, storage' \in [0 .. s.size - 1 -> Byte],
         NEW off \in Nat, NEW len \in Nat, NEW data,
         Agrees(data, storage', s.size, off, len), file' = WriteAt(file, off, data),
         gap' = (gap \/ off > Len(file)),
         overrun' \in BOOLEAN, ~overrun' => ~overrun /\ off + len <= s.size,
         \A a \in 0 .. s.size - 1 :
           a \notin off .. off + len - 1 /\ a \div PageSize # s'.dirty =>
             storage'[a] = storage[a] /\ a \div PageSize # s.dirty
  PROVE  Disk'
<1>1. file \in Seq(Byte) /\ Len(file) \in Nat /\ (~overrun => Len(file) <= s.size)
  BY DEF Disk
<1>2. /\ file' \in Seq(Byte) /\ Len(file) <= Len(file')
      /\ Len(file) <= s.size /\ off + len <= s.size => Len(file') <= s.size
      /\ \A a \in 0 .. s.size - 1 : a \in off .. off + len - 1 => Found(file', a) = storage'[a]
      /\ off <= Len(file) =>
           \A a \in 0 .. s.size - 1 :
             a \notin off .. off + len - 1 => Found(file', a) = Found(file, a)
  <2> DEFINE size == s.size
             st == storage'
             g == file'
  <2>1. /\ size \in Nat /\ st \in [0 .. size - 1 -> Byte]
        /\ Agrees(data, st, size, off, len) /\ g = WriteAt(file, off, data)
    BY <1>1
  <2> HIDE DEF size, st, g
  <2>2. Copied(file, g, st, size, off, len)
    BY Zenon, <1>1, <2>1, WriteType
  <2> QED BY Zenon, <2>2 DEF Copied, size, st, g
<1>3. ASSUME ~gap', NEW a \in 0 .. s.size - 1, a \div PageSize # s'.dirty
      PROVE  Found(file', a) = storage'[a]
  <2>1. ~gap /\ off <= Len(file)
    <3>1. ~gap /\ ~(off > Len(file))
      BY <1>3, Zenon
    <3> QED BY <1>1, <3>1
  <2>2. CASE a \in off .. off + len - 1
    BY <1>2, <2>2
  <2>3. CASE a \notin off .. off + len - 1
    <3>1. storage'[a] = storage[a] /\ a \div PageSize # s.dirty
      BY <1>3, <2>3
    <3>2. Found(file, a) = storage[a]
      BY <2>1, <3>1 DEF Disk, Synced
    <3> QED BY <1>2, <2>1, <2>3, <3>1, <3>2
  <2> QED BY <2>2, <2>3
<1>4. Synced'
  BY <1>3 DEF Synced, Found
<1>5. ~overrun' => ~overrun /\ Len(file') <= s.size
  BY <1>1, <1>2
<1> QED BY Zenon, <1>2, <1>4, <1>5, SizeKept

LEMMA EraseKeeps ==
  ASSUME Disk, s.size \in Nat, s'.size = s.size, s'.dirty = s.dirty,
         NEW off \in Nat, NEW len \in Nat, flash_erase(off, len)
  PROVE  Disk'
<1>1. DOMAIN storage = 0 .. s.size - 1 /\ storage \in [0 .. s.size - 1 -> Byte]
      /\ overrun \in BOOLEAN
  BY DEF Disk
<1>2. CASE s.write_enable
  <2> DEFINE data == [i \in 1 .. len |-> 1]
  <2>1. storage' = [a \in 0 .. s.size - 1 |->
                      IF a \in off .. off + len - 1 THEN 1 ELSE storage[a]]
    BY <1>1, <1>2 DEF flash_erase
  <2>2. storage' \in [0 .. s.size - 1 -> Byte]
    BY <1>1, <2>1 DEF Byte
  <2>3. file' = WriteAt(file, off, data) /\ gap' = (gap \/ off > Len(file))
        /\ overrun' = (overrun \/ off + len > s.size)
    BY <1>2 DEF flash_erase, Size
  <2>4. \A a \in 0 .. s.size - 1 : a \notin off .. off + len - 1 => storage'[a] = storage[a]
    BY <2>1
  <2>5. Agrees(data, storage', s.size, off, len)
    <3>1. data \in Seq(Byte) /\ Len(data) = len
      BY DEF Byte
    <3>2. ASSUME NEW i \in 1 .. len, off + i - 1 < s.size
          PROVE  data[i] = storage'[off + i - 1]
      BY <2>1, <3>2
    <3> QED BY <3>1, <3>2 DEF Agrees
  <2>6. overrun' \in BOOLEAN /\ (off + len > s.size \/ off + len <= s.size)
    <3>1. overrun' \in BOOLEAN
      BY Zenon, <1>1, <2>3
    <3> QED BY <3>1
  <2>7. ~overrun' => ~overrun /\ off + len <= s.size
    BY Zenon, <2>3, <2>6
  <2> HIDE DEF data
  <2> QED BY Zenon, <1>1, <2>2, <2>3, <2>4, <2>5, <2>6, <2>7, SyncArea
<1>3. CASE ~s.write_enable
  <2>1. UNCHANGED <<storage, file, gap, overrun>>
    BY <1>3 DEF flash_erase
  <2> QED BY <1>1, <2>1, NoSync
<1> QED BY <1>2, <1>3

LEMMA SizeFacts ==
  ASSUME Disk
  PROVE  s.size \in Nat \ {0} /\ s.size % PageSize = 0 /\ PageSize \in Nat \ {0}
BY PartTypes, FlashAssumption DEF Disk

\* The dirty page is synced, or there is none, or it stays the dirty page.
LEMMA DirtyKeeps ==
  ASSUME Good(s), Disk, s'.size = s.size, NEW new, s'.dirty = new,
         storage' \in [0 .. s.size - 1 -> Byte],
         \A a \in 0 .. s.size - 1 : a \div PageSize # new => storage'[a] = storage[a],
         file' = flash_sync_dirty(file, storage', s.dirty, new),
         gap' = (gap \/ SyncsPastEnd(file, s.dirty, new)), gap \in BOOLEAN, UNCHANGED overrun
  PROVE  Disk'
<1>1. s.size \in Nat \ {0} /\ PageSize \in Nat \ {0}
  BY SizeFacts
<1>2. CASE s.dirty # None /\ s.dirty # new
  <2> DEFINE off == s.dirty * PageSize
  <2>1. s.dirty \in Nat /\ off \in Nat /\ off + PageSize <= s.size
    <3>1. s.dirty \in Nat /\ s.dirty * PageSize + PageSize <= s.size
      BY Zenon, <1>2 DEF Good
    <3>2. \A x, y \in Nat : x * y \in Nat
      OBVIOUS
    <3> QED BY Zenon, <1>1, <3>1, <3>2
  <2> DEFINE data == Area(storage', off, PageSize)
  <2>2. file' = WriteAt(file, off, data) /\ gap' = (gap \/ off > Len(file))
    BY <1>2 DEF flash_sync_dirty, flash_sync, SyncsPastEnd
  <2>4. Agrees(data, storage', s.size, off, PageSize)
    <3> DEFINE st == storage'
               size == s.size
    <3>1. size \in Nat /\ st \in [0 .. size - 1 -> Byte] /\ off + PageSize <= size
          /\ PageSize \in Nat
      BY Zenon, <1>1, <2>1
    <3> HIDE DEF st, size, off
    <3>2. Agrees(Area(st, off, PageSize), st, size, off, PageSize)
      BY Zenon, <2>1, <3>1, AreaAgrees
    <3> QED BY Zenon, <3>2 DEF st, size
  <2>5. overrun' \in BOOLEAN /\ (~overrun' => ~overrun /\ off + PageSize <= s.size)
        /\ PageSize \in Nat /\ s.size \in Nat
    BY <1>1, <2>1 DEF Disk
  <2>3. ASSUME NEW a \in 0 .. s.size - 1, a \notin off .. off + PageSize - 1
        PROVE  a \div PageSize # s.dirty
    <3>1. a \div PageSize = s.dirty <=>
            s.dirty * PageSize <= a /\ a < s.dirty * PageSize + PageSize
      <4>1. a \in Nat /\ s.dirty \in Int
        BY <1>1, <2>1
      <4> QED BY Zenon, <1>1, <4>1, PageOf
    <3>2. a \div PageSize = s.dirty <=> off <= a /\ a < off + PageSize
      BY <3>1
    <3> HIDE DEF off
    <3> QED BY <1>1, <2>1, <2>3, <3>2
  <2> HIDE DEF off, data
  <2> QED BY Zenon, <2>1, <2>2, <2>3, <2>4, <2>5, SyncArea
<1>3. CASE s.dirty = None \/ s.dirty = new
  <2>1. UNCHANGED <<file, gap, overrun>>
    BY <1>3 DEF flash_sync_dirty, SyncsPastEnd
  <2>2. \A a \in 0 .. s.size - 1 : a \div PageSize # None
    <3>1. ASSUME NEW a \in 0 .. s.size - 1 PROVE a \div PageSize \in Nat
      <4>1. a \in Nat /\ 0 \in Int
        BY <1>1
      <4> QED BY Zenon, <1>1, <4>1, PageOf
    <3> QED BY <3>1 DEF None
  <2> QED BY <1>3, <2>1, <2>2, NoSync
<1> QED BY <1>2, <1>3

-----------------------------------------------------------------------------
(* Steps of the command decoder *)

SamePages(t, u) == u.size = t.size /\ u.dirty = t.dirty

LEMMA IdleGood ==
  ASSUME NEW t, Good(t), ~t.loop
  PROVE  /\ Good(Idle(t)) /\ SamePages(t, Idle(t))
         /\ Idle(t).state = "IDLE" /\ ~Idle(t).loop /\ Idle(t) \in FlashRec
<1>1. "IDLE" \in CMDState /\ "NOP" \in FlashCMD /\ <<>> \in Seq(Byte)
  BY DEF CMDState, FlashCMD
<1>2. Idle(t) \in FlashRec
  BY Zenon, <1>1 DEF Good, FlashRec, Idle
<1>3. /\ Idle(t).state = "IDLE" /\ ~Idle(t).loop /\ Idle(t).addr = 0
      /\ SamePages(t, Idle(t))
  BY DEF Good, FlashRec, Idle, SamePages
<1>4. t.size \in Nat \ {0}
  BY DEF Good, FlashRec
<1> HIDE DEF Idle
<1> QED BY <1>2, <1>3, <1>4 DEF Good, SamePages

\* A record in none of the two states that use the buffer.
LEMMA QuietGood ==
  ASSUME NEW t, Good(t), NEW u \in FlashRec, SamePages(t, u), ~u.loop, u.addr < u.size,
         u.state \notin {"COLLECTING_DATA", "READING_DATA"}
  PROVE  Good(u)
BY DEF Good, SamePages

LEMMA CollectGood ==
  ASSUME NEW t, Good(t), ~t.loop, NEW cmd \in FlashCMD, NEW n \in Nat,
         cmd \in Addressed => n >= get_addr_length(cmd, t.long),
         cmd \in NeedEnable => n >= 1, cmd = "WNVCR" => n >= 2
  PROVE  Good(Collect(t, cmd, n)) /\ SamePages(t, Collect(t, cmd, n))
<1> DEFINE u == Collect(t, cmd, n)
<1>1. "COLLECTING_DATA" \in CMDState /\ <<>> \in Seq(Byte) /\ Len(<<>>) = 0 /\ 0 \in 0 .. BufSize
  BY FlashAssumption DEF CMDState
<1>2. u \in FlashRec
  BY Zenon, <1>1 DEF Good, FlashRec, Collect
<1>3. /\ u.state = "COLLECTING_DATA" /\ ~u.loop /\ u.addr = t.addr /\ u.cmd = cmd
      /\ u.args = <<>> /\ u.len = 0 /\ u.needed = n /\ u.long = t.long
      /\ SamePages(t, u)
  BY DEF Good, FlashRec, Collect, SamePages
<1> HIDE DEF u
<1>4. Collected(u)
  BY <1>1, <1>3 DEF Collected
<1>5. Good(u)
  BY <1>2, <1>3, <1>4 DEF Good, SamePages
<1> QED BY <1>3, <1>5 DEF u

LEMMA AnswerGood ==
  ASSUME NEW t, Good(t), ~t.loop, NEW n \in 1 .. BufSize, NEW loop \in BOOLEAN
  PROVE  Good(Answer(t, n, loop)) /\ SamePages(t, Answer(t, n, loop))
<1> DEFINE u == Answer(t, n, loop)
<1>1. "READING_DATA" \in CMDState /\ n \in 0 .. BufSize /\ BufSize \in Nat
  BY FlashAssumption DEF CMDState
<1>2. (t.loop \/ loop) \in BOOLEAN
  OBVIOUS
<1>3. u \in FlashRec
  BY Zenon, <1>1, <1>2 DEF Good, FlashRec, Answer
<1>4. /\ u.state = "READING_DATA" /\ u.pos = 0 /\ u.len = n /\ u.addr = t.addr
      /\ SamePages(t, u)
  BY DEF Good, FlashRec, Answer, SamePages
<1> HIDE DEF u
<1>5. Good(u)
  BY <1>1, <1>3, <1>4 DEF Good, SamePages
<1> QED BY <1>4, <1>5 DEF u

LEMMA AddrLength ==
  ASSUME NEW cmd, NEW long
  PROVE  get_addr_length(cmd, long) \in Nat
BY FlashAssumption DEF get_addr_length

LEMMA ResetGood ==
  ASSUME NEW t, Good(t), ~t.loop, s.size = t.size
  PROVE  Good(reset_memory(t)) /\ SamePages(t, reset_memory(t))
<1> DEFINE v == Idle(t)
           dummy == t.nv[2]
           long == t.nv[1] = 0
           ear == IF t.nv[1] = 0 THEN LastSegment ELSE 0
           u == [v EXCEPT !.len = 0, !.pos = 0, !.write_enable = FALSE,
                          !.reset_enable = FALSE, !.dummy = dummy, !.long = long,
                          !.ear = ear]
<1>1. /\ Good(v) /\ SamePages(t, v) /\ v.state = "IDLE" /\ ~v.loop /\ v \in FlashRec
  BY IdleGood
<1>2. t.nv \in Byte \X Byte /\ t.size \in Nat
  BY DEF Good, FlashRec
<1>3. dummy \in Byte /\ long \in BOOLEAN
  BY <1>2
<1>4. ear \in Int
  <2>1. s.size \div MAX_3BYTES_SIZE \in Int
    BY <1>2, FlashAssumption
  <2> QED BY <2>1 DEF LastSegment, Size
<1>5. reset_memory(t) = u
  BY DEF reset_memory
<1>6. 0 \in 0 .. BufSize
  BY FlashAssumption
<1> HIDE DEF v, dummy, long, ear
<1>7. u \in FlashRec /\ u.state = "IDLE" /\ ~u.loop /\ SamePages(t, u) /\ u.addr = v.addr
  BY Zenon, <1>1, <1>3, <1>4, <1>6 DEF FlashRec, SamePages
<1>8. u.addr < u.size
  BY <1>1, <1>7 DEF Good, SamePages
<1> HIDE DEF u
<1>9. Good(u)
  BY <1>7, <1>8, QuietGood
<1> QED BY <1>5, <1>7, <1>9

LEMMA DecodeGood ==
  ASSUME Good(s), s.state = "IDLE", NEW cmd \in FlashCMD
  PROVE  Good(decode_new_cmd(cmd)) /\ SamePages(s, decode_new_cmd(cmd))
<1> DEFINE t == [s EXCEPT !.reset_enable = @ /\ cmd = "RESET_MEMORY"]
           n == get_addr_length(cmd, t.long)
           u == decode_new_cmd(cmd)
           Goal(v) == Good(v) /\ SamePages(s, v)
<1>0. s \in FlashRec /\ ~s.loop
  BY DEF Good
<1>1. /\ t \in FlashRec /\ ~t.loop /\ t.state = "IDLE" /\ t.addr = s.addr /\ SamePages(s, t)
      /\ t.len = s.len
  BY Zenon, <1>0 DEF FlashRec, SamePages
<1>2. Good(t)
  <2>1. t.addr < t.size
    BY <1>1 DEF Good, SamePages
  <2> HIDE DEF t
  <2> QED BY <1>1, <2>1, QuietGood
<1>3. n \in Nat
  BY AddrLength
<1>4. ASSUME NEW v, Good(v), SamePages(t, v) PROVE Goal(v)
  BY <1>1, <1>4 DEF SamePages
<1>5. u = CASE cmd \in Programs \union Reads \union Erases \union {"RDID_90"} -> Collect(t, cmd, n)
            [] cmd \in FastReads -> Collect(t, cmd, n + MaxDummy * t.dummy)
            [] cmd = "WRSR" /\ t.write_enable -> [Collect(t, cmd, 1) EXCEPT !.len = t.len]
            [] cmd = "WNVCR" /\ t.write_enable -> Collect(t, cmd, 2)
            [] cmd \in {"BRWR", "WVCR"} /\ t.write_enable -> Collect(t, cmd, 1)
            [] cmd \in AnswerOne -> Answer(t, 1, cmd \in {"RDSR", "READ_FSR"})
            [] cmd = "RNVCR" -> Answer(t, 2, FALSE)
            [] cmd = "JEDEC_READ" -> Answer(t, IdLen, FALSE)
            [] cmd \in {"WREN", "WRDI"} -> [t EXCEPT !.write_enable = cmd = "WREN"]
            [] cmd \in {"EN_4BYTE_ADDR", "EX_4BYTE_ADDR"} -> [t EXCEPT !.long = cmd = "EN_4BYTE_ADDR"]
            [] cmd = "RESET_ENABLE" -> [t EXCEPT !.reset_enable = TRUE]
            [] cmd = "RESET_MEMORY" /\ t.reset_enable -> reset_memory(t)
            [] OTHER -> t
  BY Zenon DEF decode_new_cmd
<1> DEFINE wrsr == [Collect(t, cmd, 1) EXCEPT !.len = t.len]
           enable == [t EXCEPT !.write_enable = cmd = "WREN"]
           extend == [t EXCEPT !.long = cmd = "EN_4BYTE_ADDR"]
           armed == [t EXCEPT !.reset_enable = TRUE]
<1>6. cmd \in Programs \union Reads \union Erases \union {"RDID_90"} => Goal(Collect(t, cmd, n))
  <2> SUFFICES ASSUME cmd \in Programs \union Reads \union Erases \union {"RDID_90"}
               PROVE  Goal(Collect(t, cmd, n))
    OBVIOUS
  <2>1. cmd \notin NeedEnable /\ n >= n
    BY <1>3 DEF NeedEnable, Programs, Reads, Erases
  <2>2. cmd # "WNVCR" /\ n >= get_addr_length(cmd, t.long)
    BY <2>1 DEF NeedEnable
  <2> HIDE DEF t, n
  <2> QED BY <1>1, <1>2, <1>3, <1>4, <2>1, <2>2, CollectGood
<1>7. cmd \in FastReads => Goal(Collect(t, cmd, n + MaxDummy * t.dummy))
  <2> SUFFICES ASSUME cmd \in FastReads PROVE Goal(Collect(t, cmd, n + MaxDummy * t.dummy))
    OBVIOUS
  <2> DEFINE k == n + MaxDummy * t.dummy
  <2>1. MaxDummy \in Nat /\ t.dummy \in 0 .. 1
    BY Zenon, <1>1, FlashAssumption DEF FlashRec, Byte
  <2>2. k \in Nat /\ k >= get_addr_length(cmd, t.long)
    <3>1. MaxDummy * t.dummy \in Nat
      BY <2>1
    <3> DEFINE d == MaxDummy * t.dummy
    <3> HIDE DEF d, t
    <3> QED BY <1>3, <3>1 DEF d
  <2>3. cmd \notin NeedEnable /\ cmd # "WNVCR"
    BY DEF NeedEnable, FastReads
  <2> HIDE DEF t, n, k
  <2> QED BY <1>1, <1>2, <1>4, <2>2, <2>3, CollectGood DEF k
<1>8. cmd = "WRSR" => Goal(wrsr)
  <2> SUFFICES ASSUME cmd = "WRSR" PROVE Goal(wrsr)
    OBVIOUS
  <2> DEFINE c == Collect(t, cmd, 1)
  <2>1. cmd \notin Addressed /\ cmd \notin NeedEnable /\ cmd # "WNVCR"
    BY DEF Addressed, NeedEnable, Programs, Reads, FastReads, Erases
  <2>2. Good(c) /\ SamePages(t, c)
    <3> HIDE DEF t
    <3> QED BY <1>1, <1>2, <2>1, CollectGood
  <2>3. c.state = "COLLECTING_DATA" /\ c.cmd = cmd
    <3> HIDE DEF t
    <3> QED BY <1>1 DEF Collect, FlashRec
  <2>4. t.len \in 0 .. BufSize /\ c \in FlashRec
    BY <1>1, <2>2 DEF FlashRec, Good
  <2> DEFINE l == t.len
  <2>5. wrsr = [c EXCEPT !.len = l]
    OBVIOUS
  <2> HIDE DEF t, c, l, wrsr
  <2>6. /\ wrsr \in FlashRec /\ SamePages(c, wrsr) /\ wrsr.cmd = cmd
        /\ wrsr.state = "COLLECTING_DATA" /\ wrsr.loop = c.loop /\ wrsr.addr = c.addr
    BY Zenon, <2>3, <2>4, <2>5 DEF FlashRec, SamePages, l
  <2>7. Collected(wrsr)
    BY <2>1, <2>6 DEF Collected
  <2>8. Good(wrsr)
    BY <2>2, <2>3, <2>6, <2>7 DEF Good, SamePages
  <2> QED BY <1>4, <2>2, <2>6, <2>8 DEF SamePages
<1>9. cmd = "WNVCR" => Goal(Collect(t, cmd, 2))
  <2> SUFFICES ASSUME cmd = "WNVCR" PROVE Goal(Collect(t, cmd, 2))
    OBVIOUS
  <2>1. cmd \notin Addressed
    BY DEF Addressed, Programs, Reads, FastReads, Erases
  <2> HIDE DEF t
  <2> QED BY <1>1, <1>2, <1>4, <2>1, CollectGood
<1>10. cmd \in {"BRWR", "WVCR"} => Goal(Collect(t, cmd, 1))
  <2> SUFFICES ASSUME cmd \in {"BRWR", "WVCR"} PROVE Goal(Collect(t, cmd, 1))
    OBVIOUS
  <2>1. cmd \notin Addressed /\ cmd # "WNVCR"
    BY DEF Addressed, Programs, Reads, FastReads, Erases
  <2> HIDE DEF t
  <2> QED BY <1>1, <1>2, <1>4, <2>1, CollectGood
<1>11. Goal(Answer(t, 1, cmd \in {"RDSR", "READ_FSR"}))
  <2>1. 1 \in 1 .. BufSize /\ (cmd \in {"RDSR", "READ_FSR"}) \in BOOLEAN
    BY FlashAssumption
  <2> HIDE DEF t
  <2> QED BY Zenon, <1>1, <1>2, <1>4, <2>1, AnswerGood
<1>12. Goal(Answer(t, 2, FALSE)) /\ Goal(Answer(t, IdLen, FALSE))
  <2>1. 2 \in 1 .. BufSize /\ IdLen \in 1 .. BufSize /\ FALSE \in BOOLEAN
    BY FlashAssumption
  <2> HIDE DEF t
  <2> QED BY Zenon, <1>1, <1>2, <1>4, <2>1, AnswerGood
<1>13. Goal(enable) /\ Goal(extend) /\ Goal(armed)
  <2>1. (cmd = "WREN") \in BOOLEAN /\ (cmd = "EN_4BYTE_ADDR") \in BOOLEAN
    OBVIOUS
  <2> HIDE DEF t
  <2> DEFINE Quiet(v) == /\ v \in FlashRec /\ SamePages(t, v) /\ ~v.loop
                         /\ v.addr = t.addr /\ v.state = "IDLE"
             w == cmd = "WREN"
             x == cmd = "EN_4BYTE_ADDR"
  <2>2. Quiet(enable)
    <3> HIDE DEF w
    <3> QED BY Zenon, <1>1, <2>1 DEF FlashRec, SamePages, w
  <2>3. Quiet(extend)
    <3> HIDE DEF x
    <3> QED BY Zenon, <1>1, <2>1 DEF FlashRec, SamePages, x
  <2>4. Quiet(armed)
    BY Zenon, <1>1 DEF FlashRec, SamePages
  <2>5. ASSUME NEW v, Quiet(v) PROVE Goal(v)
    <3>1. v.addr < v.size
      BY <1>2, <2>5 DEF Good, SamePages
    <3> QED BY <1>2, <1>4, <2>5, <3>1, QuietGood
  <2> HIDE DEF Goal, Quiet, enable, extend, armed
  <2> QED BY <2>2, <2>3, <2>4, <2>5
<1>14. Goal(reset_memory(t)) /\ Goal(t)
  <2>1. s.size = t.size
    BY <1>1 DEF SamePages
  <2> HIDE DEF t
  <2> QED BY <1>1, <1>2, <1>4, <2>1, ResetGood DEF SamePages
<1> HIDE DEF Goal, t, n, wrsr, enable, extend, armed
<1>15. (u = wrsr /\ cmd = "WRSR") \/ Goal(u)
  BY Zenon, <1>5, <1>6, <1>7, <1>9, <1>10, <1>11, <1>12, <1>13, <1>14 DEF wrsr, enable, extend, armed
<1>16. Goal(u)
  BY <1>8, <1>15
<1> QED BY <1>16 DEF Goal

\* The handler of a command that is complete: its address is within the part.
LEMMA CompleteGood ==
  ASSUME NEW t, Good(t), t.state = "COLLECTING_DATA", t.len = t.needed, s.size = t.size
  PROVE  /\ Good(complete_collecting_data(t)) /\ SamePages(t, complete_collecting_data(t))
         /\ t.cmd \in Erases => ~complete_collecting_data(t).loop
<1> DEFINE n == get_addr_length(t.cmd, t.long)
           addr == Number(IF n = ShortAddr THEN t.ear ELSE 0, t.args, n) % s.size
           v == Idle(t)
           u == complete_collecting_data(t)
           Goal(w) == Good(w) /\ SamePages(t, w) /\ ~w.loop
<1>0. t \in FlashRec /\ ~t.loop /\ Collected(t)
  BY DEF Good
<1>1. /\ Good(v) /\ SamePages(t, v) /\ v.state = "IDLE" /\ ~v.loop /\ v \in FlashRec
  BY <1>0, IdleGood
<1>2. t.size \in Nat \ {0} /\ t.args \in Seq(Byte) /\ t.ear \in Int /\ Len(t.args) \in Nat
      /\ t.needed \in Nat
  BY <1>0 DEF FlashRec
<1>3. \A i \in 1 .. Len(t.args) : t.args[i] \in Byte /\ t.args[i] \in Int
  <2>1. \A i \in 1 .. Len(t.args) : t.args[i] \in Byte
    BY <1>2
  <2> QED BY <2>1 DEF Byte
<1>4. t.cmd \in Addressed => addr \in 0 .. t.size - 1
  <2> SUFFICES ASSUME t.cmd \in Addressed PROVE addr \in 0 .. t.size - 1
    OBVIOUS
  <2>1. n \in Nat /\ n <= Len(t.args)
    BY <1>0, <1>2, AddrLength DEF Collected
  <2> DEFINE high == IF n = ShortAddr THEN t.ear ELSE 0
  <2>2. high \in Int
    BY <1>2
  <2>3. \A i \in 1 .. n : t.args[i] \in Int
    BY <1>2, <1>3, <2>1
  <2> HIDE DEF n, high
  <2>4. Number(high, t.args, n) \in Int
    BY <2>1, <2>2, <2>3, NumberType
  <2> DEFINE k == Number(high, t.args, n)
  <2>5. addr = k % t.size
    BY DEF high
  <2> HIDE DEF k, addr
  <2> QED BY Zenon, <1>2, <2>4, <2>5, Remainder DEF k
<1>5. u = CASE t.cmd \in Programs -> [v EXCEPT !.state = "PAGE_PROGRAM", !.addr = addr]
            [] t.cmd \in Reads \union FastReads -> [v EXCEPT !.state = "READ", !.addr = addr]
            [] t.cmd \in Erases -> [v EXCEPT !.addr = addr]
            [] t.cmd = "WRSR" -> [v EXCEPT !.write_enable = FALSE]
            [] t.cmd = "BRWR" -> [v EXCEPT !.ear = t.args[1]]
            [] t.cmd = "WNVCR" -> [v EXCEPT !.nv = <<t.args[1], t.args[2]>>]
            [] t.cmd = "WVCR" -> [v EXCEPT !.dummy = t.args[1]]
            [] OTHER -> v
  BY Zenon DEF complete_collecting_data, Size
<1> HIDE DEF v, addr
<1> DEFINE a1 == [v EXCEPT !.state = "PAGE_PROGRAM", !.addr = addr]
           a2 == [v EXCEPT !.state = "READ", !.addr = addr]
           a3 == [v EXCEPT !.addr = addr]
           a4 == [v EXCEPT !.write_enable = FALSE]
           a5 == [v EXCEPT !.ear = t.args[1]]
           a6 == [v EXCEPT !.nv = <<t.args[1], t.args[2]>>]
           a7 == [v EXCEPT !.dummy = t.args[1]]
<1>6. ASSUME NEW w \in FlashRec, SamePages(v, w), ~w.loop, w.addr < w.size,
             w.state \in {"IDLE", "PAGE_PROGRAM", "READ"}
      PROVE  Goal(w)
  <2>1. Good(w)
    BY <1>1, <1>6, QuietGood
  <2> QED BY <1>1, <1>6, <2>1 DEF SamePages
<1>7. v.addr < v.size /\ v.size = t.size /\ {"PAGE_PROGRAM", "READ"} \subseteq CMDState
  BY <1>1 DEF Good, SamePages, CMDState
<1>8. t.cmd \in Addressed => Goal(a1) /\ Goal(a2) /\ Goal(a3)
  <2> SUFFICES ASSUME t.cmd \in Addressed PROVE Goal(a1) /\ Goal(a2) /\ Goal(a3)
    OBVIOUS
  <2>1. addr \in Nat /\ addr < t.size
    BY <1>2, <1>4
  <2>2. a1 \in FlashRec /\ SamePages(v, a1) /\ ~a1.loop /\ a1.addr = addr /\ a1.size = v.size
        /\ a1.state = "PAGE_PROGRAM"
    BY Zenon, <1>1, <1>7, <2>1 DEF FlashRec, SamePages
  <2>3. a2 \in FlashRec /\ SamePages(v, a2) /\ ~a2.loop /\ a2.addr = addr /\ a2.size = v.size
        /\ a2.state = "READ"
    BY Zenon, <1>1, <1>7, <2>1 DEF FlashRec, SamePages
  <2>4. a3 \in FlashRec /\ SamePages(v, a3) /\ ~a3.loop /\ a3.addr = addr /\ a3.size = v.size
        /\ a3.state = "IDLE"
    BY Zenon, <1>1, <1>7, <2>1 DEF FlashRec, SamePages
  <2> HIDE DEF a1, a2, a3, Goal
  <2> QED BY <1>6, <1>7, <2>1, <2>2, <2>3, <2>4
<1>9. Goal(a4)
  <2>1. a4 \in FlashRec /\ SamePages(v, a4) /\ ~a4.loop /\ a4.addr = v.addr /\ a4.size = v.size
        /\ a4.state = "IDLE"
    BY Zenon, <1>1 DEF FlashRec, SamePages
  <2> HIDE DEF a4, Goal
  <2> QED BY <1>6, <1>7, <2>1
<1>10. t.cmd = "BRWR" => Goal(a5)
  <2> SUFFICES ASSUME t.cmd = "BRWR" PROVE Goal(a5)
    OBVIOUS
  <2>1. t.args[1] \in Int
    BY <1>0, <1>2, <1>3 DEF Collected, NeedEnable
  <2> DEFINE b == t.args[1]
  <2> HIDE DEF b
  <2>2. a5 \in FlashRec /\ SamePages(v, a5) /\ ~a5.loop /\ a5.addr = v.addr /\ a5.size = v.size
        /\ a5.state = "IDLE"
    BY Zenon, <1>1, <2>1 DEF FlashRec, SamePages, b
  <2> HIDE DEF a5, Goal
  <2> QED BY <1>6, <1>7, <2>2
<1>11. t.cmd = "WNVCR" => Goal(a6)
  <2> SUFFICES ASSUME t.cmd = "WNVCR" PROVE Goal(a6)
    OBVIOUS
  <2> DEFINE b == <<t.args[1], t.args[2]>>
  <2>1. b \in Byte \X Byte
    BY <1>0, <1>2, <1>3 DEF Collected, NeedEnable
  <2>2. a6 = [v EXCEPT !.nv = b]
    OBVIOUS
  <2> HIDE DEF b
  <2>3. a6 \in FlashRec /\ SamePages(v, a6) /\ ~a6.loop /\ a6.addr = v.addr /\ a6.size = v.size
        /\ a6.state = "IDLE"
    BY Zenon, <1>1, <2>1, <2>2 DEF FlashRec, SamePages
  <2> HIDE DEF a6, Goal
  <2> QED BY <1>6, <1>7, <2>3
<1>12. t.cmd = "WVCR" => Goal(a7)
  <2> SUFFICES ASSUME t.cmd = "WVCR" PROVE Goal(a7)
    OBVIOUS
  <2>1. t.args[1] \in Byte
    BY <1>0, <1>2, <1>3 DEF Collected, NeedEnable
  <2>2. a7 \in FlashRec /\ SamePages(v, a7) /\ ~a7.loop /\ a7.addr = v.addr /\ a7.size = v.size
        /\ a7.state = "IDLE"
    BY <1>1, <2>1 DEF FlashRec, SamePages
  <2> HIDE DEF a7, Goal
  <2> QED BY <1>6, <1>7, <2>2
<1>13. Goal(v)
  BY <1>1
<1> HIDE DEF Goal
<1>14. Programs \union Reads \union FastReads \union Erases = Addressed
  BY DEF Addressed
<1>15. Goal(u)
  BY <1>5, <1>8, <1>9, <1>10, <1>11, <1>12, <1>13, <1>14
<1> QED BY <1>15 DEF Goal
-----------------------------------------------------------------------------
(* One lemma per byte on the wire *)

\* A step that leaves the storage and the file alone.
LEMMA OnlyCommand ==
  ASSUME IInv, NEW u, Good(u), SamePages(s, u), s' = u, UNCHANGED <<storage, file, gap, overrun>>
  PROVE  Good(s)' /\ Disk' /\ gap' \in BOOLEAN
<1>1. s'.size = s.size /\ s'.dirty = s.dirty
  BY DEF SamePages
<1>2. storage' \in [0 .. s.size - 1 -> Byte] /\ Disk
  BY DEF IInv, Disk
<1>3. Disk'
  BY <1>1, <1>2, NoSync
<1>4. gap' \in BOOLEAN
  BY DEF IInv
<1>5. Good(s)'
  BY DEF Good, Collected
<1> QED BY <1>3, <1>4, <1>5

LEMMA EraseGap ==
  ASSUME gap \in BOOLEAN, NEW off, NEW len, flash_erase(off, len)
  PROVE  gap' \in BOOLEAN
<1>1. CASE s.write_enable
  BY <1>1, Zenon DEF flash_erase
<1>2. CASE ~s.write_enable
  BY <1>2, Zenon DEF flash_erase
<1> QED BY <1>1, <1>2

LEMMA DecodeStep ==
  ASSUME IInv, NEW cmd \in Commands, Decode(cmd)
  PROVE  Good(s)' /\ Disk' /\ gap' \in BOOLEAN
<1>1. cmd \in FlashCMD
  BY FlashAssumption
<1>2. s.state = "IDLE" /\ s' = decode_new_cmd(cmd) /\ Good(s) /\ Disk /\ gap \in BOOLEAN
  BY DEF Decode, IInv
<1>3. Good(decode_new_cmd(cmd)) /\ SamePages(s, decode_new_cmd(cmd))
  BY <1>1, <1>2, DecodeGood
<1>4. CASE cmd # "BULK_ERASE"
  <2>1. UNCHANGED <<storage, file, gap, overrun>>
    BY <1>4 DEF Decode
  <2> QED BY <1>2, <1>3, <2>1, OnlyCommand
<1>5. CASE cmd = "BULK_ERASE"
  <2>1. flash_erase(0, Size)
    BY <1>5 DEF Decode
  <2>2. s.size \in Nat /\ Size = s.size /\ s'.size = s.size /\ s'.dirty = s.dirty
    BY <1>2, <1>3, SizeFacts DEF Size, SamePages
  <2>3. Disk'
    BY <1>2, <2>1, <2>2, EraseKeeps
  <2>4. gap' \in BOOLEAN
    BY <1>2, <2>1, EraseGap
  <2>5. Good(s)'
    BY <1>2, <1>3 DEF Good, Collected
  <2> QED BY <2>3, <2>4, <2>5
<1> QED BY <1>4, <1>5

\* The buffer with one more byte.
LEMMA AppendGood ==
  ASSUME Good(s), s.state = "COLLECTING_DATA", s.len < BufSize, NEW byte \in Byte,
         NEW t, t = [s EXCEPT !.args = Append(@, byte), !.len = @ + 1]
  PROVE  Good(t) /\ SamePages(s, t) /\ t.state = "COLLECTING_DATA" /\ ~t.loop
<1> DEFINE more == Append(s.args, byte)
           len == s.len + 1
<1>0. s \in FlashRec /\ ~s.loop /\ Collected(s)
  BY DEF Good
<1>1. /\ s.args \in Seq(Byte) /\ more \in Seq(Byte) /\ Len(more) = Len(s.args) + 1
      /\ s.len \in Nat /\ len \in 0 .. BufSize
  <2>1. s.args \in Seq(Byte) /\ s.len \in 0 .. BufSize /\ BufSize \in Nat
    BY <1>0, FlashAssumption DEF FlashRec
  <2>2. len \in 0 .. BufSize /\ s.len \in Nat
    BY <2>1
  <2>3. more \in Seq(Byte) /\ Len(more) = Len(s.args) + 1
    BY <2>1
  <2> QED BY <2>1, <2>2, <2>3
<1>2. t = [s EXCEPT !.args = more, !.len = len]
  OBVIOUS
<1> HIDE DEF more, len
<1>3. /\ t \in FlashRec /\ SamePages(s, t) /\ t.state = s.state /\ t.loop = s.loop
      /\ t.addr = s.addr /\ t.cmd = s.cmd /\ t.needed = s.needed /\ t.long = s.long
      /\ t.args = more /\ t.len = len
  <2> DEFINE v == [s EXCEPT !.args = more]
  <2>1. t = [v EXCEPT !.len = len]
    BY Zenon, <1>2
  <2>2. /\ v \in FlashRec /\ v.size = s.size /\ v.dirty = s.dirty /\ v.state = s.state
        /\ v.loop = s.loop /\ v.addr = s.addr /\ v.cmd = s.cmd /\ v.needed = s.needed
        /\ v.long = s.long /\ v.args = more
    BY Zenon, <1>0, <1>1 DEF FlashRec
  <2> HIDE DEF v
  <2> QED BY Zenon, <1>1, <2>1, <2>2 DEF FlashRec, SamePages
<1>4. Collected(t)
  BY <1>0, <1>1, <1>3 DEF Collected, len
<1>5. Good(t)
  BY <1>0, <1>3, <1>4 DEF Good, SamePages
<1> QED BY <1>0, <1>3, <1>5

\* The buffer is given up.
LEMMA GiveUpGood ==
  ASSUME NEW t, Good(t), ~t.loop
  PROVE  /\ Good([Idle(t) EXCEPT !.len = 0, !.pos = 0])
         /\ SamePages(t, [Idle(t) EXCEPT !.len = 0, !.pos = 0])
<1> DEFINE v == Idle(t)
           u == [v EXCEPT !.len = 0, !.pos = 0]
<1>1. /\ Good(v) /\ SamePages(t, v) /\ v.state = "IDLE" /\ ~v.loop /\ v \in FlashRec
  BY IdleGood
<1>2. 0 \in 0 .. BufSize
  BY FlashAssumption
<1> HIDE DEF v
<1>3. /\ u \in FlashRec /\ u.state = "IDLE" /\ ~u.loop /\ SamePages(v, u)
      /\ u.addr = v.addr
  BY Zenon, <1>1, <1>2 DEF FlashRec, SamePages
<1> HIDE DEF u
<1>4. u.addr < u.size
  BY <1>1, <1>3 DEF Good, SamePages
<1>5. Good(u)
  BY <1>1, <1>3, <1>4, QuietGood
<1>6. SamePages(t, u)
  BY <1>1, <1>3 DEF SamePages
<1> QED BY <1>5, <1>6 DEF u, v

LEMMA CollectStep ==
  ASSUME IInv, NEW byte \in Byte, CollectByte(byte)
  PROVE  Good(s)' /\ Disk' /\ gap' \in BOOLEAN
<1> DEFINE t == [s EXCEPT !.args = Append(@, byte), !.len = @ + 1]
           done == complete_collecting_data(t)
           over == [Idle(s) EXCEPT !.len = 0, !.pos = 0]
<1>1. Good(s) /\ Disk /\ gap \in BOOLEAN /\ s.state = "COLLECTING_DATA" /\ s \in FlashRec
  BY DEF IInv, CollectByte, Good
<1>2. ~s.loop /\ s.len \in Nat
  BY <1>1 DEF Good, FlashRec
<1>3. CASE s.len >= BufSize
  <2>1. s' = over /\ UNCHANGED <<storage, file, gap, overrun>>
    BY <1>3 DEF CollectByte
  <2>2. Good(over) /\ SamePages(s, over)
    BY Zenon, <1>1, <1>2, GiveUpGood
  <2> HIDE DEF over
  <2> QED BY <2>1, <2>2, OnlyCommand
<1>4. CASE ~(s.len >= BufSize)
  <2>1. s.len < BufSize
    BY <1>2, <1>4, FlashAssumption
  <2>2. Good(t) /\ SamePages(s, t) /\ t.state = "COLLECTING_DATA" /\ ~t.loop
    BY Zenon, <1>1, <2>1, AppendGood
  <2>3. \/ t.len # t.needed /\ s' = t /\ UNCHANGED <<storage, file, gap, overrun>>
        \/ t.len = t.needed /\ t.cmd \in Erases /\ s' = Idle(done)
           /\ flash_erase(done.addr, SectorSize)
        \/ t.len = t.needed /\ s' = done /\ UNCHANGED <<storage, file, gap, overrun>>
    BY <1>4 DEF CollectByte
  <2> HIDE DEF t
  <2>4. t.len = t.needed => /\ Good(done) /\ SamePages(t, done)
                            /\ t.cmd \in Erases => ~done.loop
    <3>1. s.size = t.size
      BY <2>2 DEF SamePages
    <3> QED BY <2>2, <3>1, CompleteGood
  <2> HIDE DEF done
  <2>5. CASE t.len # t.needed /\ s' = t /\ UNCHANGED <<storage, file, gap, overrun>>
    BY <2>2, <2>5, OnlyCommand
  <2>6. CASE t.len = t.needed /\ s' = done /\ UNCHANGED <<storage, file, gap, overrun>>
    <3>1. Good(done) /\ SamePages(s, done)
      BY <2>2, <2>4, <2>6 DEF SamePages
    <3> QED BY <2>6, <3>1, OnlyCommand
  <2>7. CASE t.len = t.needed /\ t.cmd \in Erases /\ s' = Idle(done)
             /\ flash_erase(done.addr, SectorSize)
    <3>1. Good(done) /\ SamePages(s, done) /\ ~done.loop
      BY <2>2, <2>4, <2>7 DEF SamePages
    <3>2. Good(Idle(done)) /\ SamePages(done, Idle(done))
      BY <3>1, IdleGood
    <3>3. s'.size = s.size /\ s'.dirty = s.dirty
      BY <2>7, <3>1, <3>2 DEF SamePages
    <3>4. done.addr \in Nat /\ SectorSize \in Nat /\ s.size \in Nat
      BY <1>1, <3>1, SizeFacts, FlashAssumption DEF Good, FlashRec
    <3>5. Disk'
      BY <1>1, <2>7, <3>3, <3>4, EraseKeeps
    <3>6. gap' \in BOOLEAN
      BY <1>1, <2>7, EraseGap
    <3>7. Good(s)'
      BY <2>7, <3>2 DEF Good, Collected
    <3> QED BY <3>5, <3>6, <3>7
  <2> QED BY <2>3, <2>5, <2>6, <2>7
<1> QED BY <1>3, <1>4

LEMMA AnswerStep ==
  ASSUME IInv, AnswerByte
  PROVE  Good(s)' /\ Disk' /\ gap' \in BOOLEAN
<1>1. /\ Good(s) /\ s \in FlashRec /\ s.state = "READING_DATA" /\ s.pos < s.len
      /\ s.pos \in Nat /\ s.len \in 0 .. BufSize /\ BufSize \in Nat
      /\ UNCHANGED <<storage, file, gap, overrun>>
  BY FlashAssumption DEF IInv, AnswerByte, Good, FlashRec
<1> DEFINE p == s.pos + 1
           on == [s EXCEPT !.pos = p]
           again == [s EXCEPT !.pos = 0]
           over == [Idle(s) EXCEPT !.pos = 0]
<1>2. CASE s.pos + 1 # s.len
  <2>1. s' = on
    BY <1>1, <1>2 DEF AnswerByte
  <2>0. p \in Nat
    BY <1>1
  <2> HIDE DEF p
  <2>2. /\ on \in FlashRec /\ SamePages(s, on) /\ on.state = "READING_DATA"
        /\ on.pos = p /\ on.len = s.len /\ on.addr = s.addr
    BY Zenon, <1>1, <2>0 DEF FlashRec, SamePages
  <2> HIDE DEF on
  <2>3. Good(on)
    BY <1>1, <1>2, <2>2 DEF Good, SamePages, p
  <2> QED BY <1>1, <2>1, <2>2, <2>3, OnlyCommand
<1>3. CASE s.pos + 1 = s.len /\ s.loop
  <2>1. s' = again
    BY <1>1, <1>3 DEF AnswerByte
  <2>2. /\ again \in FlashRec /\ SamePages(s, again) /\ again.state = "READING_DATA"
        /\ again.pos = 0 /\ again.len = s.len /\ again.addr = s.addr
    BY Zenon, <1>1 DEF FlashRec, SamePages
  <2> HIDE DEF again
  <2>3. Good(again)
    BY <1>1, <1>3, <2>2 DEF Good, SamePages
  <2> QED BY <1>1, <2>1, <2>2, <2>3, OnlyCommand
<1>4. CASE s.pos + 1 = s.len /\ ~s.loop
  <2>1. s' = over
    BY <1>1, <1>4 DEF AnswerByte
  <2> DEFINE v == Idle(s)
  <2>2. /\ Good(v) /\ SamePages(s, v) /\ v.state = "IDLE" /\ ~v.loop /\ v \in FlashRec
    BY <1>1, <1>4, IdleGood
  <2> HIDE DEF v
  <2>3. over = [v EXCEPT !.pos = 0]
    BY DEF v
  <2> HIDE DEF over
  <2>4. over \in FlashRec /\ SamePages(v, over) /\ over.state = "IDLE" /\ ~over.loop
        /\ over.addr = v.addr
    BY Zenon, <2>2, <2>3 DEF FlashRec, SamePages
  <2>5. over.addr < over.size /\ SamePages(s, over)
    BY <2>2, <2>4 DEF Good, SamePages
  <2>6. Good(over)
    BY <2>2, <2>4, <2>5, QuietGood
  <2> QED BY <1>1, <2>1, <2>5, <2>6, OnlyCommand
<1> QED BY <1>2, <1>3, <1>4

\* The address wraps around at the end of the part.
LEMMA NextAddr ==
  ASSUME Good(s)
  PROVE  (s.addr + 1) % s.size \in 0 .. s.size - 1
<1>1. s.addr + 1 \in Int /\ s.size \in Nat \ {0}
  BY DEF Good, FlashRec
<1> QED BY Zenon, <1>1, Remainder

LEMMA ReadStep ==
  ASSUME IInv, ReadByte
  PROVE  Good(s)' /\ Disk' /\ gap' \in BOOLEAN
<1> DEFINE a == (s.addr + 1) % s.size
           u == [s EXCEPT !.addr = a]
<1>1. Good(s) /\ s \in FlashRec /\ s.state = "READ" /\ ~s.loop /\ UNCHANGED <<storage, file, gap, overrun>>
  BY DEF IInv, ReadByte, Good
<1>2. s' = u
  BY DEF ReadByte, Size
<1>3. a \in 0 .. s.size - 1 /\ s.size \in Nat
  BY <1>1, NextAddr DEF FlashRec
<1> HIDE DEF a
<1>4. u \in FlashRec /\ SamePages(s, u) /\ ~u.loop /\ u.addr = a /\ u.state = "READ"
  <2>1. a \in Nat
    BY <1>3
  <2> QED BY Zenon, <1>1, <2>1 DEF FlashRec, SamePages
<1>5. u.addr < u.size
  BY <1>3, <1>4 DEF SamePages
<1> HIDE DEF u
<1>6. Good(u)
  BY <1>1, <1>4, <1>5, QuietGood
<1> QED BY <1>1, <1>2, <1>4, <1>6, OnlyCommand

LEMMA ProgramStep ==
  ASSUME IInv, NEW byte \in Byte, PageProgram(byte)
  PROVE  Good(s)' /\ Disk' /\ gap' \in BOOLEAN
<1> DEFINE a == (s.addr + 1) % s.size
           page == s.addr \div PageSize
           u == [s EXCEPT !.dirty = page, !.addr = a]
<1>1. Good(s) /\ Disk /\ gap \in BOOLEAN /\ s \in FlashRec /\ s.state = "PAGE_PROGRAM" /\ ~s.loop
  BY DEF IInv, PageProgram, Good
<1>2. /\ storage' = [storage EXCEPT ![s.addr] = IF byte = 0 THEN 0 ELSE @]
      /\ file' = flash_sync_dirty(file, storage', s.dirty, page)
      /\ gap' = (gap \/ SyncsPastEnd(file, s.dirty, page))
      /\ s' = u /\ UNCHANGED overrun
  BY DEF PageProgram, flash_write8, Size
<1>3. /\ s.size \in Nat \ {0} /\ s.size % PageSize = 0 /\ PageSize \in Nat \ {0}
      /\ s.addr \in 0 .. s.size - 1 /\ a \in 0 .. s.size - 1
  BY <1>1, SizeFacts, NextAddr DEF Good, FlashRec
<1>4. page \in Nat /\ page * PageSize + PageSize <= s.size
  <2>1. s.addr \in Nat /\ 0 \in Int /\ s.size \in Nat
    BY <1>3
  <2>2. page \in Nat
    BY Zenon, <1>3, <2>1, PageOf
  <2> QED BY Zenon, <1>3, <2>1, <2>2, WholePages
<1>5. /\ storage' \in [0 .. s.size - 1 -> Byte]
      /\ \A b \in 0 .. s.size - 1 : b # s.addr => storage'[b] = storage[b]
  <2>1. storage \in [0 .. s.size - 1 -> Byte]
    BY <1>1 DEF Disk
  <2>2. 0 \in Byte /\ storage[s.addr] \in Byte
    BY <1>3, <2>1 DEF Byte
  <2>3. (IF byte = 0 THEN 0 ELSE storage[s.addr]) \in Byte
    BY <2>2
  <2> QED BY Zenon, <1>2, <2>1, <2>3
<1>6. \A b \in 0 .. s.size - 1 : b \div PageSize # page => storage'[b] = storage[b]
  BY <1>5
<1> HIDE DEF a, page
<1>7. /\ u \in FlashRec /\ u.size = s.size /\ u.dirty = page /\ ~u.loop /\ u.addr = a
      /\ u.state = "PAGE_PROGRAM"
  <2>1. a \in Nat /\ page \in Int
    BY <1>3, <1>4
  <2> QED BY Zenon, <1>1, <2>1 DEF FlashRec
<1> HIDE DEF u
<1>8. Good(u)
  BY <1>3, <1>4, <1>7 DEF Good
<1>9. Good(s)'
  BY <1>2, <1>8 DEF Good, Collected
<1>10. Disk'
  <2>1. s'.size = s.size /\ s'.dirty = page
    BY <1>2, <1>7
  <2> QED BY <1>1, <1>2, <1>5, <1>6, <2>1, DirtyKeeps
<1>11. gap' \in BOOLEAN
  BY <1>1, <1>2, Zenon
<1> QED BY <1>9, <1>10, <1>11

LEMMA TransferStep ==
  ASSUME IInv, m25p80_transfer8
  PROVE  IInv'
<1>1. selected /\ selected' = selected
  BY DEF m25p80_transfer8
<1>2. Good(s)' /\ Disk' /\ gap' \in BOOLEAN
  BY DecodeStep, ProgramStep, CollectStep, ReadStep, AnswerStep DEF m25p80_transfer8
<1> QED BY <1>1, <1>2 DEF IInv, Deselected

-----------------------------------------------------------------------------
(* Deselecting, and starting again *)

LEMMA DeselectStep ==
  ASSUME IInv, NEW select \in BOOLEAN, xlnx_spi_update_cs(select)
  PROVE  IInv'
<1> DEFINE v == Idle(s)
           u == [v EXCEPT !.len = 0, !.pos = 0, !.loop = FALSE, !.dirty = None]
<1>1. Good(s) /\ Disk /\ gap \in BOOLEAN /\ s \in FlashRec /\ s.size \in Nat \ {0}
  BY DEF IInv, Good, FlashRec
<1>2. /\ s' = u /\ selected' = select /\ storage' = storage /\ UNCHANGED overrun
      /\ file' = flash_sync_dirty(file, storage', s.dirty, None)
      /\ gap' = (gap \/ SyncsPastEnd(file, s.dirty, None))
  BY DEF xlnx_spi_update_cs, m25p80_cs
<1>3. v \in FlashRec /\ v.size = s.size /\ v.addr = 0 /\ v.state = "IDLE"
  <2>1. "IDLE" \in CMDState /\ "NOP" \in FlashCMD /\ <<>> \in Seq(Byte)
    BY DEF CMDState, FlashCMD
  <2> QED BY Zenon, <1>1, <2>1 DEF FlashRec, Idle
<1>4. 0 \in 0 .. BufSize /\ None \in Int
  BY FlashAssumption DEF None
<1> HIDE DEF v
<1>5. /\ u \in FlashRec /\ u.size = s.size /\ u.addr = 0 /\ u.state = "IDLE"
      /\ ~u.loop /\ u.dirty = None
  BY Zenon, <1>3, <1>4 DEF FlashRec
<1> HIDE DEF u
<1>6. Good(u)
  BY <1>1, <1>5 DEF Good
<1>7. Good(s)'
  BY <1>2, <1>6 DEF Good, Collected
<1>8. Disk'
  <2>1. s'.size = s.size /\ s'.dirty = None /\ storage' \in [0 .. s.size - 1 -> Byte]
    BY <1>1, <1>2, <1>5 DEF Disk
  <2> QED BY <1>1, <1>2, <2>1, DirtyKeeps
<1>9. gap' \in BOOLEAN
  BY <1>1, <1>2, Zenon
<1>10. Deselected' /\ selected' \in BOOLEAN
  BY <1>2, <1>5 DEF Deselected
<1> QED BY <1>7, <1>8, <1>9, <1>10 DEF IInv

\* A run that starts from a file: its part is the first that holds the file.
LEMMA BootedGood ==
  ASSUME NEW f \in Seq(Byte), NEW i, Fits(i, f)
  PROVE  /\ Good(Booted(f)) /\ Booted(f).size = known_devices(i)
         /\ Booted(f).state = "IDLE" /\ Booted(f).dirty = None
         /\ Len(f) <= known_devices(i)
         /\ Loaded(f, known_devices(i)) \in [0 .. known_devices(i) - 1 -> Byte]
         /\ \A a \in 0 .. known_devices(i) - 1 : Loaded(f, known_devices(i))[a] = Found(f, a)
<1> DEFINE n == known_devices(i)
           u == Booted(f)
<1>1. FirstFit(f) = i
  BY FitsUnique
<1>2. n \in Nat \ {0} /\ Len(f) <= n
  BY PartTypes DEF Fits
<1>3. /\ "IDLE" \in CMDState /\ "NOP" \in FlashCMD /\ <<>> \in Seq(Byte) /\ 0 \in 0 .. BufSize
      /\ <<0, 0>> \in Byte \X Byte /\ 0 \in Byte /\ None \in Int
  BY FlashAssumption DEF CMDState, FlashCMD, Byte, None
<1>4. u = [size |-> n, state |-> "IDLE", cmd |-> "NOP", args |-> <<>>, len |-> 0,
           pos |-> 0, loop |-> FALSE, needed |-> 0, addr |-> 0, nv |-> <<0, 0>>, dummy |-> 0,
           write_enable |-> FALSE, long |-> FALSE, reset_enable |-> FALSE, ear |-> 0,
           dirty |-> None]
  BY <1>1, Zenon DEF Booted
<1> HIDE DEF u, n
<1>5. /\ u \in FlashRec /\ u.size = n /\ u.addr = 0 /\ u.state = "IDLE"
      /\ ~u.loop /\ u.dirty = None
  <2>1. 0 \in Nat /\ 0 \in Int /\ FALSE \in BOOLEAN
    OBVIOUS
  <2>2. u \in FlashRec
    BY Zenon, <1>2, <1>3, <1>4, <2>1 DEF FlashRec
  <2> QED BY Zenon, <1>4, <2>2
<1>6. Good(u)
  BY <1>2, <1>5 DEF Good
<1>7. /\ Loaded(f, n) \in [0 .. n - 1 -> Byte]
      /\ \A a \in 0 .. n - 1 : Loaded(f, n)[a] = Found(f, a)
  <2>1. \A a \in 0 .. n - 1 : Found(f, a) \in Byte
    <3>1. 1 \in Byte /\ \A k \in 1 .. Len(f) : f[k] \in Byte
      BY DEF Byte
    <3>2. \A a \in 0 .. n - 1 : a < Len(f) => a + 1 \in 1 .. Len(f)
      BY <1>2
    <3> QED BY <3>1, <3>2 DEF Found
  <2>2. Loaded(f, n) = [a \in 0 .. n - 1 |-> Found(f, a)]
    BY DEF Loaded, Found
  <2> QED BY <2>1, <2>2
<1> QED BY <1>2, <1>5, <1>6, <1>7 DEF u, n

LEMMA BootStep ==
  ASSUME IInv, flash_init
  PROVE  /\ IInv'
         /\ ~overrun => s'.size = s.size /\ panicked' = panicked
<1>1. file \in Seq(Byte) /\ gap \in BOOLEAN
  BY DEF IInv, Disk
<1>2. CASE \E i \in DOMAIN Parts : Len(file) <= known_devices(i)
  <2>1. PICK i : Fits(i, file)
    BY <1>1, <1>2, FitsExists
  <2> DEFINE n == known_devices(i)
  <2>2. /\ s' = Booted(file) /\ storage' = Loaded(file, s'.size) /\ ~selected' /\ ~overrun'
        /\ selected' \in BOOLEAN /\ gap' \in BOOLEAN /\ overrun' \in BOOLEAN
        /\ UNCHANGED <<file, panicked>>
    BY Zenon, <1>2 DEF flash_init
  <2>3. /\ Good(Booted(file)) /\ Booted(file).size = n
        /\ Booted(file).state = "IDLE" /\ Booted(file).dirty = None
        /\ Len(file) <= n
        /\ Loaded(file, n) \in [0 .. n - 1 -> Byte]
        /\ \A a \in 0 .. n - 1 : Loaded(file, n)[a] = Found(file, a)
    BY <1>1, <2>1, BootedGood
  <2>4. s'.size = n /\ i \in DOMAIN Parts
    BY <2>1, <2>2, <2>3 DEF Fits
  <2>5. Good(s)'
    BY <2>2, <2>3 DEF Good, Collected
  <2> HIDE DEF n
  <2>6. Synced'
    BY <2>2, <2>3, <2>4 DEF Synced, Found
  <2>7. /\ storage' \in [0 .. s'.size - 1 -> Byte] /\ file' \in Seq(Byte)
        /\ Len(file') <= s'.size
    BY <1>1, <2>2, <2>3, <2>4
  <2>8. Fits(i, file')
    BY <2>1, <2>2 DEF Fits
  <2>9. Disk'
    BY Zenon, <2>2, <2>4, <2>6, <2>7, <2>8 DEF Disk, Fits, known_devices, n
  <2>10. IInv'
    BY <2>2, <2>3, <2>5, <2>9 DEF IInv, Deselected
  <2>11. ASSUME ~overrun PROVE s'.size = s.size
    <3>1. PICK k : Fits(k, file) /\ s.size = known_devices(k)
      BY <2>11 DEF IInv, Disk
    <3>2. FirstFit(file) = k /\ FirstFit(file) = i
      BY <1>1, <2>1, <3>1, FitsUnique
    <3> QED BY <2>4, <3>1, <3>2 DEF n
  <2> QED BY <2>2, <2>10, <2>11
<1>3. CASE ~\E i \in DOMAIN Parts : Len(file) <= known_devices(i)
  <2>1. UNCHANGED <<s, storage, file, selected, gap, overrun>>
    BY <1>3 DEF flash_init
  <2>2. IInv'
    BY <2>1 DEF IInv, Good, Collected, Disk, Synced, Deselected
  <2>3. overrun
    <3> SUFFICES ASSUME ~overrun PROVE FALSE
      OBVIOUS
    <3>1. PICK k : Fits(k, file)
      BY DEF IInv, Disk
    <3> QED BY <1>3, <3>1 DEF Fits
  <2> QED BY <2>2, <2>3
<1> QED BY <1>2, <1>3

LEMMA InitIInv == Init => IInv
<1> SUFFICES ASSUME Init PROVE IInv
  OBVIOUS
<1>1. file \in Seq(Byte) /\ \E i \in DOMAIN Parts : Len(file) <= known_devices(i)
  BY FlashAssumption DEF Init, known_devices
<1>2. PICK i : Fits(i, file)
  BY <1>1, FitsExists
<1> DEFINE n == known_devices(i)
<1>3. /\ Good(Booted(file)) /\ Booted(file).size = n
      /\ Booted(file).state = "IDLE" /\ Booted(file).dirty = None
      /\ Len(file) <= n /\ Loaded(file, n) \in [0 .. n - 1 -> Byte]
      /\ \A a \in 0 .. n - 1 : Loaded(file, n)[a] = Found(file, a)
  BY <1>1, <1>2, BootedGood
<1>4. /\ s = Booted(file) /\ storage = Loaded(file, s.size) /\ ~selected /\ ~gap
      /\ selected \in BOOLEAN /\ gap \in BOOLEAN /\ overrun \in BOOLEAN
  BY Zenon DEF Init
<1> HIDE DEF n
<1>5. Synced
  BY <1>3, <1>4 DEF Synced
<1>6. i \in DOMAIN Parts /\ s.size = n
  BY <1>2, <1>3, <1>4 DEF Fits
<1>7. Disk
  BY <1>1, <1>2, <1>3, <1>4, <1>5, <1>6 DEF Disk, n
<1> QED BY <1>3, <1>4, <1>7 DEF IInv, Deselected

LEMMA NextIInv == IInv /\ [Next]_vars => IInv'
<1> SUFFICES ASSUME IInv, [Next]_vars PROVE IInv'
  OBVIOUS
<1>1. CASE m25p80_transfer8
  BY <1>1, TransferStep
<1>2. ASSUME NEW select \in BOOLEAN, xlnx_spi_update_cs(select) PROVE IInv'
  BY <1>2, DeselectStep
<1>3. CASE flash_init
  BY <1>3, BootStep
<1>4. CASE UNCHANGED vars
  BY <1>4 DEF vars, IInv, Good, Collected, Disk, Synced, Deselected
<1> QED BY <1>1, <1>2, <1>3, <1>4 DEF Next

LEMMA IInvAlways == Spec => []IInv
BY InitIInv, NextIInv, PTL DEF Spec

-----------------------------------------------------------------------------
(* Theorems *)

\* No sequence of commands and deselects indexes outside the data buffer, and
\* an answer that is being sent has a byte left (m25p80_transfer8).
THEOREM BufferCorrect == Spec => []BufferUsed
BY IInvAlways, IInvImplies, PTL

\* A run that starts from the image at any moment finds every byte that was
\* programmed or erased, but for those of the one dirty page, as long as no
\* sync has left a hole in the file (flash_sync_dirty, m25p80_cs).
THEOREM DurableCorrect == Spec => []Durable
BY IInvAlways, IInvImplies, PTL

\* However the image has grown, flash_init takes the part it took before: the sync
\* of a page never writes past the end of the part, nor does an erase that stays
\* within it.  A run with an erase over the end is excepted.
THEOREM PartCorrect == Spec => SamePart
<1>1. IInv /\ [Next]_vars =>
        [flash_init /\ ~overrun => s'.size = s.size /\ ~panicked']_vars
  BY BootStep DEF Next
<1> QED BY <1>1, IInvAlways, PTL DEF Spec, SamePart
=============================================================================
