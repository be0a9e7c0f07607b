---------------------------- MODULE DecodeProofs ----------------------------
(***************************************************************************)
(* The cache of decoded instructions executes what is in memory, for every  *)
(* size of the cache and of the program, every program and every machine.   *)
(***************************************************************************)
EXTENDS DecodeCache, TLAPS

-----------------------------------------------------------------------------
(* The inductive invariant *)

\* How far an instruction moves pc on, unless it jumps: without delay slots a
\* likely branch that is not taken skips a word.
Stride(kind, d) == IF kind = "likely" /\ ~d THEN 2 ELSE 1

\* The nodes of a chain were decoded at the addresses at: one after the other,
\* and each is still in memory but for the words in old.
Decoded(at, chain, m, old, d) ==
  /\ at \in Seq(Nat) /\ Len(at) = Len(chain) + 1
  /\ \A k \in 1 .. Len(chain) : /\ at[k] \in Addr
                                /\ at[k + 1] = at[k] + Stride(chain[k], d)
                                /\ chain[k] = m[at[k]] \/ at[k] \in old

Heads == 0 .. CacheSize - 1
Head_ == [pc : Nat, chain : Seq(Kinds)]

CacheRec ==
  [heads : [Heads -> Head_], home : Heads \union {Detached}, pos : Nat, own : Seq(Kinds)]

\* ds points to a node of its chain, or before the first one.
Cache(c) == c \in CacheRec /\ c.pos <= Len(Chain(c))

\* The heads hold what they should; if ds is in the chain of one of them, and on
\* it, the n-th address of that chain is p.
HeadsAt(c, m, old, d, on, n, p) ==
  \A i \in Heads : \E at :
    /\ Decoded(at, c.heads[i].chain, m, old, d)
    /\ at[1] = c.heads[i].pc
    /\ on /\ c.home = i => n \in 1 .. Len(at) /\ at[n] = p

\* The same of a detached ds.
OwnAt(c, m, old, d, n, p) ==
  c.home = Detached => \E at : /\ Decoded(at, c.own, m, old, d)
                               /\ n \in 1 .. Len(at) /\ at[n] = p

Strays == {"no", "own", "chain"}

Types ==
  /\ mem \in [Addr -> Kinds] /\ pc \in Nat /\ br_target \in Nat
  /\ strayed \in Strays
  /\ Cache(dc)

\* What the cache c holds when the memory is m, the history st, dr and sy, and the
\* n-th node of the chain of ds is the next one, for the instruction at p.
Follows(c, m, d, st, dr, sy, n, p) ==
  /\ st \subseteq dr
  /\ sy = "own" => c.home = Detached
  /\ sy = "chain" => c.home # Detached
  /\ sy # "chain" => HeadsAt(c, m, st, d, sy = "no", n, p)
  /\ sy = "no" => OwnAt(c, m, dr, d, n, p)

IInv ==
  /\ Types
  /\ Follows(dc, mem, DELAYSLOT, stored, dirty, strayed, dc.pos + 1, pc)

LEMMA IInvFresh == IInv => FreshOnChain
<1> SUFFICES ASSUME IInv, strayed = "no", pc \in Addr
             PROVE  Executed(dc, mem[pc]) = mem[pc] \/ pc \in dirty
  BY DEF FreshOnChain, Fresh
<1> DEFINE n == dc.pos + 1
<1>0. SUFFICES ASSUME Hit(dc) PROVE Chain(dc)[n] = mem[pc] \/ pc \in dirty
  BY DEF Executed
<1>1. dc.pos \in Nat /\ dc.home \in Heads \union {Detached} /\ dc.heads \in [Heads -> Head_]
      /\ dc.own \in Seq(Kinds)
  BY DEF IInv, Types, Cache, CacheRec
<1>2. PICK at, old : /\ Decoded(at, Chain(dc), mem, old, DELAYSLOT)
                     /\ at[n] = pc /\ old \subseteq dirty
  <2>1. CASE dc.home = Detached
    BY <2>1 DEF IInv, Follows, OwnAt, Chain
  <2>2. CASE dc.home # Detached
    BY <1>1, <2>2 DEF IInv, Follows, HeadsAt, Chain
  <2> QED BY <2>1, <2>2
<1>3. Len(Chain(dc)) \in Nat
  <2>1. CASE dc.home = Detached
    BY <1>1, <2>1 DEF Chain
  <2>2. CASE dc.home # Detached
    BY <1>1, <2>2 DEF Chain, Head_
  <2> QED BY <2>1, <2>2
<1>4. n \in 1 .. Len(Chain(dc))
  BY <1>0, <1>1, <1>3 DEF Hit
<1> QED BY <1>2, <1>4 DEF Decoded

-----------------------------------------------------------------------------
(* The operations on the cache *)

LEMMA ChainType ==
  ASSUME NEW c \in CacheRec
  PROVE  Chain(c) \in Seq(Kinds) /\ Len(Chain(c)) \in Nat
<1>1. CASE c.home = Detached
  BY <1>1 DEF Chain, CacheRec
<1>2. CASE c.home # Detached
  <2>1. c.home \in Heads /\ c.heads[c.home] \in Head_
    BY <1>2 DEF CacheRec
  <2> QED BY <1>2, <2>1 DEF Chain, Head_
<1> QED BY <1>1, <1>2

\* decode_cache_fetch: ds is before the first node of the head of p.
LEMMA FetchType ==
  ASSUME NEW c, c \in CacheRec, NEW p, p \in Nat
  PROVE  LET f == decode_cache_fetch(c, p)
         IN  /\ Cache(f) /\ f.home \in Heads /\ f.home # Detached /\ f.pos = 0
             /\ f.heads[f.home].pc = p
             /\ \A j \in Heads : \/ f.heads[j] = c.heads[j]
                                 \/ f.heads[j] = [pc |-> p, chain |-> <<>>]
<1> DEFINE i == decode_cache_index(p)
           heads == IF c.heads[i].pc = p THEN c.heads
                    ELSE [c.heads EXCEPT ![i] = [pc |-> p, chain |-> <<>>]]
           u == decode_cache_fetch(c, p)
<1>1. i \in Heads /\ i # Detached
  BY DecodeAssumption DEF decode_cache_index, Heads, Detached
<1>2. u = [heads |-> heads, home |-> i, pos |-> 0, own |-> <<>>]
  BY DEF decode_cache_fetch
<1>3. c.heads \in [Heads -> Head_]
  BY DEF CacheRec
<1>4. [pc |-> p, chain |-> <<>>] \in Head_
  BY DEF Head_
<1>5. /\ heads \in [Heads -> Head_] /\ heads[i].pc = p
      /\ \A j \in Heads : heads[j] = c.heads[j] \/ heads[j] = [pc |-> p, chain |-> <<>>]
  BY <1>1, <1>3, <1>4
<1> HIDE DEF heads, i
<1>6. u \in CacheRec /\ u.home = i /\ u.pos = 0 /\ u.heads = heads
  BY <1>1, <1>2, <1>5 DEF CacheRec
<1> HIDE DEF u
<1>7. Cache(u)
  BY <1>6, ChainType DEF Cache, CacheRec
<1>8. u.heads[u.home].pc = p /\ u.home \in Heads /\ u.home # Detached
  BY <1>1, <1>5, <1>6
<1>9. \A j \in Heads : u.heads[j] = c.heads[j] \/ u.heads[j] = [pc |-> p, chain |-> <<>>]
  BY <1>5, <1>6
<1> QED BY <1>6, <1>7, <1>8, <1>9 DEF u

LEMMA FetchHead ==
  ASSUME NEW c, c \in CacheRec, NEW p, p \in Nat, NEW m, NEW old, NEW d,
         HeadsAt(c, m, old, d, FALSE, 1, p)
  PROVE  HeadsAt(decode_cache_fetch(c, p), m, old, d, TRUE, 1, p)
<1> DEFINE u == decode_cache_fetch(c, p)
           heads == u.heads
<1>3. c.heads \in [Heads -> Head_]
  BY DEF CacheRec
<1>5. \A j \in Heads : heads[j] = c.heads[j] \/ heads[j] = [pc |-> p, chain |-> <<>>]
  BY FetchType
<1>6. heads[u.home].pc = p
  BY Zenon, FetchType
<1> HIDE DEF u, heads
<1>8. ASSUME NEW j \in Heads
      PROVE  \E at : /\ Decoded(at, heads[j].chain, m, old, d) /\ at[1] = heads[j].pc
                     /\ 1 \in 1 .. Len(at)
  <2>1. CASE heads[j] = c.heads[j]
    <3>1. PICK at : Decoded(at, c.heads[j].chain, m, old, d) /\ at[1] = c.heads[j].pc
      BY DEF HeadsAt
    <3>2. Len(c.heads[j].chain) \in Nat
      BY <1>3 DEF Head_
    <3>3. 1 \in 1 .. Len(at)
      BY <3>1, <3>2 DEF Decoded
    <3> QED BY <2>1, <3>1, <3>3
  <2>2. CASE heads[j] = [pc |-> p, chain |-> <<>>]
    <3> DEFINE at == <<p>>
    <3>1. at \in Seq(Nat) /\ Len(at) = 1 /\ at[1] = p /\ Len(<<>>) = 0
      OBVIOUS
    <3>2. heads[j].chain = <<>> /\ heads[j].pc = p
      BY <2>2
    <3> HIDE DEF at
    <3>3. Decoded(at, heads[j].chain, m, old, d)
      BY <3>1, <3>2 DEF Decoded
    <3> QED BY <3>1, <3>2, <3>3
  <2> QED BY <1>5, <2>1, <2>2
<1>9. HeadsAt(u, m, old, d, TRUE, 1, p)
  BY <1>6, <1>8 DEF HeadsAt, heads
<1> QED BY Zenon, <1>9 DEF u

\* clear_decode_cache: the heads are empty; ds keeps its chain.
LEMMA ClearHeads ==
  ASSUME NEW c, Cache(c), NEW m, NEW d, NEW n, NEW p
  PROVE  /\ Cache(clear_decode_cache(c)) /\ clear_decode_cache(c) \in CacheRec
         /\ HeadsAt(clear_decode_cache(c), m, {}, d, FALSE, n, p)
         /\ clear_decode_cache(c).pos = c.pos
         /\ c.pos # 0 => /\ clear_decode_cache(c).home = Detached
                         /\ clear_decode_cache(c).own = Chain(c)
<1> DEFINE heads == [i \in DOMAIN c.heads |-> [c.heads[i] EXCEPT !.chain = <<>>]]
           u == clear_decode_cache(c)
<1>1. /\ c \in CacheRec /\ c.heads \in [Heads -> Head_] /\ c.pos \in Nat
      /\ c.pos <= Len(Chain(c)) /\ Chain(c) \in Seq(Kinds)
  BY ChainType DEF Cache, CacheRec
<1>2. /\ heads \in [Heads -> Head_]
      /\ \A i \in Heads : heads[i].chain = <<>> /\ heads[i].pc \in Nat
  <2> DEFINE Emptied(i) == [c.heads[i] EXCEPT !.chain = <<>>]
  <2>1. ASSUME NEW i \in Heads
        PROVE  Emptied(i) \in Head_ /\ Emptied(i).chain = <<>> /\ Emptied(i).pc \in Nat
    <3>1. c.heads[i] \in Head_ /\ <<>> \in Seq(Kinds)
      BY <1>1
    <3> QED BY Zenon, <3>1 DEF Head_
  <2>2. heads = [i \in Heads |-> Emptied(i)]
    BY <1>1
  <2> HIDE DEF Emptied, heads
  <2> QED BY <2>1, <2>2
<1>3. u = IF c.pos = 0 THEN [c EXCEPT !.heads = heads]
          ELSE [heads |-> heads, home |-> Detached, pos |-> c.pos, own |-> Chain(c)]
  BY DEF clear_decode_cache
<1> HIDE DEF heads
<1>4. /\ u \in CacheRec /\ u.heads = heads /\ u.pos = c.pos
      /\ c.pos # 0 => u.home = Detached /\ u.own = Chain(c)
  BY <1>1, <1>2, <1>3 DEF CacheRec
<1> HIDE DEF u
<1>5. Cache(u)
  <2>1. CASE c.pos = 0
    BY <1>4, <2>1, ChainType DEF Cache, CacheRec
  <2>2. CASE c.pos # 0
    BY <1>1, <1>4, <2>2 DEF Cache, CacheRec, Chain
  <2> QED BY <2>1, <2>2
<1>6. ASSUME NEW i \in Heads
      PROVE  \E at : Decoded(at, heads[i].chain, m, {}, d) /\ at[1] = heads[i].pc
  <2> DEFINE at == <<heads[i].pc>>
  <2>1. at \in Seq(Nat) /\ Len(at) = 1 /\ at[1] = heads[i].pc /\ Len(<<>>) = 0
    BY <1>2
  <2>2. heads[i].chain = <<>>
    BY <1>2
  <2> HIDE DEF at
  <2>3. Decoded(at, heads[i].chain, m, {}, d)
    BY <2>1, <2>2 DEF Decoded
  <2> QED BY <2>1, <2>3
<1>7. HeadsAt(u, m, {}, d, FALSE, n, p)
  BY <1>4, <1>6 DEF HeadsAt
<1> QED BY Zenon, <1>4, <1>5, <1>7 DEF u

\* make_entry: ds is at a node that holds the instruction executed.
LEMMA EnterType ==
  ASSUME NEW c, Cache(c), NEW word \in Kinds
  PROVE  /\ Cache(make_entry(c, word)) /\ make_entry(c, word) \in CacheRec
         /\ make_entry(c, word).home = c.home /\ make_entry(c, word).pos = c.pos + 1
         /\ Chain(make_entry(c, word)) = IF Hit(c) THEN Chain(c) ELSE Append(Chain(c), word)
         /\ Chain(make_entry(c, word))[c.pos + 1] = Executed(c, word)
         /\ Executed(c, word) \in Kinds
         /\ ~Hit(c) => c.pos = Len(Chain(c))
         /\ \A i \in Heads : make_entry(c, word).heads[i].pc = c.heads[i].pc
         /\ \A i \in Heads : make_entry(c, word).heads[i].chain =
                               IF i = c.home THEN Chain(make_entry(c, word))
                               ELSE c.heads[i].chain
<1> DEFINE n == c.pos + 1
           u == make_entry(c, word)
<1>1. /\ c \in CacheRec /\ c.heads \in [Heads -> Head_] /\ c.pos \in Nat
      /\ c.pos <= Len(Chain(c)) /\ Chain(c) \in Seq(Kinds) /\ Len(Chain(c)) \in Nat
      /\ c.own \in Seq(Kinds) /\ c.home \in Heads \union {Detached} /\ Detached \notin Heads
  BY ChainType DEF Cache, CacheRec, Heads, Detached
<1>2. n \in Nat
  BY <1>1
<1> USE DEF CacheRec
<1>3. CASE Hit(c)
  <2>1. u = [c EXCEPT !.pos = n]
    BY <1>3 DEF make_entry
  <2>2. n \in 1 .. Len(Chain(c)) /\ Executed(c, word) = Chain(c)[n] /\ Chain(c)[n] \in Kinds
    BY <1>1, <1>3 DEF Hit, Executed
  <2> HIDE DEF n, u
  <2>3. u \in CacheRec /\ u.home = c.home /\ u.pos = n /\ u.heads = c.heads /\ u.own = c.own
    BY Zenon, <1>1, <1>2, <2>1
  <2>4. Chain(u) = Chain(c)
    BY <2>3 DEF Chain
  <2>5. Cache(u)
    BY <1>1, <2>2, <2>3, <2>4 DEF Cache, CacheRec
  <2>6. \A i \in Heads : i = c.home => c.heads[i].chain = Chain(c)
    BY <1>1 DEF Chain
  <2> QED BY <1>3, <2>2, <2>3, <2>4, <2>5, <2>6 DEF n, u
<1>4. CASE ~Hit(c)
  <2> DEFINE longer == Append(Chain(c), word)
  <2>1. c.pos = Len(Chain(c)) /\ Executed(c, word) = word
    BY <1>1, <1>4 DEF Hit, Executed
  <2>2. longer \in Seq(Kinds) /\ Len(longer) = n /\ longer[n] = word
    BY <1>1, <2>1
  <2> HIDE DEF n, longer
  <2>3. CASE c.home = Detached
    <3>1. longer = Append(c.own, word)
      BY <2>3 DEF longer, Chain
    <3>2. u = [c EXCEPT !.pos = n, !.own = longer]
      BY <1>4, <2>3, <3>1 DEF make_entry, n
    <3> HIDE DEF u
    <3>3. u \in CacheRec /\ u.home = c.home /\ u.pos = n /\ u.heads = c.heads /\ u.own = longer
      BY Zenon, <1>1, <1>2, <2>2, <3>2
    <3>4. Chain(u) = longer
      BY <2>3, <3>3 DEF Chain
    <3>5. Cache(u)
      BY <1>2, <2>2, <3>3, <3>4 DEF Cache, CacheRec
    <3>6. \A i \in Heads : i # c.home
      BY <1>1, <2>3
    <3> QED BY <1>4, <2>1, <2>2, <3>3, <3>4, <3>5, <3>6 DEF n, u, longer
  <2>4. CASE c.home # Detached
    <3>0. c.home \in Heads /\ c.heads[c.home] \in Head_ /\ Chain(c) = c.heads[c.home].chain
      BY <1>1, <2>4 DEF Chain
    <3> DEFINE heads == [c.heads EXCEPT ![c.home].chain = longer]
    <3>1. u = [c EXCEPT !.pos = n, !.heads = heads]
      <4>1. u = [[c EXCEPT !.pos = n] EXCEPT !.heads[c.home].chain = Append(@, word)]
        BY <1>4, <2>4 DEF make_entry, n
      <4> QED BY <1>1, <3>0, <4>1 DEF longer
    <3>2. heads \in [Heads -> Head_] /\ heads[c.home].chain = longer
          /\ (\A i \in Heads : i # c.home => heads[i] = c.heads[i])
          /\ heads[c.home].pc = c.heads[c.home].pc
      BY Zenon, <1>1, <2>2, <3>0 DEF Head_
    <3> HIDE DEF u, heads
    <3>3. u \in CacheRec /\ u.home = c.home /\ u.pos = n /\ u.heads = heads /\ u.own = c.own
      BY Zenon, <1>1, <1>2, <3>1, <3>2
    <3>4. Chain(u) = longer
      BY <2>4, <3>2, <3>3 DEF Chain
    <3>5. Cache(u)
      BY <1>2, <2>2, <3>3, <3>4 DEF Cache, CacheRec
    <3>6. \A i \in Heads : /\ u.heads[i].pc = c.heads[i].pc
                           /\ u.heads[i].chain = IF i = c.home THEN longer
                                                 ELSE c.heads[i].chain
      BY <3>2, <3>3
    <3> QED BY <1>4, <2>1, <2>2, <3>3, <3>4, <3>5, <3>6 DEF n, u, longer
  <2> QED BY <2>3, <2>4
<1> QED BY <1>3, <1>4

\* The chain is decoded at the addresses at, and p is the n-th of them.
OnChain(at, chain, m, old, d, n, p) ==
  Decoded(at, chain, m, old, d) /\ n \in 1 .. Len(at) /\ at[n] = p

\* A chain that is followed, or made longer, by the instruction word.
Longer(chain, n, word) == IF n <= Len(chain) THEN chain ELSE Append(chain, word)

LEMMA Extended ==
  ASSUME NEW at, NEW chain, chain \in Seq(Kinds), NEW m, NEW old, NEW d, NEW n,
         NEW p, p \in Addr, m[p] \in Kinds,
         OnChain(at, chain, m, old, d, n, p)
  PROVE  \E at2 : /\ OnChain(at2, Longer(chain, n, m[p]), m, old, d, n + 1,
                             p + Stride(Longer(chain, n, m[p])[n], d))
                  /\ at2[1] = at[1]
<1> DEFINE t == Longer(chain, n, m[p])
<1> USE DEF OnChain
<1>0. at \in Seq(Nat) /\ Len(at) = Len(chain) + 1 /\ Len(chain) \in Nat /\ n \in Nat /\ p \in Nat
  BY DecodeAssumption DEF Decoded, Addr
<1>1. CASE n <= Len(chain)
  <2>1. t = chain /\ n \in 1 .. Len(chain) /\ n + 1 \in 1 .. Len(at)
    BY <1>0, <1>1 DEF Longer
  <2>2. at[n + 1] = p + Stride(chain[n], d)
    BY <2>1 DEF Decoded
  <2> QED BY <2>1, <2>2
<1>2. CASE ~(n <= Len(chain))
  <2> DEFINE q == p + Stride(m[p], d)
             at2 == Append(at, q)
  <2>1. n = Len(at) /\ n = Len(chain) + 1 /\ t = Append(chain, m[p])
    BY <1>0, <1>2 DEF Longer
  <2>2. q \in Nat
    BY <1>0 DEF Stride
  <2> HIDE DEF q, t
  <2>3. /\ at2 \in Seq(Nat) /\ Len(at2) = n + 1 /\ at2[n + 1] = q
        /\ \A k \in 1 .. n : at2[k] = at[k]
    BY <1>0, <2>1, <2>2
  <2>4. /\ t \in Seq(Kinds) /\ Len(t) = n /\ t[n] = m[p]
        /\ \A k \in 1 .. Len(chain) : t[k] = chain[k]
    BY <1>0, <2>1
  <2> HIDE DEF at2
  <2>5. ASSUME NEW k \in 1 .. n
        PROVE  /\ at2[k] \in Addr /\ at2[k + 1] = at2[k] + Stride(t[k], d)
               /\ t[k] = m[at2[k]] \/ at2[k] \in old
    <3>1. CASE k = n
      BY <1>0, <2>3, <2>4, <3>1 DEF q
    <3>2. CASE k # n
      <4>1. k \in 1 .. Len(chain) /\ k + 1 \in 1 .. n
        BY <1>0, <2>1, <3>2
      <4>2. at2[k] = at[k] /\ at2[k + 1] = at[k + 1] /\ t[k] = chain[k]
        BY <2>3, <2>4, <4>1
      <4> QED BY <4>1, <4>2 DEF Decoded
    <3> QED BY <3>1, <3>2
  <2>6. Decoded(at2, t, m, old, d)
    BY <2>3, <2>4, <2>5 DEF Decoded
  <2>7. 1 \in 1 .. n /\ at2[1] = at[1] /\ n + 1 \in 1 .. Len(at2)
    BY <1>0, <2>1, <2>3
  <2> QED BY Zenon, <2>3, <2>4, <2>6, <2>7 DEF q, t
<1> QED BY <1>1, <1>2

\* make_entry keeps ds on the addresses of its chain.
LEMMA EnterFollows ==
  ASSUME NEW c, Cache(c), NEW m \in [Addr -> Kinds], NEW d, NEW st, NEW dr, NEW sy \in Strays,
         NEW p \in Addr, Follows(c, m, d, st, dr, sy, c.pos + 1, p)
  PROVE  Follows(make_entry(c, m[p]), m, d, st, dr, sy, c.pos + 2,
                 p + Stride(Executed(c, m[p]), d))
<1> DEFINE e == make_entry(c, m[p])
           n == c.pos + 1
           q == p + Stride(Executed(c, m[p]), d)
           t == Chain(e)
<1>0. m[p] \in Kinds
  OBVIOUS
<1>1. /\ e.home = c.home /\ t = (IF Hit(c) THEN Chain(c) ELSE Append(Chain(c), m[p]))
      /\ t[n] = Executed(c, m[p])
      /\ ~Hit(c) => c.pos = Len(Chain(c))
      /\ \A i \in Heads : e.heads[i].pc = c.heads[i].pc
      /\ \A i \in Heads : e.heads[i].chain = IF i = c.home THEN t ELSE c.heads[i].chain
      /\ e \in CacheRec
  BY <1>0, EnterType
<1>2. /\ Chain(c) \in Seq(Kinds) /\ Len(Chain(c)) \in Nat /\ c.pos \in Nat
      /\ c.home \in Heads \union {Detached}
  BY ChainType DEF Cache, CacheRec
<1>3. t = Longer(Chain(c), n, m[p])
  BY <1>1, <1>2 DEF Hit, Longer
<1>4. c.pos + 2 = n + 1 /\ Detached \notin Heads
  BY <1>2 DEF Detached, Heads
<1>5. q = p + Stride(t[n], d)
  <2> HIDE DEF t
  <2> QED BY <1>1
<1> HIDE DEF e, n, q, t
<1>6. ASSUME sy # "chain" PROVE HeadsAt(e, m, st, d, sy = "no", n + 1, q)
  <2> SUFFICES ASSUME NEW i \in Heads
               PROVE  \E at : /\ Decoded(at, e.heads[i].chain, m, st, d)
                              /\ at[1] = e.heads[i].pc
                              /\ sy = "no" /\ e.home = i => n + 1 \in 1 .. Len(at) /\ at[n + 1] = q
    BY DEF HeadsAt
  <2>1. PICK at : /\ Decoded(at, c.heads[i].chain, m, st, d) /\ at[1] = c.heads[i].pc
                  /\ sy = "no" /\ c.home = i => n \in 1 .. Len(at) /\ at[n] = p
    BY <1>6 DEF Follows, HeadsAt, n
  <2>2. CASE c.home # i
    BY <1>1, <2>1, <2>2
  <2>3. CASE c.home = i
    <3>1. sy = "no"
      BY <1>4, <1>6, <2>3 DEF Follows, Strays
    <3>2. Chain(c) = c.heads[i].chain
      BY <1>4, <2>3 DEF Chain
    <3>3. OnChain(at, Chain(c), m, st, d, n, p)
      BY <2>1, <2>3, <3>1, <3>2 DEF OnChain
    <3>4. PICK at2 : OnChain(at2, t, m, st, d, n + 1, q) /\ at2[1] = at[1]
      BY <1>0, <1>2, <1>3, <1>5, <3>3, Extended
    <3> QED BY <1>1, <2>1, <2>3, <3>4 DEF OnChain
  <2> QED BY <2>2, <2>3
<1>7. ASSUME sy = "no" PROVE OwnAt(e, m, dr, d, n + 1, q)
  <2> SUFFICES ASSUME c.home = Detached
               PROVE  \E at : /\ Decoded(at, e.own, m, dr, d)
                              /\ n + 1 \in 1 .. Len(at) /\ at[n + 1] = q
    BY <1>1 DEF OwnAt
  <2>1. PICK at : OnChain(at, c.own, m, dr, d, n, p)
    BY <1>7 DEF Follows, OwnAt, OnChain, n
  <2>2. OnChain(at, Chain(c), m, dr, d, n, p)
    BY <2>1 DEF Chain
  <2>3. PICK at2 : OnChain(at2, t, m, dr, d, n + 1, q) /\ at2[1] = at[1]
    BY <1>0, <1>2, <1>3, <1>5, <2>2, Extended
  <2>4. t = e.own
    BY <1>1 DEF Chain, t
  <2> QED BY <2>3, <2>4 DEF OnChain
<1>8. Follows(e, m, d, st, dr, sy, n + 1, q)
  BY <1>1, <1>6, <1>7 DEF Follows
<1> QED BY <1>4, <1>8 DEF e, q

\* A word is written: it is in the histories from now on.
LEMMA StoreDecoded ==
  ASSUME NEW at, NEW chain, NEW m, m \in [Addr -> Kinds], NEW old, NEW d, NEW a, a \in Addr,
         NEW k, k \in Kinds, Decoded(at, chain, m, old, d)
  PROVE  Decoded(at, chain, [m EXCEPT ![a] = k], old \union {a}, d)
BY DEF Decoded

LEMMA StoreFollows ==
  ASSUME NEW c, NEW m, m \in [Addr -> Kinds], NEW d, NEW st, NEW dr, NEW sy, NEW n, NEW p,
         NEW a, a \in Addr, NEW k, k \in Kinds, Follows(c, m, d, st, dr, sy, n, p)
  PROVE  Follows(c, [m EXCEPT ![a] = k], d, st \union {a}, dr \union {a}, sy, n, p)
<1> DEFINE m2 == [m EXCEPT ![a] = k]
<1>1. ASSUME NEW at, NEW chain, NEW old, Decoded(at, chain, m, old, d)
      PROVE  Decoded(at, chain, m2, old \union {a}, d)
  BY Zenon, <1>1, StoreDecoded
<1> HIDE DEF m2
<1>2. sy # "chain" => HeadsAt(c, m2, st \union {a}, d, sy = "no", n, p)
  BY <1>1 DEF Follows, HeadsAt
<1>3. sy = "no" => OwnAt(c, m2, dr \union {a}, d, n, p)
  BY <1>1 DEF Follows, OwnAt
<1> QED BY <1>2, <1>3 DEF Follows, m2

\* A jump.
Landed(sy) == IF sy = "own" THEN "no" ELSE sy

LEMMA FetchFollows ==
  ASSUME NEW c, c \in CacheRec, NEW m, NEW d, NEW st, NEW dr, NEW sy, sy \in Strays, NEW n, NEW q,
         Follows(c, m, d, st, dr, sy, n, q), NEW p, p \in Nat, NEW dr2, st \subseteq dr2
  PROVE  /\ Cache(decode_cache_fetch(c, p)) /\ decode_cache_fetch(c, p).pos = 0
         /\ Follows(decode_cache_fetch(c, p), m, d, st, dr2, Landed(sy), 1, p)
<1> DEFINE f == decode_cache_fetch(c, p)
<1>1. CASE sy # "chain"
  <2>1. HeadsAt(c, m, st, d, FALSE, 1, p)
    BY <1>1 DEF Follows, HeadsAt
  <2>2. /\ Cache(f) /\ f.home # Detached /\ f.pos = 0 /\ HeadsAt(f, m, st, d, TRUE, 1, p)
    BY ZenonT(40), <2>1, FetchType, FetchHead
  <2> HIDE DEF f
  <2>3. Landed(sy) = "no"
    BY <1>1 DEF Landed, Strays
  <2>4. HeadsAt(f, m, st, d, Landed(sy) = "no", 1, p)
    BY <2>2, <2>3 DEF HeadsAt
  <2>5. Follows(f, m, d, st, dr2, Landed(sy), 1, p)
    BY <2>2, <2>3, <2>4 DEF Follows, OwnAt
  <2> QED BY <2>2, <2>5 DEF f
<1>2. CASE sy = "chain"
  <2>2. Cache(f) /\ f.home # Detached /\ f.pos = 0
    BY ZenonT(40), FetchType
  <2> QED BY <1>2, <2>2 DEF Follows, Landed
<1> QED BY <1>1, <1>2

\* The chains are dropped.
Dropped(sy) == IF sy = "chain" THEN "own" ELSE sy

LEMMA ClearFollows ==
  ASSUME NEW c, Cache(c), c.pos # 0, NEW m, NEW d, NEW st, NEW dr, NEW sy, sy \in Strays,
         NEW p, Follows(c, m, d, st, dr, sy, c.pos + 1, p)
  PROVE  Follows(clear_decode_cache(c), m, d, {}, dr, Dropped(sy), c.pos + 1, p)
<1> DEFINE u == clear_decode_cache(c)
           n == c.pos + 1
<1>1. u.home = Detached /\ u.own = Chain(c)
  BY Zenon, ClearHeads
<1>2. HeadsAt(u, m, {}, d, FALSE, n, p)
  BY Zenon, ClearHeads
<1>3. HeadsAt(u, m, {}, d, Dropped(sy) = "no", n, p)
  <2>1. \A i \in Heads : u.home # i
    BY <1>1 DEF Heads, Detached
  <2> HIDE DEF u, n
  <2> QED BY <1>2, <2>1 DEF HeadsAt
<1> HIDE DEF u, n
<1>4. ASSUME sy = "no" PROVE OwnAt(u, m, dr, d, n, p)
  <2>1. PICK at, old : /\ Decoded(at, Chain(c), m, old, d) /\ old \subseteq dr
                       /\ n \in 1 .. Len(at) /\ at[n] = p
    <3>1. CASE c.home = Detached
      BY <1>4, <3>1 DEF Follows, OwnAt, Chain, n
    <3>2. CASE c.home # Detached
      <4>1. c.home \in Heads
        BY <3>2 DEF Cache, CacheRec
      <4> QED BY <1>4, <3>2, <4>1 DEF Follows, HeadsAt, Chain, n
    <3> QED BY <3>1, <3>2
  <2>2. Decoded(at, Chain(c), m, dr, d)
    BY <2>1 DEF Decoded
  <2> QED BY <1>1, <2>1, <2>2 DEF OwnAt
<1>5. Follows(u, m, d, {}, dr, Dropped(sy), n, p)
  BY <1>1, <1>3, <1>4 DEF Follows, Dropped, Strays
<1> QED BY <1>5 DEF u, n

\* The chains are dropped, and pc goes elsewhere: ds stays, or is fetched.
LEMMA StrayFollows ==
  ASSUME NEW c, Cache(c), c.pos # 0, NEW m, NEW d, NEW n, NEW p
  PROVE  Follows(clear_decode_cache(c), m, d, {}, {}, "own", n, p)
<1>1. clear_decode_cache(c).home = Detached
  BY Zenon, ClearHeads
<1>2. HeadsAt(clear_decode_cache(c), m, {}, d, FALSE, n, p)
  BY Zenon, ClearHeads
<1>3. HeadsAt(clear_decode_cache(c), m, {}, d, "own" = "no", n, p)
  BY <1>2 DEF HeadsAt
<1> QED BY <1>1, <1>3 DEF Follows

LEMMA RefetchFollows ==
  ASSUME NEW c, Cache(c), NEW m, NEW d, NEW p, p \in Nat
  PROVE  LET f == decode_cache_fetch(clear_decode_cache(c), p)
         IN  Cache(f) /\ f.pos = 0 /\ Follows(f, m, d, {}, {}, "no", 1, p)
<1> DEFINE u == clear_decode_cache(c)
           f == decode_cache_fetch(u, p)
<1>1. u \in CacheRec /\ HeadsAt(u, m, {}, d, FALSE, 1, p)
  BY Zenon, ClearHeads
<1> HIDE DEF u
<1>2. /\ Cache(f) /\ f.home # Detached /\ f.pos = 0
      /\ HeadsAt(f, m, {}, d, TRUE, 1, p)
  BY ZenonT(40), <1>1, FetchType, FetchHead
<1> HIDE DEF f
<1>3. HeadsAt(f, m, {}, d, "no" = "no", 1, p)
  BY <1>2 DEF HeadsAt
<1>4. Follows(f, m, d, {}, {}, "no", 1, p)
  BY <1>2, <1>3 DEF Follows, OwnAt
<1> QED BY <1>2, <1>4 DEF f, u

-----------------------------------------------------------------------------
(* The actions *)

\* The state an instruction is executed in, after its entry.
LEMMA EnteredInv ==
  ASSUME IInv, pc \in Addr
  PROVE  /\ Cache(Entered) /\ Entered \in CacheRec /\ Entered.pos \in Nat /\ Entered.pos # 0
         /\ Follows(Entered, mem, DELAYSLOT, stored, dirty, strayed, Entered.pos + 1,
                    pc + Stride(Executed(dc, mem[pc]), DELAYSLOT))
         /\ Executed(dc, mem[pc]) \in Kinds
         /\ stored \subseteq dirty /\ Entered.home = dc.home
<1>1. /\ Cache(dc) /\ mem \in [Addr -> Kinds] /\ mem[pc] \in Kinds /\ strayed \in Strays
      /\ Follows(dc, mem, DELAYSLOT, stored, dirty, strayed, dc.pos + 1, pc)
  BY DEF IInv, Types
<1>2. dc.pos \in Nat
  BY <1>1 DEF Cache, CacheRec
<1>3. /\ Cache(Entered) /\ Entered \in CacheRec /\ Entered.home = dc.home
      /\ Entered.pos = dc.pos + 1 /\ Executed(dc, mem[pc]) \in Kinds
  BY <1>1, EnterType DEF Entered
<1>4. Follows(Entered, mem, DELAYSLOT, stored, dirty, strayed, dc.pos + 2,
              pc + Stride(Executed(dc, mem[pc]), DELAYSLOT))
  BY Zenon, <1>1, EnterFollows DEF Entered
<1>5. dc.pos + 2 = Entered.pos + 1 /\ Entered.pos \in Nat /\ Entered.pos # 0
  BY <1>2, <1>3
<1> QED BY Zenon, <1>1, <1>3, <1>4, <1>5 DEF Follows

LEMMA StepInv ==
  ASSUME build' = build, mem' \in [Addr -> Kinds], pc' \in Nat, br_target' \in Nat,
         strayed' \in Strays, Cache(dc'), NEW n, dc'.pos + 1 = n,
         Follows(dc', mem', DELAYSLOT, stored', dirty', strayed', n, pc')
  PROVE  IInv'
<1>1. DELAYSLOT' = DELAYSLOT
  BY DEF DELAYSLOT
<1> HIDE DEF DELAYSLOT
<1> QED BY <1>1 DEF IInv, Types

\* The vector, the targets and the addresses are numbers.
LEMMA Numbers ==
  ASSUME pc \in Addr
  PROVE  /\ pc \in Nat /\ pc + 1 \in Nat /\ pc + 2 \in Nat /\ Vector \in Nat
         /\ (\A a \in Addr : a \in Nat) /\ \A a \in PcRange : a \in Nat
BY DecodeAssumption DEF Addr, PcRange

\* An interrupt at the end of an instruction that left the cache c.
Interrupted(c) ==
  /\ pc' = Vector /\ br_target' = Vector
  /\ dc' = clear_decode_cache(c)
  /\ DropAndLeave(c)

\* ds is at the node of the last instruction, which is in a chain of its own now.
LEMMA LeaveStraight ==
  ASSUME UNCHANGED build, mem' \in [Addr -> Kinds],
         NEW c, Cache(c), c.pos # 0, Interrupted(c)
  PROVE  IInv'
<1>1. /\ dc' = clear_decode_cache(c) /\ pc' = Vector /\ br_target' = Vector
      /\ stored' = {} /\ dirty' = {} /\ strayed' = "own"
  BY DEF Interrupted, DropAndLeave
<1>2. Cache(dc') /\ Vector \in Nat /\ strayed' \in Strays
  <2>1. Cache(dc')
    BY Zenon, <1>1, ClearHeads
  <2>2. Vector \in Nat /\ strayed' \in Strays
    BY <1>1, DecodeAssumption DEF Addr, Strays
  <2> QED BY Zenon, <2>1, <2>2
<1>3. Follows(dc', mem', DELAYSLOT, {}, {}, "own", dc'.pos + 1, Vector)
  BY Zenon, <1>1, StrayFollows
<1> QED BY <1>1, <1>2, <1>3, StepInv

\* ds is before the first node of a head, whose chain is not that of pc any more.
LEMMA LeaveJump ==
  ASSUME UNCHANGED build, mem' \in [Addr -> Kinds],
         NEW c, c \in CacheRec, NEW p, p \in Nat, Interrupted(decode_cache_fetch(c, p))
  PROVE  IInv'
<1> DEFINE f == decode_cache_fetch(c, p)
<1>1. Cache(f) /\ f.home # Detached /\ f.pos = 0
  BY Zenon, FetchType
<1>2. /\ dc' = clear_decode_cache(f) /\ pc' = Vector /\ br_target' = Vector /\ DropAndLeave(f)
  BY Zenon DEF Interrupted
<1> HIDE DEF f
<1>3. stored' = {} /\ dirty' = {} /\ strayed' = "chain"
  BY <1>1, <1>2 DEF DropAndLeave
<1>4. Cache(dc') /\ Vector \in Nat /\ strayed' \in Strays
  <2>1. Cache(dc')
    BY Zenon, <1>1, <1>2, ClearHeads
  <2>2. Vector \in Nat /\ strayed' \in Strays
    BY <1>3, DecodeAssumption DEF Addr, Strays
  <2> QED BY Zenon, <2>1, <2>2
<1>5. dc'.home # Detached
  <2>1. f \in CacheRec
    BY <1>1 DEF Cache
  <2>2. clear_decode_cache(f).home = f.home
    BY <1>1, <2>1 DEF clear_decode_cache, CacheRec
  <2> QED BY <1>1, <1>2, <2>2
<1>6. Follows(dc', mem', DELAYSLOT, {}, {}, "chain", dc'.pos + 1, Vector)
  BY Zenon, <1>5 DEF Follows
<1> QED BY <1>2, <1>3, <1>4, <1>6, StepInv

LEMMA PlainStep ==
  ASSUME IInv, pc \in Addr, UNCHANGED build, Executed(dc, mem[pc]) # "likely", ExecPlain
  PROVE  IInv'
<1>0. mem' = mem /\ mem \in [Addr -> Kinds] /\ br_target \in Nat /\ strayed \in Strays
  BY DEF ExecPlain, IInv, Types
<1>1. pc \in Nat /\ pc + 1 \in Nat
  BY Numbers
<1>2. pc + Stride(Executed(dc, mem[pc]), DELAYSLOT) = pc + 1
  BY DEF Stride
<1>3. /\ Cache(Entered) /\ Entered \in CacheRec /\ Entered.pos \in Nat /\ Entered.pos # 0
      /\ Follows(Entered, mem, DELAYSLOT, stored, dirty, strayed, Entered.pos + 1, pc + 1)
      /\ stored \subseteq dirty
  BY <1>2, EnteredInv
<1>4. CASE InSlot
  <2>0. SUFFICES ASSUME ~Interrupted(decode_cache_fetch(Entered, br_target)) PROVE IInv'
    BY Zenon, <1>0, <1>3, LeaveJump
  <2>a. /\ pc' = br_target /\ dc' = decode_cache_fetch(Entered, br_target)
        /\ br_target' = br_target /\ Jump
    BY Zenon, <1>4, <2>0 DEF ExecPlain, inst_end, check_intrs, Interrupted
  <2>1. /\ pc' = br_target /\ dc' = decode_cache_fetch(Entered, br_target)
        /\ br_target' = br_target
        /\ dirty' = (IF flushed THEN stored ELSE dirty) /\ stored' = stored
        /\ strayed' = Landed(strayed)
    BY <2>a DEF Jump, Landed
  <2>2. stored \subseteq dirty' /\ Landed(strayed) \in Strays
    BY <1>0, <1>3, <2>1 DEF Landed, Strays
  <2>3. /\ Cache(dc') /\ dc'.pos = 0
        /\ Follows(dc', mem, DELAYSLOT, stored, dirty', Landed(strayed), 1, br_target)
    BY Zenon, <1>0, <1>3, <2>1, <2>2, FetchFollows
  <2> QED BY <1>0, <2>1, <2>2, <2>3, StepInv
<1>5. CASE ~InSlot
  <2>0. SUFFICES ASSUME ~Interrupted(Entered) PROVE IInv'
    BY Zenon, <1>0, <1>3, LeaveStraight
  <2>1. /\ pc' = pc + 1 /\ dc' = Entered /\ stored' = stored /\ dirty' = dirty
        /\ strayed' = strayed /\ br_target' = br_target
    BY Zenon, <1>5, <2>0 DEF ExecPlain, inst_end, check_intrs, Interrupted, Straight, history
  <2> QED BY <1>0, <1>1, <1>3, <2>1, StepInv
<1> QED BY <1>4, <1>5

LEMMA StoreStep ==
  ASSUME IInv, pc \in Addr, UNCHANGED build, Executed(dc, mem[pc]) # "likely", ExecStore
  PROVE  IInv'
<1>a. PICK a \in Addr, k \in Kinds :
        /\ mem' = [mem EXCEPT ![a] = k]
        /\ inst_end(Entered, pc, br_target, Store(a))
  BY Zenon DEF ExecStore
<1>0. mem \in [Addr -> Kinds] /\ br_target \in Nat /\ strayed \in Strays
  BY DEF IInv, Types
<1>1. pc \in Nat /\ pc + 1 \in Nat /\ mem' \in [Addr -> Kinds]
  BY <1>a, <1>0, Numbers
<1>2. pc + Stride(Executed(dc, mem[pc]), DELAYSLOT) = pc + 1
  BY DEF Stride
<1>3. /\ Cache(Entered) /\ Entered \in CacheRec /\ Entered.pos \in Nat /\ Entered.pos # 0
      /\ Follows(Entered, mem, DELAYSLOT, stored, dirty, strayed, Entered.pos + 1, pc + 1)
      /\ stored \subseteq dirty
  BY <1>2, EnteredInv
<1>6. Follows(Entered, mem', DELAYSLOT, stored \union {a}, dirty \union {a}, strayed,
              Entered.pos + 1, pc + 1)
  BY Zenon, <1>a, <1>0, <1>3, StoreFollows
<1>4. CASE InSlot
  <2>0. SUFFICES ASSUME ~Interrupted(decode_cache_fetch(Entered, br_target)) PROVE IInv'
    BY Zenon, <1>0, <1>1, <1>3, LeaveJump
  <2>a. /\ pc' = br_target /\ dc' = decode_cache_fetch(Entered, br_target)
        /\ br_target' = br_target /\ Store(a)
    BY Zenon, <1>a, <1>4, <2>0 DEF inst_end, check_intrs, Interrupted
  <2>1. /\ pc' = br_target /\ dc' = decode_cache_fetch(Entered, br_target)
        /\ br_target' = br_target
        /\ stored' = stored \union {a} /\ (dirty' = stored' \/ dirty' = dirty \union {a})
        /\ strayed' = Landed(strayed)
    BY <1>4, <2>a DEF Store, Landed
  <2>2. stored' \subseteq dirty' /\ Landed(strayed) \in Strays
    BY <1>0, <1>3, <2>1 DEF Landed, Strays
  <2>3. /\ Cache(dc') /\ dc'.pos = 0
        /\ Follows(dc', mem', DELAYSLOT, stored', dirty', Landed(strayed), 1, br_target)
    BY Zenon, <1>0, <1>3, <1>6, <2>1, <2>2, FetchFollows
  <2>4. pc' \in Nat /\ br_target' \in Nat /\ strayed' \in Strays /\ dc'.pos + 1 = 1
    BY <1>0, <2>1, <2>2, <2>3
  <2>5. Follows(dc', mem', DELAYSLOT, stored', dirty', strayed', 1, pc')
    BY Zenon, <2>1, <2>3
  <2> QED BY Zenon, <1>1, <2>3, <2>4, <2>5, StepInv
<1>5. CASE ~InSlot
  <2>0. SUFFICES ASSUME ~Interrupted(Entered) PROVE IInv'
    BY Zenon, <1>1, <1>3, LeaveStraight
  <2>a. pc' = pc + 1 /\ dc' = Entered /\ br_target' = br_target /\ Store(a)
    BY Zenon, <1>a, <1>5, <2>0 DEF inst_end, check_intrs, Interrupted
  <2>1. stored' = stored \union {a} /\ dirty' = dirty \union {a} /\ strayed' = strayed
    BY <1>5, <2>a DEF Store
  <2> QED BY Zenon, <1>0, <1>1, <1>3, <1>6, <2>a, <2>1, StepInv
<1> QED BY <1>4, <1>5

LEMMA CacheStep ==
  ASSUME IInv, pc \in Addr, UNCHANGED build, Executed(dc, mem[pc]) # "likely", ExecCache
  PROVE  IInv'
<1> DEFINE c == clear_decode_cache(Entered)
<1>0. mem' = mem /\ mem \in [Addr -> Kinds] /\ br_target \in Nat /\ strayed \in Strays
  BY DEF ExecCache, IInv, Types
<1>1. pc \in Nat /\ pc + 1 \in Nat
  BY Numbers
<1>2. pc + Stride(Executed(dc, mem[pc]), DELAYSLOT) = pc + 1
  BY DEF Stride
<1>3. /\ Cache(Entered) /\ Entered.pos # 0
      /\ Follows(Entered, mem, DELAYSLOT, stored, dirty, strayed, Entered.pos + 1, pc + 1)
  BY <1>2, EnteredInv
<1>4. CASE InSlot
  <2>0. SUFFICES ASSUME ~Interrupted(decode_cache_fetch(c, br_target)) PROVE IInv'
    <3>1. c \in CacheRec
      BY Zenon, <1>3, ClearHeads
    <3> HIDE DEF c
    <3> QED BY Zenon, <1>0, <3>1, LeaveJump
  <2>1. /\ pc' = br_target /\ dc' = decode_cache_fetch(c, br_target) /\ br_target' = br_target
        /\ dirty' = {} /\ stored' = {} /\ strayed' = "no"
    BY Zenon, <1>4, <2>0 DEF ExecCache, inst_end, check_intrs, Interrupted, DropAndJump
  <2>2. Cache(dc') /\ dc'.pos = 0 /\ Follows(dc', mem, DELAYSLOT, {}, {}, "no", 1, br_target)
    BY <1>0, <1>3, <2>1, RefetchFollows
  <2>3. strayed' \in Strays
    BY <2>1 DEF Strays
  <2> QED BY <1>0, <2>1, <2>2, <2>3, StepInv
<1>5. CASE ~InSlot
  <2>2. Cache(c) /\ c.pos = Entered.pos /\ c.pos # 0
    BY Zenon, <1>3, ClearHeads
  <2>0. SUFFICES ASSUME ~Interrupted(c) PROVE IInv'
    <3> HIDE DEF c
    <3> QED BY Zenon, <1>0, <2>2, LeaveStraight
  <2>a. pc' = pc + 1 /\ dc' = c /\ br_target' = br_target /\ Drop
    BY Zenon, <1>5, <2>0 DEF ExecCache, inst_end, check_intrs, Interrupted
  <2>1. /\ pc' = pc + 1 /\ dc' = c /\ br_target' = br_target /\ stored' = {} /\ dirty' = dirty
        /\ strayed' = Dropped(strayed)
    BY <2>a DEF Drop, Dropped
  <2>3. Follows(c, mem, DELAYSLOT, {}, dirty, Dropped(strayed), Entered.pos + 1, pc + 1)
    BY <1>0, <1>3, ClearFollows
  <2>4. Dropped(strayed) \in Strays
    BY <1>0 DEF Dropped, Strays
  <2> HIDE DEF c
  <2> QED BY <1>0, <1>1, <2>1, <2>2, <2>3, <2>4, StepInv
<1> QED BY <1>4, <1>5

LEMMA BranchStep ==
  ASSUME IInv, pc \in Addr, UNCHANGED build, ExecBranch
  PROVE  IInv'
<1>a. PICK target \in Addr \union {pc + 2} :
        target \in PcRange /\ prepare_delayslot(target) /\ mem' = mem
  BY DEF ExecBranch
<1>0. mem \in [Addr -> Kinds] /\ strayed \in Strays
  BY DEF IInv, Types
<1>1. pc + 1 \in Nat /\ target \in Nat
  BY <1>a, Numbers
<1>3. /\ Cache(Entered) /\ Entered \in CacheRec /\ Entered.pos # 0
      /\ Follows(Entered, mem, DELAYSLOT, stored, dirty, strayed, Entered.pos + 1,
                 pc + Stride(Executed(dc, mem[pc]), DELAYSLOT))
      /\ stored \subseteq dirty
  BY EnteredInv
<1>4. CASE DELAYSLOT
  <2>0. SUFFICES ASSUME ~Interrupted(Entered) PROVE IInv'
    BY Zenon, <1>a, <1>0, <1>3, LeaveStraight
  <2>1. /\ pc' = pc + 1 /\ dc' = Entered /\ stored' = stored /\ dirty' = dirty
        /\ strayed' = strayed /\ br_target' = target
    BY Zenon, <1>a, <1>4, <2>0 DEF prepare_delayslot, check_intrs, Interrupted, Straight, history
  <2>2. pc + Stride(Executed(dc, mem[pc]), DELAYSLOT) = pc + 1
    BY <1>4 DEF Stride
  <2> QED BY <1>a, <1>0, <1>1, <1>3, <2>1, <2>2, StepInv
<1>5. CASE ~DELAYSLOT
  <2>0. SUFFICES ASSUME ~Interrupted(decode_cache_fetch(Entered, target)) PROVE IInv'
    BY Zenon, <1>a, <1>0, <1>1, <1>3, LeaveJump
  <2>a. /\ pc' = target /\ dc' = decode_cache_fetch(Entered, target)
        /\ br_target' = target /\ Jump
    BY Zenon, <1>a, <1>5, <2>0 DEF prepare_delayslot, check_intrs, Interrupted
  <2>1. /\ pc' = br_target' /\ dc' = decode_cache_fetch(Entered, br_target') /\ br_target' \in Nat
        /\ dirty' = (IF flushed THEN stored ELSE dirty) /\ stored' = stored
        /\ strayed' = Landed(strayed)
    BY <1>1, <2>a DEF Jump, Landed
  <2>2. stored \subseteq dirty' /\ Landed(strayed) \in Strays
    BY <1>0, <1>3, <2>1 DEF Landed, Strays
  <2>3. /\ Cache(dc') /\ dc'.pos = 0
        /\ Follows(dc', mem, DELAYSLOT, stored, dirty', Landed(strayed), 1, br_target')
    BY Zenon, <1>0, <1>1, <1>3, <2>1, <2>2, FetchFollows
  <2> QED BY <1>a, <1>0, <1>1, <2>1, <2>2, <2>3, StepInv
<1> QED BY <1>4, <1>5

LEMMA LikelyStep ==
  ASSUME IInv, pc \in Addr, UNCHANGED build, Executed(dc, mem[pc]) = "likely",
         ExecLikelyNotTaken
  PROVE  IInv'
<1>0. mem' = mem /\ mem \in [Addr -> Kinds] /\ strayed \in Strays
  BY DEF ExecLikelyNotTaken, IInv, Types
<1>1. pc \in Nat /\ pc + 1 + 1 = pc + 2 /\ pc + 2 \in Nat
  BY Numbers
<1>3. /\ Cache(Entered) /\ Entered \in CacheRec /\ Entered.home = dc.home /\ Entered.pos # 0
      /\ Follows(Entered, mem, DELAYSLOT, stored, dirty, strayed, Entered.pos + 1,
                 pc + Stride(Executed(dc, mem[pc]), DELAYSLOT))
      /\ stored \subseteq dirty
  BY EnteredInv
<1>6. ASSUME ~InSlot, Interrupted(Entered) PROVE IInv'
  BY Zenon, <1>0, <1>3, <1>6, LeaveStraight
<1>4. CASE InSlot
  <2>0. SUFFICES ASSUME ~Interrupted(decode_cache_fetch(Entered, pc + 2)) PROVE IInv'
    BY Zenon, <1>0, <1>1, <1>3, LeaveJump
  <2>a. /\ pc' = pc + 2 /\ dc' = decode_cache_fetch(Entered, pc + 2)
        /\ br_target' = pc + 2
        /\ CASE InSlot -> Jump [] ~DELAYSLOT -> Straight [] OTHER -> Skip
    BY Zenon, <1>4, <2>0 DEF ExecLikelyNotTaken, inst_end, check_intrs, Interrupted
  <2>b. Jump
    BY <1>4, <2>a DEF InSlot
  <2>1. /\ pc' = br_target' /\ dc' = decode_cache_fetch(Entered, br_target') /\ br_target' \in Nat
        /\ dirty' = (IF flushed THEN stored ELSE dirty) /\ stored' = stored
        /\ strayed' = Landed(strayed)
    BY <1>1, <2>a, <2>b DEF Jump, Landed
  <2>2. stored \subseteq dirty' /\ Landed(strayed) \in Strays
    BY <1>0, <1>3, <2>1 DEF Landed, Strays
  <2>3. /\ Cache(dc') /\ dc'.pos = 0
        /\ Follows(dc', mem, DELAYSLOT, stored, dirty', Landed(strayed), 1, br_target')
    BY Zenon, <1>0, <1>1, <1>3, <2>1, <2>2, FetchFollows
  <2> QED BY <1>0, <1>1, <2>1, <2>2, <2>3, StepInv
<1>5. CASE ~DELAYSLOT
  <2>0. SUFFICES ASSUME ~Interrupted(Entered) PROVE IInv'
    BY Zenon, <1>5, <1>6 DEF InSlot
  <2>a. /\ pc' = pc + 1 + 1 /\ dc' = Entered /\ br_target' = pc + 2
        /\ CASE InSlot -> Jump [] ~DELAYSLOT -> Straight [] OTHER -> Skip
    <3>1. ~InSlot
      BY <1>5 DEF InSlot
    <3> QED BY Zenon, <2>0, <3>1 DEF ExecLikelyNotTaken, inst_end, check_intrs, Interrupted
  <2>b. Straight
    BY <1>5, <2>a DEF InSlot
  <2>1. /\ pc' = pc + 2 /\ dc' = Entered /\ stored' = stored /\ dirty' = dirty
        /\ strayed' = strayed /\ br_target' = pc + 2
    BY <1>1, <2>a, <2>b DEF Straight, history
  <2>2. pc + Stride(Executed(dc, mem[pc]), DELAYSLOT) = pc + 2
    BY <1>5 DEF Stride
  <2> QED BY <1>0, <1>1, <1>3, <2>1, <2>2, StepInv
<1>7. CASE DELAYSLOT /\ ~InSlot
  <2>0. SUFFICES ASSUME ~Interrupted(Entered) PROVE IInv'
    BY Zenon, <1>6, <1>7
  <2>a. /\ pc' = pc + 1 + 1 /\ dc' = Entered /\ br_target' = pc + 2
        /\ CASE InSlot -> Jump [] ~DELAYSLOT -> Straight [] OTHER -> Skip
    BY Zenon, <1>7, <2>0 DEF ExecLikelyNotTaken, inst_end, check_intrs, Interrupted
  <2>b. Skip
    BY <1>7, <2>a
  <2>1. /\ pc' = pc + 2 /\ dc' = Entered /\ stored' = stored /\ dirty' = dirty
        /\ strayed' = (IF dc.home = Detached THEN "own" ELSE "chain") /\ br_target' = pc + 2
    BY <1>1, <2>a, <2>b DEF Skip
  <2>2. ASSUME strayed' # "chain"
        PROVE  HeadsAt(Entered, mem, stored, DELAYSLOT, FALSE, Entered.pos + 1, pc + 2)
    <3>1. strayed # "chain"
      BY Zenon, <1>3, <2>1, <2>2 DEF Follows
    <3> QED BY Zenon, <1>3, <3>1 DEF Follows, HeadsAt
  <2>3. strayed' # "no" /\ strayed' \in Strays
    BY <2>1 DEF Strays
  <2>4. ASSUME strayed' # "chain"
        PROVE  HeadsAt(Entered, mem, stored, DELAYSLOT, strayed' = "no", Entered.pos + 1, pc + 2)
    BY Zenon, <2>2, <2>3, <2>4 DEF HeadsAt
  <2>5. Follows(Entered, mem, DELAYSLOT, stored, dirty, strayed', Entered.pos + 1, pc + 2)
    BY Zenon, <1>3, <2>1, <2>3, <2>4 DEF Follows
  <2> QED BY Zenon, <1>0, <1>1, <1>3, <2>1, <2>3, <2>5, StepInv
<1> QED BY <1>4, <1>5, <1>7 DEF InSlot

\* The chains are dropped; ds is fetched for the target, or pc goes there without
\* it, or to the next instruction.
LEMMA AwayStep ==
  ASSUME IInv, pc \in Addr, UNCHANGED build, Executed(dc, mem[pc]) # "likely",
         br_target' \in Nat, mem' = mem,
         LET c == clear_decode_cache(Entered)
         IN  \/ dc' = decode_cache_fetch(c, br_target') /\ pc' = br_target' /\ DropAndJump
             \/ dc' = c /\ pc' = br_target' /\ DropAndStray
             \/ dc' = c /\ pc' = pc + 1 /\ Drop
  PROVE  IInv'
<1> DEFINE c == clear_decode_cache(Entered)
<1>0. mem \in [Addr -> Kinds] /\ strayed \in Strays
  BY DEF IInv, Types
<1>1. pc \in Nat /\ pc + 1 \in Nat
  BY Numbers
<1>2. pc + Stride(Executed(dc, mem[pc]), DELAYSLOT) = pc + 1
  BY DEF Stride
<1>3. /\ Cache(Entered) /\ Entered.pos # 0
      /\ Follows(Entered, mem, DELAYSLOT, stored, dirty, strayed, Entered.pos + 1, pc + 1)
  BY Zenon, <1>2, EnteredInv
<1>4. Cache(c) /\ c.pos = Entered.pos
  BY Zenon, <1>3, ClearHeads
<1>5. CASE dc' = decode_cache_fetch(c, br_target') /\ pc' = br_target' /\ DropAndJump
  <2>1. dirty' = {} /\ stored' = {} /\ strayed' = "no" /\ strayed' \in Strays
    BY <1>5 DEF DropAndJump, Strays
  <2>2. Cache(dc') /\ dc'.pos = 0 /\ Follows(dc', mem, DELAYSLOT, {}, {}, "no", 1, br_target')
    BY <1>3, <1>5, RefetchFollows
  <2> QED BY <1>0, <1>5, <2>1, <2>2, StepInv
<1>6. CASE dc' = c /\ pc' = br_target' /\ DropAndStray
  <2>1. dirty' = {} /\ stored' = {} /\ strayed' = "own" /\ strayed' \in Strays
    BY <1>6 DEF DropAndStray, Strays
  <2>2. Follows(c, mem, DELAYSLOT, {}, {}, "own", c.pos + 1, br_target')
    BY <1>3, StrayFollows
  <2> HIDE DEF c
  <2> QED BY <1>0, <1>4, <1>6, <2>1, <2>2, StepInv
<1>7. CASE dc' = c /\ pc' = pc + 1 /\ Drop
  <2>1. /\ stored' = {} /\ dirty' = dirty /\ strayed' = Dropped(strayed)
        /\ Dropped(strayed) \in Strays
    BY <1>0, <1>7 DEF Drop, Dropped, Strays
  <2>2. Follows(c, mem, DELAYSLOT, {}, dirty, Dropped(strayed), Entered.pos + 1, pc + 1)
    BY <1>0, <1>3, ClearFollows
  <2> HIDE DEF c
  <2> QED BY <1>0, <1>1, <1>4, <1>7, <2>1, <2>2, StepInv
<1> QED BY <1>5, <1>6, <1>7

LEMMA TrapStep ==
  ASSUME IInv, pc \in Addr, UNCHANGED build, Executed(dc, mem[pc]) # "likely", ExecTrap
  PROVE  IInv'
<1> DEFINE c == clear_decode_cache(Entered)
           Trapped(fetched) ==
             /\ br_target' = Vector
             /\ dc' = IF fetched THEN decode_cache_fetch(c, Vector) ELSE c
             /\ pc' = IF EXCEPTION \/ fetched THEN Vector ELSE pc + 1
             /\ CASE fetched -> DropAndJump
                  [] EXCEPTION /\ ~fetched -> DropAndStray
                  [] OTHER -> Drop
             /\ UNCHANGED mem
<1>a. \E exl, exit \in BOOLEAN : Trapped(InSlot /\ exl /\ ~exit)
  BY Zenon DEF ExecTrap
<1> HIDE DEF Trapped
<1>b. Trapped(TRUE) \/ Trapped(FALSE)
  <2>1. PICK exl \in BOOLEAN, exit \in BOOLEAN : Trapped(InSlot /\ exl /\ ~exit)
    BY Zenon, <1>a
  <2>2. CASE InSlot /\ exl /\ ~exit
    <3>1. (InSlot /\ exl /\ ~exit) = TRUE
      BY <2>2, Zenon
    <3> QED BY <2>1, <3>1, Zenon
  <2>3. CASE ~(InSlot /\ exl /\ ~exit)
    <3>1. (InSlot /\ exl /\ ~exit) = FALSE
      BY <2>3, Zenon
    <3> QED BY <2>1, <3>1, Zenon
  <2> QED BY <2>2, <2>3, Zenon
<1>c. /\ \/ dc' = decode_cache_fetch(c, br_target') /\ pc' = br_target' /\ DropAndJump
         \/ dc' = c /\ pc' = br_target' /\ DropAndStray
         \/ dc' = c /\ pc' = pc + 1 /\ Drop
      /\ br_target' = Vector /\ mem' = mem
  <2> HIDE DEF c
  <2>1. CASE Trapped(TRUE)
    BY <2>1 DEF Trapped
  <2>2. CASE Trapped(FALSE)
    BY <2>2 DEF Trapped
  <2> QED BY Zenon, <1>b, <2>1, <2>2
<1>0. br_target' \in Nat
  BY <1>c, Numbers
<1> QED BY <1>0, <1>c, AwayStep

LEMMA EretStep ==
  ASSUME IInv, pc \in Addr, UNCHANGED build, Executed(dc, mem[pc]) # "likely", ExecEret
  PROVE  IInv'
<1> DEFINE c == clear_decode_cache(Entered)
<1>a. PICK epc \in Addr :
        /\ br_target' = epc
        /\ dc' = IF InSlot THEN decode_cache_fetch(c, epc) ELSE c
        /\ pc' = IF EXCEPTION \/ InSlot THEN epc ELSE pc + 1
        /\ CASE InSlot -> DropAndJump
             [] EXCEPTION /\ ~InSlot -> DropAndStray
             [] OTHER -> Drop
        /\ mem' = mem
  BY DEF ExecEret
<1>b. \/ dc' = decode_cache_fetch(c, br_target') /\ pc' = br_target' /\ DropAndJump
      \/ dc' = c /\ pc' = br_target' /\ DropAndStray
      \/ dc' = c /\ pc' = pc + 1 /\ Drop
  BY <1>a
<1>0. br_target' \in Nat /\ mem' = mem
  BY <1>a, Numbers
<1> QED BY <1>0, <1>b, AwayStep

LEMMA WriteStep ==
  ASSUME IInv, pc \in Addr, UNCHANGED build, dbg_vaddr_write
  PROVE  IInv'
<1>0. mem \in [Addr -> Kinds] /\ br_target \in Nat /\ pc \in Nat /\ Cache(dc)
  BY DEF IInv, Types
<1>1. mem' \in [Addr -> Kinds]
  BY <1>0 DEF dbg_vaddr_write
<1>2. /\ dc' = decode_cache_fetch(clear_decode_cache(dc), pc) /\ pc' = pc
      /\ br_target' = br_target /\ dirty' = {} /\ stored' = {} /\ strayed' = "no"
      /\ strayed' \in Strays
  BY DEF dbg_vaddr_write, DropAndJump, Strays
<1>3. Cache(dc') /\ dc'.pos = 0 /\ Follows(dc', mem', DELAYSLOT, {}, {}, "no", 1, pc)
  BY <1>0, <1>2, RefetchFollows
<1> QED BY <1>0, <1>1, <1>2, <1>3, StepInv

LEMMA ExecAgainStep ==
  ASSUME IInv, pc \in Addr, UNCHANGED build, cpu_exec
  PROVE  IInv'
<1>0. /\ mem \in [Addr -> Kinds] /\ br_target \in Nat /\ pc \in Nat /\ strayed \in Strays
      /\ Follows(dc, mem, DELAYSLOT, stored, dirty, strayed, dc.pos + 1, pc)
      /\ dc \in CacheRec
  BY Zenon DEF IInv, Types, Cache, CacheRec
<1>1. /\ dc' = decode_cache_fetch(dc, pc) /\ pc' = pc /\ mem' = mem /\ br_target' = br_target
      /\ dirty' = (IF flushed THEN stored ELSE dirty) /\ stored' = stored
      /\ strayed' = Landed(strayed)
  BY DEF cpu_exec, Jump, Landed
<1>2. stored \subseteq dirty' /\ Landed(strayed) \in Strays
  BY <1>0, <1>1 DEF Follows, Landed, Strays
<1>3. /\ Cache(dc') /\ dc'.pos = 0
      /\ Follows(dc', mem, DELAYSLOT, stored, dirty', Landed(strayed), 1, pc)
  BY <1>0, <1>1, <1>2, FetchFollows
<1> QED BY <1>0, <1>1, <1>2, <1>3, StepInv

LEMMA InitInv == Init => IInv
<1> SUFFICES ASSUME Init PROVE IInv
  OBVIOUS
<1> DEFINE empty == [pc |-> 0, chain |-> <<>>]
           heads == [i \in Heads |-> empty]
           c == [heads |-> heads, home |-> Detached, pos |-> 0, own |-> <<>>]
<1>1. empty \in Head_ /\ empty.chain = <<>> /\ empty.pc = 0
  BY DEF Head_
<1>2. heads \in [Heads -> Head_] /\ \A i \in Heads : heads[i] = empty
  BY <1>1
<1>3. dc = decode_cache_fetch(c, 0)
  BY DEF Init, Heads
<1> HIDE DEF heads, empty
<1>4. c \in CacheRec /\ c.heads = heads /\ c.home = Detached
  BY <1>2 DEF CacheRec
<1> HIDE DEF c
<1>5. ASSUME NEW i \in Heads
      PROVE  \E at : Decoded(at, heads[i].chain, mem, {}, DELAYSLOT) /\ at[1] = heads[i].pc
  <2> DEFINE at == <<0>>
  <2>1. at \in Seq(Nat) /\ Len(at) = 1 /\ at[1] = 0 /\ Len(<<>>) = 0
    OBVIOUS
  <2>2. heads[i].chain = <<>> /\ heads[i].pc = 0
    BY <1>1, <1>2
  <2> HIDE DEF at
  <2>3. Decoded(at, heads[i].chain, mem, {}, DELAYSLOT)
    BY <2>1, <2>2 DEF Decoded
  <2> QED BY <2>1, <2>2, <2>3
<1>6. HeadsAt(c, mem, {}, DELAYSLOT, FALSE, 1, 0)
  BY <1>4, <1>5 DEF HeadsAt
<1>7. /\ Cache(dc) /\ dc.home # Detached /\ dc.pos = 0
      /\ HeadsAt(dc, mem, {}, DELAYSLOT, TRUE, 1, 0)
  BY Zenon, <1>3, <1>4, <1>6, FetchType, FetchHead
<1>8. HeadsAt(dc, mem, {}, DELAYSLOT, "no" = "no", 1, 0)
  BY <1>7 DEF HeadsAt
<1>9. Follows(dc, mem, DELAYSLOT, {}, {}, "no", 1, 0)
  BY <1>7, <1>8 DEF Follows, OwnAt
<1>10. dc.pos + 1 = 1
  BY <1>7
<1> QED BY <1>7, <1>9, <1>10 DEF Init, IInv, Types, Strays

LEMMA NextInv == IInv /\ [Next]_vars => IInv'
<1>1. CASE UNCHANGED vars
  BY <1>1 DEF vars, history, IInv, Types, DELAYSLOT
<1>2. ASSUME IInv, Next PROVE IInv'
  <2> DEFINE kind == Executed(dc, mem[pc])
  <2>1. IInv /\ pc \in Addr /\ UNCHANGED build
    BY <1>2 DEF Next
  <2>2. CASE Exec(kind)
    <3>1. CASE kind # "likely"
      BY <2>1, <2>2, <3>1, PlainStep, StoreStep, CacheStep, BranchStep, TrapStep, EretStep
         DEF Exec
    <3>2. CASE kind = "likely"
      BY <2>1, <2>2, <3>2, BranchStep, LikelyStep DEF Exec
    <3> QED BY <3>1, <3>2
  <2>3. CASE dbg_vaddr_write
    BY <2>1, <2>3, WriteStep
  <2>4. CASE cpu_exec
    BY <2>1, <2>4, ExecAgainStep
  <2> QED BY <1>2, <2>2, <2>3, <2>4 DEF Next
<1> QED BY <1>1, <1>2

\* While ds follows pc through inst_end, prepare_delayslot and cpu_exec, the machine
\* executes the instruction that is in memory at pc, or one that was there when the
\* program wrote the word and has not yet dropped the chains and jumped; interrupts
\* at the end of any instruction and exceptions that leave is_delayslot set included,
\* up to the fetch or the drop of the chains that FreshOnChain waits for.
THEOREM FreshCorrect == Spec => []FreshOnChain
<1>1. Init => IInv
  BY InitInv
<1>2. IInv /\ [Next]_vars => IInv'
  BY NextInv
<1>3. IInv => FreshOnChain
  BY IInvFresh
<1> QED BY <1>1, <1>2, <1>3, PTL DEF Spec
=============================================================================
