---------------------------- MODULE UliteProofs ----------------------------
(***************************************************************************)
(* The receive side of the serial line, for a fifo of any capacity and any  *)
(* number of characters: what holds however signals nest, and what holds    *)
(* until one of them comes in the middle of an operation.                   *)
(***************************************************************************)
EXTENDS Ulite, SequenceTheorems, TLAPS

-----------------------------------------------------------------------------
(* The programs of contexts *)

Ops == {"irq_load", "irq_up", "irq_down", "set_irq", "push_load", "push_store",
        "pop_load", "pop_size", "pop_head", "pop_elem", "enable"}
Steps == [op : Ops, arg : Nat]

\* Step t may come after step s.
Then(s, t) ==
  \/ s.op = "irq_load" /\ t.op \in {"irq_up", "irq_down"}
  \/ s.op = "irq_down" /\ t.op = "pop_load"
  \/ s.op = "pop_load" /\ t.op = "pop_size"
  \/ s.op = "pop_size" /\ t.op = "pop_head"
  \/ s.op = "pop_head" /\ t.op = "pop_elem"
  \/ s.op = "enable" /\ t.op = "irq_load"
  \/ s.op = "push_load" /\ t.op = "push_store"
  \/ s.op = "push_store" /\ t.op \in {"push_load", "set_irq"}

\* A program may end with step s.
Last(s) == s.op \in {"irq_up", "irq_down", "pop_elem", "set_irq", "enable"}

Prog(p) ==
  /\ p \in Seq(Steps)
  /\ \A i \in 1 .. Len(p) : i < Len(p) => Then(p[i], p[i + 1])
  /\ \A i \in 1 .. Len(p) : i = Len(p) => Last(p[i])

\* The step that clears the line, and the programs in which it is still to come.
Clear == Step("irq_down", XLNX_ULITE_IRQ_NO)
Clears(p) == \E i \in 1 .. Len(p) : p[i] = Clear

\* Main pushes nothing and raises the timer line only; it clears the line after
\* it has disabled interrupts.
MainStep(s) ==
  /\ s.op \notin {"push_load", "push_store", "set_irq"}
  /\ s.op = "irq_up" => s.arg = TimerIrq

MainProg(p) ==
  /\ Prog(p)
  /\ \A i \in 1 .. Len(p) : MainStep(p[i])
  /\ \A i \in 1 .. Len(p) :
       p[i].op = "enable" /\ p[i].arg # 1 => i + 2 <= Len(p) /\ p[i + 2] = Clear

\* A handler pushes, and ends with the announcement.
HandlerStep(s) ==
  /\ s.op \in {"push_load", "push_store", "set_irq", "irq_load", "irq_up"}
  /\ s.op = "irq_up" => s.arg = XLNX_ULITE_IRQ_NO
  /\ s.op = "push_store" => s.arg \in Chars

HandlerProg(p) ==
  /\ Prog(p)
  /\ p # <<>>
  /\ \A i \in 1 .. Len(p) : HandlerStep(p[i])

Announces(p) == \E i \in 1 .. Len(p) : p[i].op \in {"irq_load", "irq_up"}

At(p, ops) == p # <<>> /\ p[1].op \in ops

-----------------------------------------------------------------------------
(* The inductive invariant *)

Lines == {XLNX_ULITE_IRQ_NO, TimerIrq}
Frames == [ctx : {"main", "timer", "sigint", "sigtstp"}, prog : Seq(Steps), ip : SUBSET Lines,
           h : 0 .. Capacity - 1, s : 0 .. Capacity]

TypeOK ==
  /\ ulite_q \in R!Ring
  /\ intr_enabled \in BOOLEAN /\ owed \in BOOLEAN /\ split \in BOOLEAN
  /\ IP \in SUBSET Lines
  /\ frames \in Seq(Frames)
  /\ arrived \in 0 .. MaxChars
  /\ stdin \in Seq(Chars) /\ expect \in Seq(Chars)

\* Main is at the bottom, handlers are above it.
Stack ==
  /\ Len(frames) >= 1
  /\ frames[1].ctx = "main" /\ MainProg(frames[1].prog)
  /\ \A j \in 2 .. Len(frames) : frames[j].ctx # "main" /\ HandlerProg(frames[j].prog)

Clearing == Clears(frames[1].prog)

\* The line is down with interrupts disabled, unless main is about to clear it.
LineDown ==
  /\ \A j \in 2 .. Len(frames) : Announces(frames[j].prog) => intr_enabled
  /\ \/ intr_enabled
     \/ Clearing
     \/ /\ XLNX_ULITE_IRQ_NO \notin IP
        /\ At(frames[1].prog, {"irq_up", "irq_down"})
             => XLNX_ULITE_IRQ_NO \notin frames[1].ip

\* The ring r as a pop that is under way in f found it.
Found(f, r) == [head |-> f.h, size |-> f.s, e |-> r.e]
Popping(f) == At(f.prog, {"pop_size", "pop_head", "pop_elem"})
View(f, r) == IF Popping(f) THEN Found(f, r) ELSE r

\* What f has loaded of ring r and lines ip is what is there.
Loaded(f, r, ip) ==
  /\ At(f.prog, {"push_store", "pop_size"}) => f.h = r.head /\ f.s = r.size
  /\ At(f.prog, {"pop_head"})
       => r.head = f.h /\ r.size = IF f.s > 0 THEN f.s - 1 ELSE f.s
  /\ At(f.prog, {"pop_elem"}) => r = R!fifo_pop(Found(f, r))
  /\ At(f.prog, {"irq_up", "irq_down"}) => f.ip = ip

\* Until a signal comes in the middle of an operation.
Whole ==
  /\ \A j \in 1 .. Len(frames) - 1 : ~At(frames[j].prog, Middle)
  /\ Loaded(Top, ulite_q, IP)
  /\ R!fifo_foreach(View(Top, ulite_q)) = expect
  /\ owed => intr_enabled \/ Clearing
  /\ owed => XLNX_ULITE_IRQ_NO \in IP \/ Clearing \/ Len(frames) > 1

IInv == TypeOK /\ Stack /\ LineDown /\ (~split => Whole)

-----------------------------------------------------------------------------
(* The ring *)

LEMMA RingFields ==
  ASSUME NEW r \in R!Ring
  PROVE  /\ r.head \in 0 .. Capacity - 1 /\ r.size \in 0 .. Capacity
         /\ r.e \in [0 .. Capacity - 1 -> Chars]
         /\ Capacity \in Nat \ {0}
         /\ r = [head |-> r.head, size |-> r.size, e |-> r.e]
<1>1. r \in [head : 0 .. Capacity - 1, size : 0 .. Capacity, e : [0 .. Capacity - 1 -> Chars]]
  BY DEF R!Ring
<1> QED BY <1>1, UliteAssumption

LEMMA MakeRing ==
  ASSUME NEW h \in 0 .. Capacity - 1, NEW n \in 0 .. Capacity,
         NEW e \in [0 .. Capacity - 1 -> Chars]
  PROVE  [head |-> h, size |-> n, e |-> e] \in R!Ring
BY DEF R!Ring

-----------------------------------------------------------------------------
(* One step further in a program *)

LEMMA TailOf ==
  ASSUME NEW p \in Seq(Steps), p # <<>>
  PROVE  /\ Tail(p) \in Seq(Steps) /\ Len(Tail(p)) = Len(p) - 1
         /\ Len(p) \in Nat \ {0} /\ Head(p) = p[1] /\ p[1] \in Steps
         /\ \A i \in 1 .. Len(p) - 1 : Tail(p)[i] = p[i + 1] /\ i + 1 \in 1 .. Len(p)
         /\ Tail(p) # <<>> <=> 1 < Len(p)
<1>1. /\ Head(p) \in Steps /\ Tail(p) \in Seq(Steps) /\ Len(Tail(p)) = Len(p) - 1
      /\ \A i \in 1 .. Len(Tail(p)) : Tail(p)[i] = p[i + 1]
  BY HeadTailProperties
<1>2. Len(p) \in Nat \ {0}
  BY EmptySeq
<1>3. Head(p) = p[1]
  BY DEF Head
<1>4. Tail(p) # <<>> <=> Len(Tail(p)) # 0
  BY Zenon, <1>1, EmptySeq
<1> QED BY <1>1, <1>2, <1>3, <1>4

LEMMA ProgTail ==
  ASSUME NEW p, Prog(p), p # <<>>
  PROVE  /\ Prog(Tail(p))
         /\ Tail(p) # <<>> => Then(p[1], Tail(p)[1])
         /\ Tail(p) = <<>> => Last(p[1])
<1>1. p \in Seq(Steps)
  BY DEF Prog
<1> DEFINE t == Tail(p)
           n == Len(p)
<1>2. /\ t \in Seq(Steps) /\ Len(t) = n - 1 /\ n \in Nat \ {0}
      /\ \A i \in 1 .. n - 1 : t[i] = p[i + 1] /\ i + 1 \in 1 .. n
      /\ t # <<>> <=> 1 < n
  BY <1>1, TailOf
<1>3. /\ \A i \in 1 .. n : i < n => Then(p[i], p[i + 1])
      /\ \A i \in 1 .. n : i = n => Last(p[i])
  BY DEF Prog
<1> HIDE DEF t, n
<1>4. ASSUME NEW i \in 1 .. Len(t), i < Len(t) PROVE Then(t[i], t[i + 1])
  <2>1. i \in 1 .. n - 1 /\ i + 1 \in 1 .. n - 1 /\ i + 1 < n /\ i + 1 \in 1 .. n
    BY <1>2, <1>4
  <2>2. t[i] = p[i + 1] /\ t[i + 1] = p[(i + 1) + 1]
    BY <1>2, <2>1
  <2> QED BY <1>3, <2>1, <2>2
<1>5. ASSUME NEW i \in 1 .. Len(t), i = Len(t) PROVE Last(t[i])
  <2>1. i \in 1 .. n - 1 /\ i + 1 \in 1 .. n /\ i + 1 = n
    BY <1>2, <1>5
  <2> QED BY <1>2, <1>3, <2>1
<1>6. Prog(t)
  BY <1>2, <1>4, <1>5 DEF Prog
<1>7. t # <<>> => Then(p[1], t[1])
  <2>1. 1 < n => 1 \in 1 .. n /\ 1 \in 1 .. n - 1
    BY <1>2
  <2> QED BY <1>2, <1>3, <2>1
<1>8. t = <<>> => Last(p[1])
  <2>1. ~(1 < n) => n = 1 /\ 1 \in 1 .. n
    BY <1>2
  <2> QED BY <1>2, <1>3, <2>1
<1> QED BY <1>6, <1>7, <1>8 DEF t

LEMMA MainTail ==
  ASSUME NEW p, MainProg(p), p # <<>>
  PROVE  /\ MainProg(Tail(p)) /\ MainStep(p[1])
         /\ Clears(p) <=> p[1] = Clear \/ Clears(Tail(p))
         /\ p[1].op = "enable" /\ p[1].arg # 1 => Clears(Tail(p))
<1>1. Prog(p) /\ p \in Seq(Steps)
  BY DEF MainProg, Prog
<1> DEFINE t == Tail(p)
           n == Len(p)
<1>2. /\ t \in Seq(Steps) /\ Len(t) = n - 1 /\ n \in Nat \ {0}
      /\ \A i \in 1 .. n - 1 : t[i] = p[i + 1] /\ i + 1 \in 1 .. n
  BY <1>1, TailOf
<1>3. /\ \A i \in 1 .. n : MainStep(p[i])
      /\ \A i \in 1 .. n :
           p[i].op = "enable" /\ p[i].arg # 1 => i + 2 <= n /\ p[i + 2] = Clear
  BY DEF MainProg
<1>4. Prog(t)
  BY <1>1, ProgTail
<1>5. Clears(p) <=> \E i \in 1 .. n : p[i] = Clear
  BY DEF Clears
<1> HIDE DEF t, n
<1>6. \A i \in 1 .. Len(t) : MainStep(t[i])
  BY <1>2, <1>3
<1>7. ASSUME NEW i \in 1 .. Len(t), t[i].op = "enable", t[i].arg # 1
      PROVE  i + 2 <= Len(t) /\ t[i + 2] = Clear
  <2>1. i \in 1 .. n - 1 /\ i + 1 \in 1 .. n /\ t[i] = p[i + 1]
    BY <1>2
  <2>2. (i + 1) + 2 <= n /\ p[(i + 1) + 2] = Clear
    BY <1>3, <1>7, <2>1
  <2>3. i + 2 \in 1 .. n - 1 /\ (i + 2) + 1 = (i + 1) + 2 /\ i + 2 <= Len(t)
    BY <1>2, <2>2
  <2> QED BY <1>2, <2>2, <2>3
<1>8. MainProg(t)
  BY <1>4, <1>6, <1>7 DEF MainProg
<1>9. Clears(p) <=> p[1] = Clear \/ Clears(t)
  <2>1. 1 \in 1 .. n
    BY <1>2
  <2>2. ASSUME NEW i \in 1 .. n, p[i] = Clear, p[1] # Clear PROVE Clears(t)
    <3>1. i - 1 \in 1 .. n - 1 /\ (i - 1) + 1 = i
      BY <1>2, <2>2
    <3>2. t[i - 1] = p[i]
      BY <1>2, <3>1
    <3> QED BY <1>2, <2>2, <3>1, <3>2 DEF Clears
  <2>3. ASSUME NEW i \in 1 .. Len(t), t[i] = Clear PROVE \E k \in 1 .. n : p[k] = Clear
    BY <1>2, <2>3
  <2> QED BY <1>5, <2>1, <2>2, <2>3 DEF Clears
<1>10. p[1].op = "enable" /\ p[1].arg # 1 => Clears(t)
  <2>1. 1 \in 1 .. n
    BY <1>2
  <2>2. p[1].op = "enable" /\ p[1].arg # 1 => 3 <= n /\ p[3] = Clear
    BY <1>3, <2>1
  <2>3. 3 <= n => 2 \in 1 .. n - 1 /\ t[2] = p[3]
    BY <1>2
  <2> QED BY <1>2, <2>2, <2>3 DEF Clears
<1> QED BY <1>2, <1>3, <1>8, <1>9, <1>10 DEF t

LEMMA HandlerTail ==
  ASSUME NEW p, HandlerProg(p)
  PROVE  /\ HandlerStep(p[1])
         /\ Tail(p) # <<>> => HandlerProg(Tail(p))
         /\ Announces(Tail(p)) => Announces(p)
<1>1. Prog(p) /\ p \in Seq(Steps) /\ p # <<>>
  BY DEF HandlerProg, Prog
<1> DEFINE t == Tail(p)
           n == Len(p)
<1>2. /\ t \in Seq(Steps) /\ Len(t) = n - 1 /\ n \in Nat \ {0}
      /\ \A i \in 1 .. n - 1 : t[i] = p[i + 1] /\ i + 1 \in 1 .. n
  BY <1>1, TailOf
<1>3. \A i \in 1 .. n : HandlerStep(p[i])
  BY DEF HandlerProg
<1>4. Prog(t)
  BY <1>1, ProgTail
<1>5. Announces(p) <=> \E i \in 1 .. n : p[i].op \in {"irq_load", "irq_up"}
  BY DEF Announces
<1> HIDE DEF t, n
<1>6. \A i \in 1 .. Len(t) : HandlerStep(t[i])
  BY <1>2, <1>3
<1>7. Announces(t) => Announces(p)
  BY <1>2, <1>5 DEF Announces
<1> QED BY <1>2, <1>3, <1>4, <1>6, <1>7 DEF HandlerProg, t

-----------------------------------------------------------------------------
(* The stack of contexts *)

LEMMA FrameFields ==
  ASSUME NEW f \in Frames
  PROVE  /\ f.prog \in Seq(Steps) /\ f.ip \in SUBSET Lines
         /\ f.h \in 0 .. Capacity - 1 /\ f.s \in 0 .. Capacity
         /\ f = [ctx |-> f.ctx, prog |-> f.prog, ip |-> f.ip, h |-> f.h, s |-> f.s]
BY DEF Frames

LEMMA TopFacts ==
  ASSUME TypeOK, Stack
  PROVE  /\ Top \in Frames /\ Top.prog \in Seq(Steps) /\ Len(frames) \in Nat \ {0}
         /\ Len(frames) = 1 => Top = frames[1] /\ Top.ctx = "main" /\ MainProg(Top.prog)
         /\ Len(frames) > 1 => Top.ctx # "main" /\ HandlerProg(Top.prog)
<1>1. frames \in Seq(Frames) /\ Len(frames) \in Nat /\ Len(frames) >= 1
  BY DEF TypeOK, Stack
<1>2. Top \in Frames
  BY <1>1 DEF Top
<1>3. Top.prog \in Seq(Steps)
  BY <1>2, FrameFields
<1>4. Len(frames) = 1 => Top = frames[1] /\ Top.ctx = "main" /\ MainProg(Top.prog)
  BY DEF Stack, Top
<1>5. ASSUME Len(frames) > 1 PROVE Top.ctx # "main" /\ HandlerProg(Top.prog)
  <2>1. Len(frames) \in 2 .. Len(frames)
    BY <1>1, <1>5
  <2> QED BY Zenon, <2>1 DEF Stack, Top
<1> QED BY <1>1, <1>2, <1>3, <1>4, <1>5

LEMMA RestFacts ==
  ASSUME TypeOK, Stack, Top.prog # <<>>
  PROVE  /\ Rest \in Frames /\ Rest.ctx = Top.ctx /\ Rest.prog = Tail(Top.prog)
         /\ Rest.ip = Top.ip /\ Rest.h = Top.h /\ Rest.s = Top.s
<1> DEFINE t == Tail(Top.prog)
<1>1. Top \in Frames /\ t \in Seq(Steps)
  BY TopFacts, TailOf
<1> HIDE DEF t
<1>2. Rest = [Top EXCEPT !.prog = t]
  BY DEF Rest, t
<1>3. Rest = [ctx |-> Top.ctx, prog |-> t, ip |-> Top.ip, h |-> Top.h, s |-> Top.s]
  BY <1>1, <1>2 DEF Frames
<1>4. Rest \in Frames
  BY <1>1, <1>3 DEF Frames
<1> QED BY <1>3, <1>4 DEF t

LEMMA Continued ==
  ASSUME TypeOK, Stack, NEW f \in Frames, Continue(f), f.ctx = Top.ctx
  PROVE  /\ frames' \in Seq(Frames)
         /\ Len(frames) = 1 => Len(frames') = 1 /\ frames'[1] = f
         /\ Len(frames) > 1 => \A j \in 1 .. Len(frames) - 1 : frames'[j] = frames[j]
         /\ Len(frames) > 1 /\ f.prog = <<>> => Len(frames') = Len(frames) - 1
         /\ Len(frames) > 1 /\ f.prog # <<>>
              => Len(frames') = Len(frames) /\ frames'[Len(frames)] = f
<1> DEFINE n == Len(frames)
           b == Below
<1>1. frames \in Seq(Frames) /\ n \in Nat \ {0}
  BY TopFacts DEF TypeOK
<1>2. \A i \in 1 .. n - 1 : frames[i] \in Frames
  BY <1>1
<1>3. /\ b \in Seq(Frames) /\ Len(b) = n - 1
      /\ \A j \in 1 .. n - 1 : b[j] = frames[j]
  <2>1. b = SubSeq(frames, 1, n - 1) /\ 1 \in Int /\ n - 1 \in Int
    BY <1>1 DEF Below
  <2>2. /\ b \in Seq(Frames)
        /\ Len(b) = IF 1 <= n - 1 THEN (n - 1) - 1 + 1 ELSE 0
        /\ \A i \in 1 .. (n - 1) - 1 + 1 : b[i] = frames[1 + i - 1]
    <3> HIDE DEF b, n
    <3> QED BY <1>2, <2>1, SubSeqProperties
  <2>3. /\ (n - 1) - 1 + 1 = n - 1
        /\ (IF 1 <= n - 1 THEN n - 1 ELSE 0) = n - 1
        /\ \A i \in 1 .. n - 1 : 1 + i - 1 = i
    <3> HIDE DEF b, n
    <3> QED BY <1>1
  <2> HIDE DEF b, n
  <2> QED BY <2>2, <2>3
<1>4. frames' = IF f.prog = <<>> /\ f.ctx # "main" THEN b ELSE Append(b, f)
  BY DEF Continue
<1>5. f.ctx = "main" <=> n = 1
  <2>1. n = 1 \/ n > 1
    <3> HIDE DEF n
    <3> QED BY <1>1
  <2>2. (n = 1 => Top.ctx = "main") /\ (n > 1 => Top.ctx # "main") /\ ~(n = 1 /\ n > 1)
    BY <1>1, TopFacts
  <2> QED BY <2>1, <2>2
<1> HIDE DEF n, b
<1>6. /\ Append(b, f) \in Seq(Frames) /\ Len(Append(b, f)) = n
      /\ Append(b, f)[n] = f
      /\ \A j \in 1 .. n - 1 : Append(b, f)[j] = frames[j]
  BY <1>1, <1>3
<1> QED BY <1>1, <1>3, <1>4, <1>5, <1>6 DEF n

\* A context between two operations has nothing loaded that matters.
LEMMA Between ==
  ASSUME NEW f, NEW r, NEW ip, ~At(f.prog, Middle)
  PROVE  Loaded(f, r, ip) /\ View(f, r) = r
BY DEF At, Middle, Loaded, View, Popping

-----------------------------------------------------------------------------
(* The steps of a handler *)

\* What every step of a handler that goes on with f keeps.
LEMMA HandlerFrames ==
  ASSUME TypeOK, Stack, Len(frames) > 1,
         NEW f \in Frames, Continue(f), f.ctx = Top.ctx,
         f.prog = <<>> \/ HandlerProg(f.prog)
  PROVE  /\ frames' \in Seq(Frames) /\ Stack' /\ (Clearing' <=> Clearing)
         /\ frames'[1] = frames[1]
         /\ f.prog # <<>> => Top' = f /\ Len(frames') > 1
         /\ f.prog = <<>> => \E j \in 1 .. Len(frames) - 1 : Top' = frames[j]
         /\ Len(frames') <= Len(frames)
         /\ \A j \in 1 .. Len(frames') - 1 : j \in 1 .. Len(frames) - 1 /\ frames'[j] = frames[j]
         /\ \A j \in 2 .. Len(frames') :
              \/ j \in 2 .. Len(frames) - 1 /\ frames'[j] = frames[j]
              \/ frames'[j] = f /\ f.prog # <<>>
<1> DEFINE n == Len(frames)
           n2 == Len(frames')
<1>1. n \in Nat /\ n > 1
  BY TopFacts
<1>2. /\ frames' \in Seq(Frames)
      /\ \A j \in 1 .. n - 1 : frames'[j] = frames[j]
      /\ f.prog = <<>> => n2 = n - 1
      /\ f.prog # <<>> => n2 = n /\ frames'[n] = f
  BY Continued
<1>3. /\ frames[1].ctx = "main" /\ MainProg(frames[1].prog)
      /\ \A j \in 2 .. n : frames[j].ctx # "main" /\ HandlerProg(frames[j].prog)
      /\ Top.ctx # "main"
  BY TopFacts DEF Stack
<1>4. Top' = frames'[n2]
  BY DEF Top
<1>5. Stack' <=> /\ n2 >= 1
                 /\ frames'[1].ctx = "main" /\ MainProg(frames'[1].prog)
                 /\ \A j \in 2 .. n2 : frames'[j].ctx # "main" /\ HandlerProg(frames'[j].prog)
  BY DEF Stack
<1>6. Clearing = Clears(frames[1].prog) /\ Clearing' = Clears(frames'[1].prog)
  BY DEF Clearing
<1> HIDE DEF n, n2
<1>7. n2 = n \/ n2 = n - 1
  BY <1>2
<1>8. 1 \in 1 .. n - 1 /\ frames'[1] = frames[1]
  BY <1>1, <1>2
<1>9. ASSUME NEW j \in 2 .. n2
      PROVE  \/ j \in 2 .. n - 1 /\ frames'[j] = frames[j]
             \/ frames'[j] = f /\ f.prog # <<>>
  <2>1. CASE j \in 2 .. n - 1
    <3>1. j \in 1 .. n - 1
      BY <1>1, <2>1
    <3> QED BY <1>2, <2>1, <3>1
  <2>2. CASE j \notin 2 .. n - 1
    <3>1. n2 = n /\ j = n
      BY <1>1, <1>7, <2>2
    <3>2. n2 # n - 1
      BY <1>1, <3>1
    <3> QED BY <1>2, <3>1, <3>2
  <2> QED BY <2>1, <2>2
<1>10. Stack'
  <2>1. n2 >= 1
    BY <1>1, <1>7
  <2>2. ASSUME NEW j \in 2 .. n2 PROVE frames'[j].ctx # "main" /\ HandlerProg(frames'[j].prog)
    <3>1. 2 .. n - 1 \subseteq 2 .. n
      BY <1>1
    <3> QED BY <1>3, <1>9, <3>1
  <2> QED BY <1>3, <1>5, <1>8, <2>1, <2>2
<1>11. f.prog # <<>> => Top' = f /\ n2 > 1
  BY <1>1, <1>2, <1>4
<1>12. f.prog = <<>> => \E j \in 1 .. n - 1 : Top' = frames[j]
  <2>1. n - 1 \in 1 .. n - 1
    BY <1>1
  <2> QED BY <1>2, <1>4, <2>1
<1>13. n2 <= n /\ \A j \in 1 .. n2 - 1 : j \in 1 .. n - 1 /\ frames'[j] = frames[j]
  <2>1. n2 <= n /\ \A j \in 1 .. n2 - 1 : j \in 1 .. n - 1
    BY <1>1, <1>7
  <2> QED BY <1>2, <2>1
<1> QED BY <1>2, <1>6, <1>8, <1>9, <1>10, <1>11, <1>12, <1>13 DEF n, n2

\* The rest of the invariant after a step of a handler, from what the step does.
LEMMA HandlerKeeps ==
  ASSUME IInv, Len(frames) > 1,
         NEW f \in Frames, Continue(f), f.ctx = Top.ctx,
         f.prog = <<>> \/ HandlerProg(f.prog),
         UNCHANGED <<intr_enabled, stdin, arrived, split>>,
         ulite_q' \in R!Ring, IP' \in SUBSET Lines, expect' \in Seq(Chars), owed' \in BOOLEAN,
         Announces(f.prog) => intr_enabled,
         intr_enabled \/ IP' = IP,
         ~split => /\ f.prog # <<>> => Loaded(f, ulite_q', IP')
                                        /\ R!fifo_foreach(View(f, ulite_q')) = expect'
                   /\ f.prog = <<>> => R!fifo_foreach(ulite_q') = expect'
                   /\ owed' => intr_enabled \/ Clearing
                   /\ owed' => \/ XLNX_ULITE_IRQ_NO \in IP'
                               \/ Clearing
                               \/ f.prog # <<>>
  PROVE  IInv'
<1>1. TypeOK /\ Stack /\ LineDown
  BY DEF IInv
<1>2. /\ frames' \in Seq(Frames) /\ Stack' /\ (Clearing' <=> Clearing)
      /\ frames'[1] = frames[1]
      /\ f.prog # <<>> => Top' = f /\ Len(frames') > 1
      /\ f.prog = <<>> => \E j \in 1 .. Len(frames) - 1 : Top' = frames[j]
      /\ \A j \in 1 .. Len(frames') - 1 : j \in 1 .. Len(frames) - 1 /\ frames'[j] = frames[j]
      /\ \A j \in 2 .. Len(frames') :
           \/ j \in 2 .. Len(frames) - 1 /\ frames'[j] = frames[j]
           \/ frames'[j] = f /\ f.prog # <<>>
  BY <1>1, HandlerFrames
<1>3. TypeOK'
  BY <1>1, <1>2 DEF TypeOK
<1>4. LineDown'
  <2>1. ASSUME NEW j \in 2 .. Len(frames'), Announces(frames'[j].prog) PROVE intr_enabled'
    <3>1. \A k \in 2 .. Len(frames) - 1 : k \in 2 .. Len(frames)
      BY <1>1, TopFacts
    <3>2. \A k \in 2 .. Len(frames) : Announces(frames[k].prog) => intr_enabled
      BY <1>1 DEF LineDown
    <3> QED BY <1>2, <2>1, <3>1, <3>2
  <2>2. \/ intr_enabled'
        \/ Clearing'
        \/ /\ XLNX_ULITE_IRQ_NO \notin IP'
           /\ At(frames'[1].prog, {"irq_up", "irq_down"})
                => XLNX_ULITE_IRQ_NO \notin frames'[1].ip
    BY <1>1, <1>2 DEF LineDown
  <2> QED BY <2>1, <2>2 DEF LineDown
<1>5. ASSUME ~split PROVE Whole'
  <2>1. /\ \A j \in 1 .. Len(frames) - 1 : ~At(frames[j].prog, Middle)
    BY <1>5 DEF IInv, Whole
  <2>2. \A j \in 1 .. Len(frames') - 1 : ~At(frames'[j].prog, Middle)
    BY <1>2, <2>1
  <2>3. Loaded(Top', ulite_q', IP') /\ R!fifo_foreach(View(Top', ulite_q')) = expect'
    <3>1. CASE f.prog # <<>>
      BY Zenon, <1>2, <1>5, <3>1
    <3>2. CASE f.prog = <<>>
      <4>1. ~At(Top'.prog, Middle)
        BY Zenon, <1>2, <2>1, <3>2
      <4>2. Loaded(Top', ulite_q', IP') /\ View(Top', ulite_q') = ulite_q'
        BY <4>1, Between
      <4> QED BY Zenon, <1>5, <3>2, <4>2
    <3> QED BY Zenon, <3>1, <3>2
  <2>4. owed' => intr_enabled' \/ Clearing'
    BY <1>2, <1>5
  <2>5. owed' => XLNX_ULITE_IRQ_NO \in IP' \/ Clearing' \/ Len(frames') > 1
    BY <1>2, <1>5
  <2> QED BY Zenon, <2>2, <2>3, <2>4, <2>5 DEF Whole
<1> QED BY Zenon, <1>2, <1>3, <1>4, <1>5 DEF IInv

\* The first step of a program, and the program that is left.
LEMMA Taken ==
  ASSUME IInv, NEW op, Take(op)
  PROVE  /\ TypeOK /\ Stack /\ Top \in Frames /\ Top.prog # <<>>
         /\ Top.prog[1].op = op /\ Arg = Top.prog[1].arg /\ Top.prog[1] \in Steps
         /\ Rest \in Frames /\ Rest.ctx = Top.ctx /\ Rest.prog = Tail(Top.prog)
         /\ Rest.ip = Top.ip /\ Rest.h = Top.h /\ Rest.s = Top.s
         /\ Prog(Top.prog)
         /\ Rest.prog # <<>> => Then(Top.prog[1], Rest.prog[1])
         /\ Rest.prog = <<>> => Last(Top.prog[1])
<1>1. TypeOK /\ Stack /\ Top.prog # <<>> /\ Head(Top.prog).op = op
  BY DEF IInv, Take
<1>2. /\ Top \in Frames /\ Top.prog \in Seq(Steps)
  BY <1>1, TopFacts
<1>3. Head(Top.prog) = Top.prog[1] /\ Top.prog[1] \in Steps
  BY <1>1, <1>2, TailOf
<1>4. Prog(Top.prog)
  <2> DEFINE n == Len(frames)
  <2>1. n \in Nat \ {0}
    BY <1>1, TopFacts
  <2>2. (n = 1 => MainProg(Top.prog)) /\ (n > 1 => HandlerProg(Top.prog))
    BY <1>1, TopFacts
  <2> HIDE DEF n
  <2>3. n = 1 \/ n > 1
    BY <2>1
  <2> QED BY <2>2, <2>3 DEF MainProg, HandlerProg
<1>5. /\ Tail(Top.prog) # <<>> => Then(Top.prog[1], Tail(Top.prog)[1])
      /\ Tail(Top.prog) = <<>> => Last(Top.prog[1])
  BY <1>1, <1>4, ProgTail
<1>6. /\ Rest \in Frames /\ Rest.ctx = Top.ctx /\ Rest.prog = Tail(Top.prog)
      /\ Rest.ip = Top.ip /\ Rest.h = Top.h /\ Rest.s = Top.s
  BY <1>1, RestFacts
<1> QED BY Zenon, <1>1, <1>2, <1>3, <1>4, <1>5, <1>6 DEF Arg

\* A handler that takes a step: what may come next.
LEMMA HandlerTaken ==
  ASSUME IInv, Len(frames) > 1, NEW op, Take(op)
  PROVE  /\ op \in {"push_load", "push_store", "set_irq", "irq_load", "irq_up"}
         /\ op = "irq_up" => Arg = XLNX_ULITE_IRQ_NO
         /\ op = "push_store" => Arg \in Chars
         /\ op \in {"irq_load", "irq_up"} => intr_enabled
         /\ Rest.prog = <<>> \/ HandlerProg(Rest.prog)
         /\ Announces(Rest.prog) => intr_enabled
         /\ op \in {"push_load", "push_store", "irq_load"} => Rest.prog # <<>>
         /\ op \in {"set_irq", "irq_up"} => Rest.prog = <<>>
         /\ op = "push_load" => Rest.prog[1].op = "push_store"
         /\ op = "push_store" => Rest.prog[1].op \in {"push_load", "set_irq"}
         /\ op = "irq_load" => Rest.prog[1].op = "irq_up"
<1>1. /\ TypeOK /\ Stack /\ Top.prog # <<>> /\ Top.prog[1].op = op /\ Arg = Top.prog[1].arg
      /\ Rest.prog = Tail(Top.prog)
      /\ Rest.prog # <<>> => Then(Top.prog[1], Rest.prog[1])
      /\ Rest.prog = <<>> => Last(Top.prog[1])
  BY Taken
<1>2. HandlerProg(Top.prog) /\ Len(frames) \in Nat
  BY <1>1, TopFacts
<1>3. /\ HandlerStep(Top.prog[1])
      /\ Rest.prog # <<>> => HandlerProg(Rest.prog)
      /\ Announces(Rest.prog) => Announces(Top.prog)
  BY <1>1, <1>2, HandlerTail
<1>4. op \in {"irq_load", "irq_up"} => Announces(Top.prog)
  <2>1. Len(Top.prog) \in Nat \ {0}
    BY <1>1, TopFacts, TailOf
  <2>2. 1 \in 1 .. Len(Top.prog)
    BY <2>1
  <2> QED BY Zenon, <1>1, <2>2 DEF Announces
<1>5. Announces(Top.prog) => intr_enabled
  <2>1. Len(frames) \in 2 .. Len(frames)
    BY <1>2
  <2> QED BY <2>1 DEF IInv, LineDown, Top
<1>6. Rest.prog # <<>> => HandlerStep(Rest.prog[1])
  BY <1>3, HandlerTail
<1>7. op \in {"push_load", "push_store", "set_irq", "irq_load", "irq_up"}
  BY <1>1, <1>3 DEF HandlerStep
<1>8. op \in {"push_load", "push_store", "irq_load"} => Rest.prog # <<>>
  BY <1>1 DEF Last
<1>9. op \in {"set_irq", "irq_up"} => Rest.prog = <<>>
  BY <1>1 DEF Then
<1>10. /\ op = "push_load" => Rest.prog[1].op = "push_store"
       /\ op = "push_store" => Rest.prog[1].op \in {"push_load", "set_irq"}
  BY <1>1, <1>8 DEF Then
<1>11. op = "irq_load" => Rest.prog[1].op = "irq_up"
  BY <1>1, <1>6, <1>8 DEF Then, HandlerStep
<1> QED BY Zenon, <1>1, <1>3, <1>4, <1>5, <1>7, <1>8, <1>9, <1>10, <1>11 DEF HandlerStep

LEMMA WholeFacts ==
  ASSUME IInv, ~split
  PROVE  /\ Loaded(Top, ulite_q, IP)
         /\ R!fifo_foreach(View(Top, ulite_q)) = expect
         /\ owed => intr_enabled \/ Clearing
         /\ owed => XLNX_ULITE_IRQ_NO \in IP \/ Clearing \/ Len(frames) > 1
BY DEF IInv, Whole

LEMMA HandlerIrqLoad ==
  ASSUME IInv, Len(frames) > 1, IrqLoad, UNCHANGED split
  PROVE  IInv'
<1> DEFINE f == [Rest EXCEPT !.ip = IP]
<1>1. /\ Take("irq_load") /\ Continue(f)
      /\ UNCHANGED <<ulite_q, intr_enabled, IP, stdin, arrived, expect, owed>>
  BY DEF IrqLoad
<1>2. /\ TypeOK /\ Rest \in Frames /\ Rest.ctx = Top.ctx /\ Top.prog # <<>>
      /\ Top.prog[1].op = "irq_load"
  BY <1>1, Taken
<1>3. /\ Rest.prog # <<>> /\ HandlerProg(Rest.prog) /\ Rest.prog[1].op = "irq_up"
      /\ intr_enabled
  BY <1>1, HandlerTaken
<1>4. /\ ulite_q \in R!Ring /\ IP \in SUBSET Lines /\ expect \in Seq(Chars) /\ owed \in BOOLEAN
  BY <1>2 DEF TypeOK
<1>5. f \in Frames /\ f.ctx = Top.ctx /\ f.prog = Rest.prog /\ f.ip = IP
  BY <1>2, <1>4 DEF Frames
<1> HIDE DEF f
<1>6. Loaded(f, ulite_q, IP)
  BY <1>3, <1>5 DEF Loaded, At
<1>7. View(f, ulite_q) = ulite_q /\ View(Top, ulite_q) = ulite_q
  BY <1>2, <1>3, <1>5 DEF View, Popping, At
<1> QED BY <1>1, <1>3, <1>4, <1>5, <1>6, <1>7, WholeFacts, HandlerKeeps

LEMMA HandlerIrqUp ==
  ASSUME IInv, Len(frames) > 1, IrqUp, UNCHANGED split
  PROVE  IInv'
<1>1. /\ Take("irq_up") /\ Continue(Rest) /\ IP' = Top.ip \union {Arg}
      /\ UNCHANGED <<ulite_q, intr_enabled, stdin, arrived, expect, owed>>
  BY DEF IrqUp
<1>2. /\ TypeOK /\ Rest \in Frames /\ Rest.ctx = Top.ctx /\ Top.prog # <<>>
      /\ Top.prog[1].op = "irq_up" /\ Top \in Frames
  BY <1>1, Taken
<1>3. Rest.prog = <<>> /\ intr_enabled /\ Arg = XLNX_ULITE_IRQ_NO
  BY <1>1, HandlerTaken
<1>4. /\ ulite_q \in R!Ring /\ IP' \in SUBSET Lines /\ expect \in Seq(Chars) /\ owed \in BOOLEAN
  BY Zenon, <1>1, <1>2, <1>3, FrameFields DEF TypeOK, Lines
<1>5. View(Top, ulite_q) = ulite_q
  BY <1>2 DEF View, Popping, At
<1>6. XLNX_ULITE_IRQ_NO \in IP' /\ ~(Rest.prog # <<>>)
  BY <1>1, <1>3
<1> QED BY <1>1, <1>2, <1>3, <1>4, <1>5, <1>6, WholeFacts, HandlerKeeps

LEMMA HandlerSetIrq ==
  ASSUME IInv, Len(frames) > 1, SetIrq, UNCHANGED split
  PROVE  IInv'
<1> DEFINE a == nemu_set_irq(XLNX_ULITE_IRQ_NO, TRUE)
           f == [Rest EXCEPT !.prog = a \o @]
<1>1. /\ Take("set_irq")
      /\ intr_enabled => Continue(f)
      /\ ~intr_enabled => Continue(Rest)
      /\ UNCHANGED <<ulite_q, intr_enabled, IP, stdin, arrived, expect, owed>>
  BY DEF SetIrq
<1>2. /\ TypeOK /\ Rest \in Frames /\ Rest.ctx = Top.ctx /\ Top.prog # <<>>
      /\ Top.prog[1].op = "set_irq"
  BY <1>1, Taken
<1>3. Rest.prog = <<>>
  BY <1>1, HandlerTaken
<1>4. /\ ulite_q \in R!Ring /\ IP \in SUBSET Lines /\ expect \in Seq(Chars) /\ owed \in BOOLEAN
  BY <1>2 DEF TypeOK
<1>5. View(Top, ulite_q) = ulite_q
  BY <1>2 DEF View, Popping, At
<1>6. CASE intr_enabled
  <2>1. a = <<Step("irq_load", 0), Step("irq_up", XLNX_ULITE_IRQ_NO)>>
    BY DEF nemu_set_irq
  <2>2. a \in Seq(Steps) /\ Len(a) = 2 /\ a # <<>>
        /\ a[1] = Step("irq_load", 0) /\ a[2] = Step("irq_up", XLNX_ULITE_IRQ_NO)
    <3>1. Step("irq_load", 0) \in Steps /\ Step("irq_up", XLNX_ULITE_IRQ_NO) \in Steps
      BY DEF Steps, Step, Ops, XLNX_ULITE_IRQ_NO
    <3> HIDE DEF a
    <3> QED BY <2>1, <3>1
  <2> HIDE DEF a
  <2>3. a \o <<>> = a
    BY <2>2, ConcatEmptySeq
  <2>4. f \in Frames /\ f.ctx = Top.ctx /\ f.prog = a
    BY <1>2, <1>3, <2>2, <2>3 DEF Frames
  <2> HIDE DEF f
  <2>5. HandlerProg(a)
    BY <2>2 DEF HandlerProg, Prog, HandlerStep, Then, Last, Step
  <2>6. Loaded(f, ulite_q, IP) /\ View(f, ulite_q) = ulite_q
    BY <2>2, <2>4 DEF Loaded, View, Popping, At, Step
  <2> QED BY <1>1, <1>4, <1>5, <1>6, <2>2, <2>4, <2>5, <2>6, WholeFacts, HandlerKeeps
<1>7. CASE ~intr_enabled
  <2>1. ~Announces(Rest.prog) /\ ~(Rest.prog # <<>>)
    BY <1>3 DEF Announces
  <2> QED BY <1>1, <1>2, <1>3, <1>4, <1>5, <1>7, <2>1, WholeFacts, HandlerKeeps
<1> QED BY <1>6, <1>7

LEMMA HandlerPushLoad ==
  ASSUME IInv, Len(frames) > 1, PushLoad, UNCHANGED split
  PROVE  IInv'
<1> DEFINE f == [Rest EXCEPT !.h = ulite_q.head, !.s = ulite_q.size]
<1>1. /\ Take("push_load") /\ Continue(f)
      /\ UNCHANGED <<ulite_q, intr_enabled, IP, stdin, arrived, expect, owed>>
  BY DEF PushLoad
<1>2. /\ TypeOK /\ Rest \in Frames /\ Rest.ctx = Top.ctx /\ Top.prog # <<>>
      /\ Top.prog[1].op = "push_load"
  BY <1>1, Taken
<1>3. /\ Rest.prog # <<>> /\ HandlerProg(Rest.prog) /\ Rest.prog[1].op = "push_store"
      /\ Announces(Rest.prog) => intr_enabled
  BY <1>1, HandlerTaken
<1>4. /\ ulite_q \in R!Ring /\ IP \in SUBSET Lines /\ expect \in Seq(Chars) /\ owed \in BOOLEAN
      /\ ulite_q.head \in 0 .. Capacity - 1 /\ ulite_q.size \in 0 .. Capacity
  BY <1>2, RingFields DEF TypeOK
<1>5. /\ f \in Frames /\ f.ctx = Top.ctx /\ f.prog = Rest.prog
      /\ f.h = ulite_q.head /\ f.s = ulite_q.size
  BY Zenon, <1>2, <1>4 DEF Frames
<1> HIDE DEF f
<1>6. Loaded(f, ulite_q, IP)
  BY <1>3, <1>5 DEF Loaded, At
<1>7. View(f, ulite_q) = ulite_q /\ View(Top, ulite_q) = ulite_q
  BY <1>2, <1>3, <1>5 DEF View, Popping, At
<1> QED BY <1>1, <1>3, <1>4, <1>5, <1>6, <1>7, WholeFacts, HandlerKeeps

-----------------------------------------------------------------------------
(* The steps of main *)

\* The invariant after a step of main that goes on with f, or of the guest that
\* starts with f, from what the step does.
LEMMA MainKeeps ==
  ASSUME IInv, NEW f \in Frames,
         frames' \in Seq(Frames), Len(frames') = 1, frames'[1] = f,
         f.ctx = "main", MainProg(f.prog),
         UNCHANGED <<stdin, arrived, split>>,
         ulite_q' \in R!Ring, IP' \in SUBSET Lines, expect' \in Seq(Chars),
         owed' \in BOOLEAN, intr_enabled' \in BOOLEAN,
         \/ intr_enabled'
         \/ Clears(f.prog)
         \/ /\ XLNX_ULITE_IRQ_NO \notin IP'
            /\ At(f.prog, {"irq_up", "irq_down"}) => XLNX_ULITE_IRQ_NO \notin f.ip,
         ~split => /\ Loaded(f, ulite_q', IP')
                   /\ R!fifo_foreach(View(f, ulite_q')) = expect'
                   /\ owed' => intr_enabled' \/ Clears(f.prog)
                   /\ owed' => XLNX_ULITE_IRQ_NO \in IP' \/ Clears(f.prog)
  PROVE  IInv'
<1>1. TypeOK'
  BY DEF IInv, TypeOK
<1>2. 2 .. Len(frames') = {} /\ 1 .. Len(frames') - 1 = {} /\ Len(frames') >= 1
  OBVIOUS
<1>3. Top' = f /\ (Clearing' <=> Clears(f.prog))
  BY Zenon DEF Top, Clearing
<1>4. Stack'
  BY <1>2 DEF Stack
<1>5. LineDown'
  BY Zenon, <1>2, <1>3 DEF LineDown
<1>6. ~split => Whole'
  BY Zenon, <1>2, <1>3 DEF Whole
<1> QED BY Zenon, <1>1, <1>4, <1>5, <1>6 DEF IInv

\* Main takes a step: what may come next.
LEMMA MainTaken ==
  ASSUME IInv, Len(frames) = 1, NEW op, Take(op)
  PROVE  /\ op \notin {"push_load", "push_store", "set_irq"}
         /\ op = "irq_up" => Arg = TimerIrq
         /\ Top.ctx = "main"
         /\ MainProg(Rest.prog)
         /\ op # "irq_down" \/ Arg # XLNX_ULITE_IRQ_NO => (Clearing <=> Clears(Rest.prog))
         /\ op = "enable" /\ Arg # 1 => Clears(Rest.prog)
         /\ op \in {"irq_load", "pop_load", "pop_size", "pop_head"} => Rest.prog # <<>>
         /\ op \in {"irq_up", "pop_elem"} => Rest.prog = <<>>
         /\ op \in {"irq_up", "irq_down", "enable", "pop_elem"} => ~At(Rest.prog, Middle)
         /\ op = "irq_load" => Rest.prog[1].op \in {"irq_up", "irq_down"}
         /\ op = "pop_load" => Rest.prog[1].op = "pop_size"
         /\ op = "pop_size" => Rest.prog[1].op = "pop_head"
         /\ op = "pop_head" => Rest.prog[1].op = "pop_elem"
         /\ \/ intr_enabled
            \/ Clearing
            \/ /\ XLNX_ULITE_IRQ_NO \notin IP
               /\ op \in {"irq_up", "irq_down"} => XLNX_ULITE_IRQ_NO \notin Top.ip
<1>1. /\ TypeOK /\ Stack /\ Top.prog # <<>> /\ Top.prog[1].op = op /\ Arg = Top.prog[1].arg
      /\ Rest.prog = Tail(Top.prog)
      /\ Rest.prog # <<>> => Then(Top.prog[1], Rest.prog[1])
      /\ Rest.prog = <<>> => Last(Top.prog[1])
  BY Taken
<1>2. MainProg(Top.prog) /\ Top = frames[1] /\ Top.ctx = "main"
  BY <1>1, TopFacts
<1>3. /\ MainStep(Top.prog[1])
      /\ MainProg(Rest.prog)
      /\ Clears(Top.prog) <=> Top.prog[1] = Clear \/ Clears(Rest.prog)
      /\ op = "enable" /\ Arg # 1 => Clears(Rest.prog)
  <2>1. /\ MainStep(Top.prog[1])
        /\ MainProg(Tail(Top.prog))
        /\ Clears(Top.prog) <=> Top.prog[1] = Clear \/ Clears(Tail(Top.prog))
        /\ Top.prog[1].op = "enable" /\ Top.prog[1].arg # 1 => Clears(Tail(Top.prog))
    BY <1>1, <1>2, MainTail
  <2> QED BY Zenon, <1>1, <2>1
<1>4. Top.prog[1] = Clear => op = "irq_down" /\ Arg = XLNX_ULITE_IRQ_NO
  BY <1>1 DEF Clear, Step
<1>5. op # "irq_down" \/ Arg # XLNX_ULITE_IRQ_NO => (Clearing <=> Clears(Rest.prog))
  BY Zenon, <1>2, <1>3, <1>4 DEF Clearing
<1>6. op \notin {"push_load", "push_store", "set_irq"} /\ (op = "irq_up" => Arg = TimerIrq)
  BY <1>1, <1>3 DEF MainStep
<1>7. op \in {"irq_load", "pop_load", "pop_size", "pop_head"} => Rest.prog # <<>>
  BY <1>1 DEF Last
<1>8. op \in {"irq_up", "pop_elem"} => Rest.prog = <<>>
  BY <1>1 DEF Then
<1>9. op \in {"irq_up", "irq_down", "enable", "pop_elem"} => ~At(Rest.prog, Middle)
  BY <1>1 DEF Then, At, Middle
<1>10. /\ op = "irq_load" => Rest.prog[1].op \in {"irq_up", "irq_down"}
       /\ op = "pop_load" => Rest.prog[1].op = "pop_size"
       /\ op = "pop_size" => Rest.prog[1].op = "pop_head"
       /\ op = "pop_head" => Rest.prog[1].op = "pop_elem"
  BY <1>1, <1>7 DEF Then
<1>11. \/ intr_enabled
       \/ Clearing
       \/ /\ XLNX_ULITE_IRQ_NO \notin IP
          /\ op \in {"irq_up", "irq_down"} => XLNX_ULITE_IRQ_NO \notin Top.ip
  BY Zenon, <1>1, <1>2 DEF IInv, LineDown, At
<1> QED BY Zenon, <1>2, <1>3, <1>5, <1>6, <1>7, <1>8, <1>9, <1>10, <1>11

\* Main goes on with f.
LEMMA MainContinues ==
  ASSUME IInv, Len(frames) = 1, NEW f \in Frames, Continue(f), f.ctx = Top.ctx
  PROVE  frames' \in Seq(Frames) /\ Len(frames') = 1 /\ frames'[1] = f
BY Zenon, Continued DEF IInv

LEMMA MainIrqLoad ==
  ASSUME IInv, Len(frames) = 1, IrqLoad, UNCHANGED split
  PROVE  IInv'
<1> DEFINE f == [Rest EXCEPT !.ip = IP]
<1>1. /\ Take("irq_load") /\ Continue(f)
      /\ UNCHANGED <<ulite_q, intr_enabled, IP, stdin, arrived, expect, owed>>
  BY DEF IrqLoad
<1>2. /\ TypeOK /\ Rest \in Frames /\ Rest.ctx = Top.ctx /\ Top.prog # <<>>
      /\ Top.prog[1].op = "irq_load"
  BY <1>1, Taken
<1>3. /\ Rest.prog # <<>> /\ MainProg(Rest.prog) /\ Rest.prog[1].op \in {"irq_up", "irq_down"}
      /\ Top.ctx = "main" /\ (Clearing <=> Clears(Rest.prog))
      /\ intr_enabled \/ Clearing \/ XLNX_ULITE_IRQ_NO \notin IP
  BY <1>1, MainTaken
<1>4. /\ ulite_q \in R!Ring /\ IP \in SUBSET Lines /\ expect \in Seq(Chars)
      /\ owed \in BOOLEAN /\ intr_enabled \in BOOLEAN
  BY <1>2 DEF TypeOK
<1>5. f \in Frames /\ f.ctx = Top.ctx /\ f.prog = Rest.prog /\ f.ip = IP
  BY <1>2, <1>4 DEF Frames
<1> HIDE DEF f
<1>6. Loaded(f, ulite_q, IP)
  BY <1>3, <1>5 DEF Loaded, At
<1>7. View(f, ulite_q) = ulite_q /\ View(Top, ulite_q) = ulite_q
  BY <1>2, <1>3, <1>5 DEF View, Popping, At
<1>8. frames' \in Seq(Frames) /\ Len(frames') = 1 /\ frames'[1] = f
  BY <1>1, <1>5, MainContinues
<1>9. ~split /\ owed => (intr_enabled \/ Clearing) /\ (XLNX_ULITE_IRQ_NO \in IP \/ Clearing)
  BY WholeFacts
<1> QED BY <1>1, <1>3, <1>4, <1>5, <1>6, <1>7, <1>8, <1>9, WholeFacts, MainKeeps

LEMMA MainIrqUp ==
  ASSUME IInv, Len(frames) = 1, IrqUp, UNCHANGED split
  PROVE  IInv'
<1>1. /\ Take("irq_up") /\ Continue(Rest) /\ IP' = Top.ip \union {Arg}
      /\ UNCHANGED <<ulite_q, intr_enabled, stdin, arrived, expect, owed>>
  BY DEF IrqUp
<1>2. /\ TypeOK /\ Rest \in Frames /\ Rest.ctx = Top.ctx /\ Top.prog # <<>>
      /\ Top.prog[1].op = "irq_up" /\ Top \in Frames
  BY <1>1, Taken
<1>3. /\ Rest.prog = <<>> /\ MainProg(Rest.prog) /\ Arg = TimerIrq
      /\ Top.ctx = "main" /\ (Clearing <=> Clears(Rest.prog)) /\ ~At(Rest.prog, Middle)
      /\ intr_enabled \/ Clearing \/ XLNX_ULITE_IRQ_NO \notin Top.ip
  BY <1>1, MainTaken
<1>4. /\ ulite_q \in R!Ring /\ expect \in Seq(Chars)
      /\ owed \in BOOLEAN /\ intr_enabled \in BOOLEAN
  BY <1>2 DEF TypeOK
<1>5. IP' \in SUBSET Lines
  BY Zenon, <1>1, <1>2, <1>3, FrameFields DEF Lines
<1>6. XLNX_ULITE_IRQ_NO \in IP' <=> XLNX_ULITE_IRQ_NO \in Top.ip
  BY <1>1, <1>3 DEF XLNX_ULITE_IRQ_NO, TimerIrq
<1>7. /\ View(Rest, ulite_q) = ulite_q /\ View(Top, ulite_q) = ulite_q
      /\ Loaded(Rest, ulite_q, IP')
  BY <1>2, <1>3 DEF View, Popping, At, Loaded
<1>8. frames' \in Seq(Frames) /\ Len(frames') = 1 /\ frames'[1] = Rest
  BY <1>1, <1>2, MainContinues
<1>9. ~split => /\ Top.ip = IP
                /\ R!fifo_foreach(ulite_q) = expect
                /\ owed => intr_enabled \/ Clearing
                /\ owed => XLNX_ULITE_IRQ_NO \in IP \/ Clearing
  BY <1>2, <1>7, WholeFacts DEF Loaded, At
<1>10. ~At(Rest.prog, {"irq_up", "irq_down"})
  BY <1>3 DEF At
<1> QED BY Zenon, <1>1, <1>2, <1>3, <1>4, <1>5, <1>6, <1>7, <1>8, <1>9, <1>10, MainKeeps

LEMMA MainIrqDown ==
  ASSUME IInv, Len(frames) = 1, IrqDown, UNCHANGED split
  PROVE  IInv'
<1>1. /\ Take("irq_down") /\ Continue(Rest) /\ IP' = Top.ip \ {Arg}
      /\ owed' = (owed /\ Arg # XLNX_ULITE_IRQ_NO)
      /\ UNCHANGED <<ulite_q, intr_enabled, stdin, arrived, expect>>
  BY DEF IrqDown
<1>2. /\ TypeOK /\ Rest \in Frames /\ Rest.ctx = Top.ctx /\ Top.prog # <<>>
      /\ Top.prog[1].op = "irq_down" /\ Top \in Frames
  BY <1>1, Taken
<1>3. /\ MainProg(Rest.prog)
      /\ Top.ctx = "main" /\ ~At(Rest.prog, Middle)
      /\ Arg # XLNX_ULITE_IRQ_NO => (Clearing <=> Clears(Rest.prog))
      /\ intr_enabled \/ Clearing \/ XLNX_ULITE_IRQ_NO \notin Top.ip
  BY <1>1, MainTaken
<1>4. /\ ulite_q \in R!Ring /\ expect \in Seq(Chars)
      /\ owed' \in BOOLEAN /\ intr_enabled \in BOOLEAN
  BY <1>1, <1>2 DEF TypeOK
<1>5. IP' \in SUBSET Lines
  BY Zenon, <1>1, <1>2, <1>3, FrameFields DEF Lines
<1>6. XLNX_ULITE_IRQ_NO \in IP' <=> XLNX_ULITE_IRQ_NO \in Top.ip /\ Arg # XLNX_ULITE_IRQ_NO
  BY <1>1
<1>7. /\ View(Rest, ulite_q) = ulite_q /\ Loaded(Rest, ulite_q, IP')
  BY <1>3, Between
<1>8. View(Top, ulite_q) = ulite_q
  BY <1>2 DEF View, Popping, At
<1>9. frames' \in Seq(Frames) /\ Len(frames') = 1 /\ frames'[1] = Rest
  BY <1>1, <1>2, MainContinues
<1>10. ~split => /\ Top.ip = IP
                 /\ R!fifo_foreach(ulite_q) = expect
                 /\ owed => intr_enabled \/ Clearing
                 /\ owed => XLNX_ULITE_IRQ_NO \in IP \/ Clearing
  BY <1>2, <1>8, WholeFacts DEF Loaded, At
<1>11. ~At(Rest.prog, {"irq_up", "irq_down"})
  BY <1>3 DEF At, Middle
<1> QED BY Zenon, <1>1, <1>2, <1>3, <1>4, <1>5, <1>6, <1>7, <1>9, <1>10, <1>11, MainKeeps

LEMMA MainPopLoad ==
  ASSUME IInv, Len(frames) = 1, PopLoad, UNCHANGED split
  PROVE  IInv'
<1> DEFINE f == [Rest EXCEPT !.h = ulite_q.head, !.s = ulite_q.size]
<1>1. /\ Take("pop_load") /\ Continue(f)
      /\ UNCHANGED <<ulite_q, intr_enabled, IP, stdin, arrived, expect, owed>>
  BY DEF PopLoad
<1>2. /\ TypeOK /\ Rest \in Frames /\ Rest.ctx = Top.ctx /\ Top.prog # <<>>
      /\ Top.prog[1].op = "pop_load"
  BY <1>1, Taken
<1>3. /\ Rest.prog # <<>> /\ MainProg(Rest.prog) /\ Rest.prog[1].op = "pop_size"
      /\ Top.ctx = "main" /\ (Clearing <=> Clears(Rest.prog))
      /\ intr_enabled \/ Clearing \/ XLNX_ULITE_IRQ_NO \notin IP
  BY <1>1, MainTaken
<1>4. /\ ulite_q \in R!Ring /\ IP \in SUBSET Lines /\ expect \in Seq(Chars)
      /\ owed \in BOOLEAN /\ intr_enabled \in BOOLEAN
  BY <1>2 DEF TypeOK
<1>5. /\ ulite_q.head \in 0 .. Capacity - 1 /\ ulite_q.size \in 0 .. Capacity
      /\ ulite_q = [head |-> ulite_q.head, size |-> ulite_q.size, e |-> ulite_q.e]
  BY <1>4, RingFields
<1>6. /\ f \in Frames /\ f.ctx = Top.ctx /\ f.prog = Rest.prog
      /\ f.h = ulite_q.head /\ f.s = ulite_q.size
  BY Zenon, <1>2, <1>5 DEF Frames
<1> HIDE DEF f
<1>7. Loaded(f, ulite_q, IP) /\ ~At(f.prog, {"irq_up", "irq_down"})
  BY <1>3, <1>6 DEF Loaded, At
<1>8. View(f, ulite_q) = ulite_q
  BY <1>5, <1>6 DEF View, Found
<1>9. View(Top, ulite_q) = ulite_q
  BY <1>2 DEF View, Popping, At
<1>10. frames' \in Seq(Frames) /\ Len(frames') = 1 /\ frames'[1] = f
  BY <1>1, <1>6, MainContinues
<1>11. ~split => /\ R!fifo_foreach(ulite_q) = expect
                 /\ owed => (intr_enabled \/ Clearing) /\ (XLNX_ULITE_IRQ_NO \in IP \/ Clearing)
  BY <1>9, WholeFacts
<1> QED BY Zenon, <1>1, <1>3, <1>4, <1>6, <1>7, <1>8, <1>10, <1>11, MainKeeps

\* A step of a pop that changes the ring to r and leaves the rest as it is.
LEMMA PopKeeps ==
  ASSUME IInv, Len(frames) = 1, NEW op \in {"pop_size", "pop_head"}, Take(op),
         Continue(Rest),
         UNCHANGED <<intr_enabled, IP, stdin, arrived, expect, owed, split>>,
         ulite_q' \in R!Ring, ulite_q'.e = ulite_q.e,
         ~split => Loaded(Rest, ulite_q', IP)
  PROVE  IInv'
<1>2. /\ TypeOK /\ Rest \in Frames /\ Rest.ctx = Top.ctx /\ Top.prog # <<>>
      /\ Top.prog[1].op = op /\ Rest.h = Top.h /\ Rest.s = Top.s
  BY Taken
<1>3. /\ Rest.prog # <<>> /\ MainProg(Rest.prog) /\ Rest.prog[1].op \in {"pop_head", "pop_elem"}
      /\ Top.ctx = "main" /\ (Clearing <=> Clears(Rest.prog))
      /\ intr_enabled \/ Clearing \/ XLNX_ULITE_IRQ_NO \notin IP
  BY MainTaken
<1>4. /\ IP \in SUBSET Lines /\ expect \in Seq(Chars)
      /\ owed \in BOOLEAN /\ intr_enabled \in BOOLEAN
  BY <1>2 DEF TypeOK
<1>5. View(Rest, ulite_q') = Found(Rest, ulite_q') /\ View(Top, ulite_q) = Found(Top, ulite_q)
  BY <1>2, <1>3 DEF View, Popping, At
<1>6. Found(Rest, ulite_q') = Found(Top, ulite_q)
  BY <1>2 DEF Found
<1>7. frames' \in Seq(Frames) /\ Len(frames') = 1 /\ frames'[1] = Rest
  BY <1>2, MainContinues
<1>8. ~split => /\ R!fifo_foreach(Found(Top, ulite_q)) = expect
                /\ owed => (intr_enabled \/ Clearing) /\ (XLNX_ULITE_IRQ_NO \in IP \/ Clearing)
  BY <1>5, WholeFacts
<1>9. ~At(Rest.prog, {"irq_up", "irq_down"})
  BY <1>3 DEF At
<1> QED BY Zenon, <1>2, <1>3, <1>4, <1>5, <1>6, <1>7, <1>8, <1>9, MainKeeps

LEMMA MainPopSize ==
  ASSUME IInv, Len(frames) = 1, PopSize, UNCHANGED split
  PROVE  IInv'
<1>1. /\ Take("pop_size") /\ Continue(Rest)
      /\ ulite_q' = IF Top.s > 0 THEN [ulite_q EXCEPT !.size = Top.s - 1] ELSE ulite_q
      /\ UNCHANGED <<intr_enabled, IP, stdin, arrived, expect, owed>>
  BY DEF PopSize
<1>2. /\ TypeOK /\ Top \in Frames /\ Top.prog # <<>>
      /\ Top.prog[1].op = "pop_size" /\ Rest.h = Top.h /\ Rest.s = Top.s
  BY <1>1, Taken
<1>3. Rest.prog[1].op = "pop_head"
  BY <1>1, MainTaken
<1>4. /\ ulite_q = [head |-> ulite_q.head, size |-> ulite_q.size, e |-> ulite_q.e]
      /\ ulite_q.head \in 0 .. Capacity - 1 /\ ulite_q.size \in 0 .. Capacity
      /\ ulite_q.e \in [0 .. Capacity - 1 -> Chars]
      /\ Top.s \in 0 .. Capacity /\ Capacity \in Nat \ {0}
  BY <1>2, RingFields, FrameFields DEF TypeOK
<1> DEFINE n == IF Top.s > 0 THEN Top.s - 1 ELSE ulite_q.size
<1>5. n \in 0 .. Capacity
  BY <1>4
<1>6. ulite_q' = [head |-> ulite_q.head, size |-> n, e |-> ulite_q.e]
  BY <1>1, <1>4
<1>7. ulite_q' \in R!Ring
  <2> HIDE DEF n
  <2> QED BY <1>4, <1>5, <1>6, MakeRing
<1>8. ~split => Top.h = ulite_q.head /\ Top.s = ulite_q.size
  BY <1>2, WholeFacts DEF Loaded, At
<1>9. /\ ulite_q'.head = ulite_q.head /\ ulite_q'.e = ulite_q.e
      /\ ~split => ulite_q'.size = IF Top.s > 0 THEN Top.s - 1 ELSE Top.s
  BY <1>6, <1>8
<1>10. ~split => Loaded(Rest, ulite_q', IP)
  <2> HIDE DEF n
  <2> QED BY <1>2, <1>3, <1>8, <1>9 DEF Loaded, At
<1> QED BY Zenon, <1>1, <1>7, <1>9, <1>10, PopKeeps

LEMMA MainPopHead ==
  ASSUME IInv, Len(frames) = 1, PopHead, UNCHANGED split
  PROVE  IInv'
<1>1. /\ Take("pop_head") /\ Continue(Rest)
      /\ ulite_q' = IF Top.s > 0 THEN [ulite_q EXCEPT !.head = (Top.h + 1) % Capacity] ELSE ulite_q
      /\ UNCHANGED <<intr_enabled, IP, stdin, arrived, expect, owed>>
  BY DEF PopHead
<1>2. /\ TypeOK /\ Top \in Frames /\ Top.prog # <<>>
      /\ Top.prog[1].op = "pop_head" /\ Rest.h = Top.h /\ Rest.s = Top.s
  BY <1>1, Taken
<1>3. Rest.prog[1].op = "pop_elem"
  BY <1>1, MainTaken
<1>4. /\ ulite_q = [head |-> ulite_q.head, size |-> ulite_q.size, e |-> ulite_q.e]
      /\ ulite_q.head \in 0 .. Capacity - 1 /\ ulite_q.size \in 0 .. Capacity
      /\ ulite_q.e \in [0 .. Capacity - 1 -> Chars]
      /\ Top.h \in 0 .. Capacity - 1 /\ Top.s \in 0 .. Capacity /\ Capacity \in Nat \ {0}
  BY <1>2, RingFields, FrameFields DEF TypeOK
<1> DEFINE m == (Top.h + 1) % Capacity
           h == IF Top.s > 0 THEN m ELSE ulite_q.head
<1>5. h \in 0 .. Capacity - 1
  <2>1. m \in 0 .. Capacity - 1
    BY <1>4
  <2> QED BY <1>4, <2>1
<1>6. ulite_q' = [head |-> h, size |-> ulite_q.size, e |-> ulite_q.e]
  <2> HIDE DEF m
  <2> QED BY <1>1, <1>4 DEF m
<1>7. ulite_q' \in R!Ring
  <2> HIDE DEF h
  <2> QED BY <1>4, <1>5, <1>6, MakeRing
<1>8. ~split => /\ Top.h = ulite_q.head
                /\ ulite_q.size = IF Top.s > 0 THEN Top.s - 1 ELSE Top.s
  BY <1>2, WholeFacts DEF Loaded, At
<1>9. ulite_q'.e = ulite_q.e
  BY <1>6
<1>10. ASSUME ~split PROVE ulite_q' = R!fifo_pop(Found(Rest, ulite_q'))
  <2>1. Found(Rest, ulite_q') = [head |-> Top.h, size |-> Top.s, e |-> ulite_q.e]
    BY <1>2, <1>9 DEF Found
  <2>2. R!fifo_pop(Found(Rest, ulite_q'))
          = IF Top.s > 0 THEN [head |-> m, size |-> Top.s - 1, e |-> ulite_q.e]
            ELSE [head |-> Top.h, size |-> Top.s, e |-> ulite_q.e]
    <3> HIDE DEF m
    <3> QED BY <2>1 DEF R!fifo_pop, m
  <2> HIDE DEF m
  <2> QED BY <1>6, <1>8, <1>10, <2>2
<1>11. ~split => Loaded(Rest, ulite_q', IP)
  <2> HIDE DEF h, m
  <2> QED BY <1>3, <1>10 DEF Loaded, At
<1> QED BY Zenon, <1>1, <1>7, <1>9, <1>11, PopKeeps

LEMMA MainEnable ==
  ASSUME IInv, Len(frames) = 1, Enable, UNCHANGED split
  PROVE  IInv'
<1>1. /\ Take("enable") /\ Continue(Rest) /\ intr_enabled' = (Arg = 1)
      /\ UNCHANGED <<ulite_q, IP, stdin, arrived, expect, owed>>
  BY DEF Enable
<1>2. /\ TypeOK /\ Rest \in Frames /\ Rest.ctx = Top.ctx
      /\ Top.prog # <<>> /\ Top.prog[1].op = "enable"
  BY <1>1, Taken
<1>3. /\ MainProg(Rest.prog) /\ ~At(Rest.prog, Middle)
      /\ Top.ctx = "main" /\ (Clearing <=> Clears(Rest.prog))
      /\ Arg = 1 \/ Clears(Rest.prog)
  BY <1>1, MainTaken
<1>4. /\ ulite_q \in R!Ring /\ IP \in SUBSET Lines /\ expect \in Seq(Chars)
      /\ owed \in BOOLEAN /\ intr_enabled' \in BOOLEAN
  BY <1>1, <1>2 DEF TypeOK
<1>5. Loaded(Rest, ulite_q, IP) /\ View(Rest, ulite_q) = ulite_q
  BY <1>3, Between
<1>6. View(Top, ulite_q) = ulite_q
  BY <1>2 DEF View, Popping, At
<1>7. frames' \in Seq(Frames) /\ Len(frames') = 1 /\ frames'[1] = Rest
  BY <1>1, <1>2, MainContinues
<1>8. ~split => /\ R!fifo_foreach(ulite_q) = expect
                /\ owed => XLNX_ULITE_IRQ_NO \in IP \/ Clearing
  BY <1>6, WholeFacts
<1> QED BY Zenon, <1>1, <1>2, <1>3, <1>4, <1>5, <1>7, <1>8, MainKeeps

-----------------------------------------------------------------------------
(* Signals *)

\* A handler's program before it has started.
Fresh(p) == HandlerProg(p) /\ ~Announces(p) /\ ~At(p, Middle)

\* What a handler pushes, and the announcement after it.
LEMMA PushesSteps ==
  ASSUME NEW chars \in Seq(Chars), chars # <<>>,
         NEW p, p = xlnx_ulite_update_irq(chars),
         NEW n, n = 2 * Len(chars)
  PROVE  /\ Len(chars) \in Nat \ {0}
         /\ p \in Seq(Steps) /\ Len(p) = n + 1 /\ p[n + 1] = Step("set_irq", 0)
         /\ \A i \in 1 .. n : /\ i % 2 = 1 => p[i].op = "push_load"
                              /\ i % 2 = 0 => p[i].op = "push_store" /\ p[i].arg \in Chars
<1> DEFINE m == Len(chars)
           q == Pushes(chars)
<1>1. m \in Nat \ {0} /\ \A k \in 1 .. m : chars[k] \in Chars
  BY EmptySeq
<1>2. Chars \subseteq Nat
  BY UliteAssumption DEF Chars
<1>3. ASSUME NEW ch \in Chars
      PROVE  /\ fifo_push(ch)[1] = Step("push_load", ch) /\ fifo_push(ch)[2] = Step("push_store", ch)
             /\ Step("push_load", ch) \in Steps /\ Step("push_store", ch) \in Steps
  BY <1>2 DEF fifo_push, Step, Steps, Ops
<1>4. q = [i \in 1 .. n |-> fifo_push(chars[(i + 1) \div 2])[2 - (i % 2)]]
  BY DEF Pushes
<1> HIDE DEF m, q
<1>5. n = 2 * m
  BY DEF m
<1>6. ASSUME NEW i \in 1 .. n
      PROVE  /\ (i + 1) \div 2 \in 1 .. m
             /\ i % 2 = 1 \/ i % 2 = 0
             /\ i % 2 = 1 => 2 - (i % 2) = 1
             /\ i % 2 = 0 => 2 - (i % 2) = 2
  BY <1>1, <1>5
<1>7. ASSUME NEW i \in 1 .. n
      PROVE  /\ q[i] \in Steps
             /\ i % 2 = 1 => q[i].op = "push_load"
             /\ i % 2 = 0 => q[i].op = "push_store" /\ q[i].arg \in Chars
  <2> DEFINE ch == chars[(i + 1) \div 2]
  <2>1. ch \in Chars
    BY <1>1, <1>6
  <2>2. q[i] = fifo_push(ch)[2 - (i % 2)]
    BY <1>4
  <2> HIDE DEF ch
  <2>3. /\ i % 2 = 1 => q[i] = Step("push_load", ch)
        /\ i % 2 = 0 => q[i] = Step("push_store", ch)
    BY <1>3, <1>6, <2>1, <2>2
  <2>4. Step("push_load", ch) \in Steps /\ Step("push_store", ch) \in Steps
    BY <1>3, <2>1
  <2>5. /\ Step("push_load", ch).op = "push_load" /\ Step("push_store", ch).op = "push_store"
        /\ Step("push_store", ch).arg = ch
    BY DEF Step
  <2>6. i % 2 = 1 \/ i % 2 = 0
    BY <1>6
  <2> QED BY Zenon, <2>1, <2>3, <2>4, <2>5, <2>6
<1>8. q \in Seq(Steps) /\ Len(q) = n
  <2>1. n \in Nat
    BY <1>1, <1>5
  <2>2. q \in [1 .. n -> Steps]
    BY <1>4, <1>7
  <2> QED BY <2>1, <2>2
<1>9. p = q \o <<Step("set_irq", 0)>> /\ Step("set_irq", 0) \in Steps
  BY DEF xlnx_ulite_update_irq, xlnx_ulite_set_irq, q, Step, Steps, Ops
<1>10. /\ p \in Seq(Steps) /\ Len(p) = n + 1 /\ p[n + 1] = Step("set_irq", 0)
       /\ \A i \in 1 .. n : p[i] = q[i]
  <2> DEFINE x == Step("set_irq", 0)
  <2>1. n \in Nat
    BY <1>1, <1>5
  <2>2. p = q \o <<x>> /\ x \in Steps
    BY <1>9
  <2> HIDE DEF x
  <2>3. p = Append(q, x)
    BY <1>8, <2>2, AppendIsConcat
  <2> QED BY <1>8, <2>1, <2>2, <2>3, AppendProperties DEF x
<1> QED BY <1>1, <1>7, <1>10 DEF m

LEMMA UpdateIrqFresh ==
  ASSUME NEW chars \in Seq(Chars), chars # <<>>
  PROVE  Fresh(xlnx_ulite_update_irq(chars))
<1> DEFINE p == xlnx_ulite_update_irq(chars)
           m == Len(chars)
           n == 2 * m
<1>1. /\ m \in Nat \ {0}
      /\ p \in Seq(Steps) /\ Len(p) = n + 1 /\ p[n + 1] = Step("set_irq", 0)
      /\ \A i \in 1 .. n : /\ i % 2 = 1 => p[i].op = "push_load"
                           /\ i % 2 = 0 => p[i].op = "push_store" /\ p[i].arg \in Chars
  BY PushesSteps
<1>2. p[n + 1].op = "set_irq"
  BY <1>1 DEF Step
<1> HIDE DEF p, m
<1>3. ASSUME NEW i \in 1 .. n + 1
      PROVE  \/ i = n + 1 /\ p[i].op = "set_irq"
             \/ i \in 1 .. n /\ i + 1 \in 1 .. n /\ (i + 1) % 2 = 0 /\ p[i].op = "push_load"
             \/ i \in 1 .. n /\ i + 1 \in 1 .. n /\ (i + 1) % 2 = 1 /\ p[i].op = "push_store"
                                                         /\ p[i].arg \in Chars
             \/ i \in 1 .. n /\ i + 1 = n + 1 /\ p[i].op = "push_store" /\ p[i].arg \in Chars
  <2>1. \/ i = n + 1
        \/ i \in 1 .. n /\ i % 2 = 1 /\ i + 1 \in 1 .. n /\ (i + 1) % 2 = 0
        \/ i \in 1 .. n /\ i % 2 = 0 /\ i + 1 \in 1 .. n /\ (i + 1) % 2 = 1
        \/ i \in 1 .. n /\ i % 2 = 0 /\ i + 1 = n + 1
    BY <1>1
  <2> HIDE DEF n
  <2> QED BY Zenon, <1>1, <1>2, <2>1
<1>4. n \in Nat /\ n + 1 \in Nat /\ 1 \in 1 .. n + 1 /\ 1 \in 1 .. n /\ 1 % 2 = 1
  BY <1>1
<1> HIDE DEF n
<1>5. \A i \in 1 .. n + 1 : HandlerStep(p[i])
  <2> TAKE i \in 1 .. n + 1
  <2> QED BY <1>3 DEF HandlerStep
<1>6. \A i \in 1 .. n + 1 : p[i].op \notin {"irq_load", "irq_up"}
  <2> TAKE i \in 1 .. n + 1
  <2> QED BY <1>3
<1>7. ASSUME NEW i \in 1 .. n + 1, i < n + 1 PROVE Then(p[i], p[i + 1])
  <2>1. i # n + 1
    BY <1>4, <1>7
  <2>2. \/ p[i].op = "push_load" /\ p[i + 1].op = "push_store"
        \/ p[i].op = "push_store" /\ p[i + 1].op \in {"push_load", "set_irq"}
    BY Zenon, <1>1, <1>2, <1>3, <2>1
  <2> QED BY <2>2 DEF Then
<1>8. \A i \in 1 .. n + 1 : i = n + 1 => Last(p[i])
  BY <1>2 DEF Last
<1>9. Prog(p)
  BY Zenon, <1>1, <1>7, <1>8 DEF Prog
<1>10. p # <<>>
  BY <1>1, <1>4, EmptySeq
<1>11. ~At(p, Middle)
  <2>1. p[1].op = "push_load"
    BY <1>1, <1>4
  <2> QED BY <2>1 DEF At, Middle
<1>12. HandlerProg(p) /\ ~Announces(p)
  BY Zenon, <1>1, <1>5, <1>6, <1>9, <1>10 DEF HandlerProg, Announces
<1> QED BY <1>11, <1>12 DEF Fresh, p

LEMMA CtrlCodeFresh ==
  ASSUME NEW ch \in Chars
  PROVE  Fresh(ulite_ctrl_code_handler(ch))
<1> DEFINE p == ulite_ctrl_code_handler(ch)
<1>1. ch \in Nat
  BY UliteAssumption DEF Chars
<1>2. Step("push_load", ch) \in Steps /\ Step("push_store", ch) \in Steps /\ Step("set_irq", 0) \in Steps
  BY <1>1 DEF Step, Steps, Ops
<1>3. p = <<Step("push_load", ch), Step("push_store", ch)>> \o <<Step("set_irq", 0)>>
  BY DEF ulite_ctrl_code_handler, fifo_push, xlnx_ulite_set_irq
<1> HIDE DEF p
<1>4. /\ p \in Seq(Steps) /\ Len(p) = 3 /\ p # <<>>
      /\ p[1] = Step("push_load", ch) /\ p[2] = Step("push_store", ch) /\ p[3] = Step("set_irq", 0)
  BY <1>2, <1>3
<1>5. p[1].op = "push_load" /\ p[2].op = "push_store" /\ p[2].arg = ch /\ p[3].op = "set_irq"
  BY <1>4 DEF Step
<1>6. HandlerProg(p)
  BY <1>4, <1>5 DEF HandlerProg, Prog, HandlerStep, Then, Last
<1>7. ~Announces(p) /\ ~At(p, Middle)
  BY <1>4, <1>5 DEF Announces, At, Middle
<1> QED BY <1>6, <1>7 DEF Fresh, p

LEMMA Appended ==
  ASSUME NEW S, NEW q \in Seq(S), NEW e \in S, NEW r, r = Append(q, e)
  PROVE  /\ r \in Seq(S) /\ Len(r) = Len(q) + 1 /\ r[Len(q) + 1] = e
         /\ \A j \in 1 .. Len(q) : r[j] = q[j]
OBVIOUS

\* A signal puts a handler on top of whatever runs.
LEMMA InterruptKeeps ==
  ASSUME IInv, NEW ctx \in {"timer", "sigint", "sigtstp"}, NEW p, Fresh(p), Interrupt(ctx, p),
         UNCHANGED <<ulite_q, intr_enabled, IP, expect, owed>>,
         stdin' \in Seq(Chars), arrived' \in 0 .. MaxChars
  PROVE  IInv'
<1> DEFINE f == Frame(ctx, p)
           n == Len(frames)
<1>1. TypeOK /\ Stack /\ LineDown
  BY DEF IInv
<1>2. /\ frames \in Seq(Frames) /\ n \in Nat \ {0}
      /\ Top \in Frames /\ Top.prog \in Seq(Steps) /\ Top = frames[n]
  BY <1>1, TopFacts DEF TypeOK, Top
<1>3. /\ frames' = Append(frames, f) /\ split' = (split \/ InMiddle)
      /\ HandlerProg(p) /\ ~Announces(p) /\ ~At(p, Middle) /\ p \in Seq(Steps)
  BY DEF Interrupt, Fresh, HandlerProg, Prog
<1>4. f \in Frames /\ f.prog = p /\ f.ctx # "main"
  <2>1. 0 \in 0 .. Capacity - 1 /\ 0 \in 0 .. Capacity
    BY UliteAssumption
  <2> QED BY <1>3, <2>1 DEF Frame, Frames
<1> HIDE DEF f, n
<1>5. /\ frames' \in Seq(Frames) /\ Len(frames') = n + 1 /\ frames'[n + 1] = f
      /\ \A j \in 1 .. n : frames'[j] = frames[j]
  <2>1. frames \in Seq(Frames) /\ f \in Frames /\ frames' = Append(frames, f)
    BY Zenon, <1>2, <1>3, <1>4
  <2>2. /\ frames' \in Seq(Frames) /\ Len(frames') = Len(frames) + 1
        /\ frames'[Len(frames) + 1] = f
        /\ \A j \in 1 .. Len(frames) : frames'[j] = frames[j]
    BY <2>1
  <2> QED BY Zenon, <2>2 DEF n
<1>6. 1 \in 1 .. n /\ n + 1 >= 1 /\ n + 1 > 1 /\ (n + 1) - 1 = n
      /\ \A j \in 2 .. n + 1 : j = n + 1 \/ (j \in 2 .. n /\ j \in 1 .. n)
  BY <1>2
<1>7. frames'[1] = frames[1] /\ Top' = f
  BY <1>5, <1>6 DEF Top
<1>8. Clearing' <=> Clearing
  BY <1>7 DEF Clearing
<1>9. split' \in BOOLEAN
  BY <1>1, <1>3 DEF TypeOK, InMiddle
<1>10. TypeOK'
  BY <1>1, <1>5, <1>9 DEF TypeOK
<1>11. Stack'
  <2>1. /\ frames[1].ctx = "main" /\ MainProg(frames[1].prog)
        /\ \A j \in 2 .. n : frames[j].ctx # "main" /\ HandlerProg(frames[j].prog)
    BY <1>1 DEF Stack, n
  <2>2. \A j \in 2 .. n + 1 : frames'[j].ctx # "main" /\ HandlerProg(frames'[j].prog)
    BY Zenon, <1>3, <1>4, <1>5, <1>6, <2>1
  <2> QED BY Zenon, <1>5, <1>6, <1>7, <2>1, <2>2 DEF Stack
<1>12. LineDown'
  <2>1. \A j \in 2 .. n : Announces(frames[j].prog) => intr_enabled
    BY <1>1 DEF LineDown, n
  <2>2. \A j \in 2 .. n + 1 : Announces(frames'[j].prog) => intr_enabled
    BY Zenon, <1>3, <1>4, <1>5, <1>6, <2>1
  <2>3. \/ intr_enabled
        \/ Clearing
        \/ /\ XLNX_ULITE_IRQ_NO \notin IP
           /\ At(frames[1].prog, {"irq_up", "irq_down"})
                => XLNX_ULITE_IRQ_NO \notin frames[1].ip
    BY <1>1 DEF LineDown
  <2> QED BY Zenon, <1>5, <1>7, <1>8, <2>2, <2>3 DEF LineDown
<1>13. ASSUME ~split' PROVE Whole'
  <2>1. ~split /\ ~At(Top.prog, Middle)
    <3>1. Top.prog # <<>> => Head(Top.prog) = Top.prog[1]
      BY <1>2, TailOf
    <3> QED BY Zenon, <1>3, <1>13, <3>1 DEF InMiddle, At
  <2>2. /\ \A j \in 1 .. n - 1 : ~At(frames[j].prog, Middle)
        /\ R!fifo_foreach(View(Top, ulite_q)) = expect
        /\ owed => intr_enabled \/ Clearing
    BY Zenon, <2>1 DEF IInv, Whole, n
  <2>3. \A j \in 1 .. n : j = n \/ j \in 1 .. n - 1
    BY <1>2
  <2>4. \A j \in 1 .. n : ~At(frames'[j].prog, Middle)
    BY Zenon, <1>2, <1>5, <2>1, <2>2, <2>3
  <2>5. R!fifo_foreach(ulite_q) = expect
    BY Zenon, <2>1, <2>2, Between
  <2>6. Loaded(f, ulite_q, IP) /\ View(f, ulite_q) = ulite_q
    BY Zenon, <1>3, <1>4, Between
  <2> QED BY Zenon, <1>5, <1>6, <1>7, <1>8, <2>2, <2>4, <2>5, <2>6 DEF Whole
<1> QED BY Zenon, <1>10, <1>11, <1>12, <1>13 DEF IInv

LEMMA EnvironmentKeeps ==
  ASSUME IInv, Environment
  PROVE  IInv' /\ expect' = expect
<1>1. /\ TypeOK /\ arrived \in 0 .. MaxChars /\ MaxChars \in Nat /\ stdin \in Seq(Chars)
  BY UliteAssumption DEF IInv, TypeOK
<1>2. arrived < MaxChars => arrived + 1 \in 0 .. MaxChars /\ arrived + 1 \in Chars
  BY <1>1 DEF Chars
<1>3. CASE Type
  <2>1. stdin' \in Seq(Chars) /\ arrived' \in 0 .. MaxChars
    BY <1>1, <1>2, <1>3, AppendProperties DEF Type
  <2>2. /\ UNCHANGED <<ulite_q, intr_enabled, IP, frames, expect, owed, split>>
    BY <1>3 DEF Type
  <2>3. TypeOK'
    BY <1>1, <2>1, <2>2 DEF TypeOK
  <2>4. (Stack' <=> Stack) /\ (LineDown' <=> LineDown) /\ (Whole' <=> Whole)
    BY Zenon, <2>2 DEF Stack, LineDown, Whole, Clearing, Top
  <2> QED BY <2>2, <2>3, <2>4 DEF IInv
<1>4. CASE SigVtAlrm
  <2>1. /\ stdin # <<>> /\ Interrupt("timer", xlnx_ulite_update_irq(stdin)) /\ stdin' = <<>>
        /\ UNCHANGED <<ulite_q, intr_enabled, IP, arrived, expect, owed>>
    BY <1>4 DEF SigVtAlrm
  <2>2. Fresh(xlnx_ulite_update_irq(stdin))
    BY <1>1, <2>1, UpdateIrqFresh
  <2>3. stdin' \in Seq(Chars) /\ arrived' \in 0 .. MaxChars
    BY <1>1, <2>1
  <2> QED BY Zenon, <2>1, <2>2, <2>3, InterruptKeeps
<1>5. ASSUME NEW sig \in {"sigint", "sigtstp"}, CtrlKey(sig)
      PROVE  IInv' /\ expect' = expect
  <2>1. /\ arrived < MaxChars /\ Interrupt(sig, ulite_ctrl_code_handler(arrived + 1))
        /\ arrived' = arrived + 1
        /\ UNCHANGED <<ulite_q, intr_enabled, IP, stdin, expect, owed>>
    BY <1>5 DEF CtrlKey
  <2>2. Fresh(ulite_ctrl_code_handler(arrived + 1))
    BY <1>2, <2>1, CtrlCodeFresh
  <2>3. stdin' \in Seq(Chars) /\ arrived' \in 0 .. MaxChars
    BY <1>1, <1>2, <2>1
  <2> QED BY Zenon, <2>1, <2>2, <2>3, InterruptKeeps
<1> QED BY Zenon, <1>3, <1>4, <1>5 DEF Environment

-----------------------------------------------------------------------------
(* The guest *)

LEMMA EmptyProg == MainProg(<<>>) /\ ~Clears(<<>>)
BY DEF MainProg, Prog, Clears

\* The four things the guest does.
LEMMA SetIrqProg ==
  ASSUME NEW line \in Nat, NEW val \in BOOLEAN, val => line = TimerIrq
  PROVE  MainProg(nemu_set_irq(line, val)) /\ ~At(nemu_set_irq(line, val), Middle)
<1> DEFINE p == nemu_set_irq(line, val)
           op == IF val THEN "irq_up" ELSE "irq_down"
<1>1. p = <<Step("irq_load", 0), Step(op, line)>>
  BY DEF nemu_set_irq
<1>2. Step("irq_load", 0) \in Steps /\ Step(op, line) \in Steps
  BY DEF Step, Steps, Ops
<1> HIDE DEF p, op
<1>3. /\ p \in Seq(Steps) /\ Len(p) = 2 /\ p # <<>>
      /\ p[1] = Step("irq_load", 0) /\ p[2] = Step(op, line)
  BY <1>1, <1>2
<1>4. /\ p[1].op = "irq_load" /\ p[2].op \in {"irq_up", "irq_down"}
      /\ p[2].op = "irq_up" => p[2].arg = TimerIrq
  BY <1>3 DEF Step, op
<1>5. Prog(p)
  BY <1>3, <1>4 DEF Prog, Then, Last
<1>6. MainProg(p)
  BY <1>3, <1>4, <1>5 DEF MainProg, MainStep
<1> QED BY <1>3, <1>4, <1>6 DEF At, Middle, p

LEMMA WriteCtrlProg ==
  ASSUME NEW b \in BOOLEAN
  PROVE  MainProg(xlnx_ulite_write_ctrl(b)) /\ ~At(xlnx_ulite_write_ctrl(b), Middle)
<1> DEFINE p == xlnx_ulite_write_ctrl(b)
<1>1. /\ Step("enable", 1) \in Steps /\ Step("enable", 0) \in Steps
      /\ Step("irq_load", 0) \in Steps /\ Clear \in Steps
  BY DEF Step, Steps, Ops, Clear, XLNX_ULITE_IRQ_NO
<1>2. CASE b
  <2>1. p = <<Step("enable", 1)>>
    BY <1>2 DEF xlnx_ulite_write_ctrl
  <2> HIDE DEF p
  <2>2. p \in Seq(Steps) /\ Len(p) = 1 /\ p # <<>> /\ p[1] = Step("enable", 1)
    BY <1>1, <2>1
  <2>3. p[1].op = "enable" /\ p[1].arg = 1
    BY <2>2 DEF Step
  <2> QED BY <2>2, <2>3 DEF MainProg, Prog, MainStep, Then, Last, At, Middle, p
<1>3. CASE ~b
  <2>1. p = <<Step("enable", 0)>> \o <<Step("irq_load", 0), Clear>>
    BY <1>3 DEF xlnx_ulite_write_ctrl, nemu_set_irq, Clear
  <2> HIDE DEF p
  <2>2. /\ p \in Seq(Steps) /\ Len(p) = 3 /\ p # <<>>
        /\ p[1] = Step("enable", 0) /\ p[2] = Step("irq_load", 0) /\ p[3] = Clear
    BY <1>1, <2>1
  <2>3. p[1].op = "enable" /\ p[2].op = "irq_load" /\ p[3].op = "irq_down"
    BY <2>2 DEF Step, Clear
  <2>4. Prog(p)
    BY <2>2, <2>3 DEF Prog, Then, Last
  <2>5. MainProg(p)
    BY <2>2, <2>3, <2>4 DEF MainProg, MainStep
  <2> QED BY <2>2, <2>3, <2>5 DEF At, Middle, p
<1> QED BY <1>2, <1>3

LEMMA ReadProg == MainProg(xlnx_ulite_read) /\ ~At(xlnx_ulite_read, Middle)
<1> DEFINE p == xlnx_ulite_read
           a == <<Step("irq_load", 0), Clear>>
           c == <<Step("pop_load", 0), Step("pop_size", 0), Step("pop_head", 0), Step("pop_elem", 0)>>
<1>1. /\ Step("pop_load", 0) \in Steps /\ Step("pop_size", 0) \in Steps
      /\ Step("pop_head", 0) \in Steps /\ Step("pop_elem", 0) \in Steps
      /\ Step("irq_load", 0) \in Steps /\ Clear \in Steps
  BY DEF Step, Steps, Ops, Clear, XLNX_ULITE_IRQ_NO
<1>2. p = a \o c
  BY DEF xlnx_ulite_read, nemu_set_irq, fifo_pop, Clear
<1>3. /\ a \in Seq(Steps) /\ Len(a) = 2 /\ a[1].op = "irq_load" /\ a[2].op = "irq_down"
  BY <1>1 DEF Step, Clear
<1>4. /\ c \in Seq(Steps) /\ Len(c) = 4
      /\ c[1].op = "pop_load" /\ c[2].op = "pop_size" /\ c[3].op = "pop_head" /\ c[4].op = "pop_elem"
  <2>1. c \in Seq(Steps) /\ Len(c) = 4
    BY <1>1
  <2> QED BY <2>1 DEF Step
<1> HIDE DEF p, a, c
<1>5. /\ p \in Seq(Steps) /\ Len(p) = 6 /\ p # <<>>
      /\ p[1] = a[1] /\ p[2] = a[2] /\ p[3] = c[1] /\ p[4] = c[2] /\ p[5] = c[3] /\ p[6] = c[4]
  <2>1. /\ p \in Seq(Steps) /\ Len(p) = Len(a) + Len(c)
        /\ \A i \in 1 .. Len(a) + Len(c) : p[i] = IF i <= Len(a) THEN a[i] ELSE c[i - Len(a)]
    BY Zenon, <1>2, <1>3, <1>4, ConcatProperties
  <2>2. /\ Len(p) = 6
        /\ \A i \in 1 .. 6 : p[i] = IF i <= 2 THEN a[i] ELSE c[i - 2]
    BY <1>3, <1>4, <2>1
  <2>3. p # <<>>
    BY <2>1, <2>2, EmptySeq
  <2>4. /\ p[1] = a[1] /\ p[2] = a[2]
        /\ p[3] = c[3 - 2] /\ p[4] = c[4 - 2] /\ p[5] = c[5 - 2] /\ p[6] = c[6 - 2]
    BY <2>2
  <2>5. 3 - 2 = 1 /\ 4 - 2 = 2 /\ 5 - 2 = 3 /\ 6 - 2 = 4
    OBVIOUS
  <2> QED BY Zenon, <2>1, <2>2, <2>3, <2>4, <2>5
<1>6. /\ p[1].op = "irq_load" /\ p[2].op = "irq_down" /\ p[3].op = "pop_load"
      /\ p[4].op = "pop_size" /\ p[5].op = "pop_head" /\ p[6].op = "pop_elem"
  BY <1>3, <1>4, <1>5
<1>7. 1 .. Len(p) = {1, 2, 3, 4, 5, 6}
  BY <1>5
<1>8. Prog(p)
  BY <1>5, <1>6, <1>7 DEF Prog, Then, Last
<1>9. MainProg(p)
  BY Zenon, <1>6, <1>7, <1>8 DEF MainProg, MainStep
<1> QED BY <1>5, <1>6, <1>9 DEF At, Middle, p

LEMMA MainStartKeeps ==
  ASSUME IInv, NEW p, MainProg(p), ~At(p, Middle), MainStart(p)
  PROVE  IInv' /\ expect' = expect
<1> DEFINE f == Frame("main", p)
<1>1. /\ Len(frames) = 1 /\ Top.prog = <<>> /\ frames' = <<f>>
      /\ UNCHANGED <<ulite_q, intr_enabled, IP, stdin, arrived, expect, owed, split>>
  BY DEF MainStart, MainIdle
<1>2. /\ TypeOK /\ Stack /\ LineDown
  BY DEF IInv
<1>3. Top = frames[1]
  BY Zenon, <1>1, <1>2, TopFacts
<1>4. f \in Frames /\ f.prog = p /\ f.ctx = "main"
  <2>1. 0 \in 0 .. Capacity - 1 /\ 0 \in 0 .. Capacity /\ p \in Seq(Steps)
    BY UliteAssumption DEF MainProg, Prog
  <2> QED BY <2>1 DEF Frame, Frames
<1> HIDE DEF f
<1>5. frames' \in Seq(Frames) /\ Len(frames') = 1 /\ frames'[1] = f
  BY <1>1, <1>4
<1>6. ~Clearing
  BY <1>1, <1>3, EmptyProg DEF Clearing
<1>7. intr_enabled \/ XLNX_ULITE_IRQ_NO \notin IP
  BY <1>2, <1>6 DEF LineDown
<1>8. /\ ulite_q \in R!Ring /\ IP \in SUBSET Lines /\ expect \in Seq(Chars)
      /\ owed \in BOOLEAN /\ intr_enabled \in BOOLEAN
  BY <1>2 DEF TypeOK
<1>9. Loaded(f, ulite_q, IP) /\ View(f, ulite_q) = ulite_q
  BY <1>4, Between
<1>10. View(Top, ulite_q) = ulite_q
  BY <1>1 DEF View, Popping, At
<1>11. ~split => /\ R!fifo_foreach(ulite_q) = expect
                 /\ owed => intr_enabled /\ XLNX_ULITE_IRQ_NO \in IP
  BY <1>1, <1>6, <1>10, WholeFacts
<1>12. ~At(f.prog, {"irq_up", "irq_down"})
  BY <1>4 DEF At, Middle
<1> QED BY Zenon, <1>1, <1>4, <1>5, <1>7, <1>8, <1>9, <1>11, <1>12, MainKeeps

LEMMA GoToKeeps ==
  ASSUME IInv, UNCHANGED <<ulite_q, intr_enabled, IP, frames, stdin, arrived, expect, owed, split>>
  PROVE  IInv'
<1>1. TypeOK' <=> TypeOK
  BY DEF TypeOK
<1>2. (Stack' <=> Stack) /\ (LineDown' <=> LineDown) /\ (Whole' <=> Whole)
  BY Zenon DEF Stack, LineDown, Whole, Clearing, Top
<1> QED BY <1>1, <1>2 DEF IInv

LEMMA GuestKeeps ==
  ASSUME IInv, FreeGuest \/ Driver
  PROVE  IInv' /\ expect' = expect
<1>1. CASE ReadRx
  BY <1>1, ReadProg, MainStartKeeps DEF ReadRx
<1>2. ASSUME NEW b \in BOOLEAN, WriteCtrl(b) PROVE IInv' /\ expect' = expect
  BY Zenon, <1>2, WriteCtrlProg, MainStartKeeps DEF WriteCtrl
<1>3. ASSUME NEW b \in BOOLEAN, TimerLine(b) PROVE IInv' /\ expect' = expect
  <2>1. TimerIrq \in Nat
    BY DEF TimerIrq
  <2> QED BY Zenon, <1>3, <2>1, SetIrqProg, MainStartKeeps DEF TimerLine
<1>4. ASSUME NEW m, GoTo(m) PROVE IInv' /\ expect' = expect
  BY <1>4, GoToKeeps DEF GoTo
<1> QED BY Zenon, <1>1, <1>2, <1>3, <1>4
        DEF FreeGuest, Driver, Boot, Drain, Drained, OnInterrupt

-----------------------------------------------------------------------------
(* The start *)

LEMMA InitIInv == Init => IInv
<1> SUFFICES ASSUME Init PROVE IInv
  OBVIOUS
<1>1. PICK n \in {k \in 0 .. InitChars : k <= Capacity} :
        /\ ulite_q = Preloaded(n) /\ intr_enabled = FALSE /\ IP = {}
        /\ frames = <<Frame("main", <<>>)>> /\ stdin = <<>> /\ arrived = n
        /\ expect = [i \in 1 .. n |-> i] /\ owed = FALSE /\ split = FALSE
  BY DEF Init
<1>2. n \in 0 .. Capacity /\ n \in Nat /\ n \in 0 .. MaxChars /\ Capacity \in Nat \ {0} /\ MaxChars \in Nat
  BY UliteAssumption
<1> DEFINE f == Frame("main", <<>>)
           e == [i \in 0 .. Capacity - 1 |-> IF i < n THEN i + 1 ELSE 0]
<1>3. f \in Frames /\ f.prog = <<>> /\ f.ctx = "main"
  <2>1. 0 \in 0 .. Capacity - 1 /\ 0 \in 0 .. Capacity
    BY <1>2
  <2> QED BY <2>1 DEF Frame, Frames
<1>4. e \in [0 .. Capacity - 1 -> Chars]
  BY <1>2 DEF Chars
<1>5. ulite_q = [head |-> 0, size |-> n, e |-> e]
  BY <1>1 DEF Preloaded
<1>6. ulite_q \in R!Ring
  <2>1. 0 \in 0 .. Capacity - 1
    BY <1>2
  <2> HIDE DEF e
  <2> QED BY <1>2, <1>4, <1>5, <2>1, MakeRing
<1>7. expect \in Seq(Chars)
  <2>1. expect \in [1 .. n -> Chars]
    BY <1>1, <1>2 DEF Chars
  <2> QED BY <1>2, <2>1
<1>8. R!fifo_foreach(ulite_q) = expect
  <2>1. R!fifo_foreach(ulite_q) = [i \in 1 .. n |-> e[(0 + i - 1) % Capacity]]
    BY <1>5 DEF R!fifo_foreach
  <2>2. ASSUME NEW i \in 1 .. n PROVE e[(0 + i - 1) % Capacity] = i
    <3>1. 0 + i - 1 \in 0 .. Capacity - 1 /\ 0 + i - 1 < n /\ (0 + i - 1) + 1 = i
      BY <1>2
    <3>2. \A k \in 0 .. Capacity - 1 : k % Capacity = k
      BY <1>2
    <3>3. (0 + i - 1) % Capacity = 0 + i - 1
      BY <3>1, <3>2
    <3> QED BY <3>1, <3>3
  <2> HIDE DEF e
  <2> QED BY <1>1, <2>1, <2>2
<1> HIDE DEF f, e
<1>9. frames \in Seq(Frames) /\ Len(frames) = 1 /\ frames[1] = f /\ Top = f
  BY <1>1, <1>3 DEF f, Top
<1>10. TypeOK
  <2>1. stdin \in Seq(Chars) /\ IP \in SUBSET Lines
    BY <1>1
  <2> QED BY Zenon, <1>1, <1>2, <1>6, <1>7, <1>9, <2>1 DEF TypeOK
<1>11. 2 .. Len(frames) = {} /\ 1 .. Len(frames) - 1 = {} /\ Len(frames) >= 1
  BY <1>9
<1>12. Stack
  BY <1>3, <1>9, <1>11, EmptyProg DEF Stack
<1>13. LineDown
  BY <1>1, <1>3, <1>9, <1>11 DEF LineDown, At
<1>14. Whole
  <2>1. Loaded(f, ulite_q, IP) /\ View(f, ulite_q) = ulite_q
    BY <1>3 DEF Loaded, View, Popping, At
  <2> QED BY <1>1, <1>8, <1>9, <1>11, <2>1 DEF Whole
<1> QED BY <1>10, <1>12, <1>13, <1>14 DEF IInv

-----------------------------------------------------------------------------
(* The steps that put a character into the fifo and take one out of it *)

\* What push and pop do to a ring is proved with the fifo.
RP == INSTANCE FifoProofs WITH Values <- Chars, Zero <- 0, q <- 0, out <- 0, TxBytes <- {},
                          Masks <- {}, tx <- 0, regs <- 0, line <- 0, main <- 0, lost <- 0

LEMMA RingAssumption == RP!FifoAssumption
BY UliteAssumption DEF RP!FifoAssumption, Chars

LEMMA Pushed ==
  ASSUME NEW r \in R!Ring, NEW v \in Chars, r.size < Capacity,
         NEW r2, r2 = [r EXCEPT !.e[(r.head + r.size) % Capacity] = v, !.size = r.size + 1]
  PROVE  r2 \in R!Ring /\ R!fifo_foreach(r2) = Append(R!fifo_foreach(r), v)
<1> DEFINE next == (r.head + r.size) % Capacity
<1>1. r \in RP!Ring
  BY DEF R!Ring, RP!Ring
<1>2. r2 = RP!fifo_push(r, v)
  <2>1. r = [head |-> r.head, size |-> r.size, e |-> r.e]
    BY RingFields
  <2>2. r2 = [head |-> r.head, size |-> r.size + 1, e |-> [r.e EXCEPT ![next] = v]]
    BY Zenon, <2>1
  <2> QED BY Zenon, <2>2 DEF RP!fifo_push
<1>3. r2 \in RP!Ring /\ RP!fifo_foreach(r2) = Append(RP!fifo_foreach(r), v)
  BY <1>1, <1>2, RingAssumption, RP!PushKeeps, RP!PushQueues
<1> QED BY Zenon, <1>3 DEF R!Ring, RP!Ring, R!fifo_foreach, RP!fifo_foreach

LEMMA Popped ==
  ASSUME NEW r \in R!Ring
  PROVE  /\ R!fifo_pop(r) \in R!Ring
         /\ R!fifo_foreach(r) \in Seq(Chars)
         /\ r.size > 0 => /\ R!fifo_foreach(r) # <<>>
                          /\ Head(R!fifo_foreach(r)) = r.e[r.head]
                          /\ R!fifo_foreach(R!fifo_pop(r)) = Tail(R!fifo_foreach(r))
         /\ r.size = 0 => R!fifo_foreach(r) = <<>>
<1>1. r \in RP!Ring
  BY DEF R!Ring, RP!Ring
<1>2. /\ RP!fifo_pop(r) \in RP!Ring
      /\ RP!fifo_foreach(r) \in Seq(Chars)
      /\ r.size > 0 => /\ RP!fifo_foreach(r) # <<>>
                       /\ Head(RP!fifo_foreach(r)) = RP!fifo_top(r)
                       /\ RP!fifo_foreach(RP!fifo_pop(r)) = Tail(RP!fifo_foreach(r))
      /\ r.size = 0 => RP!fifo_foreach(r) = <<>>
  BY <1>1, RingAssumption, RP!PopKeeps, RP!ForeachType, RP!PopQueues, RP!EmptyQueue
<1>3. R!fifo_pop(r) = RP!fifo_pop(r) /\ RP!fifo_top(r) = r.e[r.head]
  BY DEF R!fifo_pop, RP!fifo_pop, RP!fifo_top
<1>4. \A x : R!fifo_foreach(x) = RP!fifo_foreach(x)
  BY DEF R!fifo_foreach, RP!fifo_foreach
<1> QED BY <1>2, <1>3, <1>4 DEF R!Ring, RP!Ring

\* Whatever is stored where, and whatever the size.
LEMMA Stored ==
  ASSUME NEW r \in R!Ring, NEW k, NEW v \in Chars, NEW n \in 0 .. Capacity,
         NEW r2, r2 = [r EXCEPT !.e[k] = v, !.size = n]
  PROVE  r2 \in R!Ring
<1> DEFINE e == [r.e EXCEPT ![k] = v]
<1>1. /\ r = [head |-> r.head, size |-> r.size, e |-> r.e]
      /\ r.head \in 0 .. Capacity - 1 /\ r.e \in [0 .. Capacity - 1 -> Chars]
  BY RingFields
<1>2. e \in [0 .. Capacity - 1 -> Chars]
  BY Zenon, <1>1
<1>3. r2 = [head |-> r.head, size |-> n, e |-> e]
  BY Zenon, <1>1
<1>4. [head |-> r.head, size |-> n, e |-> e] \in R!Ring
  BY Zenon, <1>1, <1>2, MakeRing
<1> QED BY Zenon, <1>3, <1>4

LEMMA HandlerPushStore ==
  ASSUME IInv, Len(frames) > 1, PushStore, UNCHANGED split
  PROVE  IInv'
<1> DEFINE r2 == [ulite_q EXCEPT !.e[(Top.h + Top.s) % Capacity] = Arg, !.size = Top.s + 1]
<1>1. /\ Take("push_store") /\ Continue(Rest)
      /\ UNCHANGED <<intr_enabled, IP, stdin, arrived>>
      /\ Top.s < Capacity => /\ ulite_q' = r2
                             /\ expect' = Append(expect, Arg)
                             /\ owed' = (owed \/ intr_enabled)
      /\ ~(Top.s < Capacity) => UNCHANGED <<ulite_q, expect, owed>>
  BY DEF PushStore
<1>2. /\ TypeOK /\ Rest \in Frames /\ Rest.ctx = Top.ctx /\ Top.prog # <<>>
      /\ Top.prog[1].op = "push_store" /\ Top \in Frames
  BY <1>1, Taken
<1>3. /\ Rest.prog # <<>> /\ HandlerProg(Rest.prog) /\ Rest.prog[1].op \in {"push_load", "set_irq"}
      /\ Announces(Rest.prog) => intr_enabled
      /\ Arg \in Chars
  BY <1>1, HandlerTaken
<1>4. /\ ulite_q \in R!Ring /\ IP \in SUBSET Lines /\ expect \in Seq(Chars) /\ owed \in BOOLEAN
      /\ intr_enabled \in BOOLEAN
  BY <1>2 DEF TypeOK
<1>5. /\ Top.h \in 0 .. Capacity - 1 /\ Top.s \in 0 .. Capacity /\ Capacity \in Nat \ {0}
  BY <1>2, FrameFields, UliteAssumption
<1>6. Top.s < Capacity => r2 \in R!Ring
  <2> SUFFICES ASSUME Top.s < Capacity PROVE r2 \in R!Ring
    OBVIOUS
  <2>1. Top.s + 1 \in 0 .. Capacity
    BY <1>5
  <2> QED BY Zenon, <1>3, <1>4, <2>1, Stored
<1>7. ulite_q' \in R!Ring /\ expect' \in Seq(Chars) /\ owed' \in BOOLEAN
  BY <1>1, <1>3, <1>4, <1>6
<1>8. View(Rest, ulite_q') = ulite_q' /\ View(Top, ulite_q) = ulite_q
  BY <1>2, <1>3 DEF View, Popping, At
<1>9. Loaded(Rest, ulite_q', IP')
  BY Zenon, <1>3 DEF Loaded, At
<1>10. ASSUME ~split PROVE R!fifo_foreach(ulite_q') = expect'
  <2>1. R!fifo_foreach(ulite_q) = expect /\ Loaded(Top, ulite_q, IP)
    BY <1>8, <1>10, WholeFacts
  <2>2. Top.h = ulite_q.head /\ Top.s = ulite_q.size
    BY <1>2, <2>1 DEF Loaded, At
  <2>3. CASE Top.s < Capacity
    <3>1. r2 = [ulite_q EXCEPT !.e[(ulite_q.head + ulite_q.size) % Capacity] = Arg,
                               !.size = ulite_q.size + 1]
      BY <2>2
    <3>2. ulite_q.size < Capacity
      BY <2>2, <2>3
    <3> HIDE DEF r2
    <3>3. R!fifo_foreach(r2) = Append(R!fifo_foreach(ulite_q), Arg)
      BY Zenon, <1>3, <1>4, <3>1, <3>2, Pushed
    <3> QED BY <1>1, <2>1, <2>3, <3>3
  <2>4. CASE ~(Top.s < Capacity)
    BY <1>1, <2>1, <2>4
  <2> QED BY <2>3, <2>4
<1>11. ASSUME ~split PROVE owed' => intr_enabled \/ Clearing
  BY Zenon, <1>1, <1>11, WholeFacts
<1> QED BY <1>1, <1>2, <1>3, <1>4, <1>7, <1>8, <1>9, <1>10, <1>11, HandlerKeeps

\* What the last three steps of a pop have of the ring.
LEMMA FoundRing ==
  ASSUME NEW f \in Frames, NEW r \in R!Ring
  PROVE  Found(f, r) \in R!Ring
<1>1. /\ f.h \in 0 .. Capacity - 1 /\ f.s \in 0 .. Capacity
      /\ r.e \in [0 .. Capacity - 1 -> Chars]
  BY FrameFields, RingFields
<1> QED BY Zenon, <1>1, MakeRing DEF Found

\* The last step of a pop: the character that has waited longest, if there is one.
LEMMA MainPopElem ==
  ASSUME IInv, Len(frames) = 1, PopElem, UNCHANGED split
  PROVE  /\ IInv'
         /\ ~split => \/ rx' = Head(expect)
                      \/ expect' = expect
<1>1. /\ Take("pop_elem") /\ Continue(Rest) /\ rx' = ulite_q.e[Top.h]
      /\ expect' = IF Top.s > 0 /\ expect # <<>> THEN Tail(expect) ELSE expect
      /\ UNCHANGED <<ulite_q, intr_enabled, IP, stdin, arrived, owed>>
  BY Zenon DEF PopElem
<1>2. /\ TypeOK /\ Top \in Frames /\ Rest \in Frames /\ Rest.ctx = Top.ctx
      /\ Top.prog # <<>> /\ Top.prog[1].op = "pop_elem"
  BY Zenon, <1>1, Taken
<1>3. /\ MainProg(Rest.prog) /\ ~At(Rest.prog, Middle)
      /\ Top.ctx = "main" /\ (Clearing <=> Clears(Rest.prog))
      /\ intr_enabled \/ Clearing \/ XLNX_ULITE_IRQ_NO \notin IP
  <2>1. "pop_elem" \in {"irq_up", "irq_down", "enable", "pop_elem"} /\ "pop_elem" # "irq_down"
    OBVIOUS
  <2> QED BY Zenon, <1>1, <2>1, MainTaken
<1>4. /\ ulite_q \in R!Ring /\ IP \in SUBSET Lines /\ expect \in Seq(Chars)
      /\ owed \in BOOLEAN /\ intr_enabled \in BOOLEAN
  BY <1>2 DEF TypeOK
<1>5. expect' \in Seq(Chars)
  BY Zenon, <1>1, <1>4, HeadTailProperties
<1>6. Loaded(Rest, ulite_q, IP) /\ View(Rest, ulite_q) = ulite_q
  BY <1>3, Between
<1>7. frames' \in Seq(Frames) /\ Len(frames') = 1 /\ frames'[1] = Rest
  BY <1>1, <1>2, MainContinues
<1> DEFINE r == Found(Top, ulite_q)
<1>8. /\ r \in R!Ring /\ r.size = Top.s /\ r.head = Top.h /\ r.e = ulite_q.e
      /\ Top.s \in 0 .. Capacity /\ Capacity \in Nat
  <2>1. r \in R!Ring
    BY <1>2, <1>4, FoundRing
  <2>2. Top.s \in 0 .. Capacity /\ Capacity \in Nat
    BY <1>2, FrameFields, UliteAssumption
  <2> QED BY <2>1, <2>2 DEF Found
<1>9. ASSUME ~split PROVE R!fifo_foreach(r) = expect /\ ulite_q = R!fifo_pop(r)
  <2>1. View(Top, ulite_q) = r
    BY <1>2 DEF View, Popping, At
  <2> QED BY Zenon, <1>2, <1>9, <2>1, WholeFacts DEF Loaded, At
<1> HIDE DEF r
<1>10. ASSUME ~split
       PROVE  /\ R!fifo_foreach(ulite_q) = expect'
              /\ rx' = Head(expect) \/ expect' = expect
  <2>1. CASE Top.s > 0
    <3>1. /\ expect # <<>> /\ Head(expect) = r.e[r.head]
          /\ R!fifo_foreach(ulite_q) = Tail(expect)
      BY <1>8, <1>9, <1>10, <2>1, Popped
    <3> QED BY Zenon, <1>1, <1>8, <2>1, <3>1
  <2>2. CASE ~(Top.s > 0)
    <3>1. ulite_q = r
      BY <1>8, <1>9, <1>10, <2>2 DEF R!fifo_pop
    <3> QED BY <1>1, <1>9, <1>10, <2>2, <3>1
  <2> QED BY <2>1, <2>2
<1>11. ~split /\ owed => (intr_enabled \/ Clearing) /\ (XLNX_ULITE_IRQ_NO \in IP \/ Clearing)
  BY WholeFacts
<1>12. ~At(Rest.prog, {"irq_up", "irq_down"})
  BY <1>3 DEF At, Middle
<1>13. IInv'
  BY Zenon, <1>1, <1>2, <1>3, <1>4, <1>5, <1>6, <1>7, <1>10, <1>11, <1>12, MainKeeps
<1> QED BY <1>10, <1>13

\* A step of any context; only a read of Rx takes a character out of the fifo.
LEMMA ContextStepKeeps ==
  ASSUME IInv, ContextStep
  PROVE  /\ IInv'
         /\ ~split => \/ rx' = Head(expect)
                      \/ expect' = expect
                      \/ \E ch \in Chars : expect' = Append(expect, ch)
<1> DEFINE n == Len(frames)
<1>1. n = 1 \/ n > 1
  <2>1. n \in Nat \ {0}
    BY TopFacts DEF IInv
  <2> HIDE DEF n
  <2> QED BY <2>1
<1>2. UNCHANGED split
  BY DEF ContextStep
<1>3. CASE n > 1
  <2>1. \A op : Take(op) => op \in {"push_load", "push_store", "set_irq", "irq_load", "irq_up"}
    BY <1>3, HandlerTaken
  <2>2. IrqLoad \/ IrqUp \/ SetIrq \/ PushLoad \/ PushStore
    BY <2>1 DEF ContextStep, IrqDown, PopLoad, PopSize, PopHead, PopElem, Enable
  <2>3. IInv'
    BY Zenon, <1>2, <1>3, <2>2, HandlerIrqLoad, HandlerIrqUp, HandlerSetIrq, HandlerPushLoad,
       HandlerPushStore
  <2>4. PushStore => Arg \in Chars
    BY Zenon, <1>3, HandlerTaken DEF PushStore
  <2>5. expect' = expect \/ \E ch \in Chars : expect' = Append(expect, ch)
    BY Zenon, <2>2, <2>4 DEF IrqLoad, IrqUp, SetIrq, PushLoad, PushStore
  <2> QED BY Zenon, <2>3, <2>5
<1>4. CASE n = 1
  <2>1. \A op : Take(op) => op \notin {"push_load", "push_store", "set_irq"}
    BY Zenon, <1>4, MainTaken
  <2>2. IrqLoad \/ IrqUp \/ IrqDown \/ PopLoad \/ PopSize \/ PopHead \/ PopElem \/ Enable
    BY Zenon, <2>1 DEF ContextStep, SetIrq, PushLoad, PushStore
  <2>3. IInv'
    BY Zenon, <1>2, <1>4, <2>2, MainIrqLoad, MainIrqUp, MainIrqDown, MainPopLoad, MainPopSize,
       MainPopHead, MainPopElem, MainEnable
  <2>4. ~PopElem => expect' = expect
    BY Zenon, <2>2 DEF IrqLoad, IrqUp, IrqDown, PopLoad, PopSize, PopHead, Enable
  <2> QED BY Zenon, <1>2, <1>4, <2>3, <2>4, MainPopElem
<1> QED BY <1>1, <1>3, <1>4

-----------------------------------------------------------------------------
(* The theorems *)

LEMMA NextIInv == IInv /\ [Next]_vars => IInv'
<1> SUFFICES ASSUME IInv, [Next]_vars PROVE IInv'
  OBVIOUS
<1>1. CASE UNCHANGED vars
  BY <1>1, GoToKeeps DEF vars
<1>2. CASE Next
  BY Zenon, <1>2, ContextStepKeeps, EnvironmentKeeps, GuestKeeps DEF Next
<1> QED BY <1>1, <1>2

\* The invariant the theorems below rest on: main below, handlers above it, each
\* with a program of the right form; the line down unless the guest may see it;
\* and, until a signal comes in the middle of an operation, a fifo that is what
\* was put into it (xlnx_ulite_read, xlnx_ulite_write, xlnx_ulite_update_irq,
\* ulite_ctrl_code_handler).
THEOREM Inductive == Spec => []IInv
<1>1. Init => IInv
  BY InitIInv
<1>2. IInv /\ [Next]_vars => IInv'
  BY NextIInv
<1> QED BY <1>1, <1>2, PTL DEF Spec

\* Between two instructions the fifo holds what arrived and was not read, for a
\* ring of any capacity and however many signals came, if none of them came in
\* the middle of an operation (xlnx_ulite_enqueue, xlnx_ulite_read).
THEOREM IntactCorrect == Spec => []FifoIntact
<1>1. IInv => FifoIntact
  <2> SUFFICES ASSUME IInv, MainIdle, ~split PROVE R!fifo_foreach(ulite_q) = expect
    BY DEF FifoIntact
  <2>1. View(Top, ulite_q) = ulite_q
    BY DEF MainIdle, View, Popping, At
  <2> QED BY <2>1, WholeFacts
<1> QED BY <1>1, Inductive, PTL

\* The STAT bit is right as long as no signal came in the middle of an operation:
\* a split operation is the only way it can go wrong (xlnx_ulite_peek).
THEOREM ValidDataUnlessSplit == Spec => [](~split => ValidDataMeansData)
<1>1. IInv => (~split => ValidDataMeansData)
  <2> SUFFICES ASSUME IInv, MainIdle, ~split
               PROVE  ~R!fifo_is_empty(ulite_q) <=> expect # <<>>
    BY DEF ValidDataMeansData
  <2>1. View(Top, ulite_q) = ulite_q
    BY DEF MainIdle, View, Popping, At
  <2>2. R!fifo_foreach(ulite_q) = expect /\ ulite_q \in R!Ring
    BY <2>1, WholeFacts DEF IInv, TypeOK
  <2>3. ulite_q.size \in Nat
    BY <2>2, RingFields
  <2>4. ulite_q.size > 0 \/ ulite_q.size = 0
    BY <2>3
  <2>5. (ulite_q.size > 0 => expect # <<>>) /\ (ulite_q.size = 0 => expect = <<>>)
    BY <2>2, Popped
  <2> QED BY <2>4, <2>5 DEF R!fifo_is_empty
<1> QED BY <1>1, Inductive, PTL

\* The line is up while a character is owed to the guest, and, however signals
\* nest and whatever they split, never with interrupts disabled
\* (xlnx_ulite_set_irq, xlnx_ulite_write).
THEOREM AnnouncedCorrect == Spec => []Announced
<1>1. IInv => Announced
  <2> SUFFICES ASSUME IInv, MainIdle
               PROVE  /\ owed /\ ~split => XLNX_ULITE_IRQ_NO \in IP
                      /\ XLNX_ULITE_IRQ_NO \in IP => intr_enabled
    BY DEF Announced
  <2>1. Len(frames) = 1 /\ Top = frames[1] /\ Top.prog = <<>>
    BY TopFacts DEF IInv, MainIdle
  <2>2. ~Clearing
    BY <2>1, EmptyProg DEF Clearing
  <2>3. intr_enabled \/ XLNX_ULITE_IRQ_NO \notin IP
    BY <2>2 DEF IInv, LineDown
  <2>4. owed /\ ~split => XLNX_ULITE_IRQ_NO \in IP
    BY <2>1, <2>2, WholeFacts
  <2> QED BY <2>3, <2>4
<1> QED BY <1>1, Inductive, PTL

\* A read of Rx that takes a character takes the oldest one, for a ring of any
\* capacity (fifo_pop of xlnx_ulite_read).
THEOREM OrderCorrect == Spec => InOrder
<1> DEFINE Oldest == ~split /\ expect # <<>> /\ expect' = Tail(expect) => rx' = Head(expect)
<1>1. ASSUME IInv, Next, ~split, expect # <<>>, expect' = Tail(expect)
      PROVE  rx' = Head(expect)
  <2> DEFINE t == Tail(expect)
             l == Len(expect)
  <2>1. expect \in Seq(Chars)
    BY <1>1 DEF IInv, TypeOK
  <2>2. l \in Nat /\ Len(t) = l - 1
    BY <1>1, <2>1, HeadTailProperties
  <2>3. \A ch \in Chars : Len(Append(expect, ch)) = l + 1
    BY <2>1
  <2>4. \A ch \in Chars : Len(Append(expect, ch)) # Len(t)
    <3> HIDE DEF t, l
    <3> QED BY <2>2, <2>3
  <2>5. Len(expect) # Len(t)
    <3>1. l # Len(t)
      <4> HIDE DEF t, l
      <4> QED BY <2>2
    <3> QED BY <3>1
  <2>6. expect' # expect /\ ~ \E ch \in Chars : expect' = Append(expect, ch)
    BY Zenon, <1>1, <2>4, <2>5
  <2>7. ContextStep
    BY Zenon, <1>1, <2>6, EnvironmentKeeps, GuestKeeps DEF Next
  <2> QED BY Zenon, <1>1, <2>6, <2>7, ContextStepKeeps
<1>2. IInv /\ [Next]_vars => [Oldest]_vars
  BY Zenon, <1>1
<1>3. Spec => [][Oldest]_vars
  BY <1>2, Inductive, PTL DEF Spec
<1> QED BY <1>3 DEF InOrder
=============================================================================
