----------------------------- MODULE GdbProofs -----------------------------
(***************************************************************************)
(* The gdb stub, for any program, table of breakpoints and number of        *)
(* damaged packets and interrupts: the phases a request goes through, what  *)
(* gdb and the table agree on in each of them, and what memory holds.       *)
(***************************************************************************)
EXTENDS Gdb, FiniteSetTheorems, TLAPS

-----------------------------------------------------------------------------
(* Types *)

RequestPackets == [type : {"packet"}, good : BOOLEAN, body : Requests, nr : {0, 1}]
Texts == {"", "OK", "data", "stop"}
ReplyPackets == [type : {"packet"}, good : {TRUE}, body : Texts, nr : {0, 1}]
Marks == [type : {"+", "-", "^C"}]
ToServer == RequestPackets \union Marks
ToClient == ReplyPackets \union Marks
Table == [used : BOOLEAN, addr : Addrs, value : Words]

MachineOK ==
  /\ mem \in [Ram -> Words] /\ plain \in [Ram -> Words] /\ pc \in Addrs
  /\ break_points \in [Slots -> Table]
ServerOK ==
  /\ at \in {"recv", "handle", "vCont", "run", "send", "ack"}
  /\ cmd \in RequestPackets /\ reply \in ReplyPackets /\ served \in {0, 1}
WireOK ==
  /\ toServer \in Seq(ToServer) /\ toClient \in Seq(ToClient)
  /\ client \in {"idle", "unacked", "waiting"} /\ asked \in RequestPackets /\ asked.good

TypeOK == MachineOK /\ ServerOK /\ WireOK

-----------------------------------------------------------------------------
(* The phases of a request *)

This == asked.nr
Last == NextNr(asked.nr)

\* What is under way on a side of the socket.
NoPacket(s) == \A i \in 1 .. Len(s) : ~IsPacket(s[i])
Answers(s, n) == \A i \in 1 .. Len(s) : IsPacket(s[i]) /\ s[i].nr = n
HasAck(s) == \E i \in 1 .. Len(s) : s[i].type = "+"

\* Packet p, damaged or not, is at k of s, and is the only packet of s.
Carries(s, p, k) ==
  /\ k \in 1 .. Len(s)
  /\ s[k] \in {p, Damaged(p)}
  /\ \A i \in 1 .. Len(s) : i # k => ~IsPacket(s[i])

\* The same, behind an acknowledgement if the server waits for one.
OnItsWay(s, p, waits) ==
  \E k \in 1 .. Len(s) :
    /\ Carries(s, p, k)
    /\ waits => \E i \in 1 .. Len(s) : i < k /\ s[i].type = "+"

\* Mark c on request n is at k of s, behind answers to the last request and before
\* answers to n.
Marked(s, c, n, k) ==
  /\ k \in 1 .. Len(s)
  /\ s[k].type = c
  /\ \A i \in 1 .. Len(s) : i < k => IsPacket(s[i]) /\ s[i].nr = NextNr(n)
  /\ \A i \in 1 .. Len(s) : i > k => IsPacket(s[i]) /\ s[i].nr = n

Refused(s, n) == \E k \in 1 .. Len(s) : Marked(s, "-", n, k) /\ k = Len(s)
Acked(s, n, unanswered) ==
  \E k \in 1 .. Len(s) : Marked(s, "+", n, k) /\ (unanswered => k = Len(s))

\* The server has answered request n, and may be sending the answer again.
Replying(n) ==
  /\ served = n
  /\ at \in {"recv", "send", "ack"}
  /\ at # "recv" => reply.nr = n

\* It has read a request and not answered it.  cpu_exec runs for vCont only.
Busy ==
  /\ at \in {"handle", "vCont", "run"}
  /\ cmd = asked
  /\ served = IF at = "handle" THEN Last ELSE This
  /\ at # "handle" => asked.body.kind = "vCont"

\* No request is under way.
Idle ==
  /\ client = "idle" /\ Replying(This)
  /\ NoPacket(toServer) /\ Answers(toClient, This)
  /\ at # "recv" => HasAck(toServer)

\* The request is on its way.
Sent ==
  /\ client = "unacked" /\ Replying(Last)
  /\ OnItsWay(toServer, asked, FALSE) /\ Answers(toClient, Last)
  /\ at # "recv" => OnItsWay(toServer, asked, TRUE)

\* It was damaged and will be sent again.
Nacked ==
  /\ client = "unacked" /\ served = Last /\ at = "recv"
  /\ NoPacket(toServer) /\ Refused(toClient, This)

\* The server has it, gdb does not know that yet.
Taken ==
  /\ client = "unacked" /\ NoPacket(toServer)
  /\ \/ Replying(This) /\ Acked(toClient, This, FALSE)
     \/ Busy /\ Acked(toClient, This, TRUE)

\* Gdb waits for the answer.
Waiting ==
  /\ client = "waiting" /\ NoPacket(toServer)
  /\ \/ Replying(This) /\ Answers(toClient, This)
     \/ Busy /\ toClient = <<>>

Protocol == Idle \/ Sent \/ Nacked \/ Taken \/ Waiting

-----------------------------------------------------------------------------
(* Breakpoints *)

Used == {i \in Slots : break_points[i].used}
Places == {break_points[i].addr : i \in Used}
OneSlotEach ==
  \A i, j \in Used : break_points[i].addr = break_points[j].addr => i = j

\* The request is handled and gdb has not taken the answer.
Handled == client # "idle" /\ served = This

\* Answer x to request b says whether the breakpoint was set: there are those of
\* new where gdb knows of old.
Tells(x, b, old, new) ==
  b.kind = "Z" => new = IF x.body = "OK" THEN old \union {b.addr} ELSE old

AllTell(s, n, b, old, new) ==
  \A i \in 1 .. Len(s) : IsPacket(s[i]) /\ s[i].nr = n => Tells(s[i], b, old, new)

Agree ==
  /\ client # "idle" => Asks(asked.body)
  /\ ~Handled => Places = inserted
  /\ Handled =>
       /\ asked.body.kind = "z" => Places = inserted \ {asked.body.addr}
       /\ asked.body.kind \notin {"Z", "z"} => Places = inserted
       /\ at \in {"send", "ack"} => Tells(reply, asked.body, inserted, Places)
       /\ AllTell(toClient, This, asked.body, inserted, Places)

IInv == TypeOK /\ Protocol /\ OneSlotEach /\ Transparent /\ Agree /\ EndedStays

-----------------------------------------------------------------------------
(* Sequences of packets and marks *)

\* t is s without its first element.
IsTail(t, s) ==
  /\ Head(s) = s[1] /\ Len(s) \in Nat \ {0} /\ Len(t) = Len(s) - 1 /\ 1 \in 1 .. Len(s)
  /\ \A i \in 1 .. Len(t) : i + 1 \in 1 .. Len(s) /\ t[i] = s[i + 1]
  /\ \A i \in 1 .. Len(s) : i # 1 => i - 1 \in 1 .. Len(t) /\ t[i - 1] = s[i]

\* r is s followed by x.
IsLonger(r, s, x) ==
  /\ Len(s) \in Nat /\ Len(r) = Len(s) + 1 /\ r[Len(r)] = x /\ Len(r) \in 1 .. Len(r)
  /\ \A i \in 1 .. Len(s) : i \in 1 .. Len(r) /\ r[i] = s[i] /\ i < Len(r)
  /\ \A i \in 1 .. Len(r) : i = Len(r) \/ i \in 1 .. Len(s)

LEMMA Tailed ==
  ASSUME NEW S, NEW s \in Seq(S), s # <<>>
  PROVE  Tail(s) \in Seq(S) /\ Head(s) \in S /\ IsTail(Tail(s), s)
BY DEF IsTail

LEMMA Appended ==
  ASSUME NEW S, NEW s \in Seq(S), NEW x \in S
  PROVE  Append(s, x) \in Seq(S) /\ IsLonger(Append(s, x), s, x)
BY DEF IsLonger

LEMMA TailPlain ==
  ASSUME NEW s, NEW t, IsTail(t, s), NEW n
  PROVE  /\ NoPacket(s) => NoPacket(t) /\ ~IsPacket(Head(s))
         /\ Answers(s, n) => Answers(t, n) /\ IsPacket(Head(s)) /\ Head(s).nr = n
         /\ HasAck(s) /\ Head(s).type # "+" => HasAck(t)
<1>1. NoPacket(s) => NoPacket(t) /\ ~IsPacket(Head(s))
  BY Zenon DEF IsTail, NoPacket
<1>2. Answers(s, n) => Answers(t, n) /\ IsPacket(Head(s)) /\ Head(s).nr = n
  <2>1. ASSUME Answers(s, n) PROVE Answers(t, n)
    <3>1. ASSUME NEW i \in 1 .. Len(t) PROVE IsPacket(t[i]) /\ t[i].nr = n
      <4>1. i + 1 \in 1 .. Len(s) /\ t[i] = s[i + 1]
        BY Zenon DEF IsTail
      <4> QED BY Zenon, <2>1, <4>1 DEF Answers
    <3> QED BY Zenon, <3>1 DEF Answers
  <2>2. Answers(s, n) => IsPacket(Head(s)) /\ Head(s).nr = n
    BY Zenon DEF IsTail, Answers
  <2> QED BY Zenon, <2>1, <2>2
<1>3. HasAck(s) /\ Head(s).type # "+" => HasAck(t)
  BY Zenon DEF IsTail, HasAck
<1> QED BY <1>1, <1>2, <1>3

LEMMA AppendPlain ==
  ASSUME NEW s, NEW x, NEW r, IsLonger(r, s, x), NEW n
  PROVE  /\ NoPacket(s) /\ ~IsPacket(x) => NoPacket(r)
         /\ Answers(s, n) /\ IsPacket(x) /\ x.nr = n => Answers(r, n)
         /\ HasAck(s) \/ x.type = "+" => HasAck(r)
<1>1. NoPacket(s) /\ ~IsPacket(x) => NoPacket(r)
  BY Zenon DEF IsLonger, NoPacket
<1>2. Answers(s, n) /\ IsPacket(x) /\ x.nr = n => Answers(r, n)
  BY Zenon DEF IsLonger, Answers
<1>3. HasAck(s) \/ x.type = "+" => HasAck(r)
  BY Zenon DEF IsLonger, HasAck
<1> QED BY <1>1, <1>2, <1>3

\* The request reaches the server behind the marks that were sent before it.
LEMMA TailOnItsWay ==
  ASSUME NEW s, NEW t, IsTail(t, s),
         NEW p, p.type = "packet", Damaged(p).type = "packet",
         NEW waits \in BOOLEAN, OnItsWay(s, p, waits)
  PROVE  /\ IsPacket(Head(s)) => Head(s) \in {p, Damaged(p)} /\ NoPacket(t) /\ ~waits
         /\ ~IsPacket(Head(s)) => OnItsWay(t, p, FALSE)
         /\ ~IsPacket(Head(s)) /\ Head(s).type # "+" => OnItsWay(t, p, waits)
<1>1. PICK k \in 1 .. Len(s) :
        Carries(s, p, k) /\ (waits => \E i \in 1 .. Len(s) : i < k /\ s[i].type = "+")
  BY DEF OnItsWay
<1>2. /\ s[k] \in {p, Damaged(p)} /\ IsPacket(s[k])
      /\ \A i \in 1 .. Len(s) : i # k => ~IsPacket(s[i])
  BY <1>1 DEF Carries, IsPacket
<1>3. /\ Head(s) = s[1] /\ Len(s) \in Nat \ {0} /\ Len(t) = Len(s) - 1 /\ 1 \in 1 .. Len(s)
      /\ \A i \in 1 .. Len(t) : i + 1 \in 1 .. Len(s) /\ t[i] = s[i + 1]
      /\ \A i \in 1 .. Len(s) : i # 1 => i - 1 \in 1 .. Len(t) /\ t[i - 1] = s[i]
  BY Zenon DEF IsTail
<1>4. CASE IsPacket(Head(s))
  <2>1. k = 1
    BY Zenon, <1>2, <1>3, <1>4
  <2>2. \A i \in 1 .. Len(t) : i + 1 # 1
    BY <1>3
  <2>3. NoPacket(t)
    BY Zenon, <1>2, <1>3, <2>1, <2>2 DEF NoPacket
  <2>4. ~waits
    BY <1>1, <2>1
  <2> QED BY Zenon, <1>2, <1>3, <1>4, <2>1, <2>3, <2>4
<1>5. CASE ~IsPacket(Head(s))
  <2>1. k # 1 /\ k - 1 \in 1 .. Len(t) /\ t[k - 1] = s[k]
    BY Zenon, <1>2, <1>3, <1>5
  <2>2. \A i \in 1 .. Len(t) : i # k - 1 => i + 1 # k
    BY <1>3
  <2>3. Carries(t, p, k - 1)
    BY Zenon, <1>2, <1>3, <2>1, <2>2 DEF Carries
  <2>4. OnItsWay(t, p, FALSE)
    BY Zenon, <2>1, <2>3 DEF OnItsWay
  <2>5. ASSUME Head(s).type # "+", waits PROVE OnItsWay(t, p, waits)
    <3>1. PICK i \in 1 .. Len(s) : i < k /\ s[i].type = "+"
      BY Zenon, <1>1, <2>5
    <3>2. i # 1 /\ i - 1 \in 1 .. Len(t) /\ t[i - 1] = s[i]
      BY Zenon, <1>3, <2>5, <3>1
    <3>3. i - 1 < k - 1
      BY <3>1
    <3> QED BY Zenon, <2>1, <2>3, <3>1, <3>2, <3>3 DEF OnItsWay
  <2>6. ~waits => waits = FALSE
    OBVIOUS
  <2> QED BY Zenon, <1>5, <2>4, <2>5, <2>6
<1> QED BY Zenon, <1>4, <1>5

LEMMA AppendOnItsWay ==
  ASSUME NEW s, NEW x, NEW r, IsLonger(r, s, x), NEW p
  PROVE  /\ \A waits \in BOOLEAN :
              OnItsWay(s, p, waits) /\ ~IsPacket(x) => OnItsWay(r, p, waits)
         /\ NoPacket(s) /\ x \in {p, Damaged(p)} =>
              OnItsWay(r, p, FALSE) /\ (HasAck(s) => OnItsWay(r, p, TRUE))
<1>1. /\ r[Len(r)] = x /\ Len(r) \in 1 .. Len(r)
      /\ \A i \in 1 .. Len(s) : i \in 1 .. Len(r) /\ r[i] = s[i] /\ i < Len(r)
      /\ \A i \in 1 .. Len(r) : i = Len(r) \/ i \in 1 .. Len(s)
  BY Zenon DEF IsLonger
<1>2. ASSUME NEW waits \in BOOLEAN, OnItsWay(s, p, waits), ~IsPacket(x)
      PROVE  OnItsWay(r, p, waits)
  <2>1. PICK k \in 1 .. Len(s) :
          Carries(s, p, k) /\ (waits => \E i \in 1 .. Len(s) : i < k /\ s[i].type = "+")
    BY Zenon, <1>2 DEF OnItsWay
  <2>2. Carries(r, p, k)
    BY Zenon, <1>1, <1>2, <2>1 DEF Carries
  <2>3. waits => \E i \in 1 .. Len(r) : i < k /\ r[i].type = "+"
    BY Zenon, <1>1, <2>1
  <2> QED BY Zenon, <1>1, <2>2, <2>3 DEF OnItsWay
<1>3. ASSUME NoPacket(s), x \in {p, Damaged(p)}
      PROVE  OnItsWay(r, p, FALSE) /\ (HasAck(s) => OnItsWay(r, p, TRUE))
  <2>1. Carries(r, p, Len(r))
    BY Zenon, <1>1, <1>3 DEF Carries, NoPacket
  <2>2. OnItsWay(r, p, FALSE)
    BY Zenon, <1>1, <2>1 DEF OnItsWay
  <2>3. HasAck(s) => \E i \in 1 .. Len(r) : i < Len(r) /\ r[i].type = "+"
    BY Zenon, <1>1 DEF HasAck
  <2>4. HasAck(s) => OnItsWay(r, p, TRUE)
    BY Zenon, <1>1, <2>1, <2>3 DEF OnItsWay
  <2> QED BY Zenon, <2>2, <2>4
<1> QED BY Zenon, <1>2, <1>3

\* Gdb reads the old answers, then the mark.
LEMMA TailMarked ==
  ASSUME NEW s, NEW t, IsTail(t, s), NEW n, NEW c \in {"+", "-"},
         NEW k \in 1 .. Len(s), Marked(s, c, n, k)
  PROVE  /\ k = 1 => Head(s).type = c /\ ~IsPacket(Head(s)) /\ Answers(t, n)
         /\ k # 1 => /\ IsPacket(Head(s)) /\ k - 1 \in 1 .. Len(t)
                     /\ Marked(t, c, n, k - 1)
<1>1. /\ Head(s) = s[1] /\ Len(s) \in Nat \ {0} /\ Len(t) = Len(s) - 1 /\ 1 \in 1 .. Len(s)
      /\ \A i \in 1 .. Len(t) : i + 1 \in 1 .. Len(s) /\ t[i] = s[i + 1]
      /\ \A i \in 1 .. Len(s) : i # 1 => i - 1 \in 1 .. Len(t) /\ t[i - 1] = s[i]
  BY Zenon DEF IsTail
<1>2. /\ s[k].type = c
      /\ \A i \in 1 .. Len(s) : i < k => IsPacket(s[i]) /\ s[i].nr = NextNr(n)
      /\ \A i \in 1 .. Len(s) : i > k => IsPacket(s[i]) /\ s[i].nr = n
  BY Zenon DEF Marked
<1>3. ASSUME k = 1 PROVE Head(s).type = c /\ ~IsPacket(Head(s)) /\ Answers(t, n)
  <2>1. c # "packet"
    OBVIOUS
  <2>2. \A i \in 1 .. Len(t) : i + 1 > k
    BY <1>1, <1>3
  <2>3. Answers(t, n)
    <3>1. ASSUME NEW i \in 1 .. Len(t) PROVE IsPacket(t[i]) /\ t[i].nr = n
      <4>1. i + 1 \in 1 .. Len(s) /\ t[i] = s[i + 1]
        BY Zenon, <1>1
      <4> QED BY Zenon, <1>2, <2>2, <4>1
    <3> QED BY Zenon, <3>1 DEF Answers
  <2> QED BY Zenon, <1>1, <1>2, <1>3, <2>1, <2>3 DEF IsPacket
<1>4. ASSUME k # 1
      PROVE  IsPacket(Head(s)) /\ k - 1 \in 1 .. Len(t) /\ Marked(t, c, n, k - 1)
  <2>1. /\ 1 < k
        /\ \A i \in 1 .. Len(t) : (i < k - 1 => i + 1 < k) /\ (i > k - 1 => i + 1 > k)
    BY <1>1, <1>4
  <2>2. k - 1 \in 1 .. Len(t) /\ t[k - 1] = s[k] /\ IsPacket(Head(s))
    BY Zenon, <1>1, <1>2, <1>4, <2>1
  <2>3. ASSUME NEW i \in 1 .. Len(t), i < k - 1 PROVE IsPacket(t[i]) /\ t[i].nr = NextNr(n)
    <3>1. i + 1 \in 1 .. Len(s) /\ t[i] = s[i + 1]
      BY Zenon, <1>1
    <3> QED BY Zenon, <1>2, <2>1, <2>3, <3>1
  <2>4. ASSUME NEW i \in 1 .. Len(t), i > k - 1 PROVE IsPacket(t[i]) /\ t[i].nr = n
    <3>1. i + 1 \in 1 .. Len(s) /\ t[i] = s[i + 1]
      BY Zenon, <1>1
    <3> QED BY Zenon, <1>2, <2>1, <2>4, <3>1
  <2> QED BY Zenon, <1>2, <2>2, <2>3, <2>4 DEF Marked
<1> QED BY Zenon, <1>3, <1>4

LEMMA TailAcked ==
  ASSUME NEW s, NEW t, IsTail(t, s), NEW n, NEW unanswered \in BOOLEAN,
         Acked(s, n, unanswered)
  PROVE  \/ Head(s).type = "+" /\ Answers(t, n) /\ (unanswered => Len(t) = 0)
         \/ IsPacket(Head(s)) /\ Acked(t, n, unanswered)
<1>1. PICK k \in 1 .. Len(s) : Marked(s, "+", n, k) /\ (unanswered => k = Len(s))
  BY Zenon DEF Acked
<1>2. Len(t) = Len(s) - 1 /\ Len(s) \in Nat
  BY DEF IsTail
<1>3. CASE k = 1
  <2>1. k = Len(s) => Len(t) = 0
    <3>1. 1 - 1 = 0
      OBVIOUS
    <3> QED BY Zenon, <1>2, <1>3, <3>1
  <2>2. Head(s).type = "+" /\ Answers(t, n)
    BY Zenon, <1>1, <1>3, TailMarked
  <2> QED BY Zenon, <1>1, <2>1, <2>2
<1>4. CASE k # 1
  <2>1. k = Len(s) => k - 1 = Len(t)
    BY <1>2
  <2>2. IsPacket(Head(s)) /\ k - 1 \in 1 .. Len(t) /\ Marked(t, "+", n, k - 1)
    BY Zenon, <1>1, <1>4, TailMarked
  <2> QED BY Zenon, <1>1, <2>1, <2>2 DEF Acked
<1> QED BY Zenon, <1>3, <1>4

LEMMA TailRefused ==
  ASSUME NEW s, NEW t, IsTail(t, s), NEW n, Refused(s, n)
  PROVE  \/ Head(s).type = "-" /\ Len(t) = 0
         \/ IsPacket(Head(s)) /\ Refused(t, n)
<1>1. PICK k \in 1 .. Len(s) : Marked(s, "-", n, k) /\ k = Len(s)
  BY Zenon DEF Refused
<1>2. Len(t) = Len(s) - 1 /\ Len(s) \in Nat
  BY DEF IsTail
<1>3. CASE k = 1
  <2>1. Len(t) = 0
    BY <1>1, <1>2, <1>3
  <2> QED BY Zenon, <1>1, <1>3, <2>1, TailMarked
<1>4. CASE k # 1
  <2>1. k - 1 = Len(t)
    BY <1>1, <1>2
  <2> QED BY Zenon, <1>1, <1>4, <2>1, TailMarked DEF Refused
<1> QED BY Zenon, <1>3, <1>4

\* The server appends its mark to old answers, and answers behind the mark.
LEMMA AppendMark ==
  ASSUME NEW s, NEW x, NEW r, IsLonger(r, s, x), NEW n
  PROVE  /\ Answers(s, NextNr(n)) /\ x.type = "+" => Acked(r, n, TRUE)
         /\ Answers(s, NextNr(n)) /\ x.type = "-" => Refused(r, n)
         /\ \A unanswered \in BOOLEAN :
              Acked(s, n, unanswered) /\ IsPacket(x) /\ x.nr = n => Acked(r, n, FALSE)
<1>1. /\ r[Len(r)] = x /\ Len(r) \in 1 .. Len(r)
      /\ \A i \in 1 .. Len(s) : i \in 1 .. Len(r) /\ r[i] = s[i] /\ i < Len(r)
      /\ \A i \in 1 .. Len(r) : i = Len(r) \/ i \in 1 .. Len(s)
  BY Zenon DEF IsLonger
<1>2. Len(r) \in Nat
  BY DEF IsLonger
<1>3. \A i \in 1 .. Len(r) : ~(i > Len(r)) /\ (i < Len(r) => i # Len(r))
  BY <1>2
<1>4. ASSUME Answers(s, NextNr(n)), NEW c, x.type = c PROVE Marked(r, c, n, Len(r))
  BY Zenon, <1>1, <1>3, <1>4 DEF Marked, Answers
<1>5. ASSUME NEW unanswered \in BOOLEAN, Acked(s, n, unanswered), IsPacket(x), x.nr = n
      PROVE  Acked(r, n, FALSE)
  <2>1. PICK k \in 1 .. Len(s) : Marked(s, "+", n, k)
    BY Zenon, <1>5 DEF Acked
  <2>2. k \in 1 .. Len(r) /\ ~(Len(r) < k)
    BY <1>1, <1>2
  <2>3. Marked(r, "+", n, k)
    <3>1. r[k].type = "+"
      BY Zenon, <1>1, <2>1 DEF Marked
    <3>2. \A i \in 1 .. Len(r) : i < k => IsPacket(r[i]) /\ r[i].nr = NextNr(n)
      BY Zenon, <1>1, <2>1, <2>2 DEF Marked
    <3>3. \A i \in 1 .. Len(r) : i > k => IsPacket(r[i]) /\ r[i].nr = n
      BY Zenon, <1>1, <1>5, <2>1 DEF Marked
    <3> QED BY Zenon, <2>2, <3>1, <3>2, <3>3 DEF Marked
  <2> QED BY Zenon, <2>2, <2>3 DEF Acked
<1>6. Answers(s, NextNr(n)) /\ x.type = "+" => Acked(r, n, TRUE)
  BY Zenon, <1>1, <1>4 DEF Acked
<1>7. Answers(s, NextNr(n)) /\ x.type = "-" => Refused(r, n)
  BY Zenon, <1>1, <1>4 DEF Refused
<1> QED BY Zenon, <1>5, <1>6, <1>7

\* What the answers under way say.
LEMMA TailTell ==
  ASSUME NEW s, NEW t, IsTail(t, s), NEW n, NEW b, NEW old, NEW new,
         AllTell(s, n, b, old, new)
  PROVE  /\ AllTell(t, n, b, old, new)
         /\ IsPacket(Head(s)) /\ Head(s).nr = n => Tells(Head(s), b, old, new)
<1>1. ASSUME NEW i \in 1 .. Len(t), IsPacket(t[i]), t[i].nr = n
      PROVE  Tells(t[i], b, old, new)
  <2>1. i + 1 \in 1 .. Len(s) /\ t[i] = s[i + 1]
    BY Zenon DEF IsTail
  <2> QED BY Zenon, <1>1, <2>1 DEF AllTell
<1>2. IsPacket(Head(s)) /\ Head(s).nr = n => Tells(Head(s), b, old, new)
  BY Zenon DEF IsTail, AllTell
<1> QED BY Zenon, <1>1, <1>2 DEF AllTell

LEMMA AppendTell ==
  ASSUME NEW s, NEW x, NEW r, IsLonger(r, s, x), NEW n, NEW b, NEW old, NEW new,
         AllTell(s, n, b, old, new),
         IsPacket(x) /\ x.nr = n => Tells(x, b, old, new)
  PROVE  AllTell(r, n, b, old, new)
<1>1. ASSUME NEW i \in 1 .. Len(r), IsPacket(r[i]), r[i].nr = n
      PROVE  Tells(r[i], b, old, new)
  <2>1. r[i] = x \/ (i \in 1 .. Len(s) /\ r[i] = s[i])
    BY Zenon DEF IsLonger
  <2> QED BY Zenon, <1>1, <2>1 DEF AllTell
<1> QED BY Zenon, <1>1 DEF AllTell

LEMMA NoneTell ==
  ASSUME NEW s, NEW n \in {0, 1}, NEW b, NEW old, NEW new,
         s = <<>> \/ (Len(s) \in Nat /\ Acked(s, n, TRUE))
  PROVE  AllTell(s, n, b, old, new)
<1>1. CASE s = <<>>
  BY <1>1 DEF AllTell
<1>2. CASE Len(s) \in Nat /\ Acked(s, n, TRUE)
  <2>1. Marked(s, "+", n, Len(s))
    BY Zenon, <1>2 DEF Acked
  <2>2. ASSUME NEW i \in 1 .. Len(s), IsPacket(s[i]), s[i].nr = n PROVE FALSE
    <3>1. i < Len(s) \/ i = Len(s)
      BY <1>2
    <3>2. NextNr(n) # n /\ "+" # "packet"
      BY DEF NextNr
    <3> QED BY Zenon, <2>1, <2>2, <3>1, <3>2 DEF Marked, IsPacket
  <2> QED BY Zenon, <2>2 DEF AllTell
<1> QED BY Zenon, <1>1, <1>2

-----------------------------------------------------------------------------
(* Packets, requests and addresses *)

LEMMA RequestFields ==
  ASSUME NEW p \in RequestPackets
  PROVE  /\ IsPacket(p) /\ p.type = "packet" /\ p.good \in BOOLEAN
         /\ p.body \in Requests /\ p.nr \in {0, 1} /\ p \in ToServer
         /\ NextNr(p.nr) \in {0, 1} /\ NextNr(p.nr) # p.nr /\ NextNr(NextNr(p.nr)) = p.nr
         /\ Damaged(p) \in RequestPackets /\ Damaged(p).type = "packet"
         /\ Damaged(p).good = FALSE /\ Damaged(p) \in ToServer /\ IsPacket(Damaged(p))
<1>1. /\ IsPacket(p) /\ p.type = "packet" /\ p.good \in BOOLEAN
      /\ p.body \in Requests /\ p.nr \in {0, 1} /\ p \in ToServer
  BY DEF RequestPackets, IsPacket, ToServer
<1>2. NextNr(p.nr) \in {0, 1} /\ NextNr(p.nr) # p.nr /\ NextNr(NextNr(p.nr)) = p.nr
  BY <1>1 DEF NextNr
<1>3. FALSE \in BOOLEAN
  OBVIOUS
<1>4. Damaged(p) \in RequestPackets
  BY Zenon, <1>3 DEF Damaged, RequestPackets
<1>5. Damaged(p).type = "packet" /\ Damaged(p).good = FALSE
  BY DEF Damaged, RequestPackets
<1> QED BY Zenon, <1>1, <1>2, <1>4, <1>5 DEF ToServer, IsPacket

LEMMA NewRequest ==
  ASSUME NEW b \in Requests, NEW n \in {0, 1}
  PROVE  /\ Packet(b, n) \in RequestPackets /\ Packet(b, n).good = TRUE
         /\ Packet(b, n).body = b /\ Packet(b, n).nr = n
BY DEF Packet, RequestPackets

LEMMA NewReply ==
  ASSUME NEW text \in Texts, NEW n \in {0, 1}
  PROVE  /\ Packet(text, n) \in ReplyPackets /\ Packet(text, n) \in ToClient
         /\ Packet(text, n).body = text /\ Packet(text, n).nr = n
BY Zenon DEF Packet, ReplyPackets, ToClient

LEMMA ReplyFields ==
  ASSUME NEW p \in ReplyPackets
  PROVE  p \in ToClient /\ IsPacket(p) /\ p.nr \in {0, 1}
BY Zenon DEF ReplyPackets, IsPacket, ToClient

LEMMA MarkFields ==
  ASSUME NEW c \in {"+", "-", "^C"}
  PROVE  Mark(c) \in ToServer /\ Mark(c) \in ToClient /\ Mark(c).type = c /\ ~IsPacket(Mark(c))
BY DEF Mark, Marks, ToServer, ToClient, IsPacket

LEMMA ReadPacket ==
  ASSUME NEW x \in ToServer, IsPacket(x)
  PROVE  x \in RequestPackets
BY DEF ToServer, Marks, IsPacket

LEMMA RequestBody ==
  ASSUME NEW b \in Requests
  PROVE  /\ b.kind \in {"Z", "z"} => b.addr \in BreakAddrs /\ b.addr \in Addrs
         /\ b.kind = "M" => b.addr \in StoreAddrs /\ b.word \in StoreWords
BY Zenon, GdbAssumption DEF Requests, Addrs

LEMMA FirstValues == NoRequest \in RequestPackets /\ NoRequest.good /\ NoRequest.nr = 0
                     /\ NoReply \in ReplyPackets
<1>1. [kind |-> "query"] \in Requests
  BY DEF Requests
<1>2. 0 \in {0, 1} /\ "" \in Texts
  BY Zenon DEF Texts
<1> QED BY Zenon, <1>1, <1>2, NewRequest, NewReply DEF NoRequest, NoReply

\* cpu.pc -= 4 takes back cpu.pc += 4.
LEMMA Around ==
  ASSUME NEW a \in Addrs
  PROVE  Next_(a) \in Addrs /\ Prev_(a) \in Addrs /\ Prev_(Next_(a)) = a
<1>1. AddrSpace \in Nat \ {0} /\ a \in 0 .. AddrSpace - 1
  BY GdbAssumption DEF Addrs
<1>2. ASSUME NEW i \in Int PROVE i % AddrSpace \in 0 .. AddrSpace - 1
  BY <1>1
<1>3. Next_(a) \in Addrs /\ Prev_(a) \in Addrs
  <2>1. a + 1 \in Int /\ a - 1 \in Int
    BY <1>1
  <2> QED BY Zenon, <1>2, <2>1 DEF Next_, Prev_, Addrs
<1>4. CASE a + 1 < AddrSpace
  <2>1. (a + 1) % AddrSpace = a + 1
    BY <1>1, <1>4
  <2>2. a % AddrSpace = a
    BY <1>1
  <2> QED BY <1>1, <1>3, <2>1, <2>2 DEF Next_, Prev_
<1>5. CASE a + 1 = AddrSpace
  <2>1. AddrSpace % AddrSpace = 0
    BY <1>1
  <2>2. (0 - 1) % AddrSpace = AddrSpace - 1
    BY <1>1
  <2> QED BY <1>1, <1>3, <1>5, <2>1, <2>2 DEF Next_, Prev_
<1> QED BY <1>1, <1>4, <1>5

LEMMA MemoryTypes ==
  ASSUME NEW m \in [Ram -> Words], NEW a
  PROVE  /\ dbg_vaddr_read(m, a) \in Words
         /\ \A w \in Words : dbg_vaddr_write(m, a, w) \in [Ram -> Words]
         /\ \A bp, w : w \in Words /\ plain \in [Ram -> Words] => Follow(bp, a, w) \in [Ram -> Words]
         /\ "brk" \in Words /\ StoreWords \subseteq Words /\ Zero \in Words
<1>1. "brk" \in Words /\ StoreWords \subseteq Words /\ Zero \in Words
  BY DEF Words
<1> QED BY <1>1 DEF dbg_vaddr_read, dbg_vaddr_write, Follow

-----------------------------------------------------------------------------
(* The table of breakpoints *)

\* A set of numbers has a least one.
LEMMA LeastOf ==
  ASSUME NEW T \in SUBSET Nat, T # {}
  PROVE  \E x \in T : \A y \in T : ~(y < x)
<1> DEFINE R == OpToRel(<, Nat)
<1>1. IsWellFoundedOn(R, Nat)
  BY Zenon, NatLessThanWellFounded
<1>2. \A x, y \in Nat : y < x => <<y, x>> \in R
  BY DEF OpToRel
<1> HIDE DEF R
<1>3. PICK x \in T : \A y \in T : <<y, x>> \notin R
  BY Zenon, <1>1, WFMin
<1> QED BY Zenon, <1>2, <1>3

LEMMA FirstIn ==
  ASSUME NEW T \in SUBSET Slots, T # {}
  PROVE  First(T) \in T
<1>1. T \in SUBSET Nat
  BY GdbAssumption DEF Slots
<1>2. PICK x \in T : \A y \in T : ~(y < x)
  BY Zenon, <1>1, LeastOf
<1>3. \A y \in T : x <= y
  BY <1>1, <1>2
<1> QED BY Zenon, <1>3 DEF First

LEMMA SlotFields ==
  ASSUME MachineOK, NEW i \in Slots
  PROVE  /\ break_points[i] \in Table /\ break_points[i].used \in BOOLEAN
         /\ break_points[i].addr \in Addrs /\ break_points[i].value \in Words
BY DEF MachineOK, Table

LEMMA BrokenAtPlaces == \A a : Broken(break_points, a) <=> a \in Places
BY DEF Broken, Places, Used

LEMMA SameTable ==
  ASSUME break_points' = break_points
  PROVE  /\ Places' = Places /\ (OneSlotEach => OneSlotEach')
         /\ Transparent /\ UNCHANGED <<mem, plain>> => Transparent'
<1>1. Used' = Used
  BY Zenon DEF Used
<1>2. Places' = Places /\ (OneSlotEach => OneSlotEach')
  BY Zenon, <1>1 DEF Places, OneSlotEach
<1>3. Transparent /\ UNCHANGED <<mem, plain>> => Transparent'
  BY Zenon DEF Transparent, Broken
<1> QED BY Zenon, <1>2, <1>3

\* A store of the guest or of gdb.
LEMMA StoreKeeps ==
  ASSUME MachineOK, Transparent, NEW a \in StoreAddrs, NEW w \in StoreWords,
         mem' = dbg_vaddr_write(mem, a, w), plain' = Follow(break_points, a, w),
         break_points' = break_points
  PROVE  mem' \in [Ram -> Words] /\ plain' \in [Ram -> Words] /\ Transparent'
<1>1. a \in Ram /\ w \in Words
  BY GdbAssumption, MemoryTypes DEF MachineOK
<1>2. mem \in [Ram -> Words] /\ plain \in [Ram -> Words]
  BY DEF MachineOK
<1>3. mem' \in [Ram -> Words] /\ plain' \in [Ram -> Words]
  BY Zenon, <1>1, <1>2, MemoryTypes
<1>4. mem'[a] = w /\ \A b \in Ram : b # a => mem'[b] = mem[b]
  BY <1>1, <1>2 DEF dbg_vaddr_write
<1>5. \A b \in Ram : b # a => plain'[b] = plain[b]
  BY <1>1, <1>2 DEF Follow, dbg_vaddr_write
<1>6. Broken(break_points, a) => plain' = plain
  BY DEF Follow
<1>7. ~Broken(break_points, a) => plain'[a] = w
  BY <1>1, <1>2 DEF Follow, dbg_vaddr_write
<1>8. ASSUME NEW b \in Ram, ~Broken(break_points, b) PROVE mem'[b] = plain'[b]
  BY Zenon, <1>4, <1>5, <1>7, <1>8 DEF Transparent
<1>9. ASSUME NEW i \in Slots, break_points[i].used, break_points[i].addr \in Ram
      PROVE  break_points[i].value = plain'[break_points[i].addr]
  <2>1. break_points[i].value = plain[break_points[i].addr]
    BY Zenon, <1>9 DEF Transparent
  <2>2. Broken(break_points, break_points[i].addr)
    BY Zenon, <1>9 DEF Broken
  <2> QED BY Zenon, <1>5, <1>6, <1>9, <2>1, <2>2
<1> QED BY Zenon, <1>3, <1>8, <1>9 DEF Transparent

\* gdb_insert_break_point, at an address without a breakpoint.
LEMMA InsertTable ==
  ASSUME MachineOK, OneSlotEach, Transparent, FreeSlots # {}, NEW a \in Addrs, a \notin Places,
         break_points' = [break_points EXCEPT ![First(FreeSlots)] =
                            [used |-> TRUE, addr |-> a, value |-> dbg_vaddr_read(mem, a)]],
         mem' = dbg_vaddr_write(mem, a, "brk"), UNCHANGED <<plain, pc>>
  PROVE  MachineOK' /\ OneSlotEach' /\ Transparent' /\ Places' = Places \union {a}
<1> DEFINE h == First(FreeSlots)
           v == dbg_vaddr_read(mem, a)
           e == [used |-> TRUE, addr |-> a, value |-> v]
<1>1. h \in Slots /\ ~break_points[h].used
  <2>1. FreeSlots \in SUBSET Slots
    BY Zenon DEF FreeSlots
  <2>2. h \in FreeSlots
    BY Zenon, <2>1, FirstIn
  <2> QED BY Zenon, <2>2 DEF FreeSlots
<1>2. /\ mem \in [Ram -> Words] /\ plain \in [Ram -> Words] /\ pc \in Addrs
      /\ break_points \in [Slots -> Table]
  BY DEF MachineOK
<1>3. v \in Words /\ mem' \in [Ram -> Words]
  BY Zenon, <1>2, MemoryTypes
<1>4. (a \in Ram => v = mem[a]) /\ \A b \in Ram : b # a => mem'[b] = mem[b]
  BY <1>2 DEF dbg_vaddr_read, dbg_vaddr_write
<1> HIDE DEF v
<1>5. e \in Table /\ e.used /\ e.addr = a /\ e.value = v
  BY <1>3 DEF Table
<1> HIDE DEF e
<1>6. break_points' = [break_points EXCEPT ![h] = e]
  BY Zenon DEF h, e, v
<1> HIDE DEF h
<1>7. /\ break_points' \in [Slots -> Table] /\ break_points'[h] = e
      /\ \A i \in Slots : i # h => break_points'[i] = break_points[i]
  BY Zenon, <1>1, <1>2, <1>5, <1>6
<1>8. MachineOK'
  BY Zenon, <1>2, <1>3, <1>7 DEF MachineOK
<1>9. Used' = Used \union {h} /\ h \notin Used
  <2>1. \A i \in Slots : break_points'[i].used <=> (i = h \/ break_points[i].used)
    BY Zenon, <1>5, <1>7
  <2> QED BY Zenon, <1>1, <2>1 DEF Used
<1>10. \A i \in Used : i \in Slots /\ break_points'[i] = break_points[i] /\ break_points[i].addr # a
  BY Zenon, <1>7, <1>9 DEF Used, Places
<1>11. Places' = Places \union {a}
  <2>1. ASSUME NEW x \in Places' PROVE x \in Places \union {a}
    <3>1. PICK i \in Used' : x = break_points'[i].addr
      BY Zenon DEF Places
    <3>2. i = h => x = a
      BY Zenon, <1>5, <1>7, <3>1
    <3>3. i # h => i \in Used /\ x = break_points[i].addr
      BY Zenon, <1>9, <1>10, <3>1
    <3> QED BY Zenon, <3>2, <3>3 DEF Places
  <2>2. ASSUME NEW x \in Places PROVE x \in Places'
    <3>1. PICK i \in Used : x = break_points[i].addr
      BY Zenon DEF Places
    <3>2. i \in Used' /\ x = break_points'[i].addr
      BY Zenon, <1>9, <1>10, <3>1
    <3> QED BY Zenon, <3>2 DEF Places
  <2>3. a \in Places'
    <3>1. h \in Used' /\ break_points'[h].addr = a
      BY Zenon, <1>5, <1>7, <1>9
    <3> QED BY Zenon, <3>1 DEF Places
  <2> QED BY Zenon, <2>1, <2>2, <2>3
<1>12. OneSlotEach'
  <2>1. ASSUME NEW i \in Used', NEW j \in Used', break_points'[i].addr = break_points'[j].addr
        PROVE  i = j
    <3>1. (i = h \/ i \in Used) /\ (j = h \/ j \in Used) /\ break_points'[h].addr = a
      BY Zenon, <1>5, <1>7, <1>9
    <3>2. i \in Used /\ j \in Used => i = j
      BY Zenon, <1>10, <2>1 DEF OneSlotEach
    <3>3. (i = h /\ j \in Used => FALSE) /\ (j = h /\ i \in Used => FALSE)
      BY Zenon, <1>10, <2>1, <3>1
    <3> QED BY Zenon, <3>1, <3>2, <3>3
  <2> QED BY Zenon, <2>1 DEF OneSlotEach
<1>13. ASSUME NEW b \in Ram, ~Broken(break_points', b) PROVE mem'[b] = plain'[b]
  <2>1. b # a /\ ~Broken(break_points, b)
    BY Zenon, <1>1, <1>5, <1>7, <1>13 DEF Broken
  <2> QED BY Zenon, <1>4, <2>1 DEF Transparent
<1>14. ASSUME NEW i \in Slots, break_points'[i].used, break_points'[i].addr \in Ram
       PROVE  break_points'[i].value = plain'[break_points'[i].addr]
  <2>1. CASE i = h
    <3>1. a \in Ram => mem[a] = plain[a]
      BY Zenon, BrokenAtPlaces DEF Transparent
    <3>2. break_points'[i].value = v /\ break_points'[i].addr = a
      BY Zenon, <1>5, <1>7, <2>1
    <3> QED BY Zenon, <1>4, <1>14, <3>1, <3>2
  <2>2. CASE i # h
    BY Zenon, <1>7, <1>14, <2>2 DEF Transparent
  <2> QED BY Zenon, <2>1, <2>2
<1> QED BY Zenon, <1>8, <1>11, <1>12, <1>13, <1>14 DEF Transparent

\* gdb_remove_break_point, at an address with a breakpoint.
LEMMA RemoveTable ==
  ASSUME MachineOK, OneSlotEach, Transparent, NEW a,
         NEW here, here = {i \in Slots : break_points[i].used /\ break_points[i].addr = a},
         here # {},
         break_points' = [break_points EXCEPT ![First(here)].used = FALSE],
         mem' = dbg_vaddr_write(mem, a, break_points[First(here)].value),
         UNCHANGED <<plain, pc>>
  PROVE  MachineOK' /\ OneSlotEach' /\ Transparent' /\ Places' = Places \ {a}
<1> DEFINE h == First(here)
           v == break_points[h].value
           e == [break_points[h] EXCEPT !.used = FALSE]
<1>1. h \in Slots /\ break_points[h].used /\ break_points[h].addr = a
  <2>1. here \in SUBSET Slots
    BY Zenon
  <2>2. h \in here
    BY Zenon, <2>1, FirstIn
  <2> QED BY Zenon, <2>2
<1>2. /\ mem \in [Ram -> Words] /\ plain \in [Ram -> Words] /\ pc \in Addrs
      /\ break_points \in [Slots -> Table]
  BY DEF MachineOK
<1>3. break_points[h] \in Table /\ v \in Words /\ (a \in Ram => v = plain[a])
  BY Zenon, <1>1, SlotFields DEF Transparent
<1>4. mem' \in [Ram -> Words]
  BY Zenon, <1>2, <1>3, MemoryTypes
<1>5. (a \in Ram => mem'[a] = v) /\ \A b \in Ram : b # a => mem'[b] = mem[b]
  BY <1>2 DEF dbg_vaddr_write
<1> HIDE DEF v
<1>6. e \in Table /\ ~e.used
  BY Zenon, <1>3 DEF Table
<1>7. break_points' = [break_points EXCEPT ![h] = e]
  BY <1>1, <1>2
<1> HIDE DEF e, h
<1>8. /\ break_points' \in [Slots -> Table] /\ break_points'[h] = e
      /\ \A i \in Slots : i # h => break_points'[i] = break_points[i]
  BY <1>1, <1>2, <1>6, <1>7
<1>9. MachineOK'
  BY Zenon, <1>2, <1>4, <1>8 DEF MachineOK
<1>10. Used' = Used \ {h} /\ h \in Used
  <2>1. \A i \in Slots : break_points'[i].used <=> (i # h /\ break_points[i].used)
    BY Zenon, <1>6, <1>8
  <2> QED BY Zenon, <1>1, <2>1 DEF Used
<1>11. \A i \in Used \ {h} : /\ i \in Slots /\ break_points'[i] = break_points[i]
                             /\ break_points[i].addr # a
  BY Zenon, <1>1, <1>8, <1>10 DEF Used, OneSlotEach
<1>12. Places' = Places \ {a}
  <2>1. ASSUME NEW x \in Places' PROVE x \in Places \ {a}
    <3>1. PICK i \in Used' : x = break_points'[i].addr
      BY Zenon DEF Places
    <3>2. i \in Used /\ x = break_points[i].addr /\ x # a
      BY Zenon, <1>10, <1>11, <3>1
    <3> QED BY Zenon, <3>2 DEF Places
  <2>2. ASSUME NEW x \in Places \ {a} PROVE x \in Places'
    <3>1. PICK i \in Used : x = break_points[i].addr
      BY Zenon DEF Places
    <3>2. i # h
      BY Zenon, <1>1, <3>1
    <3>3. i \in Used' /\ x = break_points'[i].addr
      BY Zenon, <1>10, <1>11, <3>1, <3>2
    <3> QED BY Zenon, <3>3 DEF Places
  <2> QED BY Zenon, <2>1, <2>2
<1>13. OneSlotEach'
  <2>1. ASSUME NEW i \in Used', NEW j \in Used', break_points'[i].addr = break_points'[j].addr
        PROVE  i = j
    <3>1. /\ i \in Used /\ break_points'[i] = break_points[i]
          /\ j \in Used /\ break_points'[j] = break_points[j]
      BY Zenon, <1>10, <1>11
    <3> QED BY Zenon, <2>1, <3>1 DEF OneSlotEach
  <2> QED BY Zenon, <2>1 DEF OneSlotEach
<1>14. ASSUME NEW b \in Ram, ~Broken(break_points', b) PROVE mem'[b] = plain'[b]
  <2>1. b # a => ~Broken(break_points, b)
    BY Zenon, <1>1, <1>8, <1>14 DEF Broken
  <2> QED BY Zenon, <1>3, <1>5, <2>1 DEF Transparent
<1>15. ASSUME NEW i \in Slots, break_points'[i].used, break_points'[i].addr \in Ram
       PROVE  break_points'[i].value = plain'[break_points'[i].addr]
  <2>1. i # h
    BY Zenon, <1>6, <1>8, <1>15
  <2> QED BY Zenon, <1>8, <1>15, <2>1 DEF Transparent
<1> QED BY Zenon, <1>9, <1>12, <1>13, <1>14, <1>15 DEF Transparent

-----------------------------------------------------------------------------
(* What the server does with a request *)

LEMMA WireFacts ==
  ASSUME TypeOK
  PROVE  /\ This \in {0, 1} /\ Last \in {0, 1} /\ This # Last /\ NextNr(This) = Last
         /\ NextNr(Last) = This
         /\ toServer \in Seq(ToServer) /\ toClient \in Seq(ToClient) /\ Len(toClient) \in Nat
         /\ asked \in RequestPackets /\ asked.good /\ asked.body \in Requests
<1>1. /\ toServer \in Seq(ToServer) /\ toClient \in Seq(ToClient) /\ asked \in RequestPackets
      /\ asked.good
  BY DEF TypeOK, WireOK
<1>2. Len(toClient) \in Nat
  BY <1>1
<1>3. /\ asked.body \in Requests /\ asked.nr \in {0, 1} /\ NextNr(asked.nr) \in {0, 1}
      /\ NextNr(asked.nr) # asked.nr /\ NextNr(NextNr(asked.nr)) = asked.nr
  BY Zenon, <1>1, RequestFields
<1> QED BY Zenon, <1>1, <1>2, <1>3 DEF This, Last

LEMMA AckedAnyway ==
  ASSUME NEW s, NEW n, Acked(s, n, TRUE)
  PROVE  Acked(s, n, FALSE)
BY Zenon DEF Acked

\* While it is busy the server has read all of the request and gdb no answer to it.
LEMMA BusyFacts ==
  ASSUME IInv, at \in {"handle", "vCont", "run"}
  PROVE  /\ Busy /\ NoPacket(toServer) /\ client # "idle"
         /\ \/ client = "unacked" /\ Acked(toClient, This, TRUE)
            \/ client = "waiting" /\ toClient = <<>>
<1>1. at \notin {"recv", "send", "ack"} /\ at # "recv"
  OBVIOUS
<1>2. ~Replying(This) /\ ~Replying(Last)
  BY Zenon, <1>1 DEF Replying
<1>3. Taken \/ Waiting
  BY Zenon, <1>1, <1>2 DEF IInv, Protocol, Idle, Sent, Nacked
<1>4. "unacked" # "idle" /\ "waiting" # "idle"
  OBVIOUS
<1> QED BY Zenon, <1>2, <1>3, <1>4 DEF Taken, Waiting

LEMMA TableKept ==
  ASSUME IInv, UNCHANGED <<machine, break_points, plain>>
  PROVE  MachineOK' /\ OneSlotEach' /\ Transparent' /\ Places' = Places
<1>1. UNCHANGED <<mem, pc, plain, break_points>>
  BY DEF machine
<1>2. MachineOK'
  BY Zenon, <1>1 DEF MachineOK, IInv, TypeOK
<1> QED BY Zenon, <1>1, <1>2, SameTable DEF IInv

LEMMA AgreeKept ==
  ASSUME Agree, UNCHANGED <<asked, inserted, served>>, Places' = Places,
         client = "idle" <=> client' = "idle",
         at' \in {"send", "ack"} =>
           reply' = reply /\ (at \in {"send", "ack"} \/ ~Handled),
         Handled => (AllTell(toClient, This, asked.body, inserted, Places)
                      => AllTell(toClient', This, asked.body, inserted, Places))
  PROVE  Agree'
<1>1. (Handled <=> Handled') /\ This' = This
  BY Zenon DEF Handled, This
<1>2. Asks(asked.body) => Asks(asked.body)'
  BY Zenon DEF Asks
<1>3. (client # "idle" => Asks(asked.body))' /\ (~Handled => Places = inserted)'
  BY Zenon, <1>1, <1>2 DEF Agree
<1>4. ASSUME Handled'
      PROVE  (/\ asked.body.kind = "z" => Places = inserted \ {asked.body.addr}
              /\ asked.body.kind \notin {"Z", "z"} => Places = inserted)'
  BY Zenon, <1>1, <1>4 DEF Agree
<1>5. ASSUME Handled'
      PROVE  (at \in {"send", "ack"} => Tells(reply, asked.body, inserted, Places))'
  BY Zenon, <1>1, <1>5 DEF Agree
<1>6. ASSUME Handled' PROVE AllTell(toClient, This, asked.body, inserted, Places)'
  BY Zenon, <1>1, <1>6 DEF Agree
<1> QED BY Zenon, <1>3, <1>4, <1>5, <1>6 DEF Agree

\* A handler answers.
LEMMA AnswerKeeps ==
  ASSUME IInv, at \in {"handle", "vCont"}, NEW text \in Texts,
         Answer(text), Quiet, served' = cmd.nr,
         UNCHANGED <<nemu_state, ended>>,
         MachineOK', OneSlotEach', Transparent',
         asked.body.kind = "Z" =>
           Places' = IF text = "OK" THEN inserted \union {asked.body.addr} ELSE inserted,
         asked.body.kind = "z" => Places' = inserted \ {asked.body.addr},
         asked.body.kind \notin {"Z", "z"} => Places' = inserted
  PROVE  IInv'
<1>1. UNCHANGED <<toServer, toClient, client, asked, inserted>>
  BY DEF Quiet, gdb
<1>2. /\ Busy /\ NoPacket(toServer) /\ client # "idle"
      /\ \/ client = "unacked" /\ Acked(toClient, This, TRUE)
         \/ client = "waiting" /\ toClient = <<>>
  <2>1. at \in {"handle", "vCont", "run"}
    OBVIOUS
  <2> QED BY Zenon, <2>1, BusyFacts
<1>3. TypeOK /\ This \in {0, 1} /\ Len(toClient) \in Nat /\ This' = This
  BY Zenon, <1>1, WireFacts DEF IInv, This
<1>4. cmd.nr = This /\ at' = "send" /\ cmd' = NoRequest /\ reply' = Packet(text, This)
  BY Zenon, <1>2 DEF Busy, This, Answer
<1>5. reply' \in ReplyPackets /\ reply'.nr = This /\ reply'.body = text
  BY Zenon, <1>3, <1>4, NewReply
<1>6. ServerOK' /\ WireOK'
  <2>1. at' \in {"recv", "handle", "vCont", "run", "send", "ack"}
    BY <1>4
  <2> QED BY Zenon, <1>1, <1>3, <1>4, <1>5, <2>1, FirstValues DEF ServerOK, WireOK, TypeOK
<1>7. Replying(This)'
  <2>1. at' \in {"recv", "send", "ack"}
    BY <1>4
  <2> QED BY Zenon, <1>3, <1>4, <1>5, <2>1 DEF Replying
<1>8. Protocol'
  <2>1. CASE client = "unacked" /\ Acked(toClient, This, TRUE)
    <3>1. Acked(toClient, This, FALSE)
      BY Zenon, <2>1, AckedAnyway
    <3> QED BY Zenon, <1>1, <1>2, <1>3, <1>7, <2>1, <3>1 DEF Protocol, Taken
  <2>2. CASE client = "waiting" /\ toClient = <<>>
    <3>1. Answers(toClient, This)
      BY <2>2 DEF Answers
    <3> QED BY Zenon, <1>1, <1>2, <1>3, <1>7, <2>2, <3>1 DEF Protocol, Waiting
  <2> QED BY Zenon, <1>2, <2>1, <2>2
<1>9. Agree'
  <2>1. Handled' /\ client' # "idle"
    BY Zenon, <1>1, <1>2, <1>3, <1>4 DEF Handled
  <2>2. Asks(asked.body)'
    BY Zenon, <1>1, <1>2 DEF IInv, Agree, Asks
  <2>3. AllTell(toClient, This, asked.body, inserted, Places)'
    <3>1. AllTell(toClient, This, asked.body, inserted, Places')
      BY Zenon, <1>2, <1>3, NoneTell
    <3> QED BY Zenon, <1>1, <1>3, <3>1
  <2>4. Tells(reply, asked.body, inserted, Places)'
    BY Zenon, <1>1, <1>5 DEF Tells
  <2> QED BY Zenon, <1>1, <2>1, <2>2, <2>3, <2>4 DEF Agree
<1>10. EndedStays'
  <2>1. at' # "run"
    BY <1>4
  <2> QED BY Zenon, <2>1 DEF IInv, EndedStays
<1> QED BY Zenon, <1>6, <1>8, <1>9, <1>10 DEF IInv, TypeOK

\* cpu_exec is called, runs on or returns.
LEMMA RunKeeps ==
  ASSUME IInv, at \in {"vCont", "run"}, at' \in {"vCont", "run"}, Quiet,
         UNCHANGED <<cmd, reply, served, break_points>>,
         mem' \in [Ram -> Words], plain' \in [Ram -> Words], pc' \in Addrs, Transparent',
         EndedStays'
  PROVE  IInv'
<1>1. UNCHANGED <<toServer, toClient, client, asked, inserted>>
  BY DEF Quiet, gdb
<1>2. /\ Busy /\ NoPacket(toServer) /\ client # "idle"
      /\ \/ client = "unacked" /\ Acked(toClient, This, TRUE)
         \/ client = "waiting" /\ toClient = <<>>
  <2>1. at \in {"handle", "vCont", "run"}
    OBVIOUS
  <2> QED BY Zenon, <2>1, BusyFacts
<1>3. /\ at # "handle" /\ at' # "handle" /\ at' \in {"handle", "vCont", "run"}
      /\ at' \in {"recv", "handle", "vCont", "run", "send", "ack"} /\ at' \notin {"send", "ack"}
  OBVIOUS
<1>4. TypeOK'
  BY Zenon, <1>1, <1>3 DEF IInv, TypeOK, MachineOK, ServerOK, WireOK
<1>5. Places' = Places /\ OneSlotEach' /\ This' = This
  BY Zenon, <1>1, SameTable DEF IInv, This
<1>6. Busy'
  BY Zenon, <1>1, <1>2, <1>3, <1>5 DEF Busy
<1>7. Protocol'
  BY Zenon, <1>1, <1>2, <1>5, <1>6 DEF Protocol, Taken, Waiting
<1>8. Agree'
  BY Zenon, <1>1, <1>3, <1>5, AgreeKept DEF IInv
<1> QED BY Zenon, <1>4, <1>5, <1>7, <1>8 DEF IInv

LEMMA TextValues == /\ "" \in Texts /\ "OK" \in Texts /\ "data" \in Texts /\ "stop" \in Texts
                    /\ "" # "OK"
BY Zenon DEF Texts

LEMMA HandleFacts ==
  ASSUME IInv, at = "handle"
  PROVE  /\ cmd = asked /\ Places = inserted /\ asked.body \in Requests
         /\ Asks(asked.body) /\ at \in {"handle", "vCont"} /\ TypeOK
<1>1. at \in {"handle", "vCont", "run"} /\ at \in {"handle", "vCont"} /\ at \notin {"vCont", "run"}
  OBVIOUS
<1>2. cmd = asked /\ served = Last /\ client # "idle"
  BY Zenon, <1>1, BusyFacts DEF Busy
<1>3. TypeOK /\ Last # This /\ asked.body \in Requests
  BY Zenon, WireFacts DEF IInv
<1> QED BY Zenon, <1>1, <1>2, <1>3 DEF IInv, Agree, Handled

LEMMA InsertKeeps ==
  ASSUME IInv, gdb_insert_break_point
  PROVE  IInv'
<1> DEFINE a == asked.body.addr
<1>1. /\ at = "handle" /\ cmd.body.kind = "Z" /\ served' = cmd.nr /\ Quiet
      /\ UNCHANGED <<pc, nemu_state, plain, ended>>
  BY Zenon DEF gdb_insert_break_point, Handling
<1>2. /\ cmd = asked /\ Places = inserted /\ asked.body \in Requests
      /\ Asks(asked.body) /\ at \in {"handle", "vCont"} /\ TypeOK
  BY Zenon, <1>1, HandleFacts
<1>3. asked.body.kind = "Z" /\ asked.body.kind # "z" /\ asked.body.kind \in {"Z", "z"}
  BY <1>1, <1>2
<1>4. a \in Addrs /\ a \notin Places
  BY Zenon, <1>2, <1>3, RequestBody DEF Asks
<1>5. MachineOK /\ OneSlotEach /\ Transparent
  BY Zenon DEF IInv, TypeOK
<1>6. CASE FreeSlots = {}
  <2>1. Answer("") /\ UNCHANGED <<break_points, mem>>
    BY Zenon, <1>6 DEF gdb_insert_break_point
  <2>2. Places' = Places /\ OneSlotEach' /\ Transparent' /\ MachineOK'
    BY Zenon, <1>1, <1>5, <2>1, SameTable DEF MachineOK
  <2> QED BY Zenon, <1>1, <1>2, <1>3, <2>1, <2>2, AnswerKeeps, TextValues
<1>7. CASE FreeSlots # {}
  <2>1. /\ break_points' = [break_points EXCEPT ![First(FreeSlots)] =
                              [used |-> TRUE, addr |-> a, value |-> dbg_vaddr_read(mem, a)]]
        /\ mem' = dbg_vaddr_write(mem, a, "brk") /\ Answer("OK")
    BY Zenon, <1>2, <1>7 DEF gdb_insert_break_point
  <2>2. MachineOK' /\ OneSlotEach' /\ Transparent' /\ Places' = Places \union {a}
    BY Zenon, <1>1, <1>4, <1>5, <1>7, <2>1, InsertTable
  <2> QED BY Zenon, <1>1, <1>2, <1>3, <2>1, <2>2, AnswerKeeps, TextValues
<1> QED BY Zenon, <1>6, <1>7

LEMMA RemoveKeeps ==
  ASSUME IInv, gdb_remove_break_point
  PROVE  IInv'
<1> DEFINE a == asked.body.addr
           here == {i \in Slots : break_points[i].used /\ break_points[i].addr = a}
<1>1. /\ at = "handle" /\ cmd.body.kind = "z" /\ served' = cmd.nr /\ Quiet
      /\ UNCHANGED <<pc, nemu_state, plain, ended>>
  BY Zenon DEF gdb_remove_break_point, Handling
<1>2. /\ cmd = asked /\ Places = inserted /\ asked.body \in Requests
      /\ Asks(asked.body) /\ at \in {"handle", "vCont"} /\ TypeOK
  BY Zenon, <1>1, HandleFacts
<1>3. asked.body.kind = "z" /\ asked.body.kind # "Z" /\ asked.body.kind \in {"Z", "z"}
  BY <1>1, <1>2
<1>4. here # {}
  <2>1. a \in Places
    BY Zenon, <1>2, <1>3 DEF Asks
  <2> QED BY Zenon, <2>1 DEF Places, Used
<1>5. /\ break_points' = [break_points EXCEPT ![First(here)].used = FALSE]
      /\ mem' = dbg_vaddr_write(mem, a, break_points[First(here)].value) /\ Answer("OK")
  BY Zenon, <1>2, <1>4 DEF gdb_remove_break_point
<1>6. MachineOK /\ OneSlotEach /\ Transparent
  BY Zenon DEF IInv, TypeOK
<1>7. MachineOK' /\ OneSlotEach' /\ Transparent' /\ Places' = Places \ {a}
  BY Zenon, <1>1, <1>4, <1>5, <1>6, RemoveTable
<1> QED BY Zenon, <1>1, <1>2, <1>3, <1>5, <1>7, AnswerKeeps, TextValues

LEMMA WriteKeeps ==
  ASSUME IInv, gdb_write_memory
  PROVE  IInv'
<1>1. /\ at = "handle" /\ cmd.body.kind = "M" /\ served' = cmd.nr /\ Quiet /\ Answer("OK")
      /\ mem' = dbg_vaddr_write(mem, cmd.body.addr, cmd.body.word)
      /\ plain' = Follow(break_points, cmd.body.addr, cmd.body.word)
      /\ UNCHANGED <<pc, nemu_state, break_points, ended>>
  BY Zenon DEF gdb_write_memory, Handling
<1>2. /\ cmd = asked /\ Places = inserted /\ asked.body \in Requests
      /\ at \in {"handle", "vCont"} /\ TypeOK
  BY Zenon, <1>1, HandleFacts
<1>3. /\ asked.body.kind = "M" /\ asked.body.kind # "Z" /\ asked.body.kind # "z"
      /\ asked.body.kind \notin {"Z", "z"}
  BY <1>1, <1>2
<1>4. cmd.body.addr \in StoreAddrs /\ cmd.body.word \in StoreWords
  BY Zenon, <1>2, <1>3, RequestBody
<1>5. MachineOK /\ OneSlotEach /\ Transparent
  BY Zenon DEF IInv, TypeOK
<1>6. mem' \in [Ram -> Words] /\ plain' \in [Ram -> Words] /\ Transparent'
  BY Zenon, <1>1, <1>4, <1>5, StoreKeeps
<1>7. MachineOK'
  BY Zenon, <1>1, <1>5, <1>6 DEF MachineOK
<1>8. OneSlotEach' /\ Places' = inserted
  BY Zenon, <1>1, <1>2, <1>5, SameTable
<1> QED BY Zenon, <1>1, <1>2, <1>3, <1>6, <1>7, <1>8, AnswerKeeps, TextValues

LEMMA QueryKeeps ==
  ASSUME IInv, gdb_general_query
  PROVE  IInv'
<1>1. /\ at = "handle" /\ cmd.body.kind \in {"query", "unknown"} /\ served' = cmd.nr /\ Quiet
      /\ UNCHANGED <<machine, nemu_state, break_points, plain, ended>>
  BY Zenon DEF gdb_general_query, machine
<1>2. PICK text \in Texts : Answer(text)
  <2>1. Answer("data") \/ Answer("")
    BY Zenon DEF gdb_general_query
  <2> QED BY Zenon, <2>1, TextValues
<1>3. /\ cmd = asked /\ Places = inserted /\ at \in {"handle", "vCont"}
  BY Zenon, <1>1, HandleFacts
<1>4. /\ asked.body.kind # "Z" /\ asked.body.kind # "z" /\ asked.body.kind \notin {"Z", "z"}
  BY <1>1, <1>3
<1>5. MachineOK' /\ OneSlotEach' /\ Transparent' /\ Places' = Places
  BY Zenon, <1>1, TableKept
<1> QED BY Zenon, <1>1, <1>2, <1>3, <1>4, <1>5, AnswerKeeps

LEMMA DoneKeeps ==
  ASSUME IInv, VContDone
  PROVE  IInv'
<1>1. /\ at = "vCont" /\ served' = served /\ Quiet /\ Answer("stop")
      /\ UNCHANGED <<machine, nemu_state, break_points, plain, ended>>
  BY Zenon DEF VContDone, machine, history
<1>2. at \in {"handle", "vCont", "run"} /\ at \in {"handle", "vCont"} /\ at # "handle"
  BY <1>1
<1>3. Busy /\ client # "idle"
  BY Zenon, <1>2, BusyFacts
<1>4. cmd.nr = This /\ served = This /\ asked.body.kind = "vCont"
  BY Zenon, <1>2, <1>3 DEF Busy, This
<1>5. /\ asked.body.kind # "Z" /\ asked.body.kind # "z" /\ asked.body.kind \notin {"Z", "z"}
  BY <1>4
<1>6. Places = inserted
  BY Zenon, <1>3, <1>4, <1>5 DEF IInv, Agree, Handled
<1>7. MachineOK' /\ OneSlotEach' /\ Transparent' /\ Places' = Places
  BY Zenon, <1>1, TableKept
<1> QED BY Zenon, <1>1, <1>2, <1>4, <1>5, <1>6, <1>7, AnswerKeeps, TextValues

\* vCont starts.
LEMMA ExtendKeeps ==
  ASSUME IInv, gdb_extend_commands
  PROVE  IInv'
<1>1. /\ at = "handle" /\ cmd.body.kind = "vCont" /\ served' = cmd.nr /\ Quiet /\ at' = "vCont"
      /\ UNCHANGED <<machine, nemu_state, break_points, cmd, reply, plain, ended>>
  BY Zenon DEF gdb_extend_commands, Handling, machine
<1>2. UNCHANGED <<toServer, toClient, client, asked, inserted>>
  BY Zenon, <1>1 DEF Quiet, gdb
<1>3. /\ Busy /\ NoPacket(toServer) /\ client # "idle"
      /\ \/ client = "unacked" /\ Acked(toClient, This, TRUE)
         \/ client = "waiting" /\ toClient = <<>>
  <2>1. at \in {"handle", "vCont", "run"}
    BY <1>1
  <2> QED BY Zenon, <2>1, BusyFacts
<1>4. cmd = asked /\ Places = inserted /\ Asks(asked.body) /\ TypeOK
  BY Zenon, <1>1, HandleFacts
<1>5. /\ This \in {0, 1} /\ Len(toClient) \in Nat /\ This' = This /\ cmd.nr = This
  BY Zenon, <1>2, <1>4, WireFacts DEF This
<1>6. MachineOK' /\ OneSlotEach' /\ Transparent' /\ Places' = Places
  BY Zenon, <1>1, TableKept
<1>7. ServerOK' /\ WireOK'
  <2>1. at' \in {"recv", "handle", "vCont", "run", "send", "ack"}
    BY <1>1
  <2> QED BY Zenon, <1>1, <1>2, <1>4, <1>5, <2>1 DEF ServerOK, WireOK, TypeOK
<1>8. Busy'
  <2>1. at' \in {"handle", "vCont", "run"} /\ at' # "handle"
    BY <1>1
  <2> QED BY Zenon, <1>1, <1>2, <1>4, <1>5, <2>1 DEF Busy
<1>9. Protocol'
  BY Zenon, <1>2, <1>3, <1>5, <1>8 DEF Protocol, Taken, Waiting
<1>10. Agree'
  <2>1. Handled' /\ Asks(asked.body)'
    BY Zenon, <1>1, <1>2, <1>3, <1>4, <1>5 DEF Handled, Asks
  <2>2. /\ asked.body.kind # "Z" /\ asked.body.kind # "z" /\ at' \notin {"send", "ack"}
    BY <1>1, <1>4
  <2>3. AllTell(toClient, This, asked.body, inserted, Places)'
    <3>1. AllTell(toClient, This, asked.body, inserted, Places')
      BY Zenon, <1>3, <1>5, NoneTell
    <3> QED BY Zenon, <1>2, <1>5, <3>1
  <2> QED BY Zenon, <1>2, <1>4, <1>6, <2>1, <2>2, <2>3 DEF Agree
<1>11. EndedStays'
  <2>1. at' # "run"
    BY <1>1
  <2> QED BY Zenon, <1>1, <2>1 DEF IInv, EndedStays
<1> QED BY Zenon, <1>6, <1>7, <1>9, <1>10, <1>11 DEF IInv, TypeOK

-----------------------------------------------------------------------------
(* cpu_exec *)

\* cpu_exec is entered only when the program has not ended.
LEMMA CallKeeps ==
  ASSUME IInv, gdb_vCont_handler
  PROVE  IInv'
<1>1. /\ at = "vCont" /\ Quiet
      /\ UNCHANGED <<mem, break_points, cmd, reply, plain, served, ended>>
  BY Zenon DEF gdb_vCont_handler, history
<1>2. Call(-1, TRUE) \/ Call(1, FALSE)
  BY Zenon DEF gdb_vCont_handler
<1>3. MachineOK /\ Transparent /\ EndedStays /\ pc \in Addrs
  BY Zenon DEF IInv, TypeOK, MachineOK
<1>4. \/ at' = at /\ nemu_state' = nemu_state /\ (pc' = pc \/ pc' = Prev_(pc))
      \/ nemu_state # "END" /\ at' = "run" /\ pc' = pc
  BY Zenon, <1>2 DEF Call
<1>5. /\ pc' \in Addrs /\ mem' \in [Ram -> Words] /\ plain' \in [Ram -> Words] /\ Transparent'
  BY Zenon, <1>1, <1>3, <1>4, Around, SameTable DEF MachineOK
<1>6. at \in {"vCont", "run"} /\ at' \in {"vCont", "run"}
  BY <1>1, <1>4
<1>7. EndedStays'
  BY Zenon, <1>1, <1>3, <1>4 DEF EndedStays
<1> QED BY Zenon, <1>1, <1>5, <1>6, <1>7, RunKeeps

\* A turn that ends the program leaves the loop with NEMU_END.
LEMMA TurnFacts ==
  ASSUME at = "run", EndedStays, NEW p \in Addrs, NEW s, Turn(p, s)
  PROVE  /\ at \in {"vCont", "run"} /\ at' \in {"vCont", "run"} /\ pc' \in Addrs
         /\ EndedStays'
<1>1. Returned(p) \in Addrs
  BY Zenon, Around DEF Returned
<1>2. /\ (at' = "vCont" /\ pc' = Returned(p)) \/ (pc' = p /\ at' = at /\ s = "RUNNING")
      /\ s = "END" => at' = "vCont" /\ nemu_state' = "END"
      /\ ended' => ended \/ s = "END"
  BY Zenon DEF Turn
<1>3. at \in {"vCont", "run"} /\ at' \in {"vCont", "run"} /\ pc' \in Addrs
  BY <1>1, <1>2
<1>4. EndedStays'
  BY <1>2 DEF EndedStays
<1> QED BY Zenon, <1>3, <1>4

\* The instruction stores, or it does not.
LEMMA TurnKeeps ==
  ASSUME IInv, at = "run", NEW p \in Addrs, NEW s, Turn(p, s),
         Quiet, SameRequest,
         \/ UNCHANGED <<mem, plain>>
         \/ \E a \in StoreAddrs, w \in StoreWords :
              mem' = dbg_vaddr_write(mem, a, w) /\ plain' = Follow(break_points, a, w)
  PROVE  IInv'
<1>1. UNCHANGED <<cmd, reply, served, break_points>>
  BY Zenon DEF SameRequest
<1>2. MachineOK /\ Transparent /\ EndedStays
  BY Zenon DEF IInv, TypeOK
<1>3. /\ at \in {"vCont", "run"} /\ at' \in {"vCont", "run"} /\ pc' \in Addrs
      /\ EndedStays'
  BY Zenon, <1>2, TurnFacts
<1>4. mem' \in [Ram -> Words] /\ plain' \in [Ram -> Words] /\ Transparent'
  <2>1. CASE UNCHANGED <<mem, plain>>
    BY Zenon, <1>1, <1>2, <2>1, SameTable DEF MachineOK
  <2>2. CASE \E a \in StoreAddrs, w \in StoreWords :
               mem' = dbg_vaddr_write(mem, a, w) /\ plain' = Follow(break_points, a, w)
    BY Zenon, <1>1, <1>2, <2>2, StoreKeeps
  <2> QED BY Zenon, <2>1, <2>2
<1> QED BY Zenon, <1>1, <1>3, <1>4, RunKeeps

LEMMA GuestKeeps ==
  ASSUME IInv, Guest
  PROVE  IInv'
<1>1. pc \in Addrs
  BY Zenon DEF IInv, TypeOK, MachineOK
<1>2. ASSUME NEW target \in Addrs, ExecBreakpoint(target) \/ ExecTrap(target) \/ ExecOther(target)
      PROVE  IInv'
  <2>1. /\ at = "run" /\ Quiet /\ SameRequest /\ UNCHANGED <<mem, plain>>
        /\ Turn(target, "STOP") \/ Turn(target, "END") \/ Turn(target, nemu_state)
    BY Zenon, <1>2 DEF ExecBreakpoint, ExecTrap, ExecOther, Runs
  <2> QED BY Zenon, <2>1, TurnKeeps
<1>3. ASSUME NEW a \in StoreAddrs, NEW w \in StoreWords, NEW target \in Addrs,
             ExecStore(a, w, target)
      PROVE  IInv'
  <2>1. /\ at = "run" /\ Turn(target, nemu_state) /\ Quiet /\ SameRequest
        /\ mem' = dbg_vaddr_write(mem, a, w) /\ plain' = Follow(break_points, a, w)
    BY Zenon, <1>3 DEF ExecStore, Runs
  <2> QED BY Zenon, <2>1, TurnKeeps
<1>4. CASE ExecAbort
  <2>1. /\ at = "run" /\ at' = "vCont" /\ pc' = Returned(pc) /\ nemu_state' = "END"
        /\ Quiet /\ SameRequest /\ UNCHANGED <<mem, plain>>
    BY Zenon, <1>4 DEF ExecAbort
  <2>2. UNCHANGED <<cmd, reply, served, break_points>>
    BY Zenon, <2>1 DEF SameRequest
  <2>3. at \in {"vCont", "run"} /\ at' \in {"vCont", "run"} /\ at' # "run"
    BY <2>1
  <2>4. pc' \in Addrs /\ EndedStays'
    BY Zenon, <1>1, <2>1, <2>3, Around DEF Returned, EndedStays
  <2>5. mem' \in [Ram -> Words] /\ plain' \in [Ram -> Words] /\ Transparent'
    BY Zenon, <2>1, <2>2, SameTable DEF IInv, TypeOK, MachineOK
  <2> QED BY Zenon, <2>1, <2>2, <2>3, <2>4, <2>5, RunKeeps
<1> QED BY Zenon, <1>2, <1>3, <1>4 DEF Guest

-----------------------------------------------------------------------------
(* The socket *)

\* A step of the protocol leaves the machine and the table alone.
LEMMA WireKeeps ==
  ASSUME IInv, UNCHANGED <<machine, break_points, plain, ended, served>>,
         \/ at' = at
         \/ /\ at' \in {"recv", "handle", "send", "ack"}
            /\ at \in {"recv", "handle", "send", "ack"},
         cmd' \in RequestPackets, reply' \in ReplyPackets, WireOK', Protocol', Agree'
  PROVE  IInv'
<1>1. MachineOK' /\ OneSlotEach' /\ Transparent'
  BY Zenon, TableKept
<1>2. nemu_state' = nemu_state
  BY Zenon DEF machine
<1>3. CASE at' = at
  <2>1. ServerOK' /\ EndedStays'
    BY Zenon, <1>2, <1>3 DEF IInv, TypeOK, ServerOK, EndedStays
  <2> QED BY Zenon, <1>1, <2>1 DEF IInv, TypeOK
<1>4. CASE /\ at' \in {"recv", "handle", "send", "ack"}
           /\ at \in {"recv", "handle", "send", "ack"}
  <2>1. /\ at' \in {"recv", "handle", "vCont", "run", "send", "ack"} /\ at' # "run"
    BY <1>4
  <2>2. ServerOK' /\ EndedStays'
    BY Zenon, <1>2, <2>1 DEF IInv, TypeOK, ServerOK, EndedStays
  <2> QED BY Zenon, <1>1, <2>2 DEF IInv, TypeOK
<1> QED BY Zenon, <1>3, <1>4

\* A packet is read in phase Sent only.
LEMMA PacketSent ==
  ASSUME IInv, toServer # <<>>, IsPacket(Head(toServer)), at = "recv"
  PROVE  /\ Sent /\ NoPacket(Tail(toServer))
         /\ Head(toServer) = asked \/ Head(toServer) = Damaged(asked)
<1>1. TypeOK /\ toServer \in Seq(ToServer) /\ asked \in RequestPackets
  BY Zenon, WireFacts DEF IInv
<1>2. IsTail(Tail(toServer), toServer)
  BY Zenon, <1>1, Tailed
<1>3. ~NoPacket(toServer)
  BY Zenon, <1>2, TailPlain
<1>4. Sent
  BY Zenon, <1>3 DEF IInv, Protocol, Idle, Nacked, Taken, Waiting
<1>5. asked.type = "packet" /\ Damaged(asked).type = "packet"
  BY Zenon, <1>1, RequestFields
<1>6. OnItsWay(toServer, asked, FALSE) /\ FALSE \in BOOLEAN
  BY Zenon, <1>4 DEF Sent
<1>7. Head(toServer) \in {asked, Damaged(asked)} /\ NoPacket(Tail(toServer))
  BY Zenon, <1>2, <1>5, <1>6, TailOnItsWay
<1> QED BY Zenon, <1>4, <1>7

\* A mark before the request, or without one, is skipped.
LEMMA SkipMark ==
  ASSUME IInv, toServer # <<>>, ~IsPacket(Head(toServer)), toServer' = Tail(toServer),
         at \in {"recv", "ack"},
         at' = "recv" \/ (at' = "send" /\ at = "ack" /\ Head(toServer).type # "+" /\ reply' = reply),
         UNCHANGED <<toClient, client, asked, served, cmd>>
  PROVE  Protocol'
<1>1. TypeOK /\ toServer \in Seq(ToServer) /\ asked \in RequestPackets
  BY Zenon, WireFacts DEF IInv
<1>2. IsTail(toServer', toServer)
  BY Zenon, <1>1, Tailed
<1>3. /\ at \notin {"handle", "vCont", "run"} /\ at' \in {"recv", "send", "ack"}
      /\ (at = "recv" => at' = "recv") /\ (at' # "recv" => at' = "send" /\ at # "recv")
  OBVIOUS
<1>4. This' = This /\ Last' = Last /\ ~Busy
  BY Zenon, <1>3 DEF This, Last, Busy
<1>5. ASSUME NEW n, Replying(n)
      PROVE  served' = n /\ at' \in {"recv", "send", "ack"} /\ (at' # "recv" => reply'.nr = n)
  BY Zenon, <1>3, <1>5 DEF Replying
<1>6. NoPacket(toServer) => NoPacket(toServer')
  BY Zenon, <1>2, TailPlain
<1>7. CASE Idle
  <2>1. at' # "recv" => HasAck(toServer')
    BY Zenon, <1>2, <1>3, <1>7, TailPlain DEF Idle
  <2>2. Replying(This)'
    BY Zenon, <1>4, <1>5, <1>7 DEF Idle, Replying
  <2>3. Idle'
    BY Zenon, <1>4, <1>6, <1>7, <2>1, <2>2 DEF Idle
  <2> QED BY Zenon, <2>3 DEF Protocol
<1>8. CASE Sent
  <2>1. asked.type = "packet" /\ Damaged(asked).type = "packet" /\ TRUE \in BOOLEAN /\ FALSE \in BOOLEAN
    BY Zenon, <1>1, RequestFields
  <2>2. OnItsWay(toServer', asked, FALSE)
    BY Zenon, <1>2, <1>8, <2>1, TailOnItsWay DEF Sent
  <2>3. at' # "recv" => OnItsWay(toServer', asked, TRUE)
    BY Zenon, <1>2, <1>3, <1>8, <2>1, TailOnItsWay DEF Sent
  <2>4. Replying(Last)'
    BY Zenon, <1>4, <1>5, <1>8 DEF Sent, Replying
  <2>5. Sent'
    BY Zenon, <1>4, <1>8, <2>2, <2>3, <2>4 DEF Sent
  <2> QED BY Zenon, <2>5 DEF Protocol
<1>9. CASE Nacked
  <2>1. Nacked'
    BY Zenon, <1>3, <1>4, <1>6, <1>9 DEF Nacked
  <2> QED BY Zenon, <2>1 DEF Protocol
<1>10. CASE Taken \/ Waiting
  <2>1. Replying(This) /\ NoPacket(toServer')
    BY Zenon, <1>4, <1>6, <1>10 DEF Taken, Waiting
  <2>2. Replying(This)'
    BY Zenon, <1>4, <1>5, <2>1 DEF Replying
  <2>3. Taken' \/ Waiting'
    BY Zenon, <1>4, <1>10, <2>1, <2>2 DEF Taken, Waiting
  <2> QED BY Zenon, <2>3 DEF Protocol
<1> QED BY Zenon, <1>7, <1>8, <1>9, <1>10 DEF IInv, Protocol

LEMMA RecvKeeps ==
  ASSUME IInv, gdb_recv
  PROVE  IInv'
<1> DEFINE x == Head(toServer)
<1>1. /\ at = "recv" /\ toServer # <<>> /\ toServer' = Tail(toServer)
      /\ UNCHANGED <<machine, break_points, reply, client, asked, inserted, plain, served, ended>>
  BY Zenon DEF gdb_recv, gdb, history
<1>2. TypeOK /\ WireOK /\ ServerOK /\ toServer \in Seq(ToServer) /\ toClient \in Seq(ToClient)
      /\ Agree /\ asked \in RequestPackets
  BY Zenon, WireFacts DEF IInv, TypeOK
<1>3. toServer' \in Seq(ToServer) /\ x \in ToServer /\ IsTail(toServer', toServer)
  BY Zenon, <1>1, <1>2, Tailed
<1>4. /\ This' = This /\ Last' = Last /\ NextNr(This) = Last
      /\ Places' = Places
  BY Zenon, <1>1, <1>2, WireFacts, TableKept DEF This, Last
<1>5. CASE ~IsPacket(x)
  <2>1. UNCHANGED <<toClient, at, cmd>>
    BY Zenon, <1>5 DEF gdb_recv
  <2>2. at \in {"recv", "ack"} /\ at' = "recv" /\ at' \notin {"send", "ack"}
    BY <1>1, <2>1
  <2>3. Protocol'
    BY Zenon, <1>1, <1>5, <2>1, <2>2, SkipMark
  <2>4. Agree'
    BY Zenon, <1>1, <1>2, <1>4, <2>1, <2>2, AgreeKept
  <2>5. WireOK' /\ cmd' \in RequestPackets /\ reply' \in ReplyPackets
    BY Zenon, <1>1, <1>2, <1>3, <2>1 DEF WireOK, ServerOK
  <2> QED BY Zenon, <1>1, <2>1, <2>3, <2>4, <2>5, WireKeeps
<1>6. CASE IsPacket(x)
  <2>1. Sent /\ NoPacket(toServer') /\ (x = asked \/ x = Damaged(asked)) /\ x \in RequestPackets
    BY Zenon, <1>1, <1>3, <1>6, PacketSent, ReadPacket
  <2>2. \E c \in {"+", "-"} : toClient' = Append(toClient, Mark(c))
    BY Zenon, <1>6 DEF gdb_recv
  <2>3. PICK c \in {"+", "-"} : toClient' = Append(toClient, Mark(c))
    BY Zenon, <2>2
  <2>4. c \in {"+", "-", "^C"}
    OBVIOUS
  <2>5. Mark(c) \in ToClient /\ ~IsPacket(Mark(c)) /\ Mark(c).type = c
    BY Zenon, <2>4, MarkFields
  <2>6. toClient' \in Seq(ToClient) /\ IsLonger(toClient', toClient, Mark(c))
    BY Zenon, <1>2, <2>3, <2>5, Appended
  <2>7. AllTell(toClient, This, asked.body, inserted, Places)
          => AllTell(toClient', This, asked.body, inserted, Places)
    BY Zenon, <2>5, <2>6, AppendTell
  <2>8. client = "unacked" /\ served = Last /\ Answers(toClient, NextNr(This))
    BY Zenon, <1>4, <2>1 DEF Sent, Replying
  <2>9. WireOK'
    BY Zenon, <1>1, <1>2, <1>3, <2>6 DEF WireOK
  <2>10. CASE x.good
    <3>1. /\ at' = "handle" /\ cmd' = x /\ toClient' = Append(toClient, Mark("+"))
      BY Zenon, <1>6, <2>10 DEF gdb_recv
    <3>2. "+" \in {"+", "-", "^C"}
      OBVIOUS
    <3>3. Mark("+") \in ToClient /\ Mark("+").type = "+"
      BY Zenon, <3>2, MarkFields
    <3>4. IsLonger(toClient', toClient, Mark("+"))
      BY Zenon, <1>2, <3>1, <3>3, Appended
    <3>5. Acked(toClient', This, TRUE)
      BY Zenon, <2>8, <3>3, <3>4, AppendMark
    <3>6. x = asked
      BY Zenon, <1>2, <2>1, <2>10, RequestFields
    <3>7. /\ at' \in {"handle", "vCont", "run"} /\ at' \notin {"send", "ack"}
          /\ at' \in {"recv", "handle", "send", "ack"} /\ at \in {"recv", "handle", "send", "ack"}
      BY <1>1, <3>1
    <3>8. Busy'
      BY Zenon, <1>1, <1>4, <2>8, <3>1, <3>6, <3>7 DEF Busy
    <3>9. Protocol'
      BY Zenon, <1>1, <1>4, <2>1, <2>8, <3>5, <3>8 DEF Protocol, Taken
    <3>10. Agree'
      BY Zenon, <1>1, <1>2, <1>4, <2>7, <3>7, AgreeKept
    <3>11. cmd' \in RequestPackets /\ reply' \in ReplyPackets
      BY Zenon, <1>1, <1>2, <2>1, <3>1 DEF ServerOK
    <3> QED BY Zenon, <1>1, <2>9, <3>7, <3>9, <3>10, <3>11, WireKeeps
  <2>11. CASE ~x.good
    <3>1. UNCHANGED <<at, cmd>> /\ toClient' = Append(toClient, Mark("-"))
      BY Zenon, <1>6, <2>11 DEF gdb_recv
    <3>2. "-" \in {"+", "-", "^C"} /\ at' \notin {"send", "ack"}
      BY <1>1, <3>1
    <3>3. Mark("-") \in ToClient /\ Mark("-").type = "-"
      BY Zenon, <3>2, MarkFields
    <3>4. IsLonger(toClient', toClient, Mark("-"))
      BY Zenon, <1>2, <3>1, <3>3, Appended
    <3>5. Refused(toClient', This)
      BY Zenon, <2>8, <3>3, <3>4, AppendMark
    <3>6. Protocol'
      BY Zenon, <1>1, <1>4, <2>1, <2>8, <3>1, <3>5 DEF Protocol, Nacked
    <3>7. Agree'
      BY Zenon, <1>1, <1>2, <1>4, <2>7, <3>2, AgreeKept
    <3>8. cmd' \in RequestPackets /\ reply' \in ReplyPackets
      BY Zenon, <1>1, <1>2, <3>1 DEF ServerOK
    <3> QED BY Zenon, <1>1, <2>9, <3>1, <3>6, <3>7, <3>8, WireKeeps
  <2> QED BY Zenon, <2>10, <2>11
<1> QED BY Zenon, <1>5, <1>6

\* The answer goes out behind the mark of its request.
LEMMA SendKeeps ==
  ASSUME IInv, send_packet
  PROVE  IInv'
<1>1. /\ at = "send" /\ at' = "ack" /\ toClient' = Append(toClient, reply)
      /\ UNCHANGED <<machine, break_points, cmd, reply, toServer, client, asked, inserted,
                     plain, served, ended>>
  BY Zenon DEF send_packet, gdb, history
<1>2. TypeOK /\ WireOK /\ ServerOK /\ toClient \in Seq(ToClient) /\ Agree
      /\ NextNr(This) = Last /\ reply \in ReplyPackets
  BY Zenon, WireFacts DEF IInv, TypeOK, ServerOK
<1>3. reply \in ToClient /\ IsPacket(reply)
  BY Zenon, <1>2, ReplyFields
<1>4. toClient' \in Seq(ToClient) /\ IsLonger(toClient', toClient, reply)
  BY Zenon, <1>1, <1>2, <1>3, Appended
<1>5. /\ at' \in {"recv", "send", "ack"} /\ at # "recv" /\ at' # "recv"
      /\ at \in {"send", "ack"} /\ at \notin {"handle", "vCont", "run"}
      /\ at \in {"recv", "handle", "send", "ack"} /\ at' \in {"recv", "handle", "send", "ack"}
  BY <1>1
<1>6. This' = This /\ Last' = Last /\ Places' = Places /\ ~Busy
  BY Zenon, <1>1, <1>5, TableKept DEF This, Last, Busy
<1>7. ASSUME NEW n, Replying(n)
      PROVE  reply.nr = n /\ served' = n /\ (at' # "recv" => reply'.nr = n)
  BY Zenon, <1>1, <1>5, <1>7 DEF Replying
<1>8. Protocol'
  <2>1. CASE Idle
    <3>1. Replying(This)' /\ Answers(toClient', This)
      BY Zenon, <1>3, <1>4, <1>5, <1>6, <1>7, <2>1, AppendPlain DEF Idle, Replying
    <3> QED BY Zenon, <1>1, <1>5, <1>6, <2>1, <3>1 DEF Protocol, Idle
  <2>2. CASE Sent
    <3>1. Replying(Last)' /\ Answers(toClient', Last)
      BY Zenon, <1>3, <1>4, <1>5, <1>6, <1>7, <2>2, AppendPlain DEF Sent, Replying
    <3>2. Sent'
      BY Zenon, <1>1, <1>5, <1>6, <2>2, <3>1 DEF Sent
    <3> QED BY Zenon, <3>2 DEF Protocol
  <2>3. CASE Taken
    <3>1. Replying(This) /\ Acked(toClient, This, FALSE) /\ FALSE \in BOOLEAN
      BY Zenon, <1>6, <2>3 DEF Taken
    <3>2. reply.nr = This
      BY Zenon, <1>7, <3>1
    <3>3. Replying(This)'
      BY Zenon, <1>5, <1>6, <1>7, <3>1 DEF Replying
    <3>4. Acked(toClient', This, FALSE)
      BY Zenon, <1>3, <1>4, <3>1, <3>2, AppendMark
    <3>5. Taken'
      BY Zenon, <1>1, <1>6, <2>3, <3>3, <3>4 DEF Taken
    <3> QED BY Zenon, <3>5 DEF Protocol
  <2>4. CASE Waiting
    <3>1. Replying(This) /\ Answers(toClient, This)
      BY Zenon, <1>6, <2>4 DEF Waiting
    <3>2. Replying(This)' /\ Answers(toClient', This)
      BY Zenon, <1>3, <1>4, <1>5, <1>6, <1>7, <3>1, AppendPlain DEF Replying
    <3>3. Waiting'
      BY Zenon, <1>1, <1>6, <2>4, <3>2 DEF Waiting
    <3> QED BY Zenon, <3>3 DEF Protocol
  <2>5. ~Nacked
    BY Zenon, <1>5 DEF Nacked
  <2> QED BY Zenon, <2>1, <2>2, <2>3, <2>4, <2>5 DEF IInv, Protocol
<1>9. Agree'
  <2>1. Handled => Tells(reply, asked.body, inserted, Places)
    BY Zenon, <1>2, <1>5 DEF Agree
  <2>2. Handled => (AllTell(toClient, This, asked.body, inserted, Places)
                      => AllTell(toClient', This, asked.body, inserted, Places))
    BY Zenon, <1>4, <2>1, AppendTell
  <2> QED BY Zenon, <1>1, <1>2, <1>5, <1>6, <2>2, AgreeKept
<1>10. WireOK' /\ cmd' \in RequestPackets /\ reply' \in ReplyPackets
  BY Zenon, <1>1, <1>2, <1>4 DEF WireOK, ServerOK
<1> QED BY Zenon, <1>1, <1>5, <1>8, <1>9, <1>10, WireKeeps

\* The server waits for an acknowledgement: what it reads is a mark.
LEMMA HeadIsMark ==
  ASSUME IInv, at = "ack", toServer # <<>>
  PROVE  ~IsPacket(Head(toServer))
<1>1. TypeOK /\ toServer \in Seq(ToServer) /\ asked \in RequestPackets
  BY Zenon, WireFacts DEF IInv
<1>2. IsTail(Tail(toServer), toServer)
  BY Zenon, <1>1, Tailed
<1>3. at # "recv"
  OBVIOUS
<1>4. NoPacket(toServer) => ~IsPacket(Head(toServer))
  BY Zenon, <1>2, TailPlain
<1>5. CASE Sent
  <2>1. OnItsWay(toServer, asked, TRUE) /\ TRUE \in BOOLEAN
    BY Zenon, <1>3, <1>5 DEF Sent
  <2>2. asked.type = "packet" /\ Damaged(asked).type = "packet"
    BY Zenon, <1>1, RequestFields
  <2> QED BY Zenon, <1>2, <2>1, <2>2, TailOnItsWay
<1> QED BY Zenon, <1>4, <1>5 DEF IInv, Protocol, Idle, Nacked, Taken, Waiting

LEMMA AckKeeps ==
  ASSUME IInv, gdb_send
  PROVE  IInv'
<1>1. /\ at = "ack" /\ toServer # <<>> /\ toServer' = Tail(toServer)
      /\ UNCHANGED <<machine, break_points, cmd, toClient, client, asked, inserted,
                     plain, served, ended>>
  BY Zenon DEF gdb_send, gdb, history
<1>2. \/ at' = "recv" /\ reply' = NoReply
      \/ at' = "send" /\ Head(toServer).type # "+" /\ reply' = reply
  BY Zenon DEF gdb_send
<1>3. TypeOK /\ WireOK /\ ServerOK /\ toServer \in Seq(ToServer) /\ Agree
  BY Zenon, WireFacts DEF IInv, TypeOK
<1>4. toServer' \in Seq(ToServer)
  BY Zenon, <1>1, <1>3, Tailed
<1>5. /\ at \in {"recv", "ack"} /\ at \in {"send", "ack"}
      /\ (at' \in {"send", "ack"} => reply' = reply)
      /\ at \in {"recv", "handle", "send", "ack"} /\ at' \in {"recv", "handle", "send", "ack"}
  BY <1>1, <1>2
<1>6. Protocol'
  BY Zenon, <1>1, <1>2, <1>5, HeadIsMark, SkipMark
<1>7. Places' = Places
  BY Zenon, <1>1, TableKept
<1>8. Agree'
  BY Zenon, <1>1, <1>3, <1>5, <1>7, AgreeKept DEF This
<1>9. WireOK' /\ cmd' \in RequestPackets /\ reply' \in ReplyPackets
  BY Zenon, <1>1, <1>2, <1>3, <1>4, FirstValues DEF WireOK, ServerOK
<1> QED BY Zenon, <1>1, <1>5, <1>6, <1>8, <1>9, WireKeeps

-----------------------------------------------------------------------------
(* gdb *)

LEMMA AskKeeps ==
  ASSUME IInv, NEW r \in Requests, Ask(r)
  PROVE  IInv'
<1>1. /\ client = "idle" /\ Asks(r) /\ asked' = Packet(r, Last) /\ client' = "unacked"
      /\ UNCHANGED <<machine, break_points, at, cmd, reply, toClient, inserted,
                     plain, served, ended>>
  BY Zenon DEF Ask, server, history, Last
<1>2. PICK q \in {asked', Damaged(asked')} : toServer' = Append(toServer, q)
  BY Zenon DEF Ask, Transmit
<1>3. /\ TypeOK /\ WireOK /\ ServerOK /\ toServer \in Seq(ToServer) /\ Agree
      /\ Last \in {0, 1} /\ This # Last /\ NextNr(Last) = This
  BY Zenon, WireFacts DEF IInv, TypeOK
<1>4. asked' \in RequestPackets /\ asked'.good /\ asked'.body = r /\ asked'.nr = Last
  BY Zenon, <1>1, <1>3, NewRequest
<1>5. q \in ToServer
  BY Zenon, <1>4, RequestFields
<1>6. toServer' \in Seq(ToServer) /\ IsLonger(toServer', toServer, q)
  BY Zenon, <1>2, <1>3, <1>5, Appended
<1>7. This' = Last /\ Last' = This
  BY Zenon, <1>3, <1>4 DEF This, Last
<1>8. client # "unacked" /\ client # "waiting" /\ client' # "idle"
      /\ client' \in {"idle", "unacked", "waiting"}
  BY <1>1
<1>9. Idle
  BY Zenon, <1>8 DEF IInv, Protocol, Sent, Nacked, Taken, Waiting
<1>10. /\ Replying(This) /\ NoPacket(toServer) /\ Answers(toClient, This)
       /\ at # "recv" => HasAck(toServer)
  BY Zenon, <1>9 DEF Idle
<1>11. /\ OnItsWay(toServer', asked', FALSE)
       /\ at # "recv" => OnItsWay(toServer', asked', TRUE)
  BY Zenon, <1>2, <1>6, <1>10, AppendOnItsWay
<1>12. Replying(Last)'
  BY Zenon, <1>1, <1>7, <1>10 DEF Replying
<1>13. Sent'
  BY Zenon, <1>1, <1>7, <1>10, <1>11, <1>12 DEF Sent
<1>14. Places' = Places
  BY Zenon, <1>1, TableKept
<1>15. Agree'
  <2>1. ~Handled /\ ~Handled'
    BY Zenon, <1>1, <1>3, <1>7, <1>8, <1>10 DEF Handled, Replying
  <2>2. Asks(asked.body)'
    BY Zenon, <1>1, <1>4 DEF Asks
  <2>3. Places' = inserted'
    BY Zenon, <1>1, <1>3, <1>14, <2>1 DEF Agree
  <2> QED BY Zenon, <2>1, <2>2, <2>3 DEF Agree
<1>16. WireOK' /\ cmd' \in RequestPackets /\ reply' \in ReplyPackets
  BY Zenon, <1>1, <1>3, <1>4, <1>6, <1>8 DEF WireOK, ServerOK
<1>17. Protocol'
  BY Zenon, <1>13 DEF Protocol
<1> QED BY Zenon, <1>1, <1>15, <1>16, <1>17, WireKeeps

LEMMA InterruptKeeps ==
  ASSUME IInv, Interrupt
  PROVE  IInv'
<1>1. /\ client = "waiting" /\ toServer' = Append(toServer, Mark("^C"))
      /\ UNCHANGED <<machine, break_points, at, cmd, reply, toClient, client, asked, inserted,
                     plain, served, ended>>
  BY Zenon DEF Interrupt, server, history, gdb
<1>2. TypeOK /\ WireOK /\ ServerOK /\ toServer \in Seq(ToServer) /\ Agree
  BY Zenon, WireFacts DEF IInv, TypeOK
<1>3. "^C" \in {"+", "-", "^C"} /\ client # "idle" /\ client # "unacked"
  BY <1>1
<1>4. Mark("^C") \in ToServer /\ ~IsPacket(Mark("^C"))
  BY Zenon, <1>3, MarkFields
<1>5. toServer' \in Seq(ToServer) /\ IsLonger(toServer', toServer, Mark("^C"))
  BY Zenon, <1>1, <1>2, <1>4, Appended
<1>6. Waiting
  BY Zenon, <1>3 DEF IInv, Protocol, Idle, Sent, Nacked, Taken
<1>7. NoPacket(toServer')
  BY Zenon, <1>4, <1>5, <1>6, AppendPlain DEF Waiting
<1>8. This' = This /\ (Replying(This) => Replying(This)') /\ (Busy => Busy')
  BY Zenon, <1>1 DEF This, Last, Replying, Busy
<1>9. Waiting'
  BY Zenon, <1>1, <1>6, <1>7, <1>8 DEF Waiting
<1>10. Places' = Places
  BY Zenon, <1>1, TableKept
<1>11. Agree'
  BY Zenon, <1>1, <1>2, <1>10, AgreeKept
<1>12. WireOK' /\ cmd' \in RequestPackets /\ reply' \in ReplyPackets
  BY Zenon, <1>1, <1>2, <1>5 DEF WireOK, ServerOK
<1>13. Protocol'
  BY Zenon, <1>9 DEF Protocol
<1> QED BY Zenon, <1>1, <1>11, <1>12, <1>13, WireKeeps

\* Gdb looks for the mark of its request: it repeats a damaged request and drops old answers.
LEMMA ReadAckKeeps ==
  ASSUME IInv, ReadAck
  PROVE  IInv'
<1> DEFINE x == Head(toClient)
<1>1. /\ client = "unacked" /\ toClient # <<>> /\ toClient' = Tail(toClient)
      /\ UNCHANGED <<machine, break_points, at, cmd, reply, asked, inserted,
                     plain, served, ended>>
  BY Zenon DEF ReadAck, server, history
<1>2. /\ TypeOK /\ WireOK /\ ServerOK /\ toServer \in Seq(ToServer) /\ toClient \in Seq(ToClient)
      /\ Agree /\ asked \in RequestPackets
  BY Zenon, WireFacts DEF IInv, TypeOK
<1>3. toClient' \in Seq(ToClient) /\ IsTail(toClient', toClient)
  BY Zenon, <1>1, <1>2, Tailed
<1>4. /\ "+" \in {"+", "-", "^C"} /\ "+" # "-" /\ "-" # "+" /\ "packet" # "+" /\ "packet" # "-"
      /\ client # "idle" /\ client # "waiting"
      /\ "unacked" \in {"idle", "unacked", "waiting"} /\ "waiting" \in {"idle", "unacked", "waiting"}
      /\ "unacked" # "idle" /\ "waiting" # "idle"
  BY <1>1
<1>5. /\ x.type = "+" => client' = "waiting" /\ toServer' = toServer
      /\ x.type = "-" => client' = client /\ \E q \in {asked, Damaged(asked)} : toServer' = Append(toServer, q)
      /\ IsPacket(x) => client' = client /\ toServer' = Append(toServer, Mark("+"))
  BY Zenon, <1>4 DEF ReadAck, Transmit, IsPacket
<1>6. Mark("+") \in ToServer /\ ~IsPacket(Mark("+"))
  BY Zenon, <1>4, MarkFields
<1>7. ASSUME IsPacket(x)
      PROVE  toServer' \in Seq(ToServer) /\ IsLonger(toServer', toServer, Mark("+"))
  BY Zenon, <1>2, <1>5, <1>6, <1>7, Appended
<1>8. This' = This /\ Last' = Last /\ (Busy => Busy')
  BY Zenon, <1>1 DEF This, Last, Busy
<1>9. \A n : Replying(n) => served' = n /\ at' \in {"recv", "send", "ack"} /\ (at' # "recv" => reply'.nr = n)
  BY Zenon, <1>1 DEF Replying
<1>10. (Replying(This) => Replying(This)') /\ (Replying(Last) => Replying(Last)')
  BY Zenon, <1>8, <1>9 DEF Replying
<1>11. /\ Protocol' /\ toServer' \in Seq(ToServer)
       /\ client' # "idle" /\ client' \in {"idle", "unacked", "waiting"}
  <2>1. CASE Sent
    <3>1. IsPacket(x) /\ Answers(toClient', Last)
      BY Zenon, <1>3, <2>1, TailPlain DEF Sent
    <3>2. /\ OnItsWay(toServer', asked, FALSE)
          /\ at # "recv" => OnItsWay(toServer', asked, TRUE)
      BY Zenon, <1>6, <1>7, <2>1, <3>1, AppendOnItsWay DEF Sent
    <3>3. Sent'
      BY Zenon, <1>1, <1>5, <1>8, <1>10, <2>1, <3>1, <3>2 DEF Sent
    <3> QED BY Zenon, <1>1, <1>4, <1>5, <1>7, <3>1, <3>3 DEF Protocol
  <2>2. CASE Nacked
    <3>1. \/ x.type = "-" /\ Len(toClient') = 0
          \/ IsPacket(x) /\ Refused(toClient', This)
      BY Zenon, <1>3, <2>2, TailRefused DEF Nacked
    <3>2. CASE x.type = "-" /\ Len(toClient') = 0
      <4>1. PICK q \in {asked, Damaged(asked)} : toServer' = Append(toServer, q)
        BY Zenon, <1>5, <3>2
      <4>2. q \in ToServer
        BY Zenon, <1>2, RequestFields
      <4>3. toServer' \in Seq(ToServer) /\ IsLonger(toServer', toServer, q)
        BY Zenon, <1>2, <4>1, <4>2, Appended
      <4>4. OnItsWay(toServer', asked, FALSE)
        BY Zenon, <2>2, <4>3, AppendOnItsWay DEF Nacked
      <4>5. Answers(toClient', Last)
        BY <3>2 DEF Answers
      <4>6. at' = "recv" /\ "recv" \in {"recv", "send", "ack"} /\ served' = Last
        BY <1>1, <2>2 DEF Nacked
      <4>7. Replying(Last)'
        BY Zenon, <1>8, <4>6 DEF Replying
      <4>8. Sent'
        BY Zenon, <1>1, <1>5, <1>8, <3>2, <4>4, <4>5, <4>6, <4>7 DEF Sent
      <4> QED BY Zenon, <1>1, <1>4, <1>5, <3>2, <4>3, <4>8 DEF Protocol
    <3>3. CASE IsPacket(x) /\ Refused(toClient', This)
      <4>1. NoPacket(toServer')
        BY Zenon, <1>6, <1>7, <2>2, <3>3, AppendPlain DEF Nacked
      <4>2. Nacked'
        BY Zenon, <1>1, <1>5, <1>8, <2>2, <3>3, <4>1 DEF Nacked
      <4> QED BY Zenon, <1>1, <1>4, <1>5, <1>7, <3>3, <4>2 DEF Protocol
    <3> QED BY Zenon, <3>1, <3>2, <3>3
  <2>3. CASE Taken
    <3>1. PICK unanswered \in BOOLEAN :
            /\ Acked(toClient, This, unanswered)
            /\ \/ Replying(This) /\ unanswered = FALSE
               \/ Busy /\ unanswered = TRUE
      BY Zenon, <2>3 DEF Taken
    <3>2. \/ x.type = "+" /\ Answers(toClient', This) /\ (unanswered => Len(toClient') = 0)
          \/ IsPacket(x) /\ Acked(toClient', This, unanswered)
      <4>1. Acked(toClient, This, unanswered)
        BY Zenon, <3>1
      <4> QED BY <1>3, <4>1, TailAcked
    <3>3. CASE x.type = "+" /\ Answers(toClient', This) /\ (unanswered => Len(toClient') = 0)
      <4>1. unanswered => toClient' = <<>>
        BY <1>3, <3>3
      <4>2. Waiting'
        BY Zenon, <1>5, <1>8, <1>10, <2>3, <3>1, <3>3, <4>1 DEF Waiting, Taken
      <4> QED BY Zenon, <1>2, <1>4, <1>5, <3>3, <4>2 DEF Protocol
    <3>4. CASE IsPacket(x) /\ Acked(toClient', This, unanswered)
      <4>1. NoPacket(toServer')
        BY Zenon, <1>6, <1>7, <2>3, <3>4, AppendPlain DEF Taken
      <4>2. Taken'
        BY Zenon, <1>1, <1>5, <1>8, <1>10, <3>1, <3>4, <4>1 DEF Taken
      <4> QED BY Zenon, <1>1, <1>4, <1>5, <1>7, <3>4, <4>2 DEF Protocol
    <3> QED BY Zenon, <3>2, <3>3, <3>4
  <2> QED BY Zenon, <1>4, <2>1, <2>2, <2>3 DEF IInv, Protocol, Idle, Waiting
<1>12. Agree'
  <2>1. AllTell(toClient, This, asked.body, inserted, Places)
          => AllTell(toClient', This, asked.body, inserted, Places)
    BY Zenon, <1>3, TailTell
  <2>2. Places' = Places
    BY Zenon, <1>1, TableKept
  <2> QED BY Zenon, <1>1, <1>2, <1>4, <1>11, <2>1, <2>2, AgreeKept
<1>13. WireOK' /\ cmd' \in RequestPackets /\ reply' \in ReplyPackets
  BY Zenon, <1>1, <1>2, <1>3, <1>11 DEF WireOK, ServerOK
<1> QED BY Zenon, <1>1, <1>11, <1>12, <1>13, WireKeeps

\* Gdb takes the answer, or asks for it again.
LEMMA ReadReplyKeeps ==
  ASSUME IInv, ReadReply
  PROVE  IInv'
<1> DEFINE x == Head(toClient)
<1>1. /\ client = "waiting" /\ toClient # <<>> /\ toClient' = Tail(toClient)
      /\ UNCHANGED <<machine, break_points, at, cmd, reply, asked, plain, served, ended>>
  BY Zenon DEF ReadReply, server, history
<1>2. /\ TypeOK /\ WireOK /\ ServerOK /\ toServer \in Seq(ToServer) /\ toClient \in Seq(ToClient)
      /\ Agree
  BY Zenon, WireFacts DEF IInv, TypeOK
<1>3. toClient' \in Seq(ToClient) /\ IsTail(toClient', toClient)
  BY Zenon, <1>1, <1>2, Tailed
<1>4. /\ client # "idle" /\ client # "unacked"
      /\ "+" \in {"+", "-", "^C"} /\ "-" \in {"+", "-", "^C"}
      /\ "idle" \in {"idle", "unacked", "waiting"}
  BY <1>1
<1>5. Waiting
  BY Zenon, <1>4 DEF IInv, Protocol, Idle, Sent, Nacked, Taken
<1>6. Replying(This) /\ Answers(toClient, This) /\ NoPacket(toServer)
  BY Zenon, <1>1, <1>5 DEF Waiting
<1>7. IsPacket(x) /\ x.nr = This /\ Answers(toClient', This)
  BY Zenon, <1>3, <1>6, TailPlain
<1>8. This' = This /\ Replying(This)' /\ Places' = Places
  BY Zenon, <1>1, <1>6, TableKept DEF This, Replying
<1>9. /\ Handled /\ AllTell(toClient, This, asked.body, inserted, Places)
      /\ asked.body.kind = "z" => Places = inserted \ {asked.body.addr}
      /\ asked.body.kind \notin {"Z", "z"} => Places = inserted
  BY Zenon, <1>2, <1>4, <1>6 DEF Handled, Agree, Replying
<1>10. /\ AllTell(toClient', This, asked.body, inserted, Places)
       /\ Tells(x, asked.body, inserted, Places)
  BY Zenon, <1>3, <1>7, <1>9, TailTell
<1>11. cmd' \in RequestPackets /\ reply' \in ReplyPackets
  BY Zenon, <1>1, <1>2 DEF ServerOK
<1>12. CASE /\ toServer' = Append(toServer, Mark("+")) /\ client' = "idle"
            /\ inserted' = CASE asked.body.kind = "Z" /\ x.body = "OK"
                                  -> inserted \union {asked.body.addr}
                             [] asked.body.kind = "z" -> inserted \ {asked.body.addr}
                             [] OTHER -> inserted
  <2>1. Mark("+") \in ToServer /\ ~IsPacket(Mark("+")) /\ Mark("+").type = "+"
    BY Zenon, <1>4, MarkFields
  <2>2. toServer' \in Seq(ToServer) /\ IsLonger(toServer', toServer, Mark("+"))
    BY Zenon, <1>2, <1>12, <2>1, Appended
  <2>3. NoPacket(toServer') /\ HasAck(toServer')
    BY Zenon, <1>6, <2>1, <2>2, AppendPlain
  <2>4. Protocol'
    BY Zenon, <1>7, <1>8, <1>12, <2>3 DEF Protocol, Idle
  <2>5. Places = inserted'
    <3>1. CASE asked.body.kind = "Z"
      <4>1. asked.body.kind # "z"
        BY <3>1
      <4>2. inserted' = IF x.body = "OK" THEN inserted \union {asked.body.addr} ELSE inserted
        BY Zenon, <1>12, <3>1, <4>1
      <4> QED BY Zenon, <1>10, <3>1, <4>2 DEF Tells
    <3>2. CASE asked.body.kind = "z"
      <4>1. asked.body.kind # "Z"
        BY <3>2
      <4> QED BY Zenon, <1>9, <1>12, <3>2, <4>1
    <3>3. CASE asked.body.kind # "Z" /\ asked.body.kind # "z"
      BY Zenon, <1>9, <1>12, <3>3
    <3> QED BY Zenon, <3>1, <3>2, <3>3
  <2>6. Agree'
    BY Zenon, <1>8, <1>12, <2>5 DEF Agree, Handled
  <2>7. WireOK'
    BY Zenon, <1>1, <1>2, <1>3, <1>4, <1>12, <2>2 DEF WireOK
  <2> QED BY Zenon, <1>1, <1>11, <2>4, <2>6, <2>7, WireKeeps
<1>13. CASE toServer' = Append(toServer, Mark("-")) /\ UNCHANGED <<client, inserted>>
  <2>1. Mark("-") \in ToServer /\ ~IsPacket(Mark("-"))
    BY Zenon, <1>4, MarkFields
  <2>2. toServer' \in Seq(ToServer) /\ IsLonger(toServer', toServer, Mark("-"))
    BY Zenon, <1>2, <1>13, <2>1, Appended
  <2>3. NoPacket(toServer')
    BY Zenon, <1>6, <2>1, <2>2, AppendPlain
  <2>4. Protocol'
    BY Zenon, <1>1, <1>7, <1>8, <1>13, <2>3 DEF Protocol, Waiting
  <2>5. Agree'
    BY Zenon, <1>1, <1>2, <1>8, <1>10, <1>13, AgreeKept
  <2>6. WireOK'
    BY Zenon, <1>1, <1>2, <1>3, <1>13, <2>2 DEF WireOK
  <2> QED BY Zenon, <1>1, <1>11, <2>4, <2>5, <2>6, WireKeeps
<1> QED BY Zenon, <1>7, <1>12, <1>13 DEF ReadReply

-----------------------------------------------------------------------------
(* The theorems *)

LEMMA InitKeeps ==
  ASSUME Init
  PROVE  IInv
<1> USE DEF Init
<1>1. 0 \in Addrs /\ Zero \in Words
  BY GdbAssumption DEF Addrs, Words
<1>2. break_points \in [Slots -> Table] /\ \A i \in Slots : ~break_points[i].used
  BY <1>1 DEF Table
<1>3. MachineOK
  BY Zenon, <1>1, <1>2, GdbAssumption DEF MachineOK
<1>4. ServerOK
  BY <1>1, FirstValues DEF ServerOK
<1>5. WireOK
  BY FirstValues DEF WireOK
<1>6. Used = {} /\ Places = {}
  BY Zenon, <1>2 DEF Used, Places
<1>7. OneSlotEach /\ Transparent
  BY Zenon, <1>2, <1>6 DEF OneSlotEach, Transparent
<1>8. NoPacket(toServer) /\ Answers(toClient, This)
  BY DEF NoPacket, Answers
<1>9. Replying(This)
  BY FirstValues DEF Replying, This
<1>10. Idle
  BY <1>8, <1>9 DEF Idle
<1>11. Agree /\ EndedStays
  BY <1>6 DEF Agree, Handled, EndedStays
<1> QED BY Zenon, <1>3, <1>4, <1>5, <1>7, <1>10, <1>11 DEF IInv, TypeOK, Protocol

\* A delivered SIGINT changes nemu_state only, and the program has not ended then.
LEMMA StillKeeps ==
  ASSUME IInv, gdb_sigint_handler \/ UNCHANGED vars
  PROVE  IInv'
<1>1. UNCHANGED <<mem, pc, break_points, at, cmd, exec, reply, toServer, toClient,
                  client, asked, inserted, plain, served>>
  BY Zenon DEF gdb_sigint_handler, vars, machine, server, gdb, history
<1>2. Places' = Places /\ OneSlotEach' /\ Transparent'
  BY Zenon, <1>1, SameTable DEF IInv
<1>3. TypeOK' /\ EndedStays'
  <2>1. (ended' = FALSE) \/ UNCHANGED <<nemu_state, ended, at>>
    BY Zenon DEF gdb_sigint_handler, vars, machine, server, history
  <2>2. EndedStays'
    BY Zenon, <2>1 DEF IInv, EndedStays
  <2> QED BY Zenon, <1>1, <2>2 DEF IInv, TypeOK, MachineOK, ServerOK, WireOK
<1>4. This' = This /\ Last' = Last
  BY Zenon, <1>1 DEF This, Last
<1>5. Protocol'
  BY Zenon, <1>1, <1>4 DEF IInv, Protocol, Idle, Sent, Nacked, Taken, Waiting, Replying, Busy
<1>6. Agree'
  BY Zenon, <1>1, <1>2, AgreeKept DEF IInv
<1> QED BY Zenon, <1>2, <1>3, <1>5, <1>6 DEF IInv

LEMMA StepKeeps ==
  ASSUME IInv, [Next]_vars
  PROVE  IInv'
<1>1. CASE Serve
  BY Zenon, <1>1, RecvKeeps, SendKeeps, AckKeeps, InsertKeeps, RemoveKeeps, WriteKeeps,
     QueryKeeps, ExtendKeeps, CallKeeps, DoneKeeps DEF Serve
<1>2. CASE Client
  BY Zenon, <1>2, ReadAckKeeps, ReadReplyKeeps DEF Client
<1>3. CASE User
  BY Zenon, <1>3, InterruptKeeps, AskKeeps DEF User
<1> QED BY Zenon, <1>1, <1>2, <1>3, GuestKeeps, StillKeeps DEF Next

\* The invariant: a request is in one of its phases, and gdb, the table of
\* breakpoints and memory agree as that phase says.
THEOREM Inductive == Spec => []IInv
<1>1. Init => IInv
  BY InitKeeps
<1>2. IInv /\ [Next]_vars => IInv'
  BY StepKeeps
<1> QED BY <1>1, <1>2, PTL DEF Spec

\* Whatever gdb and the guest store and however packets are repeated, the words
\* gdb_insert_break_point replaced are kept and come back.
THEOREM TransparentCorrect == Spec => []Transparent
<1>1. IInv => Transparent
  BY DEF IInv
<1> QED BY <1>1, Inductive, PTL

\* A breakpoint has one slot, so that there are as many used slots as places.
LEMMA OneSlotCount ==
  ASSUME OneSlotEach
  PROVE  Cardinality(Places) = Cardinality(Used)
<1> DEFINE f == [i \in Used |-> break_points[i].addr]
<1>1. IsFiniteSet(Used)
  <2>1. 0 \in Int /\ NR_BREAK_POINTS - 1 \in Int
    BY GdbAssumption
  <2>2. IsFiniteSet(Slots)
    BY Zenon, <2>1, FS_Interval DEF Slots
  <2>3. Used \in SUBSET Slots
    BY Zenon DEF Used
  <2> QED BY Zenon, <2>2, <2>3, FS_Subset
<1>2. f \in [Used -> Places]
  BY Zenon DEF Places
<1>3. \A i, j \in Used : f[i] = f[j] => i = j
  BY Zenon DEF OneSlotEach
<1>4. \A a \in Places : \E i \in Used : f[i] = a
  BY Zenon DEF Places
<1> HIDE DEF f
<1>5. f \in Bijection(Used, Places)
  BY Zenon, <1>2, <1>3, <1>4 DEF Bijection, Injection, Surjection, IsInjective
<1>6. ExistsBijection(Used, Places)
  BY Zenon, <1>5 DEF ExistsBijection
<1> QED BY Zenon, <1>1, <1>6, FS_Bijection

\* While no request is under way gdb and the stub agree on the breakpoints.
THEOREM SameBreakpointsCorrect == Spec => []SameBreakpoints
<1>1. ASSUME IInv PROVE SameBreakpoints
  <2>1. SUFFICES ASSUME client = "idle"
        PROVE  inserted = Places /\ Cardinality(inserted) = Cardinality(Used)
    BY Zenon DEF SameBreakpoints, Places, Used
  <2>2. inserted = Places
    BY Zenon, <1>1, <2>1 DEF IInv, Agree, Handled
  <2> QED BY Zenon, <1>1, <2>2, OneSlotCount DEF IInv
<1> QED BY <1>1, Inductive, PTL

\* Each request is handled once and its answer is the one gdb takes, and gdb_send
\* never looks for an acknowledgement inside a request.
THEOREM AnsweredOnceCorrect == Spec => []AnsweredOnce
<1>1. ASSUME IInv PROVE AnsweredOnce
  <2>1. at = "ack" /\ toServer # <<>> => ~IsPacket(Head(toServer))
    BY Zenon, <1>1, HeadIsMark
  <2>2. ASSUME at = "handle" PROVE cmd.nr = asked.nr /\ served # asked.nr
    <3>1. at \in {"handle", "vCont", "run"}
      BY <2>2
    <3>2. Busy
      BY Zenon, <1>1, <3>1, BusyFacts
    <3>3. This # Last
      BY Zenon, <1>1, WireFacts DEF IInv
    <3> QED BY Zenon, <2>2, <3>2, <3>3 DEF Busy, This
  <2>3. ASSUME client = "waiting", toClient # <<>>, IsPacket(Head(toClient))
        PROVE  Head(toClient).nr = asked.nr
    <3>1. client # "idle" /\ client # "unacked"
      BY <2>3
    <3>2. Waiting
      BY Zenon, <1>1, <3>1 DEF IInv, Protocol, Idle, Sent, Nacked, Taken
    <3>3. toClient \in Seq(ToClient)
      BY Zenon, <1>1, WireFacts DEF IInv
    <3>4. IsTail(Tail(toClient), toClient)
      BY Zenon, <2>3, <3>3, Tailed
    <3>5. Answers(toClient, This)
      BY Zenon, <2>3, <3>2 DEF Waiting
    <3> QED BY Zenon, <3>4, <3>5, TailPlain DEF This
  <2> QED BY Zenon, <2>1, <2>2, <2>3 DEF AnsweredOnce
<1> QED BY <1>1, Inductive, PTL

\* A program that has ended runs no further instruction until a SIGINT comes.
THEOREM EndedStaysCorrect == Spec => []EndedStays
<1>1. IInv => EndedStays
  BY DEF IInv
<1> QED BY <1>1, Inductive, PTL
=============================================================================
