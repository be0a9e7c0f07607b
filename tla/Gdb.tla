--------------------------------- MODULE Gdb ---------------------------------
(* The gdb stub (src/utils/gdbstub) in the default work mode, between a gdb on *)
(* the other end of a socket and the loop of cpu_exec: the acknowledged        *)
(* packets of gdb-proto.c, the table of software breakpoints, continue and     *)
(* step, and the SIGINT of the terminal that both processes share.             *)
(*                                                                             *)
(* An address is the index of a word of an unmapped segment.  A word is what   *)
(* the stub and the loop tell apart: "brk" is 0x0005000d, "eret" 0x42000018,   *)
(* "trap" a store to the trap device, the others are plain instructions, which *)
(* may store.  The address an instruction leaves in pc is any: the next one,   *)
(* the target of a branch (at the branch or at the end of its delay slot), or  *)
(* the vector of an exception or of an interrupt taken at its end.             *)
EXTENDS Integers, Sequences, FiniteSets

CONSTANTS
  AddrSpace,        \* number of words
  Ram,              \* the addresses a device backs
  Program,          \* what the image holds
  Zero,             \* the word 0, a plain instruction
  StoreWords,       \* what the guest and gdb store
  StoreAddrs,       \* where they store it
  BreakAddrs,       \* where gdb sets breakpoints
  NR_BREAK_POINTS,
  MaxDamage,        \* bound: packets that arrive with a wrong checksum
  MaxInterrupts     \* bound: ^C typed at the terminal

Words == {Program[a] : a \in Ram} \union StoreWords \union {Zero, "brk"}

ASSUME GdbAssumption ==
  /\ AddrSpace \in Nat \ {0}
  /\ Ram \subseteq 0 .. AddrSpace - 1
  /\ Program \in [Ram -> Words]
  /\ StoreAddrs \subseteq Ram
  /\ BreakAddrs \subseteq 0 .. AddrSpace - 1
  /\ NR_BREAK_POINTS \in Nat \ {0}

VARIABLES
  mem, pc, nemu_state,
  break_points,
  at,           \* where the server stands: recv, handle, vCont, run, send, ack
  cmd,          \* the request being handled
  acts,         \* the actions of vCont that are left
  exec,         \* the call of cpu_exec: n, and whether pc is moved back after it
  reply,
  toServer, toClient,
  client,       \* where gdb stands: idle, unacked, waiting
  asked,        \* the request gdb is waiting for
  inserted,     \* the breakpoints gdb knows to be in place
  sigint,       \* a SIGINT that is not delivered yet
  damage, interrupts,
  plain,        \* history: memory as written past the breakpoints
  served,       \* history: the number of the last request handled
  ended         \* history: the program has ended and no SIGINT came since

machine == <<mem, pc, nemu_state>>
server == <<break_points, at, cmd, acts, exec, reply>>
gdb == <<client, asked, inserted>>
history == <<plain, served, ended>>
vars == <<machine, server, toServer, toClient, gdb, sigint, damage, interrupts, history>>

Addrs == 0 .. AddrSpace - 1
Slots == 0 .. NR_BREAK_POINTS - 1
Next_(a) == (a + 1) % AddrSpace
Prev_(a) == (a - 1) % AddrSpace

ActionLists == {<<"c">>, <<"s">>, <<"s", "c">>}
Requests ==
  [kind : {"Z", "z"}, addr : BreakAddrs]
  \union [kind : {"M"}, addr : StoreAddrs, word : StoreWords]
  \union [kind : {"vCont"}, acts : ActionLists]
  \union [kind : {"query", "unknown"}]
Packet(body, nr) == [type |-> "packet", good |-> TRUE, body |-> body, nr |-> nr]
Mark(c) == [type |-> c]
Damaged(p) == [p EXCEPT !.good = FALSE]
IsPacket(x) == x.type = "packet"
NextNr(n) == 1 - n

\* What the locals of the server are worth when they are out of scope.
NoRequest == Packet([kind |-> "query"], 0)
NoReply == Packet("", 0)
NoCall == [n |-> 1, back |-> FALSE]

------------------------------------------------------------------------------
(* Memory as the stub sees it *)

dbg_vaddr_read(m, a) == IF a \in Ram THEN m[a] ELSE Zero
dbg_vaddr_write(m, a, w) == IF a \in Ram THEN [m EXCEPT ![a] = w] ELSE m

Broken(bp, a) == \E i \in Slots : bp[i].used /\ bp[i].addr = a

\* The history variable follows every store but those under a breakpoint, which
\* the removal of the breakpoint takes back.
Follow(bp, a, w) == IF Broken(bp, a) THEN plain ELSE dbg_vaddr_write(plain, a, w)

------------------------------------------------------------------------------
(* gdb-proto.c *)

\* recv_packet skips to the next packet and gdb_recv answers for its checksum.
gdb_recv_TakesAll ==
  /\ at = "recv" /\ toServer # <<>>
  /\ toServer' = Tail(toServer)
  /\ IF IsPacket(Head(toServer))
       THEN /\ toClient' = Append(toClient, Mark(IF Head(toServer).good THEN "+" ELSE "-"))
            /\ at' = "handle" /\ cmd' = Head(toServer)
       ELSE UNCHANGED <<toClient, at, cmd>>
  /\ UNCHANGED <<machine, break_points, acts, exec, reply, gdb, sigint, damage, interrupts, history>>

gdb_recv ==
  /\ at = "recv" /\ toServer # <<>>
  /\ toServer' = Tail(toServer)
  /\ IF IsPacket(Head(toServer))
       THEN IF Head(toServer).good
              THEN /\ toClient' = Append(toClient, Mark("+"))
                   /\ at' = "handle" /\ cmd' = Head(toServer)
              ELSE /\ toClient' = Append(toClient, Mark("-"))
                   /\ UNCHANGED <<at, cmd>>
       ELSE UNCHANGED <<toClient, at, cmd>>
  /\ UNCHANGED <<machine, break_points, acts, exec, reply, gdb, sigint, damage, interrupts, history>>

send_packet ==
  /\ at = "send"
  /\ toClient' = Append(toClient, reply)
  /\ at' = "ack"
  /\ UNCHANGED <<machine, break_points, cmd, acts, exec, reply, toServer, gdb, sigint, damage,
                 interrupts, history>>

\* Anything but "+" has gdb_send send the packet again.
gdb_send_Once ==
  /\ at = "ack"
  /\ at' = "recv" /\ reply' = NoReply
  /\ UNCHANGED <<machine, break_points, cmd, acts, exec, toServer, toClient, gdb, sigint,
                 damage, interrupts, history>>

gdb_send ==
  /\ at = "ack" /\ toServer # <<>>
  /\ toServer' = Tail(toServer)
  /\ IF Head(toServer).type = "+"
       THEN at' = "recv" /\ reply' = NoReply
       ELSE at' = "send" /\ UNCHANGED reply
  /\ UNCHANGED <<machine, break_points, cmd, acts, exec, toClient, gdb, sigint, damage,
                 interrupts, history>>

------------------------------------------------------------------------------
(* The handlers of gdb-server.c.  A handler leaves its answer in reply. *)

Handling(kind) == at = "handle" /\ cmd.body.kind = kind
Answer(text) ==
  /\ reply' = Packet(text, cmd.nr)
  /\ cmd' = NoRequest
  /\ at' = "send"
Quiet == UNCHANGED <<toServer, toClient, gdb, sigint, damage, interrupts>>

FreeSlots == {i \in Slots : ~break_points[i].used}
First(S) == CHOOSE i \in S : \A j \in S : i <= j

gdb_insert_break_point_Full ==
  /\ Handling("Z")
  /\ LET a == cmd.body.addr
         i == IF FreeSlots = {} THEN NR_BREAK_POINTS - 1 ELSE First(FreeSlots) IN
       /\ break_points' = [break_points EXCEPT
                             ![i] = [used |-> TRUE, addr |-> a, value |-> dbg_vaddr_read(mem, a)]]
       /\ mem' = dbg_vaddr_write(mem, a, "brk")
       /\ Answer("OK")
  /\ served' = cmd.nr
  /\ Quiet /\ UNCHANGED <<pc, nemu_state, acts, exec, plain, ended>>

gdb_insert_break_point ==
  /\ Handling("Z")
  /\ LET a == cmd.body.addr IN
       IF FreeSlots = {}
         THEN Answer("") /\ UNCHANGED <<break_points, mem>>
         ELSE /\ break_points' = [break_points EXCEPT
                   ![First(FreeSlots)] =
                     [used |-> TRUE, addr |-> a, value |-> dbg_vaddr_read(mem, a)]]
              /\ mem' = dbg_vaddr_write(mem, a, "brk")
              /\ Answer("OK")
  /\ served' = cmd.nr
  /\ Quiet /\ UNCHANGED <<pc, nemu_state, acts, exec, plain, ended>>

gdb_remove_break_point_KeepsSlot ==
  /\ Handling("z")
  /\ LET a == cmd.body.addr
         here == {i \in Slots : break_points[i].used /\ break_points[i].addr = a} IN
       IF here = {}
         THEN Answer("") /\ UNCHANGED mem
         ELSE /\ mem' = dbg_vaddr_write(mem, a, break_points[First(here)].value)
              /\ Answer("OK")
  /\ served' = cmd.nr
  /\ Quiet /\ UNCHANGED <<break_points, pc, nemu_state, acts, exec, plain, ended>>

gdb_remove_break_point ==
  /\ Handling("z")
  /\ LET a == cmd.body.addr
         here == {i \in Slots : break_points[i].used /\ break_points[i].addr = a} IN
       IF here = {}
         THEN Answer("") /\ UNCHANGED <<break_points, mem>>
         ELSE /\ break_points' = [break_points EXCEPT ![First(here)].used = FALSE]
              /\ mem' = dbg_vaddr_write(mem, a, break_points[First(here)].value)
              /\ Answer("OK")
  /\ served' = cmd.nr
  /\ Quiet /\ UNCHANGED <<pc, nemu_state, acts, exec, plain, ended>>

gdb_write_memory ==
  /\ Handling("M")
  /\ mem' = dbg_vaddr_write(mem, cmd.body.addr, cmd.body.word)
  /\ plain' = Follow(break_points, cmd.body.addr, cmd.body.word)
  /\ Answer("OK")
  /\ served' = cmd.nr
  /\ Quiet /\ UNCHANGED <<pc, nemu_state, break_points, acts, exec, ended>>

\* ?, g, p, m, H, q and the others that read registers, memory or constants, and
\* the handlers that return NULL.
gdb_general_query ==
  /\ at = "handle" /\ cmd.body.kind \in {"query", "unknown"}
  /\ Answer(IF cmd.body.kind = "query" THEN "data" ELSE "")
  /\ served' = cmd.nr
  /\ Quiet /\ UNCHANGED <<machine, break_points, acts, exec, plain, ended>>

gdb_extend_commands ==
  /\ Handling("vCont")
  /\ acts' = cmd.body.acts
  /\ at' = "vCont"
  /\ served' = cmd.nr
  /\ Quiet /\ UNCHANGED <<machine, break_points, cmd, exec, reply, plain, ended>>

------------------------------------------------------------------------------
(* gdb_vCont_handler and cpu_exec *)

\* cpu_exec returns: continue moves pc back over the breakpoint instruction.
Returned(p) == IF exec.back THEN Prev_(p) ELSE p

\* A call of cpu_exec, which refuses a program that has ended.
Call(n, back) ==
  /\ exec' = [n |-> n, back |-> back]
  /\ IF nemu_state = "END"
       THEN /\ pc' = IF back THEN Prev_(pc) ELSE pc
            /\ UNCHANGED <<at, nemu_state>>
       ELSE nemu_state' = "RUNNING" /\ at' = "run" /\ UNCHANGED pc

\* -1 stands for the largest count, which the loop does not reach.
gdb_vCont_handler ==
  /\ at = "vCont" /\ acts # <<>>
  /\ acts' = Tail(acts)
  /\ LET continue == Head(acts) = "c"
         atEret == /\ dbg_vaddr_read(mem, pc) = "eret"
                   /\ dbg_vaddr_read(mem, Next_(pc)) = "brk" IN
       IF continue /\ ~atEret THEN Call(-1, TRUE) ELSE Call(1, FALSE)
  /\ Quiet /\ UNCHANGED <<mem, break_points, cmd, reply, history>>

VContDone ==
  /\ at = "vCont" /\ acts = <<>>
  /\ Answer("stop")
  /\ exec' = NoCall
  /\ Quiet /\ UNCHANGED <<machine, break_points, acts, history>>

\* The end of a turn of the loop at address p, in state s.
Turn_AlwaysStops(p, s) ==
  /\ ended' = (ended \/ s = "END")
  /\ IF s # "RUNNING" \/ exec.n = 1
       THEN /\ at' = "vCont" /\ pc' = Returned(p)
            /\ nemu_state' = "STOP"
       ELSE pc' = p /\ nemu_state' = s /\ UNCHANGED at

Turn(p, s) ==
  /\ ended' = (ended \/ s = "END")
  /\ IF s # "RUNNING" \/ exec.n = 1
       THEN /\ at' = "vCont" /\ pc' = Returned(p)
            /\ nemu_state' = IF s = "RUNNING" THEN "STOP" ELSE s
       ELSE pc' = p /\ nemu_state' = s /\ UNCHANGED at

Runs(word) == at = "run" /\ pc \in Ram /\ mem[pc] \in word
SameRequest == UNCHANGED <<break_points, cmd, acts, exec, reply, served>>

ExecBreakpoint(target) ==
  /\ Runs({"brk"})
  /\ Turn(target, "STOP")
  /\ Quiet /\ SameRequest /\ UNCHANGED <<mem, plain>>

\* The trap device ends the program.
ExecTrap(target) ==
  /\ Runs({"trap"})
  /\ Turn(target, "END")
  /\ Quiet /\ SameRequest /\ UNCHANGED <<mem, plain>>

\* Any other instruction goes on, jumps or returns from an exception.
ExecOther(target) ==
  /\ Runs(Words \ {"brk", "trap"})
  /\ Turn(target, nemu_state)
  /\ Quiet /\ SameRequest /\ UNCHANGED <<mem, plain>>

ExecStore(a, w, target) ==
  /\ Runs(Words \ {"brk", "trap", "eret"})
  /\ mem' = dbg_vaddr_write(mem, a, w)
  /\ plain' = Follow(break_points, a, w)
  /\ Turn(target, nemu_state)
  /\ Quiet /\ SameRequest

\* An address without a device fails an assertion: CPUAbort jumps back to the
\* head of cpu_exec, which returns.
ExecAbort ==
  /\ at = "run" /\ pc \notin Ram
  /\ nemu_state' = "END" /\ at' = "vCont" /\ pc' = Returned(pc) /\ ended' = TRUE
  /\ Quiet /\ SameRequest /\ UNCHANGED <<mem, plain>>

\* gdb_sigint_handler, at any point of the server.
gdb_sigint_handler ==
  /\ sigint
  /\ sigint' = FALSE
  /\ nemu_state' = "STOP" /\ ended' = FALSE
  /\ UNCHANGED <<mem, pc, server, toServer, toClient, gdb, damage, interrupts, plain, served>>

------------------------------------------------------------------------------
(* gdb and the terminal *)

\* gdb sets a breakpoint once, and removes those it has set.
Asks(r) ==
  CASE r.kind = "Z" -> r.addr \notin inserted
    [] r.kind = "z" -> r.addr \in inserted
    [] OTHER -> TRUE

Damageable(p) ==
  \/ p.good /\ UNCHANGED damage
  \/ ~p.good /\ damage < MaxDamage /\ damage' = damage + 1

Transmit(p) ==
  \E q \in {p, Damaged(p)} : Damageable(q) /\ toServer' = Append(toServer, q)

Ask(r) ==
  /\ client = "idle" /\ Asks(r)
  /\ asked' = Packet(r, NextNr(asked.nr))
  /\ Transmit(asked')
  /\ client' = "unacked"
  /\ UNCHANGED <<machine, server, toClient, inserted, sigint, interrupts, history>>

\* Waiting for the acknowledgement gdb sends again on "-", and acknowledges and
\* forgets a packet, which can only be an old answer.
ReadAck ==
  /\ client = "unacked" /\ toClient # <<>>
  /\ toClient' = Tail(toClient)
  /\ LET x == Head(toClient) IN
       CASE x.type = "+" -> client' = "waiting" /\ UNCHANGED <<toServer, damage>>
         [] x.type = "-" -> Transmit(asked) /\ UNCHANGED client
         [] OTHER -> /\ toServer' = Append(toServer, Mark("+"))
                     /\ UNCHANGED <<client, damage>>
  /\ UNCHANGED <<machine, server, asked, inserted, sigint, interrupts, history>>

\* An answer arrives, possibly damaged.
ReadReply ==
  /\ client = "waiting" /\ toClient # <<>>
  /\ toClient' = Tail(toClient)
  /\ LET x == Head(toClient) IN
       \/ /\ IsPacket(x)
          /\ toServer' = Append(toServer, Mark("+"))
          /\ client' = "idle"
          /\ inserted' = CASE asked.body.kind = "Z" /\ x.body = "OK" -> inserted \union {asked.body.addr}
                           [] asked.body.kind = "z" -> inserted \ {asked.body.addr}
                           [] OTHER -> inserted
          /\ UNCHANGED damage
       \/ /\ IsPacket(x) /\ damage < MaxDamage
          /\ damage' = damage + 1
          /\ toServer' = Append(toServer, Mark("-"))
          /\ UNCHANGED <<client, inserted>>
       \/ /\ ~IsPacket(x)
          /\ UNCHANGED <<toServer, client, inserted, damage>>
  /\ UNCHANGED <<machine, server, asked, sigint, interrupts, history>>

\* ^C reaches both processes: gdb passes it on, the emulator is signalled.
Interrupt ==
  /\ client = "waiting" /\ asked.body.kind = "vCont" /\ ~sigint
  /\ interrupts < MaxInterrupts
  /\ interrupts' = interrupts + 1
  /\ sigint' = TRUE
  /\ toServer' = Append(toServer, Mark("^C"))
  /\ UNCHANGED <<machine, server, toClient, gdb, damage, history>>

------------------------------------------------------------------------------
Init ==
  /\ mem = Program /\ pc = 0 /\ nemu_state = "STOP"
  /\ break_points = [i \in Slots |-> [used |-> FALSE, addr |-> 0, value |-> Zero]]
  /\ at = "recv"
  /\ cmd = NoRequest
  /\ acts = <<>>
  /\ exec = NoCall
  /\ reply = NoReply
  /\ toServer = <<>> /\ toClient = <<>>
  /\ client = "idle"
  /\ asked = NoRequest
  /\ inserted = {}
  /\ sigint = FALSE
  /\ damage = 0 /\ interrupts = 0
  /\ plain = Program /\ served = 0 /\ ended = FALSE

Serve ==
  \/ gdb_recv \/ send_packet \/ gdb_send
  \/ gdb_insert_break_point \/ gdb_remove_break_point \/ gdb_write_memory
  \/ gdb_general_query \/ gdb_extend_commands
  \/ gdb_vCont_handler \/ VContDone

Guest ==
  \/ ExecAbort
  \/ \E target \in Addrs : ExecBreakpoint(target) \/ ExecTrap(target) \/ ExecOther(target)
  \/ \E a \in StoreAddrs, w \in StoreWords, target \in Addrs : ExecStore(a, w, target)

Client == ReadAck \/ ReadReply
User == Interrupt \/ \E r \in Requests : Ask(r)

Next == Serve \/ Guest \/ Client \/ User \/ gdb_sigint_handler

\* Both processes go on when they can, the guest too; a SIGINT is delivered.  Nobody
\* has to type anything.
Spec ==
  /\ Init /\ [][Next]_vars
  /\ WF_vars(Serve) /\ WF_vars(Guest) /\ WF_vars(Client) /\ WF_vars(gdb_sigint_handler)

------------------------------------------------------------------------------
(* Properties *)

\* Every word that is not under a breakpoint is what the guest and gdb stored in
\* it, and one under a breakpoint comes back by its removal: the table keeps
\* the words gdb_insert_break_point replaced, through a full table, stores of the
\* guest over a breakpoint and packets that were sent again.
Transparent ==
  /\ \A a \in Ram : ~Broken(break_points, a) => mem[a] = plain[a]
  /\ \A i \in Slots :
       break_points[i].used /\ break_points[i].addr \in Ram
         => break_points[i].value = plain[break_points[i].addr]

\* gdb and the stub agree on the breakpoints: while no request is under way the
\* used slots are the breakpoints gdb was told are in place, each in one slot.
SameBreakpoints ==
  client = "idle" =>
    /\ inserted = {break_points[i].addr : i \in {j \in Slots : break_points[j].used}}
    /\ Cardinality(inserted) = Cardinality({j \in Slots : break_points[j].used})

\* Each request is handled once and the answer gdb takes is the answer to it,
\* although damaged packets are sent again and a ^C in place of an
\* acknowledgement has gdb_send repeat its packet.  In particular gdb_send never
\* looks for an acknowledgement inside the next request.
AnsweredOnce ==
  /\ at = "ack" /\ toServer # <<>> => ~IsPacket(Head(toServer))
  /\ at = "handle" => cmd.nr = asked.nr /\ served # asked.nr
  /\ client = "waiting" /\ toClient # <<>> /\ IsPacket(Head(toClient))
       => Head(toClient).nr = asked.nr

\* A program that has ended, by the trap device or by a failed assertion, runs no
\* further instruction whatever gdb asks for, as the message of cpu_exec says
\* (cpu.c:456).  The exception is a SIGINT after the end: gdb_sigint_handler
\* overwrites NEMU_END, and the next continue runs on.
EndedStays == ended => nemu_state = "END" /\ at # "run"

\* An acknowledgement that belonged to a repeated packet was taken for that of a
\* damaged one: gdb asks for it again and the stub is not listening.
Unheard ==
  /\ client = "waiting" /\ at = "recv" /\ toServer = <<>> /\ toClient = <<>>
  /\ interrupts > 0 /\ damage > 0

\* Every request other than a continue is answered in the end, and so is a continue
\* of a program that has ended, unless a SIGINT sets it going again.
Replied ==
  /\ (client # "idle" /\ asked.body # [kind |-> "vCont", acts |-> <<"c">>]
                       /\ asked.body # [kind |-> "vCont", acts |-> <<"s", "c">>])
       ~> (client = "idle" \/ Unheard)
  /\ (client # "idle" /\ ended) ~> (client = "idle" \/ Unheard \/ ~ended)
==============================================================================
