------------------------------- MODULE SvSync -------------------------------
(***************************************************************************)
(* The handshake between a C test and the SystemVerilog testbench of the   *)
(* Ibex environment, as the interrupt tests use it: sv_sync (c2sv.h), also *)
(* called from interrupt handlers; the calls of irq_csv.h; the mailbox     *)
(* component (ibex_c2sv_mbox.sv); the command loop of ibex_base_test and   *)
(* the handler of ibex_irq_csv_test, with its forked, delayed raise.       *)
(*                                                                         *)
(* One step is one rising clock edge.  The core makes one move of the C    *)
(* code, or none, per edge; the testbench threads move at the same edge.   *)
(* The C programs are those of the irq_csv tests: a context asks for a pin *)
(* and waits until its handler ran; a handler clears its pin first, and    *)
(* may ask for another pin and open itself for it (irq_csv_nested.c); all  *)
(* pins are raised at once only with interrupts off (irq_csv_priority.c).  *)
(***************************************************************************)
EXTENDS Naturals, Sequences, FiniteSets

CONSTANTS
  Lines,     \* interrupt lines
  MinDelay,  \* IRQ_CSV_MIN_DELAY
  MaxDelay,  \* longest delay asked for (a bound of the model)
  LeaveMax,  \* clocks within which a core that could see its ACK has returned
  MaxCalls   \* bound: interrupts that main asks for

ASSUME DelayAssumption ==
  /\ MinDelay \in Nat /\ MaxDelay \in Nat /\ MaxCalls \in Nat
  /\ LeaveMax \in Nat \ {0, 1}
  /\ LeaveMax < MinDelay /\ MinDelay <= MaxDelay /\ MaxDelay < 65536

Main == 0
ASSUME LinesAssumption == IsFiniteSet(Lines) /\ Main \notin Lines

Commands == {"raise", "clear", "mask"}
SyncReqs == [cmd : Commands, arg : SUBSET Lines]
NoReq == [cmd |-> "none", arg |-> {}]
Frames == [line : Lines \cup {Main}, req : SyncReqs \cup {NoReq},
           pc : {"run", "arg", "cmd", "spin", "data", "await", "cleared", "ret"}]

VARIABLES
  stack,     \* contexts of the core: main, then nested handlers
  mie,       \* mstatus.MIE
  ran,       \* lines whose handler ran since they were last asked for
  calls,     \* interrupts main asked for
  late,      \* edges since the core could see the ACK it spins for
  last_arg,  \* the mailbox component's last_arg
  req_q,     \* its queue of commands
  server,    \* command loop: state (get, wait, reply) and the command it is on
  ack,       \* SV2C_ACK ("none" is 0)
  sv2c_data, \* SV2C_DATA: the command it answers
  timers,    \* timers[l]: clocks until the forked raise of l, 0 if none
  pins       \* irq_state: the lines that are high

core == <<stack, mie, ran, calls, late>>
tb == <<last_arg, req_q, server, ack, sv2c_data, timers, pins>>
syncVars == <<core, tb>>

Depth == Len(stack)
Top == stack[Depth]
InCall(f) == f.pc \in {"arg", "cmd", "spin", "data"}
Goto(pc) == [stack EXCEPT ![Depth].pc = pc]
-----------------------------------------------------------------------------
(* The testbench at an edge at which the core makes the bus access bus:    *)
(* <<"arg", x>>, <<"cmd", x>> or NoAccess.                                 *)
NoAccess == <<"quiet">>
StoresTo(bus, reg) == bus[1] = reg

NewReq(bus) == [cmd |-> bus[2], arg |-> last_arg]
Queued(bus) == IF StoresTo(bus, "cmd") THEN Append(req_q, NewReq(bus)) ELSE req_q

(* get_cmd returns at once when a command is there, and the handler starts.*)
Handling(bus) == server.st = "get" /\ Queued(bus) # <<>>

(* Mutant: the raise is not kept apart from its acknowledgement.           *)
Delays_None == {1}
(* sv_irq_raise: the delay is at least IRQ_CSV_MIN_DELAY, and travels in   *)
(* the upper half of ARG; the test programs ask for less than 2^16 clocks. *)
Delays == {(IF d < MinDelay THEN MinDelay ELSE d) % 65536 : d \in 0..MaxDelay}

(* Mutant: the mask command is not answered.                               *)
AfterHandler_MaskUnanswered(cmd) ==
  CASE cmd = "raise" -> "reply" [] cmd = "mask" -> "get" [] OTHER -> "wait"
(* raise returns at once; clear and mask wait for an edge.                 *)
AfterHandler(cmd) == IF cmd = "raise" THEN "reply" ELSE "wait"

ServerNext(bus) ==
  LET q == Queued(bus)
  IN  IF Handling(bus)
      THEN /\ server' = [st |-> AfterHandler(Head(q).cmd), req |-> Head(q)]
           /\ req_q' = Tail(q)
      ELSE /\ req_q' = q
           /\ server' = [server EXCEPT !.st = CASE @ = "wait" -> "reply"
                                                [] @ = "reply" -> "get"
                                                [] OTHER -> @]

(* Pins the handler of request r drops and drives.                         *)
Dropped(r) == IF r.cmd = "clear" THEN r.arg ELSE {}
Driven(r) == IF r.cmd = "mask" THEN r.arg ELSE {}

CountDown(n) == IF n = 0 THEN 0 ELSE n - 1

(* The handler's effect on pins and on the forked raises, which go on      *)
(* counting clocks by themselves.                                          *)
PinsNext(bus) ==
  LET r == IF Handling(bus) THEN Head(Queued(bus)) ELSE NoReq
      asked == IF r.cmd = "raise" THEN r.arg ELSE {}
  IN  /\ \E d \in Delays :
           timers' = [l \in Lines |-> IF l \in asked THEN d ELSE CountDown(timers[l])]
      /\ pins' = (pins \ Dropped(r)) \cup Driven(r) \cup {l \in Lines : timers[l] = 1}

(* Mutant: ACK is not cleared when a command is stored.                    *)
AckNext_NotCleared(bus) == {IF server.st = "reply" THEN server.req.cmd ELSE ack}

(* A stored command clears ACK, a reply drives it; at one edge either of   *)
(* the two non-blocking assignments may be the later one.                  *)
AckNext(bus) ==
  (IF StoresTo(bus, "cmd") THEN {"none"} ELSE {})
  \cup (IF server.st = "reply" THEN {server.req.cmd} ELSE {})
  \cup (IF ~StoresTo(bus, "cmd") /\ server.st # "reply" THEN {ack} ELSE {})

Testbench(bus) ==
  /\ last_arg' = IF StoresTo(bus, "arg") THEN bus[2] ELSE last_arg
  /\ ServerNext(bus)
  /\ PinsNext(bus)
  /\ ack' \in AckNext(bus)
  /\ sv2c_data' = IF server.st = "reply" THEN server.req ELSE sv2c_data
-----------------------------------------------------------------------------
(* The core.                                                               *)
Answered == Top.pc = "data" \/ (Top.pc = "spin" /\ ack = Top.req.cmd)

(* An edge without a move: any number of them, but a core that can see its *)
(* ACK leaves the loop and reads DATA within LeaveMax clocks.              *)
CoreStalls ==
  /\ Answered => late < LeaveMax - (IF Top.pc = "data" THEN 1 ELSE 2)
  /\ late' = IF Answered THEN late + 1 ELSE 0
  /\ Testbench(NoAccess)
  /\ UNCHANGED <<stack, mie, ran, calls>>

(* A context asks for something: the test programs' calls.                 *)
Ask(cmd, arg) ==
  /\ stack' = [stack EXCEPT ![Depth].pc = "arg", ![Depth].req = [cmd |-> cmd, arg |-> arg]]
  /\ ran' = IF cmd = "clear" THEN ran ELSE ran \ arg
  /\ late' = 0
  /\ Testbench(NoAccess)

MainRaises(l) ==
  /\ Top.line = Main /\ Top.pc = "run" /\ calls < MaxCalls
  /\ calls' = calls + 1 /\ mie' = TRUE
  /\ Ask("raise", {l})

MainRaisesAll ==
  /\ Top.line = Main /\ Top.pc = "run" /\ calls < MaxCalls
  /\ calls' = calls + 1 /\ mie' = FALSE
  /\ Ask("mask", Lines)

IsrClears ==
  /\ Top.line # Main /\ Top.pc = "run"
  /\ Ask("clear", {Top.line}) /\ UNCHANGED <<mie, calls>>

IsrRaises(l) ==
  /\ Top.line # Main /\ Top.pc = "cleared" /\ \A i \in 1..Depth : stack[i].line # l
  /\ stack[1].req.cmd = "raise"
  /\ Ask("raise", {l}) /\ UNCHANGED <<mie, calls>>

(* sv_sync: store ARG, store CMD, spin on ACK, load DATA.                  *)
StoreArg ==
  /\ Top.pc = "arg" /\ stack' = Goto("cmd") /\ late' = 0
  /\ Testbench(<<"arg", Top.req.arg>>) /\ UNCHANGED <<mie, ran, calls>>

StoreCmd ==
  /\ Top.pc = "cmd" /\ stack' = Goto("spin") /\ late' = 0
  /\ Testbench(<<"cmd", Top.req.cmd>>) /\ UNCHANGED <<mie, ran, calls>>

LoadAck ==
  /\ Top.pc = "spin" /\ ack = Top.req.cmd
  /\ stack' = Goto("data") /\ late' = late + 1
  /\ Testbench(NoAccess) /\ UNCHANGED <<mie, ran, calls>>

(* The call returns.  Whoever raised waits for its handler with interrupts *)
(* on; a handler that cleared its pin goes on.                             *)
LoadData ==
  /\ Top.pc = "data" /\ late' = 0
  /\ stack' = Goto(IF Top.req.cmd = "clear" THEN "cleared" ELSE "await")
  /\ mie' = (mie \/ Top.req.cmd # "clear")
  /\ Testbench(NoAccess) /\ UNCHANGED <<ran, calls>>

(* The handlers waited for ran; a handler turns interrupts off again.      *)
Awaited ==
  /\ Top.pc = "await" /\ Top.req.arg \subseteq ran
  /\ stack' = Goto(IF Top.line = Main THEN "run" ELSE "ret")
  /\ mie' = (Top.line = Main) /\ late' = 0
  /\ Testbench(NoAccess) /\ UNCHANGED <<ran, calls>>

(* An interrupt is taken: wherever the context is, MIE goes off.           *)
Trap(l) ==
  /\ mie /\ l \in pins
  /\ stack' = Append(stack, [line |-> l, req |-> NoReq, pc |-> "run"])
  /\ mie' = FALSE /\ late' = 0
  /\ Testbench(NoAccess) /\ UNCHANGED <<ran, calls>>

(* mret restores MIE, which was on.                                        *)
Return ==
  /\ Top.line # Main /\ Top.pc \in {"cleared", "ret"}
  /\ stack' = SubSeq(stack, 1, Depth - 1)
  /\ mie' = TRUE /\ ran' = ran \cup {Top.line} /\ late' = 0
  /\ Testbench(NoAccess) /\ UNCHANGED calls
-----------------------------------------------------------------------------
SyncInit ==
  /\ stack = <<[line |-> Main, req |-> NoReq, pc |-> "run"]>>
  /\ mie = FALSE /\ ran = {} /\ calls = 0 /\ late = 0
  /\ last_arg = {} /\ req_q = <<>> /\ server = [st |-> "get", req |-> NoReq]
  /\ ack = "none" /\ sv2c_data = NoReq
  /\ timers = [l \in Lines |-> 0] /\ pins = {}

Move == \/ MainRaisesAll \/ IsrClears \/ StoreArg \/ StoreCmd \/ LoadAck \/ LoadData
        \/ Awaited \/ Return
        \/ \E l \in Lines : MainRaises(l) \/ IsrRaises(l) \/ Trap(l)

SyncNext == CoreStalls \/ Move

SyncSpec == SyncInit /\ [][SyncNext]_syncVars

(* The clock runs and the core executes.                                   *)
SyncFairSpec == SyncSpec /\ WF_syncVars(SyncNext) /\ WF_syncVars(Move)
-----------------------------------------------------------------------------
SyncTypeOK ==
  /\ stack \in Seq(Frames) /\ Depth >= 1
  /\ mie \in BOOLEAN /\ ran \subseteq Lines /\ calls \in 0..MaxCalls /\ late \in 0..LeaveMax
  /\ last_arg \subseteq Lines /\ req_q \in Seq(SyncReqs)
  /\ server \in [st : {"get", "wait", "reply"}, req : SyncReqs \cup {NoReq}]
  /\ ack \in Commands \cup {"none"} /\ sv2c_data \in SyncReqs \cup {NoReq}
  /\ timers \in [Lines -> 0..MaxDelay] /\ pins \subseteq Lines

(* No interrupt is taken inside an sv_sync: the handshakes of two contexts *)
(* never overlap, which is what the minimum delay of irq_csv.h is for.     *)
HandshakesApart == \A i \in 1..(Depth - 1) : ~InCall(stack[i])

(* A call returns only after its own command was handled, with its own     *)
(* argument, and reads the result of that command: "a C test reusing the   *)
(* same cmd id can't see the previous step's ACK" (ibex_c2sv_mbox.sv:65).  *)
OwnAnswer == Top.pc = "data" => sv2c_data = Top.req

(* Every call returns, and every interrupt asked for is served.            *)
CallsServed ==
  /\ \A pc \in {"spin", "await"} : stack[1].pc = pc ~> stack[1].pc # pc
  /\ Depth > 1 ~> Depth = 1
=============================================================================
