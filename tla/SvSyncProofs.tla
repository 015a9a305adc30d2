---------------------------- MODULE SvSyncProofs ----------------------------
(* Proofs about SvSync, for every set of lines, every delay and every      *)
(* number of calls.                                                        *)
EXTENDS SvSync, SequenceTheorems, TLAPS

(* The lines that are high or will be.                                     *)
Pending == pins \cup {l \in Lines : timers[l] # 0}

(* Frame f may be at position i of the stack: only main raises all lines,  *)
(* only a handler clears, and what they ask for is one line.               *)
FrameOK(i, f) ==
  /\ i = 1 => f.line = Main /\ f.req.cmd # "clear" /\ f.pc \notin {"cleared", "ret"}
  /\ i # 1 => f.line \in Lines /\ f.req.cmd # "mask"
  /\ InCall(f) \/ f.pc = "await" => f.req \in SyncReqs
  /\ f.pc = "await" => f.req.cmd # "clear"
  /\ f.req.cmd = "raise" => \E l \in Lines : f.req.arg = {l}
  /\ f.req.cmd = "clear" => f.req.arg = {f.line}
FramesOK == \A i \in 1..Depth : FrameOK(i, stack[i])

(* A context that was interrupted was waiting for its handlers ...         *)
OthersAwait == \A i \in 1..(Depth - 1) : stack[i].pc = "await"

(* ... and unless all lines were raised, for the handler above it.         *)
Chain ==
  /\ \A i \in 2..Depth : stack[i].req.cmd = "raise" => stack[1].req.cmd = "raise"
  /\ stack[1].req.cmd = "raise" =>
       \A i \in 1..(Depth - 1) : stack[i].req.arg = {stack[i + 1].line}

(* What is being asked for has not run, and no handler for it is open.     *)
Fresh ==
  InCall(Top) /\ Top.req.cmd # "clear" =>
    /\ Top.req.arg \cap ran = {}
    /\ Top.req.cmd = "raise" => \A i \in 1..Depth : stack[i].line \notin Top.req.arg

(* Interrupts are on outside of a wait only in main, and no line is high.  *)
SafeToEnable ==
  mie /\ Top.pc # "await" =>
    /\ Depth = 1 /\ pins = {}
    /\ InCall(Top) => Top.req.cmd = "raise"

(* A pending line was asked for by a context that still waits for it.      *)
Asks(f, l) == /\ f.req.cmd \in {"raise", "mask"} /\ f.pc \in {"spin", "data", "await"}
              /\ l \in f.req.arg
PendingAsked ==
  \A l \in Pending : l \notin ran /\ \E i \in 1..Depth : Asks(stack[i], l)

(* A line that has been cleared by its handler is down for good.           *)
StillHigh(f) == f.pc = "run" \/ (f.req.cmd = "clear" /\ f.pc \in {"arg", "cmd"})
ClearedDown ==
  \A i \in 2..Depth : /\ timers[stack[i].line] = 0
                      /\ ~StillHigh(stack[i]) => stack[i].line \notin pins
OncePending == \A l \in pins : timers[l] = 0

(* The two sides of the handshake, phase by phase.                         *)
Handshake ==
  /\ req_q = <<>>
  /\ Top.pc \notin {"spin", "data"} => server.st = "get"
  /\ Top.pc = "cmd" => last_arg = Top.req.arg
  /\ Top.pc = "spin" =>
       \/ /\ server.st \in {"wait", "reply"} /\ server.req = Top.req
          /\ ack = "none" /\ late = 0
          /\ server.st = "wait" => Top.req.cmd # "raise"
       \/ server.st = "get" /\ ack = Top.req.cmd /\ sv2c_data = Top.req
  /\ Top.pc = "data" => server.st = "get" /\ sv2c_data = Top.req

(* A raise that could interrupt its own call is further away than the time *)
(* the core may still take to return.                                      *)
Replied == IF server.st = "get" THEN 1 ELSE 0
InTime ==
  /\ Top.pc = "spin" => late <= LeaveMax - 2
  /\ Top.pc = "data" => late <= LeaveMax - 1
  /\ mie /\ Top.pc \in {"spin", "data"} =>
       \A l \in Lines : timers[l] # 0 => timers[l] + late >= MinDelay - Replied

IInv == /\ SyncTypeOK /\ FramesOK /\ OthersAwait /\ Chain /\ Fresh /\ SafeToEnable
        /\ PendingAsked /\ ClearedDown /\ OncePending /\ Handshake /\ InTime
-----------------------------------------------------------------------------
(* The delays as numbers.                                                  *)
LEMMA DelayFacts ==
  /\ MinDelay \in Nat /\ MaxDelay \in Nat /\ LeaveMax \in Nat /\ MaxCalls \in Nat
  /\ LeaveMax >= 2 /\ LeaveMax < MinDelay /\ MinDelay <= MaxDelay
BY DelayAssumption

(* The 16 bits that hold a delay keep a smaller number as it is.           *)
LEMMA ModSmall == \A x \in Nat : x < 65536 => x % 65536 = x
OBVIOUS

(* No delay that is asked for is cut.                                      *)
LEMMA DelayRange == \A d \in Delays : d \in MinDelay..MaxDelay
<1> SUFFICES ASSUME NEW a \in 0..MaxDelay
             PROVE  (IF a < MinDelay THEN MinDelay ELSE a) % 65536 \in MinDelay..MaxDelay
  BY DEF Delays
<1>0. a \in Nat /\ a <= MaxDelay
  BY DelayAssumption
<1>1. CASE a < MinDelay
  <2>1. MinDelay % 65536 = MinDelay
    BY ModSmall, DelayAssumption
  <2> QED BY <1>1, <2>1, DelayFacts
<1>2. CASE ~(a < MinDelay)
  <2>1. a < 65536
    BY <1>0, DelayAssumption
  <2>2. a % 65536 = a
    BY ModSmall, <1>0, <2>1
  <2> QED BY <1>0, <1>2, <2>2, DelayFacts
<1> QED BY <1>1, <1>2

(* The interrupted context's view of the stack.                            *)
LEMMA TopFrame == SyncTypeOK => /\ Depth \in Nat /\ Depth >= 1 /\ Top \in Frames
                                /\ \A i \in 1..Depth : stack[i] \in Frames
BY DEF SyncTypeOK, Depth, Top

(* Replacing the top frame.                                                *)
LEMMA ReplaceTop ==
  ASSUME SyncTypeOK, NEW f \in Frames, stack' = [stack EXCEPT ![Depth] = f]
  PROVE  /\ stack' \in Seq(Frames) /\ Depth' = Depth /\ Top' = f
         /\ \A i \in 1..(Depth - 1) : stack'[i] = stack[i]
<1>1. stack \in Seq(Frames) /\ Depth \in 1..Len(stack) /\ Depth = Len(stack) /\ Depth \in Nat
  BY TopFrame DEF SyncTypeOK, Depth
<1>2. stack' \in Seq(Frames) /\ Len(stack') = Len(stack) /\ stack'[Depth] = f
  BY <1>1
<1>3. Depth' = Depth /\ Top' = f
  BY <1>1, <1>2 DEF Depth, Top
<1>4. ASSUME NEW i \in 1..(Depth - 1) PROVE stack'[i] = stack[i]
  <2>1. i # Depth /\ i \in DOMAIN stack
    BY <1>1, <1>4
  <2> QED BY <2>1
<1> QED BY <1>2, <1>3, <1>4

(* The moves of a context as replacements.                                 *)
LEMMA MovesTop ==
  ASSUME SyncTypeOK
  PROVE  /\ stack = [stack EXCEPT ![Depth] = Top]
         /\ \A pc : Goto(pc) = [stack EXCEPT ![Depth] = [Top EXCEPT !.pc = pc]]
         /\ \A cmd, arg :
              [stack EXCEPT ![Depth].pc = "arg", ![Depth].req = [cmd |-> cmd, arg |-> arg]]
              = [stack EXCEPT ![Depth] = [Top EXCEPT !.pc = "arg",
                                                     !.req = [cmd |-> cmd, arg |-> arg]]]
<1>1. stack \in Seq(Frames) /\ Depth \in DOMAIN stack /\ Top = stack[Depth]
  BY TopFrame DEF SyncTypeOK, Depth, Top
<1>2. stack = [stack EXCEPT ![Depth] = Top]
  BY <1>1
<1>3. ASSUME NEW pc PROVE Goto(pc) = [stack EXCEPT ![Depth] = [Top EXCEPT !.pc = pc]]
  BY <1>1 DEF Goto
<1>4. ASSUME NEW cmd, NEW arg
      PROVE  [stack EXCEPT ![Depth].pc = "arg", ![Depth].req = [cmd |-> cmd, arg |-> arg]]
              = [stack EXCEPT ![Depth] = [Top EXCEPT !.pc = "arg",
                                                     !.req = [cmd |-> cmd, arg |-> arg]]]
  BY <1>1
<1> QED BY <1>2, <1>3, <1>4
-----------------------------------------------------------------------------
(* The testbench at an edge at which no command is stored.                 *)
LEMMA QuietEdge ==
  ASSUME SyncTypeOK, req_q = <<>>, NEW bus, Testbench(bus), ~StoresTo(bus, "cmd")
  PROVE  /\ req_q' = <<>>
         /\ last_arg' = IF StoresTo(bus, "arg") THEN bus[2] ELSE last_arg
         /\ server'.req = server.req
         /\ server'.st = IF server.st = "wait" THEN "reply" ELSE "get"
         /\ server' \in [st : {"get", "wait", "reply"}, req : SyncReqs \cup {NoReq}]
         /\ timers' \in [Lines -> 0..MaxDelay]
         /\ \A l \in Lines : timers'[l] = CountDown(timers[l])
         /\ pins' = pins \cup {l \in Lines : timers[l] = 1}
         /\ ack' = IF server.st = "reply" THEN server.req.cmd ELSE ack
         /\ sv2c_data' = IF server.st = "reply" THEN server.req ELSE sv2c_data
<1>1. Queued(bus) = <<>> /\ ~Handling(bus)
  BY DEF Queued, Handling
<1>2. /\ req_q' = <<>>
      /\ server' = [server EXCEPT !.st = CASE @ = "wait" -> "reply"
                                           [] @ = "reply" -> "get"
                                           [] OTHER -> @]
  BY <1>1 DEF Testbench, ServerNext
<1>3. server \in [st : {"get", "wait", "reply"}, req : SyncReqs \cup {NoReq}]
  BY DEF SyncTypeOK
<1>4. /\ server'.req = server.req
      /\ server'.st = IF server.st = "wait" THEN "reply" ELSE "get"
      /\ server' \in [st : {"get", "wait", "reply"}, req : SyncReqs \cup {NoReq}]
  BY <1>2, <1>3
<1>5. /\ \E d \in Delays : timers' = [l \in Lines |-> IF l \in {} THEN d ELSE CountDown(timers[l])]
      /\ pins' = (pins \ {}) \cup {} \cup {l \in Lines : timers[l] = 1}
  BY <1>1 DEF Testbench, PinsNext, NoReq, Dropped, Driven
<1>6. \A l \in Lines : timers'[l] = CountDown(timers[l])
  BY <1>5
<1>7. timers' \in [Lines -> 0..MaxDelay]
  <2>1. \A l \in Lines : timers[l] \in 0..MaxDelay
    BY DEF SyncTypeOK
  <2>2. \A l \in Lines : CountDown(timers[l]) \in 0..MaxDelay
    BY <2>1, DelayFacts DEF CountDown
  <2> QED BY <1>5, <2>2
<1>8. ack' = IF server.st = "reply" THEN server.req.cmd ELSE ack
  BY DEF Testbench, AckNext
<1>9. /\ last_arg' = IF StoresTo(bus, "arg") THEN bus[2] ELSE last_arg
      /\ sv2c_data' = IF server.st = "reply" THEN server.req ELSE sv2c_data
  BY DEF Testbench
<1> QED BY <1>2, <1>4, <1>5, <1>6, <1>7, <1>8, <1>9

(* The testbench at the edge of a command that finds the loop waiting.     *)
LEMMA CommandEdge ==
  ASSUME SyncTypeOK, req_q = <<>>, server.st = "get", NEW r \in SyncReqs, last_arg = r.arg,
         Testbench(<<"cmd", r.cmd>>)
  PROVE  /\ req_q' = <<>> /\ last_arg' = last_arg
         /\ server' = [st |-> AfterHandler(r.cmd), req |-> r]
         /\ ack' = "none" /\ sv2c_data' = sv2c_data
         /\ timers' \in [Lines -> 0..MaxDelay]
         /\ \A l \in Lines :
              IF r.cmd = "raise" /\ l \in r.arg THEN timers'[l] >= MinDelay
              ELSE timers'[l] = CountDown(timers[l])
         /\ pins' = (pins \ Dropped(r)) \cup Driven(r) \cup {l \in Lines : timers[l] = 1}
<1> DEFINE bus == <<"cmd", r.cmd>>
<1>1. StoresTo(bus, "cmd") /\ ~StoresTo(bus, "arg") /\ bus[2] = r.cmd
  BY DEF StoresTo
<1>2. NewReq(bus) = r
  BY <1>1 DEF NewReq, SyncReqs
<1>3. Queued(bus) = <<r>>
  BY <1>1, <1>2 DEF Queued
<1>4. Handling(bus) /\ Head(Queued(bus)) = r /\ Tail(Queued(bus)) = <<>>
  <2>1. <<r>> # <<>> /\ Head(<<r>>) = r /\ Tail(<<r>>) = <<>>
    OBVIOUS
  <2> QED BY <1>3, <2>1 DEF Handling
<1> HIDE DEF bus
<1>5. Testbench(bus)
  BY DEF bus
<1>6. server' = [st |-> AfterHandler(r.cmd), req |-> r] /\ req_q' = <<>>
  BY <1>4, <1>5 DEF Testbench, ServerNext
<1>7. PICK d \in Delays :
        timers' = [l \in Lines |-> IF l \in (IF r.cmd = "raise" THEN r.arg ELSE {})
                                  THEN d ELSE CountDown(timers[l])]
  BY <1>4, <1>5 DEF Testbench, PinsNext
<1>8. pins' = (pins \ Dropped(r)) \cup Driven(r) \cup {l \in Lines : timers[l] = 1}
  BY <1>4, <1>5 DEF Testbench, PinsNext
<1>9. d \in MinDelay..MaxDelay
  BY DelayRange
<1>10. timers' \in [Lines -> 0..MaxDelay]
  <2>1. \A l \in Lines : timers[l] \in 0..MaxDelay
    BY DEF SyncTypeOK
  <2>2. \A l \in Lines : CountDown(timers[l]) \in 0..MaxDelay
    BY <2>1, DelayFacts DEF CountDown
  <2>3. d \in 0..MaxDelay
    BY <1>9, DelayFacts
  <2> QED BY <1>7, <2>2, <2>3
<1>11. ASSUME NEW l \in Lines
       PROVE  IF r.cmd = "raise" /\ l \in r.arg THEN timers'[l] >= MinDelay
              ELSE timers'[l] = CountDown(timers[l])
  BY <1>7, <1>9, DelayFacts
<1>12. ack' = "none"
  BY <1>1, <1>5 DEF Testbench, AckNext, bus
<1>13. last_arg' = last_arg /\ sv2c_data' = sv2c_data
  BY <1>1, <1>5 DEF Testbench, bus
<1> QED BY <1>6, <1>8, <1>10, <1>11, <1>12, <1>13
-----------------------------------------------------------------------------
(* Counting down raises lines that were pending and asks for none.         *)
LEMMA QuietPending ==
  ASSUME SyncTypeOK, req_q = <<>>, OncePending, NEW bus, Testbench(bus), ~StoresTo(bus, "cmd")
  PROVE  /\ OncePending' /\ Pending' \subseteq Pending
         /\ \A l \in Lines : timers[l] = 0 => timers'[l] = 0 /\ (l \in pins' <=> l \in pins)
         /\ \A l \in Lines : timers'[l] # 0 => timers[l] # 0 /\ timers[l] = timers'[l] + 1
         /\ (\A l \in Lines : timers[l] # 1) => pins' = pins
<1>1. /\ \A l \in Lines : timers'[l] = CountDown(timers[l])
      /\ pins' = pins \cup {l \in Lines : timers[l] = 1}
  BY QuietEdge
<1>2. \A l \in Lines : timers[l] \in Nat
  BY DelayFacts DEF SyncTypeOK
<1>3. pins \subseteq Lines
  BY DEF SyncTypeOK
<1>4. \A l \in Lines : /\ timers[l] = 0 \/ timers[l] = 1 => timers'[l] = 0
                       /\ timers'[l] # 0 => timers[l] # 0 /\ timers[l] = timers'[l] + 1
  BY <1>1, <1>2 DEF CountDown
<1>5. OncePending'
  <2> SUFFICES ASSUME NEW l \in pins' PROVE timers'[l] = 0
    BY DEF OncePending
  <2> QED BY <1>1, <1>3, <1>4 DEF OncePending
<1>6. Pending' \subseteq Pending
  BY <1>1, <1>4 DEF Pending
<1>7. \A l \in Lines : timers[l] = 0 => timers'[l] = 0 /\ (l \in pins' <=> l \in pins)
  BY <1>1, <1>2, <1>4
<1> QED BY <1>1, <1>3, <1>4, <1>5, <1>6, <1>7

(* What a move of the top frame to f leaves true of the stack.             *)
LEMMA MoveStack ==
  ASSUME SyncTypeOK, FramesOK, OthersAwait, Chain,
         NEW f \in Frames, stack' = [stack EXCEPT ![Depth] = f],
         FrameOK(Depth, f), f.line = Top.line,
         Depth # 1 /\ f.req.cmd = "raise" => stack[1].req.cmd = "raise"
  PROVE  /\ stack' \in Seq(Frames) /\ Depth' = Depth /\ Top' = f
         /\ \A i \in 1..(Depth - 1) : stack'[i] = stack[i]
         /\ stack'[Depth] = f
         /\ \A i \in 1..Depth : stack'[i].line = stack[i].line
         /\ FramesOK' /\ OthersAwait' /\ Chain'
<1>1. /\ stack' \in Seq(Frames) /\ Depth' = Depth /\ Top' = f
      /\ \A i \in 1..(Depth - 1) : stack'[i] = stack[i]
  BY ReplaceTop
<1>2. Depth \in Nat /\ Depth >= 1
  BY TopFrame
<1>3. stack'[Depth] = f
  BY <1>1 DEF Top
<1>4. \A i \in 1..Depth : i # Depth => i \in 1..(Depth - 1)
  BY <1>2
<1>5. FramesOK'
  <2> SUFFICES ASSUME NEW i \in 1..Depth PROVE FrameOK(i, stack'[i])
    BY <1>1 DEF FramesOK
  <2>1. CASE i = Depth
    BY <2>1, <1>3
  <2>2. CASE i # Depth
    BY <2>2, <1>1, <1>4 DEF FramesOK
  <2> QED BY <2>1, <2>2
<1>6. OthersAwait'
  BY <1>1 DEF OthersAwait
<1>7. \A i \in 1..Depth : stack'[i].line = stack[i].line
  BY <1>1, <1>3, <1>4 DEF Top
<1>8. Chain'
  <2>1. ASSUME NEW i \in 2..Depth, stack'[i].req.cmd = "raise"
        PROVE  stack'[1].req.cmd = "raise"
    <3>1. stack'[1] = stack[1] /\ Depth # 1
      BY <1>1, <1>2
    <3>2. CASE i = Depth
      BY <1>3, <2>1, <3>1, <3>2
    <3>3. CASE i # Depth
      BY <1>1, <1>4, <2>1, <3>1, <3>3 DEF Chain
    <3> QED BY <3>2, <3>3
  <2>2. ASSUME stack'[1].req.cmd = "raise", NEW i \in 1..(Depth - 1)
        PROVE  stack'[i].req.arg = {stack'[i + 1].line}
    <3>1. stack'[1] = stack[1]
      BY <1>1, <1>2
    <3>2. stack'[i] = stack[i] /\ i + 1 \in 1..Depth
      BY <1>1, <1>2
    <3> QED BY <1>7, <2>2, <3>1, <3>2 DEF Chain
  <2> QED BY <1>1, <2>1, <2>2 DEF Chain
<1> QED BY <1>1, <1>3, <1>5, <1>6, <1>7, <1>8

(* What it leaves true of the lines at an edge without a command, as long  *)
(* as nobody stops waiting for a pending line.                             *)
LEMMA MoveLines ==
  ASSUME IInv, NEW f \in Frames, stack' = [stack EXCEPT ![Depth] = f],
         f.line = Top.line, Depth # 1 /\ StillHigh(Top) => StillHigh(f),
         ran' \subseteq ran, \A l \in Lines \ ran : Asks(Top, l) => Asks(f, l),
         NEW bus, Testbench(bus), ~StoresTo(bus, "cmd")
  PROVE  PendingAsked' /\ ClearedDown' /\ OncePending'
<1>1. SyncTypeOK /\ req_q = <<>> /\ OncePending
  BY DEF IInv, Handshake
<1>2. /\ Depth' = Depth /\ Top' = f
      /\ \A i \in 1..(Depth - 1) : stack'[i] = stack[i]
  BY <1>1, ReplaceTop
<1>3. Depth \in Nat /\ Depth >= 1 /\ (\A i \in 1..Depth : i # Depth => i \in 1..(Depth - 1))
  BY <1>1, TopFrame
<1>4. stack'[Depth] = f
  BY <1>2 DEF Top
<1>5. PendingAsked'
  <2> SUFFICES ASSUME NEW l \in Pending'
               PROVE  l \notin ran' /\ \E i \in 1..Depth' : Asks(stack'[i], l)
    BY DEF PendingAsked
  <2>1. l \in Pending /\ l \in Lines
    BY <1>1, QuietPending DEF Pending, SyncTypeOK
  <2>2. l \notin ran /\ \E i \in 1..Depth : Asks(stack[i], l)
    BY <2>1 DEF IInv, PendingAsked
  <2>3. PICK i \in 1..Depth : Asks(stack[i], l)
    BY <2>2
  <2>4. Asks(stack'[i], l)
    <3>1. CASE i = Depth
      <4>1. Asks(Top, l)
        BY <2>3, <3>1 DEF Top
      <4> QED BY <1>4, <2>1, <2>2, <3>1, <4>1
    <3>2. CASE i # Depth
      BY <1>2, <1>3, <2>3, <3>2
    <3> QED BY <3>1, <3>2
  <2> QED BY <1>2, <2>2, <2>4
<1>6. ClearedDown'
  <2> SUFFICES ASSUME NEW i \in 2..Depth
               PROVE  /\ timers'[stack'[i].line] = 0
                      /\ ~StillHigh(stack'[i]) => stack'[i].line \notin pins'
    BY <1>2 DEF ClearedDown
  <2>1. stack'[i].line = stack[i].line /\ (StillHigh(stack[i]) => StillHigh(stack'[i]))
    <3>1. CASE i = Depth
      <4>1. Depth # 1 /\ stack[i] = Top
        BY <1>3, <3>1 DEF Top
      <4> QED BY <1>4, <3>1, <4>1
    <3>2. CASE i # Depth
      BY <1>2, <1>3, <3>2
    <3> QED BY <3>1, <3>2
  <2>2. stack[i].line \in Lines
    BY <1>3 DEF IInv, FramesOK, FrameOK
  <2>3. /\ timers[stack[i].line] = 0
        /\ ~StillHigh(stack[i]) => stack[i].line \notin pins
    BY DEF IInv, ClearedDown
  <2> QED BY <1>1, <2>1, <2>2, <2>3, QuietPending
<1> QED BY <1>1, <1>5, <1>6, QuietPending
-----------------------------------------------------------------------------
(* The testbench's types after an edge without a command.                  *)
LEMMA QuietTypes ==
  ASSUME SyncTypeOK, req_q = <<>>, NEW bus, Testbench(bus), ~StoresTo(bus, "cmd"),
         StoresTo(bus, "arg") => bus[2] \in SUBSET Lines,
         stack' \in Seq(Frames), Depth' >= 1, mie' \in BOOLEAN, ran' \subseteq Lines,
         calls' \in 0..MaxCalls, late' \in 0..LeaveMax
  PROVE  SyncTypeOK'
<1>1. /\ req_q' = <<>>
      /\ last_arg' = IF StoresTo(bus, "arg") THEN bus[2] ELSE last_arg
      /\ server' \in [st : {"get", "wait", "reply"}, req : SyncReqs \cup {NoReq}]
      /\ timers' \in [Lines -> 0..MaxDelay]
      /\ pins' = pins \cup {l \in Lines : timers[l] = 1}
      /\ ack' = IF server.st = "reply" THEN server.req.cmd ELSE ack
      /\ sv2c_data' = IF server.st = "reply" THEN server.req ELSE sv2c_data
  BY QuietEdge
<1>2. last_arg' \subseteq Lines /\ pins' \subseteq Lines
  BY <1>1 DEF SyncTypeOK
<1>3. server.req \in SyncReqs \cup {NoReq} /\ server.req.cmd \in Commands \cup {"none"}
  BY DEF SyncTypeOK, SyncReqs, NoReq
<1>4. ack' \in Commands \cup {"none"} /\ sv2c_data' \in SyncReqs \cup {NoReq}
  BY <1>1, <1>3 DEF SyncTypeOK
<1> QED BY <1>1, <1>2, <1>4 DEF SyncTypeOK

(* The idle bus stores nothing.                                            *)
LEMMA QuietStores == ~StoresTo(NoAccess, "cmd") /\ ~StoresTo(NoAccess, "arg")
BY DEF StoresTo, NoAccess

(* Only main is at the bottom of the stack.                                *)
LEMMA MainAtBottom == IInv => (Top.line = Main <=> Depth = 1)
<1> SUFFICES ASSUME IInv PROVE Top.line = Main <=> Depth = 1
  OBVIOUS
<1>1. FrameOK(Depth, Top)
  BY TopFrame DEF IInv, FramesOK, Top
<1> QED BY <1>1, LinesAssumption DEF FrameOK

(* Nothing is pending while main has not asked for anything.               *)
LEMMA NothingPending ==
  ASSUME IInv, Depth = 1, Top.pc \in {"run", "arg", "cmd"}
  PROVE  Pending = {} /\ pins = {} /\ \A l \in Lines : timers[l] = 0
<1>1. \A i \in 1..Depth, l \in Lines : ~Asks(stack[i], l)
  BY TopFrame DEF Asks, Top, IInv
<1>2. Pending \subseteq Lines
  BY DEF IInv, SyncTypeOK, Pending
<1>3. Pending = {}
  BY <1>1, <1>2 DEF IInv, PendingAsked
<1> QED BY <1>3 DEF Pending

(* The top frame with another pc.                                          *)
LEMMA TopAt ==
  ASSUME SyncTypeOK, NEW pc \in {"run", "arg", "cmd", "spin", "data", "await", "cleared", "ret"}
  PROVE  /\ [Top EXCEPT !.pc = pc] \in Frames
         /\ [Top EXCEPT !.pc = pc].pc = pc
         /\ [Top EXCEPT !.pc = pc].req = Top.req
         /\ [Top EXCEPT !.pc = pc].line = Top.line
BY TopFrame DEF Frames
-----------------------------------------------------------------------------
(* A context begins a call.                                                *)
LEMMA AskStep ==
  ASSUME IInv, NEW cmd \in Commands, NEW arg \in SUBSET Lines, Ask(cmd, arg),
         Top.pc \in {"run", "cleared"}, mie' \in BOOLEAN, calls' \in 0..MaxCalls,
         cmd = "raise" => /\ \E l \in Lines : arg = {l}
                          /\ \A i \in 1..Depth : stack[i].line \notin arg
                          /\ Depth # 1 => stack[1].req.cmd = "raise" /\ Top.pc = "cleared",
         cmd = "clear" => Depth # 1 /\ arg = {Top.line},
         cmd = "mask" => Depth = 1,
         mie' => Depth = 1 /\ cmd = "raise"
  PROVE  IInv'
<1> DEFINE r == [cmd |-> cmd, arg |-> arg]
           f == [Top EXCEPT !.pc = "arg", !.req = r]
<1>1. SyncTypeOK /\ req_q = <<>> /\ FramesOK /\ OthersAwait /\ Chain /\ Top \in Frames
  BY TopFrame DEF IInv, Handshake
<1>2. stack' = [stack EXCEPT ![Depth] = f]
  BY <1>1, MovesTop DEF Ask
<1>3. r \in SyncReqs /\ r.cmd = cmd /\ r.arg = arg
  BY DEF SyncReqs
<1>4. f \in Frames /\ f.pc = "arg" /\ f.req = r /\ f.line = Top.line
  BY <1>1, <1>3 DEF Frames
<1>5. Testbench(NoAccess) /\ ~StoresTo(NoAccess, "cmd") /\ ~StoresTo(NoAccess, "arg") /\ late' = 0
  BY QuietStores DEF Ask
<1>6. FrameOK(Depth, Top)
  BY <1>1, TopFrame DEF FramesOK, Top
<1>7. FrameOK(Depth, f)
  BY <1>3, <1>4, <1>6 DEF FrameOK, InCall
<1>8. ran' \subseteq ran /\ (cmd # "clear" => ran' = ran \ arg)
  BY DEF Ask
<1> HIDE DEF f, r
<1>9. /\ stack' \in Seq(Frames) /\ Depth' = Depth /\ Top' = f
      /\ \A i \in 1..Depth : stack'[i].line = stack[i].line
      /\ FramesOK' /\ OthersAwait' /\ Chain'
  BY <1>1, <1>2, <1>3, <1>4, <1>7, MoveStack
<1>10. PendingAsked' /\ ClearedDown' /\ OncePending'
  <2>1. Depth # 1 /\ StillHigh(Top) => StillHigh(f)
    BY <1>3, <1>4 DEF StillHigh, Commands
  <2>2. \A l \in Lines \ ran : Asks(Top, l) => Asks(f, l)
    BY DEF Asks
  <2> QED BY <1>2, <1>4, <1>5, <1>8, <2>1, <2>2, MoveLines
<1>11. SyncTypeOK'
  <2>1. Depth' >= 1 /\ late' \in 0..LeaveMax /\ ran' \subseteq Lines
    BY <1>1, <1>5, <1>8, <1>9, TopFrame, DelayFacts DEF SyncTypeOK
  <2> QED BY <1>1, <1>5, <1>9, <2>1, QuietTypes
<1>12. Fresh'
  BY <1>3, <1>4, <1>8, <1>9 DEF Fresh
<1>13. SafeToEnable'
  <2> SUFFICES ASSUME mie' PROVE Depth' = 1 /\ pins' = {} /\ Top'.req.cmd = "raise"
    BY DEF SafeToEnable
  <2>1. Depth = 1 /\ cmd = "raise"
    OBVIOUS
  <2>2. Top.pc = "run"
    BY <1>6, <2>1 DEF FrameOK
  <2>3. pins = {} /\ \A l \in Lines : timers[l] = 0
    BY <2>1, <2>2, NothingPending
  <2>4. pins' = {}
    BY <1>1, <1>5, <2>3, QuietEdge
  <2> QED BY <1>3, <1>4, <1>9, <2>1, <2>4
<1>14. Handshake' /\ InTime'
  <2>1. server.st = "get"
    BY DEF IInv, Handshake
  <2>2. server'.st = "get" /\ req_q' = <<>>
    BY <1>1, <1>5, <2>1, QuietEdge
  <2> QED BY <1>4, <1>9, <2>2 DEF Handshake, InTime
<1> QED BY <1>9, <1>10, <1>11, <1>12, <1>13, <1>14 DEF IInv

(* The four calls of the test programs.                                    *)
LEMMA AsksKeep ==
  ASSUME IInv,
         MainRaisesAll \/ IsrClears \/ \E l \in Lines : MainRaises(l) \/ IsrRaises(l)
  PROVE  IInv'
<1>1. FrameOK(Depth, Top) /\ Top \in Frames /\ (Top.line = Main <=> Depth = 1) /\ SyncTypeOK
  BY TopFrame, MainAtBottom DEF IInv, FramesOK, Top
<1>2. calls \in 0..MaxCalls /\ mie \in BOOLEAN
  BY <1>1 DEF SyncTypeOK
<1>3. Main \notin Lines
  BY LinesAssumption
<1>4. ASSUME MainRaisesAll PROVE IInv'
  <2>1. /\ Depth = 1 /\ Top.pc = "run" /\ Ask("mask", Lines) /\ ~mie'
        /\ calls < MaxCalls /\ calls' = calls + 1
    BY <1>1, <1>4 DEF MainRaisesAll
  <2>2. calls' \in 0..MaxCalls /\ mie' \in BOOLEAN
    <3>1. mie' = FALSE
      BY <1>4 DEF MainRaisesAll
    <3>2. calls' \in 0..MaxCalls
      BY <1>2, <2>1, DelayFacts
    <3> QED BY <3>1, <3>2
  <2>3. "mask" \in Commands /\ Lines \in SUBSET Lines
    BY DEF Commands
  <2> QED BY <2>1, <2>2, <2>3, AskStep
<1>5. ASSUME NEW l \in Lines, MainRaises(l) PROVE IInv'
  <2>1. /\ Depth = 1 /\ Top.pc = "run" /\ Ask("raise", {l}) /\ mie'
        /\ calls < MaxCalls /\ calls' = calls + 1
    BY <1>1, <1>5 DEF MainRaises
  <2>2. calls' \in 0..MaxCalls /\ mie' \in BOOLEAN
    BY <1>2, <1>5, <2>1, DelayFacts DEF MainRaises
  <2>3. "raise" \in Commands /\ {l} \in SUBSET Lines
    BY DEF Commands
  <2>4. \A i \in 1..Depth : stack[i].line \notin {l}
    BY <1>1, <1>3, <2>1 DEF FrameOK, Top
  <2> QED BY <2>1, <2>2, <2>3, <2>4, AskStep
<1>6. ASSUME IsrClears PROVE IInv'
  <2>1. /\ Depth # 1 /\ Top.line \in Lines /\ Top.pc = "run" /\ Ask("clear", {Top.line})
        /\ calls' = calls /\ mie' = mie
    BY <1>1, <1>6 DEF IsrClears, FrameOK
  <2>2. ~mie
    BY <2>1 DEF IInv, SafeToEnable
  <2>3. "clear" \in Commands /\ {Top.line} \in SUBSET Lines
    BY <2>1 DEF Commands
  <2> QED BY <1>2, <2>1, <2>2, <2>3, AskStep
<1>7. ASSUME NEW l \in Lines, IsrRaises(l) PROVE IInv'
  <2>1. /\ Depth # 1 /\ Top.pc = "cleared" /\ Ask("raise", {l})
        /\ stack[1].req.cmd = "raise" /\ \A i \in 1..Depth : stack[i].line # l
        /\ calls' = calls /\ mie' = mie
    BY <1>1, <1>7 DEF IsrRaises
  <2>2. ~mie
    BY <2>1 DEF IInv, SafeToEnable
  <2>3. "raise" \in Commands /\ {l} \in SUBSET Lines
    BY DEF Commands
  <2> QED BY <1>2, <2>1, <2>2, <2>3, AskStep
<1> QED BY <1>4, <1>5, <1>6, <1>7

(* The store of ARG.                                                       *)
LEMMA StoreArgKeeps == IInv /\ StoreArg => IInv'
<1> SUFFICES ASSUME IInv, StoreArg PROVE IInv'
  OBVIOUS
<1> DEFINE f == [Top EXCEPT !.pc = "cmd"]
           bus == <<"arg", Top.req.arg>>
<1>1. SyncTypeOK /\ req_q = <<>> /\ FramesOK /\ OthersAwait /\ Chain
  BY DEF IInv, Handshake
<1>2. stack' = [stack EXCEPT ![Depth] = f]
  BY <1>1, MovesTop DEF StoreArg
<1>3. f \in Frames /\ f.pc = "cmd" /\ f.req = Top.req /\ f.line = Top.line
  BY <1>1, TopAt
<1>4. Top.pc = "arg" /\ late' = 0 /\ mie' = mie /\ ran' = ran /\ calls' = calls
  BY DEF StoreArg
<1>5. FrameOK(Depth, Top)
  BY <1>1, TopFrame DEF FramesOK, Top
<1>6. Top.req.arg \in SUBSET Lines
  BY <1>4, <1>5 DEF FrameOK, InCall, SyncReqs
<1>7. Testbench(bus) /\ ~StoresTo(bus, "cmd") /\ StoresTo(bus, "arg") /\ bus[2] = Top.req.arg
  BY DEF StoreArg, StoresTo
<1> HIDE DEF f, bus
<1>8. FrameOK(Depth, f)
  BY <1>3, <1>4, <1>5 DEF FrameOK, InCall
<1>9. Depth # 1 /\ f.req.cmd = "raise" => stack[1].req.cmd = "raise"
  BY <1>1, <1>3, TopFrame DEF Chain, Top
<1>10. /\ stack' \in Seq(Frames) /\ Depth' = Depth /\ Top' = f
       /\ \A i \in 1..Depth : stack'[i].line = stack[i].line
       /\ FramesOK' /\ OthersAwait' /\ Chain'
  BY <1>1, <1>2, <1>3, <1>8, <1>9, MoveStack
<1>11. PendingAsked' /\ ClearedDown' /\ OncePending'
  <2>1. StillHigh(Top) => StillHigh(f)
    BY <1>3, <1>4 DEF StillHigh
  <2>2. \A l \in Lines \ ran : Asks(Top, l) => Asks(f, l)
    BY <1>4 DEF Asks
  <2> QED BY <1>2, <1>3, <1>4, <1>7, <2>1, <2>2, MoveLines
<1>12. SyncTypeOK'
  <2>1. /\ Depth' >= 1 /\ late' \in 0..LeaveMax /\ ran' \subseteq Lines
        /\ mie' \in BOOLEAN /\ calls' \in 0..MaxCalls
    BY <1>1, <1>4, <1>10, TopFrame, DelayFacts DEF SyncTypeOK
  <2> QED BY <1>1, <1>6, <1>7, <1>10, <2>1, QuietTypes
<1>13. Fresh'
  BY <1>3, <1>4, <1>10 DEF IInv, Fresh, InCall
<1>14. SafeToEnable'
  <2> SUFFICES ASSUME mie PROVE Depth = 1 /\ pins' = {} /\ Top.req.cmd = "raise"
    BY <1>3, <1>4, <1>10 DEF SafeToEnable
  <2>1. Depth = 1 /\ Top.req.cmd = "raise"
    BY <1>4 DEF IInv, SafeToEnable, InCall
  <2>2. pins = {} /\ \A l \in Lines : timers[l] = 0
    BY <1>4, <2>1, NothingPending
  <2> QED BY <1>1, <1>7, <2>1, <2>2, QuietEdge
<1>15. Handshake' /\ InTime'
  <2>1. server.st = "get"
    BY <1>4 DEF IInv, Handshake
  <2>2. server'.st = "get" /\ req_q' = <<>> /\ last_arg' = Top.req.arg
    BY <1>1, <1>7, <2>1, QuietEdge
  <2> QED BY <1>3, <1>10, <2>2 DEF Handshake, InTime
<1> QED BY <1>10, <1>11, <1>12, <1>13, <1>14, <1>15 DEF IInv

(* The store of CMD, which the command loop takes at once.                 *)
LEMMA StoreCmdKeeps == IInv /\ StoreCmd => IInv'
<1> SUFFICES ASSUME IInv, StoreCmd PROVE IInv'
  OBVIOUS
<1> DEFINE f == [Top EXCEPT !.pc = "spin"]
<1>1. SyncTypeOK /\ req_q = <<>> /\ FramesOK /\ OthersAwait /\ Chain
  BY DEF IInv, Handshake
<1>2. stack' = [stack EXCEPT ![Depth] = f]
  BY <1>1, MovesTop DEF StoreCmd
<1>3. f \in Frames /\ f.pc = "spin" /\ f.req = Top.req /\ f.line = Top.line
  BY <1>1, TopAt
<1>4. Top.pc = "cmd" /\ late' = 0 /\ mie' = mie /\ ran' = ran /\ calls' = calls
  BY DEF StoreCmd
<1>5. FrameOK(Depth, Top)
  BY <1>1, TopFrame DEF FramesOK, Top
<1>6. PICK r \in SyncReqs : r = Top.req
  BY <1>4, <1>5 DEF FrameOK, InCall
<1>7. server.st = "get" /\ last_arg = r.arg
  BY <1>4, <1>6 DEF IInv, Handshake
<1>8. Testbench(<<"cmd", r.cmd>>)
  BY <1>6 DEF StoreCmd
<1>9. /\ req_q' = <<>> /\ last_arg' = last_arg
      /\ server' = [st |-> AfterHandler(r.cmd), req |-> r]
      /\ ack' = "none" /\ sv2c_data' = sv2c_data
      /\ timers' \in [Lines -> 0..MaxDelay]
      /\ \A l \in Lines :
           IF r.cmd = "raise" /\ l \in r.arg THEN timers'[l] >= MinDelay
           ELSE timers'[l] = CountDown(timers[l])
      /\ pins' = (pins \ Dropped(r)) \cup Driven(r) \cup {l \in Lines : timers[l] = 1}
  BY <1>1, <1>7, <1>8, CommandEdge
<1> HIDE DEF f
<1>10. FrameOK(Depth, f)
  BY <1>3, <1>4, <1>5 DEF FrameOK, InCall
<1>11. Depth # 1 /\ f.req.cmd = "raise" => stack[1].req.cmd = "raise"
  BY <1>1, <1>3, TopFrame DEF Chain, Top
<1>12. /\ stack' \in Seq(Frames) /\ Depth' = Depth /\ Top' = f
       /\ \A i \in 1..(Depth - 1) : stack'[i] = stack[i]
       /\ stack'[Depth] = f
       /\ \A i \in 1..Depth : stack'[i].line = stack[i].line
       /\ FramesOK' /\ OthersAwait' /\ Chain'
  BY <1>1, <1>2, <1>3, <1>10, <1>11, MoveStack
<1>13. Depth \in Nat /\ Depth >= 1 /\ (\A i \in 1..Depth : i # Depth => i \in 1..(Depth - 1))
  BY <1>1, TopFrame
<1>14. /\ r.cmd \in Commands /\ r.arg \subseteq Lines
       /\ AfterHandler(r.cmd) \in {"wait", "reply"}
       /\ AfterHandler(r.cmd) = "wait" => r.cmd # "raise"
  BY DEF SyncReqs, AfterHandler
<1>15. \A l \in Lines : timers[l] \in Nat
  BY <1>1, DelayFacts DEF SyncTypeOK
<1>16. SyncTypeOK'
  <2>1. /\ Depth' >= 1 /\ late' \in 0..LeaveMax /\ ran' \subseteq Lines
        /\ mie' \in BOOLEAN /\ calls' \in 0..MaxCalls
    BY <1>1, <1>4, <1>12, <1>13, DelayFacts DEF SyncTypeOK
  <2>2. pins' \subseteq Lines /\ last_arg' \subseteq Lines
    BY <1>1, <1>9, <1>14 DEF Driven, SyncTypeOK
  <2>3. /\ server' \in [st : {"get", "wait", "reply"}, req : SyncReqs \cup {NoReq}]
        /\ ack' \in Commands \cup {"none"} /\ sv2c_data' \in SyncReqs \cup {NoReq}
    BY <1>1, <1>9, <1>14 DEF SyncTypeOK
  <2>4. req_q' \in Seq(SyncReqs)
    BY <1>9
  <2> QED BY <1>9, <1>12, <2>1, <2>2, <2>3, <2>4 DEF SyncTypeOK
<1>17. Fresh'
  BY <1>3, <1>4, <1>12 DEF IInv, Fresh, InCall
<1>18. Handshake'
  BY <1>3, <1>4, <1>6, <1>9, <1>12, <1>14 DEF Handshake
(* A line that the command raises or drives was not pending before it.     *)
<1>19. r.cmd # "clear" => \A l \in r.arg : l \notin Pending
  <2> SUFFICES ASSUME r.cmd # "clear", NEW l \in r.arg, l \in Pending PROVE FALSE
    OBVIOUS
  <2>1. PICK i \in 1..Depth : Asks(stack[i], l)
    BY DEF IInv, PendingAsked
  <2>2. i # Depth
    BY <1>4, <2>1 DEF Asks, Top
  <2>3. Depth # 1 /\ r.cmd = "raise"
    BY <1>5, <1>6, <1>13, <1>14, <2>2 DEF FrameOK, Commands
  <2>4. stack[1].req.cmd = "raise"
    BY <1>3, <1>6, <1>11, <2>3
  <2>5. stack[i].req.arg = {stack[i + 1].line} /\ i + 1 \in 1..Depth
    BY <1>1, <1>13, <2>2, <2>4 DEF Chain
  <2>6. stack[i + 1].line \notin r.arg
    BY <1>4, <1>6, <2>3, <2>5 DEF IInv, Fresh, InCall
  <2> QED BY <2>1, <2>5, <2>6 DEF Asks
<1>20. r.cmd # "clear" => r.arg \cap ran = {}
  BY <1>4, <1>6 DEF IInv, Fresh, InCall
<1>21. ASSUME NEW l \in Pending' PROVE l \in Lines /\ (l \in Pending \/ (r.cmd # "clear" /\ l \in r.arg))
  BY <1>9, <1>14, <1>15, <1>16 DEF Pending, SyncTypeOK, Driven, CountDown
<1>22. PendingAsked'
  <2> SUFFICES ASSUME NEW l \in Pending'
               PROVE  l \notin ran /\ \E i \in 1..Depth : Asks(stack'[i], l)
    BY <1>4, <1>12 DEF PendingAsked
  <2>1. CASE r.cmd # "clear" /\ l \in r.arg
    <3>1. Asks(f, l)
      BY <1>3, <1>6, <1>14, <2>1 DEF Asks, Commands
    <3> QED BY <1>12, <1>13, <1>20, <2>1, <3>1
  <2>2. CASE l \in Pending
    <3>1. l \notin ran /\ \E i \in 1..Depth : Asks(stack[i], l)
      BY <2>2 DEF IInv, PendingAsked
    <3>2. PICK i \in 1..Depth : Asks(stack[i], l)
      BY <3>1
    <3>3. i # Depth
      BY <1>4, <3>2 DEF Asks, Top
    <3> QED BY <1>12, <1>13, <3>1, <3>2, <3>3
  <2> QED BY <1>21, <2>1, <2>2
<1>23. OncePending'
  <2> SUFFICES ASSUME NEW l \in pins' PROVE timers'[l] = 0
    BY DEF OncePending
  <2>1. l \in Lines
    BY <1>16 DEF SyncTypeOK
  <2>2. CASE r.cmd = "raise" /\ l \in r.arg
    <3>1. l \notin Pending
      BY <1>19, <2>2
    <3> QED BY <1>9, <2>1, <2>2, <3>1 DEF Pending, Driven
  <2>3. CASE ~(r.cmd = "raise" /\ l \in r.arg)
    <3>1. timers'[l] = CountDown(timers[l])
      BY <1>9, <2>1, <2>3
    <3>2. timers[l] = 0 \/ timers[l] = 1
      <4>1. CASE l \in pins
        BY <4>1 DEF IInv, OncePending
      <4>2. CASE l \in Driven(r)
        BY <1>19, <2>1, <4>2 DEF Driven, Pending
      <4> QED BY <1>9, <4>1, <4>2
    <3> QED BY <3>1, <3>2 DEF CountDown
  <2> QED BY <2>2, <2>3
<1>24. ClearedDown'
  <2> SUFFICES ASSUME NEW i \in 2..Depth
               PROVE  /\ timers'[stack[i].line] = 0
                      /\ ~StillHigh(stack'[i]) => stack[i].line \notin pins'
    BY <1>12, <1>13 DEF ClearedDown
  <2>1. stack[i].line \in Lines /\ i \in 1..Depth
    BY <1>13 DEF IInv, FramesOK, FrameOK
  <2>2. /\ timers[stack[i].line] = 0
        /\ ~StillHigh(stack[i]) => stack[i].line \notin pins
    BY DEF IInv, ClearedDown
  <2>3. r.cmd # "clear" => r.cmd = "raise" /\ stack[i].line \notin r.arg
    <3>1. r.cmd # "mask"
      BY <1>5, <1>6, <1>13 DEF FrameOK
    <3> QED BY <1>4, <1>6, <1>14, <2>1, <3>1 DEF IInv, Fresh, InCall, Commands
  <2>4. timers'[stack[i].line] = 0
    BY <1>9, <2>1, <2>2, <2>3 DEF CountDown
  <2>5. ASSUME ~StillHigh(stack'[i]) PROVE stack[i].line \notin pins'
    <3>1. stack[i].line \notin Driven(r)
      BY <2>3 DEF Driven
    <3>2. stack[i].line \notin pins \/ stack[i].line \in Dropped(r)
      <4>1. CASE i # Depth
        <5>1. stack'[i] = stack[i]
          BY <1>12, <1>13, <4>1
        <5> QED BY <2>2, <2>5, <5>1
      <4>2. CASE i = Depth
        <5>1. stack[i] = Top
          BY <4>2 DEF Top
        <5>2. CASE r.cmd = "clear"
          BY <1>5, <1>6, <5>1, <5>2 DEF FrameOK, Dropped
        <5>3. CASE r.cmd # "clear"
          BY <1>4, <1>6, <2>2, <5>1, <5>3 DEF StillHigh
        <5> QED BY <5>2, <5>3
      <4> QED BY <4>1, <4>2
    <3> QED BY <1>9, <2>2, <3>1, <3>2
  <2> QED BY <2>4, <2>5
<1>25. ASSUME mie
       PROVE  /\ Depth = 1 /\ r.cmd = "raise" /\ pins' = {}
              /\ \A l \in Lines : timers'[l] # 0 => timers'[l] >= MinDelay
  <2>1. Depth = 1 /\ r.cmd = "raise"
    BY <1>4, <1>6, <1>25 DEF IInv, SafeToEnable, InCall
  <2>2. pins = {} /\ \A l \in Lines : timers[l] = 0
    BY <1>4, <2>1, NothingPending
  <2>3. pins' = {}
    BY <1>9, <2>1, <2>2 DEF Driven
  <2>4. \A l \in Lines : timers'[l] # 0 => timers'[l] >= MinDelay
    BY <1>9, <2>2 DEF CountDown
  <2> QED BY <2>1, <2>3, <2>4
<1>26. SafeToEnable'
  BY <1>3, <1>4, <1>6, <1>12, <1>25 DEF SafeToEnable
<1>27. InTime'
  <2>1. late' <= LeaveMax - 2
    BY <1>4, DelayFacts
  <2>2. ASSUME mie, NEW l \in Lines, timers'[l] # 0 PROVE timers'[l] + late' >= MinDelay - Replied'
    <3>1. timers'[l] >= MinDelay /\ timers'[l] \in Nat
      BY <1>16, <1>25, <2>2, DelayFacts DEF SyncTypeOK
    <3>2. Replied' = 0
      BY <1>9, <1>14 DEF Replied
    <3> QED BY <1>4, <3>1, <3>2, DelayFacts
  <2> QED BY <1>3, <1>4, <1>12, <2>1, <2>2 DEF InTime
<1> QED BY <1>12, <1>16, <1>17, <1>18, <1>22, <1>23, <1>24, <1>26, <1>27 DEF IInv

(* An edge without a move, and the load of ACK: the call goes on.          *)
LEMMA WaitKeeps ==
  ASSUME IInv, CoreStalls \/ LoadAck
  PROVE  IInv'
<1> DEFINE f == IF CoreStalls THEN Top ELSE [Top EXCEPT !.pc = "data"]
<1>1. SyncTypeOK /\ req_q = <<>> /\ FramesOK /\ OthersAwait /\ Chain
  BY DEF IInv, Handshake
<1>2. stack' = [stack EXCEPT ![Depth] = f]
  BY <1>1, MovesTop DEF CoreStalls, LoadAck
<1>3. /\ f \in Frames /\ f.req = Top.req /\ f.line = Top.line
      /\ f.pc = Top.pc \/ (Top.pc = "spin" /\ f.pc = "data" /\ ack = Top.req.cmd)
  <2>1. CASE CoreStalls
    BY <1>1, <2>1, TopFrame
  <2>2. CASE ~CoreStalls
    BY <1>1, <2>2, TopAt DEF LoadAck
  <2> QED BY <2>1, <2>2
<1>4. /\ mie' = mie /\ ran' = ran /\ calls' = calls
      /\ Testbench(NoAccess) /\ ~StoresTo(NoAccess, "cmd") /\ ~StoresTo(NoAccess, "arg")
  BY QuietStores DEF CoreStalls, LoadAck
<1>5. FrameOK(Depth, Top)
  BY <1>1, TopFrame DEF FramesOK, Top
<1>6. late \in 0..LeaveMax /\ \A l \in Lines : timers[l] \in Nat
  BY <1>1, DelayFacts DEF SyncTypeOK
(* How the count of late edges goes on.                                    *)
<1>7. /\ late' = IF Answered THEN late + 1 ELSE 0
      /\ f.pc = "spin" /\ Answered => late < LeaveMax - 2
      /\ f.pc = "data" /\ Top.pc = "data" => late < LeaveMax - 1
  <2>1. CASE CoreStalls
    <3>1. f = Top
      BY <2>1
    <3> QED BY <2>1, <3>1 DEF CoreStalls, Answered
  <2>2. CASE ~CoreStalls
    <3>1. f.pc = "data" /\ Top.pc = "spin" /\ Answered /\ late' = late + 1
      BY <1>1, <2>2, TopAt DEF LoadAck, Answered
    <3> QED BY <3>1
  <2> QED BY <2>1, <2>2
<1> HIDE DEF f
<1>8. FrameOK(Depth, f)
  BY <1>3, <1>5 DEF FrameOK, InCall
<1>9. Depth # 1 /\ f.req.cmd = "raise" => stack[1].req.cmd = "raise"
  BY <1>1, <1>3, TopFrame DEF Chain, Top
<1>10. /\ stack' \in Seq(Frames) /\ Depth' = Depth /\ Top' = f
       /\ \A i \in 1..Depth : stack'[i].line = stack[i].line
       /\ FramesOK' /\ OthersAwait' /\ Chain'
  BY <1>1, <1>2, <1>3, <1>8, <1>9, MoveStack
<1>11. PendingAsked' /\ ClearedDown' /\ OncePending'
  <2>1. StillHigh(Top) => StillHigh(f)
    BY <1>3 DEF StillHigh
  <2>2. \A l \in Lines \ ran : Asks(Top, l) => Asks(f, l)
    BY <1>3 DEF Asks
  <2> QED BY <1>2, <1>3, <1>4, <2>1, <2>2, MoveLines
<1>12. Answered => late + 1 <= LeaveMax - 1 /\ (f.pc = "spin" => late + 1 <= LeaveMax - 2)
  <2>1. Top.pc = "spin" => late <= LeaveMax - 2
    BY DEF IInv, InTime
  <2> QED BY <1>3, <1>6, <1>7, <2>1, DelayFacts DEF Answered
<1>13. SyncTypeOK'
  <2>1. /\ Depth' >= 1 /\ late' \in 0..LeaveMax /\ ran' \subseteq Lines
        /\ mie' \in BOOLEAN /\ calls' \in 0..MaxCalls
    <3>1. late' \in 0..LeaveMax
      BY <1>6, <1>7, <1>12, DelayFacts
    <3> QED BY <1>1, <1>4, <1>10, <3>1, TopFrame DEF SyncTypeOK
  <2> QED BY <1>1, <1>4, <1>10, <2>1, QuietTypes
<1>14. Fresh'
  BY <1>3, <1>4, <1>10 DEF IInv, Fresh, InCall
<1>15. /\ req_q' = <<>> /\ last_arg' = last_arg /\ server'.req = server.req
       /\ server'.st = IF server.st = "wait" THEN "reply" ELSE "get"
       /\ ack' = IF server.st = "reply" THEN server.req.cmd ELSE ack
       /\ sv2c_data' = IF server.st = "reply" THEN server.req ELSE sv2c_data
       /\ server.st \in {"get", "wait", "reply"}
  BY <1>1, <1>4, QuietEdge DEF SyncTypeOK
<1>17. Top.pc = "spin" => Top.req.cmd # "none"
  BY <1>5 DEF FrameOK, InCall, SyncReqs, Commands
<1>18. Handshake'
  <2>0. Handshake
    BY DEF IInv
  <2>1. CASE Top.pc = "spin" /\ server.st # "get"
    <3>1. server.req = Top.req /\ ack = "none" /\ (server.st = "wait" => Top.req.cmd # "raise")
      BY <2>0, <2>1 DEF Handshake
    <3>2. f.pc = "spin" /\ ~Answered /\ late' = 0
      BY <1>3, <1>7, <1>17, <2>1, <3>1 DEF Answered
    <3> QED BY <1>3, <1>10, <1>15, <2>1, <3>1, <3>2 DEF Handshake
  <2>2. CASE Top.pc = "spin" /\ server.st = "get"
    BY <1>3, <1>10, <1>15, <2>0, <2>2 DEF Handshake
  <2>3. CASE Top.pc # "spin"
    BY <1>3, <1>10, <1>15, <2>0, <2>3 DEF Handshake
  <2> QED BY <2>1, <2>2, <2>3
(* A forked raise is as far away, counted from the answer, as before.      *)
<1>19. ASSUME mie, Top.pc \in {"spin", "data"}, NEW l \in Lines, timers[l] # 0
       PROVE  timers[l] # 1 /\ (timers'[l] # 0 => timers'[l] + late' >= MinDelay - Replied')
  <2>1. timers[l] + late >= MinDelay - Replied
    BY <1>19 DEF IInv, InTime
  <2>2. timers'[l] # 0 => timers[l] = timers'[l] + 1 /\ timers'[l] \in Nat
    <3>1. timers'[l] \in Nat
      BY <1>13, DelayFacts DEF SyncTypeOK
    <3> QED BY <1>1, <1>4, <1>19, <3>1, QuietPending DEF IInv
  <2>3. Top.req.cmd = "raise"
    BY <1>19 DEF IInv, SafeToEnable, InCall
  <2>4. CASE server.st = "get"
    <3>1. Answered /\ late' = late + 1
      BY <1>7, <1>19, <2>4 DEF IInv, Handshake, Answered
    <3>2. Replied = 1 /\ Replied' = 1
      BY <1>15, <2>4 DEF Replied
    <3>3. late + 1 <= LeaveMax - 1
      BY <1>12, <3>1
    <3>4. timers[l] # 1
      BY <1>6, <2>1, <3>2, <3>3, DelayFacts
    <3> QED BY <1>6, <2>1, <2>2, <3>1, <3>2, <3>4, DelayFacts
  <2>5. CASE server.st # "get"
    <3>1. server.st = "reply" /\ late = 0 /\ ~Answered
      BY <1>15, <1>17, <1>19, <2>3, <2>5 DEF IInv, Handshake, Answered
    <3>2. Replied = 0 /\ Replied' = 1 /\ late' = 0
      BY <1>7, <1>15, <3>1 DEF Replied
    <3> QED BY <1>6, <2>1, <2>2, <3>1, <3>2, DelayFacts
  <2> QED BY <2>4, <2>5
<1>20. SafeToEnable'
  <2> SUFFICES ASSUME mie, f.pc # "await"
               PROVE  Depth = 1 /\ pins' = {} /\ (InCall(f) => Top.req.cmd = "raise")
    BY <1>3, <1>4, <1>10 DEF SafeToEnable
  <2>1. Depth = 1 /\ pins = {} /\ (InCall(Top) => Top.req.cmd = "raise")
    BY <1>3 DEF IInv, SafeToEnable
  <2>2. Top.pc \in {"run", "arg", "cmd", "spin", "data"}
    BY <1>3, <1>5, <2>1, <1>1, TopFrame DEF FrameOK, Frames
  <2>3. \A l \in Lines : timers[l] # 1
    <3>1. CASE Top.pc \in {"run", "arg", "cmd"}
      BY <2>1, <3>1, NothingPending
    <3>2. CASE Top.pc \in {"spin", "data"}
      <4> SUFFICES ASSUME NEW l \in Lines, timers[l] = 1 PROVE FALSE
        OBVIOUS
      <4> QED BY <1>19, <3>2
    <3> QED BY <2>2, <3>1, <3>2
  <2>4. pins' = {}
    BY <1>1, <1>4, <2>1, <2>3, QuietEdge
  <2> QED BY <1>3, <2>1, <2>4 DEF InCall
<1>21. InTime'
  <2>1. f.pc = "spin" => late' <= LeaveMax - 2
    BY <1>7, <1>12, DelayFacts
  <2>2. f.pc = "data" => late' <= LeaveMax - 1
    BY <1>7, <1>12, DelayFacts
  <2>3. ASSUME mie, f.pc \in {"spin", "data"}, NEW l \in Lines, timers'[l] # 0
        PROVE  timers'[l] + late' >= MinDelay - Replied'
    <3>1. Top.pc \in {"spin", "data"}
      BY <1>3, <2>3
    <3>2. timers[l] # 0
      BY <1>1, <1>4, <2>3, QuietPending DEF IInv
    <3> QED BY <1>19, <2>3, <3>1, <3>2
  <2> QED BY <1>4, <1>10, <2>1, <2>2, <2>3 DEF InTime
<1> QED BY <1>10, <1>11, <1>13, <1>14, <1>18, <1>20, <1>21 DEF IInv

(* A call returns, or a context has waited long enough.                    *)
LEMMA LeaveKeeps ==
  ASSUME IInv, LoadData \/ Awaited
  PROVE  IInv'
<1>1. SyncTypeOK /\ req_q = <<>> /\ FramesOK /\ OthersAwait /\ Chain
  BY DEF IInv, Handshake
<1>2. FrameOK(Depth, Top) /\ (Top.line = Main <=> Depth = 1)
  BY <1>1, TopFrame, MainAtBottom DEF FramesOK, Top
<1>3. PICK pc \in {"cleared", "await", "run", "ret"} :
        /\ stack' = Goto(pc)
        /\ Top.pc = "data" => pc = IF Top.req.cmd = "clear" THEN "cleared" ELSE "await"
        /\ Top.pc # "data" => /\ pc = IF Depth = 1 THEN "run" ELSE "ret"
                              /\ Top.pc = "await" /\ Top.req.arg \subseteq ran
  BY <1>2 DEF LoadData, Awaited
<1>4. /\ ran' = ran /\ calls' = calls /\ late' = 0 /\ Top.pc \in {"data", "await"}
      /\ Testbench(NoAccess) /\ ~StoresTo(NoAccess, "cmd") /\ ~StoresTo(NoAccess, "arg")
  BY QuietStores DEF LoadData, Awaited
<1> DEFINE f == [Top EXCEPT !.pc = pc]
<1>5. stack' = [stack EXCEPT ![Depth] = f]
  BY <1>1, <1>3, MovesTop
<1>6. f \in Frames /\ f.pc = pc /\ f.req = Top.req /\ f.line = Top.line
  BY <1>1, TopAt
<1> HIDE DEF f
<1>7. FrameOK(Depth, f)
  BY <1>2, <1>3, <1>4, <1>6 DEF FrameOK, InCall
<1>8. Depth # 1 /\ f.req.cmd = "raise" => stack[1].req.cmd = "raise"
  BY <1>1, <1>6, TopFrame DEF Chain, Top
<1>9. /\ stack' \in Seq(Frames) /\ Depth' = Depth /\ Top' = f
      /\ FramesOK' /\ OthersAwait' /\ Chain'
  BY <1>1, <1>5, <1>6, <1>7, <1>8, MoveStack
<1>10. PendingAsked' /\ ClearedDown' /\ OncePending'
  <2>1. StillHigh(Top) => StillHigh(f)
    BY <1>4 DEF StillHigh
  <2>2. \A l \in Lines \ ran : Asks(Top, l) => Asks(f, l)
    BY <1>3, <1>4, <1>6 DEF Asks
  <2> QED BY <1>4, <1>5, <1>6, <2>1, <2>2, MoveLines
<1>11. mie' \in BOOLEAN
  <2>1. mie \in BOOLEAN
    BY <1>1 DEF SyncTypeOK
  <2>2. CASE LoadData
    <3>1. PICK b \in BOOLEAN : b <=> (mie \/ Top.req.cmd # "clear")
      OBVIOUS
    <3> QED BY <2>2, <3>1 DEF LoadData
  <2>3. CASE Awaited
    <3>1. PICK b \in BOOLEAN : b <=> Top.line = Main
      OBVIOUS
    <3> QED BY <2>3, <3>1 DEF Awaited
  <2> QED BY <2>2, <2>3
<1>12. SyncTypeOK'
  <2>1. /\ Depth' >= 1 /\ late' \in 0..LeaveMax /\ ran' \subseteq Lines
        /\ calls' \in 0..MaxCalls
    BY <1>1, <1>4, <1>9, TopFrame, DelayFacts DEF SyncTypeOK
  <2> QED BY <1>1, <1>4, <1>9, <1>11, <2>1, QuietTypes
<1>13. Fresh'
  BY <1>6, <1>9 DEF Fresh, InCall
<1>14. SafeToEnable'
  <2> SUFFICES ASSUME mie', pc # "await" PROVE Depth = 1 /\ pins' = {} /\ ~InCall(f)
    BY <1>6, <1>9 DEF SafeToEnable
  <2>1. ~InCall(f)
    BY <1>6 DEF InCall
  <2>2. Depth = 1 /\ pc = "run"
    <3>1. CASE Top.pc = "data"
      <4>1. Top.req.cmd = "clear" /\ mie
        BY <1>3, <3>1 DEF LoadData, Awaited
      <4> QED BY <3>1, <4>1 DEF IInv, SafeToEnable, InCall
    <3>2. CASE Top.pc # "data"
      BY <1>2, <1>3, <3>2 DEF LoadData, Awaited
    <3> QED BY <3>1, <3>2
  <2>3. Top.req.arg \subseteq ran /\ Top.pc = "await"
    BY <1>3, <2>2
  <2>4. \A i \in 1..Depth, l \in Lines \ ran : ~Asks(stack[i], l)
    BY <2>2, <2>3 DEF Asks, Top
  <2>5. pins = {} /\ \A l \in Lines : timers[l] = 0
    BY <1>1, <2>4 DEF IInv, PendingAsked, Pending, SyncTypeOK
  <2> QED BY <1>1, <1>4, <2>1, <2>2, <2>5, QuietEdge
<1>15. Handshake' /\ InTime'
  <2>1. server.st = "get"
    BY <1>4 DEF IInv, Handshake
  <2>2. server'.st = "get" /\ req_q' = <<>>
    BY <1>1, <1>4, <2>1, QuietEdge
  <2> QED BY <1>6, <1>9, <2>2 DEF Handshake, InTime
<1> QED BY <1>9, <1>10, <1>12, <1>13, <1>14, <1>15 DEF IInv

(* An interrupt finds its context waiting, never inside a call.            *)
LEMMA TrapKeeps ==
  ASSUME IInv, NEW l \in Lines, Trap(l)
  PROVE  IInv'
<1> DEFINE f == [line |-> l, req |-> NoReq, pc |-> "run"]
<1>1. SyncTypeOK /\ req_q = <<>> /\ FramesOK /\ OthersAwait /\ Chain /\ OncePending
  BY DEF IInv, Handshake
<1>2. /\ mie /\ l \in pins /\ stack' = Append(stack, f) /\ mie' = FALSE /\ late' = 0
      /\ ran' = ran /\ calls' = calls
      /\ Testbench(NoAccess) /\ ~StoresTo(NoAccess, "cmd") /\ ~StoresTo(NoAccess, "arg")
  BY QuietStores DEF Trap
<1>3. Top.pc = "await"
  BY <1>2 DEF IInv, SafeToEnable
<1>4. f \in Frames /\ f.pc = "run" /\ f.req = NoReq /\ f.line = l
  BY DEF Frames
<1> HIDE DEF f
<1>5. Depth \in Nat /\ Depth >= 1 /\ Depth = Len(stack) /\ stack \in Seq(Frames)
  BY <1>1, TopFrame DEF Depth, SyncTypeOK
<1>6. /\ stack' \in Seq(Frames) /\ Depth' = Depth + 1 /\ Top' = f /\ stack'[Depth + 1] = f
      /\ \A i \in 1..Depth : stack'[i] = stack[i]
  BY <1>2, <1>4, <1>5 DEF Depth, Top
<1>7. \A i \in 1..Depth' : i # Depth + 1 => i \in 1..Depth
  BY <1>5, <1>6
<1>8. FramesOK'
  <2> SUFFICES ASSUME NEW i \in 1..Depth' PROVE FrameOK(i, stack'[i])
    BY DEF FramesOK
  <2>1. CASE i = Depth + 1
    BY <1>4, <1>5, <1>6, <2>1 DEF FrameOK, InCall, NoReq
  <2>2. CASE i # Depth + 1
    BY <1>1, <1>6, <1>7, <2>2 DEF FramesOK
  <2> QED BY <2>1, <2>2
<1>9. OthersAwait'
  <2> SUFFICES ASSUME NEW i \in 1..Depth PROVE stack'[i].pc = "await"
    BY <1>5, <1>6 DEF OthersAwait
  <2>1. i = Depth \/ i \in 1..(Depth - 1)
    BY <1>5
  <2> QED BY <1>1, <1>3, <1>6, <2>1 DEF OthersAwait, Top
(* The line was asked for by the context it interrupts.                    *)
<1>10. ASSUME stack[1].req.cmd = "raise" PROVE Top.req.arg = {l}
  <2>1. PICK i \in 1..Depth : Asks(stack[i], l)
    BY <1>2 DEF IInv, PendingAsked, Pending
  <2>2. CASE i = Depth
    <3>1. Asks(Top, l)
      BY <2>1, <2>2 DEF Top
    <3>2. Top.req.cmd = "raise"
      <4>1. CASE Depth = 1
        BY <1>10, <4>1 DEF Top
      <4>2. CASE Depth # 1
        BY <1>1, <1>5, <3>1, <4>2 DEF Asks, FramesOK, FrameOK, Top
      <4> QED BY <4>1, <4>2
    <3>3. \E m \in Lines : Top.req.arg = {m}
      BY <1>1, <1>5, <3>2 DEF FramesOK, FrameOK, Top
    <3> QED BY <3>1, <3>3 DEF Asks
  <2>3. CASE i # Depth
    <3>1. stack[i].req.arg = {stack[i + 1].line} /\ i + 1 \in 2..Depth
      BY <1>1, <1>5, <1>10, <2>3 DEF Chain
    <3>2. l = stack[i + 1].line
      BY <2>1, <3>1 DEF Asks
    <3>3. stack[i + 1].pc = "await"
      <4>1. i + 1 = Depth \/ i + 1 \in 1..(Depth - 1)
        BY <1>5, <3>1
      <4> QED BY <1>1, <1>3, <4>1 DEF OthersAwait, Top
    <3>4. stack[i + 1].line \notin pins
      BY <3>1, <3>3 DEF IInv, ClearedDown, StillHigh
    <3> QED BY <1>2, <3>2, <3>4
  <2> QED BY <2>2, <2>3
<1>11. Chain'
  <2>1. stack'[1] = stack[1]
    BY <1>5, <1>6
  <2>2. ASSUME NEW i \in 2..Depth', stack'[i].req.cmd = "raise"
        PROVE  stack'[1].req.cmd = "raise"
    <3>1. i # Depth + 1
      BY <1>4, <1>6, <2>2 DEF NoReq
    <3>2. i \in 2..Depth /\ stack'[i] = stack[i]
      BY <1>5, <1>6, <3>1
    <3> QED BY <1>1, <2>1, <2>2, <3>2 DEF Chain
  <2>3. ASSUME stack'[1].req.cmd = "raise", NEW i \in 1..Depth
        PROVE  stack'[i].req.arg = {stack'[i + 1].line}
    <3>1. CASE i = Depth
      BY <1>4, <1>6, <1>10, <2>1, <2>3, <3>1 DEF Top
    <3>2. CASE i # Depth
      <4>1. i \in 1..(Depth - 1) /\ i + 1 \in 1..Depth
        BY <1>5, <3>2
      <4> QED BY <1>1, <1>6, <2>1, <2>3, <4>1 DEF Chain
    <3> QED BY <3>1, <3>2
  <2>4. Depth' - 1 = Depth
    BY <1>5, <1>6
  <2> QED BY <2>2, <2>3, <2>4 DEF Chain
<1>12. PendingAsked'
  <2> SUFFICES ASSUME NEW m \in Pending'
               PROVE  m \notin ran /\ \E i \in 1..Depth' : Asks(stack'[i], m)
    BY <1>2 DEF PendingAsked
  <2>1. m \in Pending
    BY <1>1, <1>2, QuietPending
  <2>2. m \notin ran /\ \E i \in 1..Depth : Asks(stack[i], m)
    BY <2>1 DEF IInv, PendingAsked
  <2>3. PICK i \in 1..Depth : Asks(stack[i], m)
    BY <2>2
  <2>4. i \in 1..Depth'
    BY <1>5, <1>6
  <2> QED BY <1>6, <2>2, <2>3, <2>4
<1>13. ClearedDown'
  <2> SUFFICES ASSUME NEW i \in 2..Depth'
               PROVE  /\ timers'[stack'[i].line] = 0
                      /\ ~StillHigh(stack'[i]) => stack'[i].line \notin pins'
    BY DEF ClearedDown
  <2>1. CASE i = Depth + 1
    <3>1. timers[l] = 0
      BY <1>1, <1>2 DEF OncePending
    <3> QED BY <1>1, <1>2, <1>4, <1>6, <2>1, <3>1, QuietPending DEF StillHigh
  <2>2. CASE i # Depth + 1
    <3>1. stack'[i] = stack[i] /\ i \in 2..Depth /\ i \in 1..Depth /\ i # 1
      BY <1>5, <1>6, <2>2
    <3>2. stack[i].line \in Lines
      BY <1>1, <3>1 DEF FramesOK, FrameOK
    <3>3. /\ timers[stack[i].line] = 0
          /\ ~StillHigh(stack[i]) => stack[i].line \notin pins
      BY <3>1 DEF IInv, ClearedDown
    <3> QED BY <1>1, <1>2, <3>1, <3>2, <3>3, QuietPending
  <2> QED BY <2>1, <2>2
<1>14. SyncTypeOK'
  <2>1. /\ Depth' >= 1 /\ late' \in 0..LeaveMax /\ ran' \subseteq Lines
        /\ calls' \in 0..MaxCalls
    BY <1>1, <1>2, <1>5, <1>6, DelayFacts DEF SyncTypeOK
  <2> QED BY <1>1, <1>2, <1>6, <2>1, QuietTypes
<1>15. Fresh' /\ SafeToEnable'
  BY <1>2, <1>4, <1>6 DEF Fresh, SafeToEnable, InCall
<1>16. Handshake' /\ InTime'
  <2>1. server.st = "get"
    BY <1>3 DEF IInv, Handshake
  <2>2. server'.st = "get" /\ req_q' = <<>>
    BY <1>1, <1>2, <2>1, QuietEdge
  <2> QED BY <1>4, <1>6, <2>2 DEF Handshake, InTime
<1>17. OncePending'
  BY <1>1, <1>2, QuietPending
<1> QED BY <1>8, <1>9, <1>11, <1>12, <1>13, <1>14, <1>15, <1>16, <1>17 DEF IInv

(* A handler returns to a context that waits.                              *)
LEMMA ReturnKeeps ==
  ASSUME IInv, Return
  PROVE  IInv'
<1>1. SyncTypeOK /\ req_q = <<>> /\ FramesOK /\ OthersAwait /\ Chain /\ OncePending
  BY DEF IInv, Handshake
<1>2. /\ Top.line # Main /\ Top.pc \in {"cleared", "ret"}
      /\ stack' = SubSeq(stack, 1, Depth - 1) /\ mie' = TRUE /\ late' = 0
      /\ ran' = ran \cup {Top.line} /\ calls' = calls
      /\ Testbench(NoAccess) /\ ~StoresTo(NoAccess, "cmd") /\ ~StoresTo(NoAccess, "arg")
  BY QuietStores DEF Return
<1>3. Depth \in Nat /\ Depth >= 2 /\ Depth = Len(stack) /\ stack \in Seq(Frames)
  <2>1. Depth # 1
    BY <1>2, MainAtBottom
  <2>2. Depth \in Nat /\ Depth >= 1
    BY <1>1, TopFrame
  <2>3. Depth = Len(stack) /\ stack \in Seq(Frames)
    BY <1>1 DEF Depth, SyncTypeOK
  <2> QED BY <2>1, <2>2, <2>3
<1>4. /\ stack' \in Seq(Frames) /\ Depth' = Depth - 1
      /\ \A i \in 1..(Depth - 1) : stack'[i] = stack[i]
  <2>1. stack' = [i \in 1..(Depth - 1) |-> stack[i]]
    BY <1>2, <1>3
  <2>2. \A i \in 1..(Depth - 1) : stack[i] \in Frames
    BY <1>3
  <2> QED BY <1>2, <1>3, <2>1, <2>2 DEF Depth
<1>5. Top' = stack[Depth - 1] /\ Top'.pc = "await"
  <2>1. Depth - 1 \in 1..(Depth - 1)
    BY <1>3
  <2> QED BY <1>1, <1>4, <2>1 DEF Top, OthersAwait
<1>6. \A i \in 1..(Depth - 1) : i \in 1..Depth
  BY <1>3
<1>7. FramesOK'
  BY <1>1, <1>4, <1>6 DEF FramesOK
<1>8. OthersAwait'
  <2> SUFFICES ASSUME NEW i \in 1..(Depth' - 1) PROVE stack'[i].pc = "await"
    BY DEF OthersAwait
  <2>1. i \in 1..(Depth - 1)
    BY <1>3, <1>4
  <2> QED BY <1>1, <1>4, <2>1 DEF OthersAwait
<1>9. Chain'
  <2>1. stack'[1] = stack[1]
    BY <1>3, <1>4
  <2>2. ASSUME NEW i \in 2..Depth', stack'[i].req.cmd = "raise"
        PROVE  stack'[1].req.cmd = "raise"
    <3>1. i \in 2..Depth /\ i \in 1..(Depth - 1)
      BY <1>3, <1>4
    <3> QED BY <1>1, <1>4, <2>1, <2>2, <3>1 DEF Chain
  <2>3. ASSUME stack'[1].req.cmd = "raise", NEW i \in 1..(Depth' - 1)
        PROVE  stack'[i].req.arg = {stack'[i + 1].line}
    <3>1. i \in 1..(Depth - 1) /\ i + 1 \in 1..(Depth - 1)
      BY <1>3, <1>4
    <3> QED BY <1>1, <1>4, <2>1, <2>3, <3>1 DEF Chain
  <2> QED BY <2>2, <2>3 DEF Chain
(* The line whose handler ran is down, and nobody raises it again.         *)
<1>10. Top.line \in Lines /\ Top.line \notin Pending
  <2>1. Depth \in 2..Depth /\ Depth \in 1..Depth /\ Depth # 1 /\ Top = stack[Depth]
    BY <1>3 DEF Top
  <2>2. Top.line \in Lines
    BY <1>1, <2>1 DEF FramesOK, FrameOK
  <2>3. timers[Top.line] = 0 /\ Top.line \notin pins
    BY <1>2, <2>1 DEF IInv, ClearedDown, StillHigh
  <2> QED BY <2>2, <2>3 DEF Pending
<1>11. PendingAsked'
  <2> SUFFICES ASSUME NEW m \in Pending'
               PROVE  m \notin ran' /\ \E i \in 1..Depth' : Asks(stack'[i], m)
    BY DEF PendingAsked
  <2>1. m \in Pending
    BY <1>1, <1>2, QuietPending
  <2>2. m \notin ran /\ \E i \in 1..Depth : Asks(stack[i], m)
    BY <2>1 DEF IInv, PendingAsked
  <2>3. PICK i \in 1..Depth : Asks(stack[i], m)
    BY <2>2
  <2>4. i # Depth
    BY <1>2, <2>3 DEF Asks, Top
  <2>5. i \in 1..(Depth - 1) /\ i \in 1..Depth'
    BY <1>3, <1>4, <2>4
  <2> QED BY <1>2, <1>4, <1>10, <2>1, <2>2, <2>3, <2>5
<1>12. ClearedDown'
  <2> SUFFICES ASSUME NEW i \in 2..Depth'
               PROVE  /\ timers'[stack'[i].line] = 0
                      /\ ~StillHigh(stack'[i]) => stack'[i].line \notin pins'
    BY DEF ClearedDown
  <2>1. i \in 2..Depth /\ i \in 1..(Depth - 1) /\ i \in 1..Depth /\ i # 1
    BY <1>3, <1>4
  <2>2. stack'[i] = stack[i]
    BY <1>4, <2>1
  <2>3. stack[i].line \in Lines
    BY <1>1, <2>1 DEF FramesOK, FrameOK
  <2>4. /\ timers[stack[i].line] = 0
        /\ ~StillHigh(stack[i]) => stack[i].line \notin pins
    BY <2>1 DEF IInv, ClearedDown
  <2> QED BY <1>1, <1>2, <2>2, <2>3, <2>4, QuietPending
<1>13. SyncTypeOK'
  <2>1. Depth' >= 1 /\ late' \in 0..LeaveMax
    BY <1>2, <1>3, <1>4, DelayFacts
  <2>2. ran' \subseteq Lines /\ calls' \in 0..MaxCalls
    BY <1>1, <1>2, <1>10 DEF SyncTypeOK
  <2> QED BY <1>1, <1>2, <1>4, <2>1, <2>2, QuietTypes
<1>14. Fresh' /\ SafeToEnable'
  BY <1>5 DEF Fresh, SafeToEnable, InCall
<1>15. Handshake' /\ InTime'
  <2>1. server.st = "get"
    BY <1>2 DEF IInv, Handshake
  <2>2. server'.st = "get" /\ req_q' = <<>>
    BY <1>1, <1>2, <2>1, QuietEdge
  <2> QED BY <1>5, <2>2 DEF Handshake, InTime
<1>16. OncePending'
  BY <1>1, <1>2, QuietPending
<1> QED BY <1>7, <1>8, <1>9, <1>11, <1>12, <1>13, <1>14, <1>15, <1>16 DEF IInv
-----------------------------------------------------------------------------
(* The start of the test establishes the inductive invariant.              *)
LEMMA InitIInv == SyncInit => IInv
<1> SUFFICES ASSUME SyncInit PROVE IInv
  OBVIOUS
<1> DEFINE f == [line |-> Main, req |-> NoReq, pc |-> "run"]
<1>1. /\ stack = <<f>> /\ mie = FALSE /\ ran = {} /\ calls = 0 /\ late = 0
      /\ last_arg = {} /\ req_q = <<>> /\ server = [st |-> "get", req |-> NoReq]
      /\ ack = "none" /\ sv2c_data = NoReq
      /\ timers = [l \in Lines |-> 0] /\ pins = {}
  BY DEF SyncInit
<1>2. f \in Frames /\ f.pc = "run" /\ f.req = NoReq /\ f.line = Main
  BY DEF Frames
<1> HIDE DEF f
<1>3. Depth = 1 /\ stack[1] = f /\ Top = f /\ stack \in Seq(Frames)
  BY <1>1, <1>2 DEF Depth, Top
<1>4. SyncTypeOK
  <2>1. calls \in 0..MaxCalls /\ late \in 0..LeaveMax /\ timers \in [Lines -> 0..MaxDelay]
    BY <1>1, DelayFacts
  <2>2. mie \in BOOLEAN /\ ran \subseteq Lines /\ last_arg \subseteq Lines /\ pins \subseteq Lines
    BY <1>1
  <2>3. req_q \in Seq(SyncReqs) /\ server \in [st : {"get", "wait", "reply"}, req : SyncReqs \cup {NoReq}]
    BY <1>1
  <2>4. ack \in Commands \cup {"none"} /\ sv2c_data \in SyncReqs \cup {NoReq} /\ Depth >= 1
    BY <1>1, <1>3
  <2> QED BY <1>3, <2>1, <2>2, <2>3, <2>4 DEF SyncTypeOK
<1>5. FramesOK
  BY <1>2, <1>3 DEF FramesOK, FrameOK, InCall, NoReq
<1>6. OthersAwait /\ Chain
  BY <1>2, <1>3 DEF OthersAwait, Chain, NoReq
<1>7. Fresh /\ SafeToEnable
  BY <1>1, <1>2, <1>3 DEF Fresh, SafeToEnable, InCall
<1>8. PendingAsked /\ ClearedDown /\ OncePending
  BY <1>1, <1>3 DEF PendingAsked, ClearedDown, OncePending, Pending
<1>9. Handshake /\ InTime
  BY <1>1, <1>2, <1>3 DEF Handshake, InTime
<1> QED BY <1>4, <1>5, <1>6, <1>7, <1>8, <1>9 DEF IInv

(* Every clock edge preserves it.                                          *)
LEMMA StepIInv == IInv /\ [SyncNext]_syncVars => IInv'
<1> SUFFICES ASSUME IInv, [SyncNext]_syncVars PROVE IInv'
  OBVIOUS
<1>1. CASE SyncNext
  BY <1>1, AsksKeep, StoreArgKeeps, StoreCmdKeeps, WaitKeeps, LeaveKeeps, TrapKeeps, ReturnKeeps
     DEF SyncNext, Move
<1>2. CASE UNCHANGED syncVars
  <2>1. /\ UNCHANGED <<stack, mie, ran, calls, late>>
        /\ UNCHANGED <<last_arg, req_q, server, ack, sv2c_data, timers, pins>>
    BY <1>2 DEF syncVars, core, tb
  <2>2. SyncTypeOK' /\ FramesOK' /\ OthersAwait' /\ Chain'
    BY <2>1 DEF IInv, SyncTypeOK, FramesOK, OthersAwait, Chain, Depth
  <2>3. Fresh' /\ SafeToEnable' /\ PendingAsked' /\ ClearedDown' /\ OncePending'
    BY <2>1 DEF IInv, Fresh, SafeToEnable, PendingAsked, ClearedDown, OncePending,
       Pending, Top, Depth
  <2>4. Handshake' /\ InTime'
    BY <2>1 DEF IInv, Handshake, InTime, Replied, Top, Depth
  <2> QED BY <2>2, <2>3, <2>4 DEF IInv
<1> QED BY <1>1, <1>2

(* The inductive invariant holds in every reachable state.                 *)
LEMMA IInvAlways == SyncSpec => []IInv
BY InitIInv, StepIInv, PTL DEF SyncSpec
-----------------------------------------------------------------------------
(* Core and testbench keep their types.                                    *)
THEOREM TypeCorrect == SyncSpec => []SyncTypeOK
<1>1. IInv => SyncTypeOK BY DEF IInv
<1> QED BY <1>1, IInvAlways, PTL

(* The minimum delay of sv_irq_raise does what irq_csv.h says it is for:   *)
(* no interrupt is taken inside an sv_sync, whatever the lines, the delays *)
(* and the nesting of handlers, as long as the core leaves its loop in     *)
(* less than that delay.                                                   *)
THEOREM ApartCorrect == SyncSpec => []HandshakesApart
<1>1. IInv => HandshakesApart
  BY DEF IInv, OthersAwait, HandshakesApart, InCall
<1> QED BY <1>1, IInvAlways, PTL

(* An sv_sync returns the result of its own command with its own argument. *)
THEOREM AnswerCorrect == SyncSpec => []OwnAnswer
<1>1. IInv => OwnAnswer
  BY DEF IInv, Handshake, OwnAnswer
<1> QED BY <1>1, IInvAlways, PTL
=============================================================================
