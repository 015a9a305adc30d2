----------------------------- MODULE CpRingProofs ----------------------------
(***************************************************************************)
(* Proofs about CpRing, for every number of threads, ring slots, posts and *)
(* failed accesses.  The invariants come in layers: what each thread is    *)
(* doing, the pool of argument slots and the Command Processor's FSMs need *)
(* no hypothesis; the ring, the response register and what a launch sets   *)
(* up need room in the ring for every submitter and every failure.         *)
(***************************************************************************)
EXTENDS CpRing, FiniteSetTheorems, TLAPS

(* What is left of an operation's script while it runs.                    *)
LaunchRest == {<<"args", "dcr_arg", "dcr_dim", "launch", "flush", "mem">>,
               <<"dcr_arg", "dcr_dim", "launch", "flush", "mem">>,
               <<"dcr_dim", "launch", "flush", "mem">>,
               <<"launch", "flush", "mem">>, <<"flush", "mem">>, <<"mem">>}
Rest == LaunchRest \cup {<<"dcr_rd">>}

Busy(t) == pc[t] \in {"post", "poll"}

(* Threads: every operation begun has posted a line unless it is about to. *)
ThreadInv(t) ==
  /\ IF Busy(t) THEN script[t] \in Rest ELSE script[t] = <<>>
  /\ job[t] \in 0..MaxPosts /\ (pc[t] # "idle" => job[t] >= 1)
  /\ job[t] <= cp_tail + (IF pc[t] = "post" THEN 1 ELSE 0)
  /\ target[t] \in 0..cp_tail /\ (pc[t] = "poll" => target[t] >= 1)

HostInv ==
  /\ pc \in [Threads -> {"idle", "post", "poll", "rsp"}]
  /\ script \in [Threads -> Seq(Opcodes)]
  /\ job \in [Threads -> Nat] /\ target \in [Threads -> Nat]
  /\ cp_tail \in 0..MaxPosts /\ cp_expected = cp_tail
  /\ q_tail \in 0..cp_tail
  /\ faults \in 0..MaxFaults
  /\ \A t \in Threads : ThreadInv(t)

(* The pool of argument slots: every slot ever allocated is held by one    *)
(* launch in progress or is on the free list, once.                        *)
PoolInv ==
  /\ slot \in [Threads -> Nat] /\ free \in Seq(Nat)
  /\ nslots \in 0..Cardinality(Launchers)
  /\ \A t \in Threads : slot[t] # 0 => t \in Launchers /\ Busy(t) /\ slot[t] \in 1..nslots
  /\ \A t, u \in Threads : t # u /\ slot[t] # 0 => slot[t] # slot[u]
  /\ \A i \in 1..Len(free) : free[i] \in 1..nslots
  /\ \A i, j \in 1..Len(free) : i # j => free[i] # free[j]
  /\ \A t \in Threads, i \in 1..Len(free) : free[i] # slot[t]
  /\ \A s \in 1..nslots : \/ \E t \in Launchers : slot[t] = s
                          \/ \E i \in 1..Len(free) : free[i] = s

(* The Command Processor: its position and its FSMs.                       *)
EngInv ==
  /\ head \in 0..q_tail /\ seqnum \in Nat /\ used \in BOOLEAN
  /\ eng \in {"idle", "decode", "bid", "wait", "retire"}
  /\ launch \in {"idle", "busy", "drain"} /\ gpu \in {"idle", "run"}
  /\ cl \in CLs \cup {NoCL}
  /\ cl = NoCL => eng = "idle" /\ seqnum = head
  /\ cl # NoCL => /\ head < q_tail
                  /\ seqnum = IF used THEN head + 1 ELSE head
                  /\ used <=> eng = "idle"
  /\ done \in Seq(1..MaxPosts)
  /\ Len(done) = seqnum + (IF eng \in {"wait", "retire"} THEN 1 ELSE 0)
  /\ launch # "idle" => eng = "wait"
  /\ gpu = "run" => launch # "idle"
  /\ eng = "wait" => cl.op = "launch"

(* Memory the commands touch, and the ring, by type: a posted line stays a *)
(* line.                                                                   *)
MemInv ==
  /\ ring \in [0..(RingSlots - 1) -> CLs \cup {NoCL}]
  /\ \A i \in 0..(cp_tail - 1) : ring[i % RingSlots] # NoCL
  /\ last_rsp \in CLs \cup {NoCL} /\ dcr \in [KmuRegs -> Ids \cup {NoCL}]
  /\ args \in [Slots -> Ids \cup {NoCL}]

AbandonedInv == abandoned \subseteq 1..cp_tail

CtlInv == HostInv /\ PoolInv /\ EngInv /\ MemInv /\ AbandonedInv
-----------------------------------------------------------------------------
(* The line of sequence number s, while it is not retired.                 *)
LineAt(s) == ring[(s - 1) % RingSlots]
Unretired == (seqnum + 1)..cp_tail
Unexecuted == (Len(done) + 1)..cp_tail

Held(c) == LET t == c.id.t
           IN  /\ pc[t] = "poll" /\ target[t] = c.seq /\ job[t] = c.id.k
               /\ c.op = Head(script[t]) /\ c.slot = slot[t]

(* The ring: lines that have not retired are as they were posted, and      *)
(* their submitters poll for them or have failed.                          *)
RingInv ==
  /\ \A s \in Unretired : LineAt(s).seq = s
  /\ \A s \in Unretired \ abandoned : Held(LineAt(s))
  /\ \A t, u \in Threads : t # u /\ pc[t] = "poll" /\ pc[u] = "poll" => target[t] # target[u]
  /\ \A t \in Threads : pc[t] = "poll" => target[t] \notin abandoned
  /\ IsFiniteSet(abandoned) /\ Cardinality(abandoned) <= faults
  /\ Executing => cl = LineAt(seqnum + 1)
  /\ RingIntact

(* The response register answers t's read, or one executed after it.       *)
Answered(t) ==
  /\ last_rsp \in CLs /\ last_rsp.op = "dcr_rd" /\ last_rsp.seq >= target[t]
  /\ last_rsp.seq = target[t] => last_rsp.id = Id(t)

ReaderInv(t) ==
  /\ pc[t] = "rsp" => Answered(t) /\ target[t] <= Len(done)
  /\ pc[t] = "poll" /\ Head(script[t]) = "dcr_rd" /\ target[t] <= Len(done) => Answered(t)

RspInv == \A t \in Threads : ReaderInv(t)

(* What a launch sets up, by the command that does it: its arguments and   *)
(* the two parts of the descriptor.  Launch i with argument slot k finds   *)
(* op set up; the line of number s would change that.                      *)
SetUpOps == {"args", "dcr_arg", "dcr_dim"}
Ready(op, i, k) == IF op = "args" THEN args[k] = i
                   ELSE dcr[op] \in Ids /\ (dcr[op].t = i.t => dcr[op] = i)
Touches(s, op, i, k) ==
  LineAt(s).op = op /\ IF op = "args" THEN LineAt(s).slot = k ELSE LineAt(s).id.t = i.t

(* A launch on its way: the step it is at, and what it has set up before.  *)
Steps == SetUpOps \cup {"launch"}
Before(h) == CASE h = "args" -> {} [] h = "dcr_arg" -> {"args"}
               [] h = "dcr_dim" -> {"args", "dcr_arg"} [] OTHER -> SetUpOps
Launching(t) == Busy(t) /\ Head(script[t]) \in Steps

(* Nothing that is still to execute touches what it has set up.            *)
SetUp(t, op) == /\ Ready(op, Id(t), slot[t])
                /\ \A s \in Unexecuted : ~Touches(s, op, Id(t), slot[t])
LauncherInv(t) ==
  Launching(t) =>
    /\ slot[t] # 0
    /\ \A op \in Before(Head(script[t])) : SetUp(t, op)
    /\ pc[t] = "poll" /\ Head(script[t]) \in SetUpOps =>
         /\ \A s \in Unexecuted : s > target[t] => ~Touches(s, Head(script[t]), Id(t), slot[t])
         /\ target[t] <= Len(done) => Ready(Head(script[t]), Id(t), slot[t])

(* A launch that is still to execute finds its own set-up, whether its     *)
(* submitter waits for it or has failed.                                   *)
LaunchReady(s) ==
  LineAt(s).op = "launch" =>
    \A op \in SetUpOps :
      /\ Ready(op, LineAt(s).id, LineAt(s).slot)
      /\ \A r \in Unexecuted : r < s => ~Touches(r, op, LineAt(s).id, LineAt(s).slot)

KernelInv ==
  /\ \A t \in Threads : LauncherInv(t)
  /\ \A s \in Unexecuted : LaunchReady(s)
  /\ gpu = "run" => \A op \in SetUpOps : Ready(op, cl.id, cl.slot)
-----------------------------------------------------------------------------
(* Scripts.                                                                *)

(* What a script that is being worked off looks like.                      *)
LEMMA RestFacts ==
  ASSUME NEW q \in Rest
  PROVE  /\ q \in Seq(Opcodes) /\ q # <<>> /\ Len(q) \in Nat /\ Len(q) >= 1
         /\ Head(q) \in Opcodes /\ Tail(q) \in Seq(Opcodes)
         /\ Len(q) = 1 \/ Len(q) > 1
         /\ Len(q) = 1 => Tail(q) = <<>>
         /\ Head(q) = "dcr_rd" => Len(q) = 1
         /\ Len(q) > 1 => /\ Tail(q) \in Rest /\ Head(q) # "dcr_rd"
                          /\ Head(Tail(q)) \notin {"dcr_rd", "args"}
                          /\ Head(Tail(q)) = "dcr_arg" => Head(q) = "args"
                          /\ Head(Tail(q)) = "dcr_dim" => Head(q) = "dcr_arg"
                          /\ Head(Tail(q)) = "launch" => Head(q) = "dcr_dim"
<1>1. CASE q = <<"args", "dcr_arg", "dcr_dim", "launch", "flush", "mem">>
  BY <1>1 DEF Rest, LaunchRest, Opcodes
<1>2. CASE q = <<"dcr_arg", "dcr_dim", "launch", "flush", "mem">>
  BY <1>2 DEF Rest, LaunchRest, Opcodes
<1>7. CASE q = <<"dcr_dim", "launch", "flush", "mem">>
  BY <1>7 DEF Rest, LaunchRest, Opcodes
<1>3. CASE q = <<"launch", "flush", "mem">>
  BY <1>3 DEF Rest, LaunchRest, Opcodes
<1>4. CASE q = <<"flush", "mem">>
  BY <1>4 DEF Rest, LaunchRest, Opcodes
<1>5. CASE q = <<"mem">>
  BY <1>5 DEF Rest, LaunchRest, Opcodes
<1>6. CASE q = <<"dcr_rd">>
  BY <1>6 DEF Rest, LaunchRest, Opcodes
<1> QED BY <1>1, <1>2, <1>3, <1>4, <1>5, <1>6, <1>7 DEF Rest, LaunchRest

(* What an operation begins with.                                          *)
LEMMA ScriptFacts ==
  ASSUME NEW kind \in DOMAIN Scripts
  PROVE  /\ kind \in {"xfer", "read", "launch"}
         /\ Scripts[kind] \in Rest
         /\ Head(Scripts[kind]) \notin {"dcr_arg", "dcr_dim", "launch"}
         /\ Head(Scripts[kind]) = "dcr_rd" => kind = "read"
         /\ Head(Scripts[kind]) = "args" => kind = "launch"
<1>1. kind \in {"xfer", "read", "launch"}
  BY DEF Scripts
<1>2. CASE kind = "xfer"
  BY <1>2 DEF Scripts, Rest, LaunchRest
<1>3. CASE kind = "read"
  BY <1>3 DEF Scripts, Rest, LaunchRest
<1>4. CASE kind = "launch"
  BY <1>4 DEF Scripts, Rest, LaunchRest
<1> QED BY <1>1, <1>2, <1>3, <1>4
-----------------------------------------------------------------------------
(* Threads.                                                                *)

(* A thread that does not move keeps its invariant while the ring grows.   *)
LEMMA ThreadFrame ==
  ASSUME NEW t \in Threads, ThreadInv(t), cp_tail \in Nat, cp_tail' \in Nat, cp_tail <= cp_tail',
         pc'[t] = pc[t], script'[t] = script[t], job'[t] = job[t], target'[t] = target[t],
         job[t] \in Nat, target[t] \in Nat
  PROVE  ThreadInv(t)'
<1>1. job'[t] <= cp_tail' + (IF pc'[t] = "post" THEN 1 ELSE 0)
  <2>1. job[t] <= cp_tail + (IF pc[t] = "post" THEN 1 ELSE 0)
    BY DEF ThreadInv
  <2> QED BY <2>1
<1>2. target'[t] \in 0..cp_tail' /\ (pc'[t] = "poll" => target'[t] >= 1)
  <2>1. target[t] \in 0..cp_tail /\ (pc[t] = "poll" => target[t] >= 1)
    BY DEF ThreadInv
  <2> QED BY <2>1
<1> QED BY <1>1, <1>2 DEF ThreadInv, Busy

(* The actions of other parties.                                           *)
DeviceStep == (Tick \/ KernelEnds \/ UNCHANGED vars)

(* They leave the threads alone.                                           *)
LEMMA DeviceFrame == DeviceStep => UNCHANGED <<host, ringv>>
BY DEF DeviceStep, Tick, KernelEnds, TickFetch, TickDrop, TickDecode, TickBid,
       TickLaunch, TickDone, TickRetire, vars

(* One step, by whom it is made.                                           *)
LEMMA WhoMoves ==
  ASSUME [Next]_vars
  PROVE  \/ DeviceStep
         \/ \E u \in Threads : \/ \E kind \in DOMAIN Scripts : Begin(u, kind)
                               \/ Post(u) \/ DoorbellFails(u) \/ PollFails(u)
                               \/ Poll(u) \/ ReadRsp(u) \/ RspFails(u)
BY DEF Next, Submit, DeviceStep

(* Threads start idle.                                                     *)
LEMMA HostInit == Init => HostInv
<1> SUFFICES ASSUME Init PROVE HostInv
  OBVIOUS
<1>1. MaxPosts \in Nat /\ MaxFaults \in Nat
  BY CpAssumption
<1>2. script \in [Threads -> Seq(Opcodes)]
  BY DEF Init
<1>3. ASSUME NEW t \in Threads PROVE ThreadInv(t)
  BY <1>1 DEF Init, ThreadInv, Busy
<1> QED BY <1>1, <1>2, <1>3 DEF Init, HostInv

(* Every step preserves the invariant of the threads.                      *)
LEMMA HostStep == HostInv /\ [Next]_vars => HostInv'
<1> SUFFICES ASSUME HostInv, [Next]_vars PROVE HostInv'
  OBVIOUS
<1>0. /\ MaxPosts \in Nat /\ MaxFaults \in Nat
      /\ pc \in [Threads -> {"idle", "post", "poll", "rsp"}]
      /\ script \in [Threads -> Seq(Opcodes)]
      /\ job \in [Threads -> Nat] /\ target \in [Threads -> Nat]
      /\ cp_tail \in 0..MaxPosts /\ cp_expected = cp_tail /\ q_tail \in 0..cp_tail
      /\ faults \in 0..MaxFaults /\ cp_tail \in Nat
      /\ \A t \in Threads : ThreadInv(t)
  BY CpAssumption DEF HostInv
<1> USE DEF host, ringv, pool
<1>1. CASE DeviceStep
  <2>1. UNCHANGED <<pc, script, job, target, cp_tail, cp_expected, q_tail, faults>>
    BY <1>1, DeviceFrame
  <2>2. ASSUME NEW t \in Threads PROVE ThreadInv(t)'
    BY <1>0, <2>1, ThreadFrame
  <2> QED BY <1>0, <2>1, <2>2 DEF HostInv
<1>2. ASSUME NEW u \in Threads, NEW kind \in DOMAIN Scripts, Begin(u, kind)
      PROVE  HostInv'
  <2>0. UNCHANGED <<target, cp_tail, cp_expected, q_tail, faults>>
    BY <1>2 DEF Begin
  <2>1. /\ pc[u] = "idle" /\ cp_tail < MaxPosts
        /\ pc' = [pc EXCEPT ![u] = "post"]
        /\ script' = [script EXCEPT ![u] = Scripts[kind]]
        /\ job' = [job EXCEPT ![u] = @ + 1]
        /\ kind = "launch" => u \in Launchers
        /\ kind = "read" => u \in Readers
    BY <1>2 DEF Begin
  <2>2. ASSUME NEW t \in Threads PROVE ThreadInv(t)'
    <3>1. CASE t # u
      BY <1>0, <2>0, <2>1, <3>1, ThreadFrame
    <3>2. CASE t = u
      <4>1. pc'[u] = "post" /\ script'[u] = Scripts[kind] /\ job'[u] = job[u] + 1
        BY <1>0, <2>1
      <4>2. job[u] <= cp_tail /\ job[u] \in Nat /\ target[u] \in 0..cp_tail
        BY <1>0, <2>1 DEF ThreadInv
      <4>3. job'[u] \in 0..MaxPosts /\ job'[u] >= 1 /\ job'[u] <= cp_tail + 1
        BY <1>0, <2>1, <4>1, <4>2
      <4> QED BY <1>0, <2>0, <2>1, <3>2, <4>1, <4>2, <4>3, ScriptFacts DEF ThreadInv, Busy
    <3> QED BY <3>1, <3>2
  <2>3. script' \in [Threads -> Seq(Opcodes)]
    <3>1. Scripts[kind] \in Seq(Opcodes)
      BY ScriptFacts, RestFacts
    <3> QED BY <1>0, <2>1, <3>1
  <2> QED BY <1>0, <2>0, <2>1, <2>2, <2>3 DEF HostInv
<1>3. ASSUME NEW u \in Threads, pc[u] = "post", WriteCL(u)
      PROVE  /\ cp_tail' = cp_tail + 1 /\ cp_expected' = cp_tail' /\ cp_tail' \in 0..MaxPosts
             /\ cp_tail' \in Nat
             /\ target' \in [Threads -> Nat] /\ target'[u] = cp_tail'
             /\ \A t \in Threads \ {u} : target'[t] = target[t]
  BY <1>0, <1>3 DEF WriteCL
<1>4. ASSUME NEW u \in Threads, Post(u)
      PROVE  HostInv'
  <2>0. /\ pc[u] = "post" /\ WriteCL(u) /\ q_tail' = cp_tail + 1
        /\ pc' = [pc EXCEPT ![u] = "poll"] /\ UNCHANGED <<script, job, faults>>
    BY <1>4 DEF Post
  <2>1. /\ cp_tail' = cp_tail + 1 /\ cp_expected' = cp_tail' /\ cp_tail' \in 0..MaxPosts
        /\ cp_tail' \in Nat
        /\ target' \in [Threads -> Nat] /\ target'[u] = cp_tail'
        /\ \A t \in Threads \ {u} : target'[t] = target[t]
    BY <1>3, <2>0
  <2>2. ASSUME NEW t \in Threads PROVE ThreadInv(t)'
    <3>1. CASE t # u
      BY <1>0, <2>0, <2>1, <3>1, ThreadFrame
    <3>2. CASE t = u
      <4>1. pc'[u] = "poll" /\ script'[u] = script[u] /\ job'[u] = job[u]
        BY <1>0, <2>0
      <4>2. job[u] <= cp_tail + 1 /\ job[u] \in 0..MaxPosts /\ job[u] >= 1
        BY <1>0, <2>0 DEF ThreadInv
      <4>3. target'[u] \in 0..cp_tail' /\ target'[u] >= 1 /\ job'[u] <= cp_tail'
        BY <1>0, <2>1, <4>1, <4>2
      <4>4. ThreadInv(u)
        BY <1>0
      <4> QED BY <1>0, <2>0, <2>1, <3>2, <4>1, <4>2, <4>3, <4>4 DEF ThreadInv, Busy
    <3> QED BY <3>1, <3>2
  <2>3. q_tail' \in 0..cp_tail'
    BY <1>0, <2>0, <2>1
  <2> QED BY <1>0, <2>0, <2>1, <2>2, <2>3 DEF HostInv
<1>5. ASSUME NEW u \in Threads, DoorbellFails(u) \/ PollFails(u)
      PROVE  HostInv'
  <2>0. /\ pc' = [pc EXCEPT ![u] = "idle"] /\ script' = [script EXCEPT ![u] = <<>>]
        /\ faults < MaxFaults /\ faults' = faults + 1
        /\ UNCHANGED <<job, q_tail>> /\ Busy(u)
    BY <1>5 DEF DoorbellFails, PollFails, GiveUp, Busy
  <2>1. /\ cp_tail' \in {cp_tail, cp_tail + 1} /\ cp_tail' \in 0..MaxPosts /\ cp_tail' \in Nat
        /\ cp_expected' = cp_tail' /\ target' \in [Threads -> Nat] /\ target'[u] \in 0..cp_tail'
        /\ pc[u] = "post" => cp_tail' = cp_tail + 1
        /\ \A t \in Threads \ {u} : target'[t] = target[t]
    <3>1. CASE DoorbellFails(u)
      <4>1. pc[u] = "post" /\ WriteCL(u)
        BY <3>1 DEF DoorbellFails
      <4> QED BY <1>3, <4>1
    <3>2. CASE PollFails(u)
      <4>1. pc[u] = "poll" /\ UNCHANGED <<cp_tail, cp_expected, target>>
        BY <3>2 DEF PollFails
      <4>2. target[u] \in 0..cp_tail
        BY <1>0 DEF ThreadInv
      <4> QED BY <1>0, <4>1, <4>2
    <3> QED BY <1>5, <3>1, <3>2
  <2>2. ASSUME NEW t \in Threads PROVE ThreadInv(t)'
    <3>1. CASE t # u
      BY <1>0, <2>0, <2>1, <3>1, ThreadFrame
    <3>2. CASE t = u
      <4>1. pc'[u] = "idle" /\ script'[u] = <<>> /\ job'[u] = job[u]
        BY <1>0, <2>0
      <4>2. job[u] <= cp_tail' /\ job[u] \in 0..MaxPosts
        <5>1. job[u] <= cp_tail + (IF pc[u] = "post" THEN 1 ELSE 0) /\ job[u] \in 0..MaxPosts
          BY <1>0 DEF ThreadInv
        <5> QED BY <1>0, <2>1, <5>1
      <4> QED BY <2>1, <3>2, <4>1, <4>2 DEF ThreadInv, Busy
    <3> QED BY <3>1, <3>2
  <2>3. q_tail' \in 0..cp_tail' /\ faults' \in 0..MaxFaults
    BY <1>0, <2>0, <2>1
  <2>4. pc' \in [Threads -> {"idle", "post", "poll", "rsp"}] /\ script' \in [Threads -> Seq(Opcodes)]
    BY <1>0, <2>0
  <2> QED BY <1>0, <2>0, <2>1, <2>2, <2>3, <2>4 DEF HostInv
<1>6. ASSUME NEW u \in Threads, Poll(u)
      PROVE  HostInv'
  <2> DEFINE q == script[u]
  <2>0. /\ pc[u] = "poll" /\ script' = [script EXCEPT ![u] = Tail(@)]
        /\ pc' = [pc EXCEPT ![u] = IF Head(q) = "dcr_rd" THEN "rsp"
                                   ELSE IF Len(q) > 1 THEN "post" ELSE "idle"]
        /\ UNCHANGED <<job, target, cp_tail, cp_expected, q_tail, faults>>
    BY <1>6 DEF Poll
  <2>1. ThreadInv(u) /\ q \in Rest
    BY <1>0, <2>0 DEF ThreadInv, Busy
  <2> HIDE DEF q
  <2>2. ASSUME NEW t \in Threads PROVE ThreadInv(t)'
    <3>1. CASE t # u
      BY <1>0, <2>0, <3>1, ThreadFrame
    <3>2. CASE t = u
      <4>1. /\ pc'[u] = IF Head(q) = "dcr_rd" THEN "rsp"
                        ELSE IF Len(q) > 1 THEN "post" ELSE "idle"
            /\ script'[u] = Tail(q) /\ job'[u] = job[u] /\ target'[u] = target[u]
        BY <1>0, <2>0 DEF q
      <4>2. /\ job[u] \in 0..MaxPosts /\ job[u] >= 1 /\ job[u] <= cp_tail
            /\ target[u] \in 0..cp_tail
        <5>1. job[u] <= cp_tail + 0
          BY <2>0, <2>1 DEF ThreadInv
        <5>2. job[u] <= cp_tail
          BY <1>0, <5>1
        <5> QED BY <2>0, <2>1, <5>2 DEF ThreadInv, Busy, q
      <4>3. job[u] <= cp_tail + 1
        BY <1>0, <4>2
      <4>4. CASE Head(q) = "dcr_rd"
        <5>1. Len(q) = 1 /\ Tail(q) = <<>>
          BY <2>1, <4>4, RestFacts
        <5> QED BY <1>0, <2>0, <3>2, <4>1, <4>2, <4>3, <4>4, <5>1 DEF ThreadInv, Busy
      <4>5. CASE Head(q) # "dcr_rd" /\ Len(q) > 1
        <5>1. Tail(q) \in Rest
          BY <2>1, <4>5, RestFacts
        <5> QED BY <1>0, <2>0, <3>2, <4>1, <4>2, <4>3, <4>5, <5>1 DEF ThreadInv, Busy
      <4>6. CASE Head(q) # "dcr_rd" /\ ~(Len(q) > 1)
        <5>1. Tail(q) = <<>>
          BY <2>1, <4>6, RestFacts
        <5> QED BY <1>0, <2>0, <3>2, <4>1, <4>2, <4>3, <4>6, <5>1 DEF ThreadInv, Busy
      <4> QED BY <4>4, <4>5, <4>6
    <3> QED BY <3>1, <3>2
  <2>3. script' \in [Threads -> Seq(Opcodes)]
    <3>1. Tail(q) \in Seq(Opcodes)
      BY <2>1, RestFacts
    <3> QED BY <1>0, <2>0, <3>1 DEF q
  <2>4. pc' \in [Threads -> {"idle", "post", "poll", "rsp"}]
    BY <1>0, <2>0
  <2> QED BY <1>0, <2>0, <2>2, <2>3, <2>4 DEF HostInv
<1>7. ASSUME NEW u \in Threads, ReadRsp(u) \/ RspFails(u)
      PROVE  HostInv'
  <2>0. /\ pc[u] = "rsp" /\ pc' = [pc EXCEPT ![u] = "idle"]
        /\ UNCHANGED <<script, job, target, cp_tail, cp_expected, q_tail>>
        /\ faults' = faults \/ (faults < MaxFaults /\ faults' = faults + 1)
    BY <1>7 DEF ReadRsp, RspFails
  <2>1. faults' \in 0..MaxFaults
    BY <1>0, <2>0
  <2>2. ASSUME NEW t \in Threads PROVE ThreadInv(t)'
    <3>1. CASE t # u
      BY <1>0, <2>0, <3>1, ThreadFrame
    <3>2. CASE t = u
      <4>1. pc'[u] = "idle" /\ ThreadInv(u)
        BY <1>0, <2>0
      <4> QED BY <1>0, <2>0, <3>2, <4>1 DEF ThreadInv, Busy
    <3> QED BY <3>1, <3>2
  <2> QED BY <1>0, <2>0, <2>1, <2>2 DEF HostInv
<1> QED BY <1>1, <1>2, <1>4, <1>5, <1>6, <1>7, WhoMoves
-----------------------------------------------------------------------------
(* The pool of argument slots.                                             *)

(* There is nothing in it at first.                                        *)
LEMMA PoolInit == Init => PoolInv
<1> SUFFICES ASSUME Init PROVE PoolInv
  OBVIOUS
<1>1. IsFiniteSet(Launchers)
  BY CpAssumption, FS_Subset
<1>2. Cardinality(Launchers) \in Nat
  BY <1>1, FS_CardinalityType
<1>3. free = <<>> /\ free \in Seq(Nat) /\ Len(free) = 0
  BY DEF Init
<1> QED BY <1>2, <1>3 DEF Init, PoolInv

(* When every slot is held, and not by t, there are fewer than launchers.  *)
LEMMA RoomForSlot ==
  ASSUME PoolInv, NEW t \in Launchers, slot[t] = 0, free = <<>>
  PROVE  nslots + 1 \in 0..Cardinality(Launchers)
<1> DEFINE L == Launchers \ {t}
           f == [s \in 1..nslots |-> CHOOSE u \in L : slot[u] = s]
<1>0. IsFiniteSet(Launchers)
  BY CpAssumption, FS_Subset
<1>1. IsFiniteSet(L) /\ Cardinality(L) = Cardinality(Launchers) - 1
  BY <1>0, FS_RemoveElement
<1>2. nslots \in Nat
  BY <1>0, FS_CardinalityType DEF PoolInv
<1>3. ASSUME NEW s \in 1..nslots PROVE \E u \in L : slot[u] = s
  <2>1. Len(free) = 0
    OBVIOUS
  <2>2. \E u \in Launchers : slot[u] = s
    BY <2>1 DEF PoolInv
  <2>3. s # 0
    BY <1>2
  <2> QED BY <2>2, <2>3
<1>4. \A s \in 1..nslots : f[s] \in L /\ slot[f[s]] = s
  BY <1>3
<1>5. f \in Injection(1..nslots, L)
  <2>1. f \in [1..nslots -> L]
    BY <1>4
  <2> HIDE DEF f
  <2>2. \A a, b \in 1..nslots : f[a] = f[b] => a = b
    BY <1>4
  <2> QED BY <2>1, <2>2 DEF Injection, IsInjective
<1> HIDE DEF f, L
<1>6. Cardinality(1..nslots) <= Cardinality(L)
  BY <1>1, <1>5, FS_Injection
<1>7. Cardinality(1..nslots) = nslots
  BY <1>2, FS_Interval
<1>8. Cardinality(Launchers) \in Nat
  BY <1>0, FS_CardinalityType
<1> QED BY <1>1, <1>2, <1>6, <1>7, <1>8

(* A list without its last element.                                        *)
LEMMA FrontFacts ==
  ASSUME NEW q \in Seq(Nat), Len(q) >= 1
  PROVE  LET r == SubSeq(q, 1, Len(q) - 1)
         IN  /\ r \in Seq(Nat) /\ Len(r) = Len(q) - 1
             /\ \A i \in 1..(Len(q) - 1) : r[i] = q[i]
<1>1. Len(q) \in Nat /\ Len(q) - 1 \in Nat
  OBVIOUS
<1>2. SubSeq(q, 1, Len(q) - 1) = [i \in 1..(Len(q) - 1) |-> q[i]]
  BY <1>1
<1>3. \A i \in 1..(Len(q) - 1) : q[i] \in Nat
  BY <1>1
<1> DEFINE k == Len(q) - 1
           r == [i \in 1..k |-> q[i]]
<1>4. r \in [1..k -> Nat] /\ \A i \in 1..k : r[i] = q[i]
  BY <1>3
<1>5. k \in Nat
  BY <1>1
<1> HIDE DEF r, k
<1>6. r \in Seq(Nat) /\ Len(r) = k
  BY <1>4, <1>5
<1> QED BY <1>2, <1>4, <1>6 DEF r, k

(* A launch takes a slot.                                                  *)
LEMMA AcquireInv ==
  ASSUME PoolInv, NEW u \in Launchers, slot[u] = 0, Acquire(u),
         pc'[u] = "post", \A t \in Threads \ {u} : pc'[t] = pc[t]
  PROVE  PoolInv'
<1>0. /\ slot \in [Threads -> Nat] /\ free \in Seq(Nat) /\ u \in Threads
      /\ nslots \in 0..Cardinality(Launchers) /\ nslots \in Nat
      /\ Cardinality(Launchers) \in Nat
      /\ \A t \in Threads : slot[t] # 0 => t \in Launchers /\ Busy(t) /\ slot[t] \in 1..nslots
      /\ \A t, w \in Threads : t # w /\ slot[t] # 0 => slot[t] # slot[w]
      /\ \A i \in 1..Len(free) : free[i] \in 1..nslots
      /\ \A i, j \in 1..Len(free) : i # j => free[i] # free[j]
      /\ \A t \in Threads, i \in 1..Len(free) : free[i] # slot[t]
      /\ \A s \in 1..nslots : \/ \E t \in Launchers : slot[t] = s
                              \/ \E i \in 1..Len(free) : free[i] = s
  <2>1. IsFiniteSet(Launchers) /\ u \in Threads
    BY CpAssumption, FS_Subset
  <2>2. Cardinality(Launchers) \in Nat
    BY <2>1, FS_CardinalityType
  <2> QED BY <2>1, <2>2 DEF PoolInv
<1>1. CASE free # <<>>
  <2> DEFINE n == Len(free)
             f == free[n]
  <2>1. /\ slot' = [slot EXCEPT ![u] = f] /\ free' = SubSeq(free, 1, n - 1)
        /\ nslots' = nslots
    BY <1>1 DEF Acquire
  <2>2. n \in Nat /\ n >= 1 /\ f \in 1..nslots /\ f \in Nat /\ f # 0
    <3>1. n \in Nat /\ n >= 1
      BY <1>0, <1>1
    <3>2. f \in 1..nslots
      BY <1>0, <3>1
    <3> QED BY <1>0, <3>1, <3>2
  <2>3. /\ free' \in Seq(Nat) /\ Len(free') = n - 1
        /\ \A i \in 1..(n - 1) : free'[i] = free[i]
    BY <1>0, <2>1, <2>2, FrontFacts
  <2>4. \A i \in 1..(n - 1) : i \in 1..n /\ free[i] # f
    BY <1>0, <2>2
  <2> HIDE DEF f
  <2>5. slot' \in [Threads -> Nat] /\ slot'[u] = f /\ \A t \in Threads \ {u} : slot'[t] = slot[t]
    BY <1>0, <2>1, <2>2
  <2>6. \A t \in Threads : slot[t] # f
    BY <1>0, <2>2 DEF f
  <2>7. \A t \in Threads : slot'[t] # 0 => t \in Launchers /\ Busy(t)' /\ slot'[t] \in 1..nslots'
    BY <1>0, <2>1, <2>2, <2>5 DEF Busy
  <2>8. \A t, w \in Threads : t # w /\ slot'[t] # 0 => slot'[t] # slot'[w]
    BY <1>0, <2>5, <2>6
  <2>9. /\ \A i \in 1..Len(free') : free'[i] \in 1..nslots'
        /\ \A i, j \in 1..Len(free') : i # j => free'[i] # free'[j]
    BY <1>0, <2>1, <2>3, <2>4
  <2>10. \A t \in Threads, i \in 1..Len(free') : free'[i] # slot'[t]
    <3> SUFFICES ASSUME NEW t \in Threads, NEW i \in 1..(n - 1) PROVE free'[i] # slot'[t]
      BY <2>3
    <3>1. free'[i] = free[i] /\ i \in 1..n /\ free[i] # f
      BY <2>3, <2>4
    <3>2. CASE t = u
      BY <2>5, <3>1, <3>2
    <3>3. CASE t # u
      BY <1>0, <2>5, <3>1, <3>3
    <3> QED BY <3>2, <3>3
  <2>11. ASSUME NEW s \in 1..nslots'
         PROVE  (\E t \in Launchers : slot'[t] = s) \/ (\E i \in 1..Len(free') : free'[i] = s)
    <3>1. CASE s = f
      BY <2>5, <3>1
    <3>2. CASE \E t \in Launchers : slot[t] = s
      <4>1. PICK t \in Launchers : slot[t] = s
        BY <3>2
      <4>2. t # u /\ t \in Threads
        BY <1>0, <2>1, <4>1, CpAssumption
      <4> QED BY <2>5, <4>1, <4>2
    <3>3. CASE s # f /\ \E i \in 1..n : free[i] = s
      <4>1. PICK i \in 1..n : free[i] = s
        BY <3>3
      <4>2. i # n
        BY <3>3, <4>1 DEF f
      <4>3. i \in 1..(n - 1)
        BY <2>2, <4>2
      <4> QED BY <2>3, <4>1, <4>3
    <3> QED BY <1>0, <2>1, <3>1, <3>2, <3>3
  <2> QED BY <1>0, <2>1, <2>3, <2>5, <2>7, <2>8, <2>9, <2>10, <2>11 DEF PoolInv
<1>2. CASE free = <<>>
  <2>1. slot' = [slot EXCEPT ![u] = nslots + 1] /\ free' = free /\ nslots' = nslots + 1
    BY <1>2 DEF Acquire
  <2>2. nslots' \in 0..Cardinality(Launchers)
    BY <1>2, <2>1, RoomForSlot
  <2>3. /\ slot' \in [Threads -> Nat] /\ slot'[u] = nslots + 1
        /\ \A t \in Threads \ {u} : slot'[t] = slot[t]
    BY <1>0, <2>1
  <2>4. Len(free') = 0
    BY <1>2, <2>1
  <2>5. \A t \in Threads : slot[t] # nslots + 1
    BY <1>0
  <2>6. \A t \in Threads : slot'[t] # 0 => t \in Launchers /\ Busy(t)' /\ slot'[t] \in 1..nslots'
    BY <1>0, <2>1, <2>3 DEF Busy
  <2>7. \A t, w \in Threads : t # w /\ slot'[t] # 0 => slot'[t] # slot'[w]
    BY <1>0, <2>3, <2>5
  <2>8. ASSUME NEW s \in 1..nslots'
        PROVE  \E t \in Launchers : slot'[t] = s
    <3>1. CASE s = nslots + 1
      BY <2>3, <3>1
    <3>2. CASE s \in 1..nslots
      <4>1. PICK t \in Launchers : slot[t] = s
        BY <1>0, <2>1, <2>4, <3>2
      <4>2. t # u /\ t \in Threads
        BY <1>0, <3>2, <4>1, CpAssumption
      <4> QED BY <2>3, <4>1, <4>2
    <3> QED BY <1>0, <2>1, <3>1, <3>2
  <2> QED BY <1>0, <2>1, <2>2, <2>3, <2>4, <2>6, <2>7, <2>8 DEF PoolInv
<1> QED BY <1>1, <1>2

(* A launch gives its slot back.                                           *)
LEMMA ReleaseInv ==
  ASSUME PoolInv, NEW u \in Threads, Release(u), \A t \in Threads \ {u} : pc'[t] = pc[t]
  PROVE  PoolInv'
<1> DEFINE n == Len(free)
           f == slot[u]
<1>0. /\ slot \in [Threads -> Nat] /\ free \in Seq(Nat) /\ n \in Nat
      /\ \A t \in Threads : slot[t] # 0 => t \in Launchers /\ Busy(t) /\ slot[t] \in 1..nslots
      /\ \A t, w \in Threads : t # w /\ slot[t] # 0 => slot[t] # slot[w]
      /\ \A i \in 1..n : free[i] \in 1..nslots
      /\ \A i, j \in 1..n : i # j => free[i] # free[j]
      /\ \A t \in Threads, i \in 1..n : free[i] # slot[t]
      /\ \A s \in 1..nslots : \/ \E t \in Launchers : slot[t] = s
                              \/ \E i \in 1..n : free[i] = s
      /\ nslots \in 0..Cardinality(Launchers) /\ f \in Nat /\ nslots \in Nat
  <2>1. IsFiniteSet(Launchers)
    BY CpAssumption, FS_Subset
  <2>2. Cardinality(Launchers) \in Nat
    BY <2>1, FS_CardinalityType
  <2> QED BY <2>2 DEF PoolInv
<1>1. slot' = [slot EXCEPT ![u] = 0] /\ nslots' = nslots
      /\ free' = IF f = 0 THEN free ELSE Append(free, f)
  BY DEF Release
<1>2. /\ slot' \in [Threads -> Nat] /\ slot'[u] = 0
      /\ \A t \in Threads \ {u} : slot'[t] = slot[t]
  BY <1>0, <1>1
<1>3. \A t \in Threads : slot'[t] # 0 => t \in Launchers /\ Busy(t)' /\ slot'[t] \in 1..nslots'
  BY <1>0, <1>1, <1>2 DEF Busy
<1>4. \A t, w \in Threads : t # w /\ slot'[t] # 0 => slot'[t] # slot'[w]
  BY <1>0, <1>2
<1> HIDE DEF f
<1>5. CASE f = 0
  <2>1. free' = free
    BY <1>1, <1>5
  <2>2. \A i \in 1..n : free[i] # 0
    BY <1>0
  <2>3. \A t \in Threads, i \in 1..n : free[i] # slot'[t]
    BY <1>0, <1>2, <2>2
  <2>4. ASSUME NEW s \in 1..nslots
        PROVE  (\E t \in Launchers : slot'[t] = s) \/ (\E i \in 1..n : free[i] = s)
    <3>1. CASE \E t \in Launchers : slot[t] = s
      <4>1. PICK t \in Launchers : slot[t] = s
        BY <3>1
      <4>2. t # u /\ t \in Threads
        BY <1>0, <1>5, <4>1, CpAssumption DEF f
      <4> QED BY <1>2, <4>1, <4>2
    <3> QED BY <1>0, <3>1
  <2> QED BY <1>0, <1>1, <1>2, <1>3, <1>4, <2>1, <2>3, <2>4 DEF PoolInv
<1>6. CASE f # 0
  <2>1. f \in 1..nslots /\ u \in Launchers
    BY <1>0, <1>6 DEF f
  <2>2. /\ free' \in Seq(Nat) /\ Len(free') = n + 1 /\ free'[n + 1] = f
        /\ \A i \in 1..n : free'[i] = free[i]
    BY <1>0, <1>1, <1>6
  <2>3. \A i \in 1..n : free[i] # f /\ free[i] # 0
    BY <1>0 DEF f
  <2>4. \A t \in Threads : slot'[t] # f
    BY <1>0, <1>2, <1>6 DEF f
  <2>5. \A i \in 1..Len(free') : i \in 1..n \/ i = n + 1
    BY <1>0, <2>2
  <2>6. \A i \in 1..Len(free') : free'[i] \in 1..nslots'
    BY <1>0, <1>1, <2>1, <2>2, <2>5
  <2>7. \A i, j \in 1..Len(free') : i # j => free'[i] # free'[j]
    <3> SUFFICES ASSUME NEW i \in 1..Len(free'), NEW j \in 1..Len(free'), i # j
                 PROVE  free'[i] # free'[j]
      OBVIOUS
    <3>1. CASE i \in 1..n /\ j \in 1..n
      BY <1>0, <2>2, <3>1
    <3>2. CASE i = n + 1
      BY <2>2, <2>3, <2>5, <3>2
    <3>3. CASE j = n + 1
      BY <2>2, <2>3, <2>5, <3>3
    <3> QED BY <2>5, <3>1, <3>2, <3>3
  <2>8. \A t \in Threads, i \in 1..Len(free') : free'[i] # slot'[t]
    <3> SUFFICES ASSUME NEW t \in Threads, NEW i \in 1..Len(free') PROVE free'[i] # slot'[t]
      OBVIOUS
    <3>1. CASE i = n + 1
      BY <2>2, <2>4, <3>1
    <3>2. CASE i \in 1..n /\ t = u
      BY <1>2, <2>2, <2>3, <3>2
    <3>3. CASE i \in 1..n /\ t # u
      BY <1>0, <1>2, <2>2, <3>3
    <3> QED BY <2>5, <3>1, <3>2, <3>3
  <2>9. ASSUME NEW s \in 1..nslots
        PROVE  (\E t \in Launchers : slot'[t] = s) \/ (\E i \in 1..Len(free') : free'[i] = s)
    <3>1. CASE s = f
      <4>1. n + 1 \in 1..Len(free')
        BY <1>0, <2>2
      <4> QED BY <2>2, <3>1, <4>1
    <3>2. CASE s # f /\ \E t \in Launchers : slot[t] = s
      <4>1. PICK t \in Launchers : slot[t] = s
        BY <3>2
      <4>2. t # u /\ t \in Threads
        BY <3>2, <4>1, CpAssumption DEF f
      <4> QED BY <1>2, <4>1, <4>2
    <3>3. CASE \E i \in 1..n : free[i] = s
      <4>1. PICK i \in 1..n : free[i] = s
        BY <3>3
      <4>2. i \in 1..Len(free')
        BY <1>0, <2>2
      <4> QED BY <2>2, <4>1, <4>2
    <3> QED BY <1>0, <3>1, <3>2, <3>3
  <2> QED BY <1>0, <1>1, <1>2, <1>3, <1>4, <2>2, <2>6, <2>7, <2>8, <2>9 DEF PoolInv
<1> QED BY <1>5, <1>6

(* Nobody takes or gives back a slot, and whoever holds one goes on.       *)
LEMMA PoolFrame ==
  ASSUME PoolInv, UNCHANGED pool, \A t \in Threads : slot[t] # 0 => Busy(t)'
  PROVE  PoolInv'
BY DEF PoolInv, pool

(* Every step preserves the invariant of the pool.                         *)
LEMMA PoolStep == HostInv /\ PoolInv /\ [Next]_vars => PoolInv'
<1> SUFFICES ASSUME HostInv, PoolInv, [Next]_vars PROVE PoolInv'
  OBVIOUS
<1>0. /\ pc \in [Threads -> {"idle", "post", "poll", "rsp"}]
      /\ \A t \in Threads : slot[t] # 0 => t \in Launchers /\ Busy(t)
      /\ \A t \in Threads : ThreadInv(t)
  BY DEF HostInv, PoolInv
<1>1. CASE DeviceStep
  <2>1. UNCHANGED <<pc, pool>>
    BY <1>1, DeviceFrame DEF host
  <2> QED BY <1>0, <2>1, PoolFrame DEF Busy
<1>2. ASSUME NEW u \in Threads, NEW kind \in DOMAIN Scripts, Begin(u, kind)
      PROVE  PoolInv'
  <2>1. /\ pc[u] = "idle" /\ pc' = [pc EXCEPT ![u] = "post"]
        /\ kind = "launch" => u \in Launchers /\ Acquire(u)
        /\ kind # "launch" => UNCHANGED pool
    BY <1>2 DEF Begin
  <2>2. slot[u] = 0 /\ pc'[u] = "post" /\ \A t \in Threads \ {u} : pc'[t] = pc[t]
    BY <1>0, <2>1 DEF Busy
  <2>3. CASE kind = "launch"
    BY <2>1, <2>2, <2>3, AcquireInv
  <2>4. CASE kind # "launch"
    BY <1>0, <2>1, <2>2, <2>4, PoolFrame DEF Busy
  <2> QED BY <2>3, <2>4
<1>3. ASSUME NEW u \in Threads, Post(u) PROVE PoolInv'
  <2>1. pc' = [pc EXCEPT ![u] = "poll"] /\ UNCHANGED pool
    BY <1>3 DEF Post
  <2>2. \A t \in Threads : slot[t] # 0 => Busy(t)'
    BY <1>0, <2>1 DEF Busy
  <2> QED BY <2>1, <2>2, PoolFrame
<1>4. ASSUME NEW u \in Threads, DoorbellFails(u) \/ PollFails(u) PROVE PoolInv'
  <2>1. pc' = [pc EXCEPT ![u] = "idle"] /\ Release(u)
    BY <1>4 DEF DoorbellFails, PollFails, GiveUp
  <2>2. \A t \in Threads \ {u} : pc'[t] = pc[t]
    BY <1>0, <2>1
  <2> QED BY <2>1, <2>2, ReleaseInv
<1>5. ASSUME NEW u \in Threads, Poll(u) PROVE PoolInv'
  <2> DEFINE q == script[u]
  <2>1. /\ pc[u] = "poll"
        /\ pc' = [pc EXCEPT ![u] = IF Head(q) = "dcr_rd" THEN "rsp"
                                   ELSE IF Len(q) > 1 THEN "post" ELSE "idle"]
        /\ IF Len(q) = 1 THEN Release(u) ELSE UNCHANGED pool
    BY <1>5 DEF Poll
  <2>2. q \in Rest
    BY <1>0, <2>1 DEF ThreadInv, Busy
  <2> HIDE DEF q
  <2>3. \A t \in Threads \ {u} : pc'[t] = pc[t]
    BY <1>0, <2>1
  <2>4. CASE Len(q) = 1
    BY <2>1, <2>3, <2>4, ReleaseInv
  <2>5. CASE Len(q) # 1
    <3>1. Len(q) > 1 /\ Head(q) # "dcr_rd"
      BY <2>2, <2>5, RestFacts
    <3>2. pc'[u] = "post"
      BY <1>0, <2>1, <3>1
    <3>3. \A t \in Threads : slot[t] # 0 => Busy(t)'
      BY <1>0, <2>3, <3>2 DEF Busy
    <3> QED BY <2>1, <2>5, <3>3, PoolFrame
  <2> QED BY <2>4, <2>5
<1>6. ASSUME NEW u \in Threads, ReadRsp(u) \/ RspFails(u) PROVE PoolInv'
  <2>1. pc[u] = "rsp" /\ pc' = [pc EXCEPT ![u] = "idle"] /\ UNCHANGED pool
    BY <1>6 DEF ReadRsp, RspFails
  <2>2. \A t \in Threads : slot[t] # 0 => Busy(t)'
    BY <1>0, <2>1 DEF Busy
  <2> QED BY <2>1, <2>2, PoolFrame
<1> QED BY <1>1, <1>2, <1>3, <1>4, <1>5, <1>6, WhoMoves
-----------------------------------------------------------------------------
(* The Command Processor and the memory.                                   *)

(* Fields of a command line.                                               *)
LEMMA LineFields ==
  ASSUME NEW c \in CLs
  PROVE  /\ c # NoCL /\ c.op \in Opcodes /\ c.id \in Ids /\ c.id.t \in Threads
         /\ c.slot \in Slots /\ c.seq \in 1..MaxPosts
<1>1. c # NoCL
  BY CpNoCLAssumption
<1>2. c.op \in Opcodes /\ c.id \in Ids /\ c.slot \in Slots /\ c.seq \in 1..MaxPosts
  BY DEF CLs
<1>3. c.id.t \in Threads
  BY <1>2 DEF Ids
<1> QED BY <1>1, <1>2, <1>3

(* A slot number is within the memory for slots.                           *)
LEMMA SlotType ==
  ASSUME PoolInv, NEW t \in Threads
  PROVE  slot[t] \in Slots
<1>1. IsFiniteSet(Launchers) /\ Cardinality(Launchers) <= Cardinality(Threads)
  BY CpAssumption, FS_Subset
<1>2. Cardinality(Launchers) \in Nat /\ Cardinality(Threads) \in Nat
  BY <1>1, CpAssumption, FS_CardinalityType
<1>3. nslots \in 0..Cardinality(Launchers) /\ slot[t] \in Nat
      /\ (slot[t] # 0 => slot[t] \in 1..nslots)
  BY DEF PoolInv
<1> QED BY <1>1, <1>2, <1>3 DEF Slots

(* What a thread posts is a command line.                                  *)
LEMMA LineType ==
  ASSUME HostInv, PoolInv, NEW t \in Threads, pc[t] = "post", cp_tail < MaxPosts
  PROVE  Line(t) \in CLs /\ cp_tail \in Nat
<1>1. ThreadInv(t) /\ cp_tail \in 0..MaxPosts /\ MaxPosts \in Nat
  BY CpAssumption DEF HostInv
<1>2. script[t] \in Rest /\ job[t] \in 0..MaxPosts /\ job[t] >= 1
  BY <1>1 DEF ThreadInv, Busy
<1>3. Head(script[t]) \in Opcodes
  BY <1>2, RestFacts
<1>4. job[t] \in 1..MaxPosts /\ cp_tail + 1 \in 1..MaxPosts /\ cp_tail \in Nat
  BY <1>1, <1>2
<1>5. Id(t) \in Ids
  BY <1>4 DEF Id, Ids
<1>6. slot[t] \in Slots
  BY SlotType
<1> QED BY <1>3, <1>4, <1>5, <1>6 DEF Line, CLs

(* A thread's step does not move the Command Processor; the doorbell only  *)
(* ever announces more.                                                    *)
LEMMA SubmitFrame ==
  ASSUME HostInv, NEW u \in Threads,
         \/ \E kind \in DOMAIN Scripts : Begin(u, kind)
         \/ Post(u) \/ DoorbellFails(u) \/ PollFails(u) \/ Poll(u) \/ ReadRsp(u) \/ RspFails(u)
  PROVE  /\ UNCHANGED <<fetch, eng, launch, seqnum, device>>
         /\ q_tail \in Nat /\ q_tail' \in Nat /\ q_tail <= q_tail'
<1>0. q_tail \in 0..cp_tail /\ cp_tail \in 0..MaxPosts /\ MaxPosts \in Nat
  BY CpAssumption DEF HostInv
<1>1. UNCHANGED <<fetch, eng, launch, seqnum, device>>
  BY DEF Begin, Post, DoorbellFails, PollFails, GiveUp, Poll, ReadRsp, RspFails
<1>2. q_tail' = q_tail \/ q_tail' = cp_tail + 1
  BY DEF Begin, Post, DoorbellFails, PollFails, GiveUp, Poll, ReadRsp, RspFails, ringv
<1> QED BY <1>0, <1>1, <1>2

(* The Command Processor is idle at first.                                 *)
LEMMA EngInit == Init => EngInv /\ MemInv /\ AbandonedInv
<1> SUFFICES ASSUME Init PROVE EngInv /\ MemInv /\ AbandonedInv
  OBVIOUS
<1>1. EngInv
  <2>1. done = <<>> /\ done \in Seq(1..MaxPosts) /\ Len(done) = 0
    BY DEF Init
  <2>2. /\ head = 0 /\ q_tail = 0 /\ seqnum = 0 /\ used = FALSE /\ eng = "idle"
        /\ launch = "idle" /\ gpu = "idle" /\ cl = NoCL
    BY DEF Init
  <2>3. head \in 0..q_tail /\ seqnum \in Nat
    BY <2>2
  <2>4. Len(done) = seqnum + (IF eng \in {"wait", "retire"} THEN 1 ELSE 0)
    BY <2>1, <2>2
  <2> QED BY <2>1, <2>2, <2>3, <2>4, Zenon DEF EngInv
<1>2. 0 \in Slots
  BY CpAssumption, FS_CardinalityType DEF Slots
<1>3. MemInv
  BY <1>2, CpAssumption DEF Init, MemInv
<1> QED BY <1>1, <1>3 DEF Init, AbandonedInv

(* Every step preserves the invariant of the Command Processor.            *)
LEMMA EngStep == HostInv /\ EngInv /\ MemInv /\ [Next]_vars => EngInv'
<1> SUFFICES ASSUME HostInv, EngInv, MemInv, [Next]_vars PROVE EngInv'
  OBVIOUS
<1>0. /\ MaxPosts \in Nat /\ cp_tail \in 0..MaxPosts /\ q_tail \in 0..cp_tail
      /\ head \in 0..q_tail /\ head \in Nat /\ q_tail \in Nat /\ seqnum \in Nat
      /\ done \in Seq(1..MaxPosts)
  BY CpAssumption DEF HostInv, EngInv
<1>1. ASSUME NEW u \in Threads,
             \/ \E kind \in DOMAIN Scripts : Begin(u, kind)
             \/ Post(u) \/ DoorbellFails(u) \/ PollFails(u) \/ Poll(u) \/ ReadRsp(u) \/ RspFails(u)
      PROVE  EngInv'
  <2>1. /\ UNCHANGED <<head, cl, used, eng, launch, seqnum, gpu, done>>
        /\ q_tail' \in Nat /\ q_tail <= q_tail'
    BY <1>1, SubmitFrame DEF fetch, device
  <2>2. head \in 0..q_tail' /\ (head < q_tail => head < q_tail')
    BY <1>0, <2>1
  <2> QED BY <2>1, <2>2 DEF EngInv
<1> USE DEF fetch, device, ringv
<1>2. CASE TickFetch
  <2>1. /\ eng = "idle" /\ cl = NoCL /\ head < q_tail /\ cl' = ring[head % RingSlots]
        /\ used' = FALSE /\ eng' = "decode"
        /\ UNCHANGED <<head, q_tail, launch, seqnum, gpu, done>>
    BY <1>2 DEF TickFetch
  <2>2. ring[head % RingSlots] \in CLs
    <3>1. head \in 0..(cp_tail - 1)
      BY <1>0, <2>1
    <3>2. head % RingSlots \in 0..(RingSlots - 1)
      BY <1>0, CpAssumption
    <3> QED BY <3>1, <3>2 DEF MemInv
  <2>3. cl' # NoCL /\ cl' \in CLs
    BY <2>1, <2>2, LineFields
  <2> QED BY <1>0, <2>1, <2>3 DEF EngInv
<1>3. CASE TickDrop
  <2>1. /\ eng = "idle" /\ cl # NoCL /\ used /\ head' = head + 1 /\ cl' = NoCL
        /\ UNCHANGED <<q_tail, used, eng, launch, seqnum, gpu, done>>
    BY <1>3 DEF TickDrop
  <2>2. head < q_tail /\ seqnum = head + 1
    BY <2>1 DEF EngInv
  <2>3. head' \in 0..q_tail
    BY <1>0, <2>1, <2>2
  <2> QED BY <1>0, <2>1, <2>2, <2>3 DEF EngInv
<1>4. CASE TickDecode
  <2>1. eng = "decode" /\ eng' = "bid"
        /\ UNCHANGED <<head, cl, used, q_tail, launch, seqnum, gpu, done>>
    BY <1>4 DEF TickDecode
  <2> QED BY <1>0, <2>1 DEF EngInv
<1>5. CASE TickBid
  <2>1. /\ eng = "bid" /\ eng' = (IF cl.op = "launch" THEN "wait" ELSE "retire")
        /\ launch' = (IF cl.op = "launch" THEN "busy" ELSE launch)
        /\ gpu' = (IF cl.op = "launch" THEN "run" ELSE gpu)
        /\ done' = Append(done, cl.seq)
        /\ UNCHANGED <<head, cl, used, q_tail, seqnum>>
    BY <1>5 DEF TickBid
  <2>2. cl \in CLs /\ cl # NoCL
    BY <2>1 DEF EngInv
  <2>3. cl.seq \in 1..MaxPosts
    BY <2>2, LineFields
  <2>4. done' \in Seq(1..MaxPosts) /\ Len(done') = Len(done) + 1
    BY <1>0, <2>1, <2>3
  <2>5. Len(done) = seqnum
    BY <1>0, <2>1 DEF EngInv
  <2> QED BY <1>0, <2>1, <2>2, <2>4, <2>5 DEF EngInv
<1>6. CASE TickLaunch
  <2>1. /\ eng = "wait" /\ UNCHANGED <<head, cl, used, q_tail, eng, seqnum, gpu, done>>
        /\ \/ launch' = "drain"
           \/ launch' = "idle" /\ gpu = "idle"
    BY <1>6 DEF TickLaunch
  <2> QED BY <1>0, <2>1 DEF EngInv
<1>7. CASE TickDone
  <2>1. /\ eng = "wait" /\ launch = "idle" /\ eng' = "retire"
        /\ UNCHANGED <<head, cl, used, q_tail, launch, seqnum, gpu, done>>
    BY <1>7 DEF TickDone
  <2> QED BY <1>0, <2>1 DEF EngInv
<1>8. CASE TickRetire
  <2>1. /\ eng = "retire" /\ seqnum' = seqnum + 1 /\ used' = TRUE /\ eng' = "idle"
        /\ UNCHANGED <<head, cl, q_tail, launch, gpu, done>>
    BY <1>8 DEF TickRetire
  <2>2. cl # NoCL /\ ~used /\ Len(done) = seqnum + 1 /\ seqnum = head /\ head < q_tail
    BY <1>0, <2>1 DEF EngInv
  <2> QED BY <1>0, <2>1, <2>2 DEF EngInv
<1>9. CASE KernelEnds
  <2>1. gpu' = "idle" /\ UNCHANGED <<head, cl, used, q_tail, eng, launch, seqnum, done>>
    BY <1>9 DEF KernelEnds
  <2> QED BY <1>0, <2>1 DEF EngInv
<1>10. CASE UNCHANGED vars
  BY <1>10 DEF EngInv, vars
<1> QED BY <1>1, <1>2, <1>3, <1>4, <1>5, <1>6, <1>7, <1>8, <1>9, <1>10, WhoMoves
        DEF DeviceStep, Tick

(* Every step preserves the types of the memory and the ring.              *)
LEMMA MemStep ==
  HostInv /\ PoolInv /\ EngInv /\ MemInv /\ AbandonedInv /\ [Next]_vars
    => MemInv' /\ AbandonedInv'
<1> SUFFICES ASSUME HostInv, PoolInv, EngInv, MemInv, AbandonedInv, [Next]_vars
             PROVE  MemInv' /\ AbandonedInv'
  OBVIOUS
<1>0. /\ MaxPosts \in Nat /\ cp_tail \in 0..MaxPosts /\ cp_tail \in Nat
      /\ RingSlots \in Nat \ {0}
      /\ ring \in [0..(RingSlots - 1) -> CLs \cup {NoCL}]
      /\ \A i \in 0..(cp_tail - 1) : ring[i % RingSlots] # NoCL
      /\ last_rsp \in CLs \cup {NoCL} /\ dcr \in [KmuRegs -> Ids \cup {NoCL}]
      /\ args \in [Slots -> Ids \cup {NoCL}]
      /\ abandoned \subseteq 1..cp_tail
  BY CpAssumption DEF HostInv, MemInv, AbandonedInv
<1>1. ASSUME NEW u \in Threads, pc[u] = "post", WriteCL(u)
      PROVE  /\ ring' \in [0..(RingSlots - 1) -> CLs \cup {NoCL}]
             /\ \A i \in 0..(cp_tail' - 1) : ring'[i % RingSlots] # NoCL
             /\ cp_tail' = cp_tail + 1
  <2>1. /\ cp_tail < MaxPosts /\ cp_tail' = cp_tail + 1
        /\ ring' = [ring EXCEPT ![cp_tail % RingSlots] = Line(u)]
    BY <1>1 DEF WriteCL
  <2>2. Line(u) \in CLs /\ Line(u) # NoCL
    BY <1>1, <2>1, LineType, LineFields
  <2>3. \A i \in Nat : i % RingSlots \in 0..(RingSlots - 1)
    BY <1>0
  <2>4. ASSUME NEW i \in 0..(cp_tail' - 1) PROVE ring'[i % RingSlots] # NoCL
    <3>1. i = cp_tail \/ i \in 0..(cp_tail - 1)
      BY <1>0, <2>1
    <3>2. i \in Nat /\ i % RingSlots \in 0..(RingSlots - 1)
      BY <1>0, <2>3
    <3> QED BY <1>0, <2>1, <2>2, <3>1, <3>2
  <2> QED BY <1>0, <2>1, <2>2, <2>4
<1> USE DEF device, ringv, host
<1>2. CASE \/ DeviceStep /\ ~TickBid
           \/ \E u \in Threads : \/ \E kind \in DOMAIN Scripts : Begin(u, kind)
                                 \/ Poll(u) \/ ReadRsp(u) \/ RspFails(u)
  <2>1. UNCHANGED <<ring, cp_tail, abandoned, last_rsp, dcr, args>>
    BY <1>2 DEF DeviceStep, Tick, TickFetch, TickDrop, TickDecode, TickLaunch, TickDone,
                TickRetire, KernelEnds, vars, Begin, Poll, ReadRsp, RspFails
  <2> QED BY <1>0, <2>1 DEF MemInv, AbandonedInv
<1>3. CASE TickBid
  <2>1. /\ eng = "bid" /\ UNCHANGED <<ring, cp_tail, abandoned>>
        /\ last_rsp' = (IF cl.op = "dcr_rd" THEN cl ELSE last_rsp)
        /\ dcr' = (IF cl.op \in KmuRegs THEN [dcr EXCEPT ![cl.op] = cl.id] ELSE dcr)
        /\ args' = IF cl.op = "args" THEN [args EXCEPT ![cl.slot] = cl.id] ELSE args
    BY <1>3 DEF TickBid, LatchRsp
  <2>2. cl \in CLs
    BY <2>1 DEF EngInv
  <2>3. cl.id \in Ids /\ cl.slot \in Slots
    BY <2>2, LineFields
  <2>4. /\ last_rsp' \in CLs \cup {NoCL} /\ dcr' \in [KmuRegs -> Ids \cup {NoCL}]
        /\ args' \in [Slots -> Ids \cup {NoCL}]
    BY <1>0, <2>1, <2>2, <2>3
  <2> QED BY <1>0, <2>1, <2>4 DEF MemInv, AbandonedInv
<1>4. ASSUME NEW u \in Threads, Post(u)
      PROVE  MemInv' /\ AbandonedInv'
  <2>1. pc[u] = "post" /\ WriteCL(u) /\ UNCHANGED <<abandoned, last_rsp, dcr, args>>
    BY <1>4 DEF Post
  <2>2. abandoned \subseteq 1..(cp_tail + 1)
    BY <1>0
  <2> QED BY <1>0, <1>1, <2>1, <2>2 DEF MemInv, AbandonedInv
<1>5. ASSUME NEW u \in Threads, DoorbellFails(u)
      PROVE  MemInv' /\ AbandonedInv'
  <2>1. /\ pc[u] = "post" /\ WriteCL(u) /\ UNCHANGED <<last_rsp, dcr, args>>
        /\ abandoned' = abandoned \cup {cp_tail + 1}
    BY <1>5 DEF DoorbellFails, GiveUp
  <2>2. abandoned' \subseteq 1..(cp_tail + 1)
    BY <1>0, <2>1
  <2> QED BY <1>0, <1>1, <2>1, <2>2 DEF MemInv, AbandonedInv
<1>6. ASSUME NEW u \in Threads, PollFails(u)
      PROVE  MemInv' /\ AbandonedInv'
  <2>1. /\ pc[u] = "poll" /\ UNCHANGED <<ring, cp_tail, last_rsp, dcr, args>>
        /\ abandoned' = abandoned \cup {target[u]}
    BY <1>6 DEF PollFails, GiveUp
  <2>2. target[u] \in 0..cp_tail /\ target[u] >= 1
    BY <2>1 DEF HostInv, ThreadInv
  <2>3. abandoned' \subseteq 1..cp_tail
    <3>1. target[u] \in 1..cp_tail
      BY <1>0, <2>2
    <3> QED BY <1>0, <2>1, <3>1
  <2> QED BY <1>0, <2>1, <2>3 DEF MemInv, AbandonedInv
<1> QED BY <1>2, <1>3, <1>4, <1>5, <1>6, WhoMoves

(* The control invariant holds throughout, whatever the sizes.             *)
LEMMA Control == Spec => []CtlInv
<1>1. Init => CtlInv
  BY HostInit, PoolInit, EngInit DEF CtlInv
<1>2. CtlInv /\ [Next]_vars => CtlInv'
  BY HostStep, PoolStep, EngStep, MemStep DEF CtlInv
<1> QED BY <1>1, <1>2, PTL DEF Spec

(* Positions of the ring, in one place.                                    *)
LEMMA Positions ==
  ASSUME CtlInv
  PROVE  /\ cp_tail \in Nat /\ seqnum \in Nat /\ head \in Nat /\ Len(done) \in Nat
         /\ head <= seqnum /\ seqnum <= cp_tail /\ cp_tail <= MaxPosts
         /\ seqnum <= Len(done) /\ Len(done) <= cp_tail
         /\ RingSlots \in Nat \ {0} /\ MaxPosts \in Nat
         /\ q_tail \in Nat /\ q_tail <= cp_tail
<1>1. /\ MaxPosts \in Nat /\ RingSlots \in Nat \ {0} /\ cp_tail \in 0..MaxPosts
      /\ q_tail \in 0..cp_tail /\ head \in 0..q_tail /\ seqnum \in Nat
      /\ done \in Seq(1..MaxPosts)
  BY CpAssumption DEF CtlInv, HostInv, EngInv
<1>2. \/ seqnum = head /\ cl = NoCL /\ Len(done) = seqnum
      \/ head < q_tail /\ seqnum = head + 1 /\ Len(done) = seqnum
      \/ head < q_tail /\ seqnum = head /\ Len(done) \in {seqnum, seqnum + 1}
  <2>1. CASE cl = NoCL
    BY <1>1, <2>1 DEF CtlInv, EngInv
  <2>2. CASE cl # NoCL /\ used
    BY <1>1, <2>2 DEF CtlInv, EngInv
  <2>3. CASE cl # NoCL /\ ~used
    BY <1>1, <2>3 DEF CtlInv, EngInv
  <2> QED BY <2>1, <2>2, <2>3 DEF CtlInv, EngInv
<1> QED BY <1>1, <1>2

(* The control invariant gives the types.                                  *)
LEMMA CtlTypes == CtlInv => TypeOK
<1> SUFFICES ASSUME CtlInv PROVE TypeOK
  OBVIOUS
<1>0. HostInv /\ PoolInv /\ EngInv /\ MemInv /\ AbandonedInv
  BY DEF CtlInv
<1>1. /\ cp_tail \in Nat /\ seqnum \in Nat /\ head \in Nat /\ seqnum <= cp_tail
      /\ cp_tail <= MaxPosts /\ head <= seqnum /\ MaxPosts \in Nat
      /\ q_tail \in Nat /\ q_tail <= cp_tail
  BY Positions
<1>2. ASSUME NEW t \in Threads
      PROVE  /\ script[t] \in Seq(Opcodes)
             /\ pc[t] \in {"post", "poll"} => script[t] # <<>>
             /\ job[t] \in 0..MaxPosts /\ target[t] \in 0..MaxPosts /\ slot[t] \in Slots
  <2>1. ThreadInv(t) /\ script[t] \in Seq(Opcodes)
    BY <1>0 DEF HostInv
  <2>2. pc[t] \in {"post", "poll"} => script[t] # <<>>
    BY <2>1, RestFacts DEF ThreadInv, Busy
  <2>3. job[t] \in 0..MaxPosts /\ target[t] \in 0..cp_tail
    BY <2>1 DEF ThreadInv
  <2> QED BY <1>0, <1>1, <2>1, <2>2, <2>3, SlotType
<1>3. job \in [Threads -> 0..MaxPosts] /\ target \in [Threads -> 0..MaxPosts]
  BY <1>0, <1>2 DEF HostInv
<1>4. slot \in [Threads -> Slots]
  BY <1>0, <1>2 DEF PoolInv
<1>5. nslots \in Slots /\ free \in Seq(Slots \ {0})
  <2>1. IsFiniteSet(Launchers) /\ Cardinality(Launchers) <= Cardinality(Threads)
    BY CpAssumption, FS_Subset
  <2>2. Cardinality(Launchers) \in Nat /\ Cardinality(Threads) \in Nat
    BY <2>1, CpAssumption, FS_CardinalityType
  <2>3. nslots \in 0..Cardinality(Launchers) /\ free \in Seq(Nat)
        /\ \A i \in 1..Len(free) : free[i] \in 1..nslots
    BY <1>0 DEF PoolInv
  <2>4. nslots \in Slots /\ 1..nslots \subseteq Slots \ {0}
    BY <2>1, <2>2, <2>3 DEF Slots
  <2>5. free \in [1..Len(free) -> Slots \ {0}] /\ Len(free) \in Nat
    BY <2>3, <2>4
  <2> QED BY <2>4, <2>5
<1>6. /\ cp_tail \in 0..MaxPosts /\ cp_expected \in 0..MaxPosts /\ q_tail \in 0..MaxPosts
      /\ head \in 0..MaxPosts /\ seqnum \in 0..MaxPosts
  BY <1>0, <1>1 DEF HostInv
<1>7. abandoned \subseteq 1..MaxPosts
  BY <1>0, <1>1 DEF AbandonedInv
<1> QED BY <1>0, <1>2, <1>3, <1>4, <1>5, <1>6, <1>7 DEF TypeOK, HostInv, EngInv, MemInv
-----------------------------------------------------------------------------
(* The ring.                                                               *)

(* What the ring needs: a slot for every thread and for every command that *)
(* a failed access leaves behind (the code has 1024 slots), and a sequence *)
(* register that does not wrap (32 bits).                                  *)
Provisioned == Cardinality(Threads) + MaxFaults <= RingSlots /\ MaxPosts < SeqMod

(* Positions less than a ring apart have slots of their own.               *)
LEMMA ModDistinct ==
  ASSUME NEW M \in Nat \ {0}, NEW a \in Nat, NEW b \in Nat, a < b, b - a < M
  PROVE  a % M # b % M
<1> DEFINE qa == a \div M
           qb == b \div M
<1>1. qa \in Int /\ a = (M * qa) + (a % M) /\ a % M \in Int
  OBVIOUS
<1>2. qb \in Int /\ b = (M * qb) + (b % M) /\ b % M \in Int
  OBVIOUS
<1> HIDE DEF qa, qb
<1> SUFFICES ASSUME a % M = b % M PROVE FALSE
  OBVIOUS
<1> DEFINE d == qb - qa
<1>3. d \in Int /\ M * d = (M * qb) - (M * qa)
  BY <1>1, <1>2
<1>4. b - a = M * d
  BY <1>1, <1>2, <1>3
<1> HIDE DEF d
<1>5. CASE d <= 0
  <2>1. M * d <= 0
    BY <1>3, <1>5
  <2> QED BY <1>4, <2>1
<1>6. CASE d >= 1
  <2>1. M * d >= M
    BY <1>3, <1>6
  <2> QED BY <1>4, <2>1
<1> QED BY <1>3, <1>5, <1>6

(* A posted line is a line.                                                *)
LEMMA LineAtType ==
  ASSUME CtlInv, NEW s \in 1..cp_tail
  PROVE  LineAt(s) \in CLs /\ LineAt(s).id.t \in Threads
<1>1. s - 1 \in 0..(cp_tail - 1) /\ s - 1 \in Nat
  BY Positions
<1>2. (s - 1) % RingSlots \in 0..(RingSlots - 1)
  BY <1>1, Positions
<1>3. LineAt(s) \in CLs
  BY <1>1, <1>2 DEF LineAt, CtlInv, MemInv
<1> QED BY <1>3, LineFields

(* While a thread is about to post, there is room: everybody else has at   *)
(* most one command in flight.                                             *)
LEMMA Room ==
  ASSUME CtlInv, RingInv, Provisioned, NEW t \in Threads, pc[t] = "post"
  PROVE  cp_tail - seqnum < RingSlots
<1> DEFINE U == Threads \ {t}
           T == {target[u] : u \in U}
           f == [u \in U |-> target[u]]
           n == Cardinality(Threads)
<1>0. /\ cp_tail \in Nat /\ seqnum \in Nat /\ seqnum <= cp_tail /\ RingSlots \in Nat
      /\ MaxFaults \in Nat /\ IsFiniteSet(Threads) /\ faults \in 0..MaxFaults
  BY Positions, CpAssumption DEF CtlInv, HostInv
<1>1. IsFiniteSet(U) /\ Cardinality(U) = n - 1 /\ n \in Nat
  BY <1>0, FS_RemoveElement, FS_CardinalityType
<1>2. f \in Surjection(U, T)
  BY DEF Surjection
<1>3. IsFiniteSet(T) /\ Cardinality(T) <= Cardinality(U)
  BY <1>1, <1>2, FS_Surjection
<1>4. Unretired \subseteq T \cup abandoned
  <2> SUFFICES ASSUME NEW s \in Unretired, s \notin abandoned PROVE s \in T
    OBVIOUS
  <2>1. s \in 1..cp_tail
    BY <1>0 DEF Unretired
  <2> DEFINE u == LineAt(s).id.t
  <2>2. u \in Threads
    BY <2>1, LineAtType
  <2>3. Held(LineAt(s)) /\ LineAt(s).seq = s
    BY DEF RingInv
  <2>4. pc[u] = "poll" /\ target[u] = s
    BY <2>3 DEF Held
  <2> HIDE DEF u
  <2>5. u # t
    BY <2>4
  <2> QED BY <2>2, <2>4, <2>5
<1>5. IsFiniteSet(abandoned) /\ Cardinality(abandoned) <= faults
  BY DEF RingInv
<1> HIDE DEF T, U, f, n
<1>6. /\ IsFiniteSet(T \cup abandoned) /\ IsFiniteSet(T \cap abandoned)
      /\ Cardinality(T \cup abandoned)
           = Cardinality(T) + Cardinality(abandoned) - Cardinality(T \cap abandoned)
  <2>1. IsFiniteSet(T \cap abandoned)
    BY <1>3, FS_Subset
  <2> QED BY <1>3, <1>5, <2>1, FS_Union
<1>7. Cardinality(Unretired) <= Cardinality(T \cup abandoned)
  BY <1>4, <1>6, FS_Subset
<1>8. Cardinality(Unretired) = cp_tail - seqnum
  <2>1. Cardinality((seqnum + 1)..cp_tail)
          = IF seqnum + 1 > cp_tail THEN 0 ELSE cp_tail - (seqnum + 1) + 1
    BY <1>0, FS_Interval
  <2> QED BY <1>0, <2>1 DEF Unretired
<1>9. /\ Cardinality(T) \in Nat /\ Cardinality(abandoned) \in Nat
      /\ Cardinality(T \cap abandoned) \in Nat
  BY <1>3, <1>5, <1>6, FS_CardinalityType
<1>10. n + MaxFaults <= RingSlots
  BY DEF Provisioned, n
<1> QED BY <1>0, <1>1, <1>3, <1>5, <1>6, <1>7, <1>8, <1>9, <1>10

(* A line written is where the CP will look for it, and destroys none of   *)
(* the lines that have not retired.                                        *)
LEMMA Written ==
  ASSUME CtlInv, RingInv, Provisioned, NEW t \in Threads, pc[t] = "post", WriteCL(t)
  PROVE  /\ cp_tail' = cp_tail + 1
         /\ LineAt(cp_tail)' = Line(t)
         /\ \A s \in Unretired : LineAt(s)' = LineAt(s)
<1>0. /\ cp_tail \in Nat /\ seqnum \in Nat /\ seqnum <= cp_tail /\ RingSlots \in Nat \ {0}
      /\ ring \in [0..(RingSlots - 1) -> CLs \cup {NoCL}]
      /\ cp_tail - seqnum < RingSlots
  BY Positions, Room DEF CtlInv, MemInv
<1>1. cp_tail' = cp_tail + 1 /\ ring' = [ring EXCEPT ![cp_tail % RingSlots] = Line(t)]
  BY DEF WriteCL
<1>2. cp_tail % RingSlots \in 0..(RingSlots - 1)
  BY <1>0
<1>3. LineAt(cp_tail)' = Line(t)
  <2>1. cp_tail' - 1 = cp_tail
    BY <1>0, <1>1
  <2>2. ring'[cp_tail % RingSlots] = Line(t)
    BY <1>0, <1>1, <1>2
  <2> QED BY <2>1, <2>2 DEF LineAt
<1>4. ASSUME NEW s \in Unretired PROVE LineAt(s)' = LineAt(s)
  <2>1. s - 1 \in Nat /\ s - 1 < cp_tail /\ cp_tail - (s - 1) < RingSlots
    BY <1>0 DEF Unretired
  <2>2. (s - 1) % RingSlots # cp_tail % RingSlots
    BY <1>0, <2>1, ModDistinct
  <2>3. (s - 1) % RingSlots \in 0..(RingSlots - 1)
    BY <1>0, <2>1
  <2> QED BY <1>0, <1>1, <2>2, <2>3 DEF LineAt
<1> QED BY <1>1, <1>3, <1>4

(* Thread t stands where it stood.                                         *)
Same(t) == UNCHANGED <<pc[t], script[t], job[t], target[t], slot[t]>>

(* A submitting thread moves nobody else, and keeps out of the CP.         *)
LEMMA OthersSame ==
  ASSUME HostInv, PoolInv, NEW u \in Threads,
         \/ \E kind \in DOMAIN Scripts : Begin(u, kind)
         \/ Post(u) \/ DoorbellFails(u) \/ PollFails(u) \/ Poll(u) \/ ReadRsp(u) \/ RspFails(u)
  PROVE  \A t \in Threads \ {u} : Same(t)
<1>0. /\ pc \in [Threads -> {"idle", "post", "poll", "rsp"}]
      /\ script \in [Threads -> Seq(Opcodes)]
      /\ job \in [Threads -> Nat] /\ target \in [Threads -> Nat] /\ slot \in [Threads -> Nat]
  BY DEF HostInv, PoolInv
<1> USE DEF pool, ringv
<1>1. ASSUME NEW kind \in DOMAIN Scripts, Begin(u, kind) PROVE \A t \in Threads \ {u} : Same(t)
  BY <1>0, <1>1 DEF Begin, Acquire, Same
<1>2. CASE Post(u)
  BY <1>0, <1>2 DEF Post, WriteCL, Same
<1>3. CASE DoorbellFails(u)
  BY <1>0, <1>3 DEF DoorbellFails, WriteCL, GiveUp, Release, Same
<1>4. CASE PollFails(u)
  BY <1>0, <1>4 DEF PollFails, GiveUp, Release, Same
<1>5. CASE Poll(u)
  BY <1>0, <1>5 DEF Poll, Release, Same
<1>6. CASE ReadRsp(u) \/ RspFails(u)
  BY <1>0, <1>6 DEF ReadRsp, RspFails, Same
<1> QED BY <1>1, <1>2, <1>3, <1>4, <1>5, <1>6

(* Submitters that do not move go on holding their lines.                  *)
LEMMA HeldFrame ==
  ASSUME CtlInv, RingInv, NEW u \in Threads, \A t \in Threads \ {u} : Same(t),
         NEW s \in Unretired \ abandoned, LineAt(s)' = LineAt(s), LineAt(s).id.t # u
  PROVE  Held(LineAt(s))'
<1>1. s \in 1..cp_tail
  BY Positions DEF Unretired
<1>2. PICK t \in Threads : t = LineAt(s).id.t
  BY <1>1, LineAtType
<1>3. Held(LineAt(s)) /\ Same(t)
  BY <1>2 DEF RingInv
<1> QED BY <1>2, <1>3 DEF Held, Same

(* A thread that does not poll for an unretired command holds no line.     *)
LEMMA HoldsNone ==
  ASSUME CtlInv, RingInv, NEW u \in Threads, NEW s \in Unretired \ abandoned,
         pc[u] # "poll" \/ target[u] # s
  PROVE  LineAt(s).id.t # u
<1>1. Held(LineAt(s)) /\ LineAt(s).seq = s
  BY DEF RingInv
<1> QED BY <1>1 DEF Held

(* Nothing is posted at the start.                                         *)
LEMMA RingInit == Init => RingInv
<1> SUFFICES ASSUME Init PROVE RingInv
  OBVIOUS
<1>1. Unretired = {}
  BY DEF Init, Unretired
<1>2. IsFiniteSet(abandoned) /\ Cardinality(abandoned) <= faults
  BY FS_EmptySet DEF Init
<1>3. ~Executing /\ RingIntact
  BY DEF Init, Executing, RingIntact
<1> QED BY <1>1, <1>2, <1>3 DEF RingInv, Init

(* The Command Processor takes the lines from the ring in their order.     *)
LEMMA RingDevice ==
  ASSUME CtlInv, RingInv, DeviceStep
  PROVE  RingInv'
<1>0. UNCHANGED <<pc, script, job, target, slot, ring, cp_tail, faults, abandoned>>
  BY DeviceFrame DEF host, ringv, pool
<1>1. /\ seqnum \in Nat /\ cp_tail \in Nat /\ head \in Nat /\ Len(done) \in Nat
      /\ seqnum' \in {seqnum, seqnum + 1}
  <2>1. seqnum' \in {seqnum, seqnum + 1}
    BY DEF DeviceStep, Tick, TickFetch, TickDrop, TickDecode, TickBid, TickLaunch,
           TickDone, TickRetire, KernelEnds, vars
  <2> QED BY <2>1, Positions
<1>2. Unretired' \subseteq Unretired
  <2>1. CASE seqnum' = seqnum
    BY <1>0, <2>1 DEF Unretired
  <2>2. CASE seqnum' = seqnum + 1
    <3>1. \A s \in ((seqnum + 1) + 1)..cp_tail : s \in (seqnum + 1)..cp_tail
      BY <1>1
    <3> QED BY <1>0, <2>2, <3>1 DEF Unretired
  <2> QED BY <1>1, <2>1, <2>2
<1>3. \A s \in Unretired' : LineAt(s)' = LineAt(s)
  BY <1>0 DEF LineAt
<1>4. /\ \A s \in Unretired' : LineAt(s)'.seq = s
      /\ \A s \in Unretired' \ abandoned' : Held(LineAt(s))'
      /\ \A t, u \in Threads : t # u /\ pc'[t] = "poll" /\ pc'[u] = "poll" => target'[t] # target'[u]
      /\ \A t \in Threads : pc'[t] = "poll" => target'[t] \notin abandoned'
      /\ IsFiniteSet(abandoned') /\ Cardinality(abandoned') <= faults'
  BY <1>0, <1>2, <1>3 DEF RingInv, Held
<1>5. (Executing => cl = LineAt(seqnum + 1))' /\ RingIntact'
  <2>0. (Executing => cl = LineAt(seqnum + 1)) /\ RingIntact
    BY DEF RingInv
  <2>1. CASE TickFetch
    <3>1. cl' = ring[head % RingSlots] /\ seqnum' = seqnum /\ cl = NoCL /\ UNCHANGED done
      BY <2>1 DEF TickFetch, device
    <3>2. seqnum = head /\ (seqnum + 1) - 1 = head
      BY <1>1, <3>1 DEF CtlInv, EngInv
    <3>3. cl' = LineAt(seqnum + 1)'
      BY <1>0, <3>1, <3>2 DEF LineAt
    <3> QED BY <2>0, <3>1, <3>3 DEF RingIntact
  <2>2. CASE TickDrop
    BY <2>0, <2>2 DEF TickDrop, Executing, RingIntact, device
  <2>3. CASE TickBid
    <3>1. eng = "bid" /\ done' = Append(done, cl.seq) /\ UNCHANGED <<cl, used, seqnum>>
      BY <2>3 DEF TickBid, fetch
    <3>2. /\ Executing /\ head < q_tail /\ seqnum = head /\ Len(done) = seqnum
          /\ q_tail <= cp_tail /\ q_tail \in Nat /\ done \in Seq(1..MaxPosts)
      BY <3>1, Positions DEF CtlInv, EngInv, Executing
    <3>3. seqnum + 1 \in Unretired
      BY <1>1, <3>2 DEF Unretired
    <3>4. cl = LineAt(seqnum + 1) /\ cl.seq = seqnum + 1
      BY <2>0, <3>2, <3>3 DEF RingInv
    <3>5. cl.seq \in 1..MaxPosts
      BY <1>1, <3>2, <3>4, Positions
    <3>6. Len(done') = Len(done) + 1 /\ \A i \in 1..Len(done') : done'[i] = i
      BY <1>1, <2>0, <3>1, <3>2, <3>4, <3>5 DEF RingIntact
    <3>7. cl' = LineAt(seqnum + 1)'
      BY <1>0, <3>1, <3>4 DEF LineAt
    <3> QED BY <3>6, <3>7 DEF RingIntact
  <2>4. CASE TickRetire
    BY <2>0, <2>4 DEF TickRetire, Executing, RingIntact, device
  <2>5. CASE TickDecode \/ TickLaunch \/ TickDone \/ KernelEnds \/ UNCHANGED vars
    <3>1. UNCHANGED <<cl, used, seqnum, done>>
      BY <2>5 DEF TickDecode, TickLaunch, TickDone, KernelEnds, vars, fetch, device
    <3> QED BY <1>0, <2>0, <3>1 DEF Executing, RingIntact, LineAt
  <2> QED BY <2>1, <2>2, <2>3, <2>4, <2>5 DEF DeviceStep, Tick
<1> QED BY <1>4, <1>5 DEF RingInv

(* A thread that writes no line and does not start to poll leaves the ring *)
(* as it is, if the lines that are still held are not its own.             *)
LEMMA RingQuiet ==
  ASSUME CtlInv, RingInv, NEW u \in Threads, \A t \in Threads \ {u} : Same(t),
         UNCHANGED <<ring, cp_tail, seqnum, cl, used, done>>, pc'[u] # "poll",
         abandoned \subseteq abandoned',
         \A s \in Unretired \ abandoned' : LineAt(s).id.t # u,
         \A t \in Threads \ {u} : pc[t] = "poll" => target[t] \notin abandoned',
         IsFiniteSet(abandoned'), Cardinality(abandoned') <= faults'
  PROVE  RingInv'
<1>1. Unretired' = Unretired /\ \A s \in Unretired : LineAt(s)' = LineAt(s)
  BY DEF Unretired, LineAt
<1>2. \A s \in Unretired' : LineAt(s)'.seq = s
  BY <1>1 DEF RingInv
<1>3. \A s \in Unretired' \ abandoned' : Held(LineAt(s))'
  BY <1>1, HeldFrame
<1>4. \A t, v \in Threads : t # v /\ pc'[t] = "poll" /\ pc'[v] = "poll" => target'[t] # target'[v]
  BY DEF RingInv, Same
<1>5. \A t \in Threads : pc'[t] = "poll" => target'[t] \notin abandoned'
  BY DEF Same
<1>6. (Executing => cl = LineAt(seqnum + 1))' /\ RingIntact'
  BY DEF RingInv, Executing, LineAt, RingIntact
<1> QED BY <1>2, <1>3, <1>4, <1>5, <1>6 DEF RingInv

(* One more line given up is one more fault.                               *)
LEMMA OneMoreFault ==
  ASSUME CtlInv, RingInv, NEW s, abandoned' = abandoned \cup {s}, faults' = faults + 1
  PROVE  IsFiniteSet(abandoned') /\ Cardinality(abandoned') <= faults'
<1>1. IsFiniteSet(abandoned) /\ Cardinality(abandoned) <= faults
  BY DEF RingInv
<1>2. /\ IsFiniteSet(abandoned \cup {s})
      /\ Cardinality(abandoned \cup {s}) \in {Cardinality(abandoned), Cardinality(abandoned) + 1}
  BY <1>1, FS_AddElement
<1>3. Cardinality(abandoned) \in Nat /\ faults \in 0..MaxFaults /\ MaxFaults \in Nat
  BY <1>1, CpAssumption, FS_CardinalityType DEF CtlInv, HostInv
<1> QED BY <1>1, <1>2, <1>3

(* A thread writes a line: there is room for it, and it is the newest.     *)
LEMMA RingWrite ==
  ASSUME CtlInv, RingInv, Provisioned, NEW u \in Threads, Post(u) \/ DoorbellFails(u)
  PROVE  RingInv'
<1>0. /\ pc[u] = "post" /\ WriteCL(u) /\ \A t \in Threads \ {u} : Same(t)
      /\ UNCHANGED <<cl, used, seqnum, done>>
  <2>1. \A t \in Threads \ {u} : Same(t)
    BY OthersSame DEF CtlInv
  <2> QED BY <2>1 DEF Post, DoorbellFails, GiveUp, fetch, device
<1>1. /\ cp_tail \in Nat /\ seqnum \in Nat /\ seqnum <= cp_tail /\ MaxPosts \in Nat
      /\ pc \in [Threads -> {"idle", "post", "poll", "rsp"}] /\ target \in [Threads -> Nat]
      /\ abandoned \subseteq 1..cp_tail /\ \A t \in Threads : target[t] <= cp_tail
  <2>1. \A t \in Threads : target[t] \in 0..cp_tail
    BY DEF CtlInv, HostInv, ThreadInv
  <2> QED BY <2>1, Positions DEF CtlInv, HostInv, AbandonedInv
<1>2. /\ cp_tail' = cp_tail + 1 /\ LineAt(cp_tail)' = Line(u)
      /\ \A s \in Unretired : LineAt(s)' = LineAt(s)
  BY <1>0, Written
<1>3. Unretired' = Unretired \cup {cp_tail + 1} /\ cp_tail + 1 \notin Unretired
  BY <1>0, <1>1, <1>2 DEF Unretired
<1>4. \A s : s = cp_tail + 1 => LineAt(s)' = Line(u)
  BY <1>2 DEF LineAt
<1>5. \A s \in Unretired' : LineAt(s)'.seq = s
  <2>1. Line(u).seq = cp_tail + 1
    BY DEF Line
  <2> QED BY <1>2, <1>3, <1>4, <2>1 DEF RingInv
<1>6. \A s \in Unretired \ abandoned : Held(LineAt(s))'
  BY <1>0, <1>2, HeldFrame, HoldsNone
<1>7. (Executing => cl = LineAt(seqnum + 1))' /\ RingIntact'
  <2>1. RingIntact'
    BY <1>0 DEF RingInv, RingIntact
  <2>2. ASSUME Executing' PROVE (cl = LineAt(seqnum + 1))'
    <3>1. Executing
      BY <1>0, <2>2 DEF Executing
    <3>2. head < q_tail /\ seqnum = head /\ q_tail <= cp_tail /\ q_tail \in Nat
      BY <3>1, Positions DEF Executing, CtlInv, EngInv
    <3>3. seqnum + 1 \in Unretired
      BY <1>1, <3>2 DEF Unretired
    <3>4. PICK s \in Unretired : s = seqnum + 1
      BY <3>3
    <3>5. cl = LineAt(s) /\ LineAt(s)' = LineAt(s)
      BY <1>2, <3>1, <3>4 DEF RingInv
    <3> QED BY <1>0, <3>4, <3>5 DEF LineAt
  <2> QED BY <2>1, <2>2
<1>8. CASE Post(u)
  <2>1. /\ pc' = [pc EXCEPT ![u] = "poll"] /\ UNCHANGED <<script, job, slot, faults, abandoned>>
        /\ target' = [target EXCEPT ![u] = cp_tail + 1]
    BY <1>0, <1>8 DEF Post, WriteCL, pool, CtlInv, HostInv
  <2>2. pc'[u] = "poll" /\ target'[u] = cp_tail + 1
    BY <1>1, <2>1
  <2>3. ASSUME NEW s, s = cp_tail + 1 PROVE Held(LineAt(s))'
    <3>1. LineAt(s)' = Line(u)
      BY <1>4, <2>3
    <3>2. /\ Line(u).id.t = u /\ Line(u).id.k = job[u] /\ Line(u).seq = cp_tail + 1
          /\ Line(u).op = Head(script[u]) /\ Line(u).slot = slot[u]
      BY DEF Line, Id
    <3> QED BY <2>1, <2>2, <3>1, <3>2 DEF Held
  <2>4. \A s \in Unretired' \ abandoned' : Held(LineAt(s))'
    BY <1>3, <1>6, <2>1, <2>3
  <2>5. \A t \in Threads \ {u} : pc'[t] = pc[t] /\ target'[t] = target[t] /\ target[t] # cp_tail + 1
    BY <1>0, <1>1 DEF Same
  <2>6. \A t, v \in Threads : t # v /\ pc'[t] = "poll" /\ pc'[v] = "poll" => target'[t] # target'[v]
    BY <2>2, <2>5 DEF RingInv
  <2>7. \A t \in Threads : pc'[t] = "poll" => target'[t] \notin abandoned'
    <3>1. cp_tail + 1 \notin abandoned
      BY <1>1
    <3> QED BY <2>1, <2>2, <2>5, <3>1 DEF RingInv
  <2>8. IsFiniteSet(abandoned') /\ Cardinality(abandoned') <= faults'
    BY <2>1 DEF RingInv
  <2> QED BY <1>5, <1>7, <2>4, <2>6, <2>7, <2>8 DEF RingInv
<1>9. CASE DoorbellFails(u)
  <2>1. /\ pc' = [pc EXCEPT ![u] = "idle"]
        /\ abandoned' = abandoned \cup {cp_tail + 1} /\ faults' = faults + 1
    BY <1>9 DEF DoorbellFails, GiveUp
  <2>2. pc'[u] = "idle"
    BY <1>1, <2>1
  <2>3. \A s \in Unretired' \ abandoned' : Held(LineAt(s))'
    BY <1>3, <1>6, <2>1
  <2>4. \A t \in Threads \ {u} : pc'[t] = pc[t] /\ target'[t] = target[t] /\ target[t] # cp_tail + 1
    BY <1>0, <1>1 DEF Same
  <2>5. /\ \A t, v \in Threads :
             t # v /\ pc'[t] = "poll" /\ pc'[v] = "poll" => target'[t] # target'[v]
        /\ \A t \in Threads : pc'[t] = "poll" => target'[t] \notin abandoned'
    BY <2>1, <2>2, <2>4 DEF RingInv
  <2>6. IsFiniteSet(abandoned') /\ Cardinality(abandoned') <= faults'
    BY <2>1, OneMoreFault
  <2> QED BY <1>5, <1>7, <2>3, <2>5, <2>6 DEF RingInv
<1> QED BY <1>8, <1>9

(* A poll that ends has found its command retired.                         *)
LEMMA PollEnds ==
  ASSUME CtlInv, Provisioned, NEW u \in Threads, Poll(u)
  PROVE  pc[u] = "poll" /\ target[u] <= seqnum /\ target[u] \in Nat
<1>1. pc[u] = "poll" /\ seqnum % SeqMod >= target[u]
  BY DEF Poll, Retired
<1>2. seqnum \in Nat /\ seqnum < SeqMod /\ SeqMod \in Nat \ {0}
  BY Positions, CpAssumption DEF Provisioned
<1>3. seqnum % SeqMod = seqnum
  BY <1>2
<1>4. target[u] \in Nat
  BY DEF CtlInv, HostInv
<1> QED BY <1>1, <1>3, <1>4

(* Every step preserves the invariant of the ring.                         *)
LEMMA RingStep == CtlInv /\ RingInv /\ Provisioned /\ [Next]_vars => RingInv'
<1> SUFFICES ASSUME CtlInv, RingInv, Provisioned, [Next]_vars PROVE RingInv'
  OBVIOUS
<1>0. /\ pc \in [Threads -> {"idle", "post", "poll", "rsp"}]
      /\ IsFiniteSet(abandoned) /\ Cardinality(abandoned) <= faults
      /\ \A t \in Threads : pc[t] = "poll" => target[t] \notin abandoned
      /\ seqnum \in Nat /\ cp_tail \in Nat
  BY Positions DEF CtlInv, HostInv, RingInv
<1> USE DEF ringv, fetch, device
<1>1. ASSUME NEW u \in Threads,
             \/ \E kind \in DOMAIN Scripts : Begin(u, kind)
             \/ Poll(u) \/ ReadRsp(u) \/ RspFails(u)
      PROVE  RingInv'
  <2>1. \A t \in Threads \ {u} : Same(t)
    BY <1>1, OthersSame DEF CtlInv
  <2>2. /\ UNCHANGED <<ring, cp_tail, seqnum, cl, used, done, abandoned>>
        /\ faults' \in {faults, faults + 1}
    BY <1>1 DEF Begin, Poll, ReadRsp, RspFails
  <2>5. Cardinality(abandoned') <= faults'
    BY <1>0, <2>2, FS_CardinalityType DEF CtlInv, HostInv
  <2>3. pc'[u] # "poll"
    BY <1>0, <1>1 DEF Begin, Poll, ReadRsp, RspFails
  <2>4. \A s \in Unretired \ abandoned' : LineAt(s).id.t # u
    <3>1. pc[u] # "poll" \/ (target[u] <= seqnum /\ target[u] \in Nat)
      BY <1>1, PollEnds DEF Begin, ReadRsp, RspFails
    <3>2. \A s \in Unretired : pc[u] # "poll" \/ target[u] # s
      BY <1>0, <3>1 DEF Unretired
    <3> QED BY <2>2, <3>2, HoldsNone
  <2> QED BY <1>0, <2>1, <2>2, <2>3, <2>4, <2>5, RingQuiet
<1>2. ASSUME NEW u \in Threads, PollFails(u) PROVE RingInv'
  <2>1. \A t \in Threads \ {u} : Same(t)
    BY <1>2, OthersSame DEF CtlInv
  <2>2. /\ UNCHANGED <<ring, cp_tail, seqnum, cl, used, done>>
        /\ pc[u] = "poll" /\ pc' = [pc EXCEPT ![u] = "idle"]
        /\ abandoned' = abandoned \cup {target[u]} /\ faults' = faults + 1
    BY <1>2 DEF PollFails, GiveUp
  <2>3. pc'[u] # "poll" /\ abandoned \subseteq abandoned'
    BY <1>0, <2>2
  <2>4. \A s \in Unretired \ abandoned' : LineAt(s).id.t # u
    BY <2>2, HoldsNone
  <2>5. \A t \in Threads \ {u} : pc[t] = "poll" => target[t] \notin abandoned'
    BY <1>0, <2>2 DEF RingInv
  <2>6. IsFiniteSet(abandoned') /\ Cardinality(abandoned') <= faults'
    BY <2>2, OneMoreFault
  <2> QED BY <2>1, <2>2, <2>3, <2>4, <2>5, <2>6, RingQuiet
<1> QED BY <1>1, <1>2, RingWrite, RingDevice, WhoMoves
-----------------------------------------------------------------------------
(* A held line names its submitter: the line a thread polls for is its own *)
(* until it retires.                                                       *)
LEMMA OwnLine ==
  ASSUME CtlInv, RingInv, NEW t \in Threads, pc[t] = "poll", target[t] > seqnum
  PROVE  /\ target[t] \in Unretired \ abandoned
         /\ LineAt(target[t]).id = Id(t) /\ LineAt(target[t]).op = Head(script[t])
         /\ LineAt(target[t]).slot = slot[t]
<1> DEFINE s == target[t]
           c == LineAt(target[t])
<1>1. s \in 0..cp_tail /\ seqnum \in Nat /\ cp_tail \in Nat
  BY Positions DEF CtlInv, HostInv, ThreadInv
<1>2. s \in Unretired /\ s \notin abandoned /\ s \in 1..cp_tail
  BY <1>1 DEF Unretired, RingInv
<1>3. Held(c) /\ c.seq = s
  BY <1>2 DEF RingInv
<1>4. c \in CLs /\ c.id.t \in Threads
  BY <1>2, LineAtType
<1>5. c.id.t = t
  BY <1>3, <1>4 DEF Held, RingInv
<1>6. c.id \in [t : Threads, k : 1..MaxPosts]
  BY <1>4 DEF CLs, Ids
<1>7. c.id = Id(t)
  BY <1>3, <1>5, <1>6 DEF Held, Id
<1> QED BY <1>2, <1>3, <1>5, <1>7 DEF Held

(* The type invariant of CpRing, for every number of threads and slots.    *)
THEOREM TypeCorrect == Spec => []TypeOK
BY Control, CtlTypes, PTL

(* Argument slots do not leak (args_slot_acquire and args_slot_release),   *)
(* whatever fails: no slot is held twice, and there are never more slots   *)
(* than threads that launch.                                               *)
THEOREM PoolCorrect == Spec => []PoolSettles
<1>1. CtlInv => PoolSettles
  <2> SUFFICES ASSUME PoolInv PROVE PoolSettles
    BY DEF CtlInv
  <2>1. nslots \in 0..Cardinality(Launchers) /\ free \in Seq(Nat)
    BY DEF PoolInv
  <2>2. IsFiniteSet(Launchers) /\ Cardinality(Launchers) \in Nat
    BY CpAssumption, FS_Subset, FS_CardinalityType
  <2>3. nslots <= Cardinality(Launchers) /\ DOMAIN free = 1..Len(free)
    BY <2>1, <2>2
  <2> QED BY <2>3 DEF PoolInv, PoolSettles
<1> QED BY <1>1, Control, PTL

(* The ring invariant holds throughout, if the ring is provisioned.        *)
LEMMA RingHolds ==
  ASSUME Provisioned
  PROVE  Spec => [](CtlInv /\ RingInv)
<1>1. Init => RingInv
  BY RingInit
<1>2. CtlInv /\ RingInv /\ [Next]_vars => RingInv'
  BY RingStep
<1> QED BY <1>1, <1>2, Control, PTL DEF Spec

(* cp_submit_cl_ never looks at the space left in the ring, and yet the CP *)
(* executes exactly the commands posted, in their order, if the ring has a *)
(* slot for every thread and every failed access and Q_SEQNUM does not     *)
(* wrap.                                                                   *)
THEOREM RingCorrect ==
  ASSUME Provisioned
  PROVE  Spec => []RingIntact
<1>1. RingInv => RingIntact
  BY DEF RingInv
<1> QED BY <1>1, RingHolds, PTL

(* Under the same hypothesis, a command executes while its submitter waits *)
(* in cp_submit_cl_, so what the command names is still there.             *)
THEOREM HeldCorrect ==
  ASSUME Provisioned
  PROVE  Spec => []HeldWhileExecuted
<1>1. CtlInv /\ RingInv => HeldWhileExecuted
  <2> SUFFICES ASSUME CtlInv, RingInv, Executing, cl.seq \notin abandoned
               PROVE  LET t == cl.id.t
                      IN  pc[t] = "poll" /\ target[t] = cl.seq /\ job[t] = cl.id.k
    BY DEF HeldWhileExecuted
  <2>1. /\ head < q_tail /\ seqnum = head /\ q_tail <= cp_tail
        /\ q_tail \in Nat /\ cp_tail \in Nat /\ seqnum \in Nat
    BY Positions DEF Executing, CtlInv, EngInv
  <2>2. seqnum + 1 \in Unretired
    BY <2>1 DEF Unretired
  <2>3. cl = LineAt(seqnum + 1) /\ LineAt(seqnum + 1).seq = seqnum + 1
    BY <2>2 DEF RingInv
  <2>4. Held(cl)
    BY <2>2, <2>3 DEF RingInv
  <2> QED BY <2>4 DEF Held
<1> QED BY <1>1, RingHolds, PTL
-----------------------------------------------------------------------------
(* What is still to execute has not retired.                               *)
LEMMA UnexecutedFacts ==
  ASSUME CtlInv
  PROVE  /\ Unexecuted \subseteq Unretired /\ Unexecuted \subseteq Nat
         /\ \A s \in Unexecuted : s > Len(done) /\ s > seqnum /\ s <= cp_tail
BY Positions DEF Unexecuted, Unretired

(* The command executed next is the oldest one.                            *)
LEMMA Executes ==
  ASSUME CtlInv, RingInv, TickBid
  PROVE  /\ UNCHANGED <<host, ringv>> /\ seqnum = Len(done) /\ Len(done') = Len(done) + 1
         /\ Len(done) + 1 \in Unexecuted /\ Unexecuted' = Unexecuted \ {Len(done) + 1}
         /\ cl = LineAt(Len(done) + 1) /\ cl \in CLs
<1>0. cp_tail \in Nat /\ seqnum \in Nat /\ Len(done) \in Nat
  BY Positions
<1>1. eng = "bid" /\ done' = Append(done, cl.seq) /\ UNCHANGED <<host, ringv, cp_tail>>
  BY DEF TickBid, ringv
<1>2. /\ Executing /\ head < q_tail /\ seqnum = head /\ Len(done) = seqnum
      /\ q_tail <= cp_tail /\ q_tail \in Nat /\ done \in Seq(1..MaxPosts) /\ cl \in CLs
  BY <1>1, Positions DEF CtlInv, EngInv, Executing
<1>3. Len(done) + 1 \in Unexecuted
  BY <1>0, <1>2 DEF Unexecuted
<1>4. Len(done') = Len(done) + 1
  BY <1>1, <1>2, LineFields
<1>5. Unexecuted' = Unexecuted \ {Len(done) + 1}
  BY <1>0, <1>1, <1>4 DEF Unexecuted
<1>6. cl = LineAt(Len(done) + 1)
  BY <1>2 DEF RingInv
<1> QED BY <1>1, <1>2, <1>3, <1>4, <1>5, <1>6

(* Any other step of the device executes nothing.                          *)
LEMMA ExecutesNot ==
  ASSUME DeviceStep, ~TickBid
  PROVE  UNCHANGED <<host, ringv, done, last_rsp, dcr, args, Unexecuted>>
<1>1. UNCHANGED <<host, ringv, cp_tail>>
  BY DeviceFrame DEF ringv
<1>2. UNCHANGED <<done, last_rsp, dcr, args>>
  BY DEF DeviceStep, Tick, TickFetch, TickDrop, TickDecode, TickLaunch, TickDone,
         TickRetire, KernelEnds, vars, device
<1> QED BY <1>1, <1>2 DEF Unexecuted

(* The lines still to execute after a thread's step: those from before, and*)
(* the one it posts.                                                       *)
LEMMA NewLines ==
  ASSUME CtlInv, RingInv, Provisioned, NEW u \in Threads,
         \/ \E kind \in DOMAIN Scripts : Begin(u, kind)
         \/ Post(u) \/ DoorbellFails(u) \/ PollFails(u) \/ Poll(u) \/ ReadRsp(u) \/ RspFails(u)
  PROVE  /\ UNCHANGED <<done, last_rsp, dcr, args, gpu, cl>>
         /\ \A s \in Unexecuted' :
              \/ s \in Unexecuted /\ LineAt(s)' = LineAt(s)
              \/ s = cp_tail + 1 /\ LineAt(s)' = Line(u) /\ pc[u] = "post"
<1>0. cp_tail \in Nat /\ Len(done) \in Nat
  BY Positions
<1>1. UNCHANGED <<done, last_rsp, dcr, args, gpu, cl>>
  BY SubmitFrame DEF device, fetch, CtlInv
<1>2. CASE Post(u) \/ DoorbellFails(u)
  <2>1. pc[u] = "post" /\ WriteCL(u)
    BY <1>2 DEF Post, DoorbellFails
  <2>2. /\ cp_tail' = cp_tail + 1 /\ LineAt(cp_tail)' = Line(u)
        /\ \A s \in Unretired : LineAt(s)' = LineAt(s)
    BY <2>1, Written
  <2>3. \A s \in Unexecuted' : s \in Unexecuted \/ s = cp_tail + 1
    BY <1>0, <1>1, <2>2 DEF Unexecuted
  <2>4. \A s : s = cp_tail + 1 => LineAt(s)' = Line(u)
    BY <2>2 DEF LineAt
  <2> QED BY <1>1, <2>1, <2>2, <2>3, <2>4, UnexecutedFacts
<1>3. CASE ~(Post(u) \/ DoorbellFails(u))
  <2>1. UNCHANGED <<ring, cp_tail>>
    BY <1>3 DEF Begin, PollFails, Poll, ReadRsp, RspFails, ringv
  <2> QED BY <1>1, <2>1 DEF Unexecuted, LineAt
<1> QED BY <1>2, <1>3

(* After its line, a thread that has just posted finds nothing.            *)
LEMMA JustPosted ==
  ASSUME CtlInv, NEW u \in Threads, Post(u)
  PROVE  /\ pc[u] = "post" /\ pc'[u] = "poll" /\ target'[u] = cp_tail + 1
         /\ UNCHANGED <<script, job, slot>>
         /\ \A s \in Unexecuted' : ~(s > target'[u])
         /\ ~(target'[u] <= Len(done))
<1>1. /\ cp_tail \in Nat /\ Len(done) \in Nat /\ Len(done) <= cp_tail
      /\ pc \in [Threads -> {"idle", "post", "poll", "rsp"}]
      /\ target \in [Threads -> Nat] /\ cp_expected = cp_tail
  BY Positions DEF CtlInv, HostInv
<1>2. /\ pc[u] = "post" /\ pc' = [pc EXCEPT ![u] = "poll"] /\ cp_tail' = cp_tail + 1
      /\ target' = [target EXCEPT ![u] = cp_expected + 1]
      /\ UNCHANGED <<script, job, slot, done>>
  BY DEF Post, WriteCL, pool, device
<1>3. pc'[u] = "poll" /\ target'[u] = cp_tail + 1
  BY <1>1, <1>2
<1>4. Len(done') \in Nat /\ Unexecuted' = (Len(done') + 1)..(cp_tail + 1)
  BY <1>1, <1>2 DEF Unexecuted
<1> QED BY <1>1, <1>2, <1>3, <1>4

(* Nobody reads at first.                                                  *)
LEMMA RspInit == Init => RspInv
BY DEF Init, RspInv, ReaderInv

(* Every step preserves the invariant of the response register.            *)
LEMMA RspStep == CtlInv /\ RingInv /\ RspInv /\ Provisioned /\ [Next]_vars => RspInv'
<1> SUFFICES ASSUME CtlInv, RingInv, RspInv, Provisioned, [Next]_vars, NEW t \in Threads
             PROVE  ReaderInv(t)'
  BY DEF RspInv
<1>0. /\ ReaderInv(t) /\ target[t] \in Nat /\ Len(done) \in Nat
      /\ pc \in [Threads -> {"idle", "post", "poll", "rsp"}] /\ seqnum <= Len(done)
      /\ seqnum \in Nat
  BY Positions DEF RspInv, CtlInv, HostInv
<1>1. CASE TickBid
  <2> DEFINE x == Len(done) + 1
  <2>1. /\ UNCHANGED <<pc, script, job, target>> /\ seqnum = Len(done) /\ x \in Nat
        /\ Len(done') = x /\ x \in Unexecuted /\ cl = LineAt(x) /\ cl \in CLs
    BY <1>0, <1>1, Executes DEF host
  <2>2. last_rsp' = IF cl.op = "dcr_rd" THEN cl ELSE last_rsp
    BY <1>1 DEF TickBid, LatchRsp
  <2>3. cl.seq = x
    BY <2>1, UnexecutedFacts DEF RingInv
  <2>4. Id(t)' = Id(t)
    BY <2>1 DEF Id
  <2> HIDE DEF x
  <2>5. ASSUME Answered(t), target[t] <= Len(done) PROVE Answered(t)'
    <3>1. CASE cl.op = "dcr_rd"
      <4>1. cl.seq >= target[t] /\ cl.seq # target[t]
        BY <1>0, <2>3, <2>5 DEF x
      <4> QED BY <2>1, <2>2, <3>1, <4>1 DEF Answered
    <3>2. CASE cl.op # "dcr_rd"
      BY <2>1, <2>2, <2>4, <2>5, <3>2 DEF Answered
    <3> QED BY <3>1, <3>2
  <2>6. CASE pc[t] = "rsp"
    <3>1. target[t] <= Len(done')
      BY <1>0, <2>1, <2>6 DEF ReaderInv, x
    <3> QED BY <1>0, <2>1, <2>5, <2>6, <3>1 DEF ReaderInv
  <2>7. CASE pc[t] = "poll" /\ Head(script[t]) = "dcr_rd" /\ target[t] = x
    <3>1. target[t] > seqnum
      BY <1>0, <2>1, <2>7 DEF x
    <3>2. cl.id = Id(t) /\ cl.op = "dcr_rd"
      BY <2>1, <2>7, <3>1, OwnLine
    <3>3. Answered(t)'
      BY <1>0, <2>1, <2>2, <2>3, <2>4, <2>7, <3>2 DEF Answered
    <3> QED BY <2>1, <2>7, <3>3 DEF ReaderInv
  <2>8. CASE pc[t] = "poll" /\ Head(script[t]) = "dcr_rd" /\ target[t] # x
    <3>1. target[t] <= Len(done') => target[t] <= Len(done)
      BY <1>0, <2>1, <2>8 DEF x
    <3> QED BY <1>0, <2>1, <2>5, <2>8, <3>1 DEF ReaderInv
  <2> QED BY <2>1, <2>6, <2>7, <2>8 DEF ReaderInv
<1>2. CASE DeviceStep /\ ~TickBid
  <2>1. UNCHANGED <<pc, script, job, target, done, last_rsp>>
    BY <1>2, ExecutesNot DEF host
  <2> QED BY <1>0, <2>1 DEF ReaderInv, Answered, Id
<1>3. ASSUME NEW u \in Threads,
             \/ \E kind \in DOMAIN Scripts : Begin(u, kind)
             \/ Post(u) \/ DoorbellFails(u) \/ PollFails(u) \/ Poll(u) \/ ReadRsp(u) \/ RspFails(u)
      PROVE  ReaderInv(t)'
  <2>1. UNCHANGED <<done, last_rsp>>
    BY <1>3, NewLines
  <2>2. CASE t # u
    <3>1. Same(t)
      BY <1>3, <2>2, OthersSame DEF CtlInv
    <3> QED BY <1>0, <2>1, <3>1 DEF ReaderInv, Answered, Id, Same
  <2>3. CASE t = u /\ Post(u)
    BY <2>1, <2>3, JustPosted DEF ReaderInv
  <2>4. CASE t = u /\ Poll(u)
    <3>1. pc'[t] \in {"rsp", "post", "idle"} /\ UNCHANGED <<job, target>>
          /\ (pc'[t] = "rsp" => Head(script[t]) = "dcr_rd")
      BY <1>0, <2>4 DEF Poll
    <3>2. pc[t] = "poll" /\ target[t] <= Len(done)
      BY <1>0, <2>4, PollEnds
    <3> QED BY <1>0, <2>1, <3>1, <3>2 DEF ReaderInv, Answered, Id
  <2>5. CASE t = u /\ ~Post(u) /\ ~Poll(u)
    <3>1. pc'[t] \in {"post", "idle"}
      BY <1>0, <1>3, <2>5 DEF Begin, DoorbellFails, PollFails, GiveUp, ReadRsp, RspFails
    <3> QED BY <3>1 DEF ReaderInv
  <2> QED BY <2>2, <2>3, <2>4, <2>5
<1> QED BY <1>1, <1>2, <1>3, WhoMoves

(* However many threads read DCRs, a reader that picks its response up in  *)
(* cp_submit_dcr_read, after the poll and outside the lock, gets its own   *)
(* or that of a read executed later: never an older one, never the value   *)
(* of another command.                                                     *)
THEOREM RspCorrect ==
  ASSUME Provisioned
  PROVE  Spec => []RspFresh
<1>1. Init => RspInv
  BY RspInit
<1>2. CtlInv /\ RingInv /\ RspInv /\ [Next]_vars => RspInv'
  BY RspStep
<1>3. RspInv => RspFresh
  BY LineFields DEF RspInv, ReaderInv, Answered, RspFresh
<1> QED BY <1>1, <1>2, <1>3, RingHolds, PTL DEF Spec
-----------------------------------------------------------------------------
(* Steps of a launch, and what is set up when it gets to the next.         *)
LEMMA StepFacts ==
  /\ \A h \in Steps : Before(h) \subseteq SetUpOps /\ h \notin Before(h)
  /\ Before("args") = {} /\ Before("dcr_arg") = Before("args") \cup {"args"}
  /\ Before("dcr_dim") = Before("dcr_arg") \cup {"dcr_arg"}
  /\ Before("launch") = Before("dcr_dim") \cup {"dcr_dim"} /\ Before("launch") = SetUpOps
  /\ SetUpOps \subseteq Steps /\ KmuRegs = SetUpOps \ {"args"}
BY DEF Before, Steps, SetUpOps, KmuRegs

(* Nobody launches at first.                                               *)
LEMMA KernelInit == Init => KernelInv
<1> SUFFICES ASSUME Init PROVE KernelInv
  OBVIOUS
<1>1. Unexecuted = {}
  BY DEF Init, Unexecuted
<1>2. \A t \in Threads : LauncherInv(t)
  BY DEF Init, LauncherInv, Launching, Busy
<1> QED BY <1>1, <1>2 DEF Init, KernelInv

(* Executing a command changes a set-up only if the command touches it,    *)
(* and completes it if it is the launch's own.                             *)
LEMMA ExecutesSetUp ==
  ASSUME CtlInv, RingInv, TickBid, NEW op \in SetUpOps, NEW i \in Ids, NEW k \in Slots
  PROVE  /\ Ready(op, i, k) /\ ~Touches(Len(done) + 1, op, i, k) => Ready(op, i, k)'
         /\ cl.op = op /\ cl.id = i /\ cl.slot = k => Ready(op, i, k)'
<1>1. cl = LineAt(Len(done) + 1) /\ cl \in CLs
  BY Executes
<1>2. /\ dcr' = IF cl.op \in KmuRegs THEN [dcr EXCEPT ![cl.op] = cl.id] ELSE dcr
      /\ args' = IF cl.op = "args" THEN [args EXCEPT ![cl.slot] = cl.id] ELSE args
  BY DEF TickBid
<1>3. cl.id \in Ids /\ cl.slot \in Slots
  BY <1>1, LineFields
<1>4. dcr \in [KmuRegs -> Ids \cup {NoCL}] /\ args \in [Slots -> Ids \cup {NoCL}]
  BY DEF CtlInv, MemInv
<1>5. CASE op = "args"
  <2>1. Touches(Len(done) + 1, op, i, k) <=> cl.op = "args" /\ cl.slot = k
    BY <1>1, <1>5 DEF Touches
  <2>2. args[k] = i /\ ~(cl.op = "args" /\ cl.slot = k) => args'[k] = i
    BY <1>2, <1>3, <1>4
  <2>3. cl.op = "args" /\ cl.id = i /\ cl.slot = k => args'[k] = i
    BY <1>2, <1>4
  <2> QED BY <1>5, <2>1, <2>2, <2>3 DEF Ready
<1>6. CASE op \in KmuRegs /\ op # "args"
  <2>1. Touches(Len(done) + 1, op, i, k) <=> cl.op = op /\ cl.id.t = i.t
    BY <1>1, <1>6 DEF Touches
  <2>2. cl.op # op => dcr'[op] = dcr[op]
    BY <1>2, <1>4, <1>6
  <2>3. cl.op = op => dcr'[op] = cl.id
    BY <1>2, <1>4, <1>6
  <2> QED BY <1>3, <1>6, <2>1, <2>2, <2>3 DEF Ready
<1> QED BY <1>5, <1>6, StepFacts

(* Executing a command: it is the launch's own, or does not touch what the *)
(* launch has set up.                                                      *)
LEMMA KernelExecutes ==
  ASSUME CtlInv, RingInv, KernelInv, TickBid
  PROVE  KernelInv'
<1> DEFINE x == Len(done) + 1
<1>0. Len(done) \in Nat /\ seqnum \in Nat /\ x \in Nat
  BY Positions
<1>1. /\ UNCHANGED <<pc, script, job, target, slot, ring>> /\ seqnum = Len(done)
      /\ Len(done') = x /\ x \in Unexecuted
      /\ Unexecuted' = Unexecuted \ {x} /\ cl = LineAt(x) /\ cl \in CLs
  BY Executes DEF host, ringv, pool
<1>2. eng = "bid" /\ cl' = cl /\ gpu' = IF cl.op = "launch" THEN "run" ELSE gpu
  BY DEF TickBid, fetch
<1>3. /\ \A s : LineAt(s)' = LineAt(s)
      /\ \A s, op, i, k : Touches(s, op, i, k)' <=> Touches(s, op, i, k)
  BY <1>1 DEF LineAt, Touches
<1>4. \A op \in SetUpOps, i \in Ids, k \in Slots :
        /\ Ready(op, i, k) /\ ~Touches(x, op, i, k) => Ready(op, i, k)'
        /\ cl.op = op /\ cl.id = i /\ cl.slot = k => Ready(op, i, k)'
  BY ExecutesSetUp
<1>5. \A s \in Unexecuted' : s \in Unexecuted /\ x < s
  <2>1. \A s \in Unexecuted : s > Len(done) /\ s \in Nat
    BY UnexecutedFacts
  <2> QED BY <1>0, <1>1, <2>1
<1> HIDE DEF x
<1>6. ASSUME NEW t \in Threads PROVE LauncherInv(t)'
  <2>9. PICK h, i, k : h = Head(script[t]) /\ i = Id(t) /\ k = slot[t]
    OBVIOUS
  <2>0. LauncherInv(t) /\ target[t] \in Nat /\ k \in Slots
    BY <2>9, SlotType DEF KernelInv, CtlInv, HostInv
  <2>1. /\ Id(t)' = i /\ target'[t] = target[t] /\ slot'[t] = k /\ pc'[t] = pc[t]
        /\ Head(script'[t]) = h /\ (Launching(t)' <=> Launching(t))
    BY <1>1, <2>9 DEF Id, Launching, Busy
  <2> SUFFICES ASSUME Launching(t) PROVE LauncherInv(t)'
    BY <2>1 DEF LauncherInv
  <2>2. i \in Ids
    <3>1. ThreadInv(t) /\ Busy(t)
      BY DEF CtlInv, HostInv, Launching
    <3>2. job[t] \in 1..MaxPosts
      BY <3>1, CpAssumption DEF ThreadInv, Busy
    <3> QED BY <2>9, <3>2 DEF Id, Ids
  <2>3. /\ k # 0 /\ \A op \in Before(h) : SetUp(t, op)
        /\ pc[t] = "poll" /\ h \in SetUpOps =>
             /\ \A s \in Unexecuted : s > target[t] => ~Touches(s, h, i, k)
             /\ target[t] <= Len(done) => Ready(h, i, k)
    BY <2>0, <2>9 DEF LauncherInv
  <2>4. h \in Steps
    BY <2>9 DEF Launching
  <2>5. ASSUME NEW op \in Before(h) PROVE SetUp(t, op)'
    <3>1. op \in SetUpOps /\ Ready(op, i, k) /\ \A s \in Unexecuted : ~Touches(s, op, i, k)
      BY <2>3, <2>4, <2>9, StepFacts DEF SetUp
    <3>2. Ready(op, i, k)'
      BY <1>1, <1>4, <2>0, <2>2, <3>1
    <3>3. \A s \in Unexecuted' : ~Touches(s, op, i, k)'
      BY <1>3, <1>5, <3>1
    <3>4. Ready(op, Id(t), slot[t])'
      BY <2>1, <3>2 DEF Ready
    <3>5. \A s \in Unexecuted' : ~Touches(s, op, Id(t), slot[t])'
      BY <2>1, <3>3 DEF Touches
    <3> QED BY <3>4, <3>5 DEF SetUp
  <2>6. ASSUME pc[t] = "poll", h \in SetUpOps
        PROVE  /\ \A s \in Unexecuted' : s > target[t] => ~Touches(s, h, i, k)'
               /\ target[t] <= x => Ready(h, i, k)'
    <3>1. \A s \in Unexecuted' : s > target[t] => ~Touches(s, h, i, k)'
      BY <1>3, <1>5, <2>3, <2>6
    <3>2. CASE target[t] = x
      <4>1. target[t] > seqnum
        BY <1>0, <1>1, <3>2 DEF x
      <4>2. cl.id = i /\ cl.slot = k /\ cl.op = h
        BY <1>1, <2>6, <2>9, <3>2, <4>1, OwnLine
      <4> QED BY <1>4, <2>0, <2>2, <2>6, <3>1, <4>2
    <3>3. CASE target[t] # x
      <4>1. target[t] <= x => target[t] <= Len(done) /\ x > target[t]
        BY <1>0, <2>0, <3>3 DEF x
      <4> QED BY <1>1, <1>4, <2>0, <2>2, <2>3, <2>6, <3>1, <4>1
    <3> QED BY <3>2, <3>3
  <2>7. (pc[t] = "poll" /\ Head(script[t]) \in SetUpOps =>
           /\ \A s \in Unexecuted : s > target[t] => ~Touches(s, Head(script[t]), Id(t), slot[t])
           /\ target[t] <= Len(done) => Ready(Head(script[t]), Id(t), slot[t]))'
    BY <1>1, <2>1, <2>6 DEF Touches, Ready
  <2> QED BY <2>1, <2>3, <2>5, <2>7 DEF LauncherInv
<1>7. ASSUME NEW s \in Unexecuted' PROVE LaunchReady(s)'
  <2>1. LaunchReady(s) /\ s \in Unexecuted /\ x < s
    BY <1>5 DEF KernelInv
  <2>2. LineAt(s).id \in Ids /\ LineAt(s).slot \in Slots
    <3>1. s \in 1..cp_tail
      BY <2>1, UnexecutedFacts, Positions
    <3> QED BY <3>1, LineAtType, LineFields
  <2>3. PICK i \in Ids, k \in Slots : i = LineAt(s).id /\ k = LineAt(s).slot
    BY <2>2
  <2>4. LineAt(s)'.id = i /\ LineAt(s)'.slot = k /\ LineAt(s)'.op = LineAt(s).op
    BY <1>3, <2>3
  <2>5. ASSUME LineAt(s).op = "launch", NEW op \in SetUpOps
        PROVE  /\ Ready(op, i, k)'
               /\ \A r \in Unexecuted' : r < s => ~Touches(r, op, i, k)'
    <3>1. Ready(op, i, k) /\ \A r \in Unexecuted : r < s => ~Touches(r, op, i, k)
      BY <2>1, <2>3, <2>5 DEF LaunchReady
    <3>2. ~Touches(x, op, i, k)
      BY <1>1, <2>1, <3>1
    <3>3. \A r \in Unexecuted' : r < s => ~Touches(r, op, i, k)'
      BY <1>3, <1>5, <3>1
    <3> QED BY <1>4, <3>1, <3>2, <3>3
  <2> QED BY <2>4, <2>5 DEF LaunchReady, Ready, Touches
<1>8. (gpu = "run" => \A op \in SetUpOps : Ready(op, cl.id, cl.slot))'
  <2>1. CASE cl.op = "launch"
    <3>1. cl.id \in Ids /\ cl.slot \in Slots
      BY <1>1, LineFields
    <3>2. ASSUME NEW op \in SetUpOps PROVE (Ready(op, cl.id, cl.slot))'
      <4>1. Ready(op, cl.id, cl.slot)
        BY <1>1, <2>1 DEF KernelInv, LaunchReady
      <4>2. ~Touches(x, op, cl.id, cl.slot)
        <5>1. cl.op # op
          BY <2>1 DEF SetUpOps
        <5> QED BY <1>1, <5>1 DEF Touches
      <4>3. PICK j \in Ids, m \in Slots : j = cl.id /\ m = cl.slot
        BY <3>1
      <4>4. Ready(op, j, m)'
        BY <1>4, <4>1, <4>2, <4>3
      <4> QED BY <1>2, <4>3, <4>4 DEF Ready
    <3> QED BY <3>2
  <2>2. CASE cl.op # "launch"
    BY <1>2, <2>2 DEF CtlInv, EngInv
  <2> QED BY <2>1, <2>2
<1> QED BY <1>6, <1>7, <1>8 DEF KernelInv

(* A thread's step: the line it posts does not touch what another launch   *)
(* has set up, the slot being that launch's alone, and a launch is posted  *)
(* when its set-up is complete.                                            *)
LEMMA KernelThread ==
  ASSUME CtlInv, RingInv, KernelInv, Provisioned, NEW u \in Threads,
         \/ \E kind \in DOMAIN Scripts : Begin(u, kind)
         \/ Post(u) \/ DoorbellFails(u) \/ PollFails(u) \/ Poll(u) \/ ReadRsp(u) \/ RspFails(u)
  PROVE  KernelInv'
<1>0. /\ Len(done) \in Nat /\ seqnum \in Nat /\ seqnum <= Len(done) /\ cp_tail \in Nat
      /\ pc \in [Threads -> {"idle", "post", "poll", "rsp"}]
      /\ script \in [Threads -> Seq(Opcodes)] /\ slot \in [Threads -> Nat]
  BY Positions DEF CtlInv, HostInv, PoolInv
<1>1. /\ UNCHANGED <<done, dcr, args, gpu, cl>>
      /\ \A s \in Unexecuted' :
           \/ s \in Unexecuted /\ LineAt(s)' = LineAt(s)
           \/ s = cp_tail + 1 /\ LineAt(s)' = Line(u) /\ pc[u] = "post"
  BY NewLines
<1>2. /\ Line(u).op = Head(script[u]) /\ Line(u).id = Id(u) /\ Line(u).slot = slot[u]
      /\ Line(u).id.t = u
  BY DEF Line, Id
<1>3. \A op, i, k : Ready(op, i, k)' <=> Ready(op, i, k)
  BY <1>1 DEF Ready
<1>4. \A s \in Unexecuted' : \A op, i, k :
        \/ s \in Unexecuted /\ (Touches(s, op, i, k)' <=> Touches(s, op, i, k))
        \/ /\ s = cp_tail + 1 /\ pc[u] = "post"
           /\ Touches(s, op, i, k)' <=>
                Head(script[u]) = op /\ IF op = "args" THEN slot[u] = k ELSE u = i.t
  BY <1>1, <1>2 DEF Touches
<1>5. ASSUME NEW t \in Threads, t # u PROVE LauncherInv(t)'
  <2>9. PICK h, i, k : h = Head(script[t]) /\ i = Id(t) /\ k = slot[t]
    OBVIOUS
  <2>0. LauncherInv(t) /\ Same(t)
    BY <1>5, OthersSame DEF KernelInv, CtlInv
  <2>1. /\ Id(t)' = i /\ target'[t] = target[t] /\ slot'[t] = k /\ pc'[t] = pc[t]
        /\ Head(script'[t]) = h /\ (Launching(t)' <=> Launching(t))
    BY <2>0, <2>9 DEF Same, Id, Launching, Busy
  <2> SUFFICES ASSUME Launching(t) PROVE LauncherInv(t)'
    BY <2>1 DEF LauncherInv
  <2>2. /\ k # 0 /\ \A op \in Before(h) : SetUp(t, op)
        /\ pc[t] = "poll" /\ h \in SetUpOps =>
             /\ \A s \in Unexecuted : s > target[t] => ~Touches(s, h, i, k)
             /\ target[t] <= Len(done) => Ready(h, i, k)
    BY <2>0, <2>9 DEF LauncherInv
  <2>3. i.t = t
    BY <2>9 DEF Id
  <2>4. slot[u] # k
    BY <1>0, <1>5, <2>2, <2>9 DEF CtlInv, PoolInv
  <2>5. \A s \in Unexecuted' : \A op :
          Touches(s, op, i, k)' => s \in Unexecuted /\ Touches(s, op, i, k)
    BY <1>4, <1>5, <2>3, <2>4
  <2>6. ASSUME NEW op \in Before(h) PROVE SetUp(t, op)'
    <3>1. Ready(op, i, k) /\ \A s \in Unexecuted : ~Touches(s, op, i, k)
      BY <2>2, <2>9 DEF SetUp
    <3>2. Ready(op, Id(t), slot[t])'
      BY <1>1, <2>1, <3>1 DEF Ready
    <3>3. \A s \in Unexecuted' : ~Touches(s, op, i, k)'
      BY <2>5, <3>1
    <3>4. \A s \in Unexecuted' : ~Touches(s, op, Id(t), slot[t])'
      BY <2>1, <3>3 DEF Touches
    <3> QED BY <3>2, <3>4 DEF SetUp
  <2>7. ASSUME pc[t] = "poll", h \in SetUpOps
        PROVE  /\ \A s \in Unexecuted' : s > target[t] => ~Touches(s, h, i, k)'
               /\ target[t] <= Len(done) => Ready(h, i, k)'
    BY <1>3, <2>2, <2>5, <2>7
  <2>8. (pc[t] = "poll" /\ Head(script[t]) \in SetUpOps =>
           /\ \A s \in Unexecuted : s > target[t] => ~Touches(s, Head(script[t]), Id(t), slot[t])
           /\ target[t] <= Len(done) => Ready(Head(script[t]), Id(t), slot[t]))'
    BY <1>1, <2>1, <2>7 DEF Touches, Ready
  <2> QED BY <2>1, <2>2, <2>6, <2>8 DEF LauncherInv
<1>6. LauncherInv(u)'
  <2>0. LauncherInv(u)
    BY DEF KernelInv
  <2>1. CASE Post(u)
    <3>2. PICK h, i, k : h = Head(script[u]) /\ i = Id(u) /\ k = slot[u]
      OBVIOUS
    <3>1. /\ pc[u] = "post" /\ pc'[u] = "poll" /\ target'[u] = cp_tail + 1
          /\ UNCHANGED <<script, job, slot>>
          /\ \A s \in Unexecuted' : ~(s > target'[u])
          /\ ~(target'[u] <= Len(done'))
      BY <1>1, <2>1, JustPosted
    <3> SUFFICES ASSUME Launching(u)' PROVE LauncherInv(u)'
      BY DEF LauncherInv
    <3>3. /\ Id(u)' = i /\ slot'[u] = k /\ Head(script'[u]) = h /\ Launching(u)
          /\ h \in Steps
      BY <3>1, <3>2 DEF Id, Launching, Busy
    <3>4. k # 0 /\ \A op \in Before(h) : SetUp(u, op)
      BY <2>0, <3>2, <3>3 DEF LauncherInv
    <3>5. ASSUME NEW op \in Before(h) PROVE SetUp(u, op)'
      <4>1. Ready(op, i, k) /\ (\A s \in Unexecuted : ~Touches(s, op, i, k)) /\ op # h
        BY <3>2, <3>3, <3>4, StepFacts DEF SetUp
      <4>2. Ready(op, Id(u), slot[u])'
        BY <1>1, <3>3, <4>1 DEF Ready
      <4>3. \A s \in Unexecuted' : ~Touches(s, op, i, k)'
        BY <1>4, <3>2, <4>1
      <4>4. \A s \in Unexecuted' : ~Touches(s, op, Id(u), slot[u])'
        BY <3>3, <4>3 DEF Touches
      <4> QED BY <4>2, <4>4 DEF SetUp
    <3> QED BY <3>1, <3>3, <3>4, <3>5 DEF LauncherInv
  <2>2. CASE Poll(u)
    <3> DEFINE q == script[u]
    <3>1. /\ pc[u] = "poll" /\ script' = [script EXCEPT ![u] = Tail(q)]
          /\ pc' = [pc EXCEPT ![u] = IF Head(q) = "dcr_rd" THEN "rsp"
                                     ELSE IF Len(q) > 1 THEN "post" ELSE "idle"]
          /\ UNCHANGED <<job, ring, cp_tail>>
      BY <2>2 DEF Poll, pool, ringv
    <3>2. target[u] <= seqnum /\ target[u] \in Nat
      BY <2>2, PollEnds
    <3>3. q \in Rest
      BY <3>1 DEF CtlInv, HostInv, ThreadInv, Busy
    <3> SUFFICES ASSUME Launching(u)' PROVE LauncherInv(u)'
      BY DEF LauncherInv
    <3>4. pc'[u] = "post" /\ Len(q) > 1 /\ Len(q) \in Nat /\ script'[u] = Tail(q)
      BY <1>0, <3>1 DEF Launching, Busy
    <3>5. slot' = slot
      <4>1. Len(q) # 1
        <5> DEFINE n == Len(q)
        <5>1. n > 1 /\ n \in Nat
          BY <3>4
        <5> HIDE DEF n
        <5>2. n # 1
          BY <5>1
        <5> QED BY <5>2 DEF n
      <4> QED BY <2>2, <4>1 DEF Poll, pool
    <3> DEFINE h == Head(q)
               n == Head(Tail(q))
    <3>6. /\ n \in Steps /\ n # "args" /\ (n = "dcr_arg" => h = "args")
          /\ (n = "dcr_dim" => h = "dcr_arg") /\ (n = "launch" => h = "dcr_dim")
      BY <3>3, <3>4, RestFacts DEF Launching
    <3> HIDE DEF q, h, n
    <3>7. h \in SetUpOps /\ Before(n) = Before(h) \cup {h}
      BY <3>6, StepFacts DEF Steps, SetUpOps
    <3>8. Launching(u) /\ Head(script[u]) = h
      BY <3>1, <3>7, StepFacts DEF Launching, Busy, q, h
    <3>9. /\ slot[u] # 0 /\ \A op \in Before(h) : SetUp(u, op)
          /\ \A s \in Unexecuted : s > target[u] => ~Touches(s, h, Id(u), slot[u])
          /\ target[u] <= Len(done) => Ready(h, Id(u), slot[u])
      BY <2>0, <3>1, <3>7, <3>8 DEF LauncherInv
    <3>10. target[u] <= Len(done) /\ \A s \in Unexecuted : s > target[u]
      BY <1>0, <3>2, UnexecutedFacts
    <3>11. SetUp(u, h)
      BY <3>9, <3>10 DEF SetUp
    <3>12. /\ Unexecuted' = Unexecuted /\ Id(u)' = Id(u) /\ slot'[u] = slot[u]
           /\ \A s : LineAt(s)' = LineAt(s)
      BY <1>1, <3>1, <3>5 DEF Id, Unexecuted, LineAt
    <3>13. ASSUME NEW op \in Before(n) PROVE SetUp(u, op)'
      <4>1. SetUp(u, op)
        BY <3>7, <3>9, <3>11
      <4>2. Ready(op, Id(u), slot[u])'
        BY <1>1, <3>12, <4>1 DEF Ready, SetUp
      <4>3. \A s \in Unexecuted' : ~Touches(s, op, Id(u), slot[u])'
        BY <3>12, <4>1 DEF Touches, SetUp
      <4> QED BY <4>2, <4>3 DEF SetUp
    <3>14. Head(script'[u]) = n
      BY <3>4 DEF n
    <3> QED BY <3>4, <3>9, <3>12, <3>13, <3>14 DEF LauncherInv
  <2>3. ASSUME NEW kind \in DOMAIN Scripts, Begin(u, kind) PROVE LauncherInv(u)'
    <3>1. /\ pc'[u] = "post" /\ script'[u] = Scripts[kind]
          /\ kind = "launch" => Acquire(u)
      BY <1>0, <2>3 DEF Begin
    <3> SUFFICES ASSUME Launching(u)' PROVE LauncherInv(u)'
      BY DEF LauncherInv
    <3>2. Head(script'[u]) = "args" /\ kind = "launch"
      BY <3>1, ScriptFacts DEF Launching, Steps, SetUpOps
    <3>3. slot'[u] # 0
      <4>1. /\ nslots \in Nat /\ free \in Seq(Nat)
            /\ \A j \in 1..Len(free) : free[j] \in 1..nslots
        <5>1. IsFiniteSet(Launchers) /\ Cardinality(Launchers) \in Nat
          BY CpAssumption, FS_Subset, FS_CardinalityType
        <5> QED BY <5>1 DEF CtlInv, PoolInv
      <4>2. CASE free # <<>>
        <5>1. Len(free) \in 1..Len(free) /\ slot' = [slot EXCEPT ![u] = free[Len(free)]]
          BY <3>1, <3>2, <4>1, <4>2 DEF Acquire
        <5>2. slot'[u] = free[Len(free)]
          BY <1>0, <5>1
        <5> QED BY <4>1, <5>1, <5>2
      <4>3. CASE free = <<>>
        <5>1. slot'[u] = nslots + 1
          BY <1>0, <3>1, <3>2, <4>3 DEF Acquire
        <5> QED BY <4>1, <5>1
      <4> QED BY <4>2, <4>3
    <3> QED BY <3>1, <3>2, <3>3, StepFacts DEF LauncherInv
  <2>4. CASE DoorbellFails(u) \/ PollFails(u) \/ ReadRsp(u) \/ RspFails(u)
    <3>1. pc'[u] = "idle"
      BY <1>0, <2>4 DEF DoorbellFails, PollFails, GiveUp, ReadRsp, RspFails
    <3> QED BY <3>1 DEF LauncherInv, Launching, Busy
  <2> QED BY <2>1, <2>2, <2>3, <2>4
<1>7. ASSUME NEW s \in Unexecuted' PROVE LaunchReady(s)'
  <2>0. \A r \in Unexecuted : r <= cp_tail /\ r \in Nat
    BY UnexecutedFacts
  <2>1. CASE s \in Unexecuted /\ LineAt(s)' = LineAt(s)
    <3>6. PICK i, k : i = LineAt(s).id /\ k = LineAt(s).slot
      OBVIOUS
    <3>1. /\ LaunchReady(s)
          /\ LineAt(s)'.id = i /\ LineAt(s)'.slot = k /\ LineAt(s)'.op = LineAt(s).op
      BY <2>1, <3>6 DEF KernelInv
    <3>2. \A r \in Unexecuted' : r < s => r \in Unexecuted /\ LineAt(r)' = LineAt(r)
      BY <1>0, <1>1, <2>0, <2>1
    <3>3. ASSUME LineAt(s).op = "launch", NEW op \in SetUpOps
          PROVE  /\ Ready(op, i, k)'
                 /\ \A r \in Unexecuted' : r < s => ~Touches(r, op, i, k)'
      <4>1. Ready(op, i, k) /\ \A r \in Unexecuted : r < s => ~Touches(r, op, i, k)
        BY <3>1, <3>3, <3>6 DEF LaunchReady
      <4>2. \A r \in Unexecuted' : r < s => ~Touches(r, op, i, k)'
        BY <3>2, <4>1 DEF Touches
      <4> QED BY <1>3, <4>1, <4>2
    <3> QED BY <3>1, <3>3 DEF LaunchReady, Ready, Touches
  <2>2. CASE s = cp_tail + 1 /\ LineAt(s)' = Line(u) /\ pc[u] = "post"
    <3>1. CASE Head(script[u]) = "launch"
      <4>1. \A op \in SetUpOps : SetUp(u, op)
        <5>1. LauncherInv(u) /\ Launching(u)
          BY <2>2, <3>1 DEF KernelInv, Launching, Busy, Steps
        <5> QED BY <3>1, <5>1, StepFacts DEF LauncherInv
      <4>2. LineAt(s)'.id = Id(u) /\ LineAt(s)'.slot = slot[u]
        BY <1>2, <2>2
      <4>3. ASSUME NEW op \in SetUpOps
            PROVE  /\ Ready(op, LineAt(s).id, LineAt(s).slot)'
                   /\ \A r \in Unexecuted' : r < s => ~Touches(r, op, LineAt(s).id, LineAt(s).slot)'
        <5>1. Ready(op, Id(u), slot[u]) /\ \A r \in Unexecuted : ~Touches(r, op, Id(u), slot[u])
          BY <4>1 DEF SetUp
        <5>2. Ready(op, LineAt(s).id, LineAt(s).slot)'
          BY <1>1, <4>2, <5>1 DEF Ready
        <5>3. \A r \in Unexecuted' : r < s => r \in Unexecuted /\ LineAt(r)' = LineAt(r)
          BY <1>0, <1>1, <2>0, <2>2
        <5>4. \A r \in Unexecuted' : r < s => ~Touches(r, op, LineAt(s).id, LineAt(s).slot)'
          BY <4>2, <5>1, <5>3 DEF Touches
        <5> QED BY <5>2, <5>4
      <4> QED BY <4>3 DEF LaunchReady
    <3>2. CASE Head(script[u]) # "launch"
      BY <1>2, <2>2, <3>2 DEF LaunchReady
    <3> QED BY <3>1, <3>2
  <2> QED BY <1>1, <2>1, <2>2
<1>8. (gpu = "run" => \A op \in SetUpOps : Ready(op, cl.id, cl.slot))'
  BY <1>1 DEF KernelInv, Ready
<1> QED BY <1>5, <1>6, <1>7, <1>8 DEF KernelInv

(* Every step preserves the invariant of the launches.                     *)
LEMMA KernelStep ==
  CtlInv /\ RingInv /\ KernelInv /\ Provisioned /\ [Next]_vars => KernelInv'
<1> SUFFICES ASSUME CtlInv, RingInv, KernelInv, Provisioned, [Next]_vars
             PROVE  KernelInv'
  OBVIOUS
<1>1. CASE DeviceStep /\ ~TickBid
  <2>1. UNCHANGED <<pc, script, job, target, slot, ring, done, dcr, args, Unexecuted>>
    BY <1>1, ExecutesNot DEF host, ringv, pool
  <2>2. /\ \A op, i, k : Ready(op, i, k)' <=> Ready(op, i, k)
        /\ \A s, op, i, k : Touches(s, op, i, k)' <=> Touches(s, op, i, k)
        /\ \A s : LineAt(s)' = LineAt(s)
    BY <2>1 DEF Ready, Touches, LineAt
  <2>3. \A t \in Threads : LauncherInv(t)'
    BY <2>1 DEF KernelInv, LauncherInv, Launching, Busy, SetUp, Ready, Touches, LineAt, Id
  <2>4. \A s \in Unexecuted' : LaunchReady(s)'
    BY <2>1 DEF KernelInv, LaunchReady, Ready, Touches, LineAt
  <2>5. gpu' = "run" => gpu = "run"
    BY <1>1 DEF DeviceStep, Tick, TickFetch, TickDrop, TickDecode, TickLaunch, TickDone,
                TickRetire, KernelEnds, vars, device
  <2>6. gpu = "run" => eng = "wait"
    BY DEF CtlInv, EngInv
  <2>7. eng = "wait" => cl' = cl
    BY <1>1 DEF DeviceStep, Tick, TickFetch, TickDrop, TickDecode, TickLaunch, TickDone,
                TickRetire, KernelEnds, vars, fetch
  <2>8. (gpu = "run" => \A op \in SetUpOps : Ready(op, cl.id, cl.slot))'
    BY <2>1, <2>5, <2>6, <2>7 DEF KernelInv, Ready
  <2> QED BY <2>3, <2>4, <2>8 DEF KernelInv
<1> QED BY <1>1, KernelExecutes, KernelThread, WhoMoves

(* However many threads launch, and whatever launches failed half-way, a   *)
(* running kernel has not been counted as retired, its argument slot holds *)
(* the arguments of its own launch (enqueue_launch), and nothing of its    *)
(* descriptor is left over from an earlier launch of its thread.           *)
THEOREM KernelCorrect ==
  ASSUME Provisioned
  PROVE  Spec => []KernelSetUp
<1>1. Init => KernelInv
  BY KernelInit
<1>2. CtlInv /\ RingInv /\ KernelInv /\ [Next]_vars => KernelInv'
  BY KernelStep
<1>3. CtlInv /\ RingInv /\ KernelInv => KernelSetUp
  <2> SUFFICES ASSUME CtlInv, RingInv, KernelInv, gpu = "run" PROVE KernelSetUp
    BY DEF KernelSetUp
  <2>1. eng = "wait" /\ cl.op = "launch" /\ Executing /\ Len(done) = seqnum + 1
    BY DEF CtlInv, EngInv, Executing
  <2>2. /\ head < q_tail /\ seqnum = head /\ q_tail <= cp_tail
        /\ q_tail \in Nat /\ cp_tail \in Nat /\ seqnum \in Nat
    BY <2>1, Positions DEF Executing, CtlInv, EngInv
  <2>3. seqnum + 1 \in Unretired
    BY <2>2 DEF Unretired
  <2>4. cl.seq = seqnum + 1 /\ seqnum < cl.seq
    BY <2>1, <2>2, <2>3 DEF RingInv
  <2>5. args[cl.slot] = cl.id /\ \A f \in KmuRegs : dcr[f].t = cl.id.t => dcr[f] = cl.id
    BY StepFacts DEF KernelInv, Ready, SetUpOps
  <2> QED BY <2>1, <2>4, <2>5 DEF KernelSetUp
<1> QED BY <1>1, <1>2, <1>3, RingHolds, PTL DEF Spec
=============================================================================
