------------------------------- MODULE CpRing -------------------------------
(***************************************************************************)
(* The control path of the Vortex runtime: the threads that submit device  *)
(* commands (the cp_submit operations of device.cpp), the command ring     *)
(* in host memory they share, and the Command Processor that executes it   *)
(* (sim/common/cmd_processor.cpp, the functional CP behind the simulator   *)
(* back ends).                                                             *)
(*                                                                         *)
(* A command line (CL) of the runtime holds one command, so ring positions *)
(* count commands: cp_tail is cp_tail_/64.  A CL is its opcode, the thread *)
(* and operation that posted it, and its sequence number, which the real   *)
(* line does not carry: it is the identity that the properties compare.    *)
(* Addresses and data are abstracted to the operation they belong to.      *)
(***************************************************************************)
EXTENDS Integers, Sequences, FiniteSets

CONSTANTS
  Threads,      \* worker threads of the queues, and host threads
  Launchers,    \* those that launch kernels
  Readers,      \* those that read DCRs
  RingSlots,    \* CP_RING_SIZE / CP_CL_BYTES
  SeqMod,       \* 2^32: values of the Q_SEQNUM register
  MaxPosts,     \* bound: command lines ever posted
  MaxFaults,    \* bound: register accesses that fail
  NoCL          \* no command line; no operation

ASSUME CpAssumption ==
  /\ IsFiniteSet(Threads) /\ Launchers \subseteq Threads /\ Readers \subseteq Threads
  /\ RingSlots \in Nat \ {0} /\ SeqMod \in Nat \ {0}
  /\ MaxPosts \in Nat /\ MaxFaults \in Nat

Opcodes == {"mem", "args", "dcr_arg", "dcr_dim", "dcr_rd", "launch", "flush"}
KmuRegs == {"dcr_arg", "dcr_dim"}    \* the two parts of the descriptor
Ids == [t : Threads, k : 1..MaxPosts]
Slots == 0..Cardinality(Threads)     \* kernel-argument slots; 0 is none
CLs == [op : Opcodes, id : Ids, slot : Slots, seq : 1..MaxPosts]

(* Mutant: the arguments are uploaded after the launch.                    *)
Scripts_LateArgs == [xfer   |-> <<"mem">>,
                     read   |-> <<"dcr_rd">>,
                     launch |-> <<"dcr_arg", "dcr_dim", "launch", "args", "flush", "mem">>]

(* The command lines each kind of operation submits, one after the other,  *)
(* each one retired before the next is posted.  A launch stages its        *)
(* arguments, programs the KMU descriptor (some twenty DCR writes, here    *)
(* two: the ARG registers that point at the arguments, and the entry and   *)
(* shape registers), launches, flushes the caches and drains the console   *)
(* rings.                                                                  *)
Scripts == [xfer   |-> <<"mem">>,
            read   |-> <<"dcr_rd">>,
            launch |-> <<"args", "dcr_arg", "dcr_dim", "launch", "flush", "mem">>]

ASSUME CpNoCLAssumption == NoCL \notin CLs \cup Ids

VARIABLES
  pc,            \* pc[t]: idle, ready to post, poll-ing, or picking up a rsp
  script,        \* script[t]: opcodes its operation still has to submit
  job,           \* job[t]: operations begun by t
  target,        \* target[t]: the sequence number t polls for
  slot,          \* slot[t]: the kernel-argument slot t holds, or 0
  free, nslots,  \* args_pool_free_, and the slots ever allocated
  ring,          \* the ring in host memory
  cp_tail,       \* command lines written to the ring (cp_tail_)
  cp_expected,   \* cp_expected_seqnum_
  faults, abandoned, \* failed accesses; commands whose submitter gave up
  q_tail,        \* the tail the CP was told (Q_TAIL)
  head,          \* command lines the CP has dropped
  cl, used,      \* the line in cl_buf_, and whether its command retired
  eng, launch,   \* engine FSM and launch FSM
  seqnum,        \* commands retired (Q_SEQNUM)
  last_rsp,      \* Q_LAST_DCR_RSP: the command it answers
  dcr,           \* KMU descriptor: the launch that wrote each part of it
  args,          \* args[s]: the launch whose arguments are in slot s
  gpu,           \* idle, or running a kernel
  done           \* history: the commands executed, in order

pool == <<slot, free, nslots>>
host == <<pc, script, job, target, pool>>
ringv == <<ring, cp_tail, cp_expected, faults, abandoned, q_tail>>
fetch == <<head, cl, used>>
device == <<last_rsp, dcr, args, gpu, done>>
vars == <<host, ringv, fetch, eng, launch, seqnum, device>>

Id(t) == [t |-> t, k |-> job[t]]
-----------------------------------------------------------------------------
(* Submitting threads.                                                     *)

(* args_slot_acquire: the slot released last, or a new one.  A failed      *)
(* allocation ends the launch before it has changed anything; an oversized *)
(* block has memory of its own and never meets the pool.                   *)
Acquire(t) ==
  IF free # <<>>
  THEN /\ slot' = [slot EXCEPT ![t] = free[Len(free)]]
       /\ free' = SubSeq(free, 1, Len(free) - 1)
       /\ UNCHANGED nslots
  ELSE /\ slot' = [slot EXCEPT ![t] = nslots + 1]
       /\ nslots' = nslots + 1
       /\ UNCHANGED free

(* Mutant: the slot of a failed launch is not given back.                  *)
Release_Leaks(t) == slot' = [slot EXCEPT ![t] = 0] /\ UNCHANGED <<free, nslots>>

(* args_slot_release, at the end of a launch and on its error paths.       *)
Release(t) ==
  /\ slot' = [slot EXCEPT ![t] = 0]
  /\ free' = IF slot[t] = 0 THEN free ELSE Append(free, slot[t])
  /\ UNCHANGED nslots

(* Begin an operation: a launch, a DCR read or a memory transfer.          *)
Begin(t, kind) ==
  /\ pc[t] = "idle" /\ cp_tail < MaxPosts
  /\ kind = "launch" => t \in Launchers
  /\ kind = "read" => t \in Readers
  /\ pc' = [pc EXCEPT ![t] = "post"]
  /\ script' = [script EXCEPT ![t] = Scripts[kind]]
  /\ job' = [job EXCEPT ![t] = @ + 1]
  /\ IF kind = "launch" THEN Acquire(t) ELSE UNCHANGED pool
  /\ UNCHANGED <<target, ringv, fetch, eng, launch, seqnum, device>>

Line(t) == [op |-> Head(script[t]), id |-> Id(t), slot |-> slot[t], seq |-> cp_tail + 1]

(* Under cp_mu_: write the line at the tail, take a sequence number.       *)
WriteCL(t) ==
  /\ cp_tail < MaxPosts
  /\ ring' = [ring EXCEPT ![cp_tail % RingSlots] = Line(t)]
  /\ cp_tail' = cp_tail + 1
  /\ cp_expected' = cp_expected + 1
  /\ target' = [target EXCEPT ![t] = cp_expected + 1]

(* Mutant: the ring keeps one slot fewer than the CP walks.                *)
Post_ShortRing(t) ==
  /\ pc[t] = "post" /\ cp_tail < MaxPosts
  /\ ring' = [ring EXCEPT ![cp_tail % (RingSlots - 1)] = Line(t)]
  /\ cp_tail' = cp_tail + 1
  /\ cp_expected' = cp_expected + 1
  /\ target' = [target EXCEPT ![t] = cp_expected + 1]
  /\ q_tail' = cp_tail + 1
  /\ pc' = [pc EXCEPT ![t] = "poll"]
  /\ UNCHANGED <<script, job, pool, faults, abandoned, fetch, eng, launch, seqnum, device>>

(* Post the next line and ring the doorbell: the HI half of Q_TAIL commits *)
(* both halves at once.  The space left in the ring is not looked at.      *)
Post(t) ==
  /\ pc[t] = "post"
  /\ WriteCL(t)
  /\ q_tail' = cp_tail + 1
  /\ pc' = [pc EXCEPT ![t] = "poll"]
  /\ UNCHANGED <<script, job, pool, faults, abandoned, fetch, eng, launch, seqnum, device>>

(* An access to the CP's registers fails: the operation ends with an error *)
(* (VX_ERR_INVALID_VALUE), leaving its line in the ring: unknown to the CP *)
(* until the next doorbell if it was the doorbell that failed, in flight   *)
(* if it was the poll.                                                     *)
GiveUp(t, seq) ==
  /\ faults < MaxFaults
  /\ faults' = faults + 1
  /\ abandoned' = abandoned \cup {seq}
  /\ pc' = [pc EXCEPT ![t] = "idle"]
  /\ script' = [script EXCEPT ![t] = <<>>]
  /\ Release(t)
  /\ UNCHANGED <<job, q_tail, fetch, eng, launch, seqnum, device>>

DoorbellFails(t) == pc[t] = "post" /\ WriteCL(t) /\ GiveUp(t, cp_tail + 1)

PollFails(t) ==
  /\ pc[t] = "poll" /\ GiveUp(t, target[t])
  /\ UNCHANGED <<ring, cp_tail, cp_expected, target>>

(* Mutant: the comparison is off by one.                                   *)
Retired_Early(t) == (seqnum % SeqMod) + 1 >= target[t]

(* Mutant: the poll waits for a later command to retire.                   *)
Retired_Strict(t) == seqnum % SeqMod > target[t]

(* Q_SEQNUM is read as 32 bits and compared with a 64-bit target.          *)
Retired(t) == seqnum % SeqMod >= target[t]

(* A poll that finds the command retired: on to the next line, to the      *)
(* response of a read, or to the end of the operation.                     *)
Poll(t) ==
  /\ pc[t] = "poll" /\ Retired(t)
  /\ script' = [script EXCEPT ![t] = Tail(@)]
  /\ pc' = [pc EXCEPT ![t] = IF Head(script[t]) = "dcr_rd" THEN "rsp"
                             ELSE IF Len(script[t]) > 1 THEN "post" ELSE "idle"]
  /\ IF Len(script[t]) = 1 THEN Release(t) ELSE UNCHANGED pool
  /\ UNCHANGED <<job, target, ringv, fetch, eng, launch, seqnum, device>>

(* cp_submit_dcr_read picks the response up, last_rsp, in a later and      *)
(* unlocked access...                                                      *)
ReadRsp(t) ==
  /\ pc[t] = "rsp"
  /\ pc' = [pc EXCEPT ![t] = "idle"]
  /\ UNCHANGED <<script, job, target, pool, ringv, fetch, eng, launch, seqnum, device>>

(* ... which may fail too: the command has retired, its value is lost.     *)
RspFails(t) ==
  /\ pc[t] = "rsp" /\ faults < MaxFaults
  /\ faults' = faults + 1
  /\ pc' = [pc EXCEPT ![t] = "idle"]
  /\ UNCHANGED <<script, job, target, pool, ring, cp_tail, cp_expected, abandoned, q_tail>>
  /\ UNCHANGED <<fetch, eng, launch, seqnum, device>>
-----------------------------------------------------------------------------
(* The Command Processor: one action per kind of tick of its engine; the   *)
(* launch FSM moves in the same tick, after the engine.                    *)

(* Idle, no line loaded: fetch the line at the head and decode it.         *)
TickFetch ==
  /\ eng = "idle" /\ cl = NoCL /\ head < q_tail
  /\ cl' = ring[head % RingSlots]
  /\ used' = FALSE
  /\ eng' = "decode"
  /\ UNCHANGED <<host, ringv, head, launch, seqnum, device>>

(* Idle, the loaded line is used up: drop it.                              *)
TickDrop ==
  /\ eng = "idle" /\ cl # NoCL /\ used
  /\ head' = head + 1
  /\ cl' = NoCL
  /\ UNCHANGED <<host, ringv, used, eng, launch, seqnum, device>>

TickDecode ==
  /\ eng = "decode"
  /\ eng' = "bid"
  /\ UNCHANGED <<host, ringv, fetch, launch, seqnum, device>>

(* Mutant: a DCR write is latched too.                                     *)
LatchRsp_Writes ==
  last_rsp' = IF cl.op \in {"dcr_rd"} \cup KmuRegs THEN cl ELSE last_rsp

(* Only a CMD_DCR_READ latches a response; the DCR reads a cache flush     *)
(* makes, one per core, do not.                                            *)
LatchRsp == last_rsp' = IF cl.op = "dcr_rd" THEN cl ELSE last_rsp

(* Execute the command.  A launch pulses start; anything else retires.     *)
TickBid ==
  /\ eng = "bid"
  /\ eng' = IF cl.op = "launch" THEN "wait" ELSE "retire"
  /\ launch' = IF cl.op = "launch" THEN "busy" ELSE launch
  /\ gpu' = IF cl.op = "launch" THEN "run" ELSE gpu
  /\ LatchRsp
  /\ dcr' = IF cl.op \in KmuRegs THEN [dcr EXCEPT ![cl.op] = cl.id] ELSE dcr
  /\ args' = IF cl.op = "args" THEN [args EXCEPT ![cl.slot] = cl.id] ELSE args
  /\ done' = Append(done, cl.seq)
  /\ UNCHANGED <<host, ringv, fetch, seqnum>>

(* Mutant: the launch FSM does not wait for the GPU to fall idle.          *)
TickLaunch_NoDrain ==
  /\ eng = "wait"
  /\ \/ launch = "busy" /\ gpu = "run" /\ launch' = "drain"
     \/ launch = "drain" /\ launch' = "idle"
  /\ UNCHANGED <<host, ringv, fetch, eng, seqnum, device>>

(* The launch FSM: WaitBusy until a sample finds the GPU busy, WaitDrain   *)
(* until one finds it idle.                                                *)
TickLaunch ==
  /\ eng = "wait"
  /\ \/ launch = "busy" /\ gpu = "run" /\ launch' = "drain"
     \/ launch = "drain" /\ gpu = "idle" /\ launch' = "idle"
  /\ UNCHANGED <<host, ringv, fetch, eng, seqnum, device>>

TickDone ==
  /\ eng = "wait" /\ launch = "idle"
  /\ eng' = "retire"
  /\ UNCHANGED <<host, ringv, fetch, launch, seqnum, device>>

TickRetire ==
  /\ eng = "retire"
  /\ seqnum' = seqnum + 1
  /\ used' = TRUE
  /\ eng' = "idle"
  /\ UNCHANGED <<host, ringv, head, cl, launch, device>>

(* The kernel ends: processor_.run() on a thread of its own, which waits   *)
(* for nobody, not even for the launch FSM to have sampled busy.           *)
KernelEnds ==
  /\ gpu = "run"
  /\ gpu' = "idle"
  /\ UNCHANGED <<host, ringv, fetch, eng, launch, seqnum, last_rsp, dcr, args, done>>
-----------------------------------------------------------------------------
Init ==
  /\ pc = [t \in Threads |-> "idle"]
  /\ script = [t \in Threads |-> <<>>]
  /\ job = [t \in Threads |-> 0]
  /\ target = [t \in Threads |-> 0]
  /\ ring = [i \in 0..(RingSlots - 1) |-> NoCL]
  /\ cp_tail = 0 /\ cp_expected = 0 /\ faults = 0 /\ abandoned = {} /\ q_tail = 0
  /\ head = 0 /\ cl = NoCL /\ used = FALSE
  /\ eng = "idle" /\ launch = "idle" /\ seqnum = 0
  /\ slot = [t \in Threads |-> 0] /\ free = <<>> /\ nslots = 0
  /\ dcr = [f \in KmuRegs |-> NoCL] /\ args = [s \in Slots |-> NoCL]
  /\ last_rsp = NoCL /\ gpu = "idle" /\ done = <<>>

Submit(t) ==
  \/ \E kind \in DOMAIN Scripts : Begin(t, kind)
  \/ Post(t) \/ DoorbellFails(t) \/ PollFails(t) \/ Poll(t) \/ ReadRsp(t) \/ RspFails(t)

Tick == TickFetch \/ TickDrop \/ TickDecode \/ TickBid \/ TickLaunch \/ TickDone \/ TickRetire

Next == (\E t \in Threads : Submit(t)) \/ Tick \/ KernelEnds

Spec == Init /\ [][Next]_vars

(* A polling thread runs, every register access of it ticks the CP, and    *)
(* kernels end.                                                            *)
Fairness == /\ WF_vars(Tick) /\ WF_vars(KernelEnds)
            /\ \A t \in Threads : WF_vars(Poll(t))

FairSpec == Spec /\ Fairness
-----------------------------------------------------------------------------
TypeOK ==
  /\ pc \in [Threads -> {"idle", "post", "poll", "rsp"}]
  /\ \A t \in Threads : /\ script[t] \in Seq(Opcodes)
                        /\ pc[t] \in {"post", "poll"} => script[t] # <<>>
  /\ job \in [Threads -> 0..MaxPosts]
  /\ target \in [Threads -> 0..MaxPosts]
  /\ slot \in [Threads -> Slots] /\ free \in Seq(Slots \ {0}) /\ nslots \in Slots
  /\ ring \in [0..(RingSlots - 1) -> CLs \cup {NoCL}]
  /\ cp_tail \in 0..MaxPosts /\ cp_expected \in 0..MaxPosts
  /\ faults \in 0..MaxFaults /\ abandoned \subseteq 1..MaxPosts
  /\ q_tail \in 0..MaxPosts /\ head \in 0..MaxPosts /\ seqnum \in 0..MaxPosts
  /\ cl \in CLs \cup {NoCL} /\ used \in BOOLEAN
  /\ eng \in {"idle", "decode", "bid", "wait", "retire"}
  /\ launch \in {"idle", "busy", "drain"}
  /\ last_rsp \in CLs \cup {NoCL} /\ dcr \in [KmuRegs -> Ids \cup {NoCL}]
  /\ args \in [Slots -> Ids \cup {NoCL}]
  /\ gpu \in {"idle", "run"}
  /\ done \in Seq(1..MaxPosts)

(* The CP executes exactly the commands posted, in the order posted: though*)
(* no submitter looks at the space left in the ring (cp_submit_cl_), no    *)
(* line is overwritten before it was fetched, because every submitter      *)
(* waits for its own command and the ring has a slot for each of them and  *)
(* for each command a failed access left behind.                           *)
RingIntact == \A i \in 1..Len(done) : done[i] = i

(* A command executes while its submitter waits for it, so the staging     *)
(* buffer and the objects it names are still there; only a command whose   *)
(* register access failed can outlive its submitter's wait.                *)
Executing == cl # NoCL /\ ~used
HeldWhileExecuted ==
  Executing /\ cl.seq \notin abandoned =>
    LET t == cl.id.t IN pc[t] = "poll" /\ target[t] = cl.seq /\ job[t] = cl.id.k

(* A kernel runs while its launch is the command being executed: Q_SEQNUM  *)
(* has not counted it ("Q_SEQNUM advance means the kernel finished",       *)
(* enqueue_launch).  All along, its argument slot holds the arguments of   *)
(* its own launch, though the slot may have been given back by a submitter *)
(* that failed and be another launch's by now; and no part of the          *)
(* descriptor is left over from an earlier launch of the same thread that  *)
(* failed half-way.                                                        *)
KernelSetUp ==
  gpu = "run" =>
    /\ eng = "wait" /\ cl.op = "launch" /\ Len(done) = cl.seq /\ seqnum < cl.seq
    /\ args[cl.slot] = cl.id
    /\ \A f \in KmuRegs : dcr[f].t = cl.id.t => dcr[f] = cl.id

(* What enqueue_mu_ "Serializes per-command platform calls when multiple   *)
(* queues share one backend" says: a running kernel has the descriptor of  *)
(* its own launch.  The mutex is a member of each Queue, so that the DCR   *)
(* writes of two queues' launches mix.                                     *)
KernelOwn == gpu = "run" => \A f \in KmuRegs : dcr[f] = cl.id

(* A DCR read never picks up a stale value or that of a command of another *)
(* kind: Q_LAST_DCR_RSP holds its own response or that of a read executed  *)
(* after it, whatever other operations execute before the pick-up.         *)
RspFresh ==
  \A t \in Threads : pc[t] = "rsp" =>
    /\ last_rsp # NoCL /\ last_rsp.op = "dcr_rd"
    /\ last_rsp.seq >= target[t] /\ (last_rsp.seq = target[t] => last_rsp.id = Id(t))

(* What the same comment says of DCR reads (enqueue_dcr_read holds         *)
(* enqueue_mu_ too): the response is still its own when the thread picks   *)
(* it up.                                                                  *)
RspOwn == \A t \in Threads : pc[t] = "rsp" => last_rsp.id = Id(t)

(* Argument slots are not leaked on any path: there are never more than    *)
(* launches in progress at once ("the free-list naturally settles at the   *)
(* count of concurrent launches", args_slot_acquire), and no slot is held  *)
(* twice.                                                                  *)
PoolSettles ==
  /\ nslots <= Cardinality(Launchers)
  /\ \A t, u \in Threads : t # u /\ slot[t] # 0 => slot[t] # slot[u]
  /\ \A t \in Threads, i \in DOMAIN free : free[i] # slot[t]

(* The launch FSM waits for a kernel to be seen busy that has ended.       *)
KernelMissed == launch = "busy" /\ gpu = "idle"

(* Every submission returns, or the CP has missed a kernel: that is the    *)
(* only way to hang.                                                       *)
OnlyMissedHangs == \A t \in Threads : pc[t] = "poll" ~> (pc[t] # "poll" \/ KernelMissed)

(* What cmd_processor.h says of the launch FSM, "waits for this to rise    *)
(* (kernel actually executing) then fall (kernel done) before retiring the *)
(* CMD_LAUNCH", and cp_submit_launch relies on: every submission returns.  *)
(* A kernel that ends before its busy is sampled never rises.              *)
SubmitReturns == \A t \in Threads : pc[t] = "poll" ~> pc[t] # "poll"
=============================================================================
