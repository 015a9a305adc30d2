------------------------------ MODULE SimxCore ------------------------------
(***************************************************************************)
(* A SimX core at the level of its warps: the warp scheduler with its      *)
(* registered stall mask (sim/simx/scheduler.cpp), the warp-control        *)
(* instructions that end, split, join and synchronise warps                *)
(* (wctl_unit.cpp), the local barriers (barrier_unit.cpp), and the CTA     *)
(* dispatcher of module CtaDispatch that starts warps as others end.       *)
(*                                                                         *)
(* The pipeline stages of core.cpp are steps of their own, with any delay  *)
(* between them: a warp is scheduled, its instruction is decoded, enters   *)
(* the special-function unit, is processed there, and the release of a     *)
(* stalled warp follows when the result leaves the unit.  Every warp runs  *)
(* Program, a sequence of instructions:                                    *)
(*   work    any instruction that does not stall the warp                  *)
(*   split, join   divergence; the two sides run the code in between       *)
(*   sync    vx_barrier on barrier .bar of the block                       *)
(*   arrive, wait  vx_barrier_arrive, and vx_barrier_wait for its token    *)
(*   expect  vx_barrier_expect_tx of one transfer, by the warp of rank 0   *)
(*           (the others branch around it); the transfer ends at any time  *)
(*           afterwards                                                    *)
(*   exit    the thread mask is set to zero                                *)
(***************************************************************************)
EXTENDS CtaDispatch

CONSTANTS
  Program, NumBarriers,
  Taken     \* per split, the sets of lanes in which the condition may hold

Ops == {"work", "split", "join", "sync", "arrive", "wait", "expect", "exit"}
Pcs == 1..Len(Program)
Bars == 0..NumBarriers - 1
At(op) == {i \in Pcs : Program[i].op = op}
NonStalling == {"work", "arrive", "expect"}

(* How many splits enclose an instruction, and the split a join belongs to.*)
Depth == [i \in Pcs |-> Cardinality({s \in At("split") : s < i})
                       - Cardinality({j \in At("join") : j < i})]
SplitOf == [j \in At("join") |->
             Max({s \in At("split") : s < j /\ Depth[s] = Depth[j] - 1})]
(* The arrival whose token a wait is given.                                *)
ArriveOf(i) == Max({a \in At("arrive") : a < i /\ Program[a].bar = Program[i].bar})

(* Structured code that ends in an exit.                                   *)
ASSUME ProgramAssumption ==
  /\ NumBarriers \in Nat
  /\ Program \in Seq([op : Ops, bar : Bars])
  /\ At("exit") = {Len(Program)}
  /\ \A i \in Pcs : Depth[i] >= 0
  /\ \A i \in At("sync") \cup At("arrive") \cup At("wait") \cup At("expect") \cup At("exit") :
       Depth[i] = 0
  /\ Taken \in [At("split") -> SUBSET SUBSET Threads]

VARIABLES
  active, stalled, stalled_next, \* sets of warps
  warp,      \* per warp: pc, lanes, divergence stack, its block
  fetched,   \* per warp: the instruction scheduled and not yet decoded, or 0
  pipe,      \* per warp: instructions decoded and not yet processed
  out,       \* warps whose release is on the way out of the unit
  bars,      \* per slot and barrier: waiters, count, events, phase
  tx,        \* transfers in flight: slot, barrier, expecting instruction
  failed,    \* an assertion or abort of the simulator was hit
  lane,      \* history, per warp: the instruction each lane has to run next
  arrived    \* history, per block and instruction: the ranks that were there

vars == <<kmu, disp, active, stalled, stalled_next, warp, fetched, pipe, out,
          bars, tx, failed, lane, arrived>>

Ranks == 0..CtaSize - 1
NoLanes == [t \in Threads |-> 1]
Retired == [pc |-> 1, tmask |-> {}, stack |-> <<>>, sp |-> [i \in At("split") |-> 0],
            block |-> Origin, rank |-> 0, slot |-> 0, tid |-> Origin,
            token |-> [b \in Bars |-> 0]]
-----------------------------------------------------------------------------
(* Scheduler::resume of every warp of ws, with its assertions.             *)
ResumeFails(ws) == ~(ws \subseteq active \cap stalled_next)

Activated ==
  LET d == Loaded
  IN [Retired EXCEPT !.tmask = StartedMask, !.block = d.block,
                     !.rank = d.rank, !.slot = d.slot, !.tid = d.tid]

(* One cycle of the scheduler: the dispatcher may start a warp, the lowest *)
(* warp that is not stalled is fetched, and the stall mask is clocked.     *)
Schedule ==
  LET new == IF Starts(active) THEN {StartedWid(active)} ELSE {}
      act == active \cup new
      ready == act \ (stalled \ new)
      pick == IF ready = {} THEN {} ELSE {Min(ready)}
      ws == [w \in Wids |-> IF w \in new THEN Activated ELSE warp[w]]
  IN /\ kmu' = KmuAfter
     /\ disp' = Started(active)
     /\ active' = act
     /\ warp' = ws
     /\ lane' = [w \in Wids |-> IF w \in new THEN NoLanes ELSE lane[w]]
     /\ fetched' = [w \in Wids |-> IF w \in pick THEN ws[w].pc ELSE fetched[w]]
     /\ stalled_next' = (stalled_next \ new) \cup pick
     /\ stalled' = stalled_next'
     /\ failed' = (failed \/ \E w \in pick : ws[w].tmask = {}
                                          \/ w \in stalled_next \ new)
     /\ UNCHANGED <<pipe, out, bars, tx, arrived>>

(* What the instruction is to this warp: only rank 0 expects transfers.    *)
OpOf(w, i) == IF Program[i].op = "expect" /\ warp[w].rank # 0 THEN "work"
              ELSE Program[i].op

(* The lanes of the warp run instruction i: those it has when the warp is  *)
(* let go on at decode, or when the unit is done with the instruction.     *)
Ran(w, i) == lane' = [lane EXCEPT ![w] =
               [t \in Threads |-> IF t \in warp[w].tmask THEN i + 1 ELSE @[t]]]

Decode(w) ==
  LET i == fetched[w]
      released == IF OpOf(w, i) \in NonStalling THEN {w} ELSE {}
  IN /\ i # 0
     /\ fetched' = [fetched EXCEPT ![w] = 0]
     /\ warp' = [warp EXCEPT ![w].pc = i + 1]
     /\ stalled_next' = stalled_next \ released
     /\ failed' = (failed \/ ResumeFails(released))
     /\ IF released = {} THEN UNCHANGED lane ELSE Ran(w, i)
     /\ pipe' = IF OpOf(w, i) = "work" THEN pipe
                ELSE [pipe EXCEPT ![w] = Append(@, i)]
     /\ UNCHANGED <<kmu, disp, active, stalled, out, bars, tx, arrived>>

(* The result of a stalling instruction leaves the unit.                   *)
Commit(w) ==
  /\ w \in out
  /\ out' = out \ {w}
  /\ stalled_next' = stalled_next \ {w}
  /\ failed' = (failed \/ ResumeFails({w}))
  /\ UNCHANGED <<kmu, disp, active, stalled, warp, fetched, pipe, bars, tx, lane, arrived>>
-----------------------------------------------------------------------------
(* The unit processes the oldest instruction of a warp.                    *)
Processes(w, op) == /\ pipe[w] # <<>>
                    /\ Program[Head(pipe[w])].op = op
                    /\ pipe' = [pipe EXCEPT ![w] = Tail(@)]
                    /\ IF op \in NonStalling THEN UNCHANGED lane
                       ELSE Ran(w, Head(pipe[w]))
Reached(w, i) == arrived' = [arrived EXCEPT ![warp[w].block][i] = @ \cup {warp[w].rank}]
Release(w) == out' = out \cup {w}

(* Mutant: a warp that disabled itself is released like any other.         *)
Exit_Released(w) ==
  /\ Processes(w, "exit")
  /\ active' = active \ {w}
  /\ disp' = WarpDone(disp, w)
  /\ warp' = [warp EXCEPT ![w] = Retired]
  /\ failed' = (failed \/ disp.slot_rem[disp.slot_of[w]] = 0)
  /\ Reached(w, Head(pipe[w]))
  /\ Release(w)
  /\ UNCHANGED <<kmu, stalled, stalled_next, fetched, bars, tx>>
(* setTmask to the empty mask: the warp ends and is not released.          *)
Exit(w) ==
  /\ Processes(w, "exit")
  /\ active' = active \ {w}
  /\ disp' = WarpDone(disp, w)
  /\ warp' = [warp EXCEPT ![w] = Retired]
  /\ failed' = (failed \/ disp.slot_rem[disp.slot_of[w]] = 0)
  /\ Reached(w, Head(pipe[w]))
  /\ UNCHANGED <<kmu, stalled, stalled_next, fetched, out, bars, tx>>

(* The condition holds in the lanes of cond.  If they differ, the mask and *)
(* the next pc are pushed and the smaller side runs first.                 *)
Split(w) ==
  LET i == Head(pipe[w])
      depth == Len(warp[w].stack)
  IN /\ Processes(w, "split")
     /\ \E c \in Taken[i] :
          LET cond == c \cap warp[w].tmask
              rest == warp[w].tmask \ cond
              divergent == cond # {} /\ rest # {}
              small == IF Cardinality(cond) =< Cardinality(rest) THEN cond ELSE rest
              entry == [orig_tmask |-> warp[w].tmask, else_PC |-> i + 1,
                        fallthrough |-> FALSE]
          IN /\ warp' = IF divergent
                        THEN [warp EXCEPT ![w].tmask = small, ![w].sp[i] = depth,
                                          ![w].stack = Append(@, entry)]
                        ELSE [warp EXCEPT ![w].sp[i] = depth]
             /\ failed' = (failed \/ (divergent /\ depth = NumThreads - 1))
     /\ Release(w)
     /\ UNCHANGED <<kmu, disp, active, stalled, stalled_next, fetched, bars, tx, arrived>>

(* Mutant: the end of the second side is taken for the end of the first.   *)
OtherSide_Again(r) ==
  LET n == Len(r.stack) top == r.stack[n]
  IN [r EXCEPT !.tmask = top.orig_tmask \ r.tmask, !.pc = top.else_PC]
(* The end of the first side: go back for the other one.                   *)
OtherSide(r) ==
  LET n == Len(r.stack) top == r.stack[n]
  IN [r EXCEPT !.tmask = top.orig_tmask \ r.tmask, !.pc = top.else_PC,
               !.stack[n].fallthrough = TRUE]

(* The end of the second: the lanes that entered the split go on together. *)
Reconverged(r) ==
  LET n == Len(r.stack)
  IN [r EXCEPT !.tmask = r.stack[n].orig_tmask, !.stack = SubSeq(@, 1, n - 1)]

Join(w) ==
  LET r == warp[w]
      diverged == r.sp[SplitOf[Head(pipe[w])]] # Len(r.stack)
  IN /\ Processes(w, "join")
     /\ warp' = CASE ~diverged \/ r.stack = <<>> -> warp
                  [] r.stack # <<>> /\ diverged ->
                     [warp EXCEPT ![w] = IF r.stack[Len(r.stack)].fallthrough
                                         THEN Reconverged(r) ELSE OtherSide(r)]
     /\ failed' = (failed \/ (diverged /\ r.stack = <<>>))
     /\ Release(w)
     /\ UNCHANGED <<kmu, disp, active, stalled, stalled_next, fetched, bars, tx, arrived>>
-----------------------------------------------------------------------------
(* Local barriers.  A barrier b of the block in slot s is bars[s][b].      *)
Quiet == [wait_mask |-> {}, count |-> 0, events |-> 0, phase |-> 0]

(* Mutant: pending transfers do not hold the barrier.                      *)
Completes_NoEvents(r) == r.count + 1 = CtaSize
(* This arrival is the last, and no transfer is pending.                   *)
Completes(r) == r.count + 1 = CtaSize /\ r.events = 0

Counted(r) == (r.count + 1) % CtaSize

Opened(r) == [r EXCEPT !.wait_mask = {}, !.phase = @ + 1]

(* Arrival of warp w, which waits if sync.                                 *)
Arrive(w, i, sync) ==
  LET s == warp[w].slot
      b == Program[i].bar
      r == [bars[s][b] EXCEPT !.wait_mask = @ \cup (IF sync THEN {w} ELSE {})]
      woken == IF Completes(r) THEN r.wait_mask ELSE {}
      after == IF Completes(r) THEN Opened(r) ELSE r
  IN /\ bars' = [bars EXCEPT ![s][b] = [after EXCEPT !.count = Counted(r)]]
     /\ stalled_next' = stalled_next \ woken
     /\ failed' = (failed \/ ResumeFails(woken))
     /\ Reached(w, i)

BarSync(w) ==
  /\ Processes(w, "sync")
  /\ Arrive(w, Head(pipe[w]), TRUE)
  /\ UNCHANGED <<kmu, disp, active, stalled, warp, fetched, out, tx>>

(* The warp went on at decode; the token is the phase before the arrival.  *)
BarArrive(w) ==
  LET i == Head(pipe[w])
      b == Program[i].bar
  IN /\ Processes(w, "arrive")
     /\ warp' = [warp EXCEPT ![w].token[b] = bars[warp[w].slot][b].phase % 2]
     /\ Arrive(w, i, FALSE)
     /\ UNCHANGED <<kmu, disp, active, stalled, fetched, out, tx>>

Waits(r, token) == r.phase = token

BarWait(w) ==
  LET s == warp[w].slot
      b == Program[Head(pipe[w])].bar
  IN /\ Processes(w, "wait")
     /\ \/ /\ Waits(bars[s][b], warp[w].token[b])
           /\ bars' = [bars EXCEPT ![s][b].wait_mask = @ \cup {w}]
           /\ UNCHANGED out
        \/ /\ ~Waits(bars[s][b], warp[w].token[b])
           /\ Release(w)
           /\ UNCHANGED bars
     /\ UNCHANGED <<kmu, disp, active, stalled, stalled_next, warp, fetched, tx, failed, arrived>>

BarExpect(w) ==
  LET i == Head(pipe[w])
      s == warp[w].slot
  IN /\ Processes(w, "expect")
     /\ bars' = [bars EXCEPT ![s][Program[i].bar].events = @ + 1]
     /\ tx' = tx \cup {[slot |-> s, bar |-> Program[i].bar, pc |-> i]}
     /\ UNCHANGED <<kmu, disp, active, stalled, stalled_next, warp, fetched, out, failed, arrived>>

(* Mutant: the last event does not open a barrier everyone has reached.    *)
EventOpens_Never(r) == FALSE
EventOpens(r) == r.events = 1 /\ r.count = 0

(* A transfer is complete: BarrierUnit::event_release.                     *)
EventRelease(t) ==
  LET r == bars[t.slot][t.bar]
      woken == IF EventOpens(r) THEN r.wait_mask ELSE {}
      after == IF EventOpens(r) THEN Opened(r) ELSE r
  IN /\ tx' = tx \ {t}
     /\ bars' = [bars EXCEPT ![t.slot][t.bar] = [after EXCEPT !.events = @ - 1]]
     /\ stalled_next' = stalled_next \ woken
     /\ failed' = (failed \/ ResumeFails(woken) \/ r.events = 0)
     /\ UNCHANGED <<kmu, disp, active, stalled, warp, fetched, pipe, out, lane, arrived>>
-----------------------------------------------------------------------------
(* Mutant: the core is idle whenever it has no warp.                       *)
Running_WarpsOnly == active # {}
Running == active # {} \/ DispatcherRunning

Init ==
  /\ DispatchInit
  /\ active = {} /\ stalled = {} /\ stalled_next = {}
  /\ warp = [w \in Wids |-> Retired]
  /\ fetched = [w \in Wids |-> 0]
  /\ pipe = [w \in Wids |-> <<>>]
  /\ out = {} /\ tx = {} /\ failed = FALSE
  /\ bars = [s \in Wids |-> [b \in Bars |-> Quiet]]
  /\ lane = [w \in Wids |-> NoLanes]
  /\ arrived = [k \in Blocks |-> [i \in Pcs |-> {}]]

Process(w) == \/ Exit(w) \/ Split(w) \/ Join(w) \/ BarSync(w)
              \/ BarArrive(w) \/ BarWait(w) \/ BarExpect(w)

Next == \/ Schedule
        \/ \E w \in Wids : Decode(w) \/ Process(w) \/ Commit(w)
        \/ \E t \in tx : EventRelease(t)

(* The simulator keeps ticking while some stage has something to do.  No   *)
(* stage or warp is favoured: every order of their steps comes to an end.  *)
Fairness == WF_vars(Next)

Spec == Init /\ [][Next]_vars /\ Fairness
-----------------------------------------------------------------------------
TypeOK ==
  /\ DispatchTypeOK
  /\ active \subseteq Wids /\ stalled \subseteq Wids /\ stalled_next \subseteq Wids
  /\ out \subseteq Wids /\ failed \in BOOLEAN
  /\ \A w \in Wids : /\ warp[w].pc \in 1..Len(Program) + 1
                     /\ warp[w].tmask \subseteq Threads
                     /\ Len(warp[w].stack) =< NumThreads - 1
                     /\ warp[w].rank \in Ranks /\ warp[w].slot \in Wids
                     /\ fetched[w] \in 0..Len(Program)
                     /\ pipe[w] \in Seq(Pcs)
  /\ \A s \in Wids, b \in Bars : /\ bars[s][b].wait_mask \subseteq Wids
                                 /\ bars[s][b].count \in Ranks
                                 /\ bars[s][b].events \in Nat
                                 /\ bars[s][b].phase \in Nat
  /\ \A t \in tx : t.slot \in Wids /\ t.bar \in Bars /\ t.pc \in Pcs

(* No step hits an assertion or an abort of the simulator: only active     *)
(* warps are suspended and resumed, each exactly once in turn, though      *)
(* releases come from decode, from commit, from a barrier and from the     *)
(* copy engine; no release reaches a warp that has ended, or that has been *)
(* started anew for another block; the divergence stack does not overflow. *)
NoAbort == ~failed

(* Warp w has been let past instruction i, a sync or a wait.               *)
Past(w, i) == /\ w \in active /\ i < warp[w].pc
              /\ \A k \in 1..Len(pipe[w]) : pipe[w][k] # i
              /\ w \notin bars[warp[w].slot][Program[i].bar].wait_mask

(* The unit counts arrivals, whatever instruction they come from, and does *)
(* not end an expectation with its block.  A barrier keeps a block together*)
(* in programs that do not use one barrier by vx_barrier and by            *)
(* vx_barrier_arrive both, and that wait for the transfers they expect.    *)
Disciplined ==
  /\ \A i \in At("sync"), a \in At("arrive") : Program[a].bar # Program[i].bar
  /\ \A e \in At("expect") : \E i \in At("sync") : e < i /\ Program[i].bar = Program[e].bar

(* A warp leaves vx_barrier only after every warp of its block has come to *)
(* that same barrier, those not yet started included, and after the        *)
(* transfers its block expected there before are complete.  The next block *)
(* of a slot finds its barriers at rest.                                   *)
SyncHolds ==
  /\ \A w \in Wids, i \in At("sync") : Past(w, i) =>
       /\ arrived[warp[w].block][i] = Ranks
       /\ \A t \in tx : t.slot = warp[w].slot /\ t.bar = Program[i].bar => t.pc > i
  /\ \A s \in Wids, b \in Bars : disp.slot_rem[s] = 0 =>
       bars[s][b] = [Quiet EXCEPT !.phase = bars[s][b].phase]

(* A warp leaves vx_barrier_wait only after every warp of its block has    *)
(* made the arrival whose token it waits for ("Wait for barrier phase to   *)
(* complete", sw/kernel/include/vx_barrier.h).                             *)
WaitHolds ==
  \A w \in Wids, i \in At("wait") : Past(w, i) =>
    arrived[warp[w].block][ArriveOf(i)] = Ranks

(* A warp starts at the threadIdx of its first lane, and however its lanes *)
(* diverge, it runs every lane through every instruction once and in order;*)
(* outside of all splits its lanes are together again.                     *)
EveryLaneOnce ==
  \A w \in active : fetched[w] = 0 /\ pipe[w] = <<>> =>
    /\ warp[w].tid = LaneAt(warp[w].rank * NumThreads, BlockDim)
    /\ \A t \in warp[w].tmask : lane[w][t] = warp[w].pc
    /\ warp[w].pc \in Pcs /\ Depth[warp[w].pc] = 0 =>
         warp[w].tmask = {t \in Threads : warp[w].rank * NumThreads + t < BlockSize}

(* A slot, with its local memory and its barriers, belongs to one block    *)
(* until the last warp of that block has ended.  No rank of a block runs   *)
(* twice.                                                                  *)
SlotOwned ==
  /\ \A v, w \in active : warp[v].slot = warp[w].slot =>
       /\ warp[v].block = warp[w].block
       /\ v # w => warp[v].rank # warp[w].rank
  /\ \A w \in active : warp[w].rank \notin arrived[warp[w].block][Len(Program)]

(* The blocks of a cluster sit side by side, each in the slot whose number *)
(* gives its rank in the cluster (get_cluster_rank of vx_spawn2.h), so     *)
(* that a multicast reaches the block it means.                            *)
RankInCluster(k) ==
  (k[1] % ClusterDim[1]) + ClusterDim[1] * ((k[2] % ClusterDim[2])
                         + ClusterDim[2] * (k[3] % ClusterDim[3]))
ClusterPlaced ==
  /\ \A w \in active : warp[w].slot % ClusterSize = RankInCluster(warp[w].block)
  /\ \A v, w \in active :
       (\A a \in Axes : warp[v].block[a] \div ClusterDim[a] = warp[w].block[a] \div ClusterDim[a])
       => warp[w].slot + RankInCluster(warp[v].block)
          = warp[v].slot + RankInCluster(warp[w].block)

(* The core reports itself idle only when every block of the grid has run  *)
(* to its end in all its warps ...                                         *)
Finished == \A k \in Blocks : arrived[k][Len(Program)] = Ranks
IdleMeansDone == ~Running => Finished

(* ... and every launch comes to that: no warp is left waiting, whether    *)
(* its block was started at once or warp by warp as others ended.          *)
KernelDrains == <>[](~Running)
=============================================================================
