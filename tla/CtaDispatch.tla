----------------------------- MODULE CtaDispatch -----------------------------
(***************************************************************************)
(* How SimX turns a kernel launch into warps of a core: the KMU, which     *)
(* walks the grid block by block, cluster by cluster (sim/simx/kmu), and   *)
(* the core's CTA dispatcher, which admits a block into a local-memory     *)
(* slot and starts it one warp per cycle (sim/simx/cta_dispatcher.cpp).    *)
(*                                                                         *)
(* A kernel is its grid, block and cluster shapes and its local-memory     *)
(* size.  Addresses and arguments that are only passed on are left out,    *)
(* and so is the choice between the two entry points of a started warp.    *)
(* The module has state and operators; SimxCore gives it its steps.        *)
(***************************************************************************)
EXTENDS Naturals, Sequences, FiniteSets, FiniteSetsExt

CONSTANTS
  NumWarps, NumThreads,          \* warps of the core, lanes of a warp
  GridDim, BlockDim, ClusterDim, \* three axes each
  LmemSize, MemBlock, LmemCapacity

Axes == 1..3
Volume(dim) == dim[1] * dim[2] * dim[3]

(* A launch the runtime accepts: whole clusters (Queue::enqueue_launch)    *)
(* and blocks that fit in the core.                                        *)
ASSUME SizesAssumption ==
  /\ NumWarps \in Nat \ {0} /\ NumThreads \in Nat \ {0}
  /\ LmemSize \in Nat /\ MemBlock \in Nat \ {0} /\ LmemCapacity \in Nat
ASSUME ShapesAssumption ==
  /\ \A a \in Axes : {GridDim[a], BlockDim[a], ClusterDim[a]} \subseteq Nat \ {0}
  /\ \A a \in Axes : GridDim[a] % ClusterDim[a] = 0
  /\ Volume(BlockDim) =< NumWarps * NumThreads

VARIABLES kmu, disp

Wids == 0..NumWarps - 1
Threads == 0..NumThreads - 1
Origin == <<0, 0, 0>>
Blocks == {<<x, y, z>> : x \in 0..GridDim[1] - 1,
                         y \in 0..GridDim[2] - 1, z \in 0..GridDim[3] - 1}
BlockSize == Volume(BlockDim)
CtaSize == (BlockSize + NumThreads - 1) \div NumThreads
ClusterSize == Volume(ClusterDim)

None == [block |-> Origin, first |-> FALSE, has |-> FALSE]
-----------------------------------------------------------------------------
(* The KMU: one odometer inside the cluster, one over the clusters.        *)
Sum3(p, q) == [a \in Axes |-> p[a] + q[a]]
Unit == <<1, 1, 1>>

(* The position after pos, axis by axis, and whether it wrapped around.    *)
Odometer(pos, step, limit) ==
  LET stays == {a \in Axes : pos[a] + step[a] # limit[a]}
      moved == IF stays = {} THEN 4 ELSE Min(stays)
  IN [pos |-> [a \in Axes |-> CASE a < moved -> 0
                                [] a = moved -> pos[a] + step[a]
                                [] a > moved -> pos[a]],
      wrapped |-> stays = {}]

KmuRequest(k) ==
  [block |-> Sum3(k.origin, k.intra), first |-> k.intra = Origin, has |-> TRUE]

KmuStep(k) ==
  LET in == Odometer(k.intra, Unit, ClusterDim)
      over == Odometer(k.origin, ClusterDim, GridDim)
  IN [running |-> ~(in.wrapped /\ over.wrapped),
      intra |-> in.pos,
      origin |-> IF in.wrapped THEN over.pos ELSE k.origin]
-----------------------------------------------------------------------------
(* The dispatcher.                                                         *)
Stride == ((LmemSize + MemBlock - 1) \div MemBlock) * MemBlock

UsableSlots ==
  IF Stride = 0 THEN NumWarps
  ELSE Max({1, Min({LmemCapacity \div Stride, NumWarps})})

(* Take a block from the KMU unless one is pending or being started.       *)
Takes == ~disp.has_cta /\ ~disp.pending.has /\ kmu.running
Pending == IF Takes THEN KmuRequest(kmu) ELSE disp.pending

TailSlot == IF disp.tail >= UsableSlots THEN 0 ELSE disp.tail

(* Mutant: the window of a cluster is not moved to slot 0 beforehand.      *)
Base_NoWrap(req) == TailSlot
(* Where the block goes.  The first of a cluster goes to slot 0 if the     *)
(* slots of the whole cluster would overrun the usable ones.               *)
Base(req) ==
  IF req.first /\ TailSlot + ClusterSize > UsableSlots THEN 0 ELSE TailSlot

(* The slots that must be free: those of the whole cluster for its first   *)
(* block, else the one.                                                    *)
Window(req) ==
  LET k == Min({IF req.first THEN ClusterSize ELSE 1, UsableSlots})
  IN {(Base(req) + i) % UsableSlots : i \in 0..k - 1}

(* Mutant: a block goes where the tail points, occupied or not.            *)
Admits_Unchecked == ~disp.has_cta /\ Pending.has
Admits == /\ ~disp.has_cta /\ Pending.has
          /\ \A s \in Window(Pending) : disp.slot_rem[s] = 0

(* The pending block becomes the one whose warps are being started.        *)
Admitted ==
  LET base == Base(Pending)
  IN [disp EXCEPT !.pending = None, !.has_cta = TRUE,
        !.block = Pending.block, !.slot = base, !.rank = 0,
        !.rem = BlockSize, !.tid = Origin,
        !.tail = (base + 1) % UsableSlots, !.slot_rem[base] = CtaSize]
Loaded == IF Admits THEN Admitted ELSE [disp EXCEPT !.pending = Pending]

(* What prepare_kernel_launch_params gives as the step from the first lane *)
(* of a warp to that of the next, and the dispatcher's addition of it.     *)
WarpStep(dim) ==
  <<NumThreads % dim[1],
    (NumThreads \div dim[1]) % dim[2],
    (NumThreads \div (dim[1] * dim[2])) % dim[3]>>

NextTid(tid, dim) ==
  LET step == WarpStep(dim)
      x == tid[1] + step[1]
      y == tid[2] + step[2] + (IF x >= dim[1] THEN 1 ELSE 0)
      z == tid[3] + step[3] + (IF y >= dim[2] THEN 1 ELSE 0)
  IN <<IF x >= dim[1] THEN x - dim[1] ELSE x,
       IF y >= dim[2] THEN y - dim[2] ELSE y, z>>

(* The position of lane n of a block.                                      *)
LaneAt(n, dim) == <<n % dim[1], (n \div dim[1]) % dim[2], n \div (dim[1] * dim[2])>>

(* One call of CtaDispatcher::step: at most one warp is started, on the    *)
(* lowest warp that is not active.                                         *)
Starts(active) == Loaded.has_cta /\ active # Wids
StartedWid(active) == Min(Wids \ active)
StartedMask == {t \in Threads : t < Loaded.rem}

Started(active) ==
  LET d == Loaded
  IN IF ~Starts(active) THEN d
     ELSE [d EXCEPT !.slot_of[StartedWid(active)] = d.slot,
                    !.tid = NextTid(d.tid, BlockDim),
                    !.rem = d.rem - Cardinality(StartedMask),
                    !.rank = d.rank + 1,
                    !.has_cta = d.rank + 1 < CtaSize]

KmuAfter == IF Takes THEN KmuStep(kmu) ELSE kmu

(* A warp has exited: its slot has one warp less, and frees with the last. *)
WarpDone(d, w) ==
  [d EXCEPT !.slot_of[w] = NumWarps, !.slot_rem[d.slot_of[w]] = @ - 1]

DispatcherRunning == disp.has_cta \/ disp.pending.has \/ kmu.running

DispatchInit ==
  /\ kmu = [running |-> TRUE, intra |-> Origin, origin |-> Origin]
  /\ disp = [pending |-> None, has_cta |-> FALSE, block |-> Origin,
             slot |-> 0, rank |-> 0, rem |-> 0, tid |-> Origin, tail |-> 0,
             slot_rem |-> [s \in Wids |-> 0], slot_of |-> [w \in Wids |-> NumWarps]]

DispatchTypeOK ==
  /\ kmu.running \in BOOLEAN
  /\ \A a \in Axes : /\ kmu.intra[a] \in 0..ClusterDim[a] - 1
                     /\ kmu.origin[a] \in 0..GridDim[a] - 1
                     /\ disp.tid[a] \in Nat
  /\ disp.slot \in 0..UsableSlots - 1 /\ disp.tail \in 0..UsableSlots - 1
  /\ disp.rank \in 0..CtaSize /\ disp.rem \in 0..BlockSize
  /\ disp.slot_rem \in [Wids -> 0..CtaSize]
  /\ disp.slot_of \in [Wids -> 0..NumWarps]
  /\ disp.has_cta \in BOOLEAN /\ disp.pending.has \in BOOLEAN
  /\ disp.block \in Blocks /\ disp.pending.block \in Blocks
=============================================================================
