----------------------------- MODULE MCSimxCore -----------------------------
(* Kernels for model checking SimxCore.                                    *)
EXTENDS SimxCore, TLC

Op(op) == [op |-> op, bar |-> 0]
OpB(op, b) == [op |-> op, bar |-> b]

(* A block arrives and waits, diverges twice, then waits for a transfer.   *)
MCProgram ==
  <<OpB("arrive", 1), OpB("wait", 1),
    Op("split"), Op("split"), Op("join"), Op("join"),
    OpB("expect", 0), OpB("sync", 0), Op("exit")>>
(* The outer split runs its else side first, the inner one its then side;  *)
(* the inner one diverges in one of the two sides of the outer.            *)
MCTaken == 3 :> {{0, 1}} @@ 4 :> {{1}}
MCGrid == <<2, 2, 1>>
MCBlock == <<2, 1, 2>>
MCCluster == <<2, 1, 1>>

(* For every small shape of a block the step from warp to warp, with its   *)
(* carries, is the one from lane to lane NumThreads times.                 *)
Small == {<<x, y, z>> : x \in 1..4, y \in 1..4, z \in 1..3}
ASSUME TidsFollow ==
  \A dim \in Small : \A r \in 0..Volume(dim) :
    (r + 1) * NumThreads < Volume(dim) =>
      NextTid(LaneAt(r * NumThreads, dim), dim) = LaneAt((r + 1) * NumThreads, dim)

(* One block that synchronises three times by arrival and wait.            *)
MCLoop ==
  <<Op("arrive"), Op("wait"), Op("arrive"), Op("wait"), Op("arrive"), Op("wait"),
    Op("exit")>>
(* Both kernels use their barriers as SyncHolds needs them used.           *)
ASSUME KernelDisciplined == Disciplined
MCNone == [i \in {} |-> {}]
MCOne == <<1, 1, 1>>
=============================================================================
