----------------------------- MODULE NocArbiter -----------------------------
(***************************************************************************)
(* The two-requester arbiter of the NoC (RTL/noc/RTL/noc_arbiter.sv):      *)
(* strict priority, round-robin on a tie, and a grant lock that holds a    *)
(* presented grant until the consumer accepts it.  One step is one rising  *)
(* clock edge out of reset.                                                *)
(*                                                                         *)
(* The requesters are the gated AW/AR valids of noc_top: once raised, a    *)
(* request and its AxQOS hold until it is accepted.  Whether the consumer  *)
(* pulses `update` is the choice between Accept and Present/Hold: every    *)
(* consumer in the NoC raises it only together with gnt_valid              *)
(* (noc_axi_slave_port.sv:131,198, axi2apb_bridge.sv:118,121,              *)
(* noc_decerr_port.sv:72,130).                                             *)
(***************************************************************************)
EXTENDS Naturals

CONSTANT Prios        \* the AxQOS values in use, a subset of 0..15

ASSUME PriosAssumption == Prios # {} /\ Prios \subseteq 0..15

VARIABLES
  last,      \* requester served most recently
  locked,    \* a grant is presented downstream and not yet accepted
  lock_idx,  \* the grantee of that grant
  req,       \* req[i]: requester i is requesting in this cycle
  prio,      \* prio[i]: its priority in this cycle
  recent,    \* history: grantee of the latest accepted grant, or NoOne
  took,      \* history: grantee accepted at the edge before this cycle, or NoOne
  passed     \* history: accepted grants that overtook i since it raised req

arbVars == <<last, locked, lock_idx, req, prio, recent, took, passed>>

Reqs == {0, 1}
NoOne == 2
Other(i) == 1 - i
PassCap == 2          \* passed[i] saturates here
-----------------------------------------------------------------------------
(* Fresh arbitration: lone requester, then priority, then round-robin.     *)
FreshVal == req[0] \/ req[1]

(* Mutant: a tie always goes to requester 0.                               *)
FreshIdx_FixedTie ==
  IF req[0] /\ (req[1] => prio[0] >= prio[1]) THEN 0 ELSE 1

FreshIdx ==
  IF req[0] /\ req[1]
  THEN IF prio[0] > prio[1] THEN 0
       ELSE IF prio[1] > prio[0] THEN 1
       ELSE Other(last)
  ELSE IF req[1] THEN 1 ELSE 0

(* Mutant: no grant lock.                                                  *)
GntIdx_NoLock == FreshIdx

(* Outputs: a locked grant is presented whatever the requesters do.        *)
GntIdx   == IF locked THEN lock_idx ELSE FreshIdx
GntValid == locked \/ FreshVal
-----------------------------------------------------------------------------
(* Environment: a requester that was not accepted keeps its request; any   *)
(* other requester may raise or withdraw one, with a new priority.         *)
Requesting(accepted) ==
  /\ req'  \in [Reqs -> BOOLEAN]
  /\ prio' \in [Reqs -> Prios]
  /\ \A i \in Reqs : req[i] /\ i \notin accepted => req'[i] /\ prio'[i] = prio[i]

(* An accepted grant overtakes i when i waits with no lower a priority.    *)
Overtakes(g, i) == i # g /\ req[i] /\ prio[i] >= prio[g]

(* The round-robin pointer moves on every accepted grant.                  *)
NextLast == GntIdx

AcceptedLock == FALSE

(* posedge with update: the grant is consumed and the lock released.       *)
Accept ==
  /\ GntValid
  /\ locked' = AcceptedLock
  /\ last' = NextLast
  /\ recent' = GntIdx
  /\ took' = GntIdx
  /\ passed' = [i \in Reqs |->
       IF Overtakes(GntIdx, i) /\ passed[i] < PassCap THEN passed[i] + 1
       ELSE IF i = GntIdx THEN 0 ELSE passed[i]]
  /\ UNCHANGED lock_idx
  /\ Requesting({GntIdx})

(* posedge without update: a grant presented for the first time is locked. *)
Present ==
  /\ GntValid /\ ~locked
  /\ locked' = TRUE
  /\ lock_idx' = GntIdx
  /\ took' = NoOne
  /\ UNCHANGED <<last, recent, passed>>
  /\ Requesting({})

(* posedge without update while a grant is locked: it stays.               *)
Hold ==
  /\ locked
  /\ took' = NoOne
  /\ UNCHANGED <<last, locked, lock_idx, recent, passed>>
  /\ Requesting({})

(* posedge with nobody requesting.                                         *)
Quiet ==
  /\ ~GntValid
  /\ took' = NoOne
  /\ UNCHANGED <<last, locked, lock_idx, recent, passed>>
  /\ Requesting({})

(* Reset: M0 is favoured first; requesters drive no request during reset.  *)
ArbInit ==
  /\ last = 1
  /\ locked = FALSE
  /\ lock_idx = 0
  /\ req = [i \in Reqs |-> FALSE]
  /\ prio \in [Reqs -> Prios]
  /\ recent = NoOne
  /\ took = NoOne
  /\ passed = [i \in Reqs |-> 0]

ArbNext == Accept \/ Present \/ Hold \/ Quiet

ArbSpec == ArbInit /\ [][ArbNext]_arbVars

(* The consumer eventually accepts a grant that stays presented.           *)
ArbFairSpec == ArbSpec /\ WF_arbVars(Accept)
-----------------------------------------------------------------------------
ArbTypeOK ==
  /\ last \in Reqs
  /\ locked \in BOOLEAN
  /\ lock_idx \in Reqs
  /\ req \in [Reqs -> BOOLEAN]
  /\ prio \in [Reqs -> Prios]
  /\ recent \in Reqs \cup {NoOne}
  /\ took \in Reqs \cup {NoOne}
  /\ passed \in [Reqs -> 0..PassCap]

(* A grant is valid exactly when somebody requests, and it always names a  *)
(* requester that is requesting (arb_sva.sv ap_gv): the lock never         *)
(* outlives the request it was taken for, so no server forwards the        *)
(* address of a master that drives none.                                   *)
GrantIffRequest == (GntValid <=> FreshVal) /\ (GntValid => req[GntIdx])

(* A presented grant that is not accepted at this edge is presented to     *)
(* the same requester in the next cycle, whoever else arrives meanwhile.   *)
GrantStable == [][Accept \/ (GntValid => GntValid' /\ GntIdx' = GntIdx)]_arbVars

(* On a fresh tie the requester served last loses, however long ago it     *)
(* was served and whether or not that grant was contended.                 *)
TieGoesToOther ==
  ~locked /\ req[0] /\ req[1] /\ prio[0] = prio[1] /\ recent # NoOne
     => GntIdx = Other(recent)

(* A requester is overtaken at most once by a requester of no higher       *)
(* priority: only by the grant that was already locked when it arrived.    *)
OvertakenOnce == \A i \in Reqs : passed[i] <= 1

(* A request of the highest priority in use is eventually accepted,        *)
(* whatever the other requester does: with a single AxQOS value in use     *)
(* this is the starvation freedom of the round-robin.                      *)
TopPriorityServed ==
  \A i \in Reqs :
    (req[i] /\ \A q \in Prios : prio[i] >= q) ~> (took = i)
=============================================================================
