----------------------------- MODULE BridgePort -----------------------------
(***************************************************************************)
(* Whom the AXI to APB bridge serves next (the B_IDLE state and the two    *)
(* arbiters of RTL/noc/RTL/axi2apb_bridge.sv): a pending write first, else *)
(* the read its read arbiter grants.  The read arbiter u_rarb is           *)
(* NocArbiter, with its priorities, its round-robin and its lock; it sees  *)
(* the ARs in every state of the bridge, and `update` only when one is     *)
(* accepted.  Any writer may win the write arbiter.  A burst is one phase  *)
(* here: what it does, and that it ends, is Axi2ApbBridge (BurstsFinish).  *)
(***************************************************************************)
EXTENDS NocArbiter

VARIABLES
  phase,   \* "IDLE", or the direction of the burst in progress
  serving, \* sel: the master it serves
  aws      \* masters whose gated AW reaches the bridge

portVars == <<phase, serving, aws, arbVars>>
-----------------------------------------------------------------------------
(* A gated AW stays until it is accepted; noc_top's wbusy keeps the next   *)
(* one of a master away while its write is served.                         *)
Writers(accepted) ==
  /\ aws' \in {s \in SUBSET Reqs : aws \ accepted \subseteq s}
  /\ phase' = "WRITE" => serving' \notin aws'

(* The read arbiter without update.                                        *)
NoUpdate == Present \/ Hold \/ Quiet

PortWrite(m) ==
  /\ phase = "IDLE" /\ m \in aws
  /\ phase' = "WRITE" /\ serving' = m
  /\ NoUpdate
  /\ Writers({m})

(* Mutant: the AR is accepted without pulsing r_upd.                       *)
ReadUpdate_None ==
  /\ GntValid
  /\ locked' = TRUE /\ lock_idx' = GntIdx /\ took' = GntIdx
  /\ UNCHANGED <<last, recent, passed>>
  /\ Requesting({GntIdx})
ReadUpdate == Accept

PortRead ==
  /\ phase = "IDLE" /\ aws = {}
  /\ phase' = "READ" /\ serving' = GntIdx
  /\ ReadUpdate
  /\ Writers({})

PortFinish ==
  /\ phase # "IDLE"
  /\ phase' = "IDLE" /\ UNCHANGED serving
  /\ NoUpdate
  /\ Writers({})

PortBusy ==
  /\ phase # "IDLE"
  /\ UNCHANGED <<phase, serving>>
  /\ NoUpdate
  /\ Writers({})

PortIdle ==
  /\ phase = "IDLE" /\ aws = {} /\ ~GntValid
  /\ UNCHANGED <<phase, serving>>
  /\ NoUpdate
  /\ Writers({})

PortInit == phase = "IDLE" /\ serving = 0 /\ aws = {} /\ ArbInit

PortServe == PortRead \/ \E m \in Reqs : PortWrite(m)

PortNext == PortServe \/ PortFinish \/ PortBusy \/ PortIdle

PortSpec == PortInit /\ [][PortNext]_portVars

(* The clock runs while the bridge is idle, and a burst ends.              *)
PortFairness == WF_portVars(PortServe) /\ WF_portVars(PortFinish)

PortFairSpec == PortSpec /\ PortFairness
-----------------------------------------------------------------------------
PortTypeOK ==
  /\ phase \in {"IDLE", "WRITE", "READ"}
  /\ serving \in Reqs
  /\ aws \subseteq Reqs

(* A read of the highest priority is served although writes go first, as   *)
(* long as the bridge is idle with no write pending again and again: the   *)
(* gaps between writes are enough, writes need not cease, and no gap is    *)
(* lost to a grant that is stale or that a lower priority holds for ever.  *)
(* (With a write pending at every return to B_IDLE no read is served at    *)
(* all: "writes are chosen before reads when both are pending".)           *)
ReadsServed ==
  []<>(phase = "IDLE" /\ aws = {}) =>
    \A i \in Reqs : (req[i] /\ \A q \in Prios : prio[i] >= q) ~> (took = i)
=============================================================================
