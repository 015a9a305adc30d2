----------------------------- MODULE MCRtlUnits -----------------------------
(* The self-contained units of the RTL, and the testbench's handshake with *)
(* a C test, for TLC: one of them in each behaviour; the others stay as    *)
(* they are after reset.                                                   *)
(*   arbiter  noc_arbiter, with a consumer that accepts when it likes      *)
(*   port     the same arbiter as the read arbiter of the APB bridge       *)
(*   bridge   the bridge's data path                                       *)
(*   fifo     the transition packer with its FIFO: words of a few bits,    *)
(*            transitions of every width with zeros above it               *)
(*   skid     the skid buffer                                              *)
(*   iwrr     the weighted arbiter: weight zero, equal weights, weights    *)
(*            beyond MAX_WEIGHT and mixtures of them                       *)
(*   sync     sv_sync between an irq_csv test and the testbench            *)
EXTENDS BridgePort, Axi2ApbBridge, TransitionFifo, SkidBuffer, IwrrArbiter, SvSync, TLC

VARIABLE unit

schedVars == <<phase, serving, aws>>
nocVars == <<schedVars, arbVars, vars>>
blockVars == <<packVars, skidVars, iwrrVars, syncVars>>
mcVars == <<unit, nocVars, blockVars>>

MCWords == [1..DATA_WIDTH -> BOOLEAN]
MCZero == [i \in 1..DATA_WIDTH |-> FALSE]
MCTransitions ==
  {[data |-> [i \in 1..DATA_WIDTH |-> i <= w /\ i \in bits], width |-> w] :
     w \in 0..DATA_WIDTH, bits \in {{1, 2, 3}, {1, 3}}}
MCVector(a, b, c, d) == (0 :> a) @@ (1 :> b) @@ (2 :> c) @@ (3 :> d)
MCNoWeight == MCVector(0, 0, 0, 0)
MCWeights ==
  {MCNoWeight, MCVector(1, 1, 1, 1), MCVector(1, 2, 3, 2), MCVector(4, 1, 0, 4),
   MCVector(0, 4, 1, 2), MCVector(2, 0, 4, 1)}

MCInit ==
  /\ unit \in {"arbiter", "port", "bridge", "fifo", "skid", "iwrr", "sync"}
  /\ PortInit
  /\ unit \notin {"arbiter", "port"} => prio = [i \in Reqs |-> CHOOSE p \in Prios : TRUE]
  /\ Init
  /\ unit # "bridge" => txn = CHOOSE t \in Txns : TRUE
  /\ PackInit
  /\ unit # "fifo" => mem = [a \in Addresses |-> Zero]
  /\ SkidInit
  /\ unit # "skid" => ~i_valid /\ ~i_ready /\ i_data = CHOOSE w \in Words : TRUE
  /\ IwrrInit
  /\ unit # "iwrr" => wrr_req = {} /\ watch = 0 /\ weight = MCNoWeight
  /\ SyncInit

MCArbiter(A) == /\ unit = "arbiter" /\ A
                /\ UNCHANGED <<unit, schedVars, vars, blockVars>>
MCPort(A)    == unit = "port" /\ A /\ UNCHANGED <<unit, vars, blockVars>>
MCBridge(A)  == /\ unit = "bridge" /\ A
                /\ UNCHANGED <<unit, schedVars, arbVars, blockVars>>

MCSync(A)    == /\ unit = "sync" /\ A
                /\ UNCHANGED <<unit, nocVars, packVars, skidVars, iwrrVars>>

MCNext ==
  \/ MCArbiter(ArbNext) \/ MCPort(PortNext) \/ MCBridge(Next) \/ MCSync(SyncNext)
  \/ unit = "fifo" /\ PackNext /\ UNCHANGED <<unit, nocVars, skidVars, iwrrVars, syncVars>>
  \/ unit = "skid" /\ SkidNext /\ UNCHANGED <<unit, nocVars, packVars, iwrrVars, syncVars>>
  \/ unit = "iwrr" /\ IwrrNext /\ UNCHANGED <<unit, nocVars, packVars, skidVars, syncVars>>

(* The fairness of each unit's own specification.                          *)
MCFairness ==
  /\ WF_mcVars(MCArbiter(Accept))
  /\ WF_mcVars(MCPort(PortServe)) /\ WF_mcVars(MCPort(PortFinish))
  /\ WF_mcVars(MCBridge(WBeat)) /\ WF_mcVars(MCBridge(Setup))
  /\ WF_mcVars(MCBridge(WResp)) /\ WF_mcVars(MCBridge(RBeat))
  /\ WF_mcVars(MCSync(SyncNext)) /\ WF_mcVars(MCSync(Move))
  /\ WF_mcVars(MCBridge(\E err \in BOOLEAN : WAccess(err) \/ RAccess(err)))

MCSpec == MCInit /\ [][MCNext]_mcVars /\ MCFairness

(* noc_arbiter alone serves a request of the highest priority in use (in   *)
(* the bridge, ReadsServed says when it does).                             *)
ArbiterServes == unit = "arbiter" => TopPriorityServed
=============================================================================
