---------------------------- MODULE Axi2ApbBridge ---------------------------
(***************************************************************************)
(* The AXI to APB bridge of the NoC (RTL/noc/RTL/axi2apb_bridge.sv): one   *)
(* AXI burst at a time becomes a sequence of single APB transfers.  One    *)
(* step is one rising clock edge out of reset; an action is the edge in    *)
(* one state of the bridge's FSM with its handshake, Stall the edge        *)
(* without it.                                                             *)
(*                                                                         *)
(* The attributes of a request are held by AXI until it is accepted and    *)
(* read by nobody before, so they are chosen at the acceptance.  The       *)
(* master's id and PROT travel with the registers sel and addr and are     *)
(* left out.  The data of W beat i is i; the data an APB read returns is   *)
(* the number of the transfer.  Who wins an arbitration, and whether all   *)
(* requesters do some day, is the subject of BridgePort: here any one may. *)
(***************************************************************************)
EXTENDS Naturals, Sequences

CONSTANTS
  Masters,     \* master ports
  Addrs,       \* start addresses
  AddrSpace,   \* 2^ADDR_WIDTH: addresses wrap
  Steps,       \* bytes per beat, 2^AxSIZE
  MaxBeats     \* longest burst (AxLEN + 1)

ASSUME ConstantsAssumption ==
  /\ AddrSpace \in Nat \ {0}
  /\ Addrs \subseteq 0..(AddrSpace - 1)
  /\ Steps \subseteq Nat
  /\ MaxBeats \in 1..256
  /\ Masters \subseteq {0, 1} /\ 0 \in Masters

Txns == [addr : Addrs, incr : BOOLEAN, step : Steps, beats : 1..MaxBeats]

VARIABLES
  awv, arv,    \* masters presenting a write, a read address to this bridge
  st,          \* FSM state
  sel,         \* master being served
  addr,        \* address of the current beat
  incr, step,  \* INCR burst; bytes per beat
  rbeat,       \* read beats left after the current one
  werr,        \* accumulated write error
  wd_l, wlast_l,  \* captured write beat
  rd_l, rerr_l,   \* captured read data and error
  txn,         \* history: the burst being served
  sent,        \* W beats of it the master has handed over
  log          \* history: completed APB transfers of it

latched == <<sel, incr, step, txn>>
wregs == <<werr, wd_l, wlast_l, sent>>
rregs == <<rbeat, rd_l, rerr_l>>
vars == <<awv, arv, st, addr, latched, wregs, rregs, log>>

States == {"IDLE", "WBEAT", "WSETUP", "WACCESS", "WRESP",
           "RSETUP", "RACCESS", "RBEAT"}
Writing == st \in {"WBEAT", "WSETUP", "WACCESS", "WRESP"}
-----------------------------------------------------------------------------
(* A request stays until it is accepted; others may come at any edge.      *)
Requests(aws, ars) ==
  /\ awv' \in {s \in SUBSET Masters : awv \ aws \subseteq s}
  /\ arv' \in {s \in SUBSET Masters : arv \ ars \subseteq s}

(* B_IDLE: the burst is latched, a write before any read.                  *)
Latch(m, t) ==
  /\ sel' = m /\ txn' = t
  /\ addr' = t.addr /\ incr' = t.incr /\ step' = t.step
  /\ log' = <<>>

AcceptWrite(m) ==
  /\ st = "IDLE" /\ m \in awv
  /\ \E t \in Txns : Latch(m, t)
  /\ werr' = FALSE /\ sent' = 0
  /\ st' = "WBEAT"
  /\ UNCHANGED <<wd_l, wlast_l, rregs>>
  /\ Requests({m}, {})

ReadGranted(m) == awv = {} /\ m \in arv

AcceptRead(m) ==
  /\ st = "IDLE" /\ ReadGranted(m)
  /\ \E t \in Txns : Latch(m, t) /\ rbeat' = t.beats - 1
  /\ st' = "RSETUP"
  /\ UNCHANGED <<wregs, rd_l, rerr_l>>
  /\ Requests({}, {m})

(* B_WBEAT with wvalid: one W beat is captured.                            *)
WBeat ==
  /\ st = "WBEAT"
  /\ sent' = sent + 1
  /\ wd_l' = sent + 1
  /\ wlast_l' = (sent + 1 = txn.beats)
  /\ st' = "WSETUP"
  /\ UNCHANGED <<addr, latched, werr, rregs, log>>
  /\ Requests({}, {})

(* B_WSETUP, B_RSETUP: PSEL without PENABLE for one cycle.                 *)
Setup ==
  /\ st \in {"WSETUP", "RSETUP"}
  /\ st' = IF st = "WSETUP" THEN "WACCESS" ELSE "RACCESS"
  /\ UNCHANGED <<addr, latched, wregs, rregs, log>>
  /\ Requests({}, {})

(* Mutant NOC_BUG_BRIDGE_ADDR: the address never moves.                    *)
NextAddr_Same == addr
NextAddr == IF incr THEN (addr + step) % AddrSpace ELSE addr

AfterWAccess == IF wlast_l THEN "WRESP" ELSE "WBEAT"

(* Mutant: only the last transfer's error is reported.                     *)
WErrNext_LastOnly(err) == err

WErrNext(err) == werr \/ err

(* B_WACCESS with PREADY: the write transfer completes with PSLVERR = err. *)
WAccess(err) ==
  /\ st = "WACCESS"
  /\ log' = Append(log, [addr |-> addr, data |-> wd_l, err |-> err])
  /\ werr' = WErrNext(err)
  /\ addr' = NextAddr
  /\ st' = AfterWAccess
  /\ UNCHANGED <<latched, wd_l, wlast_l, sent, rregs>>
  /\ Requests({}, {})

(* Mutant: the bridge stays in its response state.                         *)
AfterWResp_Stuck == "WRESP"
AfterWResp == "IDLE"

(* B_WRESP with bready.                                                    *)
WResp ==
  /\ st = "WRESP"
  /\ st' = AfterWResp
  /\ UNCHANGED <<addr, latched, wregs, rregs, log>>
  /\ Requests({}, {})

(* Mutant NOC_BUG_PSLVERR_SWALLOW.                                         *)
RErrNext_Swallow(err) == FALSE
RErrNext(err) == err

(* B_RACCESS with PREADY: the read transfer completes.                     *)
RAccess(err) ==
  /\ st = "RACCESS"
  /\ log' = Append(log, [addr |-> addr, data |-> Len(log) + 1, err |-> err])
  /\ rd_l' = Len(log) + 1
  /\ rerr_l' = RErrNext(err)
  /\ st' = "RBEAT"
  /\ UNCHANGED <<addr, latched, wregs, rbeat>>
  /\ Requests({}, {})

RLast == rbeat = 0

(* B_RBEAT with rready: one R beat is delivered.                           *)
RBeat ==
  /\ st = "RBEAT"
  /\ addr' = NextAddr
  /\ rbeat' = IF RLast THEN rbeat ELSE rbeat - 1
  /\ st' = IF RLast THEN "IDLE" ELSE "RSETUP"
  /\ UNCHANGED <<latched, wregs, rd_l, rerr_l, log>>
  /\ Requests({}, {})

(* An edge without the handshake the state waits for.                      *)
Stall ==
  /\ st \in {"WBEAT", "WACCESS", "WRESP", "RACCESS", "RBEAT"}
       \/ (st = "IDLE" /\ awv = {} /\ ~\E m \in Masters : ReadGranted(m))
  /\ UNCHANGED <<st, addr, latched, wregs, rregs, log>>
  /\ Requests({}, {})

Init ==
  /\ awv = {} /\ arv = {}
  /\ st = "IDLE"
  /\ sel = 0
  /\ addr = 0 /\ incr = FALSE /\ step = 0
  /\ rbeat = 0 /\ rd_l = 0 /\ rerr_l = FALSE
  /\ werr = FALSE /\ wd_l = 0 /\ wlast_l = FALSE
  /\ sent = 0 /\ log = <<>>
  /\ txn \in Txns                    \* history: nothing is served yet

Next ==
  \/ \E m \in Masters : AcceptWrite(m) \/ AcceptRead(m)
  \/ WBeat
  \/ Setup
  \/ \E err \in BOOLEAN : WAccess(err) \/ RAccess(err)
  \/ WResp
  \/ RBeat
  \/ Stall

Spec == Init /\ [][Next]_vars

(* The clock runs; APB slaves become ready; masters send their data and    *)
(* take their responses.                                                   *)
Fairness ==
  /\ WF_vars(WBeat) /\ WF_vars(Setup) /\ WF_vars(WResp) /\ WF_vars(RBeat)
  /\ WF_vars(\E err \in BOOLEAN : WAccess(err) \/ RAccess(err))

FairSpec == Spec /\ Fairness
-----------------------------------------------------------------------------
Transfers == [addr : 0..(AddrSpace - 1), data : 0..MaxBeats, err : BOOLEAN]

TypeOK ==
  /\ awv \subseteq Masters /\ arv \subseteq Masters
  /\ st \in States
  /\ sel \in Masters
  /\ addr \in 0..(AddrSpace - 1)
  /\ incr \in BOOLEAN /\ step \in Nat
  /\ rbeat \in 0..(MaxBeats - 1)
  /\ werr \in BOOLEAN /\ wd_l \in 0..MaxBeats /\ wlast_l \in BOOLEAN
  /\ rd_l \in 0..MaxBeats /\ rerr_l \in BOOLEAN
  /\ txn \in Txns
  /\ sent \in 0..MaxBeats
  /\ log \in Seq(Transfers)

(* Address of the i-th beat of the burst.                                  *)
BeatAddr(i) ==
  IF txn.incr THEN (txn.addr + (i - 1) * txn.step) % AddrSpace ELSE txn.addr

(* The APB transfers of a burst are its beats: in order, each at its own   *)
(* address and with its own data, never more of them than the burst has.   *)
TransfersAreBeats ==
  /\ Len(log) <= txn.beats
  /\ \A i \in 1..Len(log) : log[i].addr = BeatAddr(i) /\ log[i].data = i

(* A B is presented only when every beat has been transferred, once per    *)
(* burst, and is SLVERR exactly when some transfer failed (header of       *)
(* axi2apb_bridge.sv).                                                     *)
AnswerSumsUpBurst ==
  st = "WRESP" =>
    /\ Len(log) = txn.beats
    /\ werr <=> \E i \in 1..Len(log) : log[i].err

(* An R beat carries the data and the error of its own transfer, and the   *)
(* last beat is the last one of the burst.                                 *)
ReadBeatIsTransfer ==
  st = "RBEAT" =>
    /\ log # <<>>
    /\ rd_l = log[Len(log)].data /\ rerr_l = log[Len(log)].err
    /\ RLast <=> Len(log) = txn.beats

(* Every burst accepted is finished, whatever its length and however late  *)
(* the APB slave and the master are: after it the port is free again.      *)
BurstsFinish == st # "IDLE" ~> st = "IDLE"
=============================================================================
