--------------------------- MODULE NocWriteFabric ---------------------------
(***************************************************************************)
(* The write side of the NoC: noc_top's one-outstanding gate (wbusy), its  *)
(* AW routing and its OR-ed AW/W/B response muxes, over the write servers  *)
(* (noc_axi_slave_port W_IDLE/W_DATA/W_RESP, noc_decerr_port DW_*, and     *)
(* axi2apb_bridge, whose per-beat APB work is seen here as W and B being   *)
(* accepted late).  One step is one rising clock edge out of reset.        *)
(*                                                                         *)
(* Every server sees every master's W and B channels; only wbusy and the   *)
(* servers' w_sel keep them apart.  A master raises writes ahead: it       *)
(* presents the AW and may present the W beats of its next write while an  *)
(* earlier one is unanswered, and W beats before their AW is accepted.     *)
(* Data is abstracted to the write it belongs to, an address to the server *)
(* it decodes to.  Of each server's arbiter (noc_arbiter u_warb) the grant *)
(* lock is kept, and a fresh grant goes to any requester: that covers      *)
(* every AxQOS the masters may drive and every state of the round-robin.   *)
(***************************************************************************)
EXTENDS Naturals, Sequences

CONSTANTS
  Masters, Ids,  \* master ports; AXI ids
  Servers,       \* write servers in use, out of 0=s0 1=s1 2=p0 3=p1 4=dc
  MaxBeats,      \* longest burst
  MaxPlanned     \* unanswered writes of a master (a bound of the model)

ASSUME ConstantsAssumption ==
  /\ Servers \subseteq 0..4 /\ Servers # {}
  /\ Masters \subseteq {0, 1} /\ 0 \in Masters
  /\ Ids \subseteq 0..15 /\ 0 \in Ids
  /\ MaxBeats \in Nat \ {0}
  /\ MaxPlanned \in Nat \ {0}

VARIABLES
  todo,      \* todo[m]: m's unanswered writes, oldest first
  nacc,      \* nacc[m]: how many of them had their AW accepted
  nsent,     \* nsent[m]: how many of them had all their W beats accepted
  wvalid,    \* wvalid[m]: m presents the next W beat
  wbusy,     \* noc_top: m has a write in flight
  wstate,    \* wstate[t]: the write FSM of server t
  w_sel,     \* w_sel[t]: the master it serves
  w_id,      \* w_id[t]: the id it answers with
  gnt        \* gnt[t]: the master its arbiter's grant is locked to, or NoOne

masters == <<todo, nacc, nsent, wvalid>>
servers == <<wstate, w_sel, w_id>>
vars == <<masters, wbusy, servers, gnt>>

Decerr == 4
NoOne == 2
Writes == [tgt : Servers, id : Ids, left : 0..MaxBeats]
States == {"IDLE", "DATA", "RESP"}

AwOf(m) == todo[m][nacc[m] + 1]        \* the write on m's AW channel
WOf(m) == todo[m][nsent[m] + 1]        \* the write on m's W channel
Awvalid(m) == nacc[m] < Len(todo[m])
-----------------------------------------------------------------------------
AwvGated(m) == Awvalid(m) /\ ~wbusy[m]

(* The gated AWs that reach the arbiter of server t, busy or not.          *)
Requests(t) == {m \in Masters : AwvGated(m) /\ AwOf(m).tgt = t}

(* Mutant: no grant lock, so that the higher priority wins every time.     *)
MayWin_NoLock(t) == Requests(t)
(* Those its grant may go to: a locked grant stays where it is.            *)
MayWin(t) == IF gnt[t] = NoOne THEN Requests(t) ELSE {gnt[t]}

(* AW: an idle server accepts at most one gated master, the granted one.   *)
Accepting == {m \in Masters : /\ AwvGated(m) /\ wstate[AwOf(m).tgt] = "IDLE"
                              /\ m \in MayWin(AwOf(m).tgt)}
OnePerServer(acc) == \A m, n \in acc : AwOf(m).tgt = AwOf(n).tgt => m = n

(* W: a server in its data phase takes beats of the master it serves.      *)
Takes(t) == wstate[t] = "DATA" /\ wvalid[w_sel[t]]
Taking == {t \in Servers : Takes(t)}
WTaken(data, m) == \E t \in data : w_sel[t] = m
WLast(t) == WOf(w_sel[t]).left = 1

(* The DECERR port lets neither an AW wait once it is idle nor a beat.     *)
DecerrPrompt(acc, data) ==
  /\ \A m \in Accepting : AwOf(m).tgt = Decerr => \E n \in acc : AwOf(n).tgt = Decerr
  /\ \A t \in Taking : t = Decerr => t \in data

(* Mutant NOC_BUG_DECERR_OMIT: unmapped writes get no response.            *)
Answers_DecerrOmit(t) == wstate[t] = "RESP" /\ t # Decerr
(* B: a server in its response phase answers the master it serves.         *)
Answers(t) == wstate[t] = "RESP"
Answering == {t \in Servers : Answers(t)}
BDone(resp, m) == \E t \in resp : w_sel[t] = m
-----------------------------------------------------------------------------
(* Mutant: wbusy is released with the last W beat.                         *)
WbusyNext_EarlyRelease(acc, data, resp) ==
  wbusy' = [m \in Masters |->
    IF m \in acc THEN TRUE
    ELSE IF \E t \in data : w_sel[t] = m /\ WLast(t) THEN FALSE
    ELSE wbusy[m]]

WbusyNext(acc, data, resp) ==
  wbusy' = [m \in Masters |->
    IF m \in acc THEN TRUE ELSE IF BDone(resp, m) THEN FALSE ELSE wbusy[m]]

(* A grant that is not accepted at this edge is locked, whether the server *)
(* is idle or busy with another write; an accepted one is released.        *)
GrantsNext(acc) ==
  /\ gnt' \in [Servers -> Masters \cup {NoOne}]
  /\ \A t \in Servers :
       IF \E m \in acc : AwOf(m).tgt = t THEN gnt'[t] = NoOne
       ELSE IF MayWin(t) = {} THEN gnt'[t] = NoOne
       ELSE gnt'[t] \in MayWin(t)

LatchedId(m) == AwOf(m).id

ServersNext(acc, data, resp) ==
  LET Winner(t) == {m \in acc : AwOf(m).tgt = t}
      Loads(t) == wstate[t] = "IDLE" /\ Winner(t) # {}
      Granted(t) == CHOOSE m \in Winner(t) : TRUE
  IN  /\ wstate' = [t \in Servers |->
           IF Loads(t) THEN "DATA"
           ELSE IF t \in data /\ WLast(t) THEN "RESP"
           ELSE IF t \in resp THEN "IDLE"
           ELSE wstate[t]]
      /\ w_sel' = [t \in Servers |-> IF Loads(t) THEN Granted(t) ELSE w_sel[t]]
      /\ w_id' = [t \in Servers |-> IF Loads(t) THEN LatchedId(Granted(t)) ELSE w_id[t]]

(* Masters (AXI): writes are accepted, sent and answered in order; a VALID *)
(* that is not accepted is held.                                           *)
MastersNext(acc, data, resp) ==
  LET Sent(m) == IF WTaken(data, m)
                 THEN [todo[m] EXCEPT ![nsent[m] + 1].left = @ - 1] ELSE todo[m]
      Done(m) == IF BDone(resp, m) THEN 1 ELSE 0
      Rest(m) == IF BDone(resp, m) THEN Tail(Sent(m)) ELSE Sent(m)
      Plans(m) == IF m \notin Masters THEN {<<>>} ELSE {Rest(m)} \cup
        {Append(Rest(m), w) : w \in {w \in Writes : /\ w.left > 0
                                                    /\ Len(Rest(m)) < MaxPlanned}}
      Held == {m \in Masters : wvalid[m] /\ ~WTaken(data, m)}
  IN  /\ nacc' = [m \in Masters |-> nacc[m] + (IF m \in acc THEN 1 ELSE 0) - Done(m)]
      /\ nsent' = [m \in Masters |->
           nsent[m] + (IF WTaken(data, m) /\ WOf(m).left = 1 THEN 1 ELSE 0) - Done(m)]
      /\ \E p0 \in Plans(0), p1 \in Plans(1) :
           todo' = [m \in Masters |-> IF m = 0 THEN p0 ELSE p1]
      /\ \E present \in SUBSET {m \in Masters : nsent'[m] < Len(todo'[m])} :
           /\ Held \subseteq present
           /\ wvalid' = [m \in Masters |-> m \in present]

(* One clock edge: AWs of acc, a W beat at each server of data and the B   *)
(* of each server of resp are accepted.                                    *)
Edge(acc, data, resp) ==
  /\ OnePerServer(acc) /\ DecerrPrompt(acc, data)
  /\ GrantsNext(acc)
  /\ WbusyNext(acc, data, resp)
  /\ ServersNext(acc, data, resp)
  /\ MastersNext(acc, data, resp)

Init ==
  /\ todo = [m \in Masters |-> <<>>]
  /\ nacc = [m \in Masters |-> 0]
  /\ nsent = [m \in Masters |-> 0]
  /\ wvalid = [m \in Masters |-> FALSE]
  /\ wbusy = [m \in Masters |-> FALSE]
  /\ wstate = [t \in Servers |-> "IDLE"]
  /\ w_sel = [t \in Servers |-> 0]
  /\ w_id = [t \in Servers |-> 0]
  /\ gnt = [t \in Servers |-> NoOne]

Next == \E acc \in SUBSET Accepting, data \in SUBSET Taking, resp \in SUBSET Answering :
          Edge(acc, data, resp)

Spec == Init /\ [][Next]_vars

(* Fairness, of the handshakes only: a server accepts some AW presented to *)
(* it, whichever its arbiter grants, takes the beats and answers (it is in *)
(* one phase at a time, so one condition covers all three); masters send   *)
(* the data of accepted AWs.                                               *)
ServerMoves(t) ==
  \E acc \in SUBSET Accepting, data \in SUBSET Taking, resp \in SUBSET Answering :
    /\ t \in data \cup resp \cup {AwOf(m).tgt : m \in acc}
    /\ Edge(acc, data, resp)
SendStep(m) == /\ nsent[m] < nacc[m] /\ ~wvalid[m]
               /\ Next
               /\ wvalid'[m]

Fairness ==
  /\ \A m \in Masters : WF_vars(SendStep(m))
  /\ \A t \in Servers : WF_vars(ServerMoves(t))

FairSpec == Spec /\ Fairness
-----------------------------------------------------------------------------
TypeOK ==
  /\ todo \in [Masters -> Seq(Writes)]
  /\ nacc \in [Masters -> Nat] /\ nsent \in [Masters -> Nat]
  /\ wvalid \in [Masters -> BOOLEAN]
  /\ wbusy \in [Masters -> BOOLEAN]
  /\ wstate \in [Servers -> States]
  /\ w_sel \in [Servers -> Masters]
  /\ w_id \in [Servers -> Ids]
  /\ gnt \in [Servers -> Masters \cup {NoOne}]

Serves(t, m) == wstate[t] # "IDLE" /\ w_sel[t] = m

(* The beats a server takes and the B it gives are those of the write      *)
(* whose AW it accepted, and of no write raised before or after it, with   *)
(* that write's id: no data is written at the wrong target.  wbusy is set  *)
(* exactly while a server serves the master, which is what lets the W      *)
(* steering rely on "only one server is active per dir" (noc_top).         *)
WriteRouted ==
  \A m \in Masters :
    /\ wbusy[m] <=> \E t \in Servers : Serves(t, m)
    /\ \A t \in Servers : Serves(t, m) =>
         /\ nacc[m] = 1
         /\ todo[m][1].tgt = t
         /\ todo[m][1].id = w_id[t]
         /\ nsent[m] = IF wstate[t] = "DATA" THEN 0 ELSE 1

(* No write is in flight for ever and no AW that may go waits for ever (a  *)
(* gated AW stays until it is accepted): the write side never hangs,       *)
(* unmapped targets included, and no AxQOS starves a write, although the   *)
(* arbiter's priority is strict ("can starve", noc_arbiter): wbusy keeps   *)
(* the favoured master's next AW away from the arbiter while it is served, *)
(* and the grant lock then goes to the one that waits.                     *)
WritesAnswered == \A m \in Masters : []<>~wbusy[m] /\ []<>~AwvGated(m)
=============================================================================
