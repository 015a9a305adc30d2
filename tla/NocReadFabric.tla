--------------------------- MODULE NocReadFabric ----------------------------
(***************************************************************************)
(* The read side of the NoC fabric (RTL/noc/RTL/noc_top.sv): address-      *)
(* decoded AR routing, the per-master outstanding-read tracker that gates  *)
(* it, and the per-master R mux with its burst lock.  One step is one      *)
(* rising clock edge out of reset, at which every register of noc_top      *)
(* moves together: an AR can be accepted and a burst can complete at the   *)
(* same edge.                                                              *)
(*                                                                         *)
(* An address is abstracted to the server it decodes to.  A server is      *)
(* abstracted to what noc_top can see of it (noc_axi_slave_port with its   *)
(* slave, axi2apb_bridge, noc_decerr_port): it accepts at most one AR per  *)
(* cycle from any requesting master (who wins is the subject of            *)
(* NocArbiter), and returns whole bursts one at a time, in order for each  *)
(* id, in any order across ids, with gaps between beats.  The DECERR port  *)
(* (server 4) takes one read at a time, at once, and answers without gaps. *)
(***************************************************************************)
EXTENDS Integers, Sequences, FiniteSets

CONSTANTS
  Masters, Ids,      \* master ports; AXI ids of one master
  Servers,           \* R-mux inputs in use, out of 0=s0 1=s1 2=p0 3=p1 4=dc
  Single,            \* those that take one read at a time (bridges, DECERR)
  MaxOutstanding,    \* MAX_OUTSTANDING, reads in flight per master
  MaxBeats,          \* longest burst
  Traffic,           \* the patterns of reads: per master, the reads it makes
  NoReq, NoBurst     \* nothing on an AR channel; nothing on an R channel

Decerr == 4
Requests == [id : Ids, tgt : Servers]
Bursts == [m : Masters, id : Ids, left : 1..MaxBeats, begun : BOOLEAN]

ASSUME ConstantsAssumption ==
  /\ Servers \subseteq 0..4 /\ 0 \in Servers
  /\ Single \subseteq Servers /\ Servers \cap {2, 3, Decerr} \subseteq Single
  /\ MaxOutstanding \in 1..15
  /\ MaxBeats \in Nat \ {0}
  /\ NoReq \notin Requests
  /\ NoBurst \notin Bursts
  /\ IsFiniteSet(Ids)
  /\ Traffic \subseteq [Masters -> SUBSET Requests]

VARIABLES
  traffic,   \* traffic[m]: the reads master m makes, chosen once
  ar,        \* ar[m]: the read address master m presents, or NoReq
  out_cnt,   \* out_cnt[m][id]: reads of this id in flight
  out_tgt,   \* out_tgt[m][id]: the server the latest of them went to
  rtotal,    \* rtotal[m]: reads in flight
  rlock,     \* rlock[m]: m is inside a burst ...
  rlsel,     \* ... of server rlsel[m]
  pend,      \* pend[t][m][id]: reads server t still has to answer completely
  burst,     \* burst[t]: the burst on server t's R channel, or NoBurst
  rv,        \* rv[t]: server t presents a beat of it in this cycle
  order      \* history: order[m][id], the servers of the reads in flight,
             \* oldest first

tracker == <<out_cnt, out_tgt, rtotal>>
servers == <<pend, burst, rv>>
vars == <<traffic, ar, tracker, rlock, rlsel, servers, order>>

Bit(b) == IF b THEN 1 ELSE 0
-----------------------------------------------------------------------------
(* AR gate of noc_top.                                                     *)

(* Mutant NOC_BUG_SAMEID_REORDER: the same-id interlock is disabled.       *)
ArAllow_SameIdReorder(m) == rtotal[m] < MaxOutstanding

ArAllow(m) ==
  /\ rtotal[m] < MaxOutstanding
  /\ ~(out_cnt[m][ar[m].id] # 0 /\ out_tgt[m][ar[m].id] # ar[m].tgt)

(* The server the request decodes to sees it.                              *)
ArvGated(m) == ar[m] # NoReq /\ ArAllow(m)

Owes(t) == \E m \in Masters, k \in Ids : pend[t][m][k] > 0

(* The masters whose AR its server may accept in this cycle: one-at-a-time *)
(* servers accept only when they are idle.                                 *)
Accepting == {m \in Masters : ArvGated(m) /\ (ar[m].tgt \in Single => ~Owes(ar[m].tgt))}

(* Servers' arready: at most one master each; the DECERR port does not let *)
(* a request wait once it is idle.                                         *)
Acceptable(acc) ==
  /\ \A m, n \in acc : ar[m].tgt = ar[n].tgt => m = n
  /\ \A m \in Accepting : ar[m].tgt = Decerr => \E n \in acc : ar[n].tgt = Decerr
-----------------------------------------------------------------------------
(* R mux of noc_top.                                                       *)
ServerValid(t, m) == rv[t] /\ burst[t].m = m

FirstValid(m) ==
  CHOOSE t \in Servers : /\ ServerValid(t, m)
                         /\ \A u \in Servers : ServerValid(u, m) => t <= u

(* Mutant: the mux ignores the burst lock.                                 *)
RSel_NoLock(m) ==
  IF \E t \in Servers : ServerValid(t, m) THEN FirstValid(m) ELSE 0

(* Locked: the locked server; else the first valid one; else s0.           *)
RSel(m) ==
  IF rlock[m] THEN rlsel[m]
  ELSE IF \E t \in Servers : ServerValid(t, m) THEN FirstValid(m) ELSE 0

RAny(m) == ServerValid(RSel(m), m)

(* With the masters in rdy ready: beats, last beats and the id of a beat.  *)
Beat(rdy, m) == m \in rdy /\ RAny(m)
RDone(rdy, m) == Beat(rdy, m) /\ burst[RSel(m)].left = 1
DoneId(rdy, m, k) == RDone(rdy, m) /\ burst[RSel(m)].id = k
BeatAt(rdy, t) == \E m \in Masters : Beat(rdy, m) /\ RSel(m) = t
-----------------------------------------------------------------------------
(* Registers of noc_top after the edge.                                    *)

(* Mutant: the last beat does not release the lock.                        *)
RlockNext_KeptAtLast(rdy) ==
  /\ rlock' = [m \in Masters |-> Beat(rdy, m) \/ rlock[m]]
  /\ rlsel' = [m \in Masters |-> IF Beat(rdy, m) THEN RSel(m) ELSE rlsel[m]]

RlockNext(rdy) ==
  /\ rlock' = [m \in Masters |-> IF Beat(rdy, m) THEN ~RDone(rdy, m) ELSE rlock[m]]
  /\ rlsel' = [m \in Masters |-> IF Beat(rdy, m) /\ ~RDone(rdy, m) THEN RSel(m)
                                 ELSE rlsel[m]]

Inc(acc, m, k) == m \in acc /\ ar[m].id = k

(* Mutant: an acceptance hides a completion of the same id at the edge.    *)
TrackerNext_IncWins(rdy, acc) ==
  /\ rtotal' = [m \in Masters |->
       (rtotal[m] + Bit(m \in acc) - Bit(RDone(rdy, m))) % 32]
  /\ out_cnt' = [m \in Masters |-> [k \in Ids |->
       IF Inc(acc, m, k) THEN (out_cnt[m][k] + 1) % 16
       ELSE (out_cnt[m][k] - Bit(DoneId(rdy, m, k))) % 16]]
  /\ out_tgt' = [m \in Masters |-> [k \in Ids |->
       IF Inc(acc, m, k) THEN ar[m].tgt ELSE out_tgt[m][k]]]

(* out_cnt is 4 bits wide, rtotal 5.                                       *)
TrackerNext(rdy, acc) ==
  /\ rtotal' = [m \in Masters |->
       (rtotal[m] + Bit(m \in acc) - Bit(RDone(rdy, m))) % 32]
  /\ out_cnt' = [m \in Masters |-> [k \in Ids |->
       (out_cnt[m][k] + Bit(Inc(acc, m, k)) - Bit(DoneId(rdy, m, k))) % 16]]
  /\ out_tgt' = [m \in Masters |-> [k \in Ids |->
       IF Inc(acc, m, k) THEN ar[m].tgt ELSE out_tgt[m][k]]]

(* History: an accepted read enters the order of its id, a completed one   *)
(* leaves it.                                                              *)
OrderNext(rdy, acc) ==
  order' = [m \in Masters |-> [k \in Ids |->
    LET rest == IF DoneId(rdy, m, k) THEN Tail(order[m][k]) ELSE order[m][k]
    IN  IF Inc(acc, m, k) THEN Append(rest, ar[m].tgt) ELSE rest]]
-----------------------------------------------------------------------------
(* Servers (noc_axi_slave_port and its slave, bridge, DECERR) as noc_top   *)
(* sees them.                                                              *)
PendNext(rdy, acc) ==
  pend' = [t \in Servers |-> [m \in Masters |-> [k \in Ids |->
    pend[t][m][k] + Bit(Inc(acc, m, k) /\ ar[m].tgt = t)
                  - Bit(DoneId(rdy, m, k) /\ RSel(m) = t)]]]

(* What server t may drive on its R channel after the edge.  An unaccepted *)
(* beat stays; inside a burst the next beat comes, at once or after a gap; *)
(* otherwise any burst the server owes may start.  The DECERR port leaves  *)
(* no gap: m_rvalid is high throughout DR_DATA.                            *)
Opens(rdy, t) == burst[t] = NoBurst \/ (BeatAt(rdy, t) /\ burst[t].left = 1)

Continued(rdy, t) ==
  IF BeatAt(rdy, t) THEN [burst[t] EXCEPT !.left = @ - 1, !.begun = TRUE]
  ELSE burst[t]

Drivable(rdy, t) ==
  IF Opens(rdy, t)
  THEN {b \in Bursts : ~b.begun /\ pend'[t][b.m][b.id] > 0}
         \cup {b \in {NoBurst} : t = Decerr => ~Owes(t)'}
  ELSE {Continued(rdy, t)}
         \cup {b \in {NoBurst} : t # Decerr /\ (rv[t] => BeatAt(rdy, t))}

(* All servers move at the edge; one that is not in use drives nothing.    *)
Choices(rdy, t) == IF t \in Servers THEN Drivable(rdy, t) ELSE {NoBurst}

ServersNext(rdy, acc) ==
  /\ PendNext(rdy, acc)
  /\ \E d0 \in Choices(rdy, 0), d1 \in Choices(rdy, 1), d2 \in Choices(rdy, 2),
        d3 \in Choices(rdy, 3), d4 \in Choices(rdy, 4) :
       LET drive == <<d0, d1, d2, d3, d4>>
       IN  /\ rv' = [t \in Servers |-> drive[t + 1] # NoBurst]
           /\ burst' = [t \in Servers |-> IF Opens(rdy, t) THEN drive[t + 1]
                                          ELSE Continued(rdy, t)]
-----------------------------------------------------------------------------
(* Masters: an AR that is not accepted is held (AXI); an idle one may raise*)
(* any read of its traffic.                                                *)
MastersNext(acc) ==
  /\ ar' \in [Masters -> Requests \cup {NoReq}]
  /\ \A m \in Masters : ar'[m] \in IF ar[m] = NoReq \/ m \in acc
                                   THEN traffic[m] \cup {NoReq} ELSE {ar[m]}
  /\ UNCHANGED traffic

(* One clock edge: the masters in rdy accept R beats, the servers accept   *)
(* the read addresses of acc.                                              *)
Edge(rdy, acc) ==
  /\ Acceptable(acc)
  /\ RlockNext(rdy)
  /\ TrackerNext(rdy, acc)
  /\ OrderNext(rdy, acc)
  /\ ServersNext(rdy, acc)
  /\ MastersNext(acc)

Init ==
  /\ traffic \in Traffic
  /\ ar = [m \in Masters |-> NoReq]
  /\ out_cnt = [m \in Masters |-> [k \in Ids |-> 0]]
  /\ out_tgt = [m \in Masters |-> [k \in Ids |-> 0]]
  /\ rtotal = [m \in Masters |-> 0]
  /\ rlock = [m \in Masters |-> FALSE]
  /\ rlsel = [m \in Masters |-> 0]
  /\ pend = [t \in Servers |-> [m \in Masters |-> [k \in Ids |-> 0]]]
  /\ burst = [t \in Servers |-> NoBurst]
  /\ rv = [t \in Servers |-> FALSE]
  /\ order = [m \in Masters |-> [k \in Ids |-> <<>>]]

(* The masters that have a beat on offer; RREADY is of no effect elsewhere.*)
Offered == {m \in Masters : RAny(m)}

Next == \E rdy \in SUBSET Offered, acc \in SUBSET Accepting : Edge(rdy, acc)

Spec == Init /\ [][Next]_vars

(* Fairness of the parties around the fabric: a master keeps accepting     *)
(* beats that stay on offer, a server keeps accepting addresses and keeps  *)
(* answering what it accepted.                                             *)
BeatStep(m) == m \in Offered /\ \E rdy \in SUBSET Offered, acc \in SUBSET Accepting :
                 m \in rdy /\ Edge(rdy, acc)
ArStep(m) == m \in Accepting /\ \E rdy \in SUBSET Offered, acc \in SUBSET Accepting :
               m \in acc /\ Edge(rdy, acc)
DriveStep(t) == /\ ~rv[t] /\ Owes(t)
                /\ Next
                /\ rv'[t]

Fairness == /\ \A m \in Masters : WF_vars(BeatStep(m)) /\ WF_vars(ArStep(m))
            /\ \A t \in Servers : WF_vars(DriveStep(t))

FairSpec == Spec /\ Fairness
-----------------------------------------------------------------------------
TypeOK ==
  /\ traffic \in Traffic
  /\ ar \in [Masters -> Requests \cup {NoReq}]
  /\ out_cnt \in [Masters -> [Ids -> 0..15]]
  /\ out_tgt \in [Masters -> [Ids -> Servers]]
  /\ rtotal \in [Masters -> 0..31]
  /\ rlock \in [Masters -> BOOLEAN]
  /\ rlsel \in [Masters -> Servers]
  /\ pend \in [Servers -> [Masters -> [Ids -> Nat]]]
  /\ burst \in [Servers -> Bursts \cup {NoBurst}]
  /\ rv \in [Servers -> BOOLEAN]
  /\ order \in [Masters -> [Ids -> Seq(Servers)]]

(* Reads of one id complete in the order they were accepted, across        *)
(* servers: the beat a master sees always belongs to its oldest read of    *)
(* that id (design specification, section 10.2).                           *)
SameIdOrder ==
  \A m \in Masters : RAny(m) =>
    LET o == order[m][burst[RSel(m)].id]
    IN  o # <<>> /\ Head(o) = RSel(m)

InFlight(m) == UNION {{k} \X (1..Len(order[m][k])) : k \in Ids}

(* The tracker never drifts from the reads really in flight, though        *)
(* acceptances and completions coincide and the counters are narrow: a     *)
(* master never has more than MAX_OUTSTANDING reads at the servers.        *)
TrackerExact ==
  \A m \in Masters :
    /\ \A k \in Ids : out_cnt[m][k] = Len(order[m][k])
    /\ rtotal[m] = Cardinality(InFlight(m))
    /\ Cardinality(InFlight(m)) <= MaxOutstanding

(* A burst begun at a master holds the master's mux until its last beat:   *)
(* beats of two bursts never interleave at a master port.                  *)
BurstsContiguous ==
  \A t \in Servers : burst[t] # NoBurst /\ burst[t].begun =>
    rlock[burst[t].m] /\ RSel(burst[t].m) = t

(* Once the masters raise no new reads, every read address is accepted and *)
(* every read in flight completes: no combination of burst locks, same-id  *)
(* interlocks and shared R channels wedges the fabric.                     *)
NoNewReads == \E rdy \in SUBSET Offered, acc \in SUBSET Accepting :
  /\ Edge(rdy, acc)
  /\ \A m \in Masters : ar'[m] # NoReq => m \notin acc /\ ar'[m] = ar[m]

Drains == <>[][NoNewReads]_vars
            => <>[](\A m \in Masters : ar[m] = NoReq /\ rtotal[m] = 0)
=============================================================================
