------------------------ MODULE NocWriteFabricProofs ------------------------
(* Proofs about NocWriteFabric, for every burst length, set of ids, set of *)
(* servers and number of writes a master raises ahead.                     *)
EXTENDS NocWriteFabric, TLAPS

(* A master with no write in flight has neither an AW nor data accepted.   *)
IdleClean(m) == ~wbusy[m] => nacc[m] = 0 /\ nsent[m] = 0

(* The write a server works on exists.                                     *)
InFlightExists(m) == wbusy[m] => Len(todo[m]) >= 1

(* Every write whose data is not all sent has a beat left to send.         *)
BeatsLeft(m) == \A i \in (nsent[m] + 1)..Len(todo[m]) : todo[m][i].left >= 1

(* A serving server works on the master's first write.                     *)
ServesFirst(m) ==
  \A t \in Servers : Serves(t, m) =>
    /\ wbusy[m]
    /\ nacc[m] = 1
    /\ todo[m][1].tgt = t
    /\ todo[m][1].id = w_id[t]
    /\ nsent[m] = IF wstate[t] = "DATA" THEN 0 ELSE 1

BusyServed(m) == wbusy[m] => \E t \in Servers : Serves(t, m)

MasterInv(m) == /\ IdleClean(m) /\ InFlightExists(m) /\ BeatsLeft(m)
                /\ ServesFirst(m) /\ BusyServed(m)

(* The inductive invariant of the write side.                              *)
IInv == TypeOK /\ \A m \in Masters : MasterInv(m)
-----------------------------------------------------------------------------
(* The routing property is part of it.                                     *)
LEMMA IInvImplies == IInv => WriteRouted
BY DEF IInv, MasterInv, ServesFirst, BusyServed, WriteRouted

(* Reset establishes it.                                                   *)
LEMMA InitIInv == Init => IInv
<1> SUFFICES ASSUME Init PROVE IInv
  OBVIOUS
<1>1. TypeOK
  <2>1. 0 \in Masters /\ 0 \in Ids
    BY ConstantsAssumption
  <2>2. todo \in [Masters -> Seq(Writes)]
    BY DEF Init
  <2> QED BY <2>1, <2>2 DEF Init, TypeOK, States
<1>2. ASSUME NEW m \in Masters PROVE MasterInv(m)
  BY DEF Init, MasterInv, IdleClean, InFlightExists, BeatsLeft, ServesFirst,
         BusyServed, Serves
<1> QED BY <1>1, <1>2 DEF IInv
-----------------------------------------------------------------------------
(* What one edge does to a server: it loads the write of a master that is  *)
(* accepted, or goes through its phases with the master it serves.         *)
Loaded(acc, t) == /\ wstate[t] = "IDLE" /\ wstate'[t] = "DATA"
                  /\ w_sel'[t] \in acc
                  /\ AwOf(w_sel'[t]).tgt = t
                  /\ w_id'[t] = AwOf(w_sel'[t]).id

Kept(data, resp, t) ==
  /\ w_sel'[t] = w_sel[t] /\ w_id'[t] = w_id[t]
  /\ wstate'[t] = IF t \in data /\ WLast(t) THEN "RESP"
                  ELSE IF t \in resp THEN "IDLE" ELSE wstate[t]

LEMMA ServerStep ==
  ASSUME NEW acc, NEW data, NEW resp, ServersNext(acc, data, resp),
         NEW t \in Servers
  PROVE  \/ Loaded(acc, t)
         \/ /\ Kept(data, resp, t)
            /\ ~(wstate[t] = "IDLE" /\ \E m \in acc : AwOf(m).tgt = t)
<1> DEFINE W == {m \in acc : AwOf(m).tgt = t}
           g == CHOOSE m \in W : TRUE
<1>1. CASE wstate[t] = "IDLE" /\ W # {}
  <2>1. g \in W
    BY <1>1
  <2>2. wstate'[t] = "DATA" /\ w_sel'[t] = g /\ w_id'[t] = AwOf(g).id
    BY <1>1 DEF ServersNext, LatchedId
  <2> HIDE DEF g
  <2> QED BY <1>1, <2>1, <2>2 DEF Loaded
<1>2. CASE ~(wstate[t] = "IDLE" /\ W # {})
  <2>1. /\ w_sel'[t] = w_sel[t] /\ w_id'[t] = w_id[t]
        /\ wstate'[t] = IF t \in data /\ WLast(t) THEN "RESP"
                        ELSE IF t \in resp THEN "IDLE" ELSE wstate[t]
    BY <1>2 DEF ServersNext
  <2>2. ~(wstate[t] = "IDLE" /\ \E m \in acc : AwOf(m).tgt = t)
    BY <1>2
  <2> QED BY <2>1, <2>2 DEF Kept
<1> QED BY <1>1, <1>2

(* What one edge does to a master's writes: the first in line may have     *)
(* been sent a beat of, may be gone, and one may have been added.          *)
SentOf(data, m) == IF WTaken(data, m)
                   THEN [todo[m] EXCEPT ![nsent[m] + 1].left = @ - 1] ELSE todo[m]
RestOf(data, resp, m) ==
  IF BDone(resp, m) THEN Tail(SentOf(data, m)) ELSE SentOf(data, m)

LEMMA MasterStep ==
  ASSUME NEW acc, NEW data, NEW resp, MastersNext(acc, data, resp),
         NEW m \in Masters
  PROVE  /\ \/ todo'[m] = RestOf(data, resp, m)
            \/ \E w \in Writes : /\ w.left > 0
                                 /\ todo'[m] = Append(RestOf(data, resp, m), w)
         /\ nacc'[m] = nacc[m] + (IF m \in acc THEN 1 ELSE 0)
                         - (IF BDone(resp, m) THEN 1 ELSE 0)
         /\ nsent'[m] = nsent[m] + (IF WTaken(data, m) /\ WOf(m).left = 1 THEN 1 ELSE 0)
                          - (IF BDone(resp, m) THEN 1 ELSE 0)
<1> DEFINE Plans(n) == IF n \notin Masters THEN {<<>>} ELSE {RestOf(data, resp, n)} \cup
             {Append(RestOf(data, resp, n), w) :
                w \in {w \in Writes : /\ w.left > 0
                                      /\ Len(RestOf(data, resp, n)) < MaxPlanned}}
<1>1. PICK p0 \in Plans(0), p1 \in Plans(1) :
           todo' = [n \in Masters |-> IF n = 0 THEN p0 ELSE p1]
  BY DEF MastersNext, RestOf, SentOf
<1>2. todo'[m] \in Plans(m)
  <2>1. m = 0 \/ m = 1
    BY ConstantsAssumption
  <2> HIDE DEF Plans
  <2> QED BY <1>1, <2>1
<1>3. \/ todo'[m] = RestOf(data, resp, m)
      \/ \E w \in Writes : w.left > 0 /\ todo'[m] = Append(RestOf(data, resp, m), w)
  BY <1>2
<1>4. /\ nacc'[m] = nacc[m] + (IF m \in acc THEN 1 ELSE 0)
                      - (IF BDone(resp, m) THEN 1 ELSE 0)
      /\ nsent'[m] = nsent[m] + (IF WTaken(data, m) /\ WOf(m).left = 1 THEN 1 ELSE 0)
                       - (IF BDone(resp, m) THEN 1 ELSE 0)
  BY DEF MastersNext
<1> QED BY <1>3, <1>4

(* A write added at the end leaves the others and has beats to send.       *)
LEMMA Planned ==
  ASSUME NEW r \in Seq(Writes), NEW q,
         q = r \/ \E w \in Writes : w.left > 0 /\ q = Append(r, w)
  PROVE  /\ q \in Seq(Writes) /\ Len(q) >= Len(r)
         /\ \A i \in 1..Len(r) : q[i] = r[i]
         /\ \A i \in (Len(r) + 1)..Len(q) : q[i].left >= 1
<1>1. CASE q = r
  BY <1>1
<1>2. ASSUME NEW w \in Writes, w.left > 0, q = Append(r, w)
      PROVE  /\ q \in Seq(Writes) /\ Len(q) >= Len(r)
             /\ \A i \in 1..Len(r) : q[i] = r[i]
             /\ \A i \in (Len(r) + 1)..Len(q) : q[i].left >= 1
  <2>1. w.left \in 0..MaxBeats
    BY DEF Writes
  <2>2. w.left >= 1
    BY <1>2, <2>1, ConstantsAssumption
  <2>3. q \in Seq(Writes) /\ Len(q) = Len(r) + 1 /\ q[Len(r) + 1] = w
    BY <1>2
  <2>4. \A i \in 1..Len(r) : q[i] = r[i]
    BY <1>2
  <2>5. ASSUME NEW i \in (Len(r) + 1)..Len(q) PROVE q[i].left >= 1
    <3>1. i = Len(r) + 1
      BY <2>3
    <3> QED BY <2>2, <2>3, <3>1
  <2> QED BY <2>3, <2>4, <2>5
<1> QED BY <1>1, <1>2

(* One beat of the first write is sent.                                    *)
LEMMA BeatSent ==
  ASSUME NEW s \in Seq(Writes), Len(s) >= 1, s[1].left >= 1
  PROVE  LET r == [s EXCEPT ![1].left = @ - 1]
         IN  /\ r \in Seq(Writes) /\ Len(r) = Len(s)
             /\ r[1].tgt = s[1].tgt /\ r[1].id = s[1].id /\ r[1].left = s[1].left - 1
             /\ \A i \in 2..Len(s) : r[i] = s[i]
<1> DEFINE v == [s[1] EXCEPT !.left = @ - 1]
           r == [s EXCEPT ![1] = v]
<1>1. s[1] \in Writes /\ s[1].left \in 0..MaxBeats /\ MaxBeats \in Nat
  <2>1. s[1] \in Writes
    OBVIOUS
  <2>2. s[1].left \in 0..MaxBeats
    BY <2>1 DEF Writes
  <2> QED BY <2>1, <2>2, ConstantsAssumption
<1>2. v \in Writes /\ v.tgt = s[1].tgt /\ v.id = s[1].id /\ v.left = s[1].left - 1
  BY <1>1 DEF Writes
<1> HIDE DEF v
<1>3. r \in Seq(Writes) /\ Len(r) = Len(s) /\ r[1] = v /\ \A i \in 2..Len(s) : r[i] = s[i]
  <2>1. Len(s) \in Nat /\ s \in [1..Len(s) -> Writes]
    OBVIOUS
  <2>2. r \in [1..Len(s) -> Writes]
    BY <1>2, <2>1
  <2>3. r \in Seq(Writes) /\ Len(r) = Len(s)
    BY <2>1, <2>2
  <2>4. r[1] = v /\ \A i \in 2..Len(s) : r[i] = s[i]
    BY <2>1
  <2> QED BY <2>3, <2>4
<1>4. r = [s EXCEPT ![1].left = @ - 1]
  BY DEF v
<1> HIDE DEF r
<1> QED BY <1>2, <1>3, <1>4

(* The first write is gone.                                                *)
LEMMA FirstGone ==
  ASSUME NEW s \in Seq(Writes), Len(s) >= 1
  PROVE  /\ Tail(s) \in Seq(Writes) /\ Len(Tail(s)) = Len(s) - 1
         /\ \A i \in 1..Len(Tail(s)) : Tail(s)[i] = s[i + 1]
OBVIOUS
-----------------------------------------------------------------------------
(* The handshakes of one edge keep apart, for one master: its AW can be    *)
(* accepted only while nobody serves it, and the server in its data phase  *)
(* is not one in its response phase.                                       *)
LEMMA Apart ==
  ASSUME IInv, NEW m \in Masters,
         NEW acc \in SUBSET Accepting, NEW data \in SUBSET Taking,
         NEW resp \in SUBSET Answering
  PROVE  /\ m \in acc => /\ ~wbusy[m] /\ nacc[m] = 0 /\ nsent[m] = 0
                         /\ Len(todo[m]) >= 1 /\ AwOf(m) = todo[m][1]
                         /\ ~WTaken(data, m) /\ ~BDone(resp, m)
         /\ WTaken(data, m) => /\ wbusy[m] /\ nacc[m] = 1 /\ nsent[m] = 0
                               /\ Len(todo[m]) >= 1 /\ WOf(m) = todo[m][1]
                               /\ todo[m][1].left >= 1
                               /\ m \notin acc /\ ~BDone(resp, m)
         /\ BDone(resp, m) => /\ wbusy[m] /\ nacc[m] = 1 /\ nsent[m] = 1
                              /\ Len(todo[m]) >= 1
                              /\ m \notin acc /\ ~WTaken(data, m)
<1>0. /\ IdleClean(m) /\ InFlightExists(m) /\ BeatsLeft(m) /\ ServesFirst(m)
      /\ todo[m] \in Seq(Writes) /\ Len(todo[m]) \in Nat
      /\ nacc[m] \in Nat /\ nsent[m] \in Nat
  BY DEF IInv, MasterInv, TypeOK
<1>1. m \in acc => ~wbusy[m] /\ nacc[m] < Len(todo[m])
  BY DEF Accepting, AwvGated, Awvalid
<1>2. ASSUME NEW t \in data, w_sel[t] = m
      PROVE  /\ t \in Servers /\ wstate[t] = "DATA" /\ wbusy[m] /\ nacc[m] = 1
             /\ nsent[m] = 0 /\ todo[m][1].tgt = t
  <2>1. t \in Servers /\ wstate[t] = "DATA" /\ Serves(t, m)
    BY <1>2 DEF Taking, Takes, Serves
  <2> QED BY <1>0, <2>1 DEF ServesFirst
<1>3. ASSUME NEW t \in resp, w_sel[t] = m
      PROVE  /\ t \in Servers /\ wstate[t] = "RESP" /\ wbusy[m] /\ nacc[m] = 1
             /\ nsent[m] = 1 /\ todo[m][1].tgt = t
  <2>1. t \in Servers /\ wstate[t] = "RESP" /\ Serves(t, m)
    BY <1>3 DEF Answering, Answers, Serves
  <2> QED BY <1>0, <2>1 DEF ServesFirst
<1>4. WTaken(data, m) => wbusy[m] /\ nacc[m] = 1 /\ nsent[m] = 0
  BY <1>2 DEF WTaken
<1>5. BDone(resp, m) => wbusy[m] /\ nacc[m] = 1 /\ nsent[m] = 1
  BY <1>3 DEF BDone
<1>6. ASSUME m \in acc
      PROVE  /\ ~wbusy[m] /\ nacc[m] = 0 /\ nsent[m] = 0
             /\ Len(todo[m]) >= 1 /\ AwOf(m) = todo[m][1]
             /\ ~WTaken(data, m) /\ ~BDone(resp, m)
  BY <1>0, <1>1, <1>4, <1>5, <1>6 DEF IdleClean, AwOf
<1>7. ASSUME WTaken(data, m)
      PROVE  /\ wbusy[m] /\ nacc[m] = 1 /\ nsent[m] = 0
             /\ Len(todo[m]) >= 1 /\ WOf(m) = todo[m][1]
             /\ todo[m][1].left >= 1
             /\ m \notin acc /\ ~BDone(resp, m)
  <2>1. wbusy[m] /\ nacc[m] = 1 /\ nsent[m] = 0 /\ Len(todo[m]) >= 1
    BY <1>0, <1>4, <1>7 DEF InFlightExists
  <2>2. WOf(m) = todo[m][1] /\ todo[m][1].left >= 1
    BY <1>0, <2>1 DEF WOf, BeatsLeft
  <2> QED BY <1>1, <1>5, <2>1, <2>2
<1>8. ASSUME BDone(resp, m)
      PROVE  /\ wbusy[m] /\ nacc[m] = 1 /\ nsent[m] = 1
             /\ Len(todo[m]) >= 1
             /\ m \notin acc /\ ~WTaken(data, m)
  BY <1>0, <1>1, <1>4, <1>5, <1>8 DEF InFlightExists
<1> QED BY <1>6, <1>7, <1>8

(* One edge preserves the invariant of every master, and the types of its  *)
(* variables.                                                              *)
LEMMA EdgeMaster ==
  ASSUME IInv, NEW m \in Masters,
         NEW acc \in SUBSET Accepting, NEW data \in SUBSET Taking,
         NEW resp \in SUBSET Answering, Edge(acc, data, resp)
  PROVE  MasterInv(m)' /\ todo'[m] \in Seq(Writes) /\ nacc'[m] \in Nat /\ nsent'[m] \in Nat
<1> DEFINE r == RestOf(data, resp, m)
<1>0. /\ IdleClean(m) /\ InFlightExists(m) /\ BeatsLeft(m) /\ ServesFirst(m) /\ BusyServed(m)
      /\ todo[m] \in Seq(Writes) /\ Len(todo[m]) \in Nat
      /\ nacc[m] \in Nat /\ nsent[m] \in Nat
  BY DEF IInv, MasterInv, TypeOK
<1>1. /\ \/ todo'[m] = r
         \/ \E w \in Writes : w.left > 0 /\ todo'[m] = Append(r, w)
      /\ nacc'[m] = nacc[m] + (IF m \in acc THEN 1 ELSE 0)
                      - (IF BDone(resp, m) THEN 1 ELSE 0)
      /\ nsent'[m] = nsent[m] + (IF WTaken(data, m) /\ WOf(m).left = 1 THEN 1 ELSE 0)
                       - (IF BDone(resp, m) THEN 1 ELSE 0)
  BY MasterStep DEF Edge
<1>2. wbusy'[m] = IF m \in acc THEN TRUE ELSE IF BDone(resp, m) THEN FALSE ELSE wbusy[m]
  BY DEF Edge, WbusyNext
<1>3. ASSUME NEW t \in Servers
      PROVE  \/ Loaded(acc, t)
             \/ /\ Kept(data, resp, t)
                /\ ~(wstate[t] = "IDLE" /\ \E n \in acc : AwOf(n).tgt = t)
  BY ServerStep DEF Edge
<1>4. r \in Seq(Writes) => /\ todo'[m] \in Seq(Writes) /\ Len(todo'[m]) >= Len(r)
                           /\ \A i \in 1..Len(r) : todo'[m][i] = r[i]
                           /\ \A i \in (Len(r) + 1)..Len(todo'[m]) : todo'[m][i].left >= 1
  <2> HIDE DEF r
  <2> QED BY <1>1, Planned
<1>5. CASE m \in acc
  <2> DEFINE T == todo[m][1].tgt
  <2>0. /\ ~wbusy[m] /\ nacc[m] = 0 /\ nsent[m] = 0
        /\ Len(todo[m]) >= 1 /\ AwOf(m) = todo[m][1]
        /\ ~WTaken(data, m) /\ ~BDone(resp, m)
    BY <1>5, Apart
  <2>1. r = todo[m] /\ nacc'[m] = 1 /\ nsent'[m] = 0 /\ wbusy'[m]
    BY <1>1, <1>2, <1>5, <2>0 DEF RestOf, SentOf
  <2> HIDE DEF r
  <2>2. /\ todo'[m] \in Seq(Writes) /\ Len(todo'[m]) >= Len(todo[m])
        /\ \A i \in 1..Len(todo[m]) : todo'[m][i] = todo[m][i]
        /\ \A i \in (Len(todo[m]) + 1)..Len(todo'[m]) : todo'[m][i].left >= 1
    BY <1>0, <1>4, <2>1
  <2>3. T \in Servers /\ wstate[T] = "IDLE"
    <3>1. todo[m][1] \in Writes
      BY <1>0, <2>0
    <3>2. T \in Servers
      BY <3>1 DEF Writes
    <3> QED BY <1>5, <2>0, <3>2 DEF Accepting
  <2>4. Loaded(acc, T)
    BY <1>3, <1>5, <2>0, <2>3
  <2>5. w_sel'[T] = m
    <3>1. w_sel'[T] \in acc /\ AwOf(w_sel'[T]).tgt = AwOf(m).tgt
      BY <2>0, <2>4 DEF Loaded
    <3> QED BY <1>5, <3>1 DEF Edge, OnePerServer
  <2>6. ASSUME NEW t \in Servers, Serves(t, m)'
        PROVE  t = T
    <3>1. CASE Loaded(acc, t)
      BY <2>0, <2>6, <3>1 DEF Loaded, Serves
    <3>2. CASE Kept(data, resp, t)
      <4>1. ~Serves(t, m)
        BY <1>0, <2>0 DEF ServesFirst
      <4>2. wstate[t] = "IDLE"
        BY <2>6, <3>2, <4>1 DEF Kept, Serves
      <4>3. t \notin data
        BY <4>2 DEF Taking, Takes
      <4> QED BY <2>6, <3>2, <4>2, <4>3 DEF Kept, Serves
    <3> QED BY <1>3, <3>1, <3>2
  <2>7. wstate'[T] = "DATA" /\ w_id'[T] = todo[m][1].id
    BY <2>0, <2>4, <2>5 DEF Loaded
  <2>8. todo'[m][1] = todo[m][1]
    BY <1>0, <2>0, <2>2
  <2> HIDE DEF T
  <2>9. IdleClean(m)' /\ BusyServed(m)'
    BY <2>1, <2>3, <2>5, <2>7 DEF IdleClean, BusyServed, Serves
  <2>10. InFlightExists(m)'
    BY <1>0, <2>0, <2>2 DEF InFlightExists
  <2>11. BeatsLeft(m)'
    BY <1>0, <2>0, <2>1, <2>2 DEF BeatsLeft
  <2>12. ServesFirst(m)'
    BY <2>1, <2>6, <2>7, <2>8 DEF ServesFirst, T
  <2> QED BY <2>1, <2>2, <2>9, <2>10, <2>11, <2>12 DEF MasterInv
<1>6. CASE WTaken(data, m)
  <2> DEFINE l == todo[m][1].left
  <2>0. /\ wbusy[m] /\ nacc[m] = 1 /\ nsent[m] = 0
        /\ Len(todo[m]) >= 1 /\ WOf(m) = todo[m][1]
        /\ l >= 1 /\ l \in Nat
        /\ m \notin acc /\ ~BDone(resp, m)
    <3>1. todo[m][1] \in Writes
      <4>1. Len(todo[m]) >= 1
        BY <1>6, Apart
      <4> QED BY <1>0, <4>1
    <3>2. l \in 0..MaxBeats
      BY <3>1 DEF Writes
    <3>3. l \in Nat
      BY <3>2, ConstantsAssumption
    <3> QED BY <1>6, <3>3, Apart
  <2>1. /\ r \in Seq(Writes) /\ Len(r) = Len(todo[m])
        /\ r[1].tgt = todo[m][1].tgt /\ r[1].id = todo[m][1].id /\ r[1].left = l - 1
        /\ \A i \in 2..Len(todo[m]) : r[i] = todo[m][i]
    <3>1. r = [todo[m] EXCEPT ![1].left = @ - 1]
      BY <1>6, <2>0 DEF RestOf, SentOf
    <3> HIDE DEF r
    <3> QED BY <1>0, <2>0, <3>1, BeatSent
  <2> HIDE DEF r
  <2>2. /\ todo'[m] \in Seq(Writes) /\ Len(todo'[m]) >= Len(todo[m])
        /\ \A i \in 1..Len(todo[m]) : todo'[m][i] = r[i]
        /\ \A i \in (Len(todo[m]) + 1)..Len(todo'[m]) : todo'[m][i].left >= 1
    BY <1>4, <2>1
  <2>3. /\ nacc'[m] = 1 /\ nsent'[m] = (IF l = 1 THEN 1 ELSE 0) /\ wbusy'[m]
    BY <1>1, <1>2, <1>6, <2>0
  <2>4. ASSUME NEW t \in Servers
        PROVE  /\ Serves(t, m)' <=> Serves(t, m)
               /\ Serves(t, m) => /\ w_id'[t] = w_id[t]
                                  /\ wstate'[t] = IF l = 1 THEN "RESP" ELSE "DATA"
    <3>1. CASE Loaded(acc, t)
      BY <2>0, <3>1 DEF Loaded, Serves
    <3>2. CASE Kept(data, resp, t)
      <4>1. PICK u \in data : w_sel[u] = m
        BY <1>6 DEF WTaken
      <4>2. u \in Servers /\ wstate[u] = "DATA" /\ Serves(u, m)
        BY <4>1 DEF Taking, Takes, Serves
      <4>3. Serves(t, m) => t = u
        BY <1>0, <4>2 DEF ServesFirst
      <4>4. Serves(t, m) => WLast(t) = (l = 1)
        BY <2>0, <4>1, <4>3 DEF WLast
      <4>5. ASSUME Serves(t, m)
            PROVE  wstate'[t] = IF l = 1 THEN "RESP" ELSE "DATA"
        <5>1. t \in data /\ t \notin resp /\ wstate[t] = "DATA"
          BY <4>1, <4>2, <4>3, <4>5 DEF Answering, Answers
        <5> HIDE DEF l
        <5> QED BY <3>2, <4>4, <4>5, <5>1 DEF Kept
      <4>6. ASSUME Serves(t, m)' PROVE Serves(t, m)
        <5>1. w_sel[t] = m /\ wstate'[t] # "IDLE"
          BY <3>2, <4>6 DEF Kept, Serves
        <5>2. wstate[t] # "IDLE"
          BY <3>2, <5>1 DEF Kept, Taking, Takes
        <5> QED BY <5>1, <5>2 DEF Serves
      <4>7. w_sel'[t] = w_sel[t] /\ w_id'[t] = w_id[t]
        BY <3>2 DEF Kept
      <4>8. Serves(t, m) => Serves(t, m)'
        <5> HIDE DEF l
        <5> QED BY <4>5, <4>7 DEF Serves
      <4> QED BY <4>5, <4>6, <4>7, <4>8
    <3> QED BY <1>3, <3>1, <3>2
  <2>5. todo'[m][1].tgt = todo[m][1].tgt /\ todo'[m][1].id = todo[m][1].id
    <3>1. todo'[m][1] = r[1]
      BY <1>0, <2>0, <2>2
    <3> QED BY <2>1, <3>1
  <2>6. IdleClean(m)' /\ BusyServed(m)'
    BY <1>0, <2>0, <2>3, <2>4 DEF IdleClean, BusyServed
  <2>7. InFlightExists(m)'
    BY <1>0, <2>0, <2>2 DEF InFlightExists
  <2>8. BeatsLeft(m)'
    <3> SUFFICES ASSUME NEW i \in (nsent'[m] + 1)..Len(todo'[m])
                 PROVE  todo'[m][i].left >= 1
      BY DEF BeatsLeft
    <3>1. CASE i = 1
      <4>1. l # 1 /\ todo'[m][1].left = l - 1
        BY <1>0, <2>0, <2>1, <2>2, <2>3, <3>1
      <4> QED BY <2>0, <3>1, <4>1
    <3>2. CASE i \in 2..Len(todo[m])
      <4>1. todo'[m][i] = todo[m][i]
        BY <1>0, <2>1, <2>2, <3>2
      <4>2. i \in (nsent[m] + 1)..Len(todo[m])
        BY <1>0, <2>0, <3>2
      <4> QED BY <1>0, <4>1, <4>2 DEF BeatsLeft
    <3>3. CASE i \in (Len(todo[m]) + 1)..Len(todo'[m])
      BY <2>2, <3>3
    <3> QED
      <4>1. i \in Nat /\ i >= 1 /\ Len(todo'[m]) \in Nat
        BY <2>2, <2>3
      <4> QED BY <1>0, <2>2, <3>1, <3>2, <3>3, <4>1
  <2>9. ServesFirst(m)'
    BY <1>0, <2>3, <2>4, <2>5 DEF ServesFirst
  <2> QED BY <2>2, <2>3, <2>6, <2>7, <2>8, <2>9 DEF MasterInv
<1>7. CASE BDone(resp, m)
  <2>0. /\ wbusy[m] /\ nacc[m] = 1 /\ nsent[m] = 1 /\ Len(todo[m]) >= 1
        /\ m \notin acc /\ ~WTaken(data, m)
    BY <1>7, Apart
  <2>1. /\ r \in Seq(Writes) /\ Len(r) = Len(todo[m]) - 1
        /\ \A i \in 1..Len(r) : r[i] = todo[m][i + 1]
    <3>1. r = Tail(todo[m])
      BY <1>7, <2>0 DEF RestOf, SentOf
    <3> HIDE DEF r
    <3> QED BY <1>0, <2>0, <3>1, FirstGone
  <2> HIDE DEF r
  <2>2. nacc'[m] = 0 /\ nsent'[m] = 0 /\ wbusy'[m] = FALSE
    BY <1>1, <1>2, <1>7, <2>0
  <2>3. ASSUME NEW t \in Servers PROVE ~Serves(t, m)'
    <3>1. CASE Loaded(acc, t)
      BY <2>0, <3>1 DEF Loaded, Serves
    <3>2. CASE Kept(data, resp, t)
      <4>1. PICK u \in resp : w_sel[u] = m
        BY <1>7 DEF BDone
      <4>2. u \in Servers /\ wstate[u] = "RESP" /\ Serves(u, m)
        BY <4>1 DEF Answering, Answers, Serves
      <4>3. Serves(t, m) => t = u
        BY <1>0, <4>2 DEF ServesFirst
      <4>4. t \notin data \/ w_sel[t] # m
        BY <2>0 DEF WTaken
      <4> QED BY <3>2, <4>1, <4>3, <4>4 DEF Kept, Serves
    <3> QED BY <1>3, <3>1, <3>2
  <2>4. IdleClean(m)' /\ BusyServed(m)' /\ InFlightExists(m)' /\ ServesFirst(m)'
    BY <2>2, <2>3 DEF IdleClean, BusyServed, InFlightExists, ServesFirst
  <2>5. BeatsLeft(m)'
    <3> SUFFICES ASSUME NEW i \in 1..Len(todo'[m])
                 PROVE  todo'[m][i].left >= 1
      BY <2>2 DEF BeatsLeft
    <3>1. CASE i \in 1..Len(r)
      <4>1. todo'[m][i] = todo[m][i + 1]
        BY <1>4, <2>1, <3>1
      <4>2. i + 1 \in (nsent[m] + 1)..Len(todo[m])
        BY <1>0, <2>0, <2>1, <3>1
      <4> QED BY <1>0, <4>1, <4>2 DEF BeatsLeft
    <3>2. CASE i \in (Len(r) + 1)..Len(todo'[m])
      BY <1>4, <2>1, <3>2
    <3> QED BY <1>0, <2>1, <3>1, <3>2
  <2> QED BY <1>4, <2>1, <2>2, <2>4, <2>5 DEF MasterInv
<1>8. CASE m \notin acc /\ ~WTaken(data, m) /\ ~BDone(resp, m)
  <2>1. r = todo[m] /\ nacc'[m] = nacc[m] /\ nsent'[m] = nsent[m] /\ wbusy'[m] = wbusy[m]
    BY <1>0, <1>1, <1>2, <1>8 DEF RestOf, SentOf
  <2> HIDE DEF r
  <2>2. ASSUME NEW t \in Servers
        PROVE  /\ Serves(t, m)' <=> Serves(t, m)
               /\ Serves(t, m) => wstate'[t] = wstate[t] /\ w_id'[t] = w_id[t]
    <3>1. CASE Loaded(acc, t)
      BY <1>8, <3>1 DEF Loaded, Serves
    <3>2. CASE Kept(data, resp, t)
      BY <1>8, <3>2 DEF Kept, Serves, WTaken, BDone
    <3> QED BY <1>3, <3>1, <3>2
  <2>3. /\ todo'[m] \in Seq(Writes) /\ Len(todo'[m]) >= Len(todo[m])
        /\ \A i \in 1..Len(todo[m]) : todo'[m][i] = todo[m][i]
        /\ \A i \in (Len(todo[m]) + 1)..Len(todo'[m]) : todo'[m][i].left >= 1
    BY <1>0, <1>4, <2>1
  <2>4. IdleClean(m)' /\ BusyServed(m)'
    BY <1>0, <2>1, <2>2 DEF IdleClean, BusyServed
  <2>5. InFlightExists(m)'
    BY <1>0, <2>1, <2>3 DEF InFlightExists
  <2>6. BeatsLeft(m)'
    BY <1>0, <2>1, <2>3 DEF BeatsLeft
  <2>7. ServesFirst(m)'
    <3>1. wbusy[m] => todo'[m][1] = todo[m][1]
      BY <1>0, <2>3 DEF InFlightExists
    <3> QED BY <1>0, <2>1, <2>2, <3>1 DEF ServesFirst
  <2> QED BY <1>0, <2>1, <2>3, <2>4, <2>5, <2>6, <2>7 DEF MasterInv
<1> QED BY <1>5, <1>6, <1>7, <1>8

(* One edge preserves the types.                                           *)
LEMMA EdgeTypes ==
  ASSUME IInv, NEW acc \in SUBSET Accepting, NEW data \in SUBSET Taking,
         NEW resp \in SUBSET Answering, Edge(acc, data, resp)
  PROVE  TypeOK'
<1>0. TypeOK /\ acc \subseteq Masters /\ data \subseteq Servers
  BY DEF IInv, Accepting, Taking
<1>1. /\ DOMAIN todo' = Masters /\ DOMAIN nacc' = Masters /\ DOMAIN nsent' = Masters
      /\ todo' = [m \in Masters |-> todo'[m]] /\ nacc' = [m \in Masters |-> nacc'[m]]
      /\ nsent' = [m \in Masters |-> nsent'[m]]
  BY DEF Edge, MastersNext
<1>2. /\ todo' \in [Masters -> Seq(Writes)]
      /\ nacc' \in [Masters -> Nat] /\ nsent' \in [Masters -> Nat]
  BY <1>1, EdgeMaster
<1>3. wvalid' \in [Masters -> BOOLEAN]
  BY DEF Edge, MastersNext
<1>4. wbusy' \in [Masters -> BOOLEAN]
  BY <1>0 DEF Edge, WbusyNext, TypeOK
<1>5. ASSUME NEW t \in Servers
      PROVE  wstate'[t] \in States /\ w_sel'[t] \in Masters /\ w_id'[t] \in Ids
  <2>0. wstate[t] \in States /\ w_sel[t] \in Masters /\ w_id[t] \in Ids
    BY <1>0 DEF TypeOK
  <2>1. CASE Loaded(acc, t)
    <3> DEFINE m == w_sel'[t]
    <3>1. m \in Masters /\ m \in acc /\ w_id'[t] = AwOf(m).id /\ wstate'[t] = "DATA"
      BY <1>0, <2>1 DEF Loaded
    <3> HIDE DEF m
    <3>2. Len(todo[m]) >= 1 /\ AwOf(m) = todo[m][1]
      BY <3>1, Apart
    <3>3. AwOf(m) \in Writes
      BY <1>0, <3>1, <3>2 DEF TypeOK
    <3>4. AwOf(m).id \in Ids
      BY <3>3 DEF Writes
    <3> QED BY <3>1, <3>4 DEF States, m
  <2>2. CASE Kept(data, resp, t)
    BY <2>0, <2>2 DEF Kept, States
  <2> QED BY <2>1, <2>2, ServerStep DEF Edge
<1>6. /\ wstate' = [t \in Servers |-> wstate'[t]] /\ w_sel' = [t \in Servers |-> w_sel'[t]]
      /\ w_id' = [t \in Servers |-> w_id'[t]]
  BY DEF Edge, ServersNext
<1>7. /\ wstate' \in [Servers -> States] /\ w_sel' \in [Servers -> Masters]
      /\ w_id' \in [Servers -> Ids]
  BY <1>5, <1>6
<1>8. gnt' \in [Servers -> Masters \cup {NoOne}]
  BY DEF Edge, GrantsNext
<1> QED BY <1>2, <1>3, <1>4, <1>7, <1>8 DEF TypeOK

(* Every step preserves the inductive invariant.                           *)
LEMMA StepIInv == IInv /\ [Next]_vars => IInv'
<1> SUFFICES ASSUME IInv, [Next]_vars PROVE IInv'
  OBVIOUS
<1>1. CASE Next
  <2>1. PICK acc \in SUBSET Accepting, data \in SUBSET Taking, resp \in SUBSET Answering :
             Edge(acc, data, resp)
    BY <1>1 DEF Next
  <2>2. TypeOK'
    BY <2>1, EdgeTypes
  <2>3. ASSUME NEW m \in Masters PROVE MasterInv(m)'
    BY <2>1, EdgeMaster
  <2> QED BY <2>2, <2>3 DEF IInv
<1>2. CASE UNCHANGED vars
  <2>1. TypeOK'
    BY <1>2 DEF IInv, TypeOK, vars, masters, servers
  <2>2. ASSUME NEW m \in Masters PROVE MasterInv(m)'
    <3>1. MasterInv(m)
      BY DEF IInv
    <3> QED BY <1>2, <3>1 DEF MasterInv, IdleClean, InFlightExists, BeatsLeft,
              ServesFirst, BusyServed, Serves, vars, masters, servers
  <2> QED BY <2>1, <2>2 DEF IInv
<1> QED BY <1>1, <1>2
-----------------------------------------------------------------------------
(* The inductive invariant holds throughout.                               *)
LEMMA Invariance == Spec => []IInv
BY InitIInv, StepIInv, PTL DEF Spec

(* The types of the write side: in particular a count of accepted or sent  *)
(* writes is never taken below zero by a response nobody waits for.        *)
THEOREM TypeCorrect == Spec => []TypeOK
<1>1. IInv => TypeOK
  BY DEF IInv
<1> QED BY <1>1, Invariance, PTL

(* Data and responses follow the write whose AW was accepted, for any      *)
(* number of servers, ids, beats and writes raised ahead; wbusy is set     *)
(* exactly while one server serves the master.                             *)
THEOREM RoutingCorrect == Spec => []WriteRouted
BY IInvImplies, Invariance, PTL
=============================================================================
