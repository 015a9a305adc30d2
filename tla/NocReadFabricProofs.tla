------------------------- MODULE NocReadFabricProofs ------------------------
(* Proofs about NocReadFabric, for every set of masters, ids and servers,  *)
(* every bound on outstanding reads that fits the counters, every burst    *)
(* length and every traffic.                                               *)
EXTENDS NocReadFabric, FiniteSetTheorems, TLAPS

Count(m, k) == Len(order[m][k])

(* Reads of one id in flight are all at the server out_tgt remembers, so   *)
(* that server owes all of them and the others owe none.                   *)
OneTarget(m, k) ==
  /\ out_cnt[m][k] = Count(m, k)
  /\ \A i \in 1..Count(m, k) : order[m][k][i] = out_tgt[m][k]
  /\ \A t \in Servers : pend[t][m][k] = IF t = out_tgt[m][k] THEN Count(m, k) ELSE 0

(* rtotal counts the reads in flight.                                      *)
TotalExact(m) ==
  /\ IsFiniteSet(InFlight(m))
  /\ rtotal[m] = Cardinality(InFlight(m))
  /\ rtotal[m] <= MaxOutstanding

(* A burst on an R channel answers a read its server owes; a begun one     *)
(* holds its master's mux.                                                 *)
BurstOwed(t) ==
  /\ rv[t] => burst[t] # NoBurst
  /\ burst[t] # NoBurst =>
       /\ pend[t][burst[t].m][burst[t].id] > 0
       /\ burst[t].begun => rlock[burst[t].m] /\ rlsel[burst[t].m] = t

(* The inductive invariant of the read side.                               *)
IInv == /\ TypeOK
        /\ \A m \in Masters, k \in Ids : OneTarget(m, k)
        /\ \A m \in Masters : TotalExact(m)
        /\ \A t \in Servers : BurstOwed(t)
-----------------------------------------------------------------------------
(* A non-empty set of servers has a least one: the R mux selects it.       *)
LEMMA LeastServer ==
  ASSUME NEW S \in SUBSET Servers, S # {}
  PROVE  \E t \in S : \A u \in S : t <= u
<1>1. S \subseteq {0, 1, 2, 3, 4}
  BY ConstantsAssumption
<1>2. CASE 0 \in S
  BY <1>1, <1>2
<1>3. CASE 0 \notin S /\ 1 \in S
  BY <1>1, <1>3
<1>4. CASE 0 \notin S /\ 1 \notin S /\ 2 \in S
  BY <1>1, <1>4
<1>5. CASE 0 \notin S /\ 1 \notin S /\ 2 \notin S /\ 3 \in S
  BY <1>1, <1>5
<1>6. CASE 0 \notin S /\ 1 \notin S /\ 2 \notin S /\ 3 \notin S
  <2>1. \A u \in S : u = 4
    BY <1>1, <1>6
  <2> QED BY <2>1
<1> QED BY <1>2, <1>3, <1>4, <1>5, <1>6

(* The R mux selects a server in use, and a locked one's owner stays.      *)
LEMMA RSelType ==
  ASSUME TypeOK, NEW m \in Masters
  PROVE  /\ RSel(m) \in Servers
         /\ rlock[m] => RSel(m) = rlsel[m]
<1>1. rlock[m] => RSel(m) = rlsel[m]
  BY DEF RSel
<1>2. CASE rlock[m]
  BY <1>2, <1>1 DEF TypeOK
<1>3. CASE ~rlock[m] /\ \E t \in Servers : ServerValid(t, m)
  <2> DEFINE S == {t \in Servers : ServerValid(t, m)}
  <2>1. \E t \in Servers : /\ ServerValid(t, m)
                           /\ \A u \in Servers : ServerValid(u, m) => t <= u
    <3>1. \E t \in S : \A u \in S : t <= u
      BY <1>3, LeastServer
    <3> QED BY <3>1
  <2>2. FirstValid(m) \in Servers
    BY <2>1 DEF FirstValid
  <2> QED BY <1>1, <1>3, <2>2 DEF RSel
<1>4. CASE ~rlock[m] /\ ~\E t \in Servers : ServerValid(t, m)
  BY <1>4, ConstantsAssumption DEF RSel
<1> QED BY <1>1, <1>2, <1>3, <1>4

(* A beat on offer belongs to a burst of the master at the selected server *)
(* and to the oldest read of its id.                                       *)
LEMMA OfferedBurst ==
  ASSUME IInv, NEW m \in Masters, RAny(m)
  PROVE  LET t == RSel(m) k == burst[t].id
         IN  /\ t \in Servers /\ burst[t] \in Bursts /\ burst[t].m = m /\ k \in Ids
             /\ pend[t][m][k] > 0 /\ t = out_tgt[m][k] /\ Count(m, k) > 0
             /\ order[m][k] \in Seq(Servers)
<1> DEFINE t == RSel(m)
           k == burst[t].id
<1>0. TypeOK
  BY DEF IInv
<1>1. t \in Servers
  BY <1>0, RSelType
<1> HIDE DEF t
<1>2. rv[t] /\ burst[t].m = m
  BY DEF RAny, ServerValid, t
<1>3. burst[t] # NoBurst /\ pend[t][burst[t].m][burst[t].id] > 0
  BY <1>1, <1>2 DEF IInv, BurstOwed
<1>4. burst[t] \in Bursts
  BY <1>0, <1>1, <1>3 DEF TypeOK
<1>5. k \in Ids
  BY <1>4 DEF Bursts
<1>6. OneTarget(m, k) /\ order[m][k] \in Seq(Servers)
  BY <1>0, <1>5 DEF IInv, TypeOK
<1>7. pend[t][m][k] > 0
  BY <1>2, <1>3
<1> HIDE DEF k
<1>8. t = out_tgt[m][k] /\ Count(m, k) > 0
  BY <1>1, <1>6, <1>7 DEF OneTarget
<1> QED BY <1>1, <1>2, <1>4, <1>5, <1>6, <1>7, <1>8 DEF t, k

(* The properties follow from the inductive invariant.                     *)
LEMMA IInvImplies == IInv => SameIdOrder /\ TrackerExact /\ BurstsContiguous
<1> SUFFICES ASSUME IInv PROVE SameIdOrder /\ TrackerExact /\ BurstsContiguous
  OBVIOUS
<1>0. TypeOK
  BY DEF IInv
<1>1. SameIdOrder
  <2> SUFFICES ASSUME NEW m \in Masters, RAny(m)
               PROVE  LET o == order[m][burst[RSel(m)].id]
                      IN  o # <<>> /\ Head(o) = RSel(m)
    BY DEF SameIdOrder
  <2> DEFINE t == RSel(m)
             k == burst[t].id
  <2>1. /\ k \in Ids /\ t = out_tgt[m][k] /\ Count(m, k) > 0
        /\ order[m][k] \in Seq(Servers)
    BY OfferedBurst
  <2> HIDE DEF k, t
  <2>2. order[m][k][1] = out_tgt[m][k]
    <3>1. OneTarget(m, k) /\ 1 \in 1..Count(m, k)
      BY <2>1 DEF IInv, Count
    <3> QED BY <3>1 DEF OneTarget
  <2>3. order[m][k] # <<>> /\ Head(order[m][k]) = order[m][k][1]
    BY <2>1 DEF Count
  <2> QED BY <2>1, <2>2, <2>3 DEF k, t
<1>2. TrackerExact
  BY DEF IInv, OneTarget, TotalExact, TrackerExact, Count
<1>3. BurstsContiguous
  <2> SUFFICES ASSUME NEW t \in Servers, burst[t] # NoBurst, burst[t].begun
               PROVE  rlock[burst[t].m] /\ RSel(burst[t].m) = t
    BY DEF BurstsContiguous
  <2>1. rlock[burst[t].m] /\ rlsel[burst[t].m] = t
    BY DEF IInv, BurstOwed
  <2> QED BY <2>1 DEF RSel
<1> QED BY <1>1, <1>2, <1>3

(* Reset establishes it.                                                   *)
LEMMA InitIInv == Init => IInv
<1> SUFFICES ASSUME Init PROVE IInv
  OBVIOUS
<1>0. 0 \in Servers
  BY ConstantsAssumption
<1>1. TypeOK
  <2>1. order \in [Masters -> [Ids -> Seq(Servers)]]
    BY DEF Init
  <2>2. pend \in [Servers -> [Masters -> [Ids -> Nat]]]
    BY DEF Init
  <2> QED BY <1>0, <2>1, <2>2 DEF Init, TypeOK
<1>2. ASSUME NEW m \in Masters, NEW k \in Ids PROVE OneTarget(m, k)
  BY DEF Init, OneTarget, Count
<1>3. ASSUME NEW m \in Masters PROVE TotalExact(m)
  <2>1. InFlight(m) = {}
    BY DEF Init, InFlight
  <2> QED BY <2>1, FS_EmptySet, ConstantsAssumption DEF Init, TotalExact
<1>4. ASSUME NEW t \in Servers PROVE BurstOwed(t)
  BY DEF Init, BurstOwed
<1> QED BY <1>1, <1>2, <1>3, <1>4 DEF IInv
-----------------------------------------------------------------------------
(* What is in flight, pair by pair.                                        *)
LEMMA InFlightMember ==
  ASSUME NEW m, NEW x
  PROVE  x \in InFlight(m) <=> \E k \in Ids : \E i \in 1..Count(m, k) : x = <<k, i>>
BY DEF InFlight, Count

(* No id has more reads in flight than the master.                         *)
LEMMA CountLeTotal ==
  ASSUME IInv, NEW m \in Masters, NEW k \in Ids
  PROVE  Count(m, k) \in Nat /\ rtotal[m] \in Nat /\ Count(m, k) <= rtotal[m]
<1> DEFINE f == [i \in 1..Count(m, k) |-> <<k, i>>]
<1>1. Count(m, k) \in Nat /\ rtotal[m] \in Nat
  <2>1. order[m][k] \in Seq(Servers)
    BY DEF IInv, TypeOK
  <2>2. rtotal[m] \in 0..31
    BY DEF IInv, TypeOK
  <2>3. Count(m, k) \in Nat
    BY <2>1 DEF Count
  <2>4. rtotal[m] \in Nat
    BY <2>2
  <2> QED BY <2>3, <2>4
<1>2. f \in Injection(1..Count(m, k), InFlight(m))
  <2>1. f \in [1..Count(m, k) -> InFlight(m)]
    BY InFlightMember
  <2>2. \A a, b \in 1..Count(m, k) : f[a] = f[b] => a = b
    OBVIOUS
  <2> HIDE DEF f
  <2> QED BY <2>1, <2>2 DEF Injection, IsInjective
<1> HIDE DEF f
<1>3. IsFiniteSet(InFlight(m)) /\ rtotal[m] = Cardinality(InFlight(m))
  BY DEF IInv, TotalExact
<1>4. Cardinality(1..Count(m, k)) <= Cardinality(InFlight(m))
  BY <1>2, <1>3, FS_Injection
<1>5. Cardinality(1..Count(m, k)) = Count(m, k)
  BY <1>1, FS_Interval
<1> QED BY <1>1, <1>3, <1>4, <1>5

(* A read that completes is one of the id its burst carries, at the server *)
(* out_tgt names, and it is in flight.                                     *)
LEMMA DoneFacts ==
  ASSUME IInv, NEW rdy, NEW m \in Masters, NEW k \in Ids, DoneId(rdy, m, k)
  PROVE  RSel(m) = out_tgt[m][k] /\ Count(m, k) >= 1
<1>1. RAny(m) /\ burst[RSel(m)].id = k
  BY DEF DoneId, RDone, Beat
<1>2. RSel(m) = out_tgt[m][k] /\ Count(m, k) > 0
  BY <1>1, OfferedBurst
<1>3. Count(m, k) \in Nat
  BY CountLeTotal
<1> QED BY <1>2, <1>3

(* A read that is accepted goes where the others of its id are.            *)
LEMMA IncFacts ==
  ASSUME IInv, NEW acc \in SUBSET Accepting, NEW m \in Masters, m \in acc
  PROVE  /\ ar[m].id \in Ids /\ ar[m].tgt \in Servers
         /\ rtotal[m] < MaxOutstanding
         /\ out_cnt[m][ar[m].id] = 0 \/ out_tgt[m][ar[m].id] = ar[m].tgt
<1>1. ar[m] # NoReq /\ ArAllow(m)
  BY DEF Accepting, ArvGated
<1>2. ar[m] \in Requests
  BY <1>1 DEF IInv, TypeOK
<1>3. ar[m].id \in Ids /\ ar[m].tgt \in Servers
  BY <1>2 DEF Requests
<1> QED BY <1>1, <1>3 DEF ArAllow

(* The tracker of one id through an edge.                                  *)
LEMMA EdgeTarget ==
  ASSUME IInv, NEW rdy \in SUBSET Offered, NEW acc \in SUBSET Accepting, Edge(rdy, acc),
         NEW m \in Masters, NEW k \in Ids
  PROVE  /\ OneTarget(m, k)'
         /\ Count(m, k)' = Count(m, k) + Bit(Inc(acc, m, k)) - Bit(DoneId(rdy, m, k))
         /\ out_cnt'[m][k] \in 0..15 /\ out_tgt'[m][k] \in Servers
         /\ order'[m][k] \in Seq(Servers)
         /\ \A t \in Servers : pend'[t][m][k] \in Nat
<1> DEFINE i == Inc(acc, m, k)
           d == DoneId(rdy, m, k)
           c == Count(m, k)
           o == order[m][k]
           rest == IF d THEN Tail(o) ELSE o
<1>0. TypeOK /\ OneTarget(m, k) /\ o \in Seq(Servers) /\ c = Len(o) /\ c \in Nat
  BY DEF IInv, TypeOK, Count
<1>1. c <= rtotal[m] /\ rtotal[m] \in Nat /\ rtotal[m] <= MaxOutstanding
      /\ MaxOutstanding \in 1..15
  BY CountLeTotal, ConstantsAssumption DEF IInv, TotalExact
<1>2. i => /\ m \in acc /\ ar[m].id = k /\ ar[m].tgt \in Servers
           /\ c < 15 /\ (c = 0 \/ out_tgt[m][k] = ar[m].tgt)
  <2> SUFFICES ASSUME i
               PROVE  /\ m \in acc /\ ar[m].id = k /\ ar[m].tgt \in Servers
                      /\ c < 15 /\ (c = 0 \/ out_tgt[m][k] = ar[m].tgt)
    OBVIOUS
  <2>1. m \in acc /\ ar[m].id = k
    BY DEF Inc
  <2>2. /\ ar[m].tgt \in Servers /\ rtotal[m] < MaxOutstanding
        /\ out_cnt[m][k] = 0 \/ out_tgt[m][k] = ar[m].tgt
    BY <2>1, IncFacts
  <2>3. out_cnt[m][k] = c
    BY <1>0 DEF OneTarget
  <2> QED BY <1>0, <1>1, <2>1, <2>2, <2>3
<1>3. d => RSel(m) = out_tgt[m][k] /\ c >= 1
  BY DoneFacts
<1>4. /\ out_cnt'[m][k] = (out_cnt[m][k] + Bit(i) - Bit(d)) % 16
      /\ out_tgt'[m][k] = IF i THEN ar[m].tgt ELSE out_tgt[m][k]
      /\ order'[m][k] = IF i THEN Append(rest, ar[m].tgt) ELSE rest
  BY DEF Edge, TrackerNext, OrderNext
<1>5. ASSUME NEW t \in Servers
      PROVE  pend'[t][m][k] = pend[t][m][k] + Bit(i /\ ar[m].tgt = t) - Bit(d /\ RSel(m) = t)
  BY DEF Edge, ServersNext, PendNext
<1>6. /\ rest \in Seq(Servers) /\ Len(rest) = c - Bit(d)
      /\ \A j \in 1..Len(rest) : rest[j] = out_tgt[m][k]
  <2>1. CASE d
    <3>1. Tail(o) \in Seq(Servers) /\ Len(Tail(o)) = c - 1
          /\ \A j \in 1..Len(Tail(o)) : Tail(o)[j] = o[j + 1]
      BY <1>0, <1>3, <2>1
    <3>2. \A j \in 1..Len(Tail(o)) : j + 1 \in 1..c
      BY <1>0, <3>1
    <3> HIDE DEF d
    <3> QED BY <1>0, <2>1, <3>1, <3>2 DEF OneTarget, Bit
  <2>2. CASE ~d
    BY <1>0, <2>2 DEF OneTarget, Bit
  <2> QED BY <2>1, <2>2
<1>7. out_tgt[m][k] \in Servers /\ out_cnt[m][k] = c
  BY <1>0 DEF TypeOK, OneTarget
<1> HIDE DEF rest, i, d, o
<1>8. /\ order'[m][k] \in Seq(Servers) /\ Len(order'[m][k]) = c + Bit(i) - Bit(d)
      /\ \A j \in 1..Len(order'[m][k]) : order'[m][k][j] = out_tgt'[m][k]
  <2>1. CASE i
    <3>0. ar[m].tgt \in Servers /\ (c = 0 \/ out_tgt[m][k] = ar[m].tgt) /\ Bit(i) = 1
      BY <1>2, <2>1 DEF Bit
    <3>1. order'[m][k] = Append(rest, ar[m].tgt) /\ out_tgt'[m][k] = ar[m].tgt
      BY <1>4, <2>1
    <3>2. /\ order'[m][k] \in Seq(Servers) /\ Len(order'[m][k]) = Len(rest) + 1
          /\ order'[m][k][Len(rest) + 1] = ar[m].tgt
          /\ \A j \in 1..Len(rest) : order'[m][k][j] = rest[j]
      BY <1>6, <3>0, <3>1
    <3>3. Bit(d) \in {0, 1}
      BY DEF Bit
    <3>4. ASSUME NEW j \in 1..Len(order'[m][k])
          PROVE  order'[m][k][j] = ar[m].tgt
      <4>1. CASE j = Len(rest) + 1
        BY <3>2, <4>1
      <4>2. CASE j \in 1..Len(rest)
        <5>1. c # 0
          BY <1>0, <1>6, <3>3, <4>2
        <5> QED BY <1>6, <3>0, <3>2, <4>2, <5>1
      <4>3. Len(rest) \in Nat
        BY <1>6
      <4> QED BY <3>2, <4>1, <4>2, <4>3
    <3>5. Len(order'[m][k]) = c + Bit(i) - Bit(d)
      BY <1>0, <1>6, <3>0, <3>2, <3>3
    <3> QED BY <3>1, <3>2, <3>4, <3>5
  <2>2. CASE ~i
    <3>1. order'[m][k] = rest /\ out_tgt'[m][k] = out_tgt[m][k] /\ Bit(i) = 0 /\ Bit(d) \in {0, 1}
      BY <1>4, <2>2 DEF Bit
    <3> QED BY <1>0, <1>6, <3>1
  <2> QED BY <2>1, <2>2
<1>9. out_cnt'[m][k] = c + Bit(i) - Bit(d) /\ c + Bit(i) - Bit(d) \in 0..15
  <2>1. c \in 0..15 /\ (i => c < 15) /\ (d => c >= 1)
    <3>1. c \in 0..15
      <4>1. c \in Nat /\ c <= rtotal[m] /\ rtotal[m] \in Nat /\ rtotal[m] <= MaxOutstanding
        BY <1>0, <1>1
      <4>2. MaxOutstanding \in 1..15
        BY <1>1
      <4> HIDE DEF c
      <4> QED BY <4>1, <4>2
    <3>2. i => c < 15
      BY <1>2
    <3>3. d => c >= 1
      BY <1>3
    <3> QED BY <3>1, <3>2, <3>3
  <2>2. c + Bit(i) - Bit(d) \in 0..15
    BY <2>1 DEF Bit
  <2> QED BY <1>4, <1>7, <2>2
<1>10. out_tgt'[m][k] \in Servers
  BY <1>2, <1>4, <1>7
<1>11. ASSUME NEW t \in Servers
       PROVE  pend'[t][m][k] = IF t = out_tgt'[m][k] THEN c + Bit(i) - Bit(d) ELSE 0
  <2>0. pend[t][m][k] = IF t = out_tgt[m][k] THEN c ELSE 0
    BY <1>0 DEF OneTarget
  <2>1. CASE i
    <3>1. out_tgt'[m][k] = ar[m].tgt /\ (c = 0 \/ out_tgt[m][k] = ar[m].tgt)
      BY <1>2, <1>4, <2>1
    <3>2. CASE d
      BY <1>0, <1>3, <1>5, <2>0, <2>1, <3>1, <3>2 DEF Bit
    <3>3. CASE ~d
      BY <1>0, <1>5, <2>0, <2>1, <3>1, <3>3 DEF Bit
    <3> QED BY <3>2, <3>3
  <2>2. CASE ~i
    <3>1. out_tgt'[m][k] = out_tgt[m][k]
      BY <1>4, <2>2
    <3> QED BY <1>0, <1>3, <1>5, <2>0, <2>2, <3>1 DEF Bit
  <2> QED BY <2>1, <2>2
<1>12. Count(m, k)' = c + Bit(i) - Bit(d)
  BY <1>8 DEF Count
<1>13. OneTarget(m, k)'
  BY <1>8, <1>9, <1>11, <1>12 DEF OneTarget
<1>14. \A t \in Servers : pend'[t][m][k] \in Nat
  BY <1>9, <1>11
<1> QED BY <1>8, <1>9, <1>10, <1>12, <1>13, <1>14 DEF i, d
-----------------------------------------------------------------------------
(* The reads in flight as a set that grows and shrinks with the counts.    *)
Cells(c) == UNION {{k} \X (1..c[k]) : k \in Ids}

(* One read more of an id is one element more.                             *)
LEMMA CellAdded ==
  ASSUME NEW c \in [Ids -> Nat], NEW k \in Ids, IsFiniteSet(Cells(c))
  PROVE  LET d == [c EXCEPT ![k] = @ + 1]
         IN  IsFiniteSet(Cells(d)) /\ Cardinality(Cells(d)) = Cardinality(Cells(c)) + 1
<1> DEFINE d == [c EXCEPT ![k] = @ + 1]
           g == <<k, c[k] + 1>>
<1>1. g \notin Cells(c)
  BY DEF Cells
<1>2. Cells(d) = Cells(c) \cup {g}
  <2>1. ASSUME NEW x \in Cells(d) PROVE x \in Cells(c) \cup {g}
    <3>1. PICK j \in Ids, i \in Nat : i \in 1..d[j] /\ x = <<j, i>>
      BY DEF Cells
    <3>2. CASE j = k
      <4>1. i \in 1..c[k] \/ i = c[k] + 1
        BY <3>1, <3>2
      <4> QED BY <3>1, <3>2, <4>1 DEF Cells
    <3>3. CASE j # k
      <4>1. i \in 1..c[j]
        BY <3>1, <3>3
      <4> QED BY <3>1, <4>1 DEF Cells
    <3> QED BY <3>2, <3>3
  <2>2. ASSUME NEW x \in Cells(c) PROVE x \in Cells(d)
    <3>1. PICK j \in Ids, i \in Nat : i \in 1..c[j] /\ x = <<j, i>>
      BY DEF Cells
    <3>2. i \in 1..d[j]
      BY <3>1
    <3> HIDE DEF d
    <3> QED BY <3>1, <3>2 DEF Cells
  <2>3. g \in Cells(d)
    <3>1. c[k] + 1 \in 1..d[k]
      OBVIOUS
    <3> HIDE DEF d
    <3> QED BY <3>1 DEF Cells
  <2> QED BY <2>1, <2>2, <2>3
<1> HIDE DEF d, g
<1>3. IsFiniteSet(Cells(d)) /\ Cardinality(Cells(d)) = Cardinality(Cells(c)) + 1
  BY <1>1, <1>2, FS_AddElement
<1> QED BY <1>3 DEF d

(* One read less of an id is one element less.                             *)
LEMMA CellRemoved ==
  ASSUME NEW c \in [Ids -> Nat], NEW k \in Ids, c[k] >= 1, IsFiniteSet(Cells(c))
  PROVE  LET d == [c EXCEPT ![k] = @ - 1]
         IN  IsFiniteSet(Cells(d)) /\ Cardinality(Cells(d)) = Cardinality(Cells(c)) - 1
<1> DEFINE d == [c EXCEPT ![k] = @ - 1]
<1>1. d \in [Ids -> Nat] /\ c = [d EXCEPT ![k] = @ + 1]
  <2>1. d \in [Ids -> Nat] /\ d[k] = c[k] - 1 /\ \A j \in Ids \ {k} : d[j] = c[j]
    OBVIOUS
  <2> DEFINE e == [d EXCEPT ![k] = @ + 1]
  <2> HIDE DEF d
  <2>2. e \in [Ids -> Nat] /\ \A j \in Ids : e[j] = c[j]
    BY <2>1
  <2> HIDE DEF e
  <2>3. e = c
    BY <2>2
  <2> QED BY <2>1, <2>3 DEF e
<1>2. Cells(d) \subseteq Cells(c)
  <2>1. ASSUME NEW x \in Cells(d) PROVE x \in Cells(c)
    <3>1. PICK j \in Ids, i \in Nat : i \in 1..d[j] /\ x = <<j, i>>
      BY DEF Cells
    <3>2. i \in 1..c[j]
      BY <3>1
    <3> QED BY <3>1, <3>2 DEF Cells
  <2> QED BY <2>1
<1> HIDE DEF d
<1>3. IsFiniteSet(Cells(d))
  BY <1>2, FS_Subset
<1>4. Cardinality(Cells(c)) = Cardinality(Cells(d)) + 1
  BY <1>1, <1>3, CellAdded
<1>5. Cardinality(Cells(d)) \in Nat
  BY <1>3, FS_CardinalityType
<1> QED BY <1>3, <1>4, <1>5 DEF d

(* rtotal through an edge.                                                 *)
LEMMA EdgeTotal ==
  ASSUME IInv, NEW rdy \in SUBSET Offered, NEW acc \in SUBSET Accepting, Edge(rdy, acc),
         NEW m \in Masters
  PROVE  TotalExact(m)' /\ rtotal'[m] \in 0..31
<1> DEFINE c == [k \in Ids |-> Count(m, k)]
           a == m \in acc
           d == RDone(rdy, m)
           ka == ar[m].id
           kd == burst[RSel(m)].id
           c1 == IF d THEN [c EXCEPT ![kd] = @ - 1] ELSE c
           c2 == IF a THEN [c1 EXCEPT ![ka] = @ + 1] ELSE c1
           n == rtotal[m]
<1>1. /\ c \in [Ids -> Nat] /\ IsFiniteSet(Cells(c)) /\ n = Cardinality(Cells(c))
      /\ n <= MaxOutstanding /\ n \in Nat
  <2>1. c \in [Ids -> Nat]
    BY CountLeTotal
  <2>2. Cells(c) = InFlight(m)
    BY DEF Cells, InFlight, Count
  <2>3. /\ IsFiniteSet(InFlight(m)) /\ n = Cardinality(InFlight(m)) /\ n <= MaxOutstanding
    BY DEF IInv, TotalExact
  <2>4. n \in Nat
    BY <2>3, FS_CardinalityType
  <2> QED BY <2>1, <2>2, <2>3, <2>4
<1>2. d => kd \in Ids /\ c[kd] >= 1
  <2> SUFFICES ASSUME d PROVE kd \in Ids /\ c[kd] >= 1
    OBVIOUS
  <2>1. RAny(m)
    BY DEF RDone, Beat
  <2>2. kd \in Ids /\ DoneId(rdy, m, kd)
    BY <2>1, OfferedBurst DEF DoneId
  <2> QED BY <2>2, DoneFacts
<1>3. a => ka \in Ids /\ n < MaxOutstanding
  BY IncFacts
<1>4. Cells([k \in Ids |-> Count(m, k)'])  = Cells(c2)
  <2>1. ASSUME NEW k \in Ids PROVE Count(m, k)' = c2[k]
    <3>1. Count(m, k)' = c[k] + Bit(a /\ ka = k) - Bit(d /\ kd = k)
      <4>1. Count(m, k)' = Count(m, k) + Bit(Inc(acc, m, k)) - Bit(DoneId(rdy, m, k))
        BY EdgeTarget
      <4>2. Inc(acc, m, k) <=> a /\ ka = k
        BY DEF Inc
      <4>3. DoneId(rdy, m, k) <=> d /\ kd = k
        BY DEF DoneId
      <4>4. Bit(Inc(acc, m, k)) = Bit(a /\ ka = k) /\ Bit(DoneId(rdy, m, k)) = Bit(d /\ kd = k)
        BY <4>2, <4>3 DEF Bit
      <4>5. c[k] = Count(m, k)
        OBVIOUS
      <4> HIDE DEF c, a, d, ka, kd
      <4> QED BY <4>1, <4>4, <4>5
    <3>2. c1 \in [Ids -> Nat] /\ c1[k] = c[k] - Bit(d /\ kd = k)
      <4> HIDE DEF c, d, kd
      <4> QED BY <1>1, <1>2 DEF Bit
    <3>3. c2[k] = c1[k] + Bit(a /\ ka = k)
      <4> HIDE DEF c1, ka
      <4> QED BY <1>3, <3>2 DEF Bit
    <3>4. c[k] \in Nat
      BY <1>1
    <3> HIDE DEF c, c1, c2, a, d, ka, kd
    <3> QED BY <3>1, <3>2, <3>3, <3>4 DEF Bit
  <2> HIDE DEF c2
  <2> QED BY <2>1 DEF Cells
<1>5. InFlight(m)' = Cells([k \in Ids |-> Count(m, k)'])
  BY DEF Cells, InFlight, Count
<1> HIDE DEF c, a, d, ka, kd
<1>6. c1 \in [Ids -> Nat] /\ IsFiniteSet(Cells(c1)) /\ Cardinality(Cells(c1)) = n - Bit(d)
  <2>1. CASE d
    <3>1. c1 = [c EXCEPT ![kd] = @ - 1] /\ kd \in Ids /\ c[kd] >= 1
      BY <1>2, <2>1
    <3>2. IsFiniteSet(Cells(c1)) /\ Cardinality(Cells(c1)) = Cardinality(Cells(c)) - 1
      <4> HIDE DEF c1
      <4> QED BY <1>1, <3>1, CellRemoved
    <3>3. c1 \in [Ids -> Nat]
      BY <1>1, <3>1
    <3> QED BY <1>1, <2>1, <3>2, <3>3 DEF Bit
  <2>2. CASE ~d
    BY <1>1, <2>2 DEF Bit
  <2> QED BY <2>1, <2>2
<1> HIDE DEF c1
<1>7. IsFiniteSet(Cells(c2)) /\ Cardinality(Cells(c2)) = n - Bit(d) + Bit(a)
  <2>1. CASE a
    BY <1>3, <1>6, <2>1, CellAdded DEF Bit
  <2>2. CASE ~a
    BY <1>1, <1>6, <2>2 DEF Bit
  <2> QED BY <2>1, <2>2
<1> HIDE DEF c2
<1>8. rtotal'[m] = (n + Bit(a) - Bit(d)) % 32
  BY DEF Edge, TrackerNext, a, d
<1>9. n + Bit(a) - Bit(d) \in 0..MaxOutstanding /\ n + Bit(a) - Bit(d) = n - Bit(d) + Bit(a)
  <2>1. Cardinality(Cells(c2)) \in Nat
    BY <1>7, FS_CardinalityType
  <2>2. MaxOutstanding \in Nat
    BY ConstantsAssumption
  <2> HIDE DEF n
  <2> QED BY <1>1, <1>3, <1>7, <2>1, <2>2 DEF Bit
<1>10. rtotal'[m] = n + Bit(a) - Bit(d)
  <2>1. MaxOutstanding \in 1..15
    BY ConstantsAssumption
  <2>2. n + Bit(a) - Bit(d) \in 0..15
    BY <1>9, <2>1
  <2> QED BY <1>8, <2>2
<1>11. rtotal'[m] \in 0..31
  <2>1. MaxOutstanding \in 1..15
    BY ConstantsAssumption
  <2> QED BY <1>9, <1>10, <2>1
<1>12. TotalExact(m)'
  <2>1. IsFiniteSet(InFlight(m)') /\ Cardinality(InFlight(m)') = rtotal'[m]
    BY <1>4, <1>5, <1>7, <1>9, <1>10
  <2>2. rtotal'[m] <= MaxOutstanding
    <3>1. MaxOutstanding \in Nat
      BY ConstantsAssumption
    <3> QED BY <1>9, <1>10, <3>1
  <2> QED BY <2>1, <2>2 DEF TotalExact
<1> QED BY <1>11, <1>12
-----------------------------------------------------------------------------
(* What a server drives after an edge is one of its choices.               *)
LEMMA Driven ==
  ASSUME NEW rdy, NEW acc, ServersNext(rdy, acc), NEW t \in Servers
  PROVE  \E b \in Drivable(rdy, t) :
           /\ rv'[t] = (b # NoBurst)
           /\ burst'[t] = IF Opens(rdy, t) THEN b ELSE Continued(rdy, t)
<1>1. PICK d0 \in Choices(rdy, 0), d1 \in Choices(rdy, 1), d2 \in Choices(rdy, 2),
           d3 \in Choices(rdy, 3), d4 \in Choices(rdy, 4) :
        /\ rv' = [u \in Servers |-> <<d0, d1, d2, d3, d4>>[u + 1] # NoBurst]
        /\ burst' = [u \in Servers |-> IF Opens(rdy, u) THEN <<d0, d1, d2, d3, d4>>[u + 1]
                                       ELSE Continued(rdy, u)]
  BY DEF ServersNext
<1> DEFINE b == <<d0, d1, d2, d3, d4>>[t + 1]
<1>2. b \in Choices(rdy, t)
  <2>1. t \in {0, 1, 2, 3, 4}
    BY ConstantsAssumption
  <2>2. CASE t = 0
    BY <2>2
  <2>3. CASE t = 1
    BY <2>3
  <2>4. CASE t = 2
    BY <2>4
  <2>5. CASE t = 3
    BY <2>5
  <2>6. CASE t = 4
    BY <2>6
  <2> QED BY <2>1, <2>2, <2>3, <2>4, <2>5, <2>6
<1>3. rv'[t] = (b # NoBurst) /\ burst'[t] = IF Opens(rdy, t) THEN b ELSE Continued(rdy, t)
  BY <1>1
<1> HIDE DEF b
<1>4. b \in Drivable(rdy, t)
  BY <1>2 DEF Choices
<1> QED BY <1>3, <1>4

(* The R channel of one server through an edge.                            *)
LEMMA EdgeBurst ==
  ASSUME IInv, NEW rdy \in SUBSET Offered, NEW acc \in SUBSET Accepting, Edge(rdy, acc),
         NEW t \in Servers
  PROVE  /\ BurstOwed(t)'
         /\ burst'[t] \in Bursts \cup {NoBurst} /\ rv'[t] \in BOOLEAN
<1>0. TypeOK /\ BurstOwed(t)
  BY DEF IInv
<1>1. PICK b \in Drivable(rdy, t) :
           /\ rv'[t] = (b # NoBurst)
           /\ burst'[t] = IF Opens(rdy, t) THEN b ELSE Continued(rdy, t)
  BY Driven DEF Edge
<1>2. CASE Opens(rdy, t)
  <2>1. burst'[t] = b
    BY <1>1, <1>2
  <2>2. b = NoBurst \/ (b \in Bursts /\ ~b.begun /\ pend'[t][b.m][b.id] > 0)
    BY <1>2 DEF Drivable
  <2> QED BY <1>1, <2>1, <2>2 DEF BurstOwed
<1>3. CASE ~Opens(rdy, t)
  <2> DEFINE n == burst[t].m
             k == burst[t].id
             e == Continued(rdy, t)
  <2>1. burst[t] # NoBurst /\ ~(BeatAt(rdy, t) /\ burst[t].left = 1)
    BY <1>3 DEF Opens
  <2>2. burst[t] \in Bursts
    BY <1>0, <2>1 DEF TypeOK
  <2>3. /\ n \in Masters /\ k \in Ids /\ burst[t].left \in 1..MaxBeats
        /\ burst[t].begun \in BOOLEAN
    BY <2>2 DEF Bursts
  <2>4. /\ pend[t][n][k] > 0
        /\ burst[t].begun => rlock[n] /\ rlsel[n] = t
    BY <1>0, <2>1 DEF BurstOwed
  <2>5. burst'[t] = e
    BY <1>1, <1>3
  <2>6. /\ e \in Bursts /\ e.m = n /\ e.id = k
        /\ e.begun <=> (BeatAt(rdy, t) \/ burst[t].begun)
    <3>1. CASE BeatAt(rdy, t)
      <4>1. burst[t].left - 1 \in 1..MaxBeats
        <5>1. burst[t].left # 1 /\ MaxBeats \in Nat
          BY <2>1, <3>1, ConstantsAssumption
        <5> QED BY <2>3, <5>1
      <4>2. e = [burst[t] EXCEPT !.left = @ - 1, !.begun = TRUE]
        BY <3>1 DEF Continued
      <4> QED BY <2>2, <3>1, <4>1, <4>2 DEF Bursts
    <3>2. CASE ~BeatAt(rdy, t)
      <4>1. e = burst[t]
        BY <3>2 DEF Continued
      <4> QED BY <2>2, <3>2, <4>1
    <3> QED BY <3>1, <3>2
  <2>7. ~(DoneId(rdy, n, k) /\ RSel(n) = t)
    BY <2>1, <2>3 DEF DoneId, RDone, BeatAt
  <2> HIDE DEF n, k, e
  <2>8. pend'[t][n][k] > 0
    <3>1. pend'[t][n][k] = pend[t][n][k] + Bit(Inc(acc, n, k) /\ ar[n].tgt = t)
                                         - Bit(DoneId(rdy, n, k) /\ RSel(n) = t)
      BY <2>3 DEF Edge, ServersNext, PendNext
    <3>2. /\ Bit(DoneId(rdy, n, k) /\ RSel(n) = t) = 0
          /\ Bit(Inc(acc, n, k) /\ ar[n].tgt = t) \in {0, 1}
      BY <2>7 DEF Bit
    <3>3. pend[t][n][k] \in Nat
      BY <1>0, <2>3 DEF TypeOK
    <3> QED BY <2>4, <3>1, <3>2, <3>3
  <2>9. e.begun => rlock'[n] /\ rlsel'[n] = t
    <3>0. /\ rlock'[n] = IF Beat(rdy, n) THEN ~RDone(rdy, n) ELSE rlock[n]
          /\ rlsel'[n] = IF Beat(rdy, n) /\ ~RDone(rdy, n) THEN RSel(n) ELSE rlsel[n]
      BY <2>3 DEF Edge, RlockNext
    <3>1. CASE BeatAt(rdy, t)
      <4>1. PICK p \in Masters : Beat(rdy, p) /\ RSel(p) = t
        BY <3>1 DEF BeatAt
      <4>2. p = n
        BY <4>1 DEF Beat, RAny, ServerValid, n
      <4>3. ~RDone(rdy, n)
        BY <2>1, <3>1, <4>1, <4>2 DEF RDone
      <4> QED BY <3>0, <4>1, <4>2, <4>3
    <3>2. CASE ~BeatAt(rdy, t)
      <4> SUFFICES ASSUME e.begun PROVE rlock'[n] /\ rlsel'[n] = t
        OBVIOUS
      <4>1. rlock[n] /\ rlsel[n] = t
        BY <2>4, <2>6, <3>2
      <4>2. RSel(n) = t
        BY <4>1 DEF RSel
      <4>3. ~Beat(rdy, n)
        BY <2>3, <3>2, <4>2 DEF BeatAt
      <4> QED BY <3>0, <4>1, <4>3
    <3> QED BY <3>1, <3>2
  <2>10. e # NoBurst
    BY <2>6, ConstantsAssumption
  <2>11. BurstOwed(t)'
    BY <2>5, <2>6, <2>8, <2>9, <2>10 DEF BurstOwed
  <2> QED BY <1>1, <2>5, <2>6, <2>11
<1> QED BY <1>2, <1>3

(* An edge preserves the types.                                            *)
LEMMA EdgeTypes ==
  ASSUME IInv, NEW rdy \in SUBSET Offered, NEW acc \in SUBSET Accepting, Edge(rdy, acc)
  PROVE  TypeOK'
<1>0. TypeOK
  BY DEF IInv
<1>1. traffic' \in Traffic /\ ar' \in [Masters -> Requests \cup {NoReq}]
  BY <1>0 DEF Edge, MastersNext, TypeOK
<1>2. /\ out_cnt' = [m \in Masters |-> [k \in Ids |-> out_cnt'[m][k]]]
      /\ out_tgt' = [m \in Masters |-> [k \in Ids |-> out_tgt'[m][k]]]
      /\ rtotal' = [m \in Masters |-> rtotal'[m]]
  BY DEF Edge, TrackerNext
<1>3. order' = [m \in Masters |-> [k \in Ids |-> order'[m][k]]]
  BY DEF Edge, OrderNext
<1>4. pend' = [t \in Servers |-> [m \in Masters |-> [k \in Ids |-> pend'[t][m][k]]]]
  BY DEF Edge, ServersNext, PendNext
<1>5. burst' = [t \in Servers |-> burst'[t]] /\ rv' = [t \in Servers |-> rv'[t]]
  BY DEF Edge, ServersNext
<1>6. out_cnt' \in [Masters -> [Ids -> 0..15]] /\ out_tgt' \in [Masters -> [Ids -> Servers]]
  BY <1>2, EdgeTarget
<1>7. order' \in [Masters -> [Ids -> Seq(Servers)]]
  BY <1>3, EdgeTarget
<1>8. pend' \in [Servers -> [Masters -> [Ids -> Nat]]]
  <2>1. \A t \in Servers : \A m \in Masters : \A k \in Ids : pend'[t][m][k] \in Nat
    BY EdgeTarget
  <2>2. \A t \in Servers :
          [m \in Masters |-> [k \in Ids |-> pend'[t][m][k]]] \in [Masters -> [Ids -> Nat]]
    BY <2>1
  <2> QED BY <1>4, <2>2
<1>9. burst' \in [Servers -> Bursts \cup {NoBurst}] /\ rv' \in [Servers -> BOOLEAN]
  BY <1>5, EdgeBurst
<1>10. rtotal' \in [Masters -> 0..31]
  BY <1>2, EdgeTotal
<1>11. rlock' \in [Masters -> BOOLEAN] /\ rlsel' \in [Masters -> Servers]
  <2>1. \A m \in Masters : RSel(m) \in Servers /\ rlsel[m] \in Servers /\ rlock[m] \in BOOLEAN
    BY <1>0, RSelType DEF TypeOK
  <2> QED BY <2>1 DEF Edge, RlockNext
<1> QED BY <1>1, <1>6, <1>7, <1>8, <1>9, <1>10, <1>11 DEF TypeOK

(* Every step preserves the inductive invariant.                           *)
LEMMA StepIInv == IInv /\ [Next]_vars => IInv'
<1> SUFFICES ASSUME IInv, [Next]_vars PROVE IInv'
  OBVIOUS
<1>1. CASE Next
  <2>1. PICK rdy \in SUBSET Offered, acc \in SUBSET Accepting : Edge(rdy, acc)
    BY <1>1 DEF Next
  <2>2. TypeOK'
    BY <2>1, EdgeTypes
  <2>3. ASSUME NEW m \in Masters, NEW k \in Ids PROVE OneTarget(m, k)'
    BY <2>1, EdgeTarget
  <2>4. ASSUME NEW m \in Masters PROVE TotalExact(m)'
    BY <2>1, EdgeTotal
  <2>5. ASSUME NEW t \in Servers PROVE BurstOwed(t)'
    BY <2>1, EdgeBurst
  <2> QED BY <2>2, <2>3, <2>4, <2>5 DEF IInv
<1>2. CASE UNCHANGED vars
  <2> USE <1>2 DEF vars, tracker, servers
  <2>1. TypeOK'
    BY DEF IInv, TypeOK
  <2>2. ASSUME NEW m \in Masters, NEW k \in Ids PROVE OneTarget(m, k)'
    <3>1. OneTarget(m, k)
      BY DEF IInv
    <3> QED BY <3>1 DEF OneTarget, Count
  <2>3. ASSUME NEW m \in Masters PROVE TotalExact(m)'
    <3>1. TotalExact(m)
      BY DEF IInv
    <3>2. InFlight(m)' = InFlight(m)
      BY DEF InFlight
    <3> QED BY <3>1, <3>2 DEF TotalExact
  <2>4. ASSUME NEW t \in Servers PROVE BurstOwed(t)'
    <3>1. BurstOwed(t)
      BY DEF IInv
    <3> QED BY <3>1 DEF BurstOwed
  <2> QED BY <2>1, <2>2, <2>3, <2>4 DEF IInv
<1> QED BY <1>1, <1>2
-----------------------------------------------------------------------------
(* The inductive invariant holds throughout.                               *)
LEMMA Invariance == Spec => []IInv
BY InitIInv, StepIInv, PTL DEF Spec

(* The types of the read side: no counter leaves its width, no server is   *)
(* owed a negative number of answers.                                      *)
THEOREM TypeCorrect == Spec => []TypeOK
<1>1. IInv => TypeOK
  BY DEF IInv
<1> QED BY <1>1, Invariance, PTL

(* Reads of one id are answered in the order they were accepted, whatever  *)
(* the servers' speeds and however many masters, ids and servers there are.*)
THEOREM OrderCorrect == Spec => []SameIdOrder
BY IInvImplies, Invariance, PTL

(* The narrow counters of the tracker are exact and bounded.               *)
THEOREM TrackerCorrect == Spec => []TrackerExact
BY IInvImplies, Invariance, PTL

(* Bursts are not interleaved at a master.                                 *)
THEOREM ContiguousCorrect == Spec => []BurstsContiguous
BY IInvImplies, Invariance, PTL
=============================================================================
