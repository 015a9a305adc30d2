--------------------------- MODULE NocPortProofs ----------------------------
(***************************************************************************)
(* Proofs about what a NoC port does with its requesters: the arbiter that *)
(* picks one, for every set of priorities, alone and inside the bridge,    *)
(* where writes go before its reads; and the bridge that turns the granted *)
(* burst into APB transfers, for every burst length, beat size, width of   *)
(* the address and set of start addresses.                                 *)
(***************************************************************************)
EXTENDS BridgePort, Axi2ApbBridge, TLAPS

(***************************************************************************)
(* noc_arbiter                                                             *)
(***************************************************************************)
(* The lock is held for a standing request.                                *)
LockedRequestStands == locked => req[lock_idx]

(* The round-robin pointer is the latest grantee.                          *)
LastIsRecent == recent # NoOne => last = recent

(* Once i has been overtaken, the pointer and any lock favour it over an   *)
(* equal: it is the next one served unless the other outranks it.          *)
OvertakenIsNext ==
  \A i \in Reqs :
    /\ passed[i] <= 1
    /\ passed[i] = 1 => /\ req[i]
                        /\ last = Other(i)
                        /\ locked /\ lock_idx = Other(i) => prio[Other(i)] > prio[i]

(* The inductive invariant of the arbiter.                                 *)
ArbInv == ArbTypeOK /\ LockedRequestStands /\ LastIsRecent /\ OvertakenIsNext
-----------------------------------------------------------------------------
(* Reset establishes the inductive invariant.                              *)
LEMMA InitArbInv == ArbInit => ArbInv
<1> SUFFICES ASSUME ArbInit PROVE ArbInv
  OBVIOUS
<1> USE DEF ArbInit, Reqs, NoOne, PassCap
<1>1. ArbTypeOK
  <2>1. req \in [Reqs -> BOOLEAN]
    OBVIOUS
  <2>2. passed \in [Reqs -> 0..PassCap]
    OBVIOUS
  <2> QED BY <2>1, <2>2 DEF ArbTypeOK
<1>2. LockedRequestStands /\ LastIsRecent
  BY DEF LockedRequestStands, LastIsRecent
<1>3. OvertakenIsNext
  BY DEF OvertakenIsNext
<1> QED BY <1>1, <1>2, <1>3 DEF ArbInv

(* The grant of a well-typed state names a requester.                      *)
LEMMA GntIdxType == ArbTypeOK => GntIdx \in Reqs /\ FreshIdx \in Reqs
BY DEF ArbTypeOK, GntIdx, FreshIdx, Reqs, Other

(* A presented grant is for a standing request.                            *)
LEMMA GrantIsRequested ==
  ArbInv /\ GntValid => req[GntIdx]
BY DEF ArbInv, ArbTypeOK, LockedRequestStands, GntValid, GntIdx, FreshIdx, FreshVal,
       Reqs, Other

(* Priorities are naturals.                                                *)
LEMMA PriosNat == \A p \in Prios : p \in Nat
BY PriosAssumption

(* Every clock edge preserves the inductive invariant.                     *)
LEMMA StepArbInv == ArbInv /\ [ArbNext]_arbVars => ArbInv'
<1> SUFFICES ASSUME ArbInv, [ArbNext]_arbVars PROVE ArbInv'
  OBVIOUS
<1> USE DEF Reqs, NoOne, Other, PassCap
<1>1. ArbTypeOK /\ GntIdx \in Reqs
  BY GntIdxType DEF ArbInv
<1>2. CASE Accept
  <2>1. ArbTypeOK'
    <3>1. passed' \in [Reqs -> 0..PassCap]
      <4>1. \A i \in Reqs : passed[i] \in 0..2
        BY <1>1 DEF ArbTypeOK
      <4> QED BY <1>2, <4>1 DEF Accept
    <3>2. req' \in [Reqs -> BOOLEAN] /\ prio' \in [Reqs -> Prios]
      BY <1>2 DEF Accept, Requesting
    <3>3. locked' \in BOOLEAN
      BY <1>2 DEF Accept, AcceptedLock
    <3>4. /\ last' \in Reqs /\ lock_idx' \in Reqs
          /\ recent' \in Reqs \cup {NoOne} /\ took' \in Reqs \cup {NoOne}
      BY <1>1, <1>2 DEF ArbTypeOK, Accept, NextLast
    <3> QED BY <3>1, <3>2, <3>3, <3>4 DEF ArbTypeOK
  <2>2. LockedRequestStands'
    BY <1>2 DEF Accept, AcceptedLock, LockedRequestStands
  <2>3. LastIsRecent'
    BY <1>2 DEF Accept, NextLast, LastIsRecent
  <2>4. OvertakenIsNext'
    <3> SUFFICES ASSUME NEW i \in Reqs
                 PROVE /\ passed'[i] <= 1
                       /\ passed'[i] = 1 => req'[i] /\ last' = Other(i) /\ ~locked'
      BY DEF OvertakenIsNext
    <3>1. req[GntIdx]
      BY <1>2, GrantIsRequested DEF Accept
    <3>2. CASE i = GntIdx
      BY <1>1, <1>2, <3>2 DEF Accept, Overtakes, ArbTypeOK
    <3>3. CASE i # GntIdx
      <4>1. GntIdx = Other(i)
        BY <1>1, <3>3
      <4>2. CASE Overtakes(GntIdx, i)
        <5>1. passed[i] = 0
          BY <1>1, <3>3, <4>1, <4>2, <3>1, PriosNat
             DEF Overtakes, ArbInv, OvertakenIsNext, GntIdx, FreshIdx, ArbTypeOK
        <5> QED
          BY <1>1, <1>2, <3>3, <4>1, <4>2, <5>1
             DEF Accept, Overtakes, Requesting, NextLast, AcceptedLock
      <4>3. CASE ~Overtakes(GntIdx, i)
        BY <1>1, <1>2, <3>3, <4>1, <4>3
           DEF Accept, Requesting, NextLast, AcceptedLock, ArbInv, OvertakenIsNext, ArbTypeOK
      <4> QED BY <4>2, <4>3
    <3> QED BY <3>2, <3>3
  <2> QED BY <2>1, <2>2, <2>3, <2>4 DEF ArbInv
<1>3. CASE Present
  <2>1. ArbTypeOK'
    BY <1>1, <1>3 DEF ArbTypeOK, Present, Requesting
  <2>2. LockedRequestStands'
    BY <1>1, <1>3, GrantIsRequested DEF Present, Requesting, LockedRequestStands
  <2>3. LastIsRecent'
    BY <1>3 DEF Present, LastIsRecent, ArbInv
  <2>4. OvertakenIsNext'
    <3> SUFFICES ASSUME NEW i \in Reqs, passed[i] = 1
                 PROVE /\ req'[i]
                       /\ last = Other(i)
                       /\ GntIdx = Other(i) => prio'[Other(i)] > prio'[i]
      BY <1>1, <1>3 DEF OvertakenIsNext, ArbInv, Present
    <3>1. req[i] /\ last = Other(i)
      BY DEF ArbInv, OvertakenIsNext
    <3>2. req'[i] /\ prio'[i] = prio[i]
      BY <3>1, <1>3 DEF Present, Requesting
    <3>3. ASSUME GntIdx = Other(i) PROVE prio'[Other(i)] > prio'[i]
      <4>1. req[Other(i)]
        BY <1>3, <3>3, GrantIsRequested DEF Present
      <4>2. prio'[Other(i)] = prio[Other(i)]
        BY <4>1, <1>3 DEF Present, Requesting
      <4>3. prio[Other(i)] > prio[i]
        BY <1>1, <1>3, <3>1, <3>3, <4>1, PriosNat DEF Present, GntIdx, FreshIdx, ArbTypeOK
      <4> QED BY <3>2, <4>2, <4>3
    <3> QED BY <3>1, <3>2, <3>3
  <2> QED BY <2>1, <2>2, <2>3, <2>4 DEF ArbInv
<1>4. CASE Hold \/ Quiet
  <2>1. ArbTypeOK'
    BY <1>1, <1>4 DEF ArbTypeOK, Hold, Quiet, Requesting
  <2>2. LockedRequestStands'
    BY <1>1, <1>4 DEF Hold, Quiet, GntValid, Requesting, ArbInv, LockedRequestStands, ArbTypeOK
  <2>3. LastIsRecent'
    BY <1>4 DEF Hold, Quiet, LastIsRecent, ArbInv
  <2>4. OvertakenIsNext'
    <3>1. \A i \in Reqs : req[i] => req'[i] /\ prio'[i] = prio[i]
      BY <1>4 DEF Hold, Quiet, Requesting
    <3>2. locked => req[lock_idx]
      BY DEF ArbInv, LockedRequestStands
    <3> QED
      BY <1>1, <1>4, <3>1, <3>2 DEF Hold, Quiet, OvertakenIsNext, ArbInv, ArbTypeOK
  <2> QED BY <2>1, <2>2, <2>3, <2>4 DEF ArbInv
<1>5. CASE UNCHANGED arbVars
  BY <1>5 DEF arbVars, ArbInv, ArbTypeOK, LockedRequestStands, LastIsRecent, OvertakenIsNext
<1> QED
  BY <1>2, <1>3, <1>4, <1>5 DEF ArbNext

(* The inductive invariant holds in every reachable state.                 *)
LEMMA ArbInvAlways == ArbSpec => []ArbInv
<1>1. ArbInit => ArbInv BY InitArbInv
<1>2. ArbInv /\ [ArbNext]_arbVars => ArbInv' BY StepArbInv
<1> QED BY <1>1, <1>2, PTL DEF ArbSpec
-----------------------------------------------------------------------------
(* Every register of the arbiter keeps its type.                           *)
THEOREM ArbTypeCorrect == ArbSpec => []ArbTypeOK
<1>1. ArbInv => ArbTypeOK BY DEF ArbInv
<1> QED BY <1>1, ArbInvAlways, PTL

(* A grant is valid exactly when somebody requests, and names a requester  *)
(* that is requesting: noc_arbiter's lock never outlives its request.      *)
THEOREM GrantCorrect == ArbSpec => []GrantIffRequest
<1>1. ArbInv => GrantIffRequest
  BY GrantIsRequested DEF ArbInv, ArbTypeOK, GrantIffRequest, LockedRequestStands,
     GntValid, FreshVal, Reqs
<1> QED BY <1>1, ArbInvAlways, PTL

(* A tie is won by the requester that was not served last.                 *)
THEOREM TieCorrect == ArbSpec => []TieGoesToOther
<1>1. ArbInv => TieGoesToOther
  BY PriosNat DEF ArbInv, ArbTypeOK, LastIsRecent, TieGoesToOther, GntIdx, FreshIdx,
     Reqs, NoOne, Other
<1> QED BY <1>1, ArbInvAlways, PTL

(* The bounded bypass of the arbiter: one overtaking at most.              *)
THEOREM BypassBound == ArbSpec => []OvertakenOnce
<1>1. ArbInv => OvertakenOnce
  BY DEF ArbInv, OvertakenIsNext, OvertakenOnce
<1> QED BY <1>1, ArbInvAlways, PTL

(* A presented grant keeps its grantee until it is accepted.               *)
THEOREM GrantStability == ArbSpec => GrantStable
<1>1. ArbInv /\ [ArbNext]_arbVars
        => [Accept \/ (GntValid => GntValid' /\ GntIdx' = GntIdx)]_arbVars
  <2> SUFFICES ASSUME ArbInv, ArbNext, ~Accept, GntValid
               PROVE GntValid' /\ GntIdx' = GntIdx
    OBVIOUS
  <2>1. CASE Present
    BY <2>1 DEF Present, GntValid, GntIdx
  <2>2. CASE Hold
    BY <2>2 DEF Hold, GntValid, GntIdx
  <2> QED BY <2>1, <2>2 DEF ArbNext, Quiet
<1> QED BY <1>1, ArbInvAlways, PTL DEF ArbSpec, GrantStable

-----------------------------------------------------------------------------
(***************************************************************************)
(* The arbiters of axi2apb_bridge                                          *)
(***************************************************************************)
(* Whatever the bridge does at an edge, its read arbiter takes one of the  *)
(* steps of noc_arbiter: update is pulsed only with a valid grant.         *)
LEMMA PortStepArbitrates == [PortNext]_portVars => [ArbNext]_arbVars
<1> SUFFICES ASSUME [PortNext]_portVars PROVE [ArbNext]_arbVars
  OBVIOUS
<1>1. CASE PortServe
  BY <1>1 DEF PortServe, PortRead, PortWrite, ReadUpdate, NoUpdate, ArbNext
<1>2. CASE PortFinish \/ PortBusy \/ PortIdle
  BY <1>2 DEF PortFinish, PortBusy, PortIdle, NoUpdate, ArbNext
<1>3. CASE UNCHANGED portVars
  BY <1>3 DEF portVars
<1> QED BY <1>1, <1>2, <1>3 DEF PortNext

(* The bridge implements the arbiter: all that is proved of noc_arbiter    *)
(* holds of its read arbiter, between and during the writes that go first. *)
THEOREM PortArbitrates == PortSpec => ArbSpec
<1>1. PortInit => ArbInit
  BY DEF PortInit
<1> QED BY <1>1, PortStepArbitrates, PTL DEF PortSpec, ArbSpec

(* A read the bridge keeps waiting behind writes is overtaken by at most   *)
(* one read of no higher priority, however long the wait.                  *)
THEOREM PortBypass == PortSpec => []OvertakenOnce
BY PortArbitrates, BypassBound, PTL

(* The types of the bridge's scheduling state.                             *)
THEOREM PortTypeCorrect == PortSpec => []PortTypeOK
<1>1. PortInit => PortTypeOK
  BY DEF PortInit, PortTypeOK, Reqs
<1>2. ASSUME PortTypeOK, ArbInv, [PortNext]_portVars PROVE PortTypeOK'
  <2>1. GntIdx \in Reqs
    BY <1>2, GntIdxType DEF ArbInv
  <2>2. CASE UNCHANGED portVars
    BY <1>2, <2>2 DEF portVars, PortTypeOK
  <2>3. CASE PortNext
    <3>1. aws' \subseteq Reqs
      BY <2>3 DEF PortNext, PortServe, PortRead, PortWrite, PortFinish, PortBusy,
                  PortIdle, Writers
    <3>2. phase' \in {"IDLE", "WRITE", "READ"} /\ serving' \in Reqs
      BY <1>2, <2>1, <2>3 DEF PortNext, PortServe, PortRead, PortWrite, PortFinish,
                              PortBusy, PortIdle, PortTypeOK
    <3> QED BY <3>1, <3>2 DEF PortTypeOK
  <2> QED BY <1>2, <2>2, <2>3
<1>3. PortSpec => []ArbInv
  BY PortArbitrates, ArbInvAlways, PTL
<1> QED BY <1>1, <1>2, <1>3, PTL DEF PortSpec

-----------------------------------------------------------------------------
(***************************************************************************)
(* axi2apb_bridge                                                          *)
(***************************************************************************)
(* What each state of the FSM knows about the burst being served.          *)

(* The latched attributes are those of the burst.                          *)
Latches == st # "IDLE" => incr = txn.incr /\ step = txn.step

(* The address register is that of the beat whose transfer comes next, or  *)
(* in RBEAT was the last.                                                  *)
AddrFollows ==
  /\ st \in {"WBEAT", "WSETUP", "WACCESS", "RSETUP", "RACCESS"} =>
       addr = BeatAddr(Len(log) + 1)
  /\ st = "RBEAT" => addr = BeatAddr(Len(log))

(* The beats taken from the master, and the one in wd_l.                   *)
WriteCounts ==
  /\ st = "WBEAT" => sent = Len(log) /\ sent < txn.beats
  /\ st \in {"WSETUP", "WACCESS"} =>
       /\ sent = Len(log) + 1 /\ sent <= txn.beats
       /\ wd_l = sent
       /\ wlast_l <=> sent = txn.beats
  /\ st = "WRESP" => Len(log) = txn.beats

(* werr is the sum of the errors so far.                                   *)
ErrorsSummed == Writing => (werr <=> \E i \in 1..Len(log) : log[i].err)

(* The beats a read still owes, and the one in rd_l.                       *)
ReadCounts ==
  /\ st \in {"RSETUP", "RACCESS"} => rbeat + Len(log) + 1 = txn.beats
  /\ st = "RBEAT" => /\ rbeat + Len(log) = txn.beats /\ Len(log) >= 1
                     /\ rd_l = Len(log) /\ rerr_l = log[Len(log)].err

(* The inductive invariant of the bridge.                                  *)
IInv == /\ TypeOK /\ Latches /\ AddrFollows /\ WriteCounts /\ ErrorsSummed
        /\ ReadCounts /\ TransfersAreBeats
-----------------------------------------------------------------------------
(* Arithmetic of addresses modulo M.                                       *)

(* Division with remainder.                                                *)
LEMMA DivMod ==
  ASSUME NEW M \in Nat \ {0}, NEW x \in Nat
  PROVE  /\ x % M \in 0..(M - 1)
         /\ x \div M \in Nat
         /\ x = (M * (x \div M)) + (x % M)
OBVIOUS

(* The remainder is unique.                                                *)
LEMMA ModUnique ==
  ASSUME NEW M \in Nat \ {0}, NEW q \in Nat, NEW r \in 0..(M - 1)
  PROVE  ((M * q) + r) % M = r
OBVIOUS

(* Wrapping at every step of the address is wrapping once.                 *)
LEMMA ModAdd ==
  ASSUME NEW M \in Nat \ {0}, NEW x \in Nat, NEW s \in Nat
  PROVE  ((x % M) + s) % M = (x + s) % M
<1> DEFINE q == x \div M
           r == x % M
           p == (r + s) \div M
           u == (r + s) % M
<1>1. q \in Nat /\ r \in 0..(M - 1) /\ x = (M * q) + r
  BY DivMod
<1> HIDE DEF q, r
<1>2. p \in Nat /\ u \in 0..(M - 1) /\ r + s = (M * p) + u
  <2>1. r + s \in Nat
    BY <1>1
  <2> QED BY <2>1, DivMod
<1> HIDE DEF p, u
<1>3. x + s = (M * (q + p)) + u
  BY <1>1, <1>2
<1>4. q + p \in Nat
  BY <1>1, <1>2
<1>5. (x + s) % M = u
  BY <1>2, <1>3, <1>4, ModUnique
<1> QED BY <1>5 DEF u, r

(* Field by field, what a burst is.                                        *)
LEMMA TxnTypes ==
  ASSUME NEW t \in Txns
  PROVE  /\ t.beats \in 1..MaxBeats /\ t.addr \in 0..(AddrSpace - 1)
         /\ t.step \in Nat /\ t.incr \in BOOLEAN
<1>1. t.beats \in 1..MaxBeats /\ t.addr \in Addrs /\ t.step \in Steps /\ t.incr \in BOOLEAN
  BY DEF Txns
<1> QED BY <1>1, ConstantsAssumption

(* The start of beat i + 1 lies one step behind that of beat i.            *)
LEMMA StepSucc ==
  ASSUME NEW a \in Nat, NEW i \in Nat \ {0}, NEW s \in Nat
  PROVE  /\ a + (i - 1) * s \in Nat
         /\ (a + (i - 1) * s) + s = a + i * s
OBVIOUS

(* The bridge's address update leads from beat to beat.                    *)
LEMMA NextBeatAddr ==
  ASSUME TypeOK, Latches, st # "IDLE", NEW i \in Nat \ {0}, addr = BeatAddr(i)
  PROVE  NextAddr = BeatAddr(i + 1)
<1>1. incr = txn.incr /\ step = txn.step
  BY DEF Latches
<1>2. txn.addr \in Nat /\ txn.step \in Nat /\ AddrSpace \in Nat \ {0}
  <2>1. txn \in Txns
    BY DEF TypeOK
  <2>2. AddrSpace \in Nat \ {0}
    BY ConstantsAssumption
  <2>3. txn.addr \in 0..(AddrSpace - 1) /\ txn.step \in Nat
    BY <2>1, TxnTypes
  <2> QED BY <2>2, <2>3
<1>3. CASE incr
  <2> DEFINE x == txn.addr + (i - 1) * txn.step
  <2>1. x \in Nat /\ x + txn.step = txn.addr + i * txn.step
    BY <1>2, StepSucc
  <2>2. addr = x % AddrSpace
    BY <1>1, <1>3 DEF BeatAddr
  <2>3. BeatAddr(i + 1) = (x + txn.step) % AddrSpace
    <3>1. (i + 1) - 1 = i
      OBVIOUS
    <3> QED BY <1>1, <1>3, <2>1, <3>1 DEF BeatAddr
  <2> HIDE DEF x
  <2>4. ((x % AddrSpace) + txn.step) % AddrSpace = (x + txn.step) % AddrSpace
    BY <1>2, <2>1, ModAdd
  <2> QED BY <1>1, <1>3, <2>2, <2>3, <2>4 DEF NextAddr
<1>4. CASE ~incr
  BY <1>1, <1>4 DEF NextAddr, BeatAddr
<1> QED BY <1>3, <1>4
-----------------------------------------------------------------------------
(* The properties follow from the inductive invariant.                     *)
LEMMA IInvImplies == IInv => AnswerSumsUpBurst /\ ReadBeatIsTransfer
<1> SUFFICES ASSUME IInv PROVE AnswerSumsUpBurst /\ ReadBeatIsTransfer
  OBVIOUS
<1>1. AnswerSumsUpBurst
  BY DEF IInv, WriteCounts, ErrorsSummed, AnswerSumsUpBurst, Writing
<1>2. ReadBeatIsTransfer
  BY DEF IInv, TypeOK, Txns, ReadCounts, TransfersAreBeats, ReadBeatIsTransfer, RLast
<1> QED BY <1>1, <1>2

(* Reset establishes it.                                                   *)
LEMMA InitIInv == Init => IInv
<1> SUFFICES ASSUME Init PROVE IInv
  OBVIOUS
<1>1. TypeOK
  <2>1. 0 \in Masters /\ AddrSpace \in Nat \ {0} /\ MaxBeats \in Nat \ {0}
    BY ConstantsAssumption
  <2>2. 0 \in 0..(AddrSpace - 1) /\ 0 \in 0..(MaxBeats - 1) /\ 0 \in 0..MaxBeats
    BY <2>1
  <2>3. log \in Seq(Transfers)
    BY DEF Init
  <2> QED BY <2>1, <2>2, <2>3 DEF Init, TypeOK, States
<1>2. Latches /\ AddrFollows /\ WriteCounts /\ ErrorsSummed /\ ReadCounts
  BY DEF Init, Latches, AddrFollows, WriteCounts, ErrorsSummed, Writing, ReadCounts
<1>3. TransfersAreBeats
  BY DEF Init, TransfersAreBeats, Txns
<1> QED BY <1>1, <1>2, <1>3 DEF IInv

(* What appending the transfer of the next beat does to the log.           *)
LEMMA LogGrows ==
  ASSUME TypeOK, TransfersAreBeats, NEW x, log' = Append(log, x), UNCHANGED txn,
         Len(log) < txn.beats, x.addr = BeatAddr(Len(log) + 1), x.data = Len(log) + 1
  PROVE  /\ TransfersAreBeats'
         /\ Len(log') = Len(log) + 1
         /\ log'[Len(log) + 1] = x
         /\ \A i \in 1..Len(log) : log'[i] = log[i]
<1>1. /\ Len(log') = Len(log) + 1 /\ Len(log) \in Nat
      /\ log'[Len(log) + 1] = x
      /\ \A i \in 1..Len(log) : log'[i] = log[i]
  BY DEF TypeOK
<1>2. txn.beats \in Nat
  BY ConstantsAssumption DEF TypeOK, Txns
<1>3. ASSUME NEW i \in 1..Len(log')
      PROVE  log'[i].addr = BeatAddr(i)' /\ log'[i].data = i
  <2>1. BeatAddr(i)' = BeatAddr(i)
    BY DEF BeatAddr
  <2>2. CASE i = Len(log) + 1
    BY <1>1, <2>1, <2>2
  <2>3. CASE i \in 1..Len(log)
    BY <1>1, <2>1, <2>3 DEF TransfersAreBeats
  <2> QED BY <1>1, <2>2, <2>3
<1> QED BY <1>1, <1>2, <1>3 DEF TransfersAreBeats

(* Every clock edge preserves the inductive invariant.                     *)
LEMMA StepIInv == IInv /\ [Next]_vars => IInv'
<1> SUFFICES ASSUME IInv, [Next]_vars PROVE IInv'
  OBVIOUS
<1>0. /\ TypeOK /\ txn.beats \in 1..MaxBeats /\ txn.addr \in 0..(AddrSpace - 1)
      /\ txn.step \in Nat /\ txn.incr \in BOOLEAN
      /\ MaxBeats \in Nat /\ AddrSpace \in Nat \ {0}
  <2>1. TypeOK /\ txn \in Txns
    BY DEF IInv, TypeOK
  <2>2. MaxBeats \in Nat /\ AddrSpace \in Nat \ {0}
    BY ConstantsAssumption
  <2> QED BY <2>1, <2>2, TxnTypes
<1> USE DEF Requests, latched, wregs, rregs
<1>1. ASSUME NEW m \in Masters, AcceptWrite(m) \/ AcceptRead(m)
      PROVE  IInv'
  <2>1. PICK t \in Txns : Latch(m, t) /\ (AcceptRead(m) => rbeat' = t.beats - 1)
    BY <1>1 DEF AcceptWrite, AcceptRead, Latch
  <2>2. /\ t.beats \in 1..MaxBeats /\ t.addr \in 0..(AddrSpace - 1)
        /\ t.step \in Nat /\ t.incr \in BOOLEAN
    BY TxnTypes
  <2>3. log' = <<>> /\ txn' = t /\ addr' = t.addr /\ incr' = t.incr /\ step' = t.step
    BY <2>1 DEF Latch
  <2>4. st' \in {"WBEAT", "RSETUP"}
    BY <1>1 DEF AcceptWrite, AcceptRead
  <2>5. TypeOK'
    <3>1. sel' \in Masters
      BY <2>1 DEF Latch
    <3>2. /\ awv' \subseteq Masters /\ arv' \subseteq Masters
          /\ rd_l' = rd_l /\ rerr_l' = rerr_l /\ wd_l' = wd_l /\ wlast_l' = wlast_l
      BY <1>1 DEF AcceptWrite, AcceptRead
    <3>3. werr' \in BOOLEAN /\ sent' \in 0..MaxBeats
      <4>1. werr \in BOOLEAN /\ sent \in 0..MaxBeats /\ 0 \in 0..MaxBeats
        BY <1>0 DEF TypeOK
      <4>2. (werr' = FALSE /\ sent' = 0) \/ (werr' = werr /\ sent' = sent)
        BY <1>1 DEF AcceptWrite, AcceptRead
      <4> QED BY <4>1, <4>2
    <3>4. rbeat' \in 0..(MaxBeats - 1)
      BY <1>0, <1>1, <2>1, <2>2 DEF AcceptWrite, AcceptRead, TypeOK
    <3>5. log' \in Seq(Transfers)
      BY <2>3
    <3> QED BY <1>0, <2>2, <2>3, <2>4, <3>1, <3>2, <3>3, <3>4, <3>5 DEF TypeOK, States
  <2>6. Latches' /\ ErrorsSummed'
    <3>1. Latches'
      BY <2>3 DEF Latches
    <3>2. ErrorsSummed'
      BY <1>1, <2>3 DEF ErrorsSummed, Writing, AcceptWrite, AcceptRead
    <3> QED BY <3>1, <3>2
  <2>7. AddrFollows'
    <3>1. (BeatAddr(1))' = t.addr
      BY <1>0, <2>2, <2>3 DEF BeatAddr
    <3> QED BY <2>3, <2>4, <3>1 DEF AddrFollows
  <2>8. WriteCounts' /\ ReadCounts'
    BY <1>1, <2>1, <2>2, <2>3 DEF WriteCounts, ReadCounts, AcceptWrite, AcceptRead
  <2>9. TransfersAreBeats'
    BY <2>2, <2>3 DEF TransfersAreBeats
  <2> QED BY <2>5, <2>6, <2>7, <2>8, <2>9 DEF IInv
<1>2. CASE WBeat
  <2>1. TypeOK'
    BY <1>0, <1>2 DEF WBeat, TypeOK, States, IInv, WriteCounts
  <2>2. TransfersAreBeats' /\ AddrFollows'
    BY <1>2 DEF WBeat, IInv, TransfersAreBeats, AddrFollows, BeatAddr
  <2>3. Latches' /\ WriteCounts' /\ ErrorsSummed' /\ ReadCounts'
    <3>1. Latches' /\ ReadCounts'
      BY <1>2 DEF WBeat, IInv, Latches, ReadCounts
    <3>2. ErrorsSummed'
      BY <1>2 DEF WBeat, IInv, ErrorsSummed, Writing
    <3>3. WriteCounts'
      <4>1. sent = Len(log) /\ sent < txn.beats /\ sent \in Nat
        BY <1>0, <1>2 DEF WBeat, IInv, WriteCounts, TypeOK
      <4>2. /\ sent' = sent + 1 /\ wd_l' = sent + 1 /\ log' = log /\ txn' = txn
            /\ st' = "WSETUP"
        BY <1>2 DEF WBeat
      <4>3. sent' <= txn.beats
        BY <1>0, <4>1, <4>2
      <4>4. wlast_l' <=> sent' = txn'.beats
        BY <1>2, <4>2 DEF WBeat
      <4> QED BY <4>1, <4>2, <4>3, <4>4 DEF WriteCounts
    <3> QED BY <3>1, <3>2, <3>3
  <2> QED BY <2>1, <2>2, <2>3 DEF IInv
<1>3. CASE Setup
  <2>1. TypeOK'
    BY <1>0, <1>3 DEF Setup, TypeOK, States
  <2>2. TransfersAreBeats' /\ AddrFollows'
    BY <1>3 DEF Setup, IInv, TransfersAreBeats, AddrFollows, BeatAddr
  <2>3. Latches' /\ WriteCounts' /\ ErrorsSummed' /\ ReadCounts'
    BY <1>3 DEF Setup, IInv, Latches, WriteCounts, ErrorsSummed, Writing, ReadCounts
  <2> QED BY <2>1, <2>2, <2>3 DEF IInv
<1>4. ASSUME NEW err \in BOOLEAN, WAccess(err)
      PROVE  IInv'
  <2> DEFINE x == [addr |-> addr, data |-> wd_l, err |-> err]
  <2>1. /\ sent = Len(log) + 1 /\ sent <= txn.beats /\ wd_l = sent
        /\ wlast_l <=> sent = txn.beats
        /\ addr = BeatAddr(Len(log) + 1) /\ Len(log) \in Nat
    BY <1>0, <1>4 DEF WAccess, IInv, WriteCounts, AddrFollows, TypeOK
  <2>2. /\ TransfersAreBeats' /\ Len(log') = Len(log) + 1
        /\ log'[Len(log) + 1] = x
        /\ \A i \in 1..Len(log) : log'[i] = log[i]
    <3>1. log' = Append(log, x) /\ UNCHANGED txn
      BY <1>4 DEF WAccess
    <3>2. Len(log) < txn.beats /\ x.addr = BeatAddr(Len(log) + 1) /\ x.data = Len(log) + 1
      BY <1>0, <2>1
    <3>3. TransfersAreBeats
      BY DEF IInv
    <3> HIDE DEF x
    <3> QED BY <1>0, <3>1, <3>2, <3>3, LogGrows
  <2>3. addr' = (BeatAddr(Len(log) + 1))'
    <3>1. addr' = NextAddr /\ txn' = txn
      BY <1>4 DEF WAccess
    <3>2. NextAddr = BeatAddr((Len(log) + 1) + 1)
      BY <1>0, <1>4, <2>1, NextBeatAddr DEF WAccess, IInv
    <3> QED BY <2>2, <3>1, <3>2 DEF BeatAddr
  <2>4. TypeOK'
    <3>1. addr' \in 0..(AddrSpace - 1)
      BY <1>0, <1>4 DEF WAccess, NextAddr, TypeOK
    <3>2. log' \in Seq(Transfers)
      BY <1>0, <1>4 DEF WAccess, TypeOK, Transfers
    <3>3. st' \in States /\ werr' \in BOOLEAN
      BY <1>0, <1>4 DEF WAccess, AfterWAccess, States, WErrNext
    <3> QED BY <1>0, <1>4, <3>1, <3>2, <3>3 DEF WAccess, TypeOK
  <2>5. ErrorsSummed'
    <3>1. werr <=> \E i \in 1..Len(log) : log[i].err
      BY <1>4 DEF WAccess, IInv, ErrorsSummed, Writing
    <3>2. (\E i \in 1..Len(log') : log'[i].err) <=> (err \/ \E i \in 1..Len(log) : log[i].err)
      <4>1. x.err = err
        OBVIOUS
      <4> HIDE DEF x
      <4> QED BY <2>1, <2>2, <4>1
    <3>3. werr' = (werr \/ err)
      BY <1>4 DEF WAccess, WErrNext
    <3> QED BY <3>1, <3>2, <3>3 DEF ErrorsSummed
  <2>6. AddrFollows' /\ Latches' /\ WriteCounts' /\ ReadCounts'
    <3>1. st' = (IF wlast_l THEN "WRESP" ELSE "WBEAT")
      BY <1>4 DEF WAccess, AfterWAccess
    <3>2. AddrFollows'
      BY <2>3, <3>1 DEF AddrFollows
    <3>3. Latches' /\ ReadCounts'
      BY <1>4, <3>1 DEF WAccess, IInv, Latches, ReadCounts
    <3>4. WriteCounts'
      BY <1>0, <1>4, <2>1, <2>2, <3>1 DEF WAccess, WriteCounts
    <3> QED BY <3>2, <3>3, <3>4
  <2> QED BY <2>2, <2>4, <2>5, <2>6 DEF IInv
<1>5. ASSUME NEW err \in BOOLEAN, RAccess(err)
      PROVE  IInv'
  <2> DEFINE x == [addr |-> addr, data |-> Len(log) + 1, err |-> err]
  <2>1. /\ rbeat + Len(log) + 1 = txn.beats /\ rbeat \in Nat /\ Len(log) \in Nat
        /\ addr = BeatAddr(Len(log) + 1)
    BY <1>0, <1>5 DEF RAccess, IInv, ReadCounts, AddrFollows, TypeOK
  <2>2. /\ TransfersAreBeats' /\ Len(log') = Len(log) + 1
        /\ log'[Len(log) + 1] = x
        /\ \A i \in 1..Len(log) : log'[i] = log[i]
    <3>1. log' = Append(log, x) /\ UNCHANGED txn
      BY <1>5 DEF RAccess
    <3>2. Len(log) < txn.beats /\ x.addr = BeatAddr(Len(log) + 1) /\ x.data = Len(log) + 1
      BY <1>0, <2>1
    <3>3. TransfersAreBeats
      BY DEF IInv
    <3> HIDE DEF x
    <3> QED BY <1>0, <3>1, <3>2, <3>3, LogGrows
  <2>3. TypeOK'
    <3>1. log' \in Seq(Transfers) /\ rd_l' \in 0..MaxBeats
      BY <1>0, <1>5, <2>1 DEF RAccess, TypeOK, Transfers
    <3>2. st' \in States /\ rerr_l' \in BOOLEAN
      BY <1>5 DEF RAccess, States, RErrNext
    <3> QED BY <1>0, <1>5, <3>1, <3>2 DEF RAccess, TypeOK
  <2>4. AddrFollows'
    BY <1>5, <2>1, <2>2 DEF RAccess, AddrFollows, BeatAddr
  <2>5. ReadCounts'
    <3>1. x.err = err
      OBVIOUS
    <3> HIDE DEF x
    <3> QED BY <1>0, <1>5, <2>1, <2>2, <3>1 DEF RAccess, RErrNext, ReadCounts
  <2>6. Latches' /\ WriteCounts' /\ ErrorsSummed'
    BY <1>5 DEF RAccess, IInv, Latches, WriteCounts, ErrorsSummed, Writing
  <2> QED BY <2>2, <2>3, <2>4, <2>5, <2>6 DEF IInv
<1>6. CASE WResp
  <2>1. TypeOK'
    BY <1>0, <1>6 DEF WResp, AfterWResp, TypeOK, States
  <2>2. TransfersAreBeats' /\ AddrFollows' /\ Latches'
    BY <1>6 DEF WResp, AfterWResp, IInv, TransfersAreBeats, AddrFollows, BeatAddr, Latches
  <2>3. WriteCounts' /\ ErrorsSummed' /\ ReadCounts'
    BY <1>6 DEF WResp, AfterWResp, WriteCounts, ErrorsSummed, Writing, ReadCounts
  <2> QED BY <2>1, <2>2, <2>3 DEF IInv
<1>7. CASE RBeat
  <2>1. TypeOK'
    <3>1. addr' \in 0..(AddrSpace - 1)
      BY <1>0, <1>7 DEF RBeat, NextAddr, TypeOK
    <3>2. rbeat' \in 0..(MaxBeats - 1) /\ st' \in States
      BY <1>0, <1>7 DEF RBeat, RLast, TypeOK, States
    <3> QED BY <1>0, <1>7, <3>1, <3>2 DEF RBeat, TypeOK
  <2>2. addr' = BeatAddr(Len(log) + 1) /\ Len(log) \in Nat
    BY <1>0, <1>7, NextBeatAddr DEF RBeat, IInv, AddrFollows, ReadCounts, TypeOK
  <2>3. AddrFollows'
    BY <1>7, <2>2 DEF RBeat, AddrFollows, BeatAddr
  <2>4. TransfersAreBeats' /\ Latches'
    BY <1>7 DEF RBeat, IInv, TransfersAreBeats, BeatAddr, Latches
  <2>5. WriteCounts' /\ ErrorsSummed' /\ ReadCounts'
    BY <1>0, <1>7 DEF RBeat, RLast, IInv, TypeOK, WriteCounts, ErrorsSummed, Writing, ReadCounts
  <2> QED BY <2>1, <2>3, <2>4, <2>5 DEF IInv
<1>8. CASE Stall \/ UNCHANGED vars
  <2>1. /\ UNCHANGED <<st, addr, latched, wregs, rregs, log>>
        /\ awv' \subseteq Masters /\ arv' \subseteq Masters
    BY <1>0, <1>8 DEF Stall, vars, TypeOK
  <2>2. TypeOK'
    BY <1>0, <2>1 DEF TypeOK
  <2>3. TransfersAreBeats' /\ AddrFollows' /\ Latches'
    BY <2>1 DEF IInv, TransfersAreBeats, AddrFollows, BeatAddr, Latches
  <2>4. WriteCounts' /\ ErrorsSummed' /\ ReadCounts'
    BY <2>1 DEF IInv, WriteCounts, ErrorsSummed, Writing, ReadCounts
  <2> QED BY <2>2, <2>3, <2>4 DEF IInv
<1> QED BY <1>1, <1>2, <1>3, <1>4, <1>5, <1>6, <1>7, <1>8 DEF Next
-----------------------------------------------------------------------------
(* The inductive invariant holds throughout.                               *)
LEMMA Invariance == Spec => []IInv
BY InitIInv, StepIInv, PTL DEF Spec

(* The registers of the bridge keep their widths: the beat counters never  *)
(* pass the longest burst.                                                 *)
THEOREM TypeCorrect == Spec => []TypeOK
<1>1. IInv => TypeOK
  BY DEF IInv
<1> QED BY <1>1, Invariance, PTL

(* The APB transfers of a burst are its beats, in order, at their own      *)
(* addresses and with their own data, wrapping of the address included.    *)
THEOREM BeatsCorrect == Spec => []TransfersAreBeats
<1>1. IInv => TransfersAreBeats
  BY DEF IInv
<1> QED BY <1>1, Invariance, PTL

(* One B per write burst, after its last transfer, SLVERR exactly when one *)
(* of the transfers failed.                                                *)
THEOREM AnswerCorrect == Spec => []AnswerSumsUpBurst
BY IInvImplies, Invariance, PTL

(* An R beat is the transfer it was made from; the last one says so.       *)
THEOREM ReadCorrect == Spec => []ReadBeatIsTransfer
BY IInvImplies, Invariance, PTL
=============================================================================
