---------------------------- MODULE BlockProofs -----------------------------
(***************************************************************************)
(* Proofs about the stand-alone RTL blocks: fifo_buffer implements a       *)
(* bounded queue, for every depth and every data; the transition packer in *)
(* front of it keeps every bit, for every width; the skid buffer passes    *)
(* every word once and in order, for every set of words; the IWRR arbiter  *)
(* gives everyone its share and bounds the waiting, for every number of    *)
(* requesters and of rounds and every vector of weights.                   *)
(***************************************************************************)
EXTENDS TransitionFifo, SkidBuffer, IwrrArbiter, SequenceTheorems, FiniteSetTheorems, TLAPS

(***************************************************************************)
(* fifo_buffer                                                             *)
(***************************************************************************)
(* The inductive invariant: the write pointer is never behind the read     *)
(* pointer nor more than a whole memory ahead of it.                       *)
FifoInv == FifoTypeOK /\ Count \in 0..FIFO_DEPTH

(* The arithmetic facts the provers need about a well-typed state.         *)
LEMMA AddrFacts ==
  ASSUME FifoTypeOK
  PROVE  /\ FIFO_DEPTH \in Nat /\ FIFO_DEPTH >= 1
         /\ wr_ptr.addr \in Nat /\ wr_ptr.addr < FIFO_DEPTH
         /\ rd_ptr.addr \in Nat /\ rd_ptr.addr < FIFO_DEPTH
         /\ wr_ptr.msb \in BOOLEAN /\ rd_ptr.msb \in BOOLEAN
BY FifoAssumption DEF FifoTypeOK, Pointers, Addresses

(* Empty is exact: no word is between the pointers.                        *)
LEMMA EmptyIsZero == FifoInv => (Empty <=> Count = 0)
<1> SUFFICES ASSUME FifoInv PROVE Empty <=> Count = 0
  OBVIOUS
<1>1. FifoTypeOK /\ Count \in 0..FIFO_DEPTH
  BY DEF FifoInv
<1>2. Empty <=> wr_ptr.addr = rd_ptr.addr /\ wr_ptr.msb = rd_ptr.msb
  BY <1>1 DEF FifoTypeOK, Pointers, Empty
<1> QED BY <1>1, <1>2, AddrFacts DEF Count

(* Full is exact: FIFO_DEPTH words are between the pointers.               *)
LEMMA FullIsDepth == FifoInv => (Full <=> Count = FIFO_DEPTH)
BY AddrFacts DEF FifoInv, Count, Full

(* The sequence of the words between the pointers is well formed.          *)
LEMMA ContentsType ==
  FifoInv => /\ Contents \in Seq(Data)
             /\ Len(Contents) = Count
             /\ \A i \in 1..Count : Slot(i) \in Addresses
<1> SUFFICES ASSUME FifoInv
             PROVE  /\ Contents \in Seq(Data)
                    /\ Len(Contents) = Count
                    /\ \A i \in 1..Count : Slot(i) \in Addresses
  OBVIOUS
<1>1. FifoTypeOK /\ Count \in 0..FIFO_DEPTH
  BY DEF FifoInv
<1>2. \A i \in 1..Count : Slot(i) \in Addresses
  BY <1>1, AddrFacts DEF Slot, Addresses
<1>3. Contents \in [1..Count -> Data]
  BY <1>1, <1>2 DEF Contents, FifoTypeOK
<1>4. Count \in Nat
  BY <1>1, AddrFacts
<1> QED BY <1>2, <1>3, <1>4

(* The same in the next state.                                             *)
LEMMA ContentsTypeNext ==
  FifoInv' => Contents' \in Seq(Data) /\ Len(Contents') = Count'
<1> DEFINE OK == Contents \in Seq(Data) /\ Len(Contents) = Count
<1>1. FifoInv => OK
  BY ContentsType
<1> HIDE DEF OK
<1>2. FifoInv' => OK'
  BY <1>1, PTL
<1> QED BY <1>2 DEF OK

(* The next free slot is the write pointer's, and no live slot is.         *)
LEMMA WriteSlot ==
  ASSUME FifoInv, Count < FIFO_DEPTH
  PROVE  /\ Slot(Count + 1) = wr_ptr.addr
         /\ \A i \in 1..Count : Slot(i) # wr_ptr.addr
<1>1. FifoTypeOK /\ Count \in 0..FIFO_DEPTH
  BY DEF FifoInv
<1>2. CASE wr_ptr.msb = rd_ptr.msb
  BY <1>1, <1>2, AddrFacts DEF Count, Slot
<1>3. CASE wr_ptr.msb # rd_ptr.msb
  BY <1>1, <1>3, AddrFacts DEF Count, Slot
<1> QED BY <1>2, <1>3

(* Advancing a pointer keeps its type, and moves it by one slot.           *)
LEMMA AdvanceType ==
  ASSUME NEW p \in Pointers
  PROVE  /\ Advance(p) \in Pointers
         /\ Advance(p).addr = IF p.addr = FIFO_DEPTH - 1 THEN 0 ELSE p.addr + 1
         /\ Advance(p).msb = IF p.addr = FIFO_DEPTH - 1 THEN ~p.msb ELSE p.msb
BY FifoAssumption DEF Pointers, Addresses, Advance
-----------------------------------------------------------------------------
(* An edge adds the word written and removes the word read.                *)
LEMMA CountNext ==
  ASSUME FifoInv, FifoEdge
  PROVE  Count' = Count + (IF WriteFire THEN 1 ELSE 0) - (IF ReadFire THEN 1 ELSE 0)
<1>1. FifoTypeOK /\ Count \in 0..FIFO_DEPTH /\ wr_ptr \in Pointers /\ rd_ptr \in Pointers
  BY DEF FifoInv, FifoTypeOK
<1>2. WriteFire => wr_en /\ Count # FIFO_DEPTH
  BY FullIsDepth DEF WriteFire
<1>3. ReadFire => rd_en /\ Count # 0
  BY EmptyIsZero DEF ReadFire
<1>4. wr_ptr' = IF WriteFire THEN Advance(wr_ptr) ELSE wr_ptr
  BY DEF FifoEdge
<1>5. rd_ptr' = IF ReadFire THEN Advance(rd_ptr) ELSE rd_ptr
  BY DEF FifoEdge
<1>6. CASE WriteFire /\ ReadFire
  BY <1>1, <1>2, <1>3, <1>4, <1>5, <1>6, AddrFacts, AdvanceType DEF Count
<1>7. CASE WriteFire /\ ~ReadFire
  BY <1>1, <1>2, <1>3, <1>4, <1>5, <1>7, AddrFacts, AdvanceType DEF Count
<1>8. CASE ~WriteFire /\ ReadFire
  BY <1>1, <1>2, <1>3, <1>4, <1>5, <1>8, AddrFacts, AdvanceType DEF Count
<1>9. CASE ~WriteFire /\ ~ReadFire
  BY <1>1, <1>4, <1>5, <1>9, AddrFacts DEF Count
<1> QED BY <1>6, <1>7, <1>8, <1>9
(* Slots move with the read pointer, one place when a word is read.        *)
LEMMA SlotNext ==
  ASSUME FifoInv, FifoEdge, NEW i \in 1..FIFO_DEPTH, ReadFire => i < FIFO_DEPTH
  PROVE  Slot(i)' = Slot(IF ReadFire THEN i + 1 ELSE i)
<1>1. FifoTypeOK /\ rd_ptr \in Pointers
  BY DEF FifoInv, FifoTypeOK
<1>2. rd_ptr' = IF ReadFire THEN Advance(rd_ptr) ELSE rd_ptr
  BY DEF FifoEdge
<1>3. CASE ReadFire
  <2>1. rd_ptr'.addr = IF rd_ptr.addr = FIFO_DEPTH - 1 THEN 0 ELSE rd_ptr.addr + 1
    BY <1>1, <1>2, <1>3, AdvanceType
  <2> QED BY <1>1, <1>3, <2>1, AddrFacts DEF Slot
<1>4. CASE ~ReadFire
  BY <1>2, <1>4 DEF Slot
<1> QED BY <1>3, <1>4

(* Every step preserves the invariant.                                     *)
LEMMA FifoInvNext ==
  ASSUME FifoInv, [(FifoEdge \/ FifoReset) /\ PortsOK']_<<fifoVars, ports>>
  PROVE  FifoInv'
<1> USE FifoAssumption
<1>0. FifoTypeOK /\ Count \in 0..FIFO_DEPTH
  BY DEF FifoInv
<1>1. CASE FifoEdge /\ PortsOK'
  <2>1. mem' \in [Addresses -> Data]
    BY <1>0, <1>1 DEF FifoEdge, FifoTypeOK, PortsOK
  <2>2. wr_ptr' \in Pointers /\ rd_ptr' \in Pointers
    BY <1>0, <1>1, AdvanceType DEF FifoEdge, FifoTypeOK
  <2>3. rd_data' \in Data
    BY <1>0, <1>1 DEF FifoEdge, FifoTypeOK, Pointers
  <2>4. WriteFire => Count # FIFO_DEPTH
    BY FullIsDepth DEF WriteFire
  <2>5. ReadFire => Count # 0
    BY EmptyIsZero DEF ReadFire
  <2>6. Count' \in 0..FIFO_DEPTH
    BY <1>0, <1>1, <2>4, <2>5, CountNext, AddrFacts
  <2> QED BY <1>1, <2>1, <2>2, <2>3, <2>6 DEF FifoInv, FifoTypeOK
<1>2. CASE FifoReset /\ PortsOK'
  <2>1. wr_ptr' \in Pointers /\ rd_ptr' \in Pointers
    BY <1>2 DEF FifoReset, Pointers, Addresses
  <2>2. Count' = 0
    BY <1>2 DEF FifoReset, Count
  <2>3. mem' \in [Addresses -> Data] /\ rd_data' \in Data
    BY <1>0, <1>2 DEF FifoReset, FifoTypeOK
  <2> QED BY <1>2, <2>1, <2>2, <2>3 DEF FifoInv, FifoTypeOK
<1>3. CASE UNCHANGED <<fifoVars, ports>>
  <2>1. FifoTypeOK'
    BY <1>0, <1>3 DEF fifoVars, ports, FifoTypeOK, PortsOK
  <2>2. Count' = Count
    BY <1>3 DEF fifoVars, Count
  <2> QED BY <1>0, <2>1, <2>2 DEF FifoInv
<1> QED BY <1>1, <1>2, <1>3

(* Reset state.                                                            *)
LEMMA FifoInvInit == FifoInit /\ PortsOK => FifoInv /\ Contents = <<>>
<1> SUFFICES ASSUME FifoInit, PortsOK PROVE FifoInv /\ Contents = <<>>
  OBVIOUS
<1>1. FifoTypeOK
  BY FifoAssumption DEF FifoInit, FifoTypeOK, Pointers, Addresses
<1>2. Count = 0
  BY DEF FifoInit, Count
<1>3. FifoInv
  BY <1>1, <1>2, FifoAssumption DEF FifoInv
<1>4. Contents \in Seq(Data) /\ Len(Contents) = 0
  BY <1>2, <1>3, ContentsType
<1> QED BY <1>3, <1>4, EmptySeq

(* The registers of fifo_buffer keep their types, for every depth.         *)
THEOREM FifoTypeCorrect == FifoSpec => []FifoTypeOK
<1>1. FifoInit /\ PortsOK => FifoInv
  BY FifoInvInit
<1>2. FifoInv /\ [(FifoEdge \/ FifoReset) /\ PortsOK']_<<fifoVars, ports>> => FifoInv'
  BY FifoInvNext
<1>3. FifoInv => FifoTypeOK
  BY DEF FifoInv
<1> QED BY <1>1, <1>2, <1>3, PTL DEF FifoSpec
-----------------------------------------------------------------------------
(* An edge of fifo_buffer is an edge of the queue of its contents.         *)
LEMMA EdgeRefines ==
  ASSUME FifoInv, FifoInv', FifoEdge
  PROVE  Queue!Edge
<1> DEFINE rest == IF ReadFire THEN Tail(Contents) ELSE Contents
           target == IF WriteFire THEN Append(rest, wr_data) ELSE rest
           kept == Count - (IF ReadFire THEN 1 ELSE 0)
<1>1. FifoTypeOK /\ Count \in 0..FIFO_DEPTH /\ wr_data \in Data
  BY DEF FifoInv, FifoTypeOK, PortsOK
<1>2. Contents \in Seq(Data) /\ Len(Contents) = Count
  BY ContentsType
<1>3. Contents' \in Seq(Data) /\ Len(Contents') = Count'
  BY ContentsTypeNext
<1>4. ReadFire <=> rd_en /\ Contents # <<>>
  BY <1>2, EmptyIsZero, EmptySeq DEF ReadFire
<1>5. WriteFire <=> wr_en /\ Len(Contents) < FIFO_DEPTH
  BY <1>1, <1>2, FullIsDepth, AddrFacts DEF WriteFire
<1>6. /\ rest \in Seq(Data)
      /\ Len(rest) = kept
      /\ \A i \in 1..kept : rest[i] = Contents[IF ReadFire THEN i + 1 ELSE i]
  BY <1>2, <1>4, HeadTailProperties
<1>7. /\ target \in Seq(Data)
      /\ Len(target) = Count'
      /\ \A i \in 1..kept : target[i] = rest[i]
      /\ WriteFire => target[kept + 1] = wr_data
  BY <1>1, <1>2, <1>6, CountNext
<1>8. mem' = IF WriteFire THEN [mem EXCEPT ![wr_ptr.addr] = wr_data] ELSE mem
  BY DEF FifoEdge
<1>9. \A i \in 1..Count' : Contents'[i] = target[i]
  <2> HIDE DEF target, rest
  <2> SUFFICES ASSUME NEW i \in 1..Count' PROVE Contents'[i] = target[i]
    OBVIOUS
  <2>1. Contents'[i] = mem'[Slot(i)']
    BY DEF Contents
  <2>2. Count' \in 0..FIFO_DEPTH /\ Count' = kept + (IF WriteFire THEN 1 ELSE 0)
    BY <1>1, CountNext, AddrFacts DEF FifoInv
  <2>3. ReadFire => Count # 0
    BY EmptyIsZero DEF ReadFire
  <2>4. CASE i <= kept
    <3> DEFINE j == IF ReadFire THEN i + 1 ELSE i
    <3>1. j \in 1..Count /\ i \in 1..kept
      BY <1>1, <2>2, <2>3, <2>4, AddrFacts
    <3>2. Slot(i)' = Slot(j)
      <4>1. i \in 1..FIFO_DEPTH /\ (ReadFire => i < FIFO_DEPTH)
        BY <1>1, <2>4, <3>1, AddrFacts
      <4> QED BY <4>1, SlotNext
    <3>3. mem'[Slot(j)] = mem[Slot(j)]
      <4>1. CASE WriteFire
        <5>1. Slot(j) # wr_ptr.addr
          BY <1>1, <1>2, <1>5, <3>1, <4>1, WriteSlot
        <5>2. Slot(j) \in Addresses
          BY <3>1, ContentsType
        <5> QED BY <1>1, <1>8, <4>1, <5>1, <5>2 DEF FifoTypeOK
      <4>2. CASE ~WriteFire
        BY <1>8, <4>2
      <4> QED BY <4>1, <4>2
    <3>4. target[i] = Contents[j]
      BY <1>6, <1>7, <3>1
    <3>5. Contents[j] = mem[Slot(j)]
      BY <3>1 DEF Contents
    <3> HIDE DEF j
    <3> QED BY <2>1, <3>2, <3>3, <3>4, <3>5
  <2>5. CASE i > kept
    <3>1. WriteFire /\ i = kept + 1
      BY <1>1, <2>2, <2>5, AddrFacts
    <3>2. Count < FIFO_DEPTH
      BY <1>2, <1>5, <3>1
    <3>3. Slot(i)' = Slot(Count + 1)
      <4>1. i \in 1..FIFO_DEPTH /\ (ReadFire => i < FIFO_DEPTH)
        BY <1>1, <2>2, <3>1, <3>2, AddrFacts
      <4>2. Count + 1 = IF ReadFire THEN i + 1 ELSE i
        BY <1>1, <3>1, AddrFacts
      <4> QED BY <4>1, <4>2, SlotNext
    <3>4. Slot(Count + 1) = wr_ptr.addr
      BY <3>2, WriteSlot
    <3>5. wr_ptr.addr \in Addresses
      BY <1>1 DEF FifoTypeOK, Pointers
    <3> QED BY <1>1, <1>7, <1>8, <2>1, <3>1, <3>3, <3>4, <3>5 DEF FifoTypeOK
  <2> QED BY <1>1, <2>2, <2>4, <2>5, AddrFacts
<1>10. Contents' = target
  <2> HIDE DEF target
  <2> QED BY <1>3, <1>7, <1>9, SeqEqual
<1>11. rd_data' = IF ReadFire THEN Head(Contents) ELSE rd_data
  <2>1. CASE ReadFire
    <3>1. Count >= 1 /\ 1 \in 1..Count
      BY <1>1, <2>1, EmptyIsZero, AddrFacts DEF ReadFire
    <3>2. Head(Contents) = Contents[1]
      BY <1>2, <3>1
    <3>3. Contents[1] = mem[rd_ptr.addr]
      BY <1>1, <3>1, AddrFacts DEF Contents, Slot
    <3> QED BY <2>1, <3>2, <3>3 DEF FifoEdge
  <2>2. CASE ~ReadFire
    BY <2>2 DEF FifoEdge
  <2> QED BY <2>1, <2>2
<1> QED BY <1>4, <1>5, <1>10, <1>11 DEF Queue!Edge, Queue!Enters, Queue!Leaves

(* fifo_buffer implements a queue of FIFO_DEPTH words, for every depth,    *)
(* every set of words and every sequence of port values and resets: full   *)
(* and empty are exact, and no word is lost, repeated or reordered.        *)
THEOREM FifoRefinement == FifoSpec => QueueSpec
<1>1. FifoInit /\ PortsOK => FifoInv /\ Queue!Init
  BY FifoInvInit DEF Queue!Init, FifoInit
<1>2. FifoInv /\ [(FifoEdge \/ FifoReset) /\ PortsOK']_<<fifoVars, ports>> => FifoInv'
  BY FifoInvNext
<1>3. FifoInv /\ FifoInv' /\ [(FifoEdge \/ FifoReset) /\ PortsOK']_<<fifoVars, ports>>
        => [Queue!Edge \/ Queue!Reset]_<<Contents, rd_data>>
  <2> SUFFICES ASSUME FifoInv, FifoInv',
                      [(FifoEdge \/ FifoReset) /\ PortsOK']_<<fifoVars, ports>>
               PROVE  [Queue!Edge \/ Queue!Reset]_<<Contents, rd_data>>
    OBVIOUS
  <2>1. CASE FifoEdge
    BY <2>1, EdgeRefines
  <2>2. CASE FifoReset
    <3>1. Count' = 0
      BY <2>2 DEF FifoReset, Count
    <3>2. Contents' \in Seq(Data) /\ Len(Contents') = 0
      BY <3>1, ContentsTypeNext
    <3>3. Contents' = <<>>
      BY <3>2, EmptySeq
    <3> QED BY <2>2, <3>3 DEF FifoReset, Queue!Reset
  <2>3. CASE UNCHANGED <<fifoVars, ports>>
    BY <2>3 DEF fifoVars, Contents, Count, Slot
  <2> QED BY <2>1, <2>2, <2>3
<1> QED BY <1>1, <1>2, <1>3, PTL DEF FifoSpec, QueueSpec, Queue!Spec
-----------------------------------------------------------------------------
(***************************************************************************)
(* The transition packer in front of the FIFO.  Of the assumptions of the  *)
(* modules above only FifoAssumption and PackerAssumption are used here,   *)
(* and PackerAssumption, which fixes the words, only here.                 *)
(***************************************************************************)
(* accepted holds the words of the sequence ws and then the n bits of buf. *)
Spelled(bits, ws, buf, n) ==
  /\ Len(bits) = Before(Len(ws) + 1) + n
  /\ \A k \in 1..Len(ws), i \in 1..DATA_WIDTH : bits[Before(k) + i] = ws[k][i]
  /\ \A i \in 1..n : bits[Before(Len(ws) + 1) + i] = buf[i]

(* The inductive invariant: no bit is lost, and the packer's buffer is     *)
(* clear above pack_count, so that merging with OR adds exactly the bits   *)
(* of the transition.                                                      *)
PackInv ==
  /\ FifoInv
  /\ PackTypeOK
  /\ Spelled(accepted, Complete, pack_buffer, pack_count)
  /\ \A i \in 1..DATA_WIDTH : pack_buffer[i] => i <= pack_count

(* What the proofs need of the constants.                                  *)
LEMMA PackFacts ==
  /\ DATA_WIDTH \in Nat /\ DATA_WIDTH >= 1
  /\ Data = BitWords /\ Zero \in BitWords
  /\ \A i \in 1..DATA_WIDTH : Zero[i] = FALSE
  /\ \A t \in Transitions : /\ t.data \in BitWords /\ t.width \in 0..DATA_WIDTH
                            /\ \A i \in 1..DATA_WIDTH : t.data[i] => i <= t.width
BY PackerAssumption DEF BitWords

(* Words follow each other without a gap.                                  *)
LEMMA BeforeFacts ==
  /\ Before(1) = 0
  /\ \A k \in Nat \ {0} : /\ Before(k) \in Nat
                          /\ Before(k + 1) = Before(k) + DATA_WIDTH
  /\ \A k, n \in Nat \ {0} : k <= n => Before(k) <= Before(n)
<1> USE PackFacts
<1>1. Before(1) = 0
  BY DEF Before
<1>2. ASSUME NEW k \in Nat \ {0}
      PROVE  Before(k) \in Nat /\ Before(k + 1) = Before(k) + DATA_WIDTH
  BY DEF Before
<1>3. ASSUME NEW k \in Nat \ {0}, NEW n \in Nat \ {0}, k <= n
      PROVE  Before(k) <= Before(n)
  <2>1. PICK d \in Nat : n = k + d
    <3>1. n - k \in Nat /\ n = k + (n - k)
      BY <1>3
    <3> QED BY <3>1
  <2>2. Before(n) = Before(k) + DATA_WIDTH * d /\ DATA_WIDTH * d \in Nat
    BY <2>1 DEF Before
  <2> QED BY <1>2, <2>2
<1> QED BY <1>1, <1>2, <1>3

(* Taking the first word away.                                             *)
LEMMA SpelledTail ==
  ASSUME NEW bits \in Seq(BOOLEAN), NEW ws \in Seq(BitWords), ws # <<>>,
         NEW buf \in BitWords, NEW n \in 0..DATA_WIDTH,
         Spelled(bits, ws, buf, n)
  PROVE  /\ SubSeq(bits, DATA_WIDTH + 1, Len(bits)) \in Seq(BOOLEAN)
         /\ Spelled(SubSeq(bits, DATA_WIDTH + 1, Len(bits)), Tail(ws), buf, n)
<1> DEFINE rest == SubSeq(bits, DATA_WIDTH + 1, Len(bits))
<1> USE PackFacts
<1>1. /\ Len(ws) \in Nat \ {0} /\ Len(Tail(ws)) = Len(ws) - 1
      /\ \A k \in 1..(Len(ws) - 1) : Tail(ws)[k] = ws[k + 1]
  BY EmptySeq, HeadTailProperties
<1>2. Len(bits) = Before(Len(ws) + 1) + n /\ Len(bits) \in Nat
  BY DEF Spelled
<1>3. Before(Len(ws) + 1) = Before(Len(ws)) + DATA_WIDTH /\ Before(Len(ws)) \in Nat
  BY <1>1, BeforeFacts
<1>4. /\ rest \in Seq(BOOLEAN) /\ Len(rest) = Before(Len(ws)) + n
      /\ \A j \in 1..(Before(Len(ws)) + n) : rest[j] = bits[DATA_WIDTH + j]
  BY <1>2, <1>3, SubSeqProperties
<1>5. ASSUME NEW k \in 1..(Len(ws) - 1), NEW i \in 1..DATA_WIDTH
      PROVE  rest[Before(k) + i] = ws[k + 1][i]
  <2>1. /\ Before(k + 1) = Before(k) + DATA_WIDTH /\ Before(k) \in Nat
        /\ Before(k + 1) <= Before(Len(ws))
    <3>1. k \in Nat \ {0} /\ k + 1 \in Nat \ {0} /\ k + 1 <= Len(ws)
      BY <1>1
    <3> QED BY ONLY <1>1, <3>1, BeforeFacts
  <2>2. rest[Before(k) + i] = bits[Before(k + 1) + i]
    <3>1. Before(k) + i \in 1..(Before(Len(ws)) + n)
      BY <1>3, <2>1
    <3> HIDE DEF rest
    <3>2. DATA_WIDTH + (Before(k) + i) = Before(k + 1) + i
      BY <2>1
    <3> QED BY <1>4, <3>1, <3>2
  <2>3. k + 1 \in 1..Len(ws)
    BY <1>1
  <2> HIDE DEF rest
  <2> QED BY <2>2, <2>3 DEF Spelled
<1>6. ASSUME NEW i \in 1..n
      PROVE  rest[Before(Len(ws)) + i] = buf[i]
  <2>1. Before(Len(ws)) + i \in 1..(Before(Len(ws)) + n)
    BY <1>3
  <2>2. DATA_WIDTH + (Before(Len(ws)) + i) = Before(Len(ws) + 1) + i
    BY <1>3
  <2> HIDE DEF rest
  <2> QED BY <1>4, <2>1, <2>2 DEF Spelled
<1>7. Len(Tail(ws)) + 1 = Len(ws)
  BY <1>1
<1> HIDE DEF rest
<1>8. Spelled(rest, Tail(ws), buf, n)
  <2> DEFINE vs == Tail(ws)
             m == Len(ws)
  <2>1. /\ \A k \in 1..(m - 1), i \in 1..DATA_WIDTH : rest[Before(k) + i] = vs[k][i]
        /\ \A i \in 1..n : rest[Before(m) + i] = buf[i]
        /\ Len(vs) = m - 1 /\ Len(vs) + 1 = m /\ Len(rest) = Before(m) + n
    BY <1>1, <1>4, <1>5, <1>6, <1>7
  <2> HIDE DEF vs, m
  <2>2. Spelled(rest, vs, buf, n)
    BY ONLY <2>1 DEF Spelled
  <2> QED BY <2>2 DEF vs
<1> QED BY <1>4, <1>8 DEF rest

(* Appending the bits of a transition: lengths and positions.              *)
LEMMA JoinBits ==
  ASSUME NEW bits \in Seq(BOOLEAN), NEW d \in BitWords, NEW w \in 0..DATA_WIDTH
  PROVE  /\ bits \o SubSeq(d, 1, w) \in Seq(BOOLEAN)
         /\ Len(bits \o SubSeq(d, 1, w)) = Len(bits) + w
         /\ \A j \in 1..Len(bits) : (bits \o SubSeq(d, 1, w))[j] = bits[j]
         /\ \A j \in 1..w : (bits \o SubSeq(d, 1, w))[Len(bits) + j] = d[j]
<1> USE PackFacts
<1>1. d \in Seq(BOOLEAN) /\ Len(d) = DATA_WIDTH
  BY DEF BitWords
<1>2. /\ SubSeq(d, 1, w) \in Seq(BOOLEAN) /\ Len(SubSeq(d, 1, w)) = w
      /\ \A j \in 1..w : SubSeq(d, 1, w)[j] = d[j]
  BY <1>1, SubSeqProperties
<1> DEFINE s == SubSeq(d, 1, w)
<1> HIDE DEF s
<1>3. s \in Seq(BOOLEAN) /\ Len(s) = w /\ \A j \in 1..w : s[j] = d[j]
  BY <1>2 DEF s
<1>4. /\ bits \o s \in Seq(BOOLEAN) /\ Len(bits \o s) = Len(bits) + w
      /\ \A j \in 1..Len(bits) : (bits \o s)[j] = bits[j]
      /\ \A j \in 1..w : (bits \o s)[Len(bits) + j] = s[j]
  BY <1>3
<1> QED BY <1>3, <1>4 DEF s

(* The bits of a word are Booleans.                                        *)
LEMMA BitsAre ==
  ASSUME NEW d \in BitWords, NEW i \in 1..DATA_WIDTH
  PROVE  d[i] \in BOOLEAN
BY DEF BitWords

(* What one bit of a merge is: a bit of the buffer below n, of the         *)
(* transition from n on.                                                   *)
LEMMA MergedBits ==
  ASSUME NEW buf \in BitWords, NEW d \in BitWords, NEW n \in 0..(DATA_WIDTH - 1),
         \A i \in 1..DATA_WIDTH : buf[i] => i <= n
  PROVE  /\ Or(buf, Shl(d, n)) \in BitWords
         /\ \A i \in 1..n : Or(buf, Shl(d, n))[i] = buf[i]
         /\ \A i \in (n + 1)..DATA_WIDTH : Or(buf, Shl(d, n))[i] = d[i - n]
<1> USE PackFacts
<1>1. \A i \in 1..DATA_WIDTH : Or(buf, Shl(d, n))[i] = (buf[i] \/ (i > n /\ d[i - n]))
  BY DEF Or, Shl
<1>2. Or(buf, Shl(d, n)) \in BitWords
  BY DEF Or, BitWords
<1>3. ASSUME NEW i \in 1..n PROVE Or(buf, Shl(d, n))[i] = buf[i]
  <2>1. i \in 1..DATA_WIDTH /\ ~(i > n)
    OBVIOUS
  <2>2. buf[i] \in BOOLEAN
    BY <2>1, BitsAre
  <2> QED BY <1>1, <2>1, <2>2
<1>4. ASSUME NEW i \in (n + 1)..DATA_WIDTH PROVE Or(buf, Shl(d, n))[i] = d[i - n]
  <2>1. i \in 1..DATA_WIDTH /\ i > n /\ i - n \in 1..DATA_WIDTH /\ ~(i <= n)
    OBVIOUS
  <2>2. buf[i] \in BOOLEAN /\ d[i - n] \in BOOLEAN /\ ~buf[i]
    BY <2>1, BitsAre
  <2> QED BY <1>1, <2>1, <2>2
<1> QED BY <1>2, <1>3, <1>4

(* What one bit of the rest of a crossing transition is.                   *)
LEMMA LeftBits ==
  ASSUME NEW d \in BitWords, NEW n \in 0..(DATA_WIDTH - 1)
  PROVE  /\ Shr(d, DATA_WIDTH - n) \in BitWords
         /\ \A i \in 1..n : Shr(d, DATA_WIDTH - n)[i] = d[i + (DATA_WIDTH - n)]
         /\ \A i \in 1..DATA_WIDTH : Shr(d, DATA_WIDTH - n)[i]
              => i <= n /\ d[i + (DATA_WIDTH - n)]
<1> USE PackFacts
<1> DEFINE m == DATA_WIDTH - n
<1>1. \A i \in 1..DATA_WIDTH : Shr(d, m)[i] = (i + m <= DATA_WIDTH /\ d[i + m])
  BY DEF Shr
<1>2. \A i \in 1..DATA_WIDTH : i + m <= DATA_WIDTH => d[i + m] \in BOOLEAN
  BY BitsAre
<1>3. Shr(d, m) \in BitWords
  BY DEF Shr, BitWords
<1>4. \A i \in 1..DATA_WIDTH : i + m <= DATA_WIDTH <=> i <= n
  OBVIOUS
<1>5. ASSUME NEW i \in 1..n PROVE Shr(d, m)[i] = d[i + m]
  <2>1. i \in 1..DATA_WIDTH /\ i + m <= DATA_WIDTH
    OBVIOUS
  <2> HIDE DEF m
  <2> QED BY <1>1, <1>2, <2>1
<1>6. ASSUME NEW i \in 1..DATA_WIDTH, Shr(d, m)[i] PROVE i <= n /\ d[i + m]
  <2> HIDE DEF m
  <2> QED BY <1>1, <1>2, <1>4, <1>6
<1> QED BY <1>3, <1>5, <1>6

(* A transition that does not complete a word stays in the buffer.         *)
LEMMA SpelledFits ==
  ASSUME NEW bits \in Seq(BOOLEAN), NEW ws \in Seq(BitWords),
         NEW buf \in BitWords, NEW n \in 0..(DATA_WIDTH - 1),
         NEW d \in BitWords, NEW w \in 0..DATA_WIDTH, n + w < DATA_WIDTH,
         Spelled(bits, ws, buf, n),
         \A i \in 1..DATA_WIDTH : buf[i] => i <= n
  PROVE  Spelled(bits \o SubSeq(d, 1, w), ws, Or(buf, Shl(d, n)), n + w)
<1> DEFINE m == Len(ws)
           all == bits \o SubSeq(d, 1, w)
           new == Or(buf, Shl(d, n))
<1>1. m \in Nat /\ m + 1 \in Nat \ {0} /\ Len(bits) \in Nat
  OBVIOUS
<1>2. /\ Len(all) = Len(bits) + w
      /\ \A j \in 1..Len(bits) : all[j] = bits[j]
      /\ \A j \in 1..w : all[Len(bits) + j] = d[j]
  BY JoinBits
<1>3. /\ \A i \in 1..n : new[i] = buf[i]
      /\ \A i \in (n + 1)..DATA_WIDTH : new[i] = d[i - n]
  BY MergedBits
<1>4. /\ Len(bits) = Before(m + 1) + n
      /\ \A k \in 1..m, i \in 1..DATA_WIDTH : bits[Before(k) + i] = ws[k][i]
      /\ \A i \in 1..n : bits[Before(m + 1) + i] = buf[i]
  BY DEF Spelled
<1> HIDE DEF m, all, new
<1>5. Before(m + 1) \in Nat /\ DATA_WIDTH \in Nat
  BY <1>1, BeforeFacts, PackFacts
<1>6. ASSUME NEW k \in 1..m, NEW i \in 1..DATA_WIDTH
      PROVE  all[Before(k) + i] = ws[k][i]
  <2>1. /\ Before(k) \in Nat /\ Before(k + 1) = Before(k) + DATA_WIDTH
        /\ Before(k + 1) <= Before(m + 1)
    <3>1. k \in Nat \ {0} /\ k + 1 \in Nat \ {0} /\ k + 1 <= m + 1
      BY <1>1
    <3> QED BY ONLY <1>1, <3>1, BeforeFacts
  <2>2. Before(k) + i \in 1..Len(bits)
    BY <1>4, <1>5, <2>1
  <2> QED BY <1>2, <1>4, <2>2
<1>7. ASSUME NEW i \in 1..(n + w)
      PROVE  all[Before(m + 1) + i] = new[i]
  <2>1. CASE i <= n
    <3>1. Before(m + 1) + i \in 1..Len(bits) /\ i \in 1..n
      BY <1>4, <1>5, <2>1
    <3> QED BY <1>2, <1>3, <1>4, <3>1
  <2>2. CASE i > n
    <3>1. /\ i - n \in 1..w /\ i \in (n + 1)..DATA_WIDTH
          /\ Before(m + 1) + i = Len(bits) + (i - n)
      BY <1>4, <1>5, <2>2
    <3> QED BY <1>2, <1>3, <3>1
  <2> QED BY <2>1, <2>2
<1>8. Len(all) = Before(m + 1) + (n + w)
  BY <1>2, <1>4, <1>5
<1>9. /\ Len(all) = Before(Len(ws) + 1) + (n + w)
      /\ \A k \in 1..Len(ws), i \in 1..DATA_WIDTH : all[Before(k) + i] = ws[k][i]
      /\ \A i \in 1..(n + w) : all[Before(Len(ws) + 1) + i] = new[i]
  BY <1>6, <1>7, <1>8 DEF m
<1>10. Spelled(all, ws, new, n + w)
  BY ONLY <1>9 DEF Spelled
<1> QED BY <1>10 DEF all, new

(* A transition that completes a word: the word is the merge, and what is  *)
(* left of the transition begins the next one.                             *)
LEMMA SpelledWord ==
  ASSUME NEW bits \in Seq(BOOLEAN), NEW ws \in Seq(BitWords),
         NEW buf \in BitWords, NEW n \in 0..(DATA_WIDTH - 1),
         NEW d \in BitWords, NEW w \in 0..DATA_WIDTH, n + w >= DATA_WIDTH,
         Spelled(bits, ws, buf, n),
         \A i \in 1..DATA_WIDTH : buf[i] => i <= n,
         NEW left \in BitWords,
         \A i \in 1..(n + w - DATA_WIDTH) : left[i] = d[i + (DATA_WIDTH - n)]
  PROVE  Spelled(bits \o SubSeq(d, 1, w), Append(ws, Or(buf, Shl(d, n))),
                 left, n + w - DATA_WIDTH)
<1> DEFINE m == Len(ws)
           all == bits \o SubSeq(d, 1, w)
           new == Or(buf, Shl(d, n))
           vs == Append(ws, new)
           r == n + w - DATA_WIDTH
<1>1. m \in Nat /\ m + 1 \in Nat \ {0} /\ Len(bits) \in Nat /\ DATA_WIDTH \in Nat
  BY PackFacts
<1>2. /\ Len(all) = Len(bits) + w
      /\ \A j \in 1..Len(bits) : all[j] = bits[j]
      /\ \A j \in 1..w : all[Len(bits) + j] = d[j]
  BY JoinBits
<1>3. /\ new \in BitWords
      /\ \A i \in 1..n : new[i] = buf[i]
      /\ \A i \in (n + 1)..DATA_WIDTH : new[i] = d[i - n]
  BY MergedBits
<1>4. /\ Len(bits) = Before(m + 1) + n
      /\ \A k \in 1..m, i \in 1..DATA_WIDTH : bits[Before(k) + i] = ws[k][i]
      /\ \A i \in 1..n : bits[Before(m + 1) + i] = buf[i]
  BY DEF Spelled
<1> HIDE DEF new
<1>5. Len(vs) = m + 1 /\ vs[m + 1] = new /\ \A k \in 1..m : vs[k] = ws[k]
  BY <1>3, AppendProperties
<1>6. /\ Before(m + 1) \in Nat
      /\ Before(m + 1 + 1) = Before(m + 1) + DATA_WIDTH
  <2> HIDE DEF m
  <2> QED BY <1>1, BeforeFacts
<1>7. r \in Nat /\ r = n + w - DATA_WIDTH
  BY <1>1
<1> HIDE DEF m, all, vs, r
<1>8. ASSUME NEW k \in 1..(m + 1), NEW i \in 1..DATA_WIDTH
      PROVE  all[Before(k) + i] = vs[k][i]
  <2>1. CASE k <= m
    <3>1. /\ Before(k) \in Nat /\ Before(k + 1) = Before(k) + DATA_WIDTH
          /\ Before(k + 1) <= Before(m + 1)
      <4>1. k \in Nat \ {0} /\ k + 1 \in Nat \ {0} /\ k + 1 <= m + 1
        BY <1>1, <2>1
      <4> QED BY ONLY <1>1, <4>1, BeforeFacts
    <3>2. Before(k) + i \in 1..Len(bits) /\ k \in 1..m
      BY <1>1, <1>4, <1>6, <2>1, <3>1
    <3> QED BY <1>2, <1>4, <1>5, <3>2
  <2>2. CASE k = m + 1 /\ i <= n
    <3>1. Before(m + 1) + i \in 1..Len(bits) /\ i \in 1..n
      BY <1>4, <1>6, <2>2
    <3> QED BY <1>2, <1>3, <1>4, <1>5, <2>2, <3>1
  <2>3. CASE k = m + 1 /\ i > n
    <3>1. /\ i - n \in 1..w /\ i \in (n + 1)..DATA_WIDTH
          /\ Before(m + 1) + i = Len(bits) + (i - n)
      BY <1>1, <1>4, <1>6, <2>3
    <3> QED BY <1>2, <1>3, <1>5, <2>3, <3>1
  <2> QED BY <1>1, <2>1, <2>2, <2>3
<1>9. ASSUME NEW i \in 1..r
      PROVE  all[Before(m + 1 + 1) + i] = left[i]
  <2>1. /\ i + (DATA_WIDTH - n) \in 1..w
        /\ Before(m + 1 + 1) + i = Len(bits) + (i + (DATA_WIDTH - n))
    BY <1>1, <1>4, <1>6, <1>7
  <2>2. left[i] = d[i + (DATA_WIDTH - n)]
    BY <1>7
  <2> QED BY <1>2, <2>1, <2>2
<1>10. Len(all) = Before(m + 1 + 1) + r
  BY <1>1, <1>2, <1>4, <1>6, <1>7
<1>11. /\ Len(all) = Before(Len(vs) + 1) + r
       /\ \A k \in 1..Len(vs), i \in 1..DATA_WIDTH : all[Before(k) + i] = vs[k][i]
       /\ \A i \in 1..r : all[Before(Len(vs) + 1) + i] = left[i]
  BY <1>5, <1>8, <1>9, <1>10
<1>12. Spelled(all, vs, left, r)
  BY ONLY <1>11 DEF Spelled
<1> QED BY <1>12 DEF all, vs, new, r

(* The words in the FIFO after an edge, with the pending word if it did    *)
(* not get in, are the complete words before it less the one read.         *)
LEMMA CompleteNext ==
  ASSUME PackInv, FifoInv', FifoEdge
  PROVE  /\ ReadFire => Complete # <<>>
         /\ Complete \in Seq(BitWords) /\ Contents' \in Seq(BitWords)
         /\ Contents' \o (IF wr_en /\ Full THEN <<wr_data>> ELSE <<>>)
              = IF ReadFire THEN Tail(Complete) ELSE Complete
<1>1. FifoInv /\ wr_en \in BOOLEAN /\ wr_data \in BitWords
  BY PackFacts DEF PackInv, FifoInv, FifoTypeOK, PortsOK
<1>2. Contents \in Seq(BitWords) /\ Contents' \in Seq(BitWords)
  BY <1>1, ContentsType, ContentsTypeNext, PackFacts
<1>3. Queue!Edge
  BY <1>1, EdgeRefines
<1>4. ReadFire <=> rd_en /\ Contents # <<>>
  BY <1>1, <1>2, ContentsType, EmptyIsZero, EmptySeq DEF ReadFire
<1>5. Len(Contents) < FIFO_DEPTH <=> ~Full
  <2>1. Len(Contents) = Count /\ Count \in 0..FIFO_DEPTH /\ FIFO_DEPTH \in Nat
    BY <1>1, ContentsType, FifoAssumption DEF FifoInv
  <2> QED BY <1>1, <2>1, FullIsDepth
<1> DEFINE cs == Contents
           rest == IF ReadFire THEN Tail(cs) ELSE cs
           full == Full
           rf == ReadFire
<1>6. Contents' = IF wr_en /\ ~full THEN Append(rest, wr_data) ELSE rest
  BY <1>3, <1>4, <1>5 DEF Queue!Edge, Queue!Enters, Queue!Leaves
<1>7. Complete = cs \o (IF wr_en THEN <<wr_data>> ELSE <<>>)
  BY DEF Complete
<1>8. full \in BOOLEAN /\ rf \in BOOLEAN /\ (rf => cs # <<>>)
  BY <1>4 DEF Full, ReadFire
<1>9. cs \in Seq(BitWords)
  BY <1>2
<1>10. rest = IF rf THEN Tail(cs) ELSE cs
  OBVIOUS
<1> HIDE DEF cs, rest, full, rf
<1>11. Complete \in Seq(BitWords) /\ (cs # <<>> => Complete # <<>>)
  BY <1>1, <1>7, <1>9
<1>12. Contents' \o (IF wr_en /\ full THEN <<wr_data>> ELSE <<>>)
              = IF rf THEN Tail(Complete) ELSE Complete
  <2>1. rest \in Seq(BitWords)
    BY <1>8, <1>9, <1>10
  <2>2. Contents' \o (IF wr_en /\ full THEN <<wr_data>> ELSE <<>>)
          = rest \o (IF wr_en THEN <<wr_data>> ELSE <<>>)
    <3>1. CASE wr_en /\ ~full
      <4>1. Append(rest, wr_data) \o <<>> = rest \o <<wr_data>>
        BY <1>1, <2>1
      <4> QED BY <1>6, <3>1, <4>1
    <3>2. CASE ~(wr_en /\ ~full)
      BY <1>1, <1>6, <1>8, <3>2
    <3> QED BY <3>1, <3>2
  <2>3. CASE rf
    <3>1. Tail(cs \o (IF wr_en THEN <<wr_data>> ELSE <<>>))
            = Tail(cs) \o (IF wr_en THEN <<wr_data>> ELSE <<>>)
      BY <1>1, <1>8, <1>9, <2>3
    <3> QED BY <1>7, <1>10, <2>2, <2>3, <3>1
  <2>4. CASE ~rf
    BY <1>7, <1>10, <2>2, <2>4
  <2> QED BY <2>3, <2>4
<1> QED BY <1>2, <1>8, <1>11, <1>12 DEF full, rf, cs

(* What is accepted and not read after the read of this edge, before the   *)
(* packer adds to it.                                                      *)
LEMMA UnreadSpelled ==
  ASSUME PackInv, FifoInv', FifoEdge
  PROVE  /\ Unread \in Seq(BOOLEAN)
         /\ Spelled(Unread, IF ReadFire THEN Tail(Complete) ELSE Complete,
                    pack_buffer, pack_count)
<1>1. /\ accepted \in Seq(BOOLEAN) /\ pack_buffer \in BitWords
      /\ pack_count \in 0..DATA_WIDTH
      /\ Spelled(accepted, Complete, pack_buffer, pack_count)
  BY PackFacts DEF PackInv, PackTypeOK
<1>2. Complete \in Seq(BitWords) /\ (ReadFire => Complete # <<>>)
  BY CompleteNext
<1>3. CASE ReadFire
  <2>1. Unread = SubSeq(accepted, DATA_WIDTH + 1, Len(accepted))
    BY <1>3 DEF Unread
  <2> QED BY <1>1, <1>2, <1>3, <2>1, SpelledTail
<1>4. CASE ~ReadFire
  BY <1>1, <1>4 DEF Unread
<1> QED BY <1>3, <1>4

(* Every edge preserves the invariant, whichever case of the packing logic *)
(* it takes.                                                               *)
LEMMA PackEdgeInv == ASSUME PackInv, PackEdge PROVE PackInv'
<1> DEFINE ws == IF ReadFire THEN Tail(Complete) ELSE Complete
           buf == pack_buffer
           n == pack_count
           held == wr_en /\ Full
<1>1. /\ FifoInv /\ FifoEdge /\ rd_en' \in BOOLEAN
      /\ wr_en \in BOOLEAN /\ wr_data \in BitWords
      /\ buf \in BitWords /\ n \in 0..(DATA_WIDTH - 1)
      /\ \A i \in 1..DATA_WIDTH : buf[i] => i <= n
  BY PackFacts DEF PackInv, PackTypeOK, FifoInv, FifoTypeOK, PortsOK, PackEdge
<1>2. ASSUME wr_en' \in BOOLEAN, wr_data' \in BitWords
      PROVE  FifoInv' /\ FifoTypeOK'
  <2>1. PortsOK'
    BY <1>1, <1>2, PackFacts DEF PortsOK
  <2>2. FifoInv'
    BY <1>1, <2>1, FifoInvNext
  <2> QED BY <2>2 DEF FifoInv
<1>3. ASSUME FifoInv'
      PROVE  /\ Unread \in Seq(BOOLEAN) /\ Spelled(Unread, ws, buf, n)
             /\ ws \in Seq(BitWords) /\ Contents' \in Seq(BitWords)
             /\ Contents' \o (IF held THEN <<wr_data>> ELSE <<>>) = ws
  <2>1. /\ Complete \in Seq(BitWords) /\ (ReadFire => Complete # <<>>)
        /\ Contents' \in Seq(BitWords)
        /\ Contents' \o (IF held THEN <<wr_data>> ELSE <<>>) = ws
    BY <1>1, <1>3, CompleteNext
  <2>2. ws \in Seq(BitWords)
    BY <2>1
  <2> QED BY <1>1, <1>3, <2>1, <2>2, UnreadSpelled
<1>4. held \in BOOLEAN
  BY <1>1 DEF Full
<1> HIDE DEF ws, held
<1>5. CASE NoTransition /\ accepted' = Unread
  <2>1. /\ wr_en' = held /\ wr_data' = wr_data
        /\ pack_buffer' = buf /\ pack_count' = n
    BY <1>5 DEF NoTransition, held
  <2>2. FifoInv' /\ FifoTypeOK'
    BY <1>1, <1>2, <1>4, <2>1
  <2>3. Complete' = ws
    BY <1>3, <2>1, <2>2 DEF Complete
  <2>4. Spelled(accepted', Complete', pack_buffer', pack_count')
    BY <1>3, <1>5, <2>1, <2>2, <2>3
  <2>5. PackTypeOK'
    BY <1>1, <1>3, <1>5, <2>1, <2>2 DEF PackTypeOK
  <2>6. \A i \in 1..DATA_WIDTH : pack_buffer'[i] => i <= pack_count'
    BY <1>1, <2>1
  <2> QED BY <2>2, <2>4, <2>5, <2>6 DEF PackInv, Spelled, Before
<1>6. ASSUME NEW t \in Transitions, AcceptTrans(t),
             accepted' = Unread \o SubSeq(t.data, 1, t.width)
      PROVE  PackInv'
  <2> DEFINE d == t.data
             w == t.width
             new == Or(buf, Shl(d, n))
  <2>1. /\ d \in BitWords /\ w \in 0..DATA_WIDTH /\ DATA_WIDTH \in Nat
        /\ \A i \in 1..DATA_WIDTH : d[i] => i <= w
    BY PackFacts
  <2>2. ~held /\ Merged(t) = new
    BY <1>6 DEF AcceptTrans, TransReady, held, Merged
  <2>3. /\ new \in BitWords
        /\ \A i \in 1..n : new[i] = buf[i]
        /\ \A i \in (n + 1)..DATA_WIDTH : new[i] = d[i - n]
    BY <1>1, <2>1, MergedBits
  <2>4. accepted' = Unread \o SubSeq(d, 1, w)
    BY <1>6
  <2>5. ASSUME FifoInv'
        PROVE  /\ Contents' = ws /\ ws \in Seq(BitWords)
               /\ accepted' \in Seq(BOOLEAN)
    <3>1. Contents' \o <<>> = ws /\ Contents' \in Seq(BitWords)
      BY <1>3, <2>2, <2>5
    <3>2. accepted' \in Seq(BOOLEAN)
      <4>1. Unread \in Seq(BOOLEAN)
        BY <1>3, <2>5
      <4> HIDE DEF d, w
      <4> QED BY <2>1, <2>4, <4>1, JoinBits
    <3> QED BY <3>1, <3>2
  <2> HIDE DEF d, w, new
  <2>6. CASE Fits(t)
    <3>1. /\ n + w < DATA_WIDTH
          /\ pack_buffer' = new /\ pack_count' = n + w
          /\ wr_en' = held /\ wr_data' = wr_data
      BY <2>2, <2>6 DEF Fits, held, w
    <3>2. FifoInv' /\ FifoTypeOK'
      BY <1>1, <1>2, <1>4, <3>1
    <3>3. Complete' = ws
      BY <2>2, <2>5, <3>1, <3>2 DEF Complete
    <3>4. Spelled(accepted', Complete', pack_buffer', pack_count')
      <4>1. Spelled(Unread \o SubSeq(d, 1, w), ws, new, n + w)
        <5> HIDE DEF buf, n
        <5> QED BY <1>1, <1>3, <2>1, <2>5, <3>1, <3>2, SpelledFits DEF new
      <4> QED BY <2>4, <3>1, <3>3, <4>1
    <3>5. PackTypeOK'
      BY <1>1, <2>1, <2>3, <2>5, <3>1, <3>2 DEF PackTypeOK
    <3>6. ASSUME NEW i \in 1..DATA_WIDTH, new[i] PROVE i <= n + w
      <4>1. CASE i <= n
        BY <1>1, <2>1, <4>1
      <4>2. CASE i > n
        <5>1. i \in (n + 1)..DATA_WIDTH /\ i - n \in 1..DATA_WIDTH
          BY <1>1, <2>1, <4>2
        <5>2. i - n <= w
          BY <2>1, <2>3, <3>6, <5>1
        <5> QED BY <1>1, <2>1, <5>1, <5>2
      <4> QED BY <1>1, <4>1, <4>2
    <3>7. \A i \in 1..DATA_WIDTH : pack_buffer'[i] => i <= pack_count'
      BY <3>1, <3>6
    <3> QED BY <3>2, <3>4, <3>5, <3>7 DEF PackInv, Spelled, Before
  <2>7. ASSUME NEW left \in BitWords, n + w >= DATA_WIDTH,
               \A i \in 1..(n + w - DATA_WIDTH) : left[i] = d[i + (DATA_WIDTH - n)],
               \A i \in 1..DATA_WIDTH : left[i] => i <= n + w - DATA_WIDTH,
               wr_data' = new, wr_en' = TRUE,
               pack_buffer' = left, pack_count' = n + w - DATA_WIDTH
        PROVE  PackInv'
    <3>1. FifoInv' /\ FifoTypeOK'
      BY <1>2, <2>3, <2>7
    <3>2. Complete' = Append(ws, new)
      <4>1. Complete' = Contents' \o <<new>>
        BY <2>7 DEF Complete
      <4> QED BY <2>3, <2>5, <3>1, <4>1
    <3>3. Spelled(accepted', Complete', pack_buffer', pack_count')
      <4>1. Spelled(Unread \o SubSeq(d, 1, w), Append(ws, new), left, n + w - DATA_WIDTH)
        <5> HIDE DEF buf, n
        <5> QED BY <1>1, <1>3, <2>1, <2>5, <2>7, <3>1, SpelledWord DEF new
      <4> QED BY <2>4, <2>7, <3>2, <4>1
    <3>4. PackTypeOK'
      BY <1>1, <2>1, <2>5, <2>7, <3>1 DEF PackTypeOK
    <3>5. \A i \in 1..DATA_WIDTH : pack_buffer'[i] => i <= pack_count'
      BY <2>7
    <3> QED BY <3>1, <3>3, <3>4, <3>5 DEF PackInv, Spelled, Before
  <2>8. CASE Fills(t)
    <3>1. /\ n + w = DATA_WIDTH /\ wr_data' = new /\ wr_en' = TRUE
          /\ pack_buffer' = Zero /\ pack_count' = 0
      BY <2>2, <2>8 DEF Fills, w
    <3>2. /\ n + w - DATA_WIDTH = 0 /\ n + w >= DATA_WIDTH
          /\ Zero \in BitWords /\ \A i \in 1..DATA_WIDTH : ~Zero[i]
      BY <1>1, <2>1, <3>1, PackFacts
    <3> QED BY <2>7, <3>1, <3>2
  <2>9. CASE Crosses(t)
    <3> DEFINE left == Shr(d, DATA_WIDTH - n)
               r == n + w - DATA_WIDTH
    <3>1. /\ n + w > DATA_WIDTH /\ wr_data' = new /\ wr_en' = TRUE
          /\ pack_buffer' = left /\ pack_count' = r
      BY <2>2, <2>9 DEF Crosses, Left, w, d
    <3>2. /\ left \in BitWords
          /\ \A i \in 1..n : left[i] = d[i + (DATA_WIDTH - n)]
          /\ \A i \in 1..DATA_WIDTH : left[i] => i <= n /\ d[i + (DATA_WIDTH - n)]
      BY <1>1, <2>1, LeftBits
    <3>3. r \in 0..n /\ r = n + w - DATA_WIDTH
      BY <1>1, <2>1, <3>1
    <3> HIDE DEF left, r
    <3>4. \A i \in 1..(n + w - DATA_WIDTH) : left[i] = d[i + (DATA_WIDTH - n)]
      BY <1>1, <2>1, <3>2, <3>3
    <3>5. ASSUME NEW i \in 1..DATA_WIDTH, left[i] PROVE i <= n + w - DATA_WIDTH
      <4>1. i <= n /\ d[i + (DATA_WIDTH - n)]
        BY <3>2, <3>5
      <4>2. i + (DATA_WIDTH - n) \in 1..DATA_WIDTH
        BY <1>1, <2>1, <4>1
      <4>3. i + (DATA_WIDTH - n) <= w
        BY <2>1, <4>1, <4>2
      <4> QED BY <1>1, <2>1, <4>3
    <3>6. n + w >= DATA_WIDTH
      BY <1>1, <2>1, <3>1
    <3> QED BY <2>7, <3>1, <3>2, <3>3, <3>4, <3>5, <3>6
  <2> QED BY <1>6, <2>6, <2>8, <2>9 DEF AcceptTrans
<1> QED BY <1>5, <1>6 DEF PackEdge

(* Every step of packer and FIFO preserves the invariant.                  *)
LEMMA PackInvNext == PackInv /\ [PackNext]_packVars => PackInv'
<1> SUFFICES ASSUME PackInv, [PackNext]_packVars PROVE PackInv'
  OBVIOUS
<1>1. CASE PackEdge
  BY <1>1, PackEdgeInv
<1>2. CASE PackReset
  <2>1. /\ FifoReset /\ wr_en' = FALSE /\ wr_data' = Zero /\ rd_en' = FALSE
        /\ pack_buffer' = Zero /\ pack_count' = 0 /\ accepted' = <<>>
    BY <1>2 DEF PackReset
  <2>2. FifoInv /\ PortsOK'
    BY <2>1, PackFacts DEF PortsOK, PackInv
  <2>3. FifoInv' /\ FifoTypeOK'
    <3>1. FifoInv'
      BY <2>1, <2>2, FifoInvNext
    <3> QED BY <3>1 DEF FifoInv
  <2>4. Contents' = <<>>
    <3>1. Count' = 0
      BY <2>1 DEF FifoReset, Count
    <3> QED BY <2>3, <3>1, ContentsTypeNext, EmptySeq
  <2>5. Complete' = <<>>
    BY <2>1, <2>4 DEF Complete
  <2>6. PackTypeOK'
    BY <2>1, <2>3, PackFacts DEF PackTypeOK
  <2>7. Spelled(accepted', Complete', pack_buffer', pack_count')
    BY <2>1, <2>5, BeforeFacts DEF Spelled
  <2>8. \A i \in 1..DATA_WIDTH : pack_buffer'[i] => i <= pack_count'
    BY <2>1, PackFacts
  <2> QED BY <2>3, <2>6, <2>7, <2>8 DEF PackInv, Spelled, Before
<1>3. CASE UNCHANGED packVars
  <2>1. UNCHANGED <<mem, wr_ptr, rd_ptr, rd_data, wr_en, wr_data, rd_en,
                    pack_buffer, pack_count, accepted>>
    BY <1>3 DEF packVars, packerVars, fifoVars
  <2>2. FifoInv' /\ FifoTypeOK'
    <3>1. FifoInv'
      BY <2>1, FifoInvNext DEF PackInv, fifoVars, ports
    <3> QED BY <3>1 DEF FifoInv
  <2>3. Complete' = Complete
    BY <2>1 DEF Complete, Contents, Count, Slot
  <2>4. PackTypeOK'
    BY <2>1, <2>2 DEF PackInv, PackTypeOK
  <2>5. Spelled(accepted', Complete', pack_buffer', pack_count')
    BY <2>1, <2>3 DEF PackInv
  <2>6. \A i \in 1..DATA_WIDTH : pack_buffer'[i] => i <= pack_count'
    BY <2>1 DEF PackInv
  <2> QED BY <2>2, <2>4, <2>5, <2>6 DEF PackInv, Spelled, Before
<1> QED BY <1>1, <1>2, <1>3 DEF PackNext

(* At reset nothing is accepted and nothing is held.                       *)
LEMMA PackInvInit == PackInit => PackInv
<1> SUFFICES ASSUME PackInit PROVE PackInv
  OBVIOUS
<1>1. /\ FifoInit /\ wr_en = FALSE /\ wr_data = Zero /\ rd_en = FALSE
      /\ pack_buffer = Zero /\ pack_count = 0 /\ accepted = <<>>
  BY DEF PackInit
<1>2. PortsOK
  BY <1>1, PackFacts DEF PortsOK
<1>3. FifoInv /\ FifoTypeOK /\ Contents = <<>>
  BY <1>1, <1>2, FifoInvInit DEF FifoInv
<1>4. Complete = <<>>
  BY <1>1, <1>3 DEF Complete
<1>5. PackTypeOK
  BY <1>1, <1>3, PackFacts DEF PackTypeOK
<1>6. Spelled(accepted, Complete, pack_buffer, pack_count)
  BY <1>1, <1>4, BeforeFacts DEF Spelled
<1> QED BY <1>1, <1>3, <1>5, <1>6, PackFacts DEF PackInv

(* The registers of the packer keep their types: pack_count stays below    *)
(* the width of a word.                                                    *)
THEOREM PackTypeCorrect == PackSpec => []PackTypeOK
<1>1. PackInv => PackTypeOK
  BY DEF PackInv
<1> QED BY <1>1, PackInvInit, PackInvNext, PTL DEF PackSpec

(* Packer and FIFO together lose, repeat, reorder and corrupt no bit, for  *)
(* every width of a word, every depth and every sequence of transitions,   *)
(* reads and resets.                                                       *)
THEOREM BitsCorrect == PackSpec => []BitsPreserved
<1>1. PackInv => BitsPreserved
  BY DEF PackInv, Spelled, BitsPreserved
<1> QED BY <1>1, PackInvInit, PackInvNext, PTL DEF PackSpec

(* Behind the packer, too, the FIFO implements the queue.                  *)
THEOREM PackedRefinement == PackSpec => QueueSpec
<1>1. PackInit => FifoInit /\ PortsOK
  <2> SUFFICES ASSUME PackInit PROVE FifoInit /\ PortsOK
    OBVIOUS
  <2> QED BY PackFacts DEF PackInit, PortsOK
<1>2. PackInv /\ PackInv' /\ [PackNext]_packVars
        => [(FifoEdge \/ FifoReset) /\ PortsOK']_<<fifoVars, ports>>
  <2> SUFFICES ASSUME PackInv, PackInv', [PackNext]_packVars
               PROVE  [(FifoEdge \/ FifoReset) /\ PortsOK']_<<fifoVars, ports>>
    OBVIOUS
  <2>1. PortsOK'
    BY DEF PackInv, PackTypeOK, FifoTypeOK
  <2>2. CASE PackEdge
    BY <2>1, <2>2 DEF PackEdge
  <2>3. CASE PackReset
    BY <2>1, <2>3 DEF PackReset
  <2>4. CASE UNCHANGED packVars
    BY <2>4 DEF packVars, packerVars, fifoVars, ports
  <2> QED BY <2>2, <2>3, <2>4 DEF PackNext
<1> QED BY <1>1, <1>2, PackInvInit, PackInvNext, FifoRefinement, PTL DEF PackSpec, FifoSpec
-----------------------------------------------------------------------------
(***************************************************************************)
(* The skid buffer                                                         *)
(***************************************************************************)
(* The inductive invariant: what was accepted and not delivered is exactly *)
(* what the register holds, which then is a word that was passed.          *)
SkidInv ==
  /\ SkidTypeOK
  /\ ~by_pass => data_reg \in Words
  /\ unread = IF by_pass THEN <<>> ELSE <<data_reg>>

(* Every clock edge preserves the inductive invariant.                     *)
LEMMA StepSkidInv == SkidInv /\ [SkidNext]_skidVars => SkidInv'
<1> SUFFICES ASSUME SkidInv, [SkidNext]_skidVars PROVE SkidInv'
  OBVIOUS
<1>0. SkidNext => /\ i_data' \in Words /\ i_valid' \in BOOLEAN /\ i_ready' \in BOOLEAN
                  /\ data_reg' \in Words \cup {ResetWord} /\ by_pass' \in BOOLEAN
  BY DEF SkidInv, SkidTypeOK, SkidNext, Bypass, Skid, Stores
<1>1. CASE SkidNext /\ by_pass
  <2>1. unread = <<>> /\ Owed = IF i_valid THEN <<i_data>> ELSE <<>>
    BY <1>1 DEF SkidInv, SkidTypeOK, Owed, Incoming, OReady
  <2>2. /\ unread' = IF i_valid /\ i_ready /\ Owed # <<>> THEN Tail(Owed) ELSE Owed
        /\ by_pass' = ~(i_valid /\ ~i_ready)
        /\ data_reg' = IF i_valid /\ ~i_ready THEN i_data ELSE data_reg
    BY <1>1 DEF SkidNext, Bypass, Skid, Stores, Taken, OValid
  <2>3. i_data \in Words
    BY DEF SkidInv, SkidTypeOK
  <2>4. CASE i_valid /\ i_ready
    <3>1. unread' = <<>> /\ by_pass'
      <4>1. Owed = <<i_data>> /\ Owed # <<>> /\ Tail(<<i_data>>) = <<>>
        BY <2>1, <2>4
      <4>2. unread' = Tail(Owed) /\ by_pass'
        BY <2>2, <2>4, <4>1
      <4> QED BY <4>1, <4>2
    <3> QED BY <1>0, <1>1, <3>1 DEF SkidInv, SkidTypeOK
  <2>5. CASE i_valid /\ ~i_ready
    <3>1. unread' = <<i_data>> /\ ~by_pass' /\ data_reg' = i_data
      BY <2>1, <2>2, <2>5
    <3> QED BY <1>0, <1>1, <2>3, <3>1 DEF SkidInv, SkidTypeOK
  <2>6. CASE ~i_valid
    <3>1. unread' = <<>> /\ by_pass'
      BY <2>1, <2>2, <2>6
    <3> QED BY <1>0, <1>1, <3>1 DEF SkidInv, SkidTypeOK
  <2> QED BY <2>4, <2>5, <2>6
<1>2. CASE SkidNext /\ ~by_pass
  <2>1. Owed = <<data_reg>> /\ data_reg \in Words
    BY <1>2 DEF SkidInv, SkidTypeOK, Owed, Incoming, OReady
  <2>2. /\ unread' = IF i_ready /\ Owed # <<>> THEN Tail(Owed) ELSE Owed
        /\ by_pass' = i_ready /\ data_reg' = data_reg
    BY <1>2 DEF SkidNext, Bypass, Skid, Taken, OValid
  <2>3. CASE i_ready
    <3>1. unread' = <<>> /\ by_pass'
      BY <2>1, <2>2, <2>3
    <3> QED BY <1>0, <1>2, <3>1 DEF SkidInv, SkidTypeOK
  <2>4. CASE ~i_ready
    <3>1. unread' = <<data_reg>> /\ ~by_pass' /\ data_reg' = data_reg
      BY <2>1, <2>2, <2>4
    <3> QED BY <1>0, <1>2, <2>1, <3>1 DEF SkidInv, SkidTypeOK
  <2> QED BY <2>3, <2>4
<1>3. CASE UNCHANGED skidVars
  BY <1>3 DEF SkidInv, SkidTypeOK, skidVars, skidInputs
<1> QED BY <1>1, <1>2, <1>3

(* Reset establishes it.                                                   *)
LEMMA InitSkidInv == SkidInit => SkidInv
BY DEF SkidInit, SkidInv, SkidTypeOK

(* It implies what the output must show.                                   *)
LEMMA SkidInvOffers == SkidInv => OldestOffered
BY DEF SkidInv, SkidTypeOK, OldestOffered, OValid, OData, Owed, Incoming, OReady

(* The output always shows the oldest undelivered word, for every set of   *)
(* words and every behaviour of producer and consumer.                     *)
THEOREM OutputCorrect == SkidSpec => []OldestOffered
BY InitSkidInv, StepSkidInv, SkidInvOffers, PTL DEF SkidSpec

(* An offered word is held until it is taken.                              *)
THEOREM HeldCorrect == SkidSpec => OutputHeld
<1>1. SkidInv /\ [SkidNext]_skidVars => [OValid /\ ~i_ready => OValid' /\ OData' = OData]_skidVars
  BY DEF SkidInv, SkidTypeOK, SkidNext, Bypass, Skid, Stores, OValid, OData
<1> QED BY <1>1, InitSkidInv, StepSkidInv, PTL DEF SkidSpec, OutputHeld
-----------------------------------------------------------------------------
(***************************************************************************)
(* The interleaved weighted round-robin arbiter                            *)
(***************************************************************************)
(* The rounds of the frame that are over and in which watch had a turn,    *)
(* and its turn in the current one.                                        *)
TurnsOver == IF weight[watch] < round - 1 THEN weight[watch] ELSE round - 1
TurnNow == IF watch \in served THEN 1 ELSE 0

(* Who was served in this round was entitled to it.                        *)
ServedEntitled == \A i \in served : weight[i] >= round

(* watch got no more grants than it had turns, and one for each if it      *)
(* asked throughout.                                                       *)
TurnsTaken ==
  /\ got <= TurnsOver + TurnNow
  /\ steady => watch \in wrr_req /\ got = TurnsOver + TurnNow

(* The others served in this round.                                        *)
OthersServed == Cardinality(served \ {watch})

(* A round without a turn for watch takes N cycles at most: N - 1 grants   *)
(* to others and its end.  In a round with one, only the others' grants    *)
(* come before it.                                                         *)
HasTurn == watch \notin served /\ weight[watch] >= round
RoundsWaited == IF HasTurn THEN N * MAX_WEIGHT ELSE N * (round - 1)
WaitCounted == wait <= RoundsWaited + OthersServed

IInv == IwrrTypeOK /\ ServedEntitled /\ TurnsTaken /\ WaitCounted
-----------------------------------------------------------------------------
(* Weights are naturals.                                                   *)
LEMMA WeightNat == IwrrTypeOK => \A i \in Requesters : weight[i] \in Nat
BY IwrrAssumption DEF IwrrTypeOK

(* The priority encoder grants one requester at most.                      *)
LEMMA OneGranted ==
  ASSUME IwrrTypeOK, NEW i \in Requesters, NEW j \in Requesters, Granted(i), Granted(j)
  PROVE  i = j
<1>1. Rank(i) <= Rank(j) /\ Rank(j) <= Rank(i)
  BY DEF Granted
<1>2. i \in 0..(N - 1) /\ j \in 0..(N - 1) /\ ptr \in 0..(N - 1) /\ N \in Nat
  BY IwrrAssumption DEF IwrrTypeOK, Requesters
<1> QED BY <1>1, <1>2 DEF Rank

(* At most N - 1 others are served in a round, and another one adds one.   *)
LEMMA OthersCount ==
  ASSUME NEW w \in Requesters, NEW S \in SUBSET Requesters
  PROVE  /\ Cardinality(S \ {w}) \in 0..(N - 1)
         /\ \A i \in Requesters \ (S \cup {w}) :
              Cardinality((S \cup {i}) \ {w}) = Cardinality(S \ {w}) + 1
<1>0. N \in Nat /\ N >= 1
  BY IwrrAssumption
<1>1. IsFiniteSet(Requesters) /\ Cardinality(Requesters) = N
  <2>1. IsFiniteSet(0..(N - 1)) /\ Cardinality(0..(N - 1)) = IF 0 > N - 1 THEN 0 ELSE (N - 1) - 0 + 1
    BY <1>0, FS_Interval
  <2> QED BY <1>0, <2>1 DEF Requesters
<1>2. IsFiniteSet(Requesters \ {w}) /\ Cardinality(Requesters \ {w}) = N - 1
  BY <1>1, FS_RemoveElement
<1>3. S \ {w} \subseteq Requesters \ {w}
  OBVIOUS
<1>4. IsFiniteSet(S \ {w}) /\ Cardinality(S \ {w}) <= N - 1
  BY <1>2, <1>3, FS_Subset
<1>5. Cardinality(S \ {w}) \in Nat
  BY <1>4, FS_CardinalityType
<1>6. ASSUME NEW i \in Requesters \ (S \cup {w})
      PROVE  Cardinality((S \cup {i}) \ {w}) = Cardinality(S \ {w}) + 1
  <2>1. (S \cup {i}) \ {w} = (S \ {w}) \cup {i} /\ i \notin S \ {w}
    OBVIOUS
  <2> QED BY <1>4, <2>1, FS_AddElement
<1> QED BY <1>0, <1>4, <1>5, <1>6

(* A round costs N cycles, and no round of the frame begins later than     *)
(* after MAX_WEIGHT of them.                                               *)
LEMMA RoundCost ==
  ASSUME NEW r \in Rounds
  PROVE  /\ N * (r - 1) \in Nat /\ N * r \in Nat /\ N * MAX_WEIGHT \in Nat
         /\ N * r = N * (r - 1) + N
         /\ N * r <= N * MAX_WEIGHT
<1>1. N \in Nat /\ MAX_WEIGHT \in Nat /\ r \in 1..MAX_WEIGHT
  BY IwrrAssumption DEF Rounds
<1>2. PICK left \in Nat : MAX_WEIGHT = r + left
  <2>1. MAX_WEIGHT - r \in Nat /\ MAX_WEIGHT = r + (MAX_WEIGHT - r)
    BY <1>1
  <2> QED BY <2>1
<1>3. N * (r + left) = N * r + N * left /\ N * left \in Nat
  BY <1>1, <1>2
<1>4. N * r = N * (r - 1) + N
  BY <1>1
<1>5. N * (r - 1) \in Nat /\ N * r \in Nat /\ N * MAX_WEIGHT \in Nat
  BY <1>1
<1> QED BY <1>2, <1>3, <1>4, <1>5

(* A sum of naturals is no less than its parts.                            *)
LEMMA LeqSum == \A x, y \in Nat : 0 <= x + y /\ \A z \in Nat : z <= x => z <= x + y
OBVIOUS

(* What is counted is a natural number, now and after the edge.            *)
LEMMA CountsNat ==
  /\ IwrrTypeOK => RoundsWaited \in Nat /\ OthersServed \in 0..(N - 1)
  /\ IwrrTypeOK' => RoundsWaited' \in Nat /\ OthersServed' \in 0..(N - 1)
BY RoundCost, OthersCount DEF IwrrTypeOK, RoundsWaited, OthersServed
-----------------------------------------------------------------------------
(* Reset establishes the inductive invariant.                              *)
LEMMA InitIInv == IwrrInit => IInv
<1> SUFFICES ASSUME IwrrInit PROVE IInv
  OBVIOUS
<1>1. IwrrTypeOK
  BY IwrrAssumption DEF IwrrInit, IwrrTypeOK, Requesters, Rounds
<1>2. weight[watch] \in Nat
  BY <1>1, WeightNat DEF IwrrInit
<1>3. TurnsOver = 0 /\ TurnNow = 0
  BY <1>2 DEF IwrrInit, TurnsOver, TurnNow
<1>4. ServedEntitled /\ TurnsTaken
  <2>1. got = 0 /\ served = {}
    BY DEF IwrrInit
  <2>2. steady => watch \in wrr_req
    BY DEF IwrrInit
  <2> QED BY <1>3, <2>1, <2>2 DEF ServedEntitled, TurnsTaken
<1>5. WaitCounted
  BY <1>1, CountsNat, IwrrAssumption DEF IwrrInit, WaitCounted
<1> QED BY <1>1, <1>4, <1>5 DEF IInv

(* Every clock edge keeps the types.                                       *)
LEMMA StepTypeOK == IwrrTypeOK /\ IwrrNext => IwrrTypeOK'
<1> SUFFICES ASSUME IwrrTypeOK, IwrrNext PROVE IwrrTypeOK'
  OBVIOUS
<1>1. N \in Nat /\ N >= 1 /\ MAX_WEIGHT \in Nat /\ MAX_WEIGHT >= 1
  BY IwrrAssumption
<1>2. served' \subseteq Requesters /\ ptr' \in Requesters /\ round' \in Rounds
  <2>1. CASE EndRound
    BY <1>1, <2>1 DEF EndRound, ServedAtRoundEnd, NextRound, IwrrTypeOK, Requesters, Rounds
  <2>2. ASSUME NEW i \in Requesters, Grant(i)
        PROVE  served' \subseteq Requesters /\ ptr' \in Requesters /\ round' \in Rounds
    BY <1>1, <2>2 DEF Grant, IwrrTypeOK, Requesters, Rounds
  <2> QED BY <2>1, <2>2 DEF IwrrNext
<1>3. weight' \in Weights /\ watch' \in Requesters /\ wrr_req' \subseteq Requesters
  BY DEF IwrrNext, Observe, IwrrTypeOK
<1>4. wait' \in Nat /\ got' \in Nat
  BY DEF IwrrNext, Observe, IwrrTypeOK
<1>5. steady' \in BOOLEAN
  <2>1. steady' = IF FrameEnds THEN watch \in wrr_req' ELSE steady /\ watch \in wrr_req'
    BY DEF IwrrNext, Observe
  <2>2. CASE FrameEnds
    <3>1. PICK b \in BOOLEAN : b <=> watch \in wrr_req'
      OBVIOUS
    <3> QED BY <2>1, <2>2, <3>1
  <2>3. CASE ~FrameEnds
    BY <2>1, <2>3
  <2> QED BY <2>2, <2>3
<1> QED BY <1>2, <1>3, <1>4, <1>5 DEF IwrrTypeOK

(* A grant preserves what is counted.                                      *)
LEMMA StepGrant ==
  ASSUME IInv, IwrrNext, IwrrTypeOK', NEW i \in Requesters, Grant(i)
  PROVE  ServedEntitled' /\ TurnsTaken' /\ WaitCounted'
<1>1. /\ IwrrTypeOK /\ Granted(i) /\ Eligible(i) /\ ~FrameEnds
      /\ served' = served \cup {i} /\ round' = round
      /\ weight' = weight /\ watch' = watch
  BY DEF IInv, Grant, Granted, NoGrant, FrameEnds, IwrrNext, Observe
<1>2. /\ i \notin served /\ weight[i] >= round /\ i \in wrr_req
  BY <1>1 DEF Eligible
<1>3. Granted(watch) <=> watch = i
  BY <1>1, OneGranted DEF IwrrTypeOK
<1>4. weight[watch] \in Nat /\ round \in Nat \ {0} /\ got \in Nat /\ wait \in Nat
  BY <1>1, WeightNat, IwrrAssumption DEF IwrrTypeOK, Rounds
<1>5. ServedEntitled'
  BY <1>1, <1>2 DEF ServedEntitled, IInv
<1>6. TurnsOver' = TurnsOver /\ TurnsOver \in Nat
  BY <1>1, <1>4 DEF TurnsOver
<1>7. got' = (IF watch = i THEN got + 1 ELSE got) /\ (steady' => steady /\ watch \in wrr_req')
  BY <1>1, <1>3 DEF IwrrNext, Observe
<1>8. TurnNow' = (IF watch = i THEN TurnNow + 1 ELSE TurnNow) /\ TurnNow \in Nat
  BY <1>1, <1>2 DEF TurnNow
<1>9. TurnsTaken'
  <2>1. got <= TurnsOver + TurnNow /\ (steady => got = TurnsOver + TurnNow)
    BY DEF IInv, TurnsTaken
  <2>2. got' <= TurnsOver' + TurnNow'
    BY <1>4, <1>6, <1>7, <1>8, <2>1
  <2>3. steady' => watch' \in wrr_req' /\ got' = TurnsOver' + TurnNow'
    BY <1>1, <1>4, <1>6, <1>7, <1>8, <2>1
  <2> QED BY <2>2, <2>3 DEF TurnsTaken
<1>10. WaitCounted'
  <2>1. /\ OthersServed \in Nat /\ OthersServed' \in Nat
        /\ RoundsWaited \in Nat /\ RoundsWaited' \in Nat
    BY <1>1, CountsNat, IwrrAssumption
  <2>2. CASE watch = i
    <3>1. wait' = 0
      BY <1>1, <2>2 DEF IwrrNext, Observe, Waits
    <3> QED BY <2>1, <3>1, LeqSum, Zenon DEF WaitCounted
  <2>3. CASE watch # i
    <3>1. wait' <= wait + 1
      BY <1>4 DEF IwrrNext, Observe
    <3>2. RoundsWaited' = RoundsWaited
      BY <1>1, <2>3 DEF RoundsWaited, HasTurn
    <3>3. OthersServed' = OthersServed + 1
      BY <1>1, <1>2, <2>3, OthersCount DEF OthersServed, IwrrTypeOK
    <3> QED BY <1>4, <2>1, <3>1, <3>2, <3>3 DEF WaitCounted, IInv, IwrrTypeOK
  <2> QED BY <2>2, <2>3
<1> QED BY <1>5, <1>9, <1>10

(* So does the end of a round.                                             *)
LEMMA StepEndRound ==
  ASSUME IInv, IwrrNext, IwrrTypeOK', EndRound
  PROVE  ServedEntitled' /\ TurnsTaken' /\ WaitCounted'
<1>1. /\ IwrrTypeOK /\ NoGrant /\ served' = {} /\ round' = NextRound
      /\ weight' = weight /\ watch' = watch /\ watch \in Requesters
  BY DEF IInv, IwrrTypeOK, EndRound, ServedAtRoundEnd, IwrrNext, Observe
<1>2. /\ weight[watch] \in Nat /\ round \in Nat \ {0} /\ round <= MAX_WEIGHT
      /\ got \in Nat /\ wait \in Nat /\ MAX_WEIGHT \in Nat /\ N \in Nat \ {0}
  BY <1>1, WeightNat, IwrrAssumption DEF IwrrTypeOK, Rounds
<1>3. ~Granted(watch) /\ (watch \in wrr_req => watch \in served \/ weight[watch] < round)
  BY <1>1, <1>2 DEF NoGrant, Eligible, Granted
<1>4. ServedEntitled'
  BY <1>1 DEF ServedEntitled
<1>5. watch \in served => weight[watch] >= round
  BY DEF IInv, ServedEntitled
<1>6. TurnNow' = 0 /\ TurnNow \in {0, 1} /\ (TurnNow = 1 <=> watch \in served)
  BY <1>1 DEF TurnNow
<1>7. TurnsTaken'
  <2>0. /\ got <= TurnsOver + TurnNow
        /\ steady => watch \in wrr_req /\ got = TurnsOver + TurnNow
    BY DEF IInv, TurnsTaken
  <2>1. CASE round = MAX_WEIGHT
    <3>1. got' = 0 /\ steady' = (watch \in wrr_req') /\ round' = 1
      BY <1>1, <2>1 DEF IwrrNext, Observe, FrameEnds, NextRound
    <3>2. TurnsOver' = 0
      BY <1>1, <1>2, <3>1 DEF TurnsOver
    <3>3. steady' => watch' \in wrr_req'
      BY <1>1, <3>1
    <3> QED BY <1>6, <3>1, <3>2, <3>3 DEF TurnsTaken
  <2>2. CASE round # MAX_WEIGHT
    <3>1. got' = got /\ steady' = (steady /\ watch \in wrr_req') /\ round' = round + 1
      BY <1>1, <1>3, <2>2 DEF IwrrNext, Observe, FrameEnds, NextRound
    <3>2. TurnsOver' = IF weight[watch] < round THEN weight[watch] ELSE round
      BY <1>1, <1>2, <3>1 DEF TurnsOver
    <3>3. TurnsOver = IF weight[watch] < round - 1 THEN weight[watch] ELSE round - 1
      BY DEF TurnsOver
    <3>4. got' <= TurnsOver' + TurnNow'
      BY <1>2, <1>5, <1>6, <2>0, <3>1, <3>2, <3>3
    <3>5. ASSUME steady' PROVE watch' \in wrr_req' /\ got' = TurnsOver' + TurnNow'
      <4>1. steady /\ watch \in wrr_req /\ watch' \in wrr_req'
        BY <1>1, <2>0, <3>1, <3>5
      <4>2. got = TurnsOver + TurnNow /\ (watch \in served \/ weight[watch] < round)
        BY <1>3, <2>0, <4>1
      <4> QED BY <1>2, <1>5, <1>6, <3>1, <3>2, <3>3, <4>1, <4>2
    <3> QED BY <3>4, <3>5 DEF TurnsTaken
  <2> QED BY <2>1, <2>2
<1>8. WaitCounted'
  <2>1. /\ OthersServed \in 0..(N - 1) /\ OthersServed' \in Nat
        /\ RoundsWaited \in Nat /\ RoundsWaited' \in Nat
    BY <1>1, <1>2, CountsNat
  <2>2. CASE ~Waits
    <3>1. wait' = 0
      BY <2>2 DEF IwrrNext, Observe
    <3> QED BY <2>1, <3>1, LeqSum, Zenon DEF WaitCounted
  <2>3. CASE Waits
    <3>1. wait' = wait + 1 /\ ~HasTurn /\ weight[watch] >= 1
      BY <1>2, <1>3, <2>3 DEF IwrrNext, Observe, Waits, HasTurn
    <3>2. wait' <= N * round
      BY <1>1, <1>2, <2>1, <3>1, RoundCost DEF IInv, WaitCounted, RoundsWaited
    <3>3. RoundsWaited' >= N * round
      <4>1. CASE round = MAX_WEIGHT
        <5>1. HasTurn'
          BY <1>1, <1>2, <3>1, <4>1 DEF HasTurn, NextRound
        <5>2. RoundsWaited' = N * MAX_WEIGHT
          BY <5>1 DEF RoundsWaited
        <5> QED BY <1>1, <4>1, <5>2, RoundCost DEF IwrrTypeOK
      <4>2. CASE round # MAX_WEIGHT
        <5>1. round' = round + 1 /\ N * (round' - 1) = N * round
          BY <1>1, <1>2, <4>2 DEF NextRound
        <5>2. RoundsWaited' = N * MAX_WEIGHT \/ RoundsWaited' = N * round
          BY <5>1 DEF RoundsWaited
        <5> QED BY <1>1, <5>2, RoundCost DEF IwrrTypeOK
      <4> QED BY <4>1, <4>2
    <3>4. N * round \in Nat /\ wait' \in Nat
      BY <1>1, <1>2, <3>1, RoundCost DEF IwrrTypeOK
    <3>5. wait' <= RoundsWaited'
      BY <2>1, <3>2, <3>3, <3>4
    <3> QED BY <2>1, <3>4, <3>5, LeqSum, Zenon DEF WaitCounted
  <2> QED BY <2>2, <2>3
<1> QED BY <1>4, <1>7, <1>8

(* Every clock edge preserves the inductive invariant.                     *)
LEMMA StepIInv == IInv /\ [IwrrNext]_iwrrVars => IInv'
<1> SUFFICES ASSUME IInv, [IwrrNext]_iwrrVars PROVE IInv'
  OBVIOUS
<1>1. CASE IwrrNext
  <2>1. IwrrTypeOK'
    BY <1>1, StepTypeOK DEF IInv
  <2>2. CASE EndRound
    BY <1>1, <2>1, <2>2, StepEndRound DEF IInv
  <2>3. CASE \E i \in Requesters : Grant(i)
    BY <1>1, <2>1, <2>3, StepGrant DEF IInv
  <2> QED BY <1>1, <2>2, <2>3 DEF IwrrNext
<1>2. CASE UNCHANGED iwrrVars
  BY <1>2 DEF IInv, iwrrVars, inputs, registers, history, IwrrTypeOK, ServedEntitled, TurnsTaken,
     TurnsOver, TurnNow, WaitCounted, RoundsWaited, HasTurn, OthersServed
<1> QED BY <1>1, <1>2

(* The inductive invariant holds in every reachable state.                 *)
LEMMA IInvAlways == IwrrSpec => []IInv
BY InitIInv, StepIInv, PTL DEF IwrrSpec
-----------------------------------------------------------------------------
(* Every register of the arbiter keeps its type.                           *)
THEOREM IwrrTypeCorrect == IwrrSpec => []IwrrTypeOK
<1>1. IInv => IwrrTypeOK BY DEF IInv
<1> QED BY <1>1, IInvAlways, PTL

(* The weighted share of WRR.v: a requester that asks throughout a frame   *)
(* gets its weight in grants, and no requester gets more.                  *)
THEOREM ShareCorrect == IwrrSpec => []FrameShare
<1>1. IInv => FrameShare
  <2> SUFFICES ASSUME IInv PROVE FrameShare
    OBVIOUS
  <2>1. /\ weight[watch] \in Nat /\ round \in Nat \ {0} /\ round <= MAX_WEIGHT
        /\ got \in Nat /\ MAX_WEIGHT \in Nat
    BY WeightNat, IwrrAssumption DEF IInv, IwrrTypeOK, Rounds
  <2>2. watch \in served => weight[watch] >= round
    BY DEF IInv, ServedEntitled
  <2>3. /\ got <= TurnsOver + TurnNow
        /\ steady => watch \in wrr_req /\ got = TurnsOver + TurnNow
    BY DEF IInv, TurnsTaken
  <2>4. got <= Share(watch)
    BY <2>1, <2>2, <2>3 DEF Share, TurnsOver, TurnNow
  <2>5. ASSUME FrameEnds, steady PROVE got = Share(watch)
    <3>1. watch \in served \/ weight[watch] < round
      BY <2>1, <2>3, <2>5 DEF FrameEnds, NoGrant, Eligible, IInv, IwrrTypeOK
    <3> QED BY <2>1, <2>2, <2>3, <2>5, <3>1 DEF Share, TurnsOver, TurnNow, FrameEnds
  <2> QED BY <2>4, <2>5 DEF FrameShare
<1> QED BY <1>1, IInvAlways, PTL

(* Nobody of weight at least 1 starves: the longest wait is a frame of N   *)
(* cycles a round and the N - 1 grants to the others.                      *)
THEOREM WaitCorrect == IwrrSpec => []BoundedWait
<1>1. IInv => BoundedWait
  <2> SUFFICES ASSUME IInv PROVE BoundedWait
    OBVIOUS
  <2>1. IwrrTypeOK /\ wait \in Nat /\ round \in Int /\ N \in Nat /\ MAX_WEIGHT \in Nat
    BY IwrrAssumption DEF IInv, IwrrTypeOK, Rounds
  <2>2. RoundsWaited \in Nat /\ RoundsWaited <= N * MAX_WEIGHT
    BY <2>1, RoundCost DEF RoundsWaited, IwrrTypeOK
  <2>3. OthersServed \in 0..(N - 1) /\ N * MAX_WEIGHT \in Nat
    BY <2>1, CountsNat, RoundCost DEF IwrrTypeOK
  <2> QED BY <2>1, <2>2, <2>3 DEF IInv, WaitCounted, BoundedWait
<1> QED BY <1>1, IInvAlways, PTL
=============================================================================
