--------------------------- MODULE FifoAxiWrapper ---------------------------
(***************************************************************************)
(* fifo_axi_wrapper between fifo_buffer and axi_ram, as fifo_top connects  *)
(* them: WordsPerAxi FIFO words are collected into one AXI word, which is  *)
(* written with a single-beat AXI burst; a user request reads one AXI word *)
(* back.  The FIFO's rd_en is the wrapper's register fifo_rd_en; its write *)
(* port is driven by the packer, here by anything.  An AXI address counts  *)
(* AXI words, and only single-beat bursts occur (AWLEN = ARLEN = 0).       *)
(* Every signal of the RTL that is a register is a variable; one step is   *)
(* one rising clock edge out of reset.                                     *)
(***************************************************************************)
EXTENDS FifoBuffer

CONSTANTS
  WordsPerAxi,   \* FIFO_WORDS_PER_AXI
  AxiWords       \* AXI words of the RAM

VARIABLES
  state, fifo_word_count, axi_data_buffer, current_axi_addr,
  aw, w, bready,        \* AW: [valid, addr]; W: [valid, data]; BREADY
  ar, rready,           \* AR: [valid, addr]; RREADY
  user,                 \* [valid, data]: rd_valid and rd_data
  wram,                 \* axi_ram write side: [st, awready, wready, bvalid, addr]
  rram,                 \* axi_ram read side: [st, arready, rvalid, addr, data]
  sram                  \* axi_ram memory

wrapperVars == <<state, fifo_word_count, axi_data_buffer, current_axi_addr,
                 aw, w, bready, ar, rready, user>>
ramVars == <<wram, rram, sram>>
vars == <<fifoVars, ports, wrapperVars, ramVars>>

AxiAddrs == 0..(AxiWords - 1)
AxiZero == [i \in 0..(WordsPerAxi - 1) |-> Zero]
-----------------------------------------------------------------------------
(* The FSM of the wrapper.  rd_req and rd_addr are the user's inputs.      *)
WriteSide == <<aw, w, bready, current_axi_addr>>
ReadSide == <<ar, rready>>
Collect == <<fifo_word_count, axi_data_buffer>>

Idle(rd_req) ==
  /\ state = "IDLE"
  /\ state' = IF rd_req THEN "AXI_AR" ELSE IF ~Empty THEN "FIFO_READ_REQ" ELSE "IDLE"
  /\ fifo_word_count' = 0
  /\ axi_data_buffer' = IF ~rd_req /\ ~Empty THEN AxiZero ELSE axi_data_buffer
  /\ rd_en' = FALSE
  /\ UNCHANGED <<WriteSide, ReadSide>>

FifoReadReq ==
  /\ state = "FIFO_READ_REQ"
  /\ state' = IF Empty THEN "IDLE" ELSE "FIFO_READ_CAPTURE"
  /\ rd_en' = ~Empty
  /\ UNCHANGED <<Collect, WriteSide, ReadSide>>

FifoReadCapture ==
  /\ state = "FIFO_READ_CAPTURE"
  /\ axi_data_buffer' = [axi_data_buffer EXCEPT ![fifo_word_count] = rd_data]
  /\ IF fifo_word_count = WordsPerAxi - 1
     THEN fifo_word_count' = 0 /\ state' = "AXI_AW"
     ELSE fifo_word_count' = fifo_word_count + 1 /\ state' = "FIFO_READ_REQ"
  /\ rd_en' = FALSE
  /\ UNCHANGED <<WriteSide, ReadSide>>

(* AWVALID is a register: it is still low in the cycle in which the FSM    *)
(* enters AXI_AW, and AWREADY is looked at in that same cycle.             *)
AxiAw ==
  /\ state = "AXI_AW"
  /\ aw' = [valid |-> ~wram.awready, addr |-> current_axi_addr]
  /\ state' = IF wram.awready THEN "AXI_W" ELSE "AXI_AW"
  /\ rd_en' = FALSE
  /\ UNCHANGED <<Collect, w, bready, current_axi_addr, ReadSide>>

AxiW ==
  /\ state = "AXI_W"
  /\ w' = [valid |-> ~wram.wready, data |-> axi_data_buffer]
  /\ state' = IF wram.wready THEN "AXI_B" ELSE "AXI_W"
  /\ rd_en' = FALSE
  /\ UNCHANGED <<Collect, aw, bready, current_axi_addr, ReadSide>>

AxiB ==
  /\ state = "AXI_B"
  /\ bready' = ~wram.bvalid
  /\ current_axi_addr' = IF wram.bvalid THEN (current_axi_addr + 1) % AxiWords
                         ELSE current_axi_addr
  /\ state' = IF wram.bvalid THEN "IDLE" ELSE "AXI_B"
  /\ rd_en' = FALSE
  /\ UNCHANGED <<Collect, aw, w, ReadSide>>

AxiAr(rd_addr) ==
  /\ state = "AXI_AR"
  /\ ar' = [valid |-> ~rram.arready, addr |-> rd_addr]
  /\ state' = IF rram.arready THEN "AXI_R" ELSE "AXI_AR"
  /\ rd_en' = FALSE
  /\ UNCHANGED <<Collect, WriteSide, rready>>

AxiR ==
  /\ state = "AXI_R"
  /\ rready' = ~rram.rvalid
  /\ state' = IF rram.rvalid THEN "IDLE" ELSE "AXI_R"
  /\ rd_en' = FALSE
  /\ UNCHANGED <<Collect, WriteSide, ar>>

(* rd_valid and rd_data; the handshake comes last in the clocked block and *)
(* wins over a word that arrives at the same edge.                         *)
UserNext(rd_data_ready) ==
  LET arrives == state = "AXI_R" /\ rram.rvalid
  IN  user' = [valid |-> IF user.valid /\ rd_data_ready THEN FALSE
                         ELSE user.valid \/ arrives,
               data |-> IF arrives THEN rram.data ELSE user.data]

Wrapper == \E rd_req, rd_data_ready \in BOOLEAN, rd_addr \in AxiAddrs :
  /\ \/ Idle(rd_req) \/ FifoReadReq \/ FifoReadCapture
     \/ AxiAw \/ AxiW \/ AxiB \/ AxiAr(rd_addr) \/ AxiR
  /\ UserNext(rd_data_ready)
-----------------------------------------------------------------------------
(* axi_ram, write side: state machine, registered READYs and BVALID.       *)
RamAwIdle ==
  /\ wram.st = "IDLE"
  /\ LET taken == wram.awready /\ aw.valid
     IN  wram' = [st |-> IF taken THEN "BURST" ELSE "IDLE",
                  awready |-> ~taken,
                  wready |-> taken,
                  bvalid |-> wram.bvalid /\ ~bready,
                  addr |-> IF taken THEN aw.addr ELSE wram.addr]
  /\ UNCHANGED sram

RamWBurst ==
  /\ wram.st = "BURST"
  /\ LET beat == wram.wready /\ w.valid
         responds == beat /\ (bready \/ ~wram.bvalid)
     IN  /\ wram' = [st |-> IF ~beat THEN "BURST" ELSE IF responds THEN "IDLE" ELSE "RESP",
                     awready |-> responds,
                     wready |-> ~beat,
                     bvalid |-> responds \/ (wram.bvalid /\ ~bready),
                     addr |-> wram.addr]
         /\ sram' = IF beat THEN [sram EXCEPT ![wram.addr] = w.data] ELSE sram

RamWResp ==
  /\ wram.st = "RESP"
  /\ LET responds == bready \/ ~wram.bvalid
     IN  wram' = [st |-> IF responds THEN "IDLE" ELSE "RESP",
                  awready |-> responds,
                  wready |-> FALSE,
                  bvalid |-> responds \/ (wram.bvalid /\ ~bready),
                  addr |-> wram.addr]
  /\ UNCHANGED sram

(* axi_ram, read side, without the optional output pipeline.               *)
RamArIdle ==
  /\ rram.st = "IDLE"
  /\ LET taken == rram.arready /\ ar.valid
     IN  rram' = [st |-> IF taken THEN "BURST" ELSE "IDLE",
                  arready |-> ~taken,
                  rvalid |-> rram.rvalid /\ ~rready,
                  addr |-> IF taken THEN ar.addr ELSE rram.addr,
                  data |-> rram.data]

RamRBurst ==
  /\ rram.st = "BURST"
  /\ LET gives == rready \/ ~rram.rvalid
     IN  rram' = [st |-> IF gives THEN "IDLE" ELSE "BURST",
                  arready |-> gives,
                  rvalid |-> gives \/ (rram.rvalid /\ ~rready),
                  addr |-> rram.addr,
                  data |-> IF gives THEN sram[rram.addr] ELSE rram.data]

Ram == /\ RamAwIdle \/ RamWBurst \/ RamWResp
       /\ RamArIdle \/ RamRBurst
-----------------------------------------------------------------------------
Next ==
  /\ FifoEdge /\ Wrapper /\ Ram
  /\ wr_en' \in BOOLEAN /\ wr_data' \in Data

Init ==
  /\ FifoInit
  /\ wr_en = FALSE /\ wr_data = Zero /\ rd_en = FALSE
  /\ state = "IDLE" /\ fifo_word_count = 0
  /\ axi_data_buffer = AxiZero /\ current_axi_addr = 0
  /\ aw = [valid |-> FALSE, addr |-> 0] /\ w = [valid |-> FALSE, data |-> AxiZero]
  /\ ar = [valid |-> FALSE, addr |-> 0]
  /\ bready = FALSE /\ rready = FALSE
  /\ user = [valid |-> FALSE, data |-> AxiZero]
  /\ wram = [st |-> "IDLE", awready |-> FALSE, wready |-> FALSE, bvalid |-> FALSE,
             addr |-> 0]
  /\ rram = [st |-> "IDLE", arready |-> FALSE, rvalid |-> FALSE, addr |-> 0,
             data |-> AxiZero]
  /\ sram = [a \in AxiAddrs |-> AxiZero]

Spec == Init /\ [][Next]_vars

(* The clock never stops.                                                  *)
FairSpec == Spec /\ WF_vars(Next)
-----------------------------------------------------------------------------
(* Design_Documentation.md, sections 19 to 21: a write that was started    *)
(* goes through its address, data and response handshakes and the wrapper  *)
(* returns to IDLE.                                                        *)
WriteCompletes == state = "AXI_AW" ~> state = "IDLE"
=============================================================================
