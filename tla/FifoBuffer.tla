----------------------------- MODULE FifoBuffer -----------------------------
(***************************************************************************)
(* fifo_buffer (sram_fifo_axi/rtl/fifo_buffer.v): a circular memory whose  *)
(* read and write pointers carry one bit more than an address.  One step   *)
(* is one rising clock edge, at which a write and a read may both happen.  *)
(* A pointer is the pair of its address part and its extra bit: the RTL    *)
(* updates the two separately at the last address, and never carries from  *)
(* one to the other elsewhere.                                             *)
(***************************************************************************)
EXTENDS Integers, Sequences

CONSTANTS
  Data,        \* DATA_WIDTH-bit words
  Zero,        \* the word rd_data is reset to
  FIFO_DEPTH   \* entries; at most 2^ADDR_WIDTH

ASSUME FifoAssumption == FIFO_DEPTH \in Nat \ {0} /\ Zero \in Data

VARIABLES
  wr_en, wr_data, rd_en,   \* input ports
  mem,      \* mem[a]: the word at address a
  wr_ptr,   \* [addr, msb]: where the next write goes
  rd_ptr,   \* [addr, msb]: where the next read comes from
  rd_data   \* the registered output

ports == <<wr_en, wr_data, rd_en>>
fifoVars == <<mem, wr_ptr, rd_ptr, rd_data>>

Addresses == 0..(FIFO_DEPTH - 1)
Pointers == [addr : Addresses, msb : BOOLEAN]
-----------------------------------------------------------------------------
Empty == wr_ptr = rd_ptr

Full == wr_ptr.addr = rd_ptr.addr /\ wr_ptr.msb # rd_ptr.msb

(* Mutant: the extra bit is not toggled when the address wraps.            *)
Advance_NoToggle(p) ==
  IF p.addr = FIFO_DEPTH - 1 THEN [addr |-> 0, msb |-> p.msb]
  ELSE [addr |-> p.addr + 1, msb |-> p.msb]

Advance(p) ==
  IF p.addr = FIFO_DEPTH - 1 THEN [addr |-> 0, msb |-> ~p.msb]
  ELSE [addr |-> p.addr + 1, msb |-> p.msb]

WriteFire == wr_en /\ ~Full
ReadFire == rd_en /\ ~Empty

(* One edge; the ports are driven by others.                               *)
FifoEdge ==
  /\ IF WriteFire
     THEN /\ mem' = [mem EXCEPT ![wr_ptr.addr] = wr_data]
          /\ wr_ptr' = Advance(wr_ptr)
     ELSE UNCHANGED <<mem, wr_ptr>>
  /\ IF ReadFire
     THEN /\ rd_data' = mem[rd_ptr.addr]
          /\ rd_ptr' = Advance(rd_ptr)
     ELSE UNCHANGED <<rd_data, rd_ptr>>

(* Reset clears the pointers and the output, and leaves the memory alone.  *)
FifoReset ==
  /\ wr_ptr' = [addr |-> 0, msb |-> FALSE]
  /\ rd_ptr' = [addr |-> 0, msb |-> FALSE]
  /\ rd_data' = Zero
  /\ UNCHANGED mem

(* At power-up the memory holds anything; the model starts after a reset.  *)
FifoInit ==
  /\ mem \in [Addresses -> Data]
  /\ wr_ptr = [addr |-> 0, msb |-> FALSE]
  /\ rd_ptr = [addr |-> 0, msb |-> FALSE]
  /\ rd_data = Zero

(* The FIFO alone, with any values on its ports in every cycle.            *)
PortsOK == wr_en \in BOOLEAN /\ wr_data \in Data /\ rd_en \in BOOLEAN

FifoSpec == /\ FifoInit /\ PortsOK
            /\ [][(FifoEdge \/ FifoReset) /\ PortsOK']_<<fifoVars, ports>>
-----------------------------------------------------------------------------
FifoTypeOK ==
  /\ mem \in [Addresses -> Data]
  /\ wr_ptr \in Pointers
  /\ rd_ptr \in Pointers
  /\ rd_data \in Data
  /\ PortsOK

(* The words between the pointers, oldest first.                           *)
Count == IF wr_ptr.msb = rd_ptr.msb THEN wr_ptr.addr - rd_ptr.addr
         ELSE FIFO_DEPTH + wr_ptr.addr - rd_ptr.addr

Slot(i) == IF rd_ptr.addr + i <= FIFO_DEPTH THEN rd_ptr.addr + i - 1
           ELSE rd_ptr.addr + i - 1 - FIFO_DEPTH

Contents == [i \in 1..Count |-> mem[Slot(i)]]

(* The pointers and the memory implement a queue of at most FIFO_DEPTH     *)
(* words with a registered output: nothing is lost, duplicated, reordered  *)
(* or overwritten, at any fill level and across every wrap (Design_        *)
(* Documentation.md, sections 9 to 13).                                    *)
Queue == INSTANCE BoundedQueue WITH q <- Contents, out <- rd_data,
                                    Capacity <- FIFO_DEPTH
QueueSpec == Queue!Spec
=============================================================================
