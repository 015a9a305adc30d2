--------------------------- MODULE TransitionFifo ---------------------------
(***************************************************************************)
(* transition_packer feeding fifo_buffer, as fifo_top connects them: the   *)
(* FIFO's ports wr_en and wr_data are the packer's registers pending_valid *)
(* and pending_data.  The reader of the FIFO (fifo_axi_wrapper) raises     *)
(* rd_en as it likes.  A word is the tuple of its bits, bit 0 first.  The  *)
(* packer merges with OR and never masks trans_data, so the producer must  *)
(* drive the bits from trans_width upwards to zero, and trans_width to at  *)
(* most DATA_WIDTH.                                                        *)
(***************************************************************************)
EXTENDS FifoBuffer

CONSTANTS
  DATA_WIDTH,    \* bits of a word
  Transitions    \* [data, width]: what the producer offers

BitWords == [1..DATA_WIDTH -> BOOLEAN]

ASSUME PackerAssumption ==
  /\ DATA_WIDTH \in 1..64
  /\ Data = BitWords
  /\ Zero = [i \in 1..DATA_WIDTH |-> FALSE]
  /\ Transitions \subseteq [data : BitWords, width : 0..DATA_WIDTH]
  /\ \A t \in Transitions, i \in 1..DATA_WIDTH : t.data[i] => i <= t.width

VARIABLES
  pack_buffer, pack_count,   \* bits that do not fill a word yet
  accepted                   \* history: bits accepted and not yet read

packerVars == <<wr_en, wr_data, pack_buffer, pack_count>>
packVars == <<fifoVars, packerVars, rd_en, accepted>>

Or(u, v) == [i \in 1..DATA_WIDTH |-> u[i] \/ v[i]]
Shl(v, n) == [i \in 1..DATA_WIDTH |-> i > n /\ v[i - n]]
Shr(v, n) == [i \in 1..DATA_WIDTH |-> i + n <= DATA_WIDTH /\ v[i + n]]
-----------------------------------------------------------------------------
TransReady == ~wr_en \/ ~Full

Merged(t) == Or(pack_buffer, Shl(t.data, pack_count))

(* Mutant: the rest of a crossing transition is shifted by pack_count.     *)
Left_Count(t) == Shr(t.data, pack_count)
(* The bits of a crossing transition that stay for the next word.          *)
Left(t) == Shr(t.data, DATA_WIDTH - pack_count)

(* Cases 1 to 3 of the packing logic.                                      *)
Fits(t) ==
  /\ pack_count + t.width < DATA_WIDTH
  /\ pack_buffer' = Merged(t)
  /\ pack_count' = pack_count + t.width
  /\ wr_en' = (wr_en /\ Full)
  /\ UNCHANGED wr_data

Fills(t) ==
  /\ pack_count + t.width = DATA_WIDTH
  /\ wr_data' = Merged(t) /\ wr_en' = TRUE
  /\ pack_buffer' = Zero /\ pack_count' = 0

Crosses(t) ==
  /\ pack_count + t.width > DATA_WIDTH
  /\ wr_data' = Merged(t) /\ wr_en' = TRUE
  /\ pack_buffer' = Left(t)
  /\ pack_count' = pack_count + t.width - DATA_WIDTH

AcceptTrans(t) == TransReady /\ (Fits(t) \/ Fills(t) \/ Crosses(t))

NoTransition ==
  /\ wr_en' = (wr_en /\ Full)
  /\ UNCHANGED <<pack_buffer, pack_count, wr_data>>

(* History: what the reader takes leaves at the front, what the packer     *)
(* accepts enters at the back.                                             *)
Unread == IF ReadFire THEN SubSeq(accepted, DATA_WIDTH + 1, Len(accepted))
          ELSE accepted

(* One edge: the FIFO sees the pending word, the packer the FIFO's full.   *)
PackEdge ==
  /\ FifoEdge
  /\ rd_en' \in BOOLEAN
  /\ \/ NoTransition /\ accepted' = Unread
     \/ \E t \in Transitions : /\ AcceptTrans(t)
                               /\ accepted' = Unread \o SubSeq(t.data, 1, t.width)

PackReset ==
  /\ FifoReset
  /\ pack_buffer' = Zero /\ pack_count' = 0
  /\ wr_en' = FALSE /\ wr_data' = Zero /\ rd_en' = FALSE
  /\ accepted' = <<>>

PackInit ==
  /\ FifoInit
  /\ pack_buffer = Zero /\ pack_count = 0
  /\ wr_en = FALSE /\ wr_data = Zero /\ rd_en = FALSE
  /\ accepted = <<>>

PackNext == PackEdge \/ PackReset

PackSpec == PackInit /\ [][PackNext]_packVars
-----------------------------------------------------------------------------
PackTypeOK ==
  /\ FifoTypeOK
  /\ pack_buffer \in BitWords
  /\ pack_count \in 0..(DATA_WIDTH - 1)
  /\ accepted \in Seq(BOOLEAN)

(* The words that are complete and not read: those in the FIFO and the     *)
(* pending one; and the place in accepted before the first bit of word k.  *)
Complete == Contents \o (IF wr_en THEN <<wr_data>> ELSE <<>>)
Before(k) == DATA_WIDTH * (k - 1)

(* Neither the packer nor the FIFO loses, repeats, reorders or corrupts a  *)
(* bit: the bits accepted and not yet read are, in order, those in the     *)
(* FIFO, in the pending word and in the buffer; across word boundaries,    *)
(* while the FIFO is full, across pointer wraps, and when a word completes *)
(* at the edge at which the previous one enters the FIFO ("Preserve the    *)
(* order of incoming transition bits", Design_Documentation.md:23).        *)
BitsPreserved ==
  LET n == Len(Complete) IN
  /\ Len(accepted) = Before(n + 1) + pack_count
  /\ \A k \in 1..n, i \in 1..DATA_WIDTH : accepted[Before(k) + i] = Complete[k][i]
  /\ \A i \in 1..pack_count : accepted[Before(n + 1) + i] = pack_buffer[i]
=============================================================================
