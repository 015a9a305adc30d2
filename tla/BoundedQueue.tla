---------------------------- MODULE BoundedQueue ----------------------------
(***************************************************************************)
(* What a synchronous FIFO promises: at every clock edge the word on the   *)
(* write port enters at the back if wr_en is high and there was room       *)
(* before the edge, and the front leaves into the output register if rd_en *)
(* is high and there was one before the edge; a reset empties the queue    *)
(* and clears the output.                                                  *)
(***************************************************************************)
EXTENDS Naturals, Sequences

CONSTANTS Zero, Capacity

VARIABLES wr_en, wr_data, rd_en, q, out

Enters == wr_en /\ Len(q) < Capacity
Leaves == rd_en /\ q # <<>>

Edge ==
  LET rest == IF Leaves THEN Tail(q) ELSE q
  IN  /\ q' = IF Enters THEN Append(rest, wr_data) ELSE rest
      /\ out' = IF Leaves THEN Head(q) ELSE out

Reset == q' = <<>> /\ out' = Zero

Init == q = <<>> /\ out = Zero
Spec == Init /\ [][Edge \/ Reset]_<<q, out>>
=============================================================================
