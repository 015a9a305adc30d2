----------------------------- MODULE SkidBuffer -----------------------------
(***************************************************************************)
(* The one-entry skid buffer (skid_buffer/rtl/skid_buffer.v) between a     *)
(* producer and a consumer with valid/ready handshakes.  One step is one   *)
(* rising clock edge out of reset.  The inputs are variables that may take *)
(* any values in the next cycle: the producer is not even required to hold *)
(* a word, because o_ready does not depend on the consumer's i_ready.      *)
(***************************************************************************)
EXTENDS Naturals, Sequences

CONSTANTS
  Words,      \* the words that are passed
  ResetWord   \* what the register holds out of reset

VARIABLES
  i_data, i_valid, i_ready,   \* inputs of this cycle
  data_reg, by_pass,          \* registers
  unread                      \* history: words accepted and not delivered

skidInputs == <<i_data, i_valid, i_ready>>
skidVars == <<skidInputs, data_reg, by_pass, unread>>
-----------------------------------------------------------------------------
OReady == by_pass
OData == IF by_pass THEN i_data ELSE data_reg
OValid == IF by_pass THEN i_valid ELSE TRUE

(* In bypass, a word the consumer does not take is stored.                 *)
Stores == i_valid /\ ~i_ready

Bypass ==
  /\ by_pass
  /\ by_pass' = ~Stores
  /\ data_reg' = IF Stores THEN i_data ELSE data_reg

Skid ==
  /\ ~by_pass
  /\ by_pass' = i_ready
  /\ UNCHANGED data_reg

(* What the producer hands over and the consumer takes in this cycle.      *)
Incoming == IF i_valid /\ OReady THEN <<i_data>> ELSE <<>>
Taken == OValid /\ i_ready

(* Words in the order of their acceptance, this cycle's included.          *)
Owed == unread \o Incoming

SkidNext ==
  /\ Bypass \/ Skid
  /\ unread' = IF Taken /\ Owed # <<>> THEN Tail(Owed) ELSE Owed
  /\ i_data' \in Words /\ i_valid' \in BOOLEAN /\ i_ready' \in BOOLEAN

SkidInit ==
  /\ by_pass = TRUE /\ data_reg = ResetWord
  /\ unread = <<>>
  /\ i_data \in Words /\ i_valid \in BOOLEAN /\ i_ready \in BOOLEAN

SkidSpec == SkidInit /\ [][SkidNext]_skidVars
-----------------------------------------------------------------------------
SkidTypeOK ==
  /\ i_data \in Words /\ i_valid \in BOOLEAN /\ i_ready \in BOOLEAN
  /\ data_reg \in Words \cup {ResetWord} /\ by_pass \in BOOLEAN
  /\ unread \in Seq(Words)

(* The output shows the oldest word that was accepted and not delivered,   *)
(* and is valid exactly when there is one: under every pattern of          *)
(* backpressure no word is lost, repeated or overtaken.                    *)
OldestOffered ==
  /\ OValid <=> Owed # <<>>
  /\ OValid => OData = Head(Owed)

(* A word on offer that the consumer does not take is still on offer,      *)
(* unchanged, in the next cycle, though the producer need not hold it      *)
(* ("Data holding during downstream backpressure", skid_buffer_doc.md).    *)
OutputHeld == [][OValid /\ ~i_ready => OValid' /\ OData' = OData]_skidVars
=============================================================================
