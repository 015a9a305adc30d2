---------------------------- MODULE IwrrArbiter -----------------------------
(***************************************************************************)
(* The interleaved weighted round-robin arbiter (WRR/WRR.v).  A frame is   *)
(* MAX_WEIGHT rounds; in a round every requester whose weight reaches the  *)
(* round's number is granted once, and a cycle in which nobody is eligible *)
(* ends the round.  One step is one rising clock edge out of reset; the    *)
(* requests of a cycle are arbitrary, the weights are configured once.     *)
(***************************************************************************)
EXTENDS Integers, FiniteSets

CONSTANTS
  N,            \* requesters; the RTL spells the encoder out for 4
  MAX_WEIGHT,   \* rounds of a frame
  Weights       \* the weight vectors under consideration

Requesters == 0..(N - 1)
Rounds == 1..MAX_WEIGHT

ASSUME IwrrAssumption ==
  /\ N \in Nat \ {0}
  /\ MAX_WEIGHT \in Nat \ {0}
  /\ Weights \subseteq [Requesters -> Nat]

VARIABLES
  weight,               \* weight0 .. weight3
  wrr_req,              \* the requests of this cycle
  round, ptr, served,   \* registers
  watch, wait, got, steady
    (* history of one requester, watch: cycles it has now waited, grants   *)
    (* it got in this frame, whether it requested throughout the frame.    *)

inputs == <<weight, wrr_req>>
registers == <<round, ptr, served>>
history == <<watch, wait, got, steady>>
iwrrVars == <<inputs, registers, history>>
-----------------------------------------------------------------------------
(* Mutant: the weight must exceed the round.                               *)
Eligible_Strict(i) == i \in wrr_req /\ i \notin served /\ weight[i] > round

Eligible(i) == i \in wrr_req /\ i \notin served /\ weight[i] >= round

(* Distance of i from the pointer, in the order of the priority encoder.   *)
Rank(i) == IF i >= ptr THEN i - ptr ELSE i - ptr + N

(* grant_next: the eligible requester nearest to the pointer, if any.      *)
Granted(i) == Eligible(i) /\ \A j \in Requesters : Eligible(j) => Rank(i) <= Rank(j)
NoGrant == \A i \in Requesters : ~Eligible(i)

(* Mutant: the served flags survive the end of the round.                  *)
ServedAtRoundEnd_Kept == served
ServedAtRoundEnd == {}

NextRound == IF round = MAX_WEIGHT THEN 1 ELSE round + 1

Grant(i) ==
  /\ Granted(i)
  /\ served' = served \cup {i}
  /\ ptr' = IF i = N - 1 THEN 0 ELSE i + 1
  /\ UNCHANGED round

EndRound ==
  /\ NoGrant
  /\ served' = ServedAtRoundEnd
  /\ ptr' = 0
  /\ round' = NextRound
-----------------------------------------------------------------------------
(* The edge at which a frame ends.                                         *)
FrameEnds == NoGrant /\ round = MAX_WEIGHT

(* A requester of weight 0 is never served: its waiting is not counted.    *)
Waits == watch \in wrr_req /\ weight[watch] >= 1 /\ ~Granted(watch)

Observe ==
  /\ UNCHANGED watch
  /\ wait' = IF Waits THEN wait + 1 ELSE 0
  /\ got' = IF FrameEnds THEN 0 ELSE IF Granted(watch) THEN got + 1 ELSE got
  /\ steady' = IF FrameEnds THEN watch \in wrr_req' ELSE steady /\ watch \in wrr_req'

IwrrInit ==
  /\ weight \in Weights
  /\ wrr_req \in SUBSET Requesters
  /\ round = 1 /\ ptr = 0 /\ served = {}
  /\ watch \in Requesters /\ wait = 0 /\ got = 0 /\ steady = (watch \in wrr_req)

IwrrNext ==
  /\ EndRound \/ \E i \in Requesters : Grant(i)
  /\ wrr_req' \in SUBSET Requesters
  /\ UNCHANGED weight
  /\ Observe

IwrrSpec == IwrrInit /\ [][IwrrNext]_iwrrVars
-----------------------------------------------------------------------------
IwrrTypeOK ==
  /\ weight \in Weights
  /\ wrr_req \subseteq Requesters
  /\ round \in Rounds
  /\ ptr \in Requesters
  /\ served \subseteq Requesters
  /\ watch \in Requesters
  /\ wait \in Nat /\ got \in Nat /\ steady \in BOOLEAN

Share(i) == IF weight[i] <= MAX_WEIGHT THEN weight[i] ELSE MAX_WEIGHT

(* A requester that asks throughout a frame gets exactly its weight in     *)
(* grants (MAX_WEIGHT if its weight is larger), and none ever gets more,   *)
(* whatever the other requesters do.                                       *)
FrameShare ==
  /\ got <= Share(watch)
  /\ FrameEnds /\ steady => got = Share(watch)

(* A requester of weight at least 1 waits at most one round of N cycles    *)
(* for each round of the frame and N - 1 grants to others in its own.      *)
BoundedWait == wait <= N * MAX_WEIGHT + N - 1
=============================================================================
