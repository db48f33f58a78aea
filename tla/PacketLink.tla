----------------------------- MODULE PacketLink -----------------------------
(***************************************************************************)
(* What a receiving station promises its application, stated without       *)
(* bytes, slots or indices: a reception ends in one outcome, which waits   *)
(* in a bounded queue and is reported in its turn, or is refused because   *)
(* the queue is full.  A failure may also end a reception at once, without *)
(* waiting.                                                                *)
(***************************************************************************)
EXTENDS Reception, Naturals, Sequences

CONSTANT Capacity   \* places in the queue

VARIABLES queue, serving, report, overflow

Outcomes == Transmissions \cup {Noise}
Ring == INSTANCE PacketFifo WITH
  Packet <- Outcomes, Outcome <- [p \in Outcomes |-> p], NoOutcome <- Noise, out <- report

ringvars == <<queue, serving, report, overflow>>

LinkInit == Init /\ Ring!Init

LinkNext ==
  \/ (\E t \in Outcomes : Sync(t)) /\ UNCHANGED ringvars
  \/ Finish /\ (Ring!Put(outcome') \/ Ring!Refuse)
  \/ Finish /\ outcome' = Noise /\ UNCHANGED ringvars
  \/ (Ring!Serve \/ Ring!Release \/ Ring!Reset) /\ UNCHANGED vars

LinkSpec == LinkInit /\ [][LinkNext]_<<vars, ringvars>>
=============================================================================
