------------------------------ MODULE Reception ------------------------------
(***************************************************************************)
(* What the receiver promises the application, stated without bytes: each  *)
(* sync word opens a reception, each reception ends in exactly one outcome *)
(* before the next sync word is looked for, and a packet reported OK is    *)
(* the one on the air, which stands whatever else was received before.     *)
(***************************************************************************)
CONSTANTS
  Transmissions,   \* what stations can transmit
  Noise,           \* what is on the air when a sync word was found by chance
  None             \* no reception is open

VARIABLES
  receiving,       \* what the open reception is of
  outcome          \* the last outcome reported: a transmission, or Noise for a failure

vars == <<receiving, outcome>>

Init == receiving = None /\ outcome = Noise

Sync(t) ==
  /\ receiving = None
  /\ receiving' = t
  /\ UNCHANGED outcome

Finish ==
  /\ receiving # None
  /\ receiving' = None
  /\ outcome' \in {receiving, Noise}

Next == (\E t \in Transmissions \cup {Noise} : Sync(t)) \/ Finish

Spec == Init /\ [][Next]_vars
=============================================================================
