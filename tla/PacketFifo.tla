----------------------------- MODULE PacketFifo -----------------------------
(***************************************************************************)
(* What a packet ring of ngham_buffers.c promises its two users, stated    *)
(* without slots, indices or program counters.                             *)
(*                                                                         *)
(* A producer puts packets in, a single consumer serves them one at a time *)
(* in the order they were put, each exactly once, and reports the outcome  *)
(* of the packet it serves.  The packet being served still occupies its    *)
(* place until the consumer is done with it, so a put is possible exactly  *)
(* while fewer than Capacity places are taken, and is refused otherwise.   *)
(***************************************************************************)
EXTENDS Naturals, Sequences

CONSTANTS
  Packet,      \* what can be put into the ring
  Outcome,     \* Outcome[p]: what serving p makes visible outside
  NoOutcome,   \* nothing has been served yet
  Capacity     \* number of places

VARIABLES
  queue,       \* packets put and not yet served, oldest first
  serving,     \* the last packet served still occupies its place
  out,         \* outcome of the last packet served
  overflow     \* the last attempt to put was refused

vars == <<queue, serving, out, overflow>>

Taken == Len(queue) + (IF serving THEN 1 ELSE 0)

Init == queue = <<>> /\ serving = FALSE /\ out = NoOutcome /\ overflow = FALSE

Put(p) ==
  /\ Taken < Capacity
  /\ queue' = Append(queue, p)
  /\ overflow' = FALSE
  /\ UNCHANGED <<serving, out>>

Refuse ==
  /\ Taken = Capacity
  /\ overflow' = TRUE
  /\ UNCHANGED <<queue, serving, out>>

Serve ==
  /\ ~serving
  /\ queue # <<>>
  /\ out' = Outcome[Head(queue)]
  /\ queue' = Tail(queue)
  /\ serving' = TRUE
  /\ UNCHANGED overflow

Release ==
  /\ serving
  /\ serving' = FALSE
  /\ UNCHANGED <<queue, out, overflow>>

Reset ==
  /\ ~serving
  /\ queue' = <<>>
  /\ UNCHANGED <<serving, out, overflow>>

Next == (\E p \in Packet : Put(p)) \/ Refuse \/ Serve \/ Release \/ Reset

Spec == Init /\ [][Next]_vars

=============================================================================
