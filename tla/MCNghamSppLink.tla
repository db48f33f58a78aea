---------------------------- MODULE MCNghamSppLink ----------------------------
(***************************************************************************)
(* A line whose octets are 0 to 4, of which 4 is the start byte, and hence *)
(* also the longest payload.                                               *)
(***************************************************************************)
EXTENDS NghamSppLink

(* Payloads with and without a start byte in them, also at the end, flags  *)
(* for an extension packet and others.                                     *)
Transmits == [kind : {"transmit"}, ngham_flags : {Octet(0)}, data : {<<>>, <<Octet(1)>>, <<Octet(4), Octet(1)>>, <<Octet(1), Octet(4)>>}]
TooLong   == [kind |-> "transmit", ngham_flags |-> Octet(0), data |-> [k \in 1..4 |-> Octet(3)]]
Locals    == [kind : {"local"}, ngham_flags : {Octet(0), Octet(1)}, data : {<<Octet(1)>>}]
Commands  == [kind : {"command"}, cmd : {<<>>, <<"a">>, <<"wide">>}]

MCSendable == Transmits \cup Locals \cup Commands \cup {TooLong}
NoReplies  == {<<>>}

MCRxPackets == [rxhdr : {<<Octet(2), Octet(0)>>}, pl : {<<>>, <<Octet(4), Octet(1)>>, <<Octet(1), Octet(4)>>}]

(* Replies that take up to three packets.                                  *)
MCReplies == {[k \in 1..n |-> Octet(k % 3)] : n \in {2, 5, 9}}
OneCommand == {[kind |-> "command", cmd |-> <<"a">>]}
None == {}

AnyOctet == 0..4

(* Traffic without a start byte inside a packet.                           *)
PlainOctet   == 0..3
PlainReplies == {<<Octet(1)>>, <<Octet(2), Octet(3), Octet(0)>>}
=============================================================================
