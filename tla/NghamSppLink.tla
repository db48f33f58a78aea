----------------------------- MODULE NghamSppLink -----------------------------
(***************************************************************************)
(* A modem and its host on a serial line: NghamSpp and NghamSppHost, with  *)
(* an asynchronous line between them that may damage a byte, lose it (an   *)
(* overrun) or make one up (noise).  Neither parser has a timeout and      *)
(* nothing escapes a start byte inside a packet.                           *)
(*                                                                         *)
(* Another modem's spp_print_local_pkt may take the host's place at the    *)
(* modem's input.                                                          *)
(***************************************************************************)
EXTENDS SppFraming

CONSTANTS
  PKT_PL_SIZE, PackMax, Replies,
  Sendable,         \* what is sent to the modem: see BytesOf
  RxPackets,        \* received packets: time stamp ... flags, and payload
  MaxDownFaults,    \* bound: faults on the line to the modem
  MaxUpFaults,      \* bound: faults on the line to the host
  MaxOutput         \* bound: packets the modem has waiting when it gets more to do

(* 512 bytes in the struct and 220 bytes to transmit, when an octet goes   *)
(* up to 255.                                                              *)
ASSUME PktAssumption == PKT_PL_SIZE \in Nat /\ PKT_PL_SIZE > SPP_PL_MAX
ASSUME PackAssumption == PackMax \in Nat /\ PackMax < SPP_PL_MAX
(* What is sent and printed is octets.  Packets that are printed hold as   *)
(* much as those on the air, which an octet can count.                     *)
ASSUME SendableAssumption ==
  Sendable \subseteq [kind : {"transmit"}, ngham_flags : Bytes, data : Seq(Bytes)]
            \cup [kind : {"local"}, ngham_flags : Bytes, data : {s \in Seq(Bytes) : Len(s) < SPP_PL_MAX}]
            \cup [kind : {"command"}, cmd : Seq(STRING)]
ASSUME RxAssumption ==
  \A p \in RxPackets : /\ p \in [rxhdr : Seq(Bytes), pl : Seq(Bytes)]
                       /\ Len(p.rxhdr) + Len(p.pl) \in 1..SPP_PL_MAX
ASSUME ReplyAssumption == Replies \subseteq Seq(Bytes)
ASSUME LinkBounds == MaxDownFaults \in Nat /\ MaxUpFaults \in Nat /\ MaxOutput \in Nat

VARIABLES
  dev_state, dev_d, dev_target, dev_pl, dev_mute, dev_call, dev_output,
  host_state, host_d, host_target, host_emitted,
  down,       \* what is being sent to the modem, its bytes still to come,
              \* whether all is well with it so far
  up,         \* bytes of Head(dev_output) already sent, and the same
  down_faults, up_faults,
  dev_heard,  \* the packet whose CRC the modem's parser has in its header
  host_heard, \* the same of the host's parser
  owed        \* the bytes of replies the host has not been given yet, as long
              \* as the line to it has had no fault

device == <<dev_state, dev_d, dev_target, dev_pl, dev_mute, dev_call, dev_output>>
host   == <<host_state, host_d, host_target, host_emitted>>
vars   == <<device, host, down, up, down_faults, up_faults, dev_heard, host_heard, owed>>

Device == INSTANCE NghamSpp WITH
  state <- dev_state, d <- dev_d, pkt_target <- dev_target, pl <- dev_pl,
  port_rf_mute <- dev_mute, call <- dev_call, output <- dev_output
Host == INSTANCE NghamSppHost WITH
  state <- host_state, d <- host_d, d_target <- host_target, emitted <- host_emitted

Idle == [intent |-> [kind |-> "none"], bytes |-> <<>>, whole |-> FALSE]

Init ==
  /\ Device!Init /\ Host!Init
  /\ down = Idle /\ up = [sent |-> 0, whole |-> FALSE]
  /\ down_faults = 0 /\ up_faults = 0
  /\ dev_heard = Idle.intent /\ host_heard = Host!Nothing
  /\ owed = <<>>

-----------------------------------------------------------------------------
(* To the modem                                                            *)

BytesOf(i) ==
  CASE i.kind = "transmit" -> Host!PackTransmit(i.data, i.ngham_flags)
    [] i.kind = "command"  -> Host!PackCommand(i.cmd)
    [] i.kind = "local"    -> Device!SppPrintLocalPkt(i.ngham_flags, i.data).bytes

Send(i) ==
  /\ down = Idle
  /\ Len(dev_output) < MaxOutput
  /\ BytesOf(i) # <<>>
  /\ down' = [intent |-> i, bytes |-> BytesOf(i), whole |-> TRUE]
  /\ UNCHANGED <<device, host, up, down_faults, up_faults, dev_heard, host_heard, owed>>

(* The modem parses c; a reply is owed to the host from then on.  The      *)
(* first byte of a CRC tells whose packet it is, until the parser looks    *)
(* for the next.                                                           *)
DeviceParses(c) ==
  /\ Device!SppParse(c)
  /\ dev_heard' = (IF dev_state' = "START" THEN Idle.intent
                   ELSE IF c = BytesOf(down.intent)[2] THEN down.intent ELSE dev_heard)
  /\ owed' = (IF dev_call'.fn = "cmd" /\ up_faults = 0 THEN owed \o dev_call'.rep ELSE owed)

(* A packet is well as long as its bytes arrive and the parser was looking *)
(* for its first one.                                                      *)
AfterByte(ok) ==
  IF Len(down.bytes) = 1 THEN Idle
  ELSE [intent |-> down.intent, bytes |-> Tail(down.bytes),
        whole |-> ok /\ down.whole /\ (down.bytes = BytesOf(down.intent) => dev_state = "START")]

DownIntact ==
  /\ down.bytes # <<>>
  /\ DeviceParses(Head(down.bytes))
  /\ down' = AfterByte(TRUE)
  /\ UNCHANGED <<host, host_heard, up, down_faults, up_faults>>

DownFault ==
  /\ down.bytes # <<>>
  /\ down_faults < MaxDownFaults
  /\ down_faults' = down_faults + 1
  /\ UNCHANGED <<host, host_heard, up, up_faults>>

DownDamaged == DownFault /\ DeviceParses(Bad) /\ down' = AfterByte(FALSE)
DownLost ==
  /\ DownFault /\ down' = AfterByte(FALSE)
  /\ dev_call' = Device!NoCall
  /\ UNCHANGED <<dev_state, dev_d, dev_target, dev_pl, dev_mute, dev_output, dev_heard, owed>>
(* Noise before the first byte may leave the parser looking for it.        *)
DownNoise ==
  /\ DownFault /\ DeviceParses(Bad)
  /\ down' = [down EXCEPT !.whole = (down.bytes = BytesOf(down.intent))]

Down == DownIntact \/ DownDamaged \/ DownLost \/ DownNoise

-----------------------------------------------------------------------------
(* To the host                                                             *)

(* A packet received by radio is printed.                                  *)
PrintRxPkt(p) ==
  /\ Len(dev_output) < MaxOutput
  /\ dev_output' = Append(dev_output, Device!SppPrintRxPkt(p.rxhdr, p.pl))
  /\ UNCHANGED <<dev_state, dev_d, dev_target, dev_pl, dev_mute, dev_call, host, down, up,
                 down_faults, up_faults, dev_heard, host_heard, owed>>

UpByte == Head(dev_output).bytes[up.sent + 1]
UpLast == up.sent + 1 = Len(Head(dev_output).bytes)

UpAfterByte(ok) ==
  IF UpLast
    THEN dev_output' = Tail(dev_output) /\ up' = [sent |-> 0, whole |-> FALSE]
    ELSE /\ UNCHANGED dev_output
         /\ up' = [sent |-> up.sent + 1,
                   whole |-> ok /\ (IF up.sent = 0 THEN host_state = "START" ELSE up.whole)]

ReplyPart == IF host_emitted' # Host!Nothing /\ host_emitted'.pl_type = NGHAM_SPP_TYPE_CMD
               THEN host_emitted'.d ELSE <<>>

(* The host parses c.  What is owed is kept until the line falls idle or   *)
(* has a fault.                                                            *)
HostParses(c) ==
  /\ Host!HostParse(c)
  /\ host_heard' = (IF host_state' = "START" THEN Host!Nothing
                    ELSE IF c = Head(dev_output).bytes[2] THEN Head(dev_output) ELSE host_heard)
  /\ owed' = (IF dev_output' = <<>> \/ up_faults' > 0 THEN <<>> ELSE SubSeq(owed, Len(ReplyPart) + 1, Len(owed)))

UpIntact ==
  /\ dev_output # <<>>
  /\ UNCHANGED <<dev_state, dev_d, dev_target, dev_pl, dev_mute, dev_call, dev_heard, down, down_faults, up_faults>>
  /\ UpAfterByte(TRUE) /\ HostParses(UpByte)

UpFault ==
  /\ dev_output # <<>>
  /\ up_faults < MaxUpFaults
  /\ up_faults' = up_faults + 1
  /\ UNCHANGED <<dev_state, dev_d, dev_target, dev_pl, dev_mute, dev_call, dev_heard, down, down_faults>>

UpDamaged == UpFault /\ UpAfterByte(FALSE) /\ HostParses(Bad)
UpLost ==
  /\ UpFault /\ UpAfterByte(FALSE)
  /\ host_emitted' = Host!Nothing
  /\ owed' = <<>>
  /\ UNCHANGED <<host_state, host_d, host_target, host_heard>>
UpNoise ==
  /\ UpFault
  /\ up' = [up EXCEPT !.whole = FALSE]
  /\ UNCHANGED dev_output
  /\ HostParses(Bad)

Up == UpIntact \/ UpDamaged \/ UpLost \/ UpNoise

-----------------------------------------------------------------------------
Next == (\E i \in Sendable : Send(i)) \/ Down \/ (\E p \in RxPackets : PrintRxPkt(p)) \/ Up

Spec == Init /\ [][Next]_vars

(* The line carries what there is to send.  Nothing obliges the host or    *)
(* the radio to have something.                                            *)
FairSpec == Spec /\ WF_vars(Down) /\ WF_vars(Up)

-----------------------------------------------------------------------------
(* Properties                                                              *)

(* The most bytes a parser takes until it looks for a start byte again:    *)
(* those of the longest packet while the length is not known, then as many *)
(* as the length says.  At the host a length of zero is reached only by    *)
(* filling the buffer and one byte more.                                   *)
DevToGo ==
  CASE dev_state = "START"   -> 0
    [] dev_state = "HEADER"  -> SPP_HDR_SIZE - 1 + SPP_PL_MAX - Len(dev_d)
    [] dev_state = "PAYLOAD" -> dev_target - Len(dev_pl)
HostToGo ==
  CASE host_state = "START"  -> 0
    [] host_state = "HEADER" -> Host!SPP_D_SIZE + 1 - Len(host_d)
    [] host_state = "PAYLOAD" /\ host_target > SPP_HDR_SIZE -> host_target - Len(host_d)
    [] host_state = "PAYLOAD" /\ host_target = SPP_HDR_SIZE -> Host!SPP_D_SIZE + 1 - Len(host_d)

(* A parser that has lost its place does not stay in a bogus packet: every *)
(* byte, right, damaged or made up, brings it nearer to its end, and the   *)
(* host's parser writes nothing behind its buffer on the way.              *)
BogusPacketsEnd ==
  [][/\ DownIntact \/ DownDamaged \/ DownNoise =>
          DevToGo' \in 0..(IF dev_state = "START" THEN SPP_HDR_SIZE - 1 + SPP_PL_MAX ELSE DevToGo - 1)
     /\ UpIntact \/ UpDamaged \/ UpNoise =>
          /\ HostToGo' \in 0..(IF host_state = "START" THEN Host!SPP_D_SIZE ELSE HostToGo - 1)
          /\ Len(host_d') <= Host!SPP_D_SIZE]_vars

(* What the modem should do with a packet sent to it.  Only commands whose *)
(* characters take a byte each, and not none, are packed well.             *)
Expected(i, call) ==
  CASE i.kind = "transmit" ->
         IF dev_mute THEN call = Device!NoCall
         ELSE call = [fn |-> "packer_call", ngham_flags |-> i.ngham_flags, pl |-> i.data]
    [] i.kind = "local" ->
         IF i.ngham_flags = Octet(NGHAM_FLAG_TYPE_EXTENSION)
           THEN call = [fn |-> "port_handle_ngham_ext", ngham_flags |-> i.ngham_flags, pl |-> i.data]
           ELSE call = Device!NoCall
    [] i.kind = "command" ->
         call.fn = "cmd" /\ call.d = Host!ToLocal8Bit(i.cmd)
WellPacked(i) ==
  i.kind = "command" => i.cmd # <<>> /\ Len(i.cmd) <= SPP_PL_MAX /\ "wide" \notin {i.cmd[k] : k \in DOMAIN i.cmd}

(* Whatever the line does to it, the modem acts only on what was sent, and *)
(* once: nothing altered, cut short, spliced or acted on twice.  The last  *)
(* byte may come from the next packet, whose start byte replaces a lost    *)
(* one that is the same.                                                   *)
DeviceActsOnlyOnWhatWasSent ==
  [][dev_call' # dev_call /\ dev_call' # Device!NoCall =>
       /\ dev_heard # Idle.intent /\ WellPacked(dev_heard) /\ Expected(dev_heard, dev_call')
       /\ dev_heard' = Idle.intent]_vars

(* A packet that arrives whole while the parser is looking for one is      *)
(* acted on, whatever the parser made of the bytes before it.              *)
WholePacketsActedOn ==
  [][/\ down # Idle /\ down' = Idle /\ down.whole /\ down_faults' = down_faults
     /\ WellPacked(down.intent)
     => Expected(down.intent, dev_call')]_vars

(* The host is given only what the modem printed, and once.                *)
HostGetsOnlyWhatWasPrinted ==
  [][host_emitted' # host_emitted /\ host_emitted' # Host!Nothing =>
       /\ host_heard # Host!Nothing
       /\ host_emitted' = [pl_type |-> host_heard.pl_type, d |-> host_heard.d]
       /\ host_heard' = Host!Nothing]_vars

(* A packet that arrives whole while the host's parser is looking for one  *)
(* is given to the host.                                                   *)
WholePacketsGiven ==
  [][/\ dev_output # <<>> /\ dev_output' = Tail(dev_output) /\ up.whole /\ up_faults' = up_faults
     => host_emitted' = [pl_type |-> Head(dev_output).pl_type, d |-> Head(dev_output).d]]_vars

(* On a line without faults a reply reaches the host complete and in       *)
(* order, however many packets it takes and whatever is printed between.   *)
RepliesWhole ==
  [][dev_output # <<>> /\ dev_output' = Tail(dev_output) /\ up_faults' = 0 =>
       /\ ReplyPart = SubSeq(owed, 1, Len(ReplyPart))
       /\ dev_output' = <<>> => ReplyPart = owed]_vars

(* After the last fault both parsers find their place again, if no byte of *)
(* the traffic but the first of a packet looks like a start byte: commands *)
(* that keep being sent keep being run, and their replies keep arriving.   *)
LinkRecovers ==
  []<><<\E i \in Sendable : Send(i)>>_vars =>
    []<><<dev_call' # Device!NoCall>>_vars /\ []<><<host_emitted' # Host!Nothing>>_vars
=============================================================================
