# Verification of NGHam

NGHam is a link protocol for packet radio. A packet of up to 220 octets is
padded to one of seven sizes, protected with a CRC and a Reed-Solomon code,
scrambled and sent behind a size tag. On the other side an interrupt routine
parses the bytes of the demodulator, a ring buffer carries complete code words
to the main loop, and the main loop decodes them and calls the application. Two
more protocols ride on it: a serial port protocol (SPP) between a modem and a
host, and an extension format that splits a payload into sub-packets.

This directory holds TLA+ models of those parts, their TLC configurations and
TLAPS proofs. `PROJECT.json` lists every run, the source lines behind every
definition, one plausible bug per property that the property catches, the
hazards of the code and the theorems.

## 1. Inventory

| Part | Source | State | Operations |
|---|---|---|---|
| Packet rings and tick | `ngham_buffers.c` | two rings of 8 slots, two 8-bit indices each | `ngham_rx_push` (interrupt), `ngham_tx_push` (application), `ngham_process_tick` (main loop), the two `_init` |
| Receiver | `ngham.c` `ngham_parse`, `ngham_tag_check` | `decoder_state`, `length`, `size_tag`, `rx_buf`; the demodulator's packet size | one call per received byte |
| Codec | `ngham.c` `ngham_encode`, `ngham_decode` | none but the packet | encode, decode |
| Reed-Solomon control blocks | `ngham.c` `ngham_init_arrays`, `ngham_deinit_arrays` | `rs_cb[7]` and the heap tables they share | set up, release |
| Reed-Solomon code | `fec-3.0.1/{init,encode,decode}_rs.h` | a control block | set up, encode, decode, release |
| CCSDS Reed-Solomon code | `fec-3.0.1/*_rs_8.c`, `*_rs_ccsds.c`, `encode_rs_av.c`, `gen_ccsds*.c` | built-in tables | encode, decode, both also in the dual basis |
| Viterbi decoders | `fec-3.0.1/viterbi{27,29,39,615}*.c`, `*.s` | a decoder; branch tables; the kind of processor | set polynomials, create, init, update, chainback, delete |
| CRC | `crc_ccitt.c` | none | whole-buffer and streaming checksum |
| Scrambler | `ccsds_scrambler.c` | position in the sequence | reset, xor (no caller here: `ngham.c` indexes the table) |
| SPP, modem side | `ngham_spp.c` | parser state, packet under construction | one call per byte; replies |
| SPP, host side | `ngham_spp_host.c`, `spp_host_qt.cpp` | parser state and buffer | one call per byte; pack commands and transmissions |
| Extension packets | `ngham_extension.c` | none but the payload | count, allocate, append |
| Call signs | `ngham_extension.c` | none | encode, decode |
| Extension packets, Qt | `ngham_extension_qt.cpp` | map of parsed sub-packets, list of built ones | parse, getters, add, join, `packCommand` |
| Platform hooks | `platform/platform.c` | external | modulator, demodulator, handlers |

How they interact:

    application --ngham_tx_push--> TX ring --tick--> ngham_encode --> modulator
    demodulator --byte (interrupt)--> ngham_parse --ngham_rx_push--> RX ring
                <--set_packet_size, reinit-- ngham_parse
    RX ring --tick--> ngham_decode --ngham_platform_handle_packet--> application
    host packer --serial line--> spp_parse --> transmit, command, extension handler
    spp_print_* --serial line--> host parser --> host application
    builder --> payload --> NghamExtension::parse --> map of fields
    ngham_encode, ngham_decode --> encode_rs_char, decode_rs_char (control block by size)

The calls are plain function calls. What is shared is: the two rings, between
an interrupt, the application and the main loop, without a lock; the packet
size, between `ngham_parse` and a demodulator that counts bytes by itself; and
the slot being decoded, in place, while the ring around it is filled.
`fec-3.0.1` is a library that comes with the code; NGHam calls its general
Reed-Solomon codec for octets. The other codecs in it are modelled as well,
because they are most of the source and the hard part of it.

What is hard about each part, and what makes it correct:

| Part | Hard | Correct if |
|---|---|---|
| Rings | any overlap of three activities; a full ring; in-place decoding; TX waits for an idle RX | every accepted packet is served once, in order, untouched; both rings drain |
| Receiver | the longest frame's packet size wraps (255+3 = 2); no timeout; receptions given up; `ngham_init` half way | parser and demodulator stay in step or get back in step; one outcome per sync word; correctable damage is corrected |
| Size tag | the code forgives up to six wrong bits and takes the first tag that is near enough | no pattern of forgiven errors hides or changes a size |
| Codec | padding, flags and length share one octet; seven sizes; the frame buffer | round trip at every boundary; the frame is as long as announced |
| SPP | no timeout, no escaping, lengths used before the CRC is checked, faults on the line; replies cut into packets | only whole packets are acted on, and every whole one; parsers recover; replies arrive complete |
| Extension | lengths from the air steer two loops; a map kept over packets; an index past a table | what was built is read back; never part of a refused packet; every field has the size its getter assumes |
| Station | interrupt and main loop with the ring between them; two ways to the handler | each outcome is reported once, in the order of receptions |
| CRC, scrambler | a table of 256 entries, a loop and two parsers that step through it must agree | the table is the polynomial, the sequence its shift register; no burst is missed |
| Control blocks | seven blocks share two sets of tables | each size has its code; nothing is freed twice or left |
| Call signs | six bits a character, seven characters, a number of two digits, octets nobody writes | shown as given; sent on unchanged |
| Reed-Solomon code | logarithm of zero, padding, erasures against errors, roots that fall into the padding | encoded blocks are code words; all that can be corrected is, and nothing else is touched |
| Viterbi decoders | metrics of eight bits that wrap or saturate; five versions of each | the message found has the least distance; the metric returned is that distance |

`PROJECT.json` "hazards" gives each of these with its line.

## 2. Modules

| Module | Models | Checked by | Proved |
|---|---|---|---|
| `PacketFifo` | abstract: a bounded FIFO with an observer | refined by `NghamBuffers` | |
| `NghamBuffers` | both rings, both pushes, the tick, `ngham_init` | `buffers` | `NghamBuffersProofs` |
| `Reception` | abstract: sync word, then one outcome | refined by `NghamReceiver` | |
| `NghamReceiver` | `ngham_parse` with demodulator and channel | `receiver_noisy`, `receiver_recovery`, `receiver_prefail` | `NghamReceiverProofs` |
| `PacketLink` | abstract: a `Reception` whose outcomes go through a `PacketFifo` | refined by `NghamStation` | |
| `NghamStation` | `NghamReceiver` and `NghamBuffers` composed | `station` | `NghamStationProofs` |
| `NghamTables` | the size tables and the tag vectors | used by the next three | |
| `NghamSizeTag` | `ngham_tag_check` and the search for a size | `coding` | `NghamSizeTagProofs` |
| `NghamCodec` | `ngham_encode`, `ngham_decode` | `coding` | `NghamCodecProofs` |
| `NghamRsBlocks` | `ngham_init_arrays`, `ngham_deinit_arrays` | `coding` | `NghamCodecProofs` |
| `CrcCcitt`, `CrcStream` | the checksum: table and loop; over a buffer and octet by octet | `coding` | |
| `CcsdsScrambler` | the scrambler with its table | `coding` | |
| `NghamCallsign` | call signs, and `packCommand` that puts two into a packet | `coding` | `NghamCallsignProofs` |
| `SppFraming` | octets, CRC, packet bytes of SPP | used by the next three | |
| `NghamSpp` | `spp_parse`, `spp_print_*` | as part of `NghamSppLink` | the same |
| `NghamSppHost` | the host's parser and packers | as part of `NghamSppLink` | the same |
| `NghamSppLink` | the two on a faulty serial line | `spp_down`, `spp_up`, `spp_recover` | `NghamSppProofs` |
| `NghamExtension` | builders, `ngh_ext_numpkts`, `NghamExtension::parse` | `extension`, `extension_types` | `NghamExtensionProofs` |
| `FecLoops` | loops, arrays, bits, parity | used by the next five | |
| `ReedSolomon`, `RsFixed` | the arithmetic of the general codec; the fixed code | through `RsCodec` | |
| `RsCodec` | a Reed-Solomon codec from set-up to release | `fec` | |
| `Viterbi` | the arithmetic of the decoders | through `ViterbiCodec` | |
| `ViterbiCodec` | a Viterbi decoder from creation to deletion | `fec` | |

The `MC...` modules give the constants small values. `MCNghamCoding` and `MCFec`
hold several small machines that have nothing to do with each other: which one
a behaviour exercises is chosen in its initial state (`part`, `subject`), the
others rest. `MCNghamCoding` extends the modules that have theorems, so that the
run and the proofs are about the same definitions. Operators named as mutants
in a comment ("Mutant: ...") are not part of any specification: each is a
plausible bug of the definition behind it, kept to show that a property would
notice.

### Rings (`NghamBuffers`)

Variables carry the names of the C variables. Each access to a shared index is
a step, and a `memcpy` and an in-place decoding take two, during which the slot
is "torn". `ngham_rx_push` is `RxPushCheck`, `RxPushCopyBegin`, `RxPushCopyEnd`,
`RxPushPublish`; the same four for `ngham_tx_push`, whose check also refuses
oversize packets; the tick is `TickRx`, `DecodeBegin`, `DecodeEnd`, `RxRelease`,
`TickTx`, `Encode`, `TxRelease`. Payloads are names; `PlLen` gives their lengths
and `Decodable` those that survive Reed-Solomon and CRC. Assumed: stores become
visible in program order (the indices are volatile, the slots are not: a hazard
is listed), one producer per ring, and `ngham_init` while nothing else runs.

### Receiver (`NghamReceiver`)

A byte is a pair of transmission and position, or `Hiss` for one damaged beyond
use. Code words have the sizes in `NGH_PL_PAR_SIZE`, and the demodulator counts
modulo `W` (256 in reality). `ParseSizeTag` is the two first bytes of a tag,
`ParseSizeKnown` and `ParseSizeUnknown` the third, `ParseByte` and
`ParseLastByte` the code word. Each is one call of `ngham_parse`, with what the
demodulator does before it (count the byte) and what the calls out of it do
(`ngham_platform_set_packet_size`, `ngham_platform_reinit`). A tag damaged beyond
what is forgiven may be taken for any size in `FalseTags`, or none. `Decode`
stands for what the tick will report of the code word; the rings in between are
the subject of `NghamBuffers`.

### Station (`NghamStation`)

Conjoins the actions of the two modules: the last byte of a code word is
`ParseLastByte` of the receiver and `RxPushCheck` of the ring in one step, and
then the interrupt is in the push while main loop and demodulator go on. The
hook for a complete code word is taken to call `ngham_rx_push`, one of the two
ways that the comment at `ngham.c:233` names. Interrupts do not nest and a push
takes less than a byte time. A slot holds what `Decode` makes of its code word.
`PacketLink` is the two abstract modules composed in the same way, and the
refinement mapping counts a packet that is being copied as already waiting.

### Size tag and codec (`NghamSizeTag`, `NghamCodec`)

Tags are sets of bits that are one; `Xor` is the symmetric difference and its
cardinality the Hamming distance that `ngham_tag_check` counts. The codec works
on bytes that remember what they are (header octet as a number, k-th octet of
the payload, CRC of given octets, zero, parity), with the real sizes. CRC and
Reed-Solomon code are ideal: a CRC matches only the octets it was made of, and
up to half as many wrong bytes as there are parity bytes are corrected.

### The parts behind the codec (`NghamRsBlocks`, `CrcCcitt`, `CrcStream`, `CcsdsScrambler`)

The control blocks are kept as their number of roots, which tells whose tables
a block points to, with the heap as the set of tables allocated and what
`free()` was given in error. `CrcCcitt` has the real table and the loop; the
stream is a buffer that grows, with a copy of it that a burst of errors falls
on, so that the checksum kept octet by octet is compared with the loop and both
with a bit-serial reference. `CcsdsScrambler` has the real table and
the position, beside a shift register for reference; where the code reads
behind the table the octet is any.

### Call signs (`NghamCallsign`)

Characters are their codes. `Memory` is what the arrays hold before the
functions write to them, which is how an octet that is never written shows up
in the packet. What `packCommand` writes is modelled for every
length its test accepts, as a sequence as long as what was written; that the longest
run over the end of its array is left to `CommandsReadBack`, which is about those
that do not. `CallNext` has one action per function, and the four variables
hold what went in and what came out.

### SPP (`SppFraming`, `NghamSpp`, `NghamSppHost`, `NghamSppLink`)

One action per byte and parser state on each side, then one per packet type.
A CRC byte is a token of the octets covered; where a parser takes it for a
length or type it may read as any octet (`Readings`). The line damages, loses
or makes up bytes, up to a bound. `down` and `up` remember what each packet on
the line was meant to be, `dev_heard` and `host_heard` whose CRC a parser has in
its header, and `owed` which bytes of replies the host has not been given while
the line to it had no fault, so that properties can compare. The C and
the Qt host parser are the same automaton and are modelled once.

### Extension packets (`NghamExtension`)

Payloads are sequences of octets. `SubPacket` is the common part of the five
functions that add a sub-packet; the limit is that of the packet, of a buffer,
or, for the Qt list, only a bound of the model. `ExtAllocate` hands out a place
that `FillIn` fills, maybe after more was added. `Starts` are the positions of the
whole sub-packets that the loop of `ngh_ext_numpkts` comes to, by a recursive
function of the position, and `Numpkts` is their number if each is `Verified`
and zero otherwise; `behind` is what
memory happens to hold behind the table of sizes, the same in every read.
`ParseInsert`, `ParseClear` and `ParseEnd` are one turn each of the loop in
`NghamExtension::parse`.

### Reed-Solomon codecs (`ReedSolomon`, `RsFixed`, `RsCodec`)

The code keeps most values as logarithms, with one number for that of zero. The
model keeps field elements and takes the logarithm where the code uses it,
including where it does so without a test for zero, in which case the function
is applied to what it has no value for. The rest is as in the code: the shift
register of the encoder, Horner's rule, Berlekamp-Massey with erasures, the
search in the order of its roots, Forney's formula. `RsFixed` is the code whose tables are
built in, with the vector register of the Altivec encoder and the dual basis.
`RsCodec` is what `rstest.c` does with a codec; allocations may be refused one
by one. The reference is multiplication digit by digit and the roots of the
generator.

### Viterbi decoders (`Viterbi`, `ViterbiCodec`)

The twenty decoders run one algorithm. A version is a record of what it
does in its own way: the metrics it starts with, how it scales a distance,
whether metrics wrap or saturate, at which limit they are adjusted, which path
wins a tie and what it returns. The choice among versions by processor is state, because
polynomials can be set before the processor is known; `asked` is what the caller has set last, and
`lost` tells whether it went to a version that is not used. Symbols are those of the
real decoders; `UnsignedBits` stands for the width of `unsigned int` in the
portable versions and is 15, so that they wrap as well. The reference is the
distance of all paths, with metrics of any size.

## 3. Runs

| Run | Question | Bounds, and why they are enough |
|---|---|---|
| `buffers` | is each ring a FIFO with untorn slots under every overlap? do both drain? | two rings of four, so that packets wait behind each other, a push copies while another slot is decoded, and the indices wrap with the ring empty, partly and completely full; code words that decode and that do not, packets of the least and the largest length and one byte more, so that order shows. In each behaviour one ring (`stressed`) takes whatever comes and the other one packet at a time, always the same; both under stress at once are left to the proofs. The view leaves out slots that are not published and variables of pushes that are over |
| `receiver_noisy` | do parser and demodulator stay in step? one outcome per sync word? | sizes 3 and 7 with `W` = 8, so that the longer one wraps to less than a tag, as 255+3 does; up to three damaged bytes, one more than the larger size corrects, tag included; three transmissions, so that a foreign one of the same size exists |
| `receiver_recovery` | do they get back in step? after how many bytes? | two receptions given up, one `ngham_init`; no other damage. Two in a row leave the parser inside a code word that the third fills up |
| `receiver_prefail` | is FAIL only for complete packets? | violated, see section 6 |
| `station` | does each outcome get through ring and main loop once and in order? | an RX ring of four; code words of 1 and 4 bytes with `W` = 5, the smallest geometry in which the longer one wraps to less than a tag; two damaged bytes; one `ngham_init`. The view leaves out what nothing reads: slots that are not published, and variables of pushes and receptions that are over |
| `coding` | size tags: is a size recovered from any six wrong bits? | all seven real tags, all 24 bits, all patterns: complete |
| | codec: does every length round-trip? | the real sizes; lengths on both sides of each of the seven sizes, at the far end of the padding, and those refused; flags beyond three bits; bursts up to one more than can be corrected |
| | checksum: is it the polynomial, and does it see every burst? | all bursts of up to eleven bits and some of sixteen, across octets, in buffers of up to four; it is linear, so that more data shows no more |
| | scrambler: is it its shift register? | all 255 places and one behind |
| | control blocks: has each size its code, and is each table freed once? | the seven real sizes |
| | call signs: shown as given, sent on unchanged? commands readable? | names of two to seven letters and digits with every kind of suffix, and characters that do not fit; commands of no octet, of the last length that fits the array, and of those refused |
| `fec` | Reed-Solomon: is all corrected that can be, and nothing else touched? | fields of 8 and 16 elements with every choice of positions and erasures up to one beyond what can be corrected, other first roots, primitive elements and padding; in GF(256) the 16-root code of NGHam, with few patterns, and the fixed 32-root code in C, by Altivec and in the dual basis; every refused allocation |
| | Viterbi: is the message found the nearest one? | each of the four decoders on each of the five processors: with codes of 4 or 8 states, on which frames with errors, noise, other starting and end states and 168 weak symbols (metrics wrap and are adjusted many times) are tried, and with the real polynomials; that of constraint length 15 with 10. Polynomials may be set before and after any creation, with the first symbol inverted; what four versions do not handle, and polynomials that are lost, are excepted (section 6) |
| `spp_down` | does the modem act on whole packets and nothing else? | octets 0 to 4, the start byte 4 among them, so that lengths, CRC and payload may look like a start, payloads with a start byte first and last; two faults; every packet type, an oversize one and multi-byte characters |
| `spp_up` | the same towards the host; are replies whole? | two faults; replies of one, two and three packets between received packets, whose payloads may begin or end in a start byte |
| `spp_recover` | do both parsers find their place again? does every byte bring a bogus packet nearer to its end? | one fault each way, traffic without a start byte inside packets; a fault may make any length of a header, zero included |
| `extension` | is what was built read back, and nothing malformed taken in part? | octets below 4 so that types, lengths and data are confused; any foreign payload of four octets and any three behind a good sub-packet; a variable and a fixed type, one without a size and one that does not exist; two packets into one map; a buffer large enough for a length that does not fit its octet |
| `extension_types` | are counted sub-packets verified? | violated, see section 6 |

Deadlock is checked in all but `coding`, where the channel of the size tag stops
after its last flip and a buffer is full at some point.

### Fairness

* `buffers`: weak fairness of the tick, because the main loop calls
  `ngham_process_tick` for ever, and of a push that has begun, because it is
  straight-line code. None for packets: nobody has to send. TX drains only on
  the condition that the tick finds RX empty again and again, which the code
  does not guarantee.
* `receiver_recovery`: weak fairness of `NghamParse`: a demodulator that is not
  hunting outputs a byte per symbol time. That sync words keep coming is a
  premise of the properties.
* `spp_recover`: weak fairness of each direction of the line, which carries what
  there is. That the host keeps sending is a premise.

## 4. Proofs

All for every value of the constants that the named assumptions admit.

* `NghamBuffersProofs` (`RxSizeAssumption`, `TxSizeAssumption`: sizes are powers
  of two). `TypeCorrect` and `SlotsIntact`. The inductive invariant adds to
  `NoTornSlot` what each program counter knows: a producer past its check has
  computed `next` and `next` is not the consumer's index, and its slot is
  outside the window of published slots; the tick past its check has a window
  that is not empty. Without these, publishing could swallow the window or
  releasing could run past it. The lemmas on windows (a publish appends one
  slot, a release drops the first) carry the steps.
  `RxRefinement` and `TxRefinement`, in the same module: each ring implements
  `PacketFifo` under the mapping of `NghamBuffers`, in which the queue is the
  window in order, without the slot just served.
* `NghamSizeTagProofs` (tags lie more than twice the forgiven distance apart,
  which TLC evaluates for the real ones): `AtMostOneSize` from the triangle
  inequality of the Hamming distance, and `SizeTagRobust` from it, with the
  number of flips as a bound on the distance.
* `NghamReceiverProofs` (`GeometryAssumption`: code words fit the counter and the
  counter's maximum is beyond the tag; `Undisturbed`: no reception is given up
  and `ngham_init` is not called): `NeverOutOfStep`, `ReceptionRefinement` and
  `Delivery`. `InStep` speaks of a hunting demodulator only; the inductive
  invariant says for each parser state how many bytes the demodulator has
  counted, modulo `W`. The heart is that two numbers of code word bytes below
  `W` never count the same, so the wrapped packet size is met at the last byte
  and not before. For the refinement, every byte in the buffer is noise or of
  the transmission on the air, so a code word near another one would have every
  byte wrong. `Delivery` (that what can be corrected is delivered) adds
  `Tracked`: as long as its tag is sound, each byte held is the one that was
  sent or its place is among the damaged ones, so that wrong bytes inject into
  damaged places and are no more than the code corrects.
  Without `Undisturbed`, for receptions given up at any byte and however often:
  `BufferNeverOverrun` (also with `ngham_init` at any time) and `RecoveryNearer`.
  The latter assumes that no three bytes which are not a tag pass for one
  (`FalseTags = {}`: otherwise noise may start code words that do not exist, one
  behind the other), and speaks of behaviours up to the first `ngham_init`. Its
  invariant `DisturbedInv` says what a reception given up leaves as it was: the
  parser holds part of a tag or of a code word, never more than that, and the
  packet size is the one that goes with the parser's state, the size of the code
  word it believes in or the demodulator's maximum, even though the demodulator
  has gone on to another reception. The measure is `Left`, the bytes until the parser
  gives up looking, and each byte takes one off it unless it brings the two in step.
* `NghamStationProofs` (`RingAssumption`, `NullAssumption` and those of the
  receiver; no reception is given up, and `ngham_init` is called between
  receptions, as the station's actions say): `LinkRefinement`, that receiver, RX
  ring and main loop implement `PacketLink`. Each step of the station is a step of the receiver,
  of the ring, or, at the last byte of a code word, of both; the ring's
  invariant and its refinement are those of `NghamBuffersProofs`, taken over
  by `INSTANCE`.
* `NghamCodecProofs` (`CodecAssumption`: lengths are naturals, flags octets; the
  tables are the real ones): `FramesFit`, `PacketsRoundTrip` and
  `ShortBurstsCorrected`. The invariant `CodecInv` says what is on the air at
  each stage. The lemmas take a frame apart: where each part lies, that the
  header octet gives back padding and flags, that the CRC stands behind the
  payload, and that the padding is left out. `BlocksSound`, in the same module, is
  about the control blocks: through any number of set-ups and releases, each of
  the seven sizes has its code and no table is freed twice or left.
* `NghamCallsignProofs` (`CallsignAssumption`: strings of characters 1 to 255,
  octets, memory of any content): `RoundTrip`, `SentOn` and `ReadBackFromPacket`.
  `Stops` and `Ends` name the one place where the characters of a call sign end;
  `GroupsOfPacked` and `GroupsOfOctets` say that four groups of six bits and three
  octets are the same. `ReadBack` puts them together: what is decoded from encoded
  octets depends on the characters before the end only, not on memory.
  `CallInv` remembers what was encoded, and with which memory. For a packet,
  `Layout` says at which octet each part lies, and `ThreeFound` that the reader,
  which is a recursive function of the place, comes to just these places;
  `WalkExists` shows, by induction over sets, that such a function exists.
* `NghamExtensionProofs` (`TableAssumption`, `PayloadAssumption`,
  `NoneAssumption`: a table of any sizes, packets in which an octet can count the
  data of one sub-packet, any data, any foreign payloads, any memory behind the
  table): `TypeCorrect`,
  `ReaderStaysInside`, `FieldsFit`, `EnteredWholeOrNot` and `BuiltComesBack`.
  `ReaderInv` ties the two walks over a payload together: `parse`, which trusts
  the count, is at a position that `ngh_ext_numpkts` came to, and has entered as
  many sub-packets as lie before it. `MapInv` says which fields the map has by
  then. `BuiltInv` says where in the payload each accepted sub-packet lies, the
  space that was given out and not yet filled included; `SentInv` carries it to
  the reader.
* `NghamSppProofs` (`OctetAssumption`, `CrcAssumption`, `PktAssumption`,
  `PackAssumption`, `SendableAssumption`, `RxAssumption`, `ReplyAssumption`; octets
  of any width, payloads of any content, any number of faults): `ParsersBounded`,
  `DeviceSafe`, `DeviceComplete`, `HostSafe`, `HostComplete` and `RepliesComplete`.
  For the bound, `DevToGo` and `HostToGo` count the bytes a parser may still take
  before it looks for a start byte; each byte takes at least one off them, at the
  host after a length of zero as well, because there the buffer ends the packet.
  For safety, a CRC byte tells which packet it is of. `DevHeardInv` and
  `HostHeardInv` say that this packet is the one remembered, unless another
  CRC came behind it, in which case the CRC cannot match; a packet that is
  accepted is then as long as the remembered one and equal to it. For
  completeness, `DownWhole` and `UpWhole` say that a parser which was looking
  for a start when a packet began holds exactly the bytes sent so far. For the
  replies, `OwedInv` says that the packets on the line divide what is owed:
  there are offsets, one per packet, at which the payloads of reply packets
  stand in it one behind the other.

What a recursive function computes (the positions in a payload, the packets a
reply is cut into) is reached without a rule of induction for operators: an
invariant names a set or a function of positions, and the lemmas `LeastNat`
(`Least`) and `SetInduction` state induction for sets.

Only model-checked:

* all liveness (both rings drain, `BackInStep`, `BackInStepOrDeaf`,
  `LinkRecovers`), which is out of the prover's reach with its fairness.
  `RecoveryNearer` is the safety part of `BackInStep`;
* what holds of a receiver after `ngham_init` in the middle of a reception, but
  for `BufferNeverOverrun`;
* checksum and scrambler (`ChecksumsAgree`, `FollowsSequence`), which are bitwise;
* the codecs of `fec-3.0.1`, whose loops are recursive operators and whose
  arithmetic is bitwise;
* `OnlyVerifiedSubPackets` and `FailOnlyAfterWholePacket`, which are violated.

## 5. Not modelled

* Dot product, sum of squares and peak value in `fec-3.0.1`: NGHam does not call
  them, each is one sum or maximum over a buffer, and what differs between their
  versions is alignment.
* Sources of `fec-3.0.1` that its `makefile.in` does not name (`init_rs.c`,
  `encode_rs.c`, `decode_rs.c`, `exercise.c`), the loops that measure time, and
  the build files.
* `getConvertedExtensionData`, `secondsToDhms` and the getters: they format what
  the map holds.
* `rx_pkt_init`, `tx_pkt_init`: they assign default values.
* `platform.c`: stubs. The demodulator behind them is modelled from how
  `ngham.c` uses it.
* Four hazards without a property: compilers that reorder stores around the
  volatile indices (`ngham_buffers.c:46`), and two contexts that push
  (`ngham_buffers.c:36`) or print (`ngham_spp.c:148`) at once, which code outside
  the repository decides; and padding sizes no encoder produces, for which the
  CRC would run outside the packet (`ngham.c:95`).

## 6. What the checks found

* `receiver_prefail`: a size tag that is not recognised is reported as
  `PKT_CONDITION_FAIL`, although `ngham_packets.h:13-14` reserves FAIL for packets
  received whole and has `PKT_CONDITION_PREFAIL` for the others. PREFAIL is never
  reported.
* `extension_types`: `ngh_ext_numpkts` looks up types 16 and 17 in a table whose
  last entry is 15. What it then verifies the sub-packet against depends on the
  memory behind the table.

Not findings, but worth knowing; each is a condition in a property:

* `ngham_init` during a reception of the longest frame may leave the packet size
  at 2 for ever, so that each later sync word is followed by two bytes only
  (`BackInStepOrDeaf`).
* TX starves as long as RX is never found empty (`TxDrainsUnlessRxBusy`).
* `packCommand` of the SPP host counts characters, not octets, and an empty
  command has length zero, which no parser tells from "no length yet"
  (`WellPacked`).
* After a bogus length of zero the host's parser swallows a buffer full of bytes
  and one more before it looks for a start again (`HostToGo` in
  `BogusPacketsEnd`).
* When the last byte of an SPP packet is lost and was the same as the start
  byte, the start byte of the next packet completes it: the packet is accepted, which is correct by chance,
  and the next one is lost without any byte of it being wrong
  (`DeviceActsOnlyOnWhatWasSent`, `HostGetsOnlyWhatWasPrinted` count by what the
  CRC vouches for, not by what the line did).
* A packet that cannot be read leaves the fields of the packet before it in the
  Qt map (`AllOrNothing`).
* A failure to find a size is reported from the interrupt and overtakes packets
  that wait in the ring; a packet refused by a full ring is not reported at all
  (`PacketLink`), although `platform/platform.c:45` says the handler "Will always be called".
* Call signs: more than seven characters are cut and the station number with
  them; a backquote or a space ends the name; numbers from 64 on are cut to six
  bits; of a call sign that is refused no octet is written, and none behind the
  end of a short one, so that a packet carries what memory held
  (`CallsignsRoundTrip`, `ResentUnchanged`).
* `packCommand` of the extension list counts two of the three headers it
  writes, so that commands of 185 to 203 octets do not fit its array
  (`CommandsReadBack` is about those that do).
* `ngham_deinit_arrays` passes two static blocks to `free()` (`ControlBlocksSound`
  excepts them), and `ngham_init_arrays` does not test what `init_rs_char` returns.
* The reset of the scrambler's position stands behind a `return`
  (`ccsds_scrambler.c:40`): a stream of more than 255 octets leaves the table
  (`FollowsSequence` is about 255).
* `decode_rs_char` tests only the number of roots (`decode_rs.h:241`): with more
  errors than it can correct it may report success for a block that is no code
  word. NGHam's CRC refuses these. `init_rs_char` accepts a polynomial whose order
  divides the block length, and does not return if the primitive element has
  no inverse (`IprimExists`).
* Viterbi decoders, where they are not what `simd-viterbi.3` says of them:
  * `simd-viterbi.3:201-203` has the polynomials changed for all instances. Set
    before the first creation they go to the portable version
    (`viterbi27.c:33-36`, and so in the other three), and on any other processor
    are lost: the default ones decode. The model remembers this in `lost`, and
    `DecodesNearest` and `MetricsAddUp` measure with the default polynomials then
    (`InForce`), which is what the code does and not what the caller asked for.
  * `simd-viterbi.3:238-239` says that all functions but `create_viterbi` "return
    -1 on error, 0 otherwise". The updates and chainbacks of the rate 1/3 decoder
    (all versions but the portable one, which returns 0) and of the Altivec
    version of the rate 1/6 decoder return metrics, and `viterbi39.c` and
    `viterbi615.c` pass them on. `MetricsAddUp` is about what these metrics are.
  * `simd-viterbi.3:115-120` takes a terminal state of the encoder and 148-199
    inverted symbols. Four versions get one of the two wrong: that of the rate
    1/2, K=7 decoder for MMX does not shift its terminal state into place, and
    those of the rate 1/3 decoder for MMX, SSE and SSE2 do not take the sign off a
    polynomial. `Handled` excepts these uses from both properties.
* The Altivec versions of two Viterbi decoders do not check an allocation. No
  version tests that a frame fits what it was created for.

## 7. Plan

Done, in this order: rings, receiver, size tag, codec, SPP, extension packets;
call signs, checksum, scrambler, control blocks; the codecs of `fec-3.0.1`; the
station; the proofs of section 4. What would come next:

1. The receiver with `ngham_init` at any byte: with it, the packet size may be
   that of a frame while the parser looks for a tag, which is the deaf state of
   section 6, and `DisturbedInv` needs a case for it.
2. The two arithmetic parts with their bits as functions on positions in place
   of `Bitwise`, so that the linearity of the checksum can be proved.
3. The station with receptions given up.
