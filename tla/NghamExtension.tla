--------------------------- MODULE NghamExtension ---------------------------
(***************************************************************************)
(* Extension packets: a payload divided into sub-packets, each a type      *)
(* octet, a length octet and that many octets of data.                     *)
(*                                                                         *)
(* The builders are the functions of ngham_extension.c, over the payload   *)
(* of a packet or over any buffer, and the list that NghamExtension keeps  *)
(* in ngham_extension_qt.cpp.  The reader is NghamExtension::parse, which  *)
(* counts the sub-packets with ngh_ext_numpkts and enters them in a map    *)
(* that it keeps from one packet to the next.  A packet comes from a       *)
(* builder of this code or from a foreign station and then holds any       *)
(* octets.  Builders and reader share no state, so the builder rests while *)
(* a packet is read.                                                       *)
(***************************************************************************)
EXTENDS Naturals, Sequences, FiniteSets

CONSTANTS
  W,                  \* octets are numbers below W
  EXT_TYPES, EXT_TYPE_SIZES, EXT_SIZE_VARIABLE,
  Behind,             \* what memory may hold behind EXT_TYPE_SIZES
  NGHAM_PL_MAX,       \* payload octets in a packet
  D_SIZE,             \* octets in a buffer of the application
  MaxList,            \* bound: octets in the Qt builder
  Datas,              \* data given to the builders
  Foreign,            \* payloads of foreign stations
  MaxPackets,         \* bound: packets read
  None

Octets     == 0..W-1
SizedTypes == DOMAIN EXT_TYPE_SIZES
BehindTable == (0..EXT_TYPES) \ SizedTypes

ASSUME TableAssumption ==
  /\ W \in Nat \ {0} /\ EXT_TYPES \in Octets
  /\ \E n \in 1..EXT_TYPES : SizedTypes = 0..n-1
  /\ EXT_SIZE_VARIABLE \notin Octets
  /\ \A t \in SizedTypes : EXT_TYPE_SIZES[t] \in Octets \cup {EXT_SIZE_VARIABLE}
  /\ \A b \in Behind : DOMAIN b = BehindTable
ASSUME PayloadAssumption ==
  /\ NGHAM_PL_MAX \in 0..W+1 /\ D_SIZE \in Nat /\ MaxList \in Nat
  /\ Datas \subseteq Seq(Octets) /\ Foreign \subseteq Seq(Octets)
  /\ MaxPackets \in Nat
ASSUME NoneAssumption ==
  /\ None \notin Seq(Octets) \cup Seq([type : Octets, data : Datas])
  /\ None \notin {"packet", "buffer", "list"} \cup [at : Nat, size : Nat, sub : Nat]

VARIABLES
  builder,            \* what is being filled: "packet", "buffer", "list" or None
  pl,                 \* its octets
  subs,               \* the sub-packets accepted so far
  room,               \* where the last allocation of data is to be filled in
  behind,
  d, start, j,        \* parse: packet, position, count; d is None between packets
  sent,               \* the sub-packets that d was built from; None if foreign
  before,             \* the map as it was when d came
  m_pkts,             \* the map, from types to data
  packets

building == <<builder, pl, subs, room>>
reading  == <<d, start, j, sent, before, m_pkts, packets>>
vars     == <<building, behind, reading>>

Empty == [t \in {} |-> <<>>]

Init ==
  /\ builder = None /\ pl = <<>> /\ subs = <<>> /\ room = None
  /\ behind \in Behind
  /\ d = None /\ start = 0 /\ j = 0 /\ sent = None
  /\ before = Empty /\ m_pkts = Empty /\ packets = 0

-----------------------------------------------------------------------------
(* Building                                                                *)

(* The lists of the Qt builder have no limit of their own.                 *)
Limit == [packet |-> NGHAM_PL_MAX, buffer |-> D_SIZE, list |-> MaxList]

(* Data that a caller may give for a type: a structure of the type's size. *)
FitsType(t, size) == t \in SizedTypes /\ EXT_TYPE_SIZES[t] \in {size, EXT_SIZE_VARIABLE}

(* Mutant: the header is left out of what must fit.                        *)
SubPacketNoHeader(t, data) ==
  /\ Len(pl) + Len(data) <= Limit[builder]
  /\ pl' = pl \o <<t, Len(data) % W>> \o data
  /\ subs' = Append(subs, [type |-> t, data |-> data])

(* A sub-packet that fits is added behind the others.  One that does not   *)
(* changes nothing.  Only an octet of its length is stored.                *)
SubPacket(t, data) ==
  /\ Len(pl) + 2 + Len(data) <= Limit[builder]
  /\ pl' = pl \o <<t, Len(data) % W>> \o data
  /\ subs' = Append(subs, [type |-> t, data |-> data])

ExtAppend(t, data) ==
  /\ SubPacket(t, data)
  /\ UNCHANGED <<builder, room, behind, reading>>

(* Mutant: the pointer returned leaves the header out.                     *)
ExtAllocateAtHeader(t, data) ==
  /\ builder # "list"
  /\ SubPacket(t, data)
  /\ room' = [at |-> Len(pl), size |-> Len(data), sub |-> Len(subs')]
  /\ UNCHANGED <<builder, behind, reading>>

(* Space for data, which holds what it held before: the caller gets a      *)
(* pointer to fill it in.                                                  *)
ExtAllocate(t, data) ==
  /\ builder # "list"
  /\ SubPacket(t, data)
  /\ room' = [at |-> Len(pl) + 2, size |-> Len(data), sub |-> Len(subs')]
  /\ UNCHANGED <<builder, behind, reading>>

(* The caller fills it in, maybe after it has added more.                  *)
FillIn(data) ==
  /\ room # None /\ Len(data) = room.size
  /\ pl' = [k \in DOMAIN pl |-> IF k \in room.at+1..room.at+room.size
                                  THEN data[k - room.at] ELSE pl[k]]
  /\ subs' = [subs EXCEPT ![room.sub].data = data]
  /\ room' = None
  /\ UNCHANGED <<builder, behind, reading>>

(* tx_pkt_init, an empty buffer or a new NghamExtension.                   *)
Open(b) ==
  /\ builder = None /\ builder' = b
  /\ UNCHANGED <<pl, subs, room, behind, reading>>

Discard ==
  /\ builder' = None /\ pl' = <<>> /\ subs' = <<>> /\ room' = None
  /\ UNCHANGED <<behind, reading>>

Build ==
  /\ d = None
  /\ \/ \E b \in {"packet", "buffer", "list"} : Open(b)
     \/ /\ builder # None
        /\ \/ \E t \in SizedTypes : \E data \in Datas :
                FitsType(t, Len(data)) /\ (ExtAppend(t, data) \/ ExtAllocate(t, data))
           \/ \E data \in Datas : FillIn(data)
           \/ Discard

-----------------------------------------------------------------------------
(* Counting                                                                *)

Type(p, at) == p[at + 1]
Size(p, at) == p[at + 2]

(* Mutant: the data may go on past the end.                                *)
WholeHeaderOnly(p, at) == Len(p) >= at + 2

(* A whole sub-packet starts at this position.                             *)
Whole(p, at) == Len(p) >= at + 2 /\ Len(p) >= at + 2 + Size(p, at)

(* Mutant: the size of the data is not checked.                            *)
VerifiedTypeOnly(p, at) == ~ Type(p, at) > EXT_TYPES

(* Its type and size are accepted.  The table of sizes ends before the     *)
(* last type that is looked up in it.                                      *)
Verified(p, at) ==
  /\ ~ Type(p, at) > EXT_TYPES
  /\ LET t == Type(p, at)
         size == IF t \in SizedTypes THEN EXT_TYPE_SIZES[t] ELSE behind[t]
     IN  size \in {Size(p, at), EXT_SIZE_VARIABLE}

(* Where the whole sub-packets are that the loop comes to.  It ends at the *)
(* first that is not whole: octets left over at the end are ignored.       *)
StartsFrom(p) ==
  LET from[at \in Nat] == IF Whole(p, at) THEN {at} \cup from[at + 2 + Size(p, at)] ELSE {}
  IN  from
Starts(p) == StartsFrom(p)[0]

(* Mutant: sub-packets before one that is not accepted are counted.        *)
NumpktsSoFar(p) ==
  Cardinality({at \in Starts(p) : \A b \in Starts(p) : b <= at => Verified(p, b)})

(* ngh_ext_numpkts: none if one of them is not accepted.                   *)
Numpkts(p) == IF \A at \in Starts(p) : Verified(p, at) THEN Cardinality(Starts(p)) ELSE 0

-----------------------------------------------------------------------------
(* Reading                                                                 *)

Receive(p, from) ==
  /\ d = None /\ packets < MaxPackets
  /\ d' = p /\ sent' = from
  /\ start' = 0 /\ j' = 0
  /\ before' = m_pkts /\ packets' = packets + 1
  /\ UNCHANGED <<building, behind, m_pkts>>

EndOfPacket ==
  /\ d' = None /\ start' = 0 /\ j' = 0 /\ sent' = None /\ before' = Empty
  /\ UNCHANGED <<building, behind, packets>>

Unlisted == Type(d, start) >= EXT_TYPES \/ Size(d, start) + 2 > Len(d)

(* The second check of parse: it drops everything the map holds.           *)
ParseClear ==
  /\ d # None /\ j < Numpkts(d)
  /\ Unlisted
  /\ m_pkts' = Empty
  /\ EndOfPacket

(* A sub-packet takes the place of an earlier one of its type.             *)
ParseInsert ==
  /\ d # None /\ j < Numpkts(d)
  /\ ~ Unlisted
  /\ LET t == Type(d, start)
         data == SubSeq(d, start + 3, start + 2 + Size(d, start))
     IN  m_pkts' = [u \in DOMAIN m_pkts \cup {t} |-> IF u = t THEN data ELSE m_pkts[u]]
  /\ start' = start + 2 + Size(d, start)
  /\ j' = j + 1
  /\ UNCHANGED <<building, behind, d, sent, before, packets>>

ParseEnd ==
  /\ d # None /\ j >= Numpkts(d)
  /\ UNCHANGED m_pkts
  /\ EndOfPacket

Read ==
  \/ pl # <<>> /\ Receive(pl, subs)
  \/ builder = None /\ \E p \in Foreign : Receive(p, None)
  \/ ParseClear \/ ParseInsert \/ ParseEnd

Next == Build \/ Read

Spec == Init /\ [][Next]_vars

-----------------------------------------------------------------------------
(* Properties                                                              *)

TypeOK ==
  /\ pl \in Seq(Octets) /\ (builder # None => Len(pl) <= Limit[builder])
  /\ room # None => room.at + room.size <= Len(pl) /\ room.sub \in DOMAIN subs
  /\ start \in Nat /\ j \in Nat /\ packets \in 0..MaxPackets
  /\ DOMAIN m_pkts \subseteq 0..EXT_TYPES-1

(* parse walks with a check of its own that lets data end past the packet; *)
(* the count of ngh_ext_numpkts is all that keeps it inside.               *)
WalkStaysInside ==
  d # None /\ j < Numpkts(d) => start + 2 <= Len(d) /\ start + 2 + Size(d, start) <= Len(d)

(* What a builder of this code put together, filled in place or not, comes *)
(* out of the map: the last sub-packet of each type, octet for octet,      *)
(* unless one was too long for its length octet.                           *)
LastOf(t) == CHOOSE k \in 1..j : sent[k].type = t /\ \A i \in k+1..j : sent[i].type # t
BuiltPacketsReadBack ==
  d # None /\ sent # None /\ (\A k \in DOMAIN sent : Len(sent[k].data) < W) =>
    /\ Numpkts(d) = Len(sent)
    /\ \A k \in 1..j : LET t == sent[k].type
                       IN  t \in DOMAIN m_pkts /\ m_pkts[t] = sent[LastOf(t)].data

(* The getters take the data of a type for its structure without looking   *)
(* at its size: it has that size, whatever was received.                   *)
FieldsHaveTheirSize ==
  \A t \in DOMAIN m_pkts \cap SizedTypes : FitsType(t, Len(m_pkts[t]))

(* A packet is entered whole, or leaves the map as it was, or empties it:  *)
(* never only the sub-packets before one that is refused.                  *)
Entered(p, old, new) ==
  /\ \A t \in DOMAIN new : \/ t \in DOMAIN old /\ new[t] = old[t]
                          \/ \E a \in Starts(p) : Type(p, a) = t
  /\ \A a \in Starts(p) : Type(p, a) \in DOMAIN new
  /\ \A a \in Starts(p) :
       (\A b \in Starts(p) : Type(p, b) = Type(p, a) => b <= a) =>
         new[Type(p, a)] = SubSeq(p, a + 3, a + 2 + Size(p, a))
AllOrNothing ==
  [][d # None /\ d' = None => m_pkts' \in {before, Empty} \/ Entered(d, before, m_pkts')]_vars

(* ngh_ext_numpkts "Returns number of sub packets and verifies them": none *)
(* is entered whose type has no entry in the table of sizes.               *)
OnlyVerifiedSubPackets == \A t \in DOMAIN m_pkts : t \in SizedTypes
=============================================================================
