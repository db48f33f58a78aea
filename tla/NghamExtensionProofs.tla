------------------------ MODULE NghamExtensionProofs ------------------------
(***************************************************************************)
(* Extension packets of any size, of any octets and with any table of      *)
(* sizes: the reader stays inside the packet, the fields it keeps have     *)
(* their size, and a packet is entered whole or not at all.                *)
(***************************************************************************)
EXTENDS NghamExtension, FiniteSetTheorems, SequenceTheorems, WellFoundedInduction, TLAPS

-----------------------------------------------------------------------------
(* Induction, stated with a set in place of a predicate                    *)

LEMMA LeastNat ==
  ASSUME NEW T, T \subseteq Nat, T # {}
  PROVE  \E x \in T : \A y \in T : x <= y
<1> DEFINE R == OpToRel(<, Nat)
<1>1. IsWellFoundedOn(R, Nat)
  BY NatLessThanWellFounded
<1>2. \A x, y \in Nat : y < x => <<y, x>> \in R
  BY DEF OpToRel
<1> HIDE DEF R
<1>3. PICK x \in T : \A y \in T : ~ (<<y, x>> \in R)
  BY <1>1, WFMin
<1>4. \A y \in T : ~ (y < x)
  BY <1>2, <1>3
<1>5. QED
  BY <1>3, <1>4

LEMMA SetInduction ==
  ASSUME NEW S, 0 \in S, \A n \in Nat : n \in S => n + 1 \in S
  PROVE  Nat \subseteq S
<1> SUFFICES ASSUME Nat \ S # {} PROVE FALSE
  OBVIOUS
<1>1. PICK x \in Nat \ S : \A y \in Nat \ S : x <= y
  BY LeastNat
<1>2. x # 0 /\ x - 1 \in Nat /\ ~(x <= x - 1)
  BY <1>1
<1>3. x - 1 \in S /\ (x - 1) + 1 = x
  BY <1>1, <1>2
<1>4. QED
  BY <1>1, <1>2, <1>3

-----------------------------------------------------------------------------
(* The walk over the sub-packets                                           *)

Steps(p, from) == [at \in Nat |-> IF Whole(p, at) THEN {at} \cup from[at + 2 + Size(p, at)] ELSE {}]

LEMMA WholeFacts ==
  ASSUME NEW p \in Seq(Octets), NEW at \in Nat, Whole(p, at)
  PROVE  /\ Type(p, at) \in Octets /\ Size(p, at) \in Octets /\ Octets \subseteq Nat
         /\ at + 2 + Size(p, at) \in Nat /\ at + 2 <= at + 2 + Size(p, at)
         /\ at + 2 + Size(p, at) <= Len(p)
<1>1. at + 1 \in 1..Len(p) /\ at + 2 \in 1..Len(p)
  BY DEF Whole
<1>2. Type(p, at) \in Octets /\ Size(p, at) \in Octets
  BY <1>1 DEF Type, Size
<1>3. Octets \subseteq Nat
  BY TableAssumption DEF Octets
<1>4. Size(p, at) \in Nat
  BY <1>2, <1>3
<1>5. at + 2 + Size(p, at) <= Len(p)
  BY DEF Whole
<1>6. QED
  BY <1>2, <1>3, <1>4, <1>5

(* The loop ends: the recursion that describes it has a solution.          *)
LEMMA StartsFromExists ==
  ASSUME NEW p \in Seq(Octets)
  PROVE  \E from : from = Steps(p, from)
<1> DEFINE Good(from, n) == \A at \in Nat : at + n >= Len(p) => from[at] = Steps(p, from)[at]
           S == {n \in Nat : \E from \in [Nat -> SUBSET Nat] : Good(from, n)}
<1>1. 0 \in S
  <2> DEFINE from == [at \in Nat |-> {}]
  <2>1. from \in [Nat -> SUBSET Nat]
    OBVIOUS
  <2>2. ASSUME NEW at \in Nat, at + 0 >= Len(p)
        PROVE  from[at] = Steps(p, from)[at]
    <3>1. ~ Whole(p, at)
      BY <2>2 DEF Whole
    <3>2. QED  BY <3>1 DEF Steps
  <2>3. QED  BY <2>1, <2>2
<1>2. ASSUME NEW n \in Nat, n \in S
      PROVE  n + 1 \in S
  <2>1. PICK from \in [Nat -> SUBSET Nat] : Good(from, n)
    BY <1>2
  <2> DEFINE new == [at \in Nat |-> IF at + n >= Len(p) THEN from[at] ELSE Steps(p, from)[at]]
  <2>2. ASSUME NEW at \in Nat
        PROVE  Steps(p, from)[at] \in SUBSET Nat
    <3>1. CASE Whole(p, at)
      BY <3>1, WholeFacts DEF Steps
    <3>2. CASE ~ Whole(p, at)
      BY <3>2 DEF Steps
    <3>3. QED  BY <3>1, <3>2
  <2>3. new \in [Nat -> SUBSET Nat]
    BY <2>2
  <2>4. ASSUME NEW at \in Nat, at + (n + 1) >= Len(p)
        PROVE  new[at] = Steps(p, new)[at]
    <3>1. new[at] = Steps(p, from)[at]
      BY <2>1
    <3>2. CASE Whole(p, at)
      <4> DEFINE next == at + 2 + Size(p, at)
      <4>1. next \in Nat /\ next + n >= Len(p)
        BY <2>4, <3>2, WholeFacts
      <4> HIDE DEF next
      <4>2. new[next] = from[next]
        BY <4>1
      <4>3. QED  BY <3>1, <3>2, <4>2 DEF Steps, next
    <3>3. CASE ~ Whole(p, at)
      BY <3>1, <3>3 DEF Steps
    <3>4. QED  BY <3>2, <3>3
  <2> HIDE DEF new
  <2>5. QED  BY <2>3, <2>4
<1>3. Len(p) \in S
  <2> HIDE DEF S
  <2>1. Nat \subseteq S
    BY <1>1, <1>2, SetInduction
  <2>2. QED  BY <2>1
<1>4. PICK from \in [Nat -> SUBSET Nat] : Good(from, Len(p))
  BY <1>3
<1>5. \A at \in Nat : from[at] = Steps(p, from)[at]
  BY <1>4
<1>6. from = Steps(p, from)
  BY <1>5 DEF Steps
<1>7. QED
  BY <1>6

LEMMA StartsFromStep ==
  ASSUME NEW p \in Seq(Octets), NEW at \in Nat
  PROVE  StartsFrom(p)[at] =
           IF Whole(p, at) THEN {at} \cup StartsFrom(p)[at + 2 + Size(p, at)] ELSE {}
<1>1. StartsFrom(p) = CHOOSE from : from = Steps(p, from)
  BY DEF StartsFrom, Steps
<1>2. StartsFrom(p) = Steps(p, StartsFrom(p))
  BY <1>1, StartsFromExists
<1>3. QED
  BY <1>2 DEF Steps

(* The walk goes on forward, over whole sub-packets.                       *)
LEMMA StartsFromForward ==
  ASSUME NEW p \in Seq(Octets)
  PROVE  \A at \in Nat : \A a \in StartsFrom(p)[at] : a \in Nat /\ a >= at /\ a <= Len(p) /\ Whole(p, a)
<1> DEFINE Fwd(at) == \A a \in StartsFrom(p)[at] : a \in Nat /\ a >= at /\ a <= Len(p) /\ Whole(p, a)
           S == {n \in Nat : \A at \in Nat : at + n >= Len(p) => Fwd(at)}
<1>1. ASSUME NEW at \in Nat, ~ Whole(p, at)
      PROVE  Fwd(at)
  BY <1>1, StartsFromStep
<1>2. 0 \in S
  <2>1. ASSUME NEW at \in Nat, at + 0 >= Len(p)
        PROVE  ~ Whole(p, at)
    BY <2>1 DEF Whole
  <2> HIDE DEF Fwd
  <2>2. QED  BY <1>1, <2>1
<1>3. ASSUME NEW n \in Nat, n \in S
      PROVE  n + 1 \in S
  <2> SUFFICES ASSUME NEW at \in Nat, at + (n + 1) >= Len(p), Whole(p, at)
               PROVE  Fwd(at)
    <3> HIDE DEF Fwd
    <3> QED  BY <1>1
  <2> DEFINE next == at + 2 + Size(p, at)
  <2>1. next \in Nat /\ next + n >= Len(p) /\ next >= at /\ at <= Len(p)
    <3>1. next \in Nat /\ at + 2 <= next /\ next <= Len(p) /\ Len(p) \in Nat
      BY WholeFacts
    <3> HIDE DEF next
    <3>2. QED  BY <3>1
  <2>2. StartsFrom(p)[at] = {at} \cup StartsFrom(p)[next]
    BY StartsFromStep
  <2> HIDE DEF next
  <2>3. Fwd(next)
    BY <1>3, <2>1
  <2>4. QED  BY <2>1, <2>2, <2>3
<1>4. Nat \subseteq S
  <2> HIDE DEF S
  <2> QED  BY <1>2, <1>3, SetInduction
<1>5. ASSUME NEW at \in Nat PROVE Fwd(at)
  <2>1. Len(p) \in Nat /\ at + Len(p) >= Len(p)
    OBVIOUS
  <2>2. Len(p) \in S
    <3> HIDE DEF S
    <3> QED  BY <1>4, <2>1
  <2> HIDE DEF Fwd
  <2>3. QED  BY <2>1, <2>2
<1>6. QED
  BY <1>5

LEMMA StartsTypes ==
  ASSUME NEW p \in Seq(Octets)
  PROVE  /\ \A a \in Starts(p) : a \in Nat /\ Whole(p, a)
         /\ IsFiniteSet(Starts(p)) /\ Cardinality(Starts(p)) \in Nat
<1>1. \A a \in Starts(p) : a \in Nat /\ a <= Len(p) /\ Whole(p, a)
  BY StartsFromForward DEF Starts
<1>2. Starts(p) \subseteq 0..Len(p)
  BY <1>1
<1>3. IsFiniteSet(0..Len(p))
  BY FS_Interval
<1>4. IsFiniteSet(Starts(p))
  BY <1>2, <1>3, FS_Subset
<1>5. QED
  BY <1>1, <1>4, FS_CardinalityType

-----------------------------------------------------------------------------
(* The reader and the walk of ngh_ext_numpkts are at the same place        *)

Visited == {a \in Starts(d) : a < start}

ReaderInv ==
  /\ start \in Nat /\ j \in Nat
  /\ d # None => /\ d \in Seq(Octets)
                 /\ Starts(d) = Visited \cup StartsFrom(d)[start]
                 /\ Cardinality(Visited) = j
                 /\ j > 0 => j <= Numpkts(d)

LEMMA VisitedTypes ==
  ASSUME ReaderInv, d # None
  PROVE  IsFiniteSet(Visited) /\ Visited \subseteq Starts(d) /\ start \notin Visited
<1>1. IsFiniteSet(Starts(d)) /\ start \in Nat
  BY StartsTypes DEF ReaderInv
<1>2. Visited \subseteq Starts(d)
  BY DEF Visited
<1>3. start \notin Visited
  BY <1>1 DEF Visited
<1>4. QED
  BY <1>1, <1>2, <1>3, FS_Subset

(* As long as there is a packet to come, a whole one that was accepted     *)
(* starts where the reader is.                                             *)
LEMMA AtAStart ==
  ASSUME ReaderInv, d # None, j < Numpkts(d)
  PROVE  /\ start \in Starts(d) /\ Whole(d, start) /\ Verified(d, start)
         /\ Numpkts(d) = Cardinality(Starts(d))
<1>1. start \in Nat /\ j \in Nat /\ d \in Seq(Octets)
  BY DEF ReaderInv
<1>2. Numpkts(d) # 0
  BY <1>1
<1>3. Numpkts(d) = Cardinality(Starts(d)) /\ \A a \in Starts(d) : Verified(d, a)
  BY <1>2 DEF Numpkts
<1>4. Whole(d, start)
  <2> SUFFICES ASSUME ~ Whole(d, start) PROVE FALSE
    OBVIOUS
  <2>1. StartsFrom(d)[start] = {}
    BY <1>1, StartsFromStep
  <2>2. Starts(d) = Visited /\ Cardinality(Visited) = j
    BY <2>1 DEF ReaderInv
  <2>3. Numpkts(d) = j
    BY <1>3, <2>2
  <2>4. QED  BY <1>1, <2>3
<1>5. start \in StartsFrom(d)[start]
  BY <1>1, <1>4, StartsFromStep
<1>6. start \in Starts(d)
  BY <1>5 DEF ReaderInv
<1>7. QED
  BY <1>3, <1>4, <1>6

LEMMA NextStart ==
  ASSUME ReaderInv, d # None, j < Numpkts(d), NEW next, next = start + 2 + Size(d, start)
  PROVE  /\ next \in Nat /\ next > start
         /\ {a \in Starts(d) : a < next} = Visited \cup {start}
         /\ Starts(d) = (Visited \cup {start}) \cup StartsFrom(d)[next]
         /\ Cardinality(Visited \cup {start}) = j + 1 /\ j + 1 <= Numpkts(d)
<1>1. start \in Nat /\ j \in Nat /\ d \in Seq(Octets)
  BY DEF ReaderInv
<1>2. start \in Starts(d) /\ Whole(d, start) /\ Numpkts(d) = Cardinality(Starts(d))
  BY AtAStart
<1>3. next \in Nat /\ next > start
  <2>1. start + 2 + Size(d, start) \in Nat /\ start + 2 <= start + 2 + Size(d, start)
    BY <1>1, <1>2, WholeFacts
  <2>2. QED  BY <1>1, <2>1
<1>4. StartsFrom(d)[start] = {start} \cup StartsFrom(d)[next]
  BY <1>1, <1>2, StartsFromStep
<1>5. Starts(d) = (Visited \cup {start}) \cup StartsFrom(d)[next]
  BY <1>4 DEF ReaderInv
<1>6. \A a \in StartsFrom(d)[next] : a \in Nat /\ a >= next
  BY <1>1, <1>3, StartsFromForward
<1>7. {a \in Starts(d) : a < next} = Visited \cup {start}
  <2>1. ASSUME NEW a \in Visited PROVE a \in Starts(d) /\ a < next
    <3>1. a \in Nat /\ a < start /\ a \in Starts(d)
      BY <1>1, StartsTypes DEF Visited
    <3>2. QED  BY <1>1, <1>3, <3>1
  <2>2. ASSUME NEW a \in StartsFrom(d)[next] PROVE ~ (a < next)
    BY <1>3, <1>6
  <2>3. QED  BY <1>2, <1>3, <1>5, <2>1, <2>2
<1>8. Cardinality(Visited \cup {start}) = j + 1
  <2>1. IsFiniteSet(Visited) /\ start \notin Visited /\ Cardinality(Visited) = j
    BY VisitedTypes DEF ReaderInv
  <2>2. QED  BY <2>1, FS_AddElement
<1>9. j + 1 <= Numpkts(d)
  <2>1. Numpkts(d) \in Nat
    BY <1>1, <1>2, StartsTypes
  <2>2. QED  BY <1>1, <2>1
<1>10. QED
  BY <1>3, <1>5, <1>7, <1>8, <1>9

-----------------------------------------------------------------------------
(* The map holds what the visited sub-packets put there, and what was      *)
(* there before                                                            *)

EnteredSoFar(V, new) ==
  /\ \A t \in DOMAIN new : (t \in DOMAIN before /\ new[t] = before[t]) \/ \E a \in V : Type(d, a) = t
  /\ \A a \in V : Type(d, a) \in DOMAIN new
  /\ \A a \in V :
       (\A b \in V : Type(d, b) = Type(d, a) => b <= a) =>
         new[Type(d, a)] = SubSeq(d, a + 3, a + 2 + Size(d, a))

MapInv ==
  /\ DOMAIN m_pkts \subseteq 0..EXT_TYPES-1
  /\ FieldsHaveTheirSize
  /\ d # None => (j = 0 => m_pkts = before) /\ EnteredSoFar(Visited, m_pkts)

(* What the builders have, whatever is read.                               *)
BuilderInv ==
  /\ builder \in {"packet", "buffer", "list", None}
  /\ pl \in Seq(Octets) /\ subs \in Seq([type : SizedTypes, data : Datas])
  /\ builder # None => Len(pl) <= Limit[builder]
  /\ builder = None => pl = <<>>
  /\ room # None => /\ room \in [at : Nat, size : Nat, sub : Nat]
                    /\ room.at + room.size <= Len(pl) /\ room.sub \in DOMAIN subs

IInv == BuilderInv /\ ReaderInv /\ MapInv /\ packets \in 0..MaxPackets

-----------------------------------------------------------------------------
(* Building                                                                *)

LEMMA SizedTypesFacts ==
  /\ SizedTypes \subseteq 0..EXT_TYPES-1 /\ SizedTypes \subseteq Octets
  /\ EXT_TYPES \in Nat \ {0} /\ Octets \subseteq Nat /\ W \in Nat \ {0}
<1>1. W \in Nat \ {0} /\ EXT_TYPES \in 0..W-1
  BY TableAssumption DEF Octets
<1>2. PICK n \in 1..EXT_TYPES : SizedTypes = 0..n-1
  BY TableAssumption
<1>3. \A t \in SizedTypes : t \in 0..EXT_TYPES-1 /\ t \in 0..W-1
  BY <1>1, <1>2
<1>4. QED
  BY <1>1, <1>2, <1>3 DEF Octets

LEMMA LimitTypes ==
  ASSUME NEW b \in {"packet", "buffer", "list"}
  PROVE  Limit[b] \in Nat
<1>1. NGHAM_PL_MAX \in Nat /\ D_SIZE \in Nat /\ MaxList \in Nat
  BY PayloadAssumption, SizedTypesFacts
<1>2. QED
  BY <1>1 DEF Limit

(* A sub-packet lies behind the others.                                    *)
LEMMA SubPacketLaid ==
  ASSUME BuilderInv, NEW t \in SizedTypes, NEW data \in Datas, SubPacket(t, data)
  PROVE  /\ pl' \in Seq(Octets) /\ Len(pl') = Len(pl) + 2 + Len(data)
         /\ \A k \in 1..Len(pl) : pl'[k] = pl[k]
         /\ pl'[Len(pl) + 1] = t /\ pl'[Len(pl) + 2] = Len(data) % W
         /\ \A k \in 1..Len(data) : pl'[Len(pl) + 2 + k] = data[k]
         /\ subs' \in Seq([type : SizedTypes, data : Datas]) /\ Len(subs') = Len(subs) + 1
         /\ \A k \in 1..Len(subs) : subs'[k] = subs[k]
         /\ subs'[Len(subs) + 1] = [type |-> t, data |-> data]
<1> DEFINE head == <<t, Len(data) % W>>
           ph == pl \o head
<1>1. t \in Octets /\ Len(data) % W \in Octets
  <2>1. Len(data) \in Nat /\ W \in Nat \ {0}
    BY PayloadAssumption, SizedTypesFacts
  <2>2. Len(data) % W \in 0..W-1
    BY <2>1
  <2>3. QED  BY <2>2, SizedTypesFacts DEF Octets
<1>2. head \in Seq(Octets) /\ Len(head) = 2 /\ head[1] = t /\ head[2] = Len(data) % W
  BY <1>1
<1>3. pl \in Seq(Octets) /\ data \in Seq(Octets)
  BY PayloadAssumption DEF BuilderInv
<1>4. pl' = ph \o data
  BY DEF SubPacket
<1> HIDE DEF head
<1>5. /\ ph \in Seq(Octets) /\ Len(ph) = Len(pl) + 2
      /\ \A k \in 1..Len(pl) + 2 : ph[k] = IF k <= Len(pl) THEN pl[k] ELSE head[k - Len(pl)]
  <2>1. /\ ph \in Seq(Octets) /\ Len(ph) = Len(pl) + Len(head)
        /\ \A k \in 1..Len(pl) + Len(head) : ph[k] = IF k <= Len(pl) THEN pl[k] ELSE head[k - Len(pl)]
    BY <1>2, <1>3, ConcatProperties
  <2> HIDE DEF ph
  <2>2. QED  BY <1>2, <2>1
<1> HIDE DEF ph
<1>6. /\ pl' \in Seq(Octets) /\ Len(pl') = Len(ph) + Len(data)
      /\ \A k \in 1..Len(ph) + Len(data) : pl'[k] = IF k <= Len(ph) THEN ph[k] ELSE data[k - Len(ph)]
  BY <1>3, <1>4, <1>5, ConcatProperties, ZenonT(60)
<1>7. Len(pl) \in Nat /\ Len(data) \in Nat
  BY <1>3
<1>8. ASSUME NEW k \in 1..Len(pl) + 2
      PROVE  pl'[k] = ph[k]
  <2>1. k \in 1..Len(ph) + Len(data) /\ k <= Len(ph)
    BY <1>5, <1>7
  <2>2. QED  BY <1>6, <2>1
<1>9. \A k \in 1..Len(pl) : pl'[k] = pl[k]
  BY <1>5, <1>7, <1>8
<1>10. pl'[Len(pl) + 1] = t /\ pl'[Len(pl) + 2] = Len(data) % W
  <2>1. /\ Len(pl) + 1 \in 1..Len(pl) + 2 /\ ~ (Len(pl) + 1 <= Len(pl)) /\ Len(pl) + 1 - Len(pl) = 1
        /\ Len(pl) + 2 \in 1..Len(pl) + 2 /\ ~ (Len(pl) + 2 <= Len(pl)) /\ Len(pl) + 2 - Len(pl) = 2
    BY <1>7
  <2>2. QED  BY <1>2, <1>5, <1>8, <2>1
<1>11. ASSUME NEW k \in 1..Len(data)
       PROVE  pl'[Len(pl) + 2 + k] = data[k]
  <2>1. /\ Len(pl) + 2 + k \in 1..Len(ph) + Len(data) /\ ~ (Len(pl) + 2 + k <= Len(ph))
        /\ Len(pl) + 2 + k - Len(ph) = k
    BY <1>5, <1>7
  <2>2. QED  BY <1>6, <2>1
<1>12. Len(pl') = Len(pl) + 2 + Len(data)
  BY <1>5, <1>6, <1>7
<1>13. /\ subs' \in Seq([type : SizedTypes, data : Datas]) /\ Len(subs') = Len(subs) + 1
       /\ \A k \in 1..Len(subs) : subs'[k] = subs[k]
       /\ subs'[Len(subs) + 1] = [type |-> t, data |-> data]
  <2> DEFINE S == [type : SizedTypes, data : Datas]
             e == [type |-> t, data |-> data]
  <2>1. subs \in Seq(S) /\ e \in S /\ subs' = Append(subs, e)
    BY DEF BuilderInv, SubPacket
  <2> HIDE DEF S, e
  <2>2. QED  BY <2>1, AppendProperties DEF S, e
<1>14. QED
  BY <1>6, <1>9, <1>10, <1>11, <1>12, <1>13

(* Filling in changes the data of one sub-packet, and its octets.          *)
LEMMA FilledIn ==
  ASSUME BuilderInv, NEW data \in Datas, FillIn(data)
  PROVE  /\ room \in [at : Nat, size : Nat, sub : Nat] /\ Len(data) = room.size
         /\ room.sub \in 1..Len(subs)
         /\ pl' \in Seq(Octets) /\ Len(pl') = Len(pl)
         /\ \A k \in 1..Len(pl) :
              pl'[k] = IF k \in room.at+1..room.at+room.size THEN data[k - room.at] ELSE pl[k]
         /\ subs' \in Seq([type : SizedTypes, data : Datas]) /\ Len(subs') = Len(subs)
         /\ \A k \in 1..Len(subs) : k # room.sub => subs'[k] = subs[k]
         /\ subs'[room.sub] = [type |-> subs[room.sub].type, data |-> data]
<1> DEFINE S == [type : SizedTypes, data : Datas]
           x == room.sub
<1>1. /\ room \in [at : Nat, size : Nat, sub : Nat] /\ Len(data) = room.size
      /\ pl \in Seq(Octets) /\ data \in Seq(Octets) /\ room.at \in Nat /\ room.size \in Nat
  <2>1. room \in [at : Nat, size : Nat, sub : Nat] /\ Len(data) = room.size /\ pl \in Seq(Octets)
    BY DEF BuilderInv, FillIn
  <2>2. data \in Seq(Octets)
    BY PayloadAssumption
  <2>3. room.at \in Nat /\ room.size \in Nat
    BY <2>1
  <2>4. QED  BY <2>1, <2>2, <2>3
<1>2. subs \in Seq(S) /\ DOMAIN subs = 1..Len(subs) /\ x \in 1..Len(subs) /\ subs[x] \in S
  <2>1. subs \in Seq(S) /\ x \in DOMAIN subs
    BY DEF BuilderInv, FillIn
  <2> HIDE DEF S, x
  <2>2. DOMAIN subs = 1..Len(subs)
    BY <2>1
  <2>3. QED  BY <2>1, <2>2
<1>3. DOMAIN pl = 1..Len(pl) /\ Len(pl) \in Nat
  BY <1>1
<1> DEFINE e(k) == IF k \in room.at+1..room.at+room.size THEN data[k - room.at] ELSE pl[k]
<1>4. pl' = [k \in 1..Len(pl) |-> e(k)]
  BY <1>3 DEF FillIn
<1>5. ASSUME NEW k \in 1..Len(pl) PROVE e(k) \in Octets
  <2>1. CASE k \in room.at+1..room.at+room.size
    <3>1. k - room.at \in 1..Len(data)
      BY <1>1, <2>1
    <3>2. data[k - room.at] \in Octets
      BY <1>1, <3>1
    <3>3. QED  BY <2>1, <3>2
  <2>2. CASE k \notin room.at+1..room.at+room.size
    BY <1>1, <2>2
  <2>3. QED  BY <2>1, <2>2
<1>6. pl' \in Seq(Octets) /\ Len(pl') = Len(pl) /\ \A k \in 1..Len(pl) : pl'[k] = e(k)
  <2> HIDE DEF e
  <2> QED  BY <1>3, <1>4, <1>5
<1>7. subs' = [subs EXCEPT ![x] = [type |-> subs[x].type, data |-> data]]
  <2>1. subs' = [subs EXCEPT ![x].data = data]
    BY DEF FillIn
  <2>2. [subs[x] EXCEPT !.data = data] = [type |-> subs[x].type, data |-> data]
    BY <1>2
  <2>3. QED  BY <2>1, <2>2
<1>8. [type |-> subs[x].type, data |-> data] \in S
  BY <1>2
<1>9. /\ subs' \in Seq(S) /\ Len(subs') = Len(subs)
      /\ \A k \in 1..Len(subs) : k # x => subs'[k] = subs[k]
      /\ subs'[x] = [type |-> subs[x].type, data |-> data]
  <2> DEFINE f == [type |-> subs[x].type, data |-> data]
  <2>1. f \in S /\ subs' = [subs EXCEPT ![x] = f]
    BY <1>7, <1>8
  <2> HIDE DEF f, S, x
  <2>2. QED  BY <1>2, <2>1, ExceptSeq DEF f
<1>10. QED
  BY <1>1, <1>2, <1>6, <1>9

LEMMA BuilderInductive ==
  ASSUME BuilderInv, Build \/ Read \/ UNCHANGED vars
  PROVE  BuilderInv'
<1>1. /\ builder \in {"packet", "buffer", "list", None} /\ pl \in Seq(Octets)
      /\ subs \in Seq([type : SizedTypes, data : Datas])
      /\ builder # None => Len(pl) <= Limit[builder]
      /\ room # None => /\ room \in [at : Nat, size : Nat, sub : Nat]
                        /\ room.at + room.size <= Len(pl) /\ room.sub \in DOMAIN subs
  BY DEF BuilderInv
<1>2. CASE Read \/ UNCHANGED vars
  <2>1. UNCHANGED building
    BY <1>2 DEF Read, Receive, ParseClear, ParseInsert, ParseEnd, EndOfPacket, vars
  <2>2. QED  BY <2>1 DEF BuilderInv, building
<1>3. ASSUME NEW b \in {"packet", "buffer", "list"}, Open(b)
      PROVE  BuilderInv'
  <2>1. pl = <<>> /\ pl' = pl /\ subs' = subs /\ room' = room /\ builder' = b /\ Len(pl) = 0
    BY <1>3 DEF Open, BuilderInv
  <2>2. Limit[b] \in Nat
    BY LimitTypes
  <2>3. b # None
    BY NoneAssumption
  <2>4. 0 <= Limit[b]
    BY <2>2
  <2>5. QED  BY <1>1, <2>1, <2>3, <2>4 DEF BuilderInv
<1>4. ASSUME builder # None, NEW t \in SizedTypes, NEW data \in Datas, SubPacket(t, data), builder' = builder,
             room' = room \/ room' = [at |-> Len(pl) + 2, size |-> Len(data), sub |-> Len(subs')]
      PROVE  BuilderInv'
  <2>1. /\ pl' \in Seq(Octets) /\ Len(pl') = Len(pl) + 2 + Len(data)
        /\ subs' \in Seq([type : SizedTypes, data : Datas]) /\ Len(subs') = Len(subs) + 1
    BY <1>4, SubPacketLaid
  <2>2. Len(pl) \in Nat /\ Len(data) \in Nat /\ Len(subs) \in Nat
    BY <1>1, PayloadAssumption
  <2>3. Len(pl') <= Limit[builder]
    BY <1>4, <2>1, <2>2 DEF SubPacket
  <2>4. DOMAIN subs = 1..Len(subs) /\ DOMAIN subs' = 1..Len(subs')
    BY <1>1, <2>1
  <2>5. CASE room' = room
    <3>1. room # None => room.at + room.size <= Len(pl') /\ room.sub \in DOMAIN subs'
      BY <1>1, <2>1, <2>2, <2>4
    <3>2. QED  BY <1>1, <1>4, <2>1, <2>3, <2>5, <3>1 DEF BuilderInv
  <2>6. CASE room' = [at |-> Len(pl) + 2, size |-> Len(data), sub |-> Len(subs')]
    <3>1. room' \in [at : Nat, size : Nat, sub : Nat] /\ room'.at + room'.size <= Len(pl') /\ room'.sub \in DOMAIN subs'
      BY <2>1, <2>2, <2>4, <2>6
    <3>2. QED  BY <1>1, <1>4, <2>1, <2>3, <3>1 DEF BuilderInv
  <2>7. QED  BY <1>4, <2>5, <2>6
<1>5. ASSUME builder # None, NEW data \in Datas, FillIn(data)
      PROVE  BuilderInv'
  <2>1. /\ pl' \in Seq(Octets) /\ Len(pl') = Len(pl)
        /\ subs' \in Seq([type : SizedTypes, data : Datas]) /\ builder' = builder /\ room' = None
    BY <1>5, FilledIn DEF FillIn
  <2>2. QED  BY <1>1, <1>5, <2>1 DEF BuilderInv
<1>6. CASE Discard
  BY <1>6 DEF Discard, BuilderInv
<1>7. CASE Build
  <2>1. CASE \E b \in {"packet", "buffer", "list"} : Open(b)
    BY <1>3, <2>1
  <2>2. ASSUME builder # None, NEW t \in SizedTypes, NEW data \in Datas, ExtAppend(t, data) \/ ExtAllocate(t, data)
        PROVE  BuilderInv'
    BY <1>4, <2>2 DEF ExtAppend, ExtAllocate
  <2>3. QED  BY <1>5, <1>6, <1>7, <2>1, <2>2 DEF Build
<1>8. QED
  BY <1>2, <1>7

-----------------------------------------------------------------------------
(* Reading                                                                 *)

LEMMA ReceiveSteps ==
  ASSUME IInv, NEW p \in Seq(Octets), NEW from, Receive(p, from)
  PROVE  ReaderInv' /\ MapInv' /\ packets' \in 0..MaxPackets
<1>1. /\ d = None /\ d' = p /\ start' = 0 /\ j' = 0 /\ before' = m_pkts /\ m_pkts' = m_pkts
      /\ behind' = behind /\ packets' = packets + 1 /\ packets < MaxPackets
  BY DEF Receive
<1>2. Visited' = {}
  <2>1. \A a \in Starts(p) : a \in Nat
    BY StartsTypes
  <2>2. Visited' = {a \in Starts(p) : a < 0}
    BY <1>1 DEF Visited
  <2>3. \A a \in Starts(p) : ~ (a < 0)
    BY <2>1
  <2>4. QED  BY <2>2, <2>3
<1>3. ReaderInv'
  <2>1. Cardinality({}) = 0
    BY FS_EmptySet
  <2>2. Starts(p) = StartsFrom(p)[0]
    BY DEF Starts
  <2>3. Starts(d') = Visited' \cup StartsFrom(d')[start']
    BY <1>1, <1>2, <2>2
  <2>4. QED  BY <1>1, <1>2, <2>1, <2>3 DEF ReaderInv
<1>4. MapInv'
  <2>1. FieldsHaveTheirSize'
    BY <1>1 DEF IInv, MapInv, FieldsHaveTheirSize
  <2>2. (EnteredSoFar(Visited, m_pkts))'
    BY <1>1, <1>2 DEF EnteredSoFar
  <2>3. QED  BY <1>1, <2>1, <2>2 DEF IInv, MapInv
<1>5. packets' \in 0..MaxPackets
  BY <1>1, PayloadAssumption DEF IInv
<1>6. QED
  BY <1>3, <1>4, <1>5

LEMMA EndSteps ==
  ASSUME IInv, EndOfPacket, m_pkts' \in {m_pkts, Empty}
  PROVE  ReaderInv' /\ MapInv' /\ packets' \in 0..MaxPackets
<1>1. d' = None /\ start' = 0 /\ j' = 0 /\ packets' = packets
  BY DEF EndOfPacket
<1>2. MapInv'
  <2>1. DOMAIN m_pkts' \subseteq 0..EXT_TYPES-1 /\ FieldsHaveTheirSize'
    BY DEF IInv, MapInv, FieldsHaveTheirSize, Empty
  <2>2. QED  BY <1>1, <2>1 DEF MapInv
<1>3. QED
  BY <1>1, <1>2 DEF IInv, ReaderInv

(* A sub-packet that is entered has the size its type asks for.            *)
LEMMA InsertedFits ==
  ASSUME ReaderInv, d # None, j < Numpkts(d), ~ Unlisted
  PROVE  LET t == Type(d, start)
             data == SubSeq(d, start + 3, start + 2 + Size(d, start))
         IN  t \in 0..EXT_TYPES-1 /\ (t \in SizedTypes => FitsType(t, Len(data)))
<1> DEFINE t == Type(d, start)
           size == Size(d, start)
           data == SubSeq(d, start + 3, start + 2 + size)
<1>1. start \in Nat /\ d \in Seq(Octets) /\ Whole(d, start) /\ Verified(d, start)
  BY AtAStart DEF ReaderInv
<1>2. t \in Octets /\ size \in Octets /\ Octets \subseteq Nat /\ start + 2 + size <= Len(d)
  BY <1>1, WholeFacts
<1>3. t \in 0..EXT_TYPES-1
  <2>1. ~ (t >= EXT_TYPES)
    BY DEF Unlisted
  <2>2. t \in Nat /\ EXT_TYPES \in Nat
    BY <1>2, SizedTypesFacts
  <2> HIDE DEF t
  <2>3. QED  BY <2>1, <2>2
<1> DEFINE m == start + 3
           n == start + 2 + size
<1>4. Len(data) = size
  <2>1. m \in Int /\ n \in Int /\ \A i \in m..n : d[i] \in Octets
    <3>1. size \in Nat
      BY <1>2
    <3>2. start + 2 + size <= Len(d)
      BY <1>2
    <3> HIDE DEF size
    <3>3. QED  BY <1>1, <3>1, <3>2
  <2>2. data = SubSeq(d, m, n)
    OBVIOUS
  <2>3. size \in Nat /\ (IF m <= n THEN n - m + 1 ELSE 0) = size
    <3>1. size \in Nat
      BY <1>2
    <3> HIDE DEF size
    <3>2. QED  BY <1>1, <3>1
  <2> HIDE DEF m, n, data, size
  <2>4. Len(SubSeq(d, m, n)) = IF m <= n THEN n - m + 1 ELSE 0
    BY <2>1, SubSeqProperties
  <2>5. QED  BY <2>2, <2>3, <2>4
<1>5. t \in SizedTypes => FitsType(t, Len(data))
  <2> SUFFICES ASSUME t \in SizedTypes PROVE FitsType(t, Len(data))
    OBVIOUS
  <2>1. EXT_TYPE_SIZES[t] \in {size, EXT_SIZE_VARIABLE}
    BY <1>1 DEF Verified
  <2> HIDE DEF t, size, data
  <2>2. QED  BY <1>4, <2>1 DEF FitsType
<1>6. QED
  BY <1>3, <1>5

LEMMA InsertSteps ==
  ASSUME IInv, ParseInsert
  PROVE  ReaderInv' /\ MapInv' /\ packets' \in 0..MaxPackets
<1> DEFINE t == Type(d, start)
           next == start + 2 + Size(d, start)
           data == SubSeq(d, start + 3, start + 2 + Size(d, start))
           V == Visited \cup {start}
<1>1. /\ d # None /\ j < Numpkts(d) /\ ~ Unlisted
      /\ m_pkts' = [u \in DOMAIN m_pkts \cup {t} |-> IF u = t THEN data ELSE m_pkts[u]]
      /\ start' = next /\ j' = j + 1 /\ d' = d /\ before' = before /\ behind' = behind /\ packets' = packets
  BY DEF ParseInsert
<1>2. ReaderInv /\ MapInv /\ d \in Seq(Octets) /\ start \in Nat /\ j \in Nat
  BY <1>1 DEF IInv, ReaderInv
<1>3. /\ next \in Nat /\ next > start /\ {a \in Starts(d) : a < next} = V
      /\ Starts(d) = V \cup StartsFrom(d)[next] /\ Cardinality(V) = j + 1 /\ j + 1 <= Numpkts(d)
  BY <1>1, <1>2, NextStart
<1>4. t \in 0..EXT_TYPES-1 /\ (t \in SizedTypes => FitsType(t, Len(data)))
  BY <1>1, <1>2, InsertedFits
<1>5. Visited' = V
  BY <1>1, <1>3 DEF Visited
<1>6. (Numpkts(d))' = Numpkts(d)
  BY <1>1 DEF Numpkts, Verified
<1>7. ReaderInv'
  <2>1. j' \in Nat /\ start' \in Nat
    BY <1>1, <1>2, <1>3
  <2>2. Starts(d') = Visited' \cup StartsFrom(d')[start']
    BY <1>1, <1>3, <1>5
  <2>3. Cardinality(Visited') = j' /\ j' <= (Numpkts(d))'
    BY <1>1, <1>3, <1>5, <1>6
  <2>4. QED  BY <1>1, <1>2, <2>1, <2>2, <2>3 DEF ReaderInv
<1>8. \A a \in Visited : a \in Nat /\ a < start
  BY <1>2, StartsTypes DEF Visited
<1>9. MapInv'
  <2> HIDE DEF t, data, next
  <2>1. EnteredSoFar(Visited, m_pkts)
    BY <1>1, <1>2 DEF MapInv
  <2>2. DOMAIN m_pkts' = DOMAIN m_pkts \cup {t} /\ m_pkts'[t] = data /\ \A u \in DOMAIN m_pkts : u # t => m_pkts'[u] = m_pkts[u]
    BY <1>1
  <2>3. t = Type(d, start) /\ data = SubSeq(d, start + 3, start + 2 + Size(d, start))
    BY DEF t, data
  <2>4. ASSUME NEW u \in DOMAIN m_pkts'
        PROVE  (u \in DOMAIN before /\ m_pkts'[u] = before[u]) \/ \E a \in V : Type(d, a) = u
    <3>1. CASE u = t
      BY <2>3, <3>1
    <3>2. CASE u # t
      BY <2>1, <2>2, <3>2 DEF EnteredSoFar
    <3>3. QED  BY <3>1, <3>2
  <2>5. \A a \in V : Type(d, a) \in DOMAIN m_pkts'
    BY <2>1, <2>2, <2>3 DEF EnteredSoFar
  <2>6. ASSUME NEW a \in V, \A b \in V : Type(d, b) = Type(d, a) => b <= a
        PROVE  m_pkts'[Type(d, a)] = SubSeq(d, a + 3, a + 2 + Size(d, a))
    <3>1. CASE a = start
      BY <2>2, <2>3, <3>1
    <3>2. CASE a \in Visited
      <4>1. a \in Nat /\ ~ (start <= a)
        BY <1>2, <1>8, <3>2
      <4>2. Type(d, a) # t
        BY <2>3, <2>6, <4>1
      <4>3. m_pkts[Type(d, a)] = SubSeq(d, a + 3, a + 2 + Size(d, a)) /\ Type(d, a) \in DOMAIN m_pkts
        BY <2>1, <2>6, <3>2 DEF EnteredSoFar
      <4>4. QED  BY <2>2, <4>2, <4>3
    <3>3. QED  BY <3>1, <3>2
  <2>7. (EnteredSoFar(Visited, m_pkts))'
    <3> HIDE DEF V
    <3>1. Visited' = V /\ d' = d /\ before' = before
      BY <1>1, <1>5
    <3>2. QED  BY <2>4, <2>5, <2>6, <3>1 DEF EnteredSoFar, Type, Size
  <2>8. FieldsHaveTheirSize'
    <3> SUFFICES ASSUME NEW u \in DOMAIN m_pkts' \cap SizedTypes PROVE FitsType(u, Len(m_pkts'[u]))
      BY DEF FieldsHaveTheirSize
    <3>1. CASE u = t
      BY <1>4, <2>2, <3>1
    <3>2. CASE u # t
      BY <1>2, <2>2, <3>2 DEF MapInv, FieldsHaveTheirSize
    <3>3. QED  BY <3>1, <3>2
  <2>9. DOMAIN m_pkts' \subseteq 0..EXT_TYPES-1
    BY <1>2, <1>4, <2>2 DEF MapInv
  <2>10. j' # 0
    BY <1>1, <1>2
  <2>11. QED  BY <2>7, <2>8, <2>9, <2>10 DEF MapInv
<1>10. QED
  BY <1>1, <1>7, <1>9 DEF IInv

LEMMA Inductive == IInv /\ [Next]_vars => IInv'
<1> SUFFICES ASSUME IInv, [Next]_vars PROVE IInv'
  OBVIOUS
<1>1. BuilderInv'
  BY BuilderInductive DEF IInv, Next
<1> SUFFICES ReaderInv' /\ MapInv' /\ packets' \in 0..MaxPackets
  BY <1>1 DEF IInv
<1>2. ASSUME UNCHANGED reading, behind' = behind
      PROVE  ReaderInv' /\ MapInv' /\ packets' \in 0..MaxPackets
  <2>1. UNCHANGED <<d, start, j, sent, before, m_pkts, packets>>
    BY <1>2 DEF reading
  <2>2. UNCHANGED <<Visited, Numpkts(d)>>
    BY <1>2, <2>1 DEF Visited, Numpkts, Verified
  <2>3. ReaderInv'
    BY <2>1, <2>2 DEF IInv, ReaderInv
  <2>4. UNCHANGED EnteredSoFar(Visited, m_pkts)
    BY <2>1, <2>2 DEF EnteredSoFar, Type, Size
  <2>5. MapInv'
    BY <2>1, <2>4 DEF IInv, MapInv, FieldsHaveTheirSize
  <2>6. QED  BY <2>1, <2>3, <2>5 DEF IInv
<1>3. CASE Build
  BY <1>2, <1>3 DEF Build, Open, ExtAppend, ExtAllocate, FillIn, Discard
<1>4. CASE UNCHANGED vars
  BY <1>2, <1>4 DEF vars
<1>5. CASE Read
  <2>1. ASSUME NEW p \in Seq(Octets), NEW from, Receive(p, from)
        PROVE  ReaderInv' /\ MapInv' /\ packets' \in 0..MaxPackets
    BY <2>1, ReceiveSteps
  <2>2. pl \in Seq(Octets) /\ Foreign \subseteq Seq(Octets)
    BY PayloadAssumption DEF IInv, BuilderInv
  <2>3. CASE ParseClear \/ ParseEnd
    BY <2>3, EndSteps DEF ParseClear, ParseEnd
  <2>4. CASE ParseInsert
    BY <2>4, InsertSteps
  <2>5. QED  BY <1>5, <2>1, <2>2, <2>3, <2>4 DEF Read
<1>6. QED
  BY <1>3, <1>4, <1>5 DEF Next

LEMMA Invariant == Spec => []IInv
<1>1. Init => IInv
  <2> SUFFICES ASSUME Init PROVE IInv
    OBVIOUS
  <2>1. BuilderInv
    BY DEF Init, BuilderInv
  <2>2. ReaderInv /\ MapInv
    BY DEF Init, ReaderInv, MapInv, FieldsHaveTheirSize, Empty
  <2>3. packets \in 0..MaxPackets
    BY PayloadAssumption DEF Init
  <2>4. QED  BY <2>1, <2>2, <2>3 DEF IInv
<1>2. QED
  BY <1>1, Inductive, PTL DEF Spec

-----------------------------------------------------------------------------
(* Every variable keeps its type, what is built stays within its limit,    *)
(* and space given out stays inside it.                                    *)
THEOREM TypeCorrect == Spec => []TypeOK
<1>1. IInv => TypeOK
  BY DEF IInv, BuilderInv, ReaderInv, MapInv, TypeOK
<1>2. QED
  BY <1>1, Invariant, PTL

(* NghamExtension::parse reads no octet behind the packet, whatever a      *)
(* foreign station sends and whatever memory holds behind the table.       *)
THEOREM ReaderStaysInside == Spec => []WalkStaysInside
<1>1. IInv => WalkStaysInside
  <2> SUFFICES ASSUME IInv, d # None, j < Numpkts(d)
               PROVE  start + 2 <= Len(d) /\ start + 2 + Size(d, start) <= Len(d)
    BY DEF WalkStaysInside
  <2>1. Whole(d, start) /\ d \in Seq(Octets) /\ start \in Nat
    BY AtAStart DEF IInv, ReaderInv
  <2>2. QED  BY <2>1 DEF Whole
<1>2. QED
  BY <1>1, Invariant, PTL

(* Data that a getter takes for a structure has the size of the structure, *)
(* after any sequence of packets.                                          *)
THEOREM FieldsFit == Spec => []FieldsHaveTheirSize
<1>1. IInv => FieldsHaveTheirSize
  BY DEF IInv, MapInv
<1>2. QED
  BY <1>1, Invariant, PTL

(* When parse returns, the packet is entered whole, or the map is as it    *)
(* was, or it is empty.                                                    *)
THEOREM EnteredWholeOrNot == Spec => AllOrNothing
<1>1. ASSUME IInv, [Next]_vars, d # None, d' = None
      PROVE  m_pkts' \in {before, Empty} \/ Entered(d, before, m_pkts')
  <2>1. CASE ParseClear
    BY <2>1 DEF ParseClear
  <2>2. CASE ParseEnd
    <3>1. ReaderInv /\ MapInv /\ m_pkts' = m_pkts /\ j >= Numpkts(d) /\ d \in Seq(Octets) /\ j \in Nat
      BY <1>1, <2>2 DEF IInv, ReaderInv, ParseEnd
    <3>2. CASE j = 0
      BY <1>1, <3>1, <3>2 DEF MapInv
    <3>3. CASE j # 0
      <4>1. Numpkts(d) # 0 /\ Numpkts(d) = j
        <5>1. j > 0 /\ j <= Numpkts(d)
          BY <1>1, <3>1, <3>3 DEF ReaderInv
        <5>2. Numpkts(d) \in Nat
          BY <3>1, StartsTypes DEF Numpkts
        <5>3. QED  BY <3>1, <5>1, <5>2
      <4>2. Cardinality(Visited) = Cardinality(Starts(d))
        BY <1>1, <3>1, <4>1 DEF ReaderInv, Numpkts
      <4>3. Visited = Starts(d)
        <5>1. IsFiniteSet(Starts(d)) /\ Visited \subseteq Starts(d)
          BY <1>1, <3>1, StartsTypes, VisitedTypes
        <5>2. QED  BY <4>2, <5>1, FS_Subset
      <4>4. EnteredSoFar(Starts(d), m_pkts)
        BY <1>1, <3>1, <4>3 DEF MapInv
      <4>5. QED  BY <3>1, <4>4 DEF EnteredSoFar, Entered
    <3>4. QED  BY <3>2, <3>3
  <2>3. d' # None \/ ParseClear \/ ParseEnd
    <3>1. CASE UNCHANGED vars
      BY <1>1, <3>1 DEF vars, reading
    <3>2. CASE Build
      BY <1>1, <3>2 DEF Build
    <3>3. CASE ParseInsert
      BY <1>1, <3>3 DEF ParseInsert
    <3>4. ASSUME NEW p, NEW from, Receive(p, from)
          PROVE  FALSE
      BY <1>1, <3>4 DEF Receive
    <3>5. QED  BY <1>1, <3>1, <3>2, <3>3, <3>4 DEF Next, Read
  <2>4. QED  BY <1>1, <2>1, <2>2, <2>3
<1>2. IInv /\ [Next]_vars =>
        [d # None /\ d' = None => m_pkts' \in {before, Empty} \/ Entered(d, before, m_pkts')]_vars
  BY <1>1
<1>3. QED
  BY <1>2, Invariant, PTL DEF Spec, AllOrNothing

-----------------------------------------------------------------------------
(* The octets of a built packet: where each sub-packet of it lies          *)

Subs == [type : SizedTypes, data : Datas]

(* The k-th sub-packet of list lies behind off[k] octets of p.             *)
Laid(off, p, list) ==
  /\ off \in [1..Len(list)+1 -> Nat] /\ off[1] = 0 /\ off[Len(list)+1] = Len(p)
  /\ \A k \in 1..Len(list) :
       /\ off[k+1] = off[k] + 2 + Len(list[k].data)
       /\ p[off[k] + 1] = list[k].type /\ p[off[k] + 2] = Len(list[k].data) % W
       /\ \A i \in 1..Len(list[k].data) : p[off[k] + 2 + i] = list[k].data[i]
       /\ \A l \in k+1..Len(list)+1 : off[k] + 2 + Len(list[k].data) <= off[l]

LEMMA SubTypes ==
  ASSUME NEW list \in Seq(Subs), NEW k \in 1..Len(list)
  PROVE  /\ list[k].type \in SizedTypes /\ list[k].data \in Datas
         /\ list[k].data \in Seq(Octets) /\ Len(list[k].data) \in Nat
<1>1. list[k] \in Subs
  OBVIOUS
<1>2. list[k].type \in SizedTypes /\ list[k].data \in Datas
  BY <1>1 DEF Subs
<1>3. list[k].data \in Seq(Octets)
  BY <1>2, PayloadAssumption
<1>4. QED
  BY <1>2, <1>3

LEMMA LaidInside ==
  ASSUME NEW list \in Seq(Subs), NEW p \in Seq(Octets), NEW off, Laid(off, p, list), NEW k \in 1..Len(list)
  PROVE  /\ off[k] \in Nat /\ off[k+1] \in Nat /\ Len(list[k].data) \in Nat
         /\ off[k] + 2 + Len(list[k].data) <= Len(p)
<1> DEFINE n == Len(list)
<1>0. n \in Nat /\ k \in 1..n
  OBVIOUS
<1>1. k \in 1..Len(list)+1 /\ k + 1 \in 1..Len(list)+1 /\ Len(list) + 1 \in k+1..Len(list)+1
  <2> HIDE DEF n
  <2>1. k \in 1..n+1 /\ k + 1 \in 1..n+1 /\ n + 1 \in k+1..n+1
    BY <1>0
  <2>2. QED  BY <2>1 DEF n
<1>2. off[k] \in Nat /\ off[k+1] \in Nat
  BY <1>1 DEF Laid
<1>3. off[k] + 2 + Len(list[k].data) <= off[Len(list)+1]
  BY <1>1 DEF Laid
<1>4. QED
  BY <1>2, <1>3, SubTypes DEF Laid

(* One sub-packet more.                                                    *)
Added(list, p, e, list2, p2) ==
  /\ Len(list2) = Len(list) + 1
  /\ \A k \in 1..Len(list) : list2[k] = list[k]
  /\ list2[Len(list)+1] = e
  /\ Len(p2) = Len(p) + 2 + Len(e.data)
  /\ \A k \in 1..Len(p) : p2[k] = p[k]
  /\ p2[Len(p) + 1] = e.type /\ p2[Len(p) + 2] = Len(e.data) % W
  /\ \A k \in 1..Len(e.data) : p2[Len(p) + 2 + k] = e.data[k]

LEMMA LaidAppend ==
  ASSUME NEW list \in Seq(Subs), NEW p \in Seq(Octets), NEW off, Laid(off, p, list),
         NEW e \in Subs, NEW list2 \in Seq(Subs), NEW p2 \in Seq(Octets),
         Added(list, p, e, list2, p2)
  PROVE  \E off2 : /\ Laid(off2, p2, list2)
                   /\ off2[Len(list)+1] = Len(p)
                   /\ \A k \in 1..Len(list) : off2[k] = off[k]
<1> DEFINE n == Len(list)
           m == Len(e.data)
           o == Len(p)
           o2 == Len(p2)
           off2 == [k \in 1..n+2 |-> IF k = n + 2 THEN o2 ELSE off[k]]
<1>1. n \in Nat /\ o \in Nat /\ o2 \in Nat
  OBVIOUS
<1>2. m \in Nat
  <2>1. e.data \in Seq(Octets)
    BY PayloadAssumption DEF Subs
  <2>2. QED  BY <2>1
<1>3. off \in [1..n+1 -> Nat] /\ off[1] = 0 /\ off[n+1] = o
  BY DEF Laid
<1>4. ASSUME NEW k \in 1..n
      PROVE  /\ off[k] \in Nat /\ Len(list[k].data) \in Nat /\ off[k] + 2 + Len(list[k].data) <= o
             /\ off[k+1] = off[k] + 2 + Len(list[k].data)
             /\ p[off[k] + 1] = list[k].type /\ p[off[k] + 2] = Len(list[k].data) % W
             /\ \A i \in 1..Len(list[k].data) : p[off[k] + 2 + i] = list[k].data[i]
             /\ \A l \in k+1..n+1 : off[k] + 2 + Len(list[k].data) <= off[l]
  <2>1. off[k] \in Nat /\ Len(list[k].data) \in Nat /\ off[k] + 2 + Len(list[k].data) <= o
    BY LaidInside
  <2>2. QED  BY <2>1 DEF Laid
<1> HIDE DEF n, m, o, o2
<1>5. /\ off2 \in [1..n+2 -> Nat] /\ off2[1] = 0 /\ off2[n+2] = o2 /\ off2[n+1] = o
      /\ \A k \in 1..n+1 : off2[k] = off[k]
  BY <1>1, <1>3
<1> HIDE DEF off2
<1>5a. /\ Len(list2) = n + 1 /\ o2 = o + 2 + m
       /\ \A k \in 1..n : list2[k] = list[k]
       /\ list2[n+1] = e
       /\ \A k \in 1..o : p2[k] = p[k]
       /\ p2[o + 1] = e.type /\ p2[o + 2] = m % W
       /\ \A k \in 1..m : p2[o + 2 + k] = e.data[k]
  BY DEF Added, n, m, o, o2
<1>6. ASSUME NEW k \in 1..n
      PROVE  /\ off2[k+1] = off2[k] + 2 + Len(list2[k].data)
             /\ p2[off2[k] + 1] = list2[k].type /\ p2[off2[k] + 2] = Len(list2[k].data) % W
             /\ \A i \in 1..Len(list2[k].data) : p2[off2[k] + 2 + i] = list2[k].data[i]
             /\ \A l \in k+1..n+2 : off2[k] + 2 + Len(list2[k].data) <= off2[l]
  <2> DEFINE a == off[k]
             c == Len(list[k].data)
  <2>1. list2[k] = list[k] /\ off2[k] = a /\ off2[k+1] = off[k+1]
    <3>1. k \in 1..n+1 /\ k + 1 \in 1..n+1
      BY <1>1
    <3>2. QED  BY <1>5, <1>5a, <3>1
  <2>2. a \in Nat /\ c \in Nat /\ a + 2 + c <= o
    BY <1>4
  <2>3. p[a + 1] = list[k].type /\ p[a + 2] = c % W /\ \A i \in 1..c : p[a + 2 + i] = list[k].data[i]
    BY <1>4
  <2>4. off[k+1] = a + 2 + c /\ \A l \in k+1..n+1 : a + 2 + c <= off[l]
    BY <1>4
  <2> HIDE DEF a, c
  <2>5. a + 1 \in 1..o /\ a + 2 \in 1..o /\ \A i \in 1..c : a + 2 + i \in 1..o
    BY <1>1, <2>2
  <2>6. p2[a + 1] = list[k].type /\ p2[a + 2] = c % W /\ \A i \in 1..c : p2[a + 2 + i] = list[k].data[i]
    BY <1>5a, <2>3, <2>5
  <2>7. ASSUME NEW l \in k+1..n+2 PROVE a + 2 + c <= off2[l]
    <3>1. CASE l = n + 2
      <4>1. o <= o2
        BY <1>1, <1>2, <1>5a
      <4>2. QED  BY <1>1, <1>5, <2>2, <3>1, <4>1
    <3>2. CASE l # n + 2
      <4>1. l \in k+1..n+1 /\ l \in 1..n+1
        BY <1>1, <3>2
      <4>2. QED  BY <1>5, <2>4, <4>1
    <3>3. QED  BY <3>1, <3>2
  <2>8. QED  BY <2>1, <2>4, <2>6, <2>7 DEF c
<1>7. /\ off2[n+2] = off2[n+1] + 2 + Len(list2[n+1].data)
      /\ p2[off2[n+1] + 1] = list2[n+1].type /\ p2[off2[n+1] + 2] = Len(list2[n+1].data) % W
      /\ \A i \in 1..Len(list2[n+1].data) : p2[off2[n+1] + 2 + i] = list2[n+1].data[i]
      /\ off2[n+1] + 2 + Len(list2[n+1].data) <= off2[n+2]
  <2>1. list2[n+1] = e /\ off2[n+1] = o /\ off2[n+2] = o2 /\ o2 = o + 2 + m
    BY <1>5, <1>5a
  <2>2. p2[o + 1] = e.type /\ p2[o + 2] = m % W /\ \A i \in 1..m : p2[o + 2 + i] = e.data[i]
    BY <1>5a
  <2>3. o + 2 + m <= o2
    BY <1>1, <1>2, <2>1
  <2>4. QED  BY <2>1, <2>2, <2>3 DEF m
<1>8. Laid(off2, p2, list2)
  <2>1. Len(list2) = n + 1 /\ Len(list2) + 1 = n + 2
    BY <1>1, <1>5a
  <2>2. \A k \in 1..n+1 : k \in 1..n \/ k = n + 1
    BY <1>1
  <2>3. (n + 1) + 1 = n + 2 /\ \A l \in (n + 1) + 1..n+2 : l = n + 2
    BY <1>1
  <2>4. ASSUME NEW k \in 1..n+1
        PROVE  /\ off2[k+1] = off2[k] + 2 + Len(list2[k].data)
               /\ p2[off2[k] + 1] = list2[k].type /\ p2[off2[k] + 2] = Len(list2[k].data) % W
               /\ \A i \in 1..Len(list2[k].data) : p2[off2[k] + 2 + i] = list2[k].data[i]
               /\ \A l \in k+1..n+2 : off2[k] + 2 + Len(list2[k].data) <= off2[l]
    <3>1. CASE k \in 1..n
      BY <1>6, <3>1
    <3>2. CASE k = n + 1
      <4>1. \A l \in k+1..n+2 : off2[k] + 2 + Len(list2[k].data) <= off2[l]
        BY <1>7, <2>3, <3>2
      <4>2. off2[k+1] = off2[k] + 2 + Len(list2[k].data)
        BY <1>7, <2>3, <3>2
      <4>3. QED  BY <1>7, <3>2, <4>1, <4>2
    <3>3. QED  BY <2>2, <3>1, <3>2
  <2>5. off2 \in [1..Len(list2)+1 -> Nat] /\ off2[1] = 0 /\ off2[Len(list2)+1] = Len(p2)
    BY <1>5, <2>1 DEF o2
  <2>6. QED  BY <2>1, <2>4, <2>5 DEF Laid
<1>9. QED
  <2>1. \A k \in 1..n : k \in 1..n+1
    BY <1>1
  <2>2. QED  BY <1>5, <1>8, <2>1 DEF n, o

(* The data of the x-th sub-packet replaced by as much other data.         *)
Replaced(list, p, off, x, data, list2, p2) ==
  /\ Len(list2) = Len(list) /\ Len(data) = Len(list[x].data)
  /\ \A k \in 1..Len(list) : k # x => list2[k] = list[k]
  /\ list2[x] = [type |-> list[x].type, data |-> data]
  /\ Len(p2) = Len(p)
  /\ \A k \in 1..Len(p) : p2[k] = IF k \in off[x]+2+1..off[x]+2+Len(data)
                                    THEN data[k - (off[x]+2)] ELSE p[k]

LEMMA LaidReplace ==
  ASSUME NEW list \in Seq(Subs), NEW p \in Seq(Octets), NEW off, Laid(off, p, list),
         NEW x \in 1..Len(list), NEW data \in Datas, NEW list2 \in Seq(Subs), NEW p2 \in Seq(Octets),
         Replaced(list, p, off, x, data, list2, p2)
  PROVE  Laid(off, p2, list2)
<1> DEFINE n == Len(list)
           o == Len(p)
           m == Len(data)
           b == off[x]
           T == b+2+1..b+2+m
<1>1. n \in Nat /\ o \in Nat /\ x \in 1..n
  OBVIOUS
<1>2. b \in Nat /\ Len(list[x].data) \in Nat /\ b + 2 + Len(list[x].data) <= o
  BY LaidInside
<1>3. /\ Len(list2) = n /\ m = Len(list[x].data) /\ Len(p2) = o
      /\ \A k \in 1..n : k # x => list2[k] = list[k]
      /\ list2[x].type = list[x].type /\ list2[x].data = data
      /\ \A k \in 1..o : p2[k] = IF k \in T THEN data[k - (b+2)] ELSE p[k]
  BY DEF Replaced
<1>4. ASSUME NEW k \in 1..n
      PROVE  /\ off[k] \in Nat /\ Len(list[k].data) \in Nat /\ off[k] + 2 + Len(list[k].data) <= o
             /\ off[k+1] = off[k] + 2 + Len(list[k].data)
             /\ p[off[k] + 1] = list[k].type /\ p[off[k] + 2] = Len(list[k].data) % W
             /\ \A i \in 1..Len(list[k].data) : p[off[k] + 2 + i] = list[k].data[i]
             /\ \A l \in k+1..n+1 : off[k] + 2 + Len(list[k].data) <= off[l]
  <2>1. off[k] \in Nat /\ Len(list[k].data) \in Nat /\ off[k] + 2 + Len(list[k].data) <= o
    BY LaidInside
  <2>2. QED  BY <2>1 DEF Laid
<1>5. off \in [1..n+1 -> Nat] /\ off[1] = 0 /\ off[n+1] = o
  BY DEF Laid
<1> HIDE DEF n, o, m, b
<1>6. m \in Nat /\ b + 2 + m <= o
  BY <1>2, <1>3
<1>7. ASSUME NEW q \in 1..o, q <= b + 2 \/ q > b + 2 + m
      PROVE  p2[q] = p[q]
  <2>1. q \notin T
    BY <1>2, <1>6, <1>7
  <2> HIDE DEF T
  <2>2. p2[q] = IF q \in T THEN data[q - (b+2)] ELSE p[q]
    BY <1>3
  <2>3. QED  BY <2>1, <2>2
<1>8. ASSUME NEW i \in 1..m
      PROVE  p2[b + 2 + i] = data[i]
  <2> DEFINE q == b + 2 + i
  <2>1. q \in 1..o
    BY <1>1, <1>2, <1>6
  <2>2. q \in T
    BY <1>1, <1>2, <1>6
  <2>3. q - (b + 2) = i
    BY <1>2
  <2> HIDE DEF T, q
  <2>4. p2[q] = IF q \in T THEN data[q - (b+2)] ELSE p[q]
    BY <1>3, <2>1
  <2>5. p2[q] = data[i]
    BY <2>2, <2>3, <2>4
  <2>6. QED  BY <2>5 DEF q
<1>9. ASSUME NEW k \in 1..n
      PROVE  /\ off[k+1] = off[k] + 2 + Len(list2[k].data)
             /\ p2[off[k] + 1] = list2[k].type /\ p2[off[k] + 2] = Len(list2[k].data) % W
             /\ \A i \in 1..Len(list2[k].data) : p2[off[k] + 2 + i] = list2[k].data[i]
             /\ \A l \in k+1..n+1 : off[k] + 2 + Len(list2[k].data) <= off[l]
  <2> DEFINE a == off[k]
             c == Len(list[k].data)
  <2>1. /\ a \in Nat /\ c \in Nat /\ a + 2 + c <= o /\ off[k+1] = a + 2 + c
        /\ p[a + 1] = list[k].type /\ p[a + 2] = c % W
        /\ \A i \in 1..c : p[a + 2 + i] = list[k].data[i]
        /\ \A l \in k+1..n+1 : a + 2 + c <= off[l]
    BY <1>4
  <2>2. CASE k = x
    <3>1. a = b /\ c = m
      BY <1>3, <2>2 DEF b
    <3> HIDE DEF a, c
    <3>2. b + 1 \in 1..o /\ b + 1 <= b + 2 /\ b + 2 \in 1..o /\ b + 2 <= b + 2
      BY <1>1, <1>2, <1>6
    <3>3. p2[a + 1] = list[k].type /\ p2[a + 2] = c % W
      BY <1>7, <2>1, <3>1, <3>2
    <3>4. list2[k].type = list[k].type /\ list2[k].data = data /\ Len(list2[k].data) = c
      BY <1>3, <2>2, <3>1 DEF m
    <3>5. \A i \in 1..c : p2[a + 2 + i] = data[i]
      BY <1>8, <3>1
    <3>6. QED  BY <2>1, <3>3, <3>4, <3>5 DEF a
  <2>3. CASE k # x
    <3>1. list2[k] = list[k]
      BY <1>3, <2>3
    <3>2. k < x => a + 2 + c <= b
      <4>1. k < x => x \in k+1..n+1
        BY <1>1
      <4>2. QED  BY <2>1, <4>1 DEF b
    <3>3. k > x => b + 2 + m <= a
      <4>1. k > x => k \in x+1..n+1
        BY <1>1
      <4>2. \A l \in x+1..n+1 : b + 2 + m <= off[l]
        BY <1>1, <1>3, <1>4 DEF b
      <4>3. QED  BY <4>1, <4>2
    <3> HIDE DEF a, c
    <3>4. ASSUME NEW q \in a+1..a+2+c
          PROVE  p2[q] = p[q]
      <4>1. q \in 1..o
        BY <1>1, <2>1
      <4>2. k < x \/ k > x
        BY <1>1, <2>3
      <4>3. q <= b + 2 \/ q > b + 2 + m
        BY <1>2, <1>6, <2>1, <3>2, <3>3, <4>2
      <4>4. QED  BY <1>7, <4>1, <4>3
    <3>5. a + 1 \in a+1..a+2+c /\ a + 2 \in a+1..a+2+c /\ \A i \in 1..c : a + 2 + i \in a+1..a+2+c
      <4>1. a \in Nat /\ c \in Nat
        BY <2>1
      <4>2. QED  BY <4>1
    <3>6. p2[a + 1] = list[k].type /\ p2[a + 2] = c % W /\ \A i \in 1..c : p2[a + 2 + i] = list[k].data[i]
      BY <2>1, <3>4, <3>5
    <3>7. QED  BY <2>1, <3>1, <3>6 DEF a, c
  <2>4. QED  BY <2>2, <2>3
<1>10. off \in [1..Len(list2)+1 -> Nat] /\ off[1] = 0 /\ off[Len(list2)+1] = Len(p2)
  BY <1>3, <1>5
<1>11. QED
  BY <1>3, <1>9, <1>10 DEF Laid

-----------------------------------------------------------------------------
(* The walk finds the sub-packets of a built packet                        *)

(* What a sub-packet of a built packet may be, if its length is stored     *)
(* whole.                                                                  *)
Proper(list) ==
  \A k \in 1..Len(list) : FitsType(list[k].type, Len(list[k].data)) /\ Len(list[k].data) < W

LEMMA BuiltRead ==
  ASSUME NEW list \in Seq(Subs), NEW p \in Seq(Octets), NEW off, Laid(off, p, list), Proper(list),
         NEW k \in 1..Len(list)
  PROVE  /\ off[k] \in Nat /\ off[k+1] \in Nat /\ off[k] < off[k+1]
         /\ Whole(p, off[k]) /\ Verified(p, off[k])
         /\ Type(p, off[k]) = list[k].type /\ Size(p, off[k]) = Len(list[k].data)
         /\ off[k+1] = off[k] + 2 + Size(p, off[k])
<1> DEFINE a == off[k]
           c == Len(list[k].data)
           t == list[k].type
           o == Len(p)
<1>1. a \in Nat /\ off[k+1] \in Nat /\ c \in Nat /\ a + 2 + c <= o
  BY LaidInside
<1>2. p[a + 1] = t /\ p[a + 2] = c % W /\ off[k+1] = a + 2 + c
  BY DEF Laid
<1>3. t \in SizedTypes /\ FitsType(t, c) /\ c < W
  BY SubTypes DEF Proper
<1>4. o \in Nat
  OBVIOUS
<1> HIDE DEF a, c, t, o
<1>5. c % W = c
  BY <1>1, <1>3, SizedTypesFacts
<1>6. Type(p, a) = t /\ Size(p, a) = c
  BY <1>2, <1>5 DEF Type, Size
<1>7. Whole(p, a)
  BY <1>1, <1>4, <1>6 DEF Whole, o
<1>8. Verified(p, a)
  <2>1. ~ t > EXT_TYPES
    BY <1>3, SizedTypesFacts
  <2>2. EXT_TYPE_SIZES[t] \in {c, EXT_SIZE_VARIABLE}
    BY <1>3 DEF FitsType
  <2>3. QED  BY <1>3, <1>6, <2>1, <2>2 DEF Verified
<1>9. a < off[k+1]
  BY <1>1, <1>2
<1>10. QED
  BY <1>1, <1>2, <1>6, <1>7, <1>8, <1>9 DEF a, c, t

LEMMA BuiltStarts ==
  ASSUME NEW list \in Seq(Subs), NEW p \in Seq(Octets), NEW off, Laid(off, p, list), Proper(list)
  PROVE  Starts(p) = {off[i] : i \in 1..Len(list)}
<1> DEFINE n == Len(list)
           Right(k) == StartsFrom(p)[off[k]] = {off[i] : i \in k..n}
           S == {m \in Nat : \A k \in 1..n+1 : k + m >= n + 1 => Right(k)}
<1>1. n \in Nat
  OBVIOUS
<1>2. off[n+1] = Len(p) /\ Len(p) \in Nat
  BY DEF Laid
<1> HIDE DEF n
<1>3. Right(n + 1)
  <2>1. ~ Whole(p, Len(p))
    BY <1>2 DEF Whole
  <2>2. StartsFrom(p)[Len(p)] = {}
    BY <1>2, <2>1, StartsFromStep
  <2>3. n+1..n = {}
    BY <1>1
  <2>4. QED  BY <1>2, <2>2, <2>3
<1>4. ASSUME NEW k \in 1..n, Right(k + 1)
      PROVE  Right(k)
  <2>1. /\ off[k] \in Nat /\ Whole(p, off[k]) /\ off[k+1] = off[k] + 2 + Size(p, off[k])
    BY BuiltRead DEF n
  <2>2. StartsFrom(p)[off[k]] = {off[k]} \cup StartsFrom(p)[off[k+1]]
    BY <2>1, StartsFromStep
  <2>3. k..n = {k} \cup k+1..n
    BY <1>1
  <2>4. QED  BY <1>4, <2>2, <2>3
<1> HIDE DEF Right
<1>5. 0 \in S
  <2>1. ASSUME NEW k \in 1..n+1, k + 0 >= n + 1 PROVE k = n + 1
    BY <1>1, <2>1
  <2>2. QED  BY <1>3, <2>1
<1>6. ASSUME NEW m \in Nat, m \in S
      PROVE  m + 1 \in S
  <2> SUFFICES ASSUME NEW k \in 1..n+1, k + (m + 1) >= n + 1
               PROVE  Right(k)
    OBVIOUS
  <2>1. CASE k = n + 1
    BY <1>3, <2>1
  <2>2. CASE k # n + 1
    <3>1. k \in 1..n /\ k + 1 \in 1..n+1 /\ (k + 1) + m >= n + 1
      BY <1>1, <2>2
    <3>2. Right(k + 1)
      BY <1>6, <3>1
    <3>3. QED  BY <1>4, <3>1, <3>2
  <2>3. QED  BY <2>1, <2>2
<1>7. n \in S
  <2> HIDE DEF S
  <2>1. Nat \subseteq S
    BY <1>5, <1>6, SetInduction
  <2>2. QED  BY <1>1, <2>1
<1>8. Right(1)
  <2>1. 1 \in 1..n+1 /\ 1 + n >= n + 1
    BY <1>1
  <2>2. QED  BY <1>7, <2>1
<1>9. off[1] = 0
  BY DEF Laid
<1>10. QED
  BY <1>8, <1>9 DEF Right, Starts, n

(* ngh_ext_numpkts counts the sub-packets that were put in.                *)
LEMMA BuiltCount ==
  ASSUME NEW list \in Seq(Subs), NEW p \in Seq(Octets), NEW off, Laid(off, p, list), Proper(list)
  PROVE  Numpkts(p) = Len(list)
<1> DEFINE n == Len(list)
           T == {off[i] : i \in 1..n}
           f == [i \in 1..n |-> off[i]]
<1>1. n \in Nat /\ 1 \in 1..n+1
  OBVIOUS
<1>3. Starts(p) = T
  BY BuiltStarts
<1>4. \A a \in T : Verified(p, a)
  BY BuiltRead
<1>5. ASSUME NEW i \in 1..n, NEW l \in 1..n, i < l
      PROVE  off[i] # off[l]
  <2>1. l \in i+1..n+1 /\ l \in 1..Len(list)
    BY <1>1, <1>5
  <2>2. off[i] + 2 + Len(list[i].data) <= off[l]
    BY <2>1 DEF Laid
  <2>3. off[i] \in Nat /\ Len(list[i].data) \in Nat
    BY LaidInside
  <2>4. off[l] \in Nat
    BY LaidInside
  <2>5. QED  BY <2>2, <2>3, <2>4
<1> HIDE DEF n
<1>6. ASSUME NEW i \in 1..n, NEW l \in 1..n, off[i] = off[l]
      PROVE  i = l
  <2>1. i < l \/ l < i \/ i = l
    BY <1>1
  <2>2. QED  BY <1>5, <1>6, <2>1
<1>7. f \in Bijection(1..n, T)
  <2>1. f \in [1..n -> T] /\ \A t \in T : \E i \in 1..n : f[i] = t
    OBVIOUS
  <2>2. \A i, l \in 1..n : f[i] = f[l] => i = l
    BY <1>6
  <2> HIDE DEF f, T
  <2>3. QED  BY <2>1, <2>2 DEF Bijection, Injection, Surjection, IsInjective
<1>8. Cardinality(T) = n
  <2> HIDE DEF f, T
  <2>1. IsFiniteSet(1..n) /\ Cardinality(1..n) = n
    <3>1. IsFiniteSet(1..n) /\ Cardinality(1..n) = IF 1 > n THEN 0 ELSE n - 1 + 1
      BY <1>1, FS_Interval
    <3>2. QED  BY <1>1, <3>1
  <2>2. ExistsBijection(1..n, T)
    BY <1>7 DEF ExistsBijection
  <2>3. QED  BY <2>1, <2>2, FS_Bijection
<1>9. QED
  BY <1>3, <1>4, <1>8 DEF Numpkts, n

-----------------------------------------------------------------------------
(* From the builder to the map                                             *)

(* Each sub-packet lies where the builder put it, the space that was given *)
(* out among them.                                                         *)
BuiltInv ==
  /\ \E off : /\ Laid(off, pl, subs)
              /\ room # None => /\ room.at = off[room.sub] + 2
                                /\ room.size = Len(subs[room.sub].data)
  /\ \A k \in 1..Len(subs) : FitsType(subs[k].type, Len(subs[k].data))

(* The last of its type among the first j sub-packets.                     *)
LastOfType(k) == \A i \in k+1..j : sent[i].type # sent[k].type

SentInv ==
  d # None /\ sent # None =>
    /\ sent \in Seq(Subs)
    /\ \A k \in 1..Len(sent) : FitsType(sent[k].type, Len(sent[k].data))
    /\ \E off :
         /\ Laid(off, d, sent)
         /\ Proper(sent) =>
              /\ j \in 0..Len(sent) /\ start = off[j+1]
              /\ \A k \in 1..j : LastOfType(k) =>
                   sent[k].type \in DOMAIN m_pkts /\ m_pkts[sent[k].type] = sent[k].data

LEMMA BuiltInductive ==
  ASSUME BuilderInv, BuiltInv, Build \/ Read \/ UNCHANGED vars
  PROVE  BuiltInv'
<1>1. pl \in Seq(Octets) /\ subs \in Seq(Subs)
  BY DEF BuilderInv, Subs
<1>2. PICK off : /\ Laid(off, pl, subs)
                 /\ room # None => /\ room.at = off[room.sub] + 2
                                   /\ room.size = Len(subs[room.sub].data)
  BY DEF BuiltInv
<1>3. \A k \in 1..Len(subs) : FitsType(subs[k].type, Len(subs[k].data))
  BY DEF BuiltInv
<1>4. ASSUME pl' = pl, subs' = subs, room' = room
      PROVE  BuiltInv'
  BY <1>4 DEF BuiltInv, Laid
<1>5. ASSUME NEW t \in SizedTypes, NEW data \in Datas, FitsType(t, Len(data)), SubPacket(t, data),
             room' = room \/ room' = [at |-> Len(pl) + 2, size |-> Len(data), sub |-> Len(subs')]
      PROVE  BuiltInv'
  <2> DEFINE e == [type |-> t, data |-> data]
  <2>1. Added(subs, pl, e, subs', pl') /\ pl' \in Seq(Octets) /\ subs' \in Seq(Subs) /\ e \in Subs
    BY <1>5, SubPacketLaid, ZenonT(60) DEF Added, Subs
  <2>2. PICK off2 : /\ Laid(off2, pl', subs') /\ off2[Len(subs)+1] = Len(pl)
                    /\ \A k \in 1..Len(subs) : off2[k] = off[k]
    BY <1>1, <1>2, <2>1, LaidAppend
  <2>3. /\ Len(subs') = Len(subs) + 1 /\ subs'[Len(subs)+1] = e
        /\ \A k \in 1..Len(subs) : subs'[k] = subs[k]
    BY <2>1 DEF Added
  <2>4. Len(subs) \in Nat
    BY <1>1
  <2>5. \A k \in 1..Len(subs') : FitsType(subs'[k].type, Len(subs'[k].data))
    <3>1. ASSUME NEW k \in 1..Len(subs') PROVE FitsType(subs'[k].type, Len(subs'[k].data))
      <4>1. CASE k = Len(subs) + 1
        <5>1. subs'[k].type = t /\ subs'[k].data = data
          BY <2>3, <4>1
        <5>2. QED  BY <1>5, <5>1
      <4>2. CASE k # Len(subs) + 1
        <5>1. k \in 1..Len(subs)
          BY <2>3, <2>4, <4>2
        <5>2. QED  BY <1>3, <2>3, <5>1
      <4>3. QED  BY <4>1, <4>2
    <3>2. QED  BY <3>1
  <2>6. room' # None => room'.at = off2[room'.sub] + 2 /\ room'.size = Len(subs'[room'.sub].data)
    <3>1. CASE room' = room
      <4> SUFFICES ASSUME room # None
                   PROVE  room.at = off2[room.sub] + 2 /\ room.size = Len(subs'[room.sub].data)
        BY <3>1
      <4>1. room.sub \in 1..Len(subs)
        BY <1>1 DEF BuilderInv
      <4>2. off2[room.sub] = off[room.sub] /\ subs'[room.sub] = subs[room.sub]
        BY <2>2, <2>3, <4>1
      <4>3. QED  BY <1>2, <4>2
    <3>2. CASE room' = [at |-> Len(pl) + 2, size |-> Len(data), sub |-> Len(subs')]
      <4>1. room'.at = Len(pl) + 2 /\ room'.size = Len(data) /\ room'.sub = Len(subs) + 1
        BY <2>3, <3>2
      <4>2. subs'[room'.sub].data = data
        BY <2>3, <4>1
      <4>3. QED  BY <2>2, <4>1, <4>2
    <3>3. QED  BY <1>5, <3>1, <3>2
  <2>7. QED  BY <2>2, <2>5, <2>6 DEF BuiltInv
<1>6. ASSUME NEW data \in Datas, FillIn(data)
      PROVE  BuiltInv'
  <2> DEFINE x == room.sub
  <2>1. /\ x \in 1..Len(subs) /\ Len(data) = room.size /\ room' = None /\ room # None
        /\ pl' \in Seq(Octets) /\ Len(pl') = Len(pl)
        /\ \A k \in 1..Len(pl) :
             pl'[k] = IF k \in room.at+1..room.at+room.size THEN data[k - room.at] ELSE pl[k]
        /\ subs' \in Seq(Subs) /\ Len(subs') = Len(subs)
        /\ \A k \in 1..Len(subs) : k # x => subs'[k] = subs[k]
        /\ subs'[x] = [type |-> subs[x].type, data |-> data]
    BY <1>6, FilledIn DEF FillIn, Subs
  <2>2. room.at = off[x] + 2 /\ room.size = Len(data) /\ Len(data) = Len(subs[x].data)
    BY <1>2, <2>1
  <2>3. Replaced(subs, pl, off, x, data, subs', pl')
    <3> HIDE DEF x
    <3>1. QED  BY <2>1, <2>2 DEF Replaced
  <2>4. Laid(off, pl', subs')
    BY <1>1, <1>2, <2>1, <2>3, LaidReplace
  <2>5. \A k \in 1..Len(subs') : FitsType(subs'[k].type, Len(subs'[k].data))
    <3>1. subs'[x].type = subs[x].type /\ subs'[x].data = data
      BY <2>1
    <3>2. QED  BY <1>3, <2>1, <2>2, <3>1
  <2>6. QED  BY <2>1, <2>4, <2>5 DEF BuiltInv
<1>7. CASE Discard
  <2>1. pl' = <<>> /\ subs' = <<>> /\ room' = None
    BY <1>7 DEF Discard
  <2>2. Len(pl') = 0 /\ Len(subs') = 0 /\ [k \in 1..1 |-> 0] \in [1..0+1 -> Nat]
    BY <2>1
  <2>3. Laid([k \in 1..1 |-> 0], pl', subs')
    BY <2>2 DEF Laid
  <2>4. QED  BY <2>1, <2>2, <2>3 DEF BuiltInv
<1>8. CASE Read \/ UNCHANGED vars
  <2>1. UNCHANGED building
    BY <1>8 DEF Read, Receive, ParseClear, ParseInsert, ParseEnd, EndOfPacket, vars
  <2>2. QED  BY <1>4, <2>1 DEF building
<1>9. CASE Build
  <2>1. CASE \E b \in {"packet", "buffer", "list"} : Open(b)
    BY <1>4, <2>1 DEF Open
  <2>2. ASSUME NEW t \in SizedTypes, NEW data \in Datas, FitsType(t, Len(data)),
               ExtAppend(t, data) \/ ExtAllocate(t, data)
        PROVE  BuiltInv'
    BY <1>5, <2>2 DEF ExtAppend, ExtAllocate
  <2>3. QED  BY <1>6, <1>7, <1>9, <2>1, <2>2 DEF Build
<1>10. QED
  BY <1>8, <1>9

LEMMA DataTakenOut ==
  ASSUME NEW p \in Seq(Octets), NEW data \in Seq(Octets), NEW a \in Nat, a + 2 + Len(data) <= Len(p),
         \A i \in 1..Len(data) : p[a + 2 + i] = data[i]
  PROVE  SubSeq(p, a + 3, a + 2 + Len(data)) = data
<1> DEFINE c == Len(data)
           m == a + 3
           n == a + 2 + c
           cut == SubSeq(p, m, n)
<1>1. c \in Nat /\ Len(p) \in Nat
  OBVIOUS
<1>2. m \in Int /\ n \in Int /\ n - m + 1 = c /\ (IF m <= n THEN n - m + 1 ELSE 0) = c
  BY <1>1
<1>3. \A i \in m..n : p[i] \in Octets
  BY <1>1
<1>4. \A i \in 1..c : m + i - 1 = a + 2 + i
  BY <1>1
<1>5. \A i \in 1..c : p[a + 2 + i] = data[i]
  OBVIOUS
<1> HIDE DEF c, m, n
<1>6. cut \in Seq(Octets) /\ Len(cut) = c /\ \A i \in 1..c : cut[i] = p[m + i - 1]
  <2>1. /\ cut \in Seq(Octets) /\ Len(cut) = IF m <= n THEN n - m + 1 ELSE 0
        /\ \A i \in 1..n - m + 1 : cut[i] = p[m + i - 1]
    BY <1>2, <1>3, SubSeqProperties
  <2> HIDE DEF cut
  <2>2. QED  BY <1>2, <2>1
<1>7. \A i \in 1..c : cut[i] = data[i]
  <2> HIDE DEF cut
  <2> QED  BY <1>4, <1>5, <1>6
<1> HIDE DEF cut
<1>8. cut = data
  BY <1>6, <1>7, SeqEqual DEF c
<1>9. QED
  BY <1>8 DEF cut, c, m, n

LEMMA SentReceived ==
  ASSUME IInv, BuiltInv, pl # <<>>, Receive(pl, subs)
  PROVE  SentInv'
<1>1. d' = pl /\ sent' = subs /\ start' = 0 /\ j' = 0
  BY DEF Receive
<1>2. subs \in Seq(Subs)
  BY DEF IInv, BuilderInv, Subs
<1>3. PICK off : Laid(off, pl, subs)
  BY DEF BuiltInv
<1>4. \A k \in 1..Len(subs) : FitsType(subs[k].type, Len(subs[k].data))
  BY DEF BuiltInv
<1>5. off[1] = 0 /\ Len(subs) \in Nat
  BY <1>2, <1>3 DEF Laid
<1>6. /\ j' \in 0..Len(sent') /\ start' = off[j'+1] /\ 1..j' = {}
  BY <1>1, <1>5
<1>7. Laid(off, d', sent')
  BY <1>1, <1>3
<1>8. QED
  BY <1>1, <1>2, <1>4, <1>6, <1>7 DEF SentInv

LEMMA SentInserted ==
  ASSUME IInv, SentInv, ParseInsert
  PROVE  SentInv'
<1> DEFINE t == Type(d, start)
           data == SubSeq(d, start + 3, start + 2 + Size(d, start))
<1>1. /\ d # None /\ j < Numpkts(d)
      /\ m_pkts' = [u \in DOMAIN m_pkts \cup {t} |-> IF u = t THEN data ELSE m_pkts[u]]
      /\ start' = start + 2 + Size(d, start) /\ j' = j + 1 /\ d' = d /\ sent' = sent
  BY DEF ParseInsert
<1> SUFFICES ASSUME sent # None PROVE SentInv'
  BY <1>1 DEF SentInv
<1>2. d \in Seq(Octets) /\ start \in Nat /\ j \in Nat
  BY <1>1 DEF IInv, ReaderInv
<1>3. sent \in Seq(Subs) /\ \A k \in 1..Len(sent) : FitsType(sent[k].type, Len(sent[k].data))
  BY <1>1 DEF SentInv
<1>4. PICK off :
         /\ Laid(off, d, sent)
         /\ Proper(sent) =>
              /\ j \in 0..Len(sent) /\ start = off[j+1]
              /\ \A k \in 1..j : LastOfType(k) =>
                   sent[k].type \in DOMAIN m_pkts /\ m_pkts[sent[k].type] = sent[k].data
  BY <1>1 DEF SentInv
<1>5. ASSUME Proper(sent)
      PROVE  /\ j' \in 0..Len(sent) /\ start' = off[j'+1]
             /\ \A k \in 1..j' : LastOfType(k)' =>
                  sent[k].type \in DOMAIN m_pkts' /\ m_pkts'[sent[k].type] = sent[k].data
  <2> DEFINE x == j + 1
  <2>1. start = off[x] /\ Len(sent) \in Nat
    BY <1>3, <1>4, <1>5
  <2>2. Numpkts(d) = Len(sent)
    BY <1>2, <1>3, <1>4, <1>5, BuiltCount
  <2>3. x \in 1..Len(sent) /\ j' = x
    BY <1>1, <1>2, <2>1, <2>2
  <2> HIDE DEF x
  <2>4. /\ t = sent[x].type /\ Size(d, start) = Len(sent[x].data)
        /\ off[x] \in Nat /\ off[x+1] = off[x] + 2 + Size(d, start)
    BY <1>2, <1>3, <1>4, <1>5, <2>1, <2>3, BuiltRead
  <2>5. data = sent[x].data
    <3>1. sent[x].data \in Seq(Octets) /\ off[x] + 2 + Len(sent[x].data) <= Len(d)
      BY <1>2, <1>3, <1>4, <2>3, SubTypes, LaidInside
    <3>2. \A i \in 1..Len(sent[x].data) : d[off[x] + 2 + i] = sent[x].data[i]
      BY <1>4, <2>3 DEF Laid
    <3>3. SubSeq(d, off[x] + 3, off[x] + 2 + Len(sent[x].data)) = sent[x].data
      BY <1>2, <2>4, <3>1, <3>2, DataTakenOut
    <3>4. QED  BY <2>1, <2>4, <3>3
  <2>6. start' = off[j'+1]
    BY <1>1, <2>1, <2>3, <2>4
  <2> HIDE DEF t, data
  <2>7. ASSUME NEW k \in 1..j', LastOfType(k)'
        PROVE  sent[k].type \in DOMAIN m_pkts' /\ m_pkts'[sent[k].type] = sent[k].data
    <3>1. CASE k = x
      BY <1>1, <2>4, <2>5, <3>1
    <3>2. CASE k # x
      <4>1. k \in 1..j /\ x \in k+1..j'
        BY <1>2, <2>3, <3>2 DEF x
      <4>2. \A i \in k+1..j' : sent[i].type # sent[k].type
        BY <1>1, <2>7 DEF LastOfType
      <4>3. sent[k].type # t
        BY <2>4, <4>1, <4>2
      <4>4. \A i \in k+1..j : i \in k+1..j'
        BY <1>2, <2>3, <4>1 DEF x
      <4>5. LastOfType(k)
        BY <4>2, <4>4 DEF LastOfType
      <4>6. sent[k].type \in DOMAIN m_pkts /\ m_pkts[sent[k].type] = sent[k].data
        BY <1>4, <1>5, <4>1, <4>5
      <4>7. QED  BY <1>1, <4>3, <4>6
    <3>3. QED  BY <3>1, <3>2
  <2>8. j' \in 0..Len(sent)
    BY <2>1, <2>3
  <2>9. QED  BY <2>6, <2>7, <2>8
<1>6. Laid(off, d', sent') /\ (Proper(sent))' = Proper(sent)
  BY <1>1, <1>4 DEF Proper
<1>7. QED
  BY <1>1, <1>3, <1>5, <1>6 DEF SentInv

LEMMA SentInductive ==
  ASSUME IInv, BuiltInv, SentInv, [Next]_vars
  PROVE  SentInv'
<1>1. ASSUME UNCHANGED <<d, start, j, sent, m_pkts>>
      PROVE  SentInv'
  BY <1>1 DEF SentInv, Laid, Proper, LastOfType
<1>2. CASE Build \/ UNCHANGED vars
  BY <1>1, <1>2 DEF Build, Open, ExtAppend, ExtAllocate, FillIn, Discard, vars, reading
<1>3. CASE ParseClear \/ ParseEnd
  BY <1>3 DEF ParseClear, ParseEnd, EndOfPacket, SentInv
<1>4. CASE ParseInsert
  BY <1>4, SentInserted
<1>5. ASSUME NEW p, Receive(p, None) PROVE SentInv'
  BY <1>5 DEF Receive, SentInv
<1>6. CASE pl # <<>> /\ Receive(pl, subs)
  BY <1>6, SentReceived
<1>7. QED
  BY <1>2, <1>3, <1>4, <1>5, <1>6 DEF Next, Read

LEMMA SentInvariant == Spec => [](IInv /\ BuiltInv /\ SentInv)
<1>1. Init => BuiltInv /\ SentInv
  <2> SUFFICES ASSUME Init PROVE BuiltInv /\ SentInv
    OBVIOUS
  <2>1. Len(pl) = 0 /\ Len(subs) = 0 /\ [k \in 1..1 |-> 0] \in [1..0+1 -> Nat] /\ room = None
    BY DEF Init
  <2>2. Laid([k \in 1..1 |-> 0], pl, subs)
    BY <2>1 DEF Laid
  <2>3. QED  BY <2>1, <2>2 DEF Init, BuiltInv, SentInv
<1>2. IInv /\ BuiltInv /\ SentInv /\ [Next]_vars => BuiltInv' /\ SentInv'
  BY BuiltInductive, SentInductive DEF IInv, Next
<1>3. QED
  BY <1>1, <1>2, Invariant, PTL DEF Spec

(* What the builders of this code put together, in whatever order it was   *)
(* filled in, comes out of the map: the last sub-packet of each type,      *)
(* octet for octet.                                                        *)
THEOREM BuiltComesBack == Spec => []BuiltPacketsReadBack
<1>1. IInv /\ BuiltInv /\ SentInv => BuiltPacketsReadBack
  <2> SUFFICES ASSUME IInv, SentInv, d # None, sent # None, \A k \in DOMAIN sent : Len(sent[k].data) < W
               PROVE  /\ Numpkts(d) = Len(sent)
                      /\ \A k \in 1..j : /\ sent[k].type \in DOMAIN m_pkts
                                         /\ m_pkts[sent[k].type] = sent[LastOf(sent[k].type)].data
    BY DEF BuiltPacketsReadBack
  <2>1. d \in Seq(Octets) /\ sent \in Seq(Subs) /\ j \in Nat
    BY DEF IInv, ReaderInv, SentInv
  <2>2. Proper(sent)
    BY <2>1 DEF Proper, SentInv
  <2>3. PICK off :
           /\ Laid(off, d, sent)
           /\ \A k \in 1..j : LastOfType(k) =>
                sent[k].type \in DOMAIN m_pkts /\ m_pkts[sent[k].type] = sent[k].data
    BY <2>2 DEF SentInv
  <2>4. Numpkts(d) = Len(sent)
    BY <2>1, <2>2, <2>3, BuiltCount
  <2>5. ASSUME NEW k \in 1..j
        PROVE  /\ sent[k].type \in DOMAIN m_pkts
               /\ m_pkts[sent[k].type] = sent[LastOf(sent[k].type)].data
    <3> DEFINE t == sent[k].type
               After == {j - i : i \in {i \in 1..j : sent[i].type = t}}
               P(i) == sent[i].type = t /\ \A l \in i+1..j : sent[l].type # t
    <3>1. \E i \in 1..j : P(i)
      <4>1. After \subseteq Nat /\ After # {}
        BY <2>1
      <4>2. PICK a \in After : \A b \in After : a <= b
        BY <4>1, LeastNat
      <4>3. PICK i \in 1..j : a = j - i /\ sent[i].type = t
        BY <4>2
      <4>4. ASSUME NEW l \in i+1..j PROVE sent[l].type # t
        <5>1. l \in 1..j /\ ~ (j - i <= j - l)
          BY <2>1
        <5>2. QED  BY <4>2, <4>3, <5>1
      <4>5. QED  BY <4>3, <4>4
    <3> DEFINE x == LastOf(t)
    <3>2. x \in 1..j /\ P(x)
      <4>1. x = CHOOSE i \in 1..j : P(i)
        BY DEF LastOf
      <4> HIDE DEF P, x
      <4>2. QED  BY <3>1, <4>1
    <3>3. sent[x].type = t /\ LastOfType(x)
      BY <3>2 DEF LastOfType
    <3> HIDE DEF x, t
    <3>4. t \in DOMAIN m_pkts /\ m_pkts[t] = sent[x].data
      BY <2>3, <3>2, <3>3
    <3>5. QED  BY <3>4 DEF x, t
  <2>6. QED  BY <2>4, <2>5
<1>2. QED
  BY <1>1, SentInvariant, PTL
=============================================================================
