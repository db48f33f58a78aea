------------------------- MODULE NghamSizeTagProofs -------------------------
(***************************************************************************)
(* Size tags that lie apart are told apart: the Hamming distance is a      *)
(* metric, so a tag with few wrong bits is near its own vector and far     *)
(* from every other one.                                                   *)
(***************************************************************************)
EXTENDS NghamSizeTag, FiniteSetTheorems, TLAPS

LEMMA TagTypes ==
  ASSUME NEW s \in SizeNrs
  PROVE  TagOf[s] \subseteq Bits /\ IsFiniteSet(TagOf[s])
BY TagAssumption, BitsAssumption, FS_Subset

LEMMA XorFinite ==
  ASSUME NEW x, NEW y, IsFiniteSet(x), IsFiniteSet(y)
  PROVE  IsFiniteSet(Xor(x, y)) /\ Cardinality(Xor(x, y)) \in Nat
<1>1. IsFiniteSet(x \cup y)
  BY FS_Union
<1>2. Xor(x, y) \subseteq x \cup y
  BY DEF Xor
<1>3. QED
  BY <1>1, <1>2, FS_Subset, FS_CardinalityType

(* The triangle inequality of the Hamming distance.                        *)
LEMMA Triangle ==
  ASSUME NEW x, NEW y, NEW z, IsFiniteSet(x), IsFiniteSet(y), IsFiniteSet(z)
  PROVE  Cardinality(Xor(x, z)) <= Cardinality(Xor(x, y)) + Cardinality(Xor(y, z))
<1> DEFINE A == Xor(x, y)
           B == Xor(y, z)
<1>1. /\ IsFiniteSet(A) /\ Cardinality(A) \in Nat
      /\ IsFiniteSet(B) /\ Cardinality(B) \in Nat
      /\ Cardinality(Xor(x, z)) \in Nat
  BY XorFinite
<1>2. Xor(x, z) \subseteq A \cup B
  BY DEF Xor
<1>3. /\ IsFiniteSet(A \cup B)
      /\ Cardinality(A \cup B) = Cardinality(A) + Cardinality(B) - Cardinality(A \cap B)
  BY <1>1, FS_Union
<1>4. Cardinality(A \cap B) \in Nat
  <2>1. IsFiniteSet(A \cap B)
    BY <1>1, FS_Intersection
  <2>2. QED  BY <2>1, FS_CardinalityType
<1>5. Cardinality(Xor(x, z)) <= Cardinality(A \cup B)
  BY <1>2, <1>3, FS_Subset
<1>6. Cardinality(A \cup B) <= Cardinality(A) + Cardinality(B)
  <2> HIDE DEF A, B
  <2>1. Cardinality(A \cup B) \in Nat
    BY <1>3, FS_CardinalityType
  <2>2. QED  BY <1>1, <1>3, <1>4, <2>1
<1>7. QED
  <2> HIDE DEF A, B
  <2>1. Cardinality(A \cup B) \in Nat
    BY <1>3, FS_CardinalityType
  <2>2. Cardinality(Xor(x, z)) <= Cardinality(A) + Cardinality(B)
    BY <1>1, <1>5, <1>6, <2>1
  <2>3. QED  BY <2>2 DEF A, B

(* Whatever three bytes arrive, at most one size is found in them.         *)
THEOREM AtMostOneSize ==
  ASSUME NEW tag \in SUBSET Bits, NEW s \in Matches(tag), NEW u \in Matches(tag)
  PROVE  s = u
<1> SUFFICES ASSUME s # u PROVE FALSE
  OBVIOUS
<1>1. s \in SizeNrs /\ u \in SizeNrs
  BY DEF Matches
<1>2. IsFiniteSet(tag)
  BY BitsAssumption, FS_Subset
<1>3. IsFiniteSet(TagOf[s]) /\ IsFiniteSet(TagOf[u])
  BY <1>1, TagTypes
<1>4. /\ Cardinality(Xor(tag, TagOf[s])) <= Forgiven
      /\ Cardinality(Xor(tag, TagOf[u])) <= Forgiven
  BY DEF Matches, ngham_tag_check
<1>5. Xor(TagOf[s], tag) = Xor(tag, TagOf[s])
  BY DEF Xor
<1>6. Cardinality(Xor(TagOf[s], TagOf[u]))
        <= Cardinality(Xor(tag, TagOf[s])) + Cardinality(Xor(tag, TagOf[u]))
  BY <1>2, <1>3, <1>5, Triangle
<1>7. Cardinality(Xor(TagOf[s], TagOf[u])) > 2 * Forgiven
  BY <1>1, TagsApart
<1>8. /\ Cardinality(Xor(TagOf[s], TagOf[u])) \in Nat
      /\ Cardinality(Xor(tag, TagOf[s])) \in Nat
      /\ Cardinality(Xor(tag, TagOf[u])) \in Nat
  BY <1>2, <1>3, XorFinite
<1>9. QED
  BY <1>4, <1>6, <1>7, <1>8, ErrorAssumption

Inv == sent \in SizeNrs /\ flipped \in SUBSET Bits

LEMMA InvHolds == Spec => []Inv
<1>1. Init => Inv
  BY DEF Init, Inv
<1>2. Inv /\ [Next]_vars => Inv'
  BY DEF Inv, Next, Flip, vars
<1>3. QED
  BY <1>1, <1>2, PTL DEF Spec

LEMMA RecoveredInState == Inv => SizeRecovered
<1> SUFFICES ASSUME Inv, Cardinality(flipped) <= Forgiven
             PROVE  FirstMatch(size_tag) = sent
  BY DEF SizeRecovered
<1>1. sent \in SizeNrs /\ flipped \subseteq Bits /\ TagOf[sent] \subseteq Bits
  BY TagTypes DEF Inv
<1>2. size_tag \in SUBSET Bits
  BY <1>1 DEF size_tag, Xor
<1>3. Xor(size_tag, TagOf[sent]) = flipped
  BY DEF size_tag, Xor
<1>4. sent \in Matches(size_tag)
  BY <1>1, <1>3 DEF Matches, ngham_tag_check
<1>5. Matches(size_tag) = {sent}
  BY <1>2, <1>4, AtMostOneSize
<1>6. QED
  BY <1>1, <1>5 DEF FirstMatch, SizeNrs

(* With tags more than 2 * Forgiven bits apart, any          *)
(* Forgiven wrong bits leave the size known.                 *)
THEOREM SizeTagRobust == Spec => []SizeRecovered
BY InvHolds, RecoveredInState, PTL
=============================================================================
