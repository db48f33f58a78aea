---------------------------- MODULE NghamSizeTag ----------------------------
(***************************************************************************)
(* The size tag and its recognition in ngham_parse.  A tag is the set of   *)
(* the bits that are 1 in it, so that x^y is the symmetric difference.     *)
(***************************************************************************)
EXTENDS Naturals, FiniteSets

CONSTANTS
  Sizes,          \* number of frame sizes, NGH_SIZES
  Bits,           \* the bits of a tag
  TagOf,          \* NGH_SIZE_TAG: TagOf[s] is the tag of size s
  Forgiven,       \* NGH_SIZE_TAG_MAX_ERROR: wrong bits that are forgiven
  MaxFlips        \* bound: bits the channel flips

SizeNrs == 0..Sizes-1

Xor(x, y) == (x \ y) \cup (y \ x)

ASSUME BitsAssumption == Bits \subseteq Nat /\ IsFiniteSet(Bits)
ASSUME TagAssumption == Sizes \in Nat /\ TagOf \in [SizeNrs -> SUBSET Bits]
ASSUME ErrorAssumption == Forgiven \in Nat /\ MaxFlips \in Nat

(* Balls of radius Forgiven around the tags do not meet.                   *)
ASSUME TagsApart ==
  \A s, u \in SizeNrs : s # u =>
    Cardinality(Xor(TagOf[s], TagOf[u])) > 2 * Forgiven

VARIABLES sent, flipped   \* the size sent, the bits the channel has flipped

vars == <<sent, flipped>>

size_tag == Xor(TagOf[sent], flipped)

(* Mutant: one error too few is forgiven.                                  *)
ngham_tag_check_strict(x, y) == Cardinality(Xor(x, y)) < Forgiven

ngham_tag_check(x, y) == Cardinality(Xor(x, y)) <= Forgiven

(* The first size whose tag is near enough; Sizes if there is none.        *)
Matches(tag) == {s \in SizeNrs : ngham_tag_check(tag, TagOf[s])}
FirstMatch(tag) ==
  LET m == Matches(tag)
  IN  IF m = {} THEN Sizes ELSE CHOOSE s \in m : \A u \in m : s <= u

Init == sent \in SizeNrs /\ flipped = {}

(* The channel flips a bit; the order of the flips does not matter.        *)
Flip(b) ==
  /\ Cardinality(flipped) < MaxFlips
  /\ \A f \in flipped : f < b
  /\ flipped' = flipped \cup {b}
  /\ UNCHANGED sent

Next == \E b \in Bits : Flip(b)

Spec == Init /\ [][Next]_vars

(* Up to Forgiven wrong bits leave the size known, whichever               *)
(* bits they are and in whichever order the tags are tried.                *)
SizeRecovered ==
  Cardinality(flipped) <= Forgiven => FirstMatch(size_tag) = sent

=============================================================================
