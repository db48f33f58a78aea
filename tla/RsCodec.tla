------------------------------- MODULE RsCodec -------------------------------
(***************************************************************************)
(* A Reed-Solomon codec of fec-3.0.1 at work, as rstest.c works it: set up *)
(* a control block, encode a block, damage it, decode it, release.         *)
(***************************************************************************)
EXTENDS RsFixed, FiniteSets, SequencesExt

CONSTANTS
  NULL,
  Tests,      \* the tests: arguments of init_rs, version of the functions, ...
  BadArgs,    \* arguments that init_rs may refuse
  DataOf(_),  \* the data blocks of a test
  ErrorsOf(_) \* its error patterns: functions from positions to records of
              \* errval, what is added to the symbol, and erase, whether the
              \* position is declared erased

ControlBlocks == [t \in {u \in Tests : u.version \in {"char", "int"}} |-> ControlBlock(t.args)] @@ <<>>

VARIABLES
  heap,       \* blocks of memory that are allocated
  test,       \* the test in progress, or NULL: no control block
  block,      \* the code word
  tblock,     \* the code word with errors
  derrlocs,   \* the list of erasures, then of corrected positions
  derrors     \* what the decoder returned

vars == <<heap, test, block, tblock, derrlocs, derrors>>

Idle == block = <<>> /\ tblock = <<>> /\ derrlocs = <<>> /\ derrors = NULL
Init == heap = {} /\ test = NULL /\ Idle

-----------------------------------------------------------------------------
(* init_rs_char, init_rs_int, free_rs_char, free_rs_int                    *)

RsBlocks == {"rs", "alpha_to", "index_of", "genpoly"}
DataBits(version) == IF version = "int" THEN 32 ELSE 8

(* Mutant: the log table is forgotten when the last allocation fails.      *)
LeftBehindLeaky(t, refused) ==
  CASE refused = "genpoly" /\ InRange(t.args, DataBits(t.version)) /\ Accepted(t.args) -> {"index_of"}
    [] ~InRange(t.args, DataBits(t.version)) \/ refused \in RsBlocks \/ ~Accepted(t.args) -> {}
    [] OTHER -> RsBlocks

(* What stays allocated: everything, or nothing if the arguments are out   *)
(* of range, an allocation is refused or the polynomial is not accepted.   *)
LeftBehind(t, refused) ==
  LET before == CASE refused = "rs"       -> {}
                  [] refused = "alpha_to" -> {"rs"}
                  [] refused = "index_of" -> {"rs", "alpha_to"}
                  [] OTHER                -> {"rs", "alpha_to", "index_of"}
      freed  == CASE refused = "rs"       -> {}
                  [] refused = "alpha_to" -> {"rs"}
                  [] refused = "index_of" -> {"alpha_to", "rs"}
                  [] OTHER                -> {"alpha_to", "index_of", "rs"}
  IN  IF ~InRange(t.args, DataBits(t.version)) THEN {}
      ELSE IF refused \in RsBlocks \/ ~Accepted(t.args) THEN before \ freed
      ELSE RsBlocks

(* The search for iprim ends only if it exists.                            *)
InitRs(t, refused) ==
  /\ test = NULL
  /\ t.version \in {"char", "int"}
  /\ IprimExists(t.args)
  /\ heap' = heap \cup LeftBehind(t, refused)
  /\ test' = IF LeftBehind(t, refused) = RsBlocks THEN t ELSE NULL
  /\ UNCHANGED <<block, tblock, derrlocs, derrors>>

FreeRs ==
  /\ test # NULL /\ derrors # NULL
  /\ heap' = heap \ RsBlocks
  /\ test' = NULL
  /\ block' = <<>> /\ tblock' = <<>> /\ derrlocs' = <<>> /\ derrors' = NULL

(* The fixed code needs no set-up.                                         *)
UseFixed(t) ==
  /\ test = NULL
  /\ t.version \notin {"char", "int"}
  /\ test' = t
  /\ UNCHANGED <<heap, block, tblock, derrlocs, derrors>>

-----------------------------------------------------------------------------
(* The version of the functions that a test calls.                         *)

ParityOf(t, data) ==
  CASE t.version = "8"     -> encode_rs_8(data, t.args.pad, "PORT")
    [] t.version = "av"    -> encode_rs_8(data, t.args.pad, "ALTIVEC")
    [] t.version = "ccsds" -> encode_rs_ccsds(data, t.args.pad, "PORT")
    [] OTHER               -> Parity(ControlBlocks[t], data)

Decoded(t, data, eras_pos) ==
  CASE t.version \in {"8", "av"} -> decode_rs_8(data, eras_pos, t.args.pad)
    [] t.version = "ccsds"       -> decode_rs_ccsds(data, eras_pos, t.args.pad)
    [] OTHER                     -> Decode(ControlBlocks[t], data, eras_pos)

Encode(data) ==
  /\ test # NULL /\ block = <<>>
  /\ block' = data \o [j \in 1..test.args.nroots |-> ParityOf(test, data)[j]]
  /\ tblock' = block'
  /\ UNCHANGED <<heap, test, derrlocs, derrors>>

(* Errors and erasures.  Positions are those of the shortened block, but  *)
(* those on the list those of the unshortened one.                         *)
Damage(errors) ==
  /\ block # <<>> /\ tblock = block /\ derrors = NULL
  /\ tblock' = [k \in DOMAIN block |->
       IF k - 1 \in DOMAIN errors THEN block[k] ^^ errors[k - 1].errval ELSE block[k]]
  /\ derrlocs' = SetToSortSeq({l + test.args.pad : l \in {m \in DOMAIN errors : errors[m].erase}}, <)
  /\ UNCHANGED <<heap, test, block, derrors>>

DecodeBlock ==
  /\ block # <<>> /\ derrors = NULL
  /\ \E r \in {Decoded(test, tblock, derrlocs)} :
       /\ derrors' = r.count
       /\ tblock' = r.data
       /\ derrlocs' = r.eras_pos
  /\ UNCHANGED <<heap, test, block>>

Next ==
  \/ \E t \in Tests \cup BadArgs, refused \in RsBlocks \cup {"none"} : InitRs(t, refused)
  \/ \E t \in Tests : UseFixed(t)
  \/ test # NULL /\ \E data \in DataOf(test) : Encode(data)
  \/ test # NULL /\ \E errors \in ErrorsOf(test) : Damage(errors)
  \/ DecodeBlock
  \/ FreeRs

Spec == Init /\ [][Next]_vars

-----------------------------------------------------------------------------
(* Reference: products of field elements, digit by digit, and code words   *)
(* as the multiples of the generator polynomial.                           *)

Product(e, x, y) ==
  LET turn(p, k) == [sum |-> IF Bit(y, k) = 1 THEN p.sum ^^ p.x ELSE p.sum, x |-> NextPower(e, p.x)]
  IN  Loop(turn, [sum |-> 0, x |-> x], 0, e.symsize - 1).sum

Root(e, i) == Powers(e)[1 + (((e.fcr + i) * e.prim) % (2^e.symsize - 1))]
IsCodeword(e, word) ==
  \A i \in 0..e.nroots-1 :
    LET root == Root(e, i)
    IN  Loop(LAMBDA s, j : Product(e, s, root) ^^ word[j], 0, 1, Len(word)) = 0

(* What a block is in the conventional basis.                              *)
Conventional(t, word) == IF t.version = "ccsds" THEN ToConventional(word) ELSE word

-----------------------------------------------------------------------------
(* Nothing stays allocated after a set-up that fails, whichever step it    *)
(* fails at, and all of it after one that does not.                        *)
SetUpAllOrNothing ==
  heap = IF test # NULL /\ test.version \in {"char", "int"} THEN RsBlocks ELSE {}

(* Whatever version encodes it, a block is a code word of the code that    *)
(* the arguments ask for, with the data in front.                          *)
EncodesCodewords ==
  block # <<>> /\ tblock = block /\ derrors = NULL =>
    /\ IsCodeword(test.args, Conventional(test, block))
    /\ SubSeq(block, 1, Len(block) - test.args.nroots) \in DataOf(test)

(* Errors, which count twice, and erasures up to the number of parity      *)
(* symbols are corrected, and the decoder says how many and where.         *)
CorrectsUpToCapability ==
  [][derrors' # derrors /\ derrors' # NULL =>
       LET pad    == test.args.pad
           wrong  == {l + pad : l \in {k - 1 : k \in {j \in DOMAIN block : tblock[j] # block[j]}}}
           erased == {derrlocs[i] : i \in DOMAIN derrlocs}
       IN  2 * Cardinality(wrong \ erased) + Cardinality(erased) <= test.args.nroots =>
             /\ tblock' = block
             /\ IF wrong = {} THEN derrors' = 0
                ELSE /\ derrors' = Cardinality(wrong \cup erased)
                     /\ {derrlocs'[i] : i \in 1..derrors'} = wrong \cup erased]_vars

(* Beyond that it changes nothing and says so, or changes no more symbols  *)
(* than there are parity symbols, and none that it does not report.        *)
ChangesOnlyWhatItReports ==
  [][derrors' # derrors /\ derrors' # NULL =>
       IF derrors' = -1 THEN tblock' = tblock /\ derrlocs' = derrlocs
       ELSE /\ derrors' <= test.args.nroots
            /\ \A k \in DOMAIN tblock :
                 tblock'[k] # tblock[k] => k - 1 + test.args.pad \in {derrlocs'[i] : i \in 1..derrors'}]_vars
=============================================================================
