---------------------------- MODULE NghamRsBlocks ----------------------------
(***************************************************************************)
(* The Reed-Solomon control blocks of ngham.c.  There is one for each size *)
(* in static memory, copied from two that init_rs_char makes; the tables   *)
(* on the heap are shared by all copies.                                   *)
(***************************************************************************)
EXTENDS Integers, NghamTables

Tables == {"alpha_to", "index_of", "genpoly"}
TablesOf(nroots) == {[code |-> nroots, block |-> b] : b \in Tables}

VARIABLES
  rs_cb,    \* for each size the number of roots, which also tells whose
            \* tables it points to, and the padding
  ready,    \* ngham_init_arrays has been called, ngham_deinit_arrays not
  heap,     \* tables that are allocated
  invalid   \* what was given to free() and did not come from the heap

blockvars == <<rs_cb, ready, heap, invalid>>

BlocksInit ==
  /\ rs_cb = [j \in 0..NGH_SIZES-1 |-> [nroots |-> 0, pad |-> 0]]
  /\ ready = FALSE /\ heap = {} /\ invalid = {}

Roots(j) == IF j < 3 THEN 16 ELSE 32

(* That memory is granted is taken for given: the pointers are not tested. *)
(* The two blocks that are copied from are given back at once.             *)
ngham_init_arrays ==
  /\ ~ready
  /\ rs_cb' = [j \in 0..NGH_SIZES-1 |->
                 [nroots |-> Roots(j), pad |-> NGH_PL_PAR_SIZE[6] - NGH_PL_PAR_SIZE[j]]]
  /\ heap' = heap \cup TablesOf(16) \cup TablesOf(32)
  /\ ready' = TRUE
  /\ UNCHANGED invalid

(* Mutant: two sizes that share their tables.                              *)
ReleasedSame == <<0, 2>>

(* The sizes whose tables are released, one for each code.                 *)
Released == <<0, 3>>

(* free_rs_char, for one size: its tables, and the block, which is static. *)
Freed(m, j) ==
  LET tables == TablesOf(rs_cb[j].nroots)
      block  == [code |-> j, block |-> "rs_cb"]
  IN  [heap |-> m.heap \ tables, invalid |-> m.invalid \cup (tables \ m.heap) \cup {block}]

ngham_deinit_arrays ==
  /\ ready
  /\ LET m == Freed(Freed([heap |-> heap, invalid |-> invalid], Released[1]), Released[2])
     IN  heap' = m.heap /\ invalid' = m.invalid
  /\ ready' = FALSE
  /\ UNCHANGED rs_cb

BlocksNext == ngham_init_arrays \/ ngham_deinit_arrays

BlocksSpec == BlocksInit /\ [][BlocksNext]_blockvars

-----------------------------------------------------------------------------
(* While the codec may be used, each size has tables that exist, as many   *)
(* roots as the table of sizes says it has parity octets, and a padding    *)
(* that leaves a code word of the length on the air, with room in front    *)
(* for the header, the payload and its CRC.  After the release nothing is  *)
(* left, and no table was freed twice.  The two static blocks that were    *)
(* passed to free() are what is wrong with it.                             *)
ControlBlocksSound ==
  /\ ready => \A j \in 0..NGH_SIZES-1 :
       /\ TablesOf(rs_cb[j].nroots) \subseteq heap
       /\ rs_cb[j].nroots = NGH_PAR_SIZE[j]
       /\ 255 - rs_cb[j].pad = NGH_PL_PAR_SIZE[j]
       /\ 255 - rs_cb[j].pad - rs_cb[j].nroots = 1 + NGH_PL_SIZE[j] + 2
  /\ ~ready => heap = {} /\ \A x \in invalid : x.block = "rs_cb"
=============================================================================
