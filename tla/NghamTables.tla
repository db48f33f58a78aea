----------------------------- MODULE NghamTables -----------------------------
(***************************************************************************)
(* The seven frame sizes of ngham.c.                                       *)
(***************************************************************************)
EXTENDS Naturals

NGH_SIZES == 7
NGH_SIZE_TAG_SIZE == 3
NGH_SIZE_TAG_MAX_ERROR == 6
NGHAM_PL_MAX == 220

Table(row) == [s \in 0..NGH_SIZES-1 |-> row[s+1]]

NGH_PL_SIZE      == Table(<<28,  60,  92, 124, 156, 188, 220>>)
NGH_PL_SIZE_FULL == Table(<<31,  63,  95, 127, 159, 191, 223>>)
NGH_PL_PAR_SIZE  == Table(<<47,  79, 111, 159, 191, 223, 255>>)
NGH_PAR_SIZE     == Table(<<16,  16,  16,  32,  32,  32,  32>>)

(* The size tag vectors, most significant bit first.                       *)
NGH_SIZE_TAG == Table(<<
  <<0,0,1,1,1,0,1,1,0,1,0,0,1,0,0,1,1,1,0,0,1,1,0,1>>,
  <<0,1,0,0,1,1,0,1,1,1,0,1,1,0,1,0,0,1,0,1,0,1,1,1>>,
  <<0,1,1,1,0,1,1,0,1,0,0,1,0,0,1,1,1,0,0,1,1,0,1,0>>,
  <<1,0,0,1,1,0,1,1,1,0,1,1,0,1,0,0,1,0,1,0,1,1,1,0>>,
  <<1,0,1,0,0,0,0,0,1,1,1,1,1,1,0,1,0,1,1,0,0,0,1,1>>,
  <<1,1,0,1,0,1,1,0,0,1,1,0,1,1,1,0,1,1,1,1,1,0,0,1>>,
  <<1,1,1,0,1,1,0,1,0,0,1,0,0,1,1,1,0,0,1,1,0,1,0,0>>
  >>)
=============================================================================
