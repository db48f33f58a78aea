-------------------------- MODULE MCNghamExtension --------------------------
(***************************************************************************)
(* Octets below four.  Type 0 has data of any size, type 1 one octet; type *)
(* 2 is a type without a size, as the real type 16, and type 3 is the      *)
(* first that does not exist, as the real type 17.                         *)
(***************************************************************************)
EXTENDS NghamExtension, SequencesExt

CONSTANT Variable

MCSizes  == [t \in 0..1 |-> IF t = 0 THEN Variable ELSE 1]
\* Memory behind the table: a size that no sub-packet has, a small one, "variable".
MCBehind == {[t \in 2..3 |-> IF t = 2 THEN x ELSE y] : x \in {W, 1, Variable}, y \in {W, Variable}}
MCDatas  == {<<>>, <<1>>, <<3, 1>>, <<1, 1, 0, 0>>}
\* Any four octets, and any three behind a good sub-packet.
MCForeign == SeqOf(0..3, 4) \cup {good \o p : good \in {<<1, 1, 3>>, <<0, 1, 1>>}, p \in SeqOf(0..3, 3)}
=============================================================================
