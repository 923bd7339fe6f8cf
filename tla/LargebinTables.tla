--------------------------- MODULE LargebinTables ---------------------------
(***************************************************************************)
(* The tables of largebin_index in malloc-impl.c: up to size               *)
(* (last + 1) * width, less one, bins are one width wide, and numbered     *)
(* from base on.                                                           *)
(***************************************************************************)
EXTENDS Integers, Sequences

Row(width, last, base) == [width |-> width, last |-> last, base |-> base]

CommonRows == << Row(512, 20, 91), Row(4096, 10, 110), Row(32768, 4, 119), Row(262144, 2, 124) >>

largebin_index_32     == << Row(64, 38, 56) >> \o CommonRows
largebin_index_32_big == << Row(64, 45, 49) >> \o CommonRows
largebin_index_64     == << Row(64, 48, 48) >> \o CommonRows
=============================================================================
