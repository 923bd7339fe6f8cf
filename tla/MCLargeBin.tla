----------------------------- MODULE MCLargeBin -----------------------------
(***************************************************************************)
(* Seven chunks of four sizes in one bin that is eight wide.              *)
(***************************************************************************)
EXTENDS LargeBin

Steps == << [width |-> 8, last |-> 4, base |-> 2] >>

ChunkNames == { "a", "b", "c", "d", "e", "f", "g" }

SizeOf == [p \in ChunkNames |-> CASE p \in {"a", "b"} -> 14 [] p \in {"c", "d", "e"} -> 12
                                   [] p = "f" -> 10 [] OTHER -> 8]
=============================================================================
