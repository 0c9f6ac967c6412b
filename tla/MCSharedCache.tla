--------------------------- MODULE MCSharedCache ---------------------------
(* SharedCache with the schema table and another one.                      *)
EXTENDS SharedCache, TLC

Symmetry == Permutations(Conn)
=============================================================================
