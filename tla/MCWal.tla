-------------------------------- MODULE MCWal --------------------------------
(* Wal with two connections, which are interchangeable.                    *)
EXTENDS Wal, TLC

WriteAll == [dirty |-> {1, 2}, size |-> 2]
Shrink == [dirty |-> {1}, size |-> 1]
MCCommits == {WriteAll, Shrink}

Symmetry == Permutations(Conn)
=============================================================================
