------------------------------- MODULE MCPager -------------------------------
(* Pager with one or two connections, which are interchangeable.           *)
EXTENDS Pager, TLC

Symmetry == Permutations(Conn)
=============================================================================
