------------------------------ MODULE MCVmsFile ------------------------------
(* VmsFile with blocks of two bytes: the least in which an offset can lie  *)
(* within a block, and a range have all three parts.                       *)
EXTENDS VmsFile
=============================================================================
