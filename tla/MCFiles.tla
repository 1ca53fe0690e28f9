------------------------------ MODULE MCFiles ------------------------------
(***************************************************************************)
(* A small instance of Files for TLC.                                      *)
(***************************************************************************)
EXTENDS Files, TLC

CONSTANTS i1, a1, o1, a, b, c

Symmetry == Permutations(Clients)
=============================================================================
