--------------------------- MODULE MCReadingSheet ---------------------------
(***************************************************************************)
(* A small instance of ReadingSheet for TLC.                               *)
(***************************************************************************)
EXTENDS ReadingSheet, TLC

CONSTANTS k1, a, b

Symmetry == Permutations(Clients)
=============================================================================
