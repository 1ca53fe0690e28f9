--------------------------- MODULE MCCertificates ---------------------------
(***************************************************************************)
(* A small instance of Certificates for TLC.                               *)
(***************************************************************************)
EXTENDS Certificates, TLC

CONSTANTS k1, i1, i2, a, b

Symmetry == Permutations(Instruments) \union Permutations(Clients)
=============================================================================
