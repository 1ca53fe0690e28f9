----------------------------- MODULE MCSessions -----------------------------
(***************************************************************************)
(* A small instance of Sessions for TLC.                                   *)
(***************************************************************************)
EXTENDS Sessions, TLC

CONSTANTS u1, u2, n1, n2, e1, e2, t1, a, b

Symmetry == Permutations(Users) \union Permutations(Codes)
            \union Permutations(Emails)
            \union Permutations(Clients)

AllRequests == {"register", "login", "refresh", "logout", "change", "users"}
=============================================================================
