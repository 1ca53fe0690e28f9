---------------------------- MODULE MCPmRecords ----------------------------
(***************************************************************************)
(* Small instances of PmRecords for TLC.                                   *)
(***************************************************************************)
EXTENDS PmRecords, TLC

CONSTANTS w1, w2, r1, k1, x1, x2, a, b

Symmetry == Permutations(WorkOrders) \union Permutations(Reports)
            \union Permutations(Contents) \union Permutations(Clients)

AllRequests == {"save", "submit", "deleteReport", "patchSchedule",
                "createCalibration", "patchCalibration", "deleteCalibration"}
=============================================================================
