----------------------- MODULE MCWorkOrderLifecycle -----------------------
(* WorkOrderLifecycle on small instances. *)
EXTENDS WorkOrderLifecycle, TLC

CONSTANTS pm1, cm1

OnePm == pm1 :> "PM"
PmAndCm == pm1 :> "PM" @@ cm1 :> "CM"

\* No action or property tells two clients or two engineers apart.
Symmetry == Permutations(Clients) \union Permutations(Engineers)

\* Kinds of request.  "findCm" is a review that escalates; creating a work
\* order is always possible.
WorkRequests == {"reassign", "checkIn", "checkOut", "saveReport", "submitReport",
                 "decide"}
PmRequests == WorkRequests \union {"softDelete", "deleteReport"}
LiveRequests == {"checkIn", "saveReport", "submitReport", "decide", "softDelete"}
CmRequests == {"saveReport", "submitReport", "readMark", "decide", "findCm"}
=============================================================================
