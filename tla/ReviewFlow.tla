----------------------------- MODULE ReviewFlow -----------------------------
(***************************************************************************)
(* What a PM work order promises its users: the status diagram of          *)
(* doc/api/README.md as a state machine.  Nothing is said of snapshots,    *)
(* requests in flight or rows; WorkOrderLifecycle implements it.           *)
(*                                                                         *)
(* The diagram says nothing of a work order after it was cancelled.        *)
(***************************************************************************)
EXTENDS Naturals

CONSTANTS Items,        \* the PM work orders
          MaxRounds     \* bound: rounds of one work order

VARIABLES phase,        \* where the work order is on the diagram
          sentBack      \* how many reviews have sent it back

Finals == {"COMPLETED", "CONDITIONAL"}

Init ==
    /\ phase = [i \in Items |-> "NULL"]
    /\ sentBack = [i \in Items |-> 0]

Move(i, from, to) ==
    /\ phase[i] = from
    /\ phase' = [phase EXCEPT ![i] = to]
    /\ UNCHANGED sentBack

Open(i) == Move(i, "NULL", "ASSIGNED")
StartWork(i) == Move(i, "ASSIGNED", "IN_PROGRESS")
SubmitWork(i) == Move(i, "IN_PROGRESS", "PENDING_APPROVAL")
Close(i) == \E f \in Finals : Move(i, "PENDING_APPROVAL", f)

SendBack(i) ==
    /\ phase[i] = "PENDING_APPROVAL"
    /\ sentBack[i] + 1 < MaxRounds
    /\ phase' = [phase EXCEPT ![i] = "ASSIGNED"]
    /\ sentBack' = [sentBack EXCEPT ![i] = @ + 1]

Cancel(i) ==
    /\ phase[i] # "NULL"
    /\ phase' = [phase EXCEPT ![i] = "CANCELLED"]
    /\ sentBack' = [sentBack EXCEPT ![i] = 0]

Next == \E i \in Items : \/ Open(i) \/ StartWork(i) \/ SubmitWork(i)
                         \/ Close(i) \/ SendBack(i) \/ Cancel(i)

Spec == Init /\ [][Next]_<<phase, sentBack>>
=============================================================================
