------------------------- MODULE WorkOrderLifecycle -------------------------
(***************************************************************************)
(* The life of the work orders of one panel: rounds, reports, reviews and  *)
(* cancellation, as internal/service and internal/repository run them      *)
(* against PostgreSQL.                                                     *)
(*                                                                         *)
(* An HTTP request is a snapshot followed by transactions.  The handler    *)
(* first reads the work order (GetView) outside any transaction, keeps the *)
(* round id and the status it saw, and later runs one or more transactions *)
(* with those values.  A step of this module is one such read or one such  *)
(* transaction; the requests of different clients interleave between them. *)
(*                                                                         *)
(* Rounds are named by their round_no.  NULL columns and missing rows are  *)
(* None.  The panel has one problem topic: every CM work order covers it.  *)
(***************************************************************************)
EXTENDS Naturals

CONSTANTS
    WorkOrders,     \* ids of rtu.work_orders rows, created or not yet
    WoType,         \* work_order_type of each id; it never changes
    Engineers,      \* users a round can be assigned to
    Clients,        \* concurrent HTTP requests
    MaxRounds,      \* bound: rounds opened on one work order
    Requests,       \* bound: the kinds of request the clients send
    Disconnects     \* whether a request can die between two of its steps

None == "NULL"

ASSUME WoTypeAssumption == WoType \in [WorkOrders -> {"PM", "CM"}]
ASSUME MaxRoundsAssumption == MaxRounds \in Nat \ {0}
ASSUME NoneAssumption == None \notin Engineers /\ None \notin WorkOrders

VARIABLES
    status, active, closed, current,    \* rtu.work_orders
    roundCount,                         \* rtu.work_order_rounds: how many,
    assignedTo, checkedIn, checkedOut,  \*   and the columns of each; a time
    submitted,                          \*   stamp is whether it is set
    report,                             \* rtu.pm_reports, rtu.cm_reports
    approval, newWorkOrder,             \* rtu.wo_approvals
    lastLog,                            \* newest status transition in the activity log
    pmDates,                            \* rtu.panels.last_pm_date set for it
    cancelledOnce,                      \* history: it was soft-deleted before
    request                             \* the requests in flight

woRow == <<status, active, closed, current>>
roundRows == <<roundCount, assignedTo, checkedIn, checkedOut, submitted>>
reviewRows == <<approval, newWorkOrder>>
vars == <<woRow, roundRows, report, reviewRows, lastLog, pmDates,
          cancelledOnce, request>>

OpenStatuses == {"ASSIGNED", "IN_PROGRESS", "PENDING", "PENDING_APPROVAL"}
ClosedStatuses == {"COMPLETED", "CONDITIONAL"}
Statuses == OpenStatuses \union ClosedStatuses \union {"CANCELLED"}

\* "ESCALATED" is the decision REJECTED sent with escalate = true.
ClosingDecisions == {"APPROVED", "APPROVED_CONDITION", "ESCALATED"}
Decisions == ClosingDecisions \union {"REJECTED"}

RoundNos == 1 .. MaxRounds

Steps == {"reassign", "checkIn", "checkOut", "saveReport", "submitReport",
          "readMark", "mark", "findCm", "createCm", "decide", "pmDates"}

\* What a handler holds between two of its steps: the next step, the work
\* order, the round and the status it saw, and its input.
Request == [step : Steps, wo : WorkOrders, rnd : RoundNos, st : Statuses,
            to : Engineers \union {None}, decision : Decisions \union {None},
            cm : WorkOrders \union {None}]
Idle == [step |-> "idle"]

-----------------------------------------------------------------------------
(***************************************************************************)
(* Rows                                                                    *)
(***************************************************************************)

\* Mutation: the search for open work orders forgets their type.
OpenAnyType(w) == active[w] /\ status[w] \in OpenStatuses

\* buildOpenCmWorkOrderConditions
OpenCm(w) == WoType[w] = "CM" /\ active[w] /\ status[w] \in OpenStatuses

Init ==
    /\ status = [w \in WorkOrders |-> None]
    /\ active = [w \in WorkOrders |-> FALSE]
    /\ closed = [w \in WorkOrders |-> FALSE]
    /\ current = [w \in WorkOrders |-> 0]
    /\ roundCount = [w \in WorkOrders |-> 0]
    /\ assignedTo = [w \in WorkOrders |-> [n \in RoundNos |-> None]]
    /\ checkedIn = [w \in WorkOrders |-> [n \in RoundNos |-> FALSE]]
    /\ checkedOut = [w \in WorkOrders |-> [n \in RoundNos |-> FALSE]]
    /\ submitted = [w \in WorkOrders |-> [n \in RoundNos |-> FALSE]]
    /\ report = [w \in WorkOrders |-> [n \in RoundNos |-> None]]
    /\ approval = [w \in WorkOrders |-> [n \in RoundNos |-> None]]
    /\ newWorkOrder = [w \in WorkOrders |-> None]
    /\ lastLog = [w \in WorkOrders |-> [from |-> None, to |-> None]]
    /\ pmDates = [w \in WorkOrders |-> FALSE]
    /\ cancelledOnce = [w \in WorkOrders |-> FALSE]
    /\ request = [c \in Clients |-> Idle]

\* Mutation: the activity row is forgotten.
SetStatusUnlogged(w, from, to) ==
    /\ status' = [status EXCEPT ![w] = to]
    /\ UNCHANGED lastLog

\* UpdateWorkOrderStatus and the activity row that goes with it.
SetStatus(w, from, to) ==
    /\ status' = [status EXCEPT ![w] = to]
    /\ lastLog' = [lastLog EXCEPT ![w] = [from |-> from, to |-> to]]

\* CreateWorkOrderRound and SetWorkOrderCurrentRound.
OpenRound(w, n, e) ==
    /\ roundCount' = [roundCount EXCEPT ![w] = n]
    /\ assignedTo' = [assignedTo EXCEPT ![w][n] = e]
    /\ checkedIn' = [checkedIn EXCEPT ![w][n] = FALSE]
    /\ checkedOut' = [checkedOut EXCEPT ![w][n] = FALSE]
    /\ submitted' = [submitted EXCEPT ![w][n] = FALSE]
    /\ current' = [current EXCEPT ![w] = n]

\* CreateWithFirstRound: the row, round 1, current_round_id, the ASSIGNED
\* activity and, for a CM, the seeded report.  A CM is refused while another
\* open CM covers its topic.
InsertWorkOrder(w, e) ==
    /\ status[w] = None
    /\ WoType[w] = "CM" => \A m \in WorkOrders : ~OpenCm(m)
    /\ SetStatus(w, None, "ASSIGNED")
    /\ active' = [active EXCEPT ![w] = TRUE]
    /\ OpenRound(w, 1, e)
    /\ report' = [report EXCEPT ![w][1] =
                    IF WoType[w] = "CM" THEN "SAVED" ELSE None]
    /\ UNCHANGED <<closed, reviewRows, pmDates, cancelledOnce>>

Create(w, e) ==
    /\ InsertWorkOrder(w, e)
    /\ UNCHANGED request

\* SetWorkOrderActive: cancelling overwrites any status and writes no
\* activity; restoring leaves the status as it is.
SoftDelete(w) ==
    /\ "softDelete" \in Requests
    /\ status[w] # None
    /\ active' = [active EXCEPT ![w] = FALSE]
    /\ status' = [status EXCEPT ![w] = "CANCELLED"]
    /\ cancelledOnce' = [cancelledOnce EXCEPT ![w] = TRUE]
    /\ UNCHANGED <<closed, current, roundRows, report, reviewRows, lastLog,
                   pmDates, request>>

Restore(w) ==
    /\ "softDelete" \in Requests
    /\ status[w] # None
    /\ active' = [active EXCEPT ![w] = TRUE]
    /\ UNCHANGED <<status, closed, current, roundRows, report, reviewRows,
                   lastLog, pmDates, cancelledOnce, request>>

\* DELETE /pm-reports/{id} only takes a DRAFT; DELETE /cm-reports/{id} takes any.
DeleteReport(w, n) ==
    /\ "deleteReport" \in Requests
    /\ report[w][n] \in {"DRAFT", "SAVED"}
    /\ report' = [report EXCEPT ![w][n] = None]
    /\ UNCHANGED <<woRow, roundRows, reviewRows, lastLog, pmDates,
                   cancelledOnce, request>>

-----------------------------------------------------------------------------
(***************************************************************************)
(* The snapshot a handler starts from                                      *)
(***************************************************************************)

Read(c, w, step, to, decision) ==
    /\ step \in Requests
    /\ request[c] = Idle
    /\ status[w] # None
    /\ request' = [request EXCEPT ![c] =
                    [step |-> step, wo |-> w, rnd |-> current[w],
                     st |-> status[w], to |-> to, decision |-> decision,
                     cm |-> None]]
    /\ UNCHANGED <<woRow, roundRows, report, reviewRows, lastLog, pmDates,
                   cancelledOnce>>

ReadReassign(c, w, e) == Read(c, w, "reassign", e, None)
ReadCheckIn(c, w) == Read(c, w, "checkIn", None, None)
ReadCheckOut(c, w) == Read(c, w, "checkOut", None, None)
ReadSaveReport(c, w) == Read(c, w, "saveReport", None, None)

\* PmReportService.Submit wants the DRAFT of the round it saw.
ReadSubmitPm(c, w) ==
    /\ WoType[w] = "PM" /\ status[w] # None
    /\ report[w][current[w]] = "DRAFT"
    /\ Read(c, w, "submitReport", None, None)

\* CmReportService.Submit only wants a report on the round it saw.
ReadSubmitCm(c, w) ==
    /\ WoType[w] = "CM" /\ status[w] # None
    /\ report[w][current[w]] # None
    /\ Read(c, w, "readMark", None, None)

\* ApprovalService.Decide up to its side effects.  The bound MaxRounds keeps
\* a reviewer from asking for one more round.
ReadDecide(c, w, d, e) ==
    /\ status[w] = "PENDING_APPROVAL"
    /\ d = "REJECTED" => current[w] < MaxRounds
    /\ Read(c, w, IF d = "ESCALATED" THEN "findCm" ELSE "decide", e, d)

-----------------------------------------------------------------------------
(***************************************************************************)
(* The transactions, each with the values its request has kept             *)
(***************************************************************************)

Finish(c) == request' = [request EXCEPT ![c] = Idle]

\* The request goes on to a next step, with the round, the status and the CM
\* it now holds.
GoOn(c, step, rnd, st, cm) ==
    LET r == request[c] IN
    request' = [request EXCEPT ![c] =
                    [step |-> step, wo |-> r.wo, rnd |-> rnd, st |-> st,
                     to |-> r.to, decision |-> r.decision, cm |-> cm]]

\* Mutation: the WHERE clause or the unique index behind a guard is missing.
Unguarded(r) == TRUE

\* UpdateWorkOrderRoundAssignment: ... AND check_in_at IS NULL
Reassignable(r) == ~checkedIn[r.wo][r.rnd]

\* CheckInWorkOrderRound: ... AND check_in_at IS NULL
NotCheckedIn(r) == ~checkedIn[r.wo][r.rnd]

\* CheckOutWorkOrderRound: ... AND check_in_at IS NOT NULL AND check_out_at IS NULL
OnSite(r) == checkedIn[r.wo][r.rnd] /\ ~checkedOut[r.wo][r.rnd]

\* SetPmReportSubmitted: ... AND status = 'DRAFT'
IsDraft(r) == report[r.wo][r.rnd] = "DRAFT"

\* uk_wo_approvals_round_id
Undecided(r) == approval[r.wo][r.rnd] = None

Reassign(c) ==
    LET r == request[c] IN
    /\ r.step = "reassign"
    /\ Reassignable(r)
    /\ assignedTo' = [assignedTo EXCEPT ![r.wo][r.rnd] = r.to]
    /\ Finish(c)
    /\ UNCHANGED <<woRow, roundCount, checkedIn, checkedOut, submitted, report, reviewRows, lastLog, pmDates,
                   cancelledOnce>>

CheckIn(c) ==
    LET r == request[c] IN
    /\ r.step = "checkIn"
    /\ NotCheckedIn(r)
    /\ checkedIn' = [checkedIn EXCEPT ![r.wo][r.rnd] = TRUE]
    /\ SetStatus(r.wo, r.st, "IN_PROGRESS")
    /\ Finish(c)
    /\ UNCHANGED <<active, closed, current, roundCount, assignedTo, checkedOut,
                   submitted, report, reviewRows, pmDates, cancelledOnce>>

CheckOut(c) ==
    LET r == request[c] IN
    /\ r.step = "checkOut"
    /\ OnSite(r)
    /\ checkedOut' = [checkedOut EXCEPT ![r.wo][r.rnd] = TRUE]
    /\ Finish(c)
    /\ UNCHANGED <<woRow, roundCount, assignedTo, checkedIn, submitted, report,
                   reviewRows, lastLog, pmDates, cancelledOnce>>

\* BeginWorkFromReportQ starts the work when the snapshot said ASSIGNED or
\* PENDING; then the report is upserted.  A CM report is refused while
\* another open CM covers the topic, a PM report once it is SUBMITTED.
BeginsWork(r) == r.st \in {"ASSIGNED", "PENDING"}

CanSave(r) ==
    /\ BeginsWork(r) => NotCheckedIn(r)
    /\ IF WoType[r.wo] = "PM"
       THEN report[r.wo][r.rnd] # "SUBMITTED"
       ELSE \A m \in WorkOrders \ {r.wo} : ~OpenCm(m)

SaveReport(c) ==
    LET r == request[c] IN
    /\ r.step = "saveReport"
    /\ CanSave(r)
    /\ report' = [report EXCEPT ![r.wo][r.rnd] =
                    IF WoType[r.wo] = "PM" THEN "DRAFT" ELSE "SAVED"]
    /\ IF BeginsWork(r)
       THEN /\ checkedIn' = [checkedIn EXCEPT ![r.wo][r.rnd] = TRUE]
            /\ SetStatus(r.wo, r.st, "IN_PROGRESS")
       ELSE UNCHANGED <<checkedIn, status, lastLog>>
    /\ Finish(c)
    /\ UNCHANGED <<active, closed, current, roundCount, assignedTo, checkedOut,
                   submitted, reviewRows, pmDates, cancelledOnce>>

\* Mutation: the report is submitted and the work order is left where it was.
SubmitReportAlone(c) ==
    LET r == request[c] IN
    /\ r.step = "submitReport"
    /\ IsDraft(r)
    /\ report' = [report EXCEPT ![r.wo][r.rnd] = "SUBMITTED"]
    /\ Finish(c)
    /\ UNCHANGED <<woRow, roundRows, reviewRows, lastLog, pmDates,
                   cancelledOnce>>

\* SetPmReportSubmitted, a transaction of its own.
SubmitReport(c) ==
    LET r == request[c] IN
    /\ r.step = "submitReport"
    /\ IsDraft(r)
    /\ report' = [report EXCEPT ![r.wo][r.rnd] = "SUBMITTED"]
    /\ GoOn(c, "readMark", r.rnd, r.st, None)
    /\ UNCHANGED <<woRow, roundRows, reviewRows, lastLog, pmDates,
                   cancelledOnce>>

\* WorkOrderService.MarkSubmitted reads the work order again ...
ReadMark(c) ==
    LET r == request[c] IN
    /\ r.step = "readMark"
    /\ GoOn(c, "mark", current[r.wo], status[r.wo], None)
    /\ UNCHANGED <<woRow, roundRows, report, reviewRows, lastLog, pmDates,
                   cancelledOnce>>

\* ... and stamps the round it then saw.
MarkSubmitted(c) ==
    LET r == request[c] IN
    /\ r.step = "mark"
    /\ submitted' = [submitted EXCEPT ![r.wo][r.rnd] = TRUE]
    /\ SetStatus(r.wo, r.st, "PENDING_APPROVAL")
    /\ Finish(c)
    /\ UNCHANGED <<active, closed, current, roundCount, assignedTo, checkedIn,
                   checkedOut, report, reviewRows, pmDates, cancelledOnce>>

\* FindMatchingOpenCm: the open CM of the topic, the reviewed one included.
FindCm(c) ==
    LET r == request[c] IN
    /\ r.step = "findCm"
    /\ \/ \E m \in WorkOrders :
            /\ OpenCm(m)
            /\ GoOn(c, "decide", r.rnd, r.st, m)
       \/ /\ \A m \in WorkOrders : ~OpenCm(m)
          /\ GoOn(c, "createCm", r.rnd, r.st, None)
    /\ UNCHANGED <<woRow, roundRows, report, reviewRows, lastLog, pmDates,
                   cancelledOnce>>

\* The CM is committed before the decision that spawns it.
CreateCm(c) ==
    LET r == request[c] IN
    /\ r.step = "createCm"
    /\ \E m \in WorkOrders :
        /\ WoType[m] = "CM"
        /\ InsertWorkOrder(m, r.to)
        /\ GoOn(c, "decide", r.rnd, r.st, m)

\* DecideAndApply: wo_approvals has one row per round; the status is not
\* looked at again.  A rework opens round_no + 1 in the same transaction.
ApplyRework(c) ==
    LET r == request[c]
        n == roundCount[r.wo] + 1 IN
    /\ r.step = "decide" /\ r.decision = "REJECTED"
    /\ Undecided(r)
    /\ n \in RoundNos
    /\ approval' = [approval EXCEPT ![r.wo][r.rnd] = r.decision]
    /\ OpenRound(r.wo, n, r.to)
    /\ SetStatus(r.wo, r.st, "ASSIGNED")
    /\ Finish(c)
    /\ UNCHANGED <<active, closed, report, newWorkOrder, pmDates,
                   cancelledOnce>>

\* Mutation: the decision is taken for a status.
FinalStatusRaw(d) == d

\* Mutation: only a full approval sets the PM dates.
DatesPanelApproved(r) == WoType[r.wo] = "PM" /\ r.decision = "APPROVED"

\* syncPanelPmDates runs for every closing decision on a PM.
DatesPanel(r) == WoType[r.wo] = "PM"

\* buildApprovalOutcome
FinalStatus(d) == IF d = "APPROVED" THEN "COMPLETED" ELSE "CONDITIONAL"

ApplyClosing(c) ==
    LET r == request[c] IN
    /\ r.step = "decide" /\ r.decision \in ClosingDecisions
    /\ Undecided(r)
    /\ approval' = [approval EXCEPT ![r.wo][r.rnd] = r.decision]
    /\ newWorkOrder' = [newWorkOrder EXCEPT ![r.wo] = r.cm]
    /\ closed' = [closed EXCEPT ![r.wo] = TRUE]
    /\ SetStatus(r.wo, r.st, FinalStatus(r.decision))
    /\ IF DatesPanel(r)
       THEN GoOn(c, "pmDates", r.rnd, r.st, r.cm)
       ELSE Finish(c)
    /\ UNCHANGED <<active, current, roundRows, report, pmDates,
                   cancelledOnce>>

\* syncPanelPmDates, after the decision has committed.
SyncPmDates(c) ==
    LET r == request[c] IN
    /\ r.step = "pmDates"
    /\ pmDates' = [pmDates EXCEPT ![r.wo] = TRUE]
    /\ Finish(c)
    /\ UNCHANGED <<woRow, roundRows, report, reviewRows, lastLog,
                   cancelledOnce>>

-----------------------------------------------------------------------------
(***************************************************************************)
(* A guarded UPDATE that matches no row, or a unique index, rolls the      *)
(* transaction back and answers with an error.                             *)
(***************************************************************************)
Refused(r) ==
    \/ r.step = "reassign" /\ ~Reassignable(r)
    \/ r.step = "checkIn" /\ ~NotCheckedIn(r)
    \/ r.step = "checkOut" /\ ~OnSite(r)
    \/ r.step = "saveReport" /\ ~CanSave(r)
    \/ r.step = "submitReport" /\ ~IsDraft(r)
    \/ /\ r.step = "createCm"
       /\ \/ \E m \in WorkOrders : OpenCm(m)
          \/ \A m \in WorkOrders : WoType[m] = "CM" => status[m] # None
    \/ r.step = "decide" /\ ~Undecided(r)

Refuse(c) ==
    /\ Refused(request[c])
    /\ Finish(c)
    /\ UNCHANGED <<woRow, roundRows, report, reviewRows, lastLog, pmDates,
                   cancelledOnce>>

\* The caller goes away (the request context is cancelled) or the process
\* stops: what has committed stays, the rest never runs.
Disconnect(c) ==
    /\ Disconnects
    /\ request[c] # Idle
    /\ Finish(c)
    /\ UNCHANGED <<woRow, roundRows, report, reviewRows, lastLog, pmDates,
                   cancelledOnce>>

\* What the server does for a request it has accepted.
Serve(c) ==
    \/ Reassign(c) \/ CheckIn(c) \/ CheckOut(c) \/ SaveReport(c)
    \/ SubmitReport(c) \/ ReadMark(c) \/ MarkSubmitted(c)
    \/ FindCm(c) \/ CreateCm(c) \/ ApplyRework(c) \/ ApplyClosing(c)
    \/ SyncPmDates(c) \/ Refuse(c)

Accept(c, w) ==
    \/ \E e \in Engineers : ReadReassign(c, w, e)
    \/ ReadCheckIn(c, w) \/ ReadCheckOut(c, w) \/ ReadSaveReport(c, w)
    \/ ReadSubmitPm(c, w) \/ ReadSubmitCm(c, w)
    \/ \E d \in Decisions, e \in Engineers : ReadDecide(c, w, d, e)

Next ==
    \/ \E w \in WorkOrders, e \in Engineers : Create(w, e)
    \/ \E w \in WorkOrders : SoftDelete(w) \/ Restore(w)
    \/ \E w \in WorkOrders, n \in RoundNos : DeleteReport(w, n)
    \/ \E c \in Clients, w \in WorkOrders : Accept(c, w)
    \/ \E c \in Clients : Serve(c) \/ Disconnect(c)

Spec == Init /\ [][Next]_vars

\* The server keeps running an accepted request; nothing makes users send one.
FairSpec == Spec /\ \A c \in Clients : WF_vars(Serve(c))

-----------------------------------------------------------------------------
(***************************************************************************)
(* What the module promises of every schedule of requests                  *)
(***************************************************************************)

Pms == {w \in WorkOrders : WoType[w] = "PM"}

\* Every variable stays in the domain its column or its caller allows.
TypeOK ==
    /\ status \in [WorkOrders -> Statuses \union {None}]
    /\ active \in [WorkOrders -> BOOLEAN]
    /\ closed \in [WorkOrders -> BOOLEAN]
    /\ current \in [WorkOrders -> 0 .. MaxRounds]
    /\ roundCount \in [WorkOrders -> 0 .. MaxRounds]
    /\ assignedTo \in [WorkOrders -> [RoundNos -> Engineers \union {None}]]
    /\ checkedIn \in [WorkOrders -> [RoundNos -> BOOLEAN]]
    /\ checkedOut \in [WorkOrders -> [RoundNos -> BOOLEAN]]
    /\ submitted \in [WorkOrders -> [RoundNos -> BOOLEAN]]
    /\ report \in [WorkOrders ->
                    [RoundNos -> {None, "DRAFT", "SUBMITTED", "SAVED"}]]
    /\ approval \in [WorkOrders -> [RoundNos -> Decisions \union {None}]]
    /\ newWorkOrder \in [WorkOrders -> WorkOrders \union {None}]
    /\ lastLog \in [WorkOrders -> [from : Statuses \union {None},
                                   to : Statuses \union {None}]]
    /\ pmDates \in [WorkOrders -> BOOLEAN]
    /\ cancelledOnce \in [WorkOrders -> BOOLEAN]
    /\ request \in [Clients -> Request \union {Idle}]

\* The rounds of a work order form a chain: the current round is the newest
\* one, each earlier round was sent back, and the newest was not.  Decide
\* relies on it when two reviewers answer one round.
RoundChain ==
    \A w \in WorkOrders :
        /\ current[w] = roundCount[w]
        /\ status[w] = None <=> roundCount[w] = 0
        /\ \A n \in RoundNos :
            /\ n < roundCount[w] => approval[w][n] = "REJECTED"
            /\ n = roundCount[w] => approval[w][n] # "REJECTED"
            /\ n > roundCount[w] => approval[w][n] = None

\* A work order is stamped closed exactly when its newest round has a closing
\* decision, and a final status is the one that decision gives, whatever
\* other requests wrote to the row before or after.
ClosedMatchesDecision ==
    \A w \in WorkOrders :
        LET d == IF roundCount[w] = 0 THEN None ELSE approval[w][roundCount[w]]
        IN /\ closed[w] <=> d \in ClosingDecisions
           /\ status[w] = "COMPLETED" => d = "APPROVED"
           /\ status[w] = "CONDITIONAL" =>
                d \in {"APPROVED_CONDITION", "ESCALATED"}

\* A decision is never replaced, and a closed work order gets no further
\* round: the second of two reviewers loses, however stale its snapshot.
ReviewIsFinal ==
    [][\A w \in WorkOrders :
        /\ \A n \in RoundNos :
            approval[w][n] # None => approval'[w][n] = approval[w][n]
        /\ closed[w] => closed'[w] /\ roundCount'[w] = roundCount[w]]_vars

\* A PM waiting for review has a submitted report on its current round and no
\* decision yet, cancelled in between or not: the reviewer can always answer.
PmPendingReviewable ==
    \A w \in Pms :
        status[w] = "PENDING_APPROVAL" =>
            /\ report[w][current[w]] = "SUBMITTED"
            /\ submitted[w][current[w]]
            /\ approval[w][current[w]] = None

\* Check-in, check-out and submit have no status guard, yet the status of a PM
\* that was never cancelled agrees with its current round.
PmStatusAgrees ==
    \A w \in Pms :
        status[w] # None /\ ~cancelledOnce[w] =>
            LET n == current[w] IN
            CASE status[w] = "ASSIGNED" -> ~checkedIn[w][n] /\ report[w][n] = None
              [] status[w] = "IN_PROGRESS" ->
                    checkedIn[w][n] /\ ~submitted[w][n] /\ approval[w][n] = None
              [] status[w] = "PENDING_APPROVAL" ->
                    checkedIn[w][n] /\ submitted[w][n]
              [] OTHER -> status[w] \in ClosedStatuses /\ submitted[w][n]

\* A round of a PM that was never cancelled is frozen once it has been sent
\* back: no late save, submit, reassignment or check-in reaches it.  Only the
\* check-out may still be stamped.
PmPastRoundsFrozen ==
    [][\A w \in Pms : ~cancelledOnce[w] =>
        \A n \in 1 .. roundCount[w] - 1 :
            /\ report'[w][n] = report[w][n]
            /\ assignedTo'[w][n] = assignedTo[w][n]
            /\ checkedIn'[w][n] = checkedIn[w][n]
            /\ submitted'[w][n] = submitted[w][n]]_vars

\* The status is the one the newest activity row says, except that the newest
\* cancellation leaves no row.
LoggedUnlessCancelled ==
    \A w \in WorkOrders :
        \/ status[w] = lastLog[w].to
        \/ status[w] = "CANCELLED" /\ cancelledOnce[w]

\* The from_status of an activity row is the status the work order really left,
\* for a PM that was never cancelled, though it comes from an old snapshot.
PmLogFromIsReal ==
    [][\A w \in Pms :
        ~cancelledOnce[w] /\ lastLog'[w] # lastLog[w]
            => lastLog'[w].from = status[w]]_vars

\* A decision that says ESCALATED names a CM work order that exists, and no
\* other decision names one; PMs are never answers to an escalation.
EscalationNamesCm ==
    \A w \in WorkOrders :
        LET d == IF roundCount[w] = 0 THEN None ELSE approval[w][roundCount[w]]
            m == newWorkOrder[w]
        IN /\ d = "ESCALATED" <=> m # None
           /\ m # None => WoType[m] = "CM" /\ status[m] # None

\* A submitted PM report moves its work order to review.
SubmittedReportReachesReview ==
    \A w \in Pms, n \in RoundNos :
        report[w][n] = "SUBMITTED" ~> submitted[w][n]

\* A PM that a review closes gets its panel's PM dates.
ClosedPmGetsDates ==
    \A w \in Pms : closed[w] ~> pmDates[w]

-----------------------------------------------------------------------------
(***************************************************************************)
(* The PMs, seen from outside, follow the status diagram of ReviewFlow     *)
(***************************************************************************)
Promise == INSTANCE ReviewFlow WITH
    Items <- Pms,
    phase <- [w \in Pms |-> IF cancelledOnce[w] THEN "CANCELLED" ELSE status[w]],
    sentBack <- [w \in Pms |-> IF cancelledOnce[w] \/ roundCount[w] = 0
                               THEN 0 ELSE roundCount[w] - 1]

\* Until it is cancelled a PM only moves along the diagram, one arrow per
\* transaction, though its handlers write the status from old snapshots.
ImplementsReviewFlow == Promise!Spec

-----------------------------------------------------------------------------
(***************************************************************************)
(* What the repository's documents and comments say and the code does not  *)
(* keep                                                                    *)
(***************************************************************************)

\* wo_approval.go and doc/api/README.md: a work order in PENDING_APPROVAL can
\* be reviewed.  A CM submitted again after its approval cannot.
PendingReviewable ==
    \A w \in WorkOrders :
        status[w] = "PENDING_APPROVAL" => approval[w][current[w]] = None

\* wo_approval.go: the escalated issue "must become its own CM work order".  An
\* escalated CM finds itself as the open CM of the topic.
EscalationNamesOther == \A w \in WorkOrders : newWorkOrder[w] # w
=============================================================================
