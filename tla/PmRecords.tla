------------------------------ MODULE PmRecords ------------------------------
(***************************************************************************)
(* What a PM visit leaves behind: the report of each round with its        *)
(* content, and the calibrations linked to the work order or the report.   *)
(*                                                                         *)
(* A handler checks what it has read - the schedule, the content of the    *)
(* report, the links of a calibration - and writes later, in a transaction *)
(* whose own guard is the DRAFT status of the report or a foreign key.     *)
(* The transaction of a save holds the row of the report from its first    *)
(* statement on, so a transaction is one step here.                        *)
(*                                                                         *)
(* Reviews and the status of the work order are in WorkOrderLifecycle; of  *)
(* them only PENDING_APPROVAL and a rework matter here.                    *)
(***************************************************************************)
EXTENDS Naturals

CONSTANTS
    WorkOrders,     \* PM work orders
    Reports,        \* ids of rtu.pm_reports, never used twice
    Calibrations,   \* ids of rtu.calibrations, never used twice
    Contents,       \* what a checklist and a ground test can say
    Clients,        \* concurrent HTTP requests
    MaxRounds,      \* bound: rounds of one work order
    Requests        \* bound: the kinds of request the clients send

None == "NULL"

ASSUME RecordsAssumption ==
    /\ MaxRounds \in Nat \ {0}
    /\ None \notin WorkOrders \union Reports \union Contents

VARIABLES
    schedule,       \* work_orders.pm_schedule_type
    pending,        \* whether the work order is in PENDING_APPROVAL
    round,          \* number of its current round
    report,         \* rtu.pm_reports with their child rows
    calibration,    \* rtu.calibrations: their two links
    op,             \* the requests in flight
    crossed         \* history: two PATCHes of the calibration overlapped

vars == <<schedule, pending, round, report, calibration, op, crossed>>
rows == <<schedule, pending, round, report, calibration, crossed>>

Schedules == {"THREE_MONTH", "SIX_MONTH"}
MaybeWo == WorkOrders \union {None}
MaybeReport == Reports \union {None}

\* power: whether there is a power test; content: all the rest.
NoReport == [wo |-> None, round |-> 0, status |-> None, power |-> FALSE,
             content |-> None]
Draft(w, n, p, x) == [wo |-> w, round |-> n, status |-> "DRAFT", power |-> p,
                      content |-> x]
ReportRows == [wo : MaybeWo, round : 0 .. MaxRounds,
               status : {None, "DRAFT", "SUBMITTED", "DELETED"},
               power : BOOLEAN, content : Contents \union {None}]
CalibrationRows == [status : {None, "LIVE", "DELETED"}, wo : MaybeWo,
                    report : MaybeReport]

\* One shape for the requests in flight; a field a kind does not use is NULL.
Idle == [kind |-> "idle", wo |-> None, round |-> 0, power |-> FALSE,
         content |-> None, schedule |-> None, report |-> None,
         calibration |-> None, setWo |-> FALSE, setReport |-> FALSE]
Op == [kind : {"idle", "save", "submit", "submitChecked", "submitted",
               "patchSchedule", "createCalibration", "patchCalibration"},
       wo : MaybeWo, round : 0 .. MaxRounds, power : BOOLEAN,
       content : Contents \union {None}, schedule : Schedules \union {None},
       report : MaybeReport, calibration : Calibrations \union {None},
       setWo : BOOLEAN, setReport : BOOLEAN]

-----------------------------------------------------------------------------
ReportsOf(w, n) == {r \in Reports : report[r].wo = w /\ report[r].round = n}

\* ListCalibrationsForPmReport
Linked(r, k) ==
    /\ calibration[k].status = "LIVE"
    /\ \/ calibration[k].report = r
       \/ calibration[k].report = None /\ calibration[k].wo = report[r].wo

\* checkScheduleRequirements
Meets(s, r) ==
    /\ s = "THREE_MONTH" => report[r].power
    /\ s = "SIX_MONTH" => \E k \in Calibrations : Linked(r, k)

\* The foreign key of calibrations.pm_report_id.
ReportExists(r) == r # None => report[r].wo # None

\* Mutation: a report sent without its work order is taken as it is.
LinkSentTogether(w, r) ==
    /\ ReportExists(r)
    /\ w # None => schedule[w] = "SIX_MONTH"

\* checkPmLink: the report belongs to the work order, a SIX_MONTH PM.
LinkAllowed(w, r) ==
    /\ ReportExists(r)
    /\ w # None /\ r # None => report[r].wo = w
    /\ w # None => schedule[w] = "SIX_MONTH"
    /\ w = None /\ r # None => schedule[report[r].wo] = "SIX_MONTH"

-----------------------------------------------------------------------------
Init ==
    /\ schedule \in [WorkOrders -> Schedules]
    /\ pending = [w \in WorkOrders |-> FALSE]
    /\ round = [w \in WorkOrders |-> 1]
    /\ report = [r \in Reports |-> NoReport]
    /\ calibration = [k \in Calibrations |->
                        [status |-> None, wo |-> None, report |-> None]]
    /\ op = [c \in Clients |-> Idle]
    /\ crossed = [k \in Calibrations |-> FALSE]

\* The snapshot of a handler, and what it will do with it.
Start(c, o) ==
    /\ o.kind \in Requests
    /\ op[c] = Idle
    /\ op' = [op EXCEPT ![c] = o]
    /\ UNCHANGED rows

Finish(c) == op' = [op EXCEPT ![c] = Idle]

\* An error answer, a rollback, or a request that is cut.
Refuse(c) ==
    /\ op[c] # Idle
    /\ Finish(c)
    /\ UNCHANGED rows

-----------------------------------------------------------------------------
(***************************************************************************)
(* PUT, POST submit and DELETE of a report                                 *)
(***************************************************************************)

ReadSave(c, w, p, x) ==
    Start(c, [Idle EXCEPT !.kind = "save", !.wo = w, !.round = round[w],
                          !.power = p, !.content = x])

\* Mutation: a save replaces the content whatever the status is.
EditableAny(r) == report[r].status # "DELETED"

\* UpdatePmReport: ... WHERE status = 'DRAFT'
Editable(r) == report[r].status = "DRAFT"

\* Save: the report of the round is created, or its content replaced whole.
Save(c) ==
    LET o == op[c]
        write(r, st) == report' = [report EXCEPT ![r] =
                [Draft(o.wo, o.round, o.power, o.content) EXCEPT !.status = st]] IN
    /\ o.kind = "save"
    /\ IF ReportsOf(o.wo, o.round) = {}
       THEN \E r \in Reports : report[r].status = None /\ write(r, "DRAFT")
       ELSE \E r \in ReportsOf(o.wo, o.round) :
                Editable(r) /\ write(r, report[r].status)
    /\ Finish(c)
    /\ UNCHANGED <<schedule, pending, round, calibration, crossed>>

\* Submit reads the work order ...
ReadSubmit(c, w) ==
    Start(c, [Idle EXCEPT !.kind = "submit", !.wo = w, !.round = round[w],
                          !.schedule = schedule[w]])

\* ... then the report with its children, statement by statement.  A report
\* that is still a draft when it is submitted was one at every statement ...
CheckSubmit(c) ==
    /\ op[c].kind = "submit"
    /\ \E r \in ReportsOf(op[c].wo, op[c].round) :
        /\ report[r].status = "DRAFT"
        /\ Meets(op[c].schedule, r)
        /\ op' = [op EXCEPT ![c] =
                [Idle EXCEPT !.kind = "submitChecked", !.wo = op[c].wo, !.report = r]]
    /\ UNCHANGED rows

\* Mutation: the status of the work order is written on the report.
SubmitReportMixedUp(c) ==
    LET r == op[c].report IN
    /\ op[c].kind = "submitChecked"
    /\ report[r].status = "DRAFT"
    /\ report' = [report EXCEPT ![r].status = "PENDING_APPROVAL"]
    /\ op' = [op EXCEPT ![c].kind = "submitted", ![c].report = None]
    /\ UNCHANGED <<schedule, pending, round, calibration, crossed>>

\* ... SetPmReportSubmitted, by id and only a draft ...
SubmitReport(c) ==
    LET r == op[c].report IN
    /\ op[c].kind = "submitChecked"
    /\ report[r].status = "DRAFT"
    /\ report' = [report EXCEPT ![r].status = "SUBMITTED"]
    /\ op' = [op EXCEPT ![c].kind = "submitted", ![c].report = None]
    /\ UNCHANGED <<schedule, pending, round, calibration, crossed>>

\* ... and MarkSubmitted, a commit of its own.
MarkSubmitted(c) ==
    /\ op[c].kind = "submitted"
    /\ pending' = [pending EXCEPT ![op[c].wo] = TRUE]
    /\ Finish(c)
    /\ UNCHANGED <<schedule, round, report, calibration, crossed>>

\* Only a draft, and only while no calibration refers to it (ON DELETE
\* RESTRICT); the children cascade.
DeleteReport(r) ==
    /\ "deleteReport" \in Requests
    /\ report[r].status = "DRAFT"
    /\ \A k \in Calibrations :
        calibration[k].status = "LIVE" => calibration[k].report # r
    /\ report' = [report EXCEPT ![r] = [NoReport EXCEPT !.status = "DELETED"]]
    /\ UNCHANGED <<schedule, pending, round, calibration, op, crossed>>

\* A review sends the work order back: a round without a report.
Rework(w) ==
    /\ pending[w]
    /\ round[w] < MaxRounds
    /\ pending' = [pending EXCEPT ![w] = FALSE]
    /\ round' = [round EXCEPT ![w] = @ + 1]
    /\ UNCHANGED <<schedule, report, calibration, op, crossed>>

-----------------------------------------------------------------------------
(***************************************************************************)
(* PATCH of the schedule                                                   *)
(***************************************************************************)

\* checkPmScheduleTypePatch, then an UPDATE without a guard.
ReadPatchSchedule(c, w, s) ==
    /\ ~pending[w]
    /\ Start(c, [Idle EXCEPT !.kind = "patchSchedule", !.wo = w, !.schedule = s])

PatchSchedule(c) ==
    /\ op[c].kind = "patchSchedule"
    /\ schedule' = [schedule EXCEPT ![op[c].wo] = op[c].schedule]
    /\ Finish(c)
    /\ UNCHANGED <<pending, round, report, calibration, crossed>>

-----------------------------------------------------------------------------
(***************************************************************************)
(* Calibrations                                                            *)
(***************************************************************************)

ReadCreateCalibration(c, k, w, r) ==
    /\ calibration[k].status = None
    /\ LinkAllowed(w, r)
    /\ Start(c, [Idle EXCEPT !.kind = "createCalibration", !.calibration = k,
                             !.wo = w, !.report = r])

CreateCalibration(c) ==
    LET o == op[c] IN
    /\ o.kind = "createCalibration"
    /\ calibration[o.calibration].status = None
    /\ ReportExists(o.report)
    /\ calibration' = [calibration EXCEPT ![o.calibration] =
                        [status |-> "LIVE", wo |-> o.wo, report |-> o.report]]
    /\ Finish(c)
    /\ UNCHANGED <<schedule, pending, round, report, crossed>>

\* PATCH checks the links the calibration will have: those sent, and for the
\* others those it has now.
ReadPatchCalibration(c, k, setWo, w, setReport, r) ==
    /\ calibration[k].status = "LIVE"
    /\ LinkAllowed(IF setWo THEN w ELSE calibration[k].wo,
                   IF setReport THEN r ELSE calibration[k].report)
    /\ Start(c, [Idle EXCEPT !.kind = "patchCalibration", !.calibration = k,
                             !.wo = w, !.report = r, !.setWo = setWo,
                             !.setReport = setReport])

\* It writes the fields sent and no others.
PatchCalibration(c) ==
    LET o == op[c]
        k == o.calibration IN
    /\ o.kind = "patchCalibration"
    /\ calibration[k].status = "LIVE"
    /\ ReportExists(o.report)
    /\ calibration' = [calibration EXCEPT
            ![k].wo = IF o.setWo THEN o.wo ELSE @,
            ![k].report = IF o.setReport THEN o.report ELSE @]
    /\ crossed' = [crossed EXCEPT ![k] = @ \/ \E d \in Clients \ {c} :
            op[d].kind = "patchCalibration" /\ op[d].calibration = k]
    /\ Finish(c)
    /\ UNCHANGED <<schedule, pending, round, report>>

DeleteCalibration(k) ==
    /\ "deleteCalibration" \in Requests
    /\ calibration[k].status = "LIVE"
    /\ calibration' = [calibration EXCEPT ![k] =
                        [status |-> "DELETED", wo |-> None, report |-> None]]
    /\ crossed' = [crossed EXCEPT ![k] = FALSE]
    /\ UNCHANGED <<schedule, pending, round, report, op>>

-----------------------------------------------------------------------------
\* A link is sent, set to null, or not sent.
LinkPatches(Ids) ==
    {<<TRUE, i>> : i \in Ids \union {None}} \union {<<FALSE, None>>}

Snapshots(c) ==
    \/ \E w \in WorkOrders :
        \/ \E p \in BOOLEAN, x \in Contents : ReadSave(c, w, p, x)
        \/ ReadSubmit(c, w)
        \/ \E s \in Schedules : ReadPatchSchedule(c, w, s)
    \/ \E k \in Calibrations :
        \/ \E w \in MaybeWo, r \in MaybeReport : ReadCreateCalibration(c, k, w, r)
        \/ \E pw \in LinkPatches(WorkOrders), pr \in LinkPatches(Reports) :
            /\ pw[1] \/ pr[1]
            /\ ReadPatchCalibration(c, k, pw[1], pw[2], pr[1], pr[2])

Next ==
    \/ \E c \in Clients :
        \/ Snapshots(c)
        \/ Save(c) \/ CheckSubmit(c) \/ SubmitReport(c) \/ MarkSubmitted(c)
        \/ PatchSchedule(c) \/ CreateCalibration(c) \/ PatchCalibration(c)
        \/ Refuse(c)
    \/ \E r \in Reports : DeleteReport(r)
    \/ \E k \in Calibrations : DeleteCalibration(k)
    \/ \E w \in WorkOrders : Rework(w)

Spec == Init /\ [][Next]_vars

-----------------------------------------------------------------------------
(***************************************************************************)
(* Properties                                                              *)
(***************************************************************************)

\* Every row and every request in flight has one of its values.
TypeOK ==
    /\ schedule \in [WorkOrders -> Schedules]
    /\ pending \in [WorkOrders -> BOOLEAN]
    /\ round \in [WorkOrders -> 1 .. MaxRounds]
    /\ report \in [Reports -> ReportRows]
    /\ calibration \in [Calibrations -> CalibrationRows]
    /\ op \in [Clients -> Op]
    /\ crossed \in [Calibrations -> BOOLEAN]

\* Once a report is submitted neither its content nor its row changes, though
\* saves, deletions and submits that saw it as a draft are still under way
\* (Save: "once SUBMITTED the report is immutable").
SubmittedReportFrozen ==
    [][\A r \in Reports : report[r].status = "SUBMITTED" => report'[r] = report[r]]_vars

\* A calibration's report exists, and when the calibration also names a work
\* order it is the report's (checkPmLink), whatever is saved, deleted and
\* patched meanwhile.  Excepted is a calibration two PATCHes changed at once:
\* each checked its own link with the other's old value.
LinksResolve ==
    \A k \in Calibrations :
        LET l == calibration[k] IN
        /\ l.status = "LIVE" /\ l.report # None
        => /\ report[l.report].wo # None
           /\ l.wo # None /\ ~crossed[k] => report[l.report].wo = l.wo

\* A report is submitted only when it meets the rule of its schedule
\* (checkScheduleRequirements), by the latest value on the work order
\* (doc/api/01-work-orders.md): false, both are read before the write.
SubmitMeetsSchedule ==
    [][\A r \in Reports :
        report[r].status = "DRAFT" /\ report'[r].status = "SUBMITTED"
        => Meets(schedule[report[r].wo], r)]_vars
=============================================================================
