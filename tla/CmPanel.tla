------------------------------- MODULE CmPanel -------------------------------
(***************************************************************************)
(* The CM work orders of one panel, the problem topics they cover and the  *)
(* health of the devices they repair.                                      *)
(*                                                                         *)
(* Every write of a CM's topics takes the advisory lock of the panel and   *)
(* looks for an open CM on the same topic; reviews, cancellations and      *)
(* PATCHes of the device do not take it, yet they too derive the health of *)
(* a device from the open CMs they see.  PostgreSQL runs at READ           *)
(* COMMITTED: a transaction is two steps, one that takes its locks and     *)
(* reads, one that writes and commits.  The telemetry collector, and a     *)
(* PATCH of the device, write any health at any time and look at no CM.    *)
(*                                                                         *)
(* The statuses before PENDING_APPROVAL are one, WORKING, and so are the   *)
(* final ones, CLOSED: WorkOrderLifecycle tells them apart.  A NULL column *)
(* or a missing row is None.                                               *)
(***************************************************************************)
EXTENDS Naturals

CONSTANTS
    WorkOrders,     \* ids of CM work orders, created or not yet
    Topics,         \* rtu.problem_topics
    Devices,        \* rtu.panel_devices of the panel
    Clients,        \* concurrent HTTP requests
    MaxRounds,      \* bound: rounds opened on one work order
    TopicLists,     \* bound: the topic lists sent for each work order
    Requests        \* bound: the kinds of request that are sent, and the health
                    \* values of heartbeats

None == "NULL"

ASSUME PanelAssumption ==
    /\ MaxRounds \in Nat \ {0}
    /\ TopicLists \in [WorkOrders -> SUBSET ((SUBSET Topics) \ {{}})]
    /\ None \notin WorkOrders \union Topics \union Devices

VARIABLES
    status, active, round, decided,     \* rtu.work_orders and its last round
    woDevice,                           \* work_orders.panel_device_id
    topics,                             \* rtu.work_order_problem_topics
    report,                             \* cm_reports of the current round
    health,                             \* panel_devices.health_status
    op,                                 \* the requests in flight
    unchecked,  \* history: an open CM has topics no duplicate check has seen
    unsynced,   \* history: an open CM came to cover its device without a sync
    overtaken,  \* history: the device was marked while a NORMAL was on its way
    reported    \* history: the health was last written for no CM

woRow == <<status, active, round, decided, woDevice>>
history == <<unchecked, unsynced, overtaken, reported>>
vars == <<woRow, topics, report, health, op, history>>

OpenStatuses == {"WORKING", "PENDING_APPROVAL"}
Statuses == OpenStatuses \union {"CLOSED"}
Healths == {"NORMAL", "WARNING", "CRITICAL", "UNKNOWN"}
Decisions == {"APPROVED", "APPROVED_CONDITION", "ESCALATED", "REJECTED"}
MaybeDevice == Devices \union {None}
Reports == [device : MaybeDevice, topic : Topics]
NoReport == [device |-> None, topic |-> None]

\* The requests that run under LockPanelCmWrites.
LockedKinds == {"create", "pmCreate", "pmRepair", "saveReport", "patchTopics",
                "patchReport"}

Idle == [stage |-> "idle"]
NoWrites == [d \in Devices |-> None]

\* A request: what it is, how far it is, the work order, the status, round
\* and device it saw, its input, whether it holds the row of the work order,
\* and the health it is about to write.
Op == [kind : LockedKinds \union Decisions
                \union {"patchDevice", "cancel", "restore"},
       stage : {"snapshot", "tx", "committed"}, wo : WorkOrders,
       st : Statuses \union {None}, rnd : Nat, prev : MaybeDevice,
       in : SUBSET Topics, topic : Topics \union {None}, dev : MaybeDevice,
       holdsRow : BOOLEAN, writes : [Devices -> Healths \union {None}]]

-----------------------------------------------------------------------------
(***************************************************************************)
(* Rows and locks                                                          *)
(***************************************************************************)

Exists(w) == status[w] # None

\* Bound: without "reopen" a closed CM gets no new request but cancellations
\* and restores, and the requests under way leave its status alone.
MayChange(w) == status[w] = "CLOSED" => "reopen" \in Requests

\* buildOpenCmWorkOrderConditions
Open(w) == active[w] /\ status[w] \in OpenStatuses

\* openCmEffectiveDevice: COALESCE(report of the current round, work order)
Coalesce(rep, dev) ==
    IF rep.device # None THEN rep.device ELSE dev
EffectiveDevice(w) == Coalesce(report[w], woDevice[w])

\* hasOpenCmForDevice, w's own row aside
CoveredElsewhere(w, d) ==
    \E m \in WorkOrders \ {w} : Open(m) /\ EffectiveDevice(m) = d

\* firstOpenCmConflictForTopics
Conflict(w, T) ==
    \E m \in WorkOrders \ {w} : Open(m) /\ topics[m] \intersect T # {}

\* Mutation: the advisory lock is not taken.
NoLock(c) == TRUE

\* pg_advisory_xact_lock(hashtext(panel_id))
PanelLockFree(c) ==
    \A o \in Clients \ {c} : op[o].stage = "tx" => op[o].kind \notin LockedKinds

\* The UPDATE of a work order waits for the transaction that updated it.
RowFree(w) == \A o \in Clients : op[o].stage = "tx" => ~(op[o].holdsRow /\ op[o].wo = w)

-----------------------------------------------------------------------------
(***************************************************************************)
(* What a transaction decides to write on the devices                      *)
(***************************************************************************)

\* At most two rows: hp on p, then hd on d.
Writes(p, hp, d, hd) ==
    [x \in Devices |-> IF x = d THEN hd ELSE IF x = p THEN hp ELSE None]

\* Mutation: recalc clears the device although another CM is open on it.
RecalcAlways(d, covered) == IF health[d] = "WARNING" THEN "NORMAL" ELSE None

\* RecalcPanelDeviceCmStatusQ
Recalc(d, covered) ==
    IF covered THEN "WARNING"
    ELSE IF health[d] = "WARNING" THEN "NORMAL" ELSE None

RecalcDevice(w, p, alsoOwn) ==
    IF p = None THEN NoWrites
    ELSE Writes(p, Recalc(p, alsoOwn \/ CoveredElsewhere(w, p)), None, None)

\* SyncPanelDeviceCmReportSaveQ: recalculate the device the report had, mark
\* the one it has now.  openCm is a snapshot's; rep and isOpen are the
\* transaction's own view of the row it has just written.
ReportSaveSync(openCm, w, prev, new, rep, isOpen) ==
    LET own == isOpen /\ Coalesce(rep, woDevice[w]) = prev
        old == IF prev # new THEN RecalcDevice(w, prev, own) ELSE NoWrites IN
    IF ~openCm THEN NoWrites
    ELSE [x \in Devices |-> IF x = new THEN "WARNING" ELSE old[x]]

\* Mutation: the final status of the work order is written as the health.
CloseSyncRaw(w, d, decision) ==
    IF CoveredElsewhere(w, d) \/ decision = "APPROVED_CONDITION"
    THEN Writes(None, None, d, "WARNING")
    ELSE Writes(None, None, d, "COMPLETED")

\* SyncPanelDeviceAfterCmClosedQ, for the decisions attachCmDeviceCloseSync
\* gives a device to.
CloseSync(w, d, decision) ==
    IF CoveredElsewhere(w, d) \/ decision = "APPROVED_CONDITION"
    THEN Writes(None, None, d, "WARNING")
    ELSE Writes(None, None, d, "NORMAL")

-----------------------------------------------------------------------------
(***************************************************************************)
(* Steps of a request                                                      *)
(***************************************************************************)

Init ==
    /\ status = [w \in WorkOrders |-> None]
    /\ active = [w \in WorkOrders |-> FALSE]
    /\ round = [w \in WorkOrders |-> 0]
    /\ decided = [w \in WorkOrders |-> FALSE]
    /\ woDevice = [w \in WorkOrders |-> None]
    /\ topics = [w \in WorkOrders |-> {}]
    /\ report = [w \in WorkOrders |-> NoReport]
    /\ health \in [Devices -> Healths]
    /\ op = [c \in Clients |-> Idle]
    /\ unchecked = [w \in WorkOrders |-> FALSE]
    /\ unsynced = [w \in WorkOrders |-> FALSE]
    /\ overtaken = [d \in Devices |-> FALSE]
    /\ reported = [d \in Devices |-> TRUE]

\* A handler has read the work order and validated its input.  It keeps what
\* it needs: the status st, and the device the row had, prev.
Snapshot(c, kind, w, st, prev, T, t, d) ==
    /\ kind \in Requests
    /\ op[c] = Idle
    /\ op' = [op EXCEPT ![c] =
                [kind |-> kind, stage |-> "snapshot", wo |-> w, st |-> st,
                 rnd |-> round[w], prev |-> prev, in |-> T, topic |-> t,
                 dev |-> d, holdsRow |-> FALSE,
                 writes |-> NoWrites]]
    /\ UNCHANGED <<woRow, topics, report, health, history>>

\* The transaction of a request begins: locks are taken and reads made, and
\* the status and device it saw before are of no more use.
Begin(c, holdsRow, writes) ==
    /\ holdsRow => RowFree(op[c].wo)
    /\ op' = [op EXCEPT ![c] = [@ EXCEPT !.stage = "tx", !.st = None, !.prev = None,
                                !.holdsRow = holdsRow, !.writes = writes]]
    /\ UNCHANGED <<woRow, topics, report, health, history>>

\* A request that reads nothing before its transaction.
BeginAlone(c, kind, w, T, t, d, writes) ==
    /\ kind \in Requests
    /\ op[c] = Idle
    /\ RowFree(w)
    /\ op' = [op EXCEPT ![c] =
                [kind |-> kind, stage |-> "tx", wo |-> w, st |-> None, rnd |-> 1,
                 prev |-> None, in |-> T, topic |-> t, dev |-> d,
                 holdsRow |-> TRUE, writes |-> writes]]
    /\ UNCHANGED <<woRow, topics, report, health, history>>

In(c, kind, stage) == op[c].stage = stage /\ op[c].kind = kind
Reading(c, kind) == In(c, kind, "snapshot")
Writing(c, kind) == In(c, kind, "tx")

\* An error answer, or a rollback.
Finish(c) == op' = [op EXCEPT ![c] = Idle]
Refuse(c) == Finish(c) /\ UNCHANGED <<woRow, topics, report, health, history>>

\* The devices are written and the transaction commits.
WriteDevices(c) ==
    LET wr == op[c].writes
        normalPending(d) == \E o \in Clients \ {c} :
                                op[o].stage = "tx" /\ op[o].writes[d] = "NORMAL" IN
    /\ health' = [d \in Devices |-> IF wr[d] = None THEN health[d] ELSE wr[d]]
    /\ overtaken' = [d \in Devices |->
                        IF wr[d] = "WARNING" THEN normalPending(d) ELSE overtaken[d]]
    /\ reported' = [d \in Devices |-> wr[d] = None /\ reported[d]]

\* From now on w has status st, is active or not, and covers device d; its
\* request adds topics without a check or not, and writes wr.
Track(w, st, act, d, adds, wr) ==
    LET open == act /\ st \in OpenStatuses
        opens == open /\ ~Open(w)
        gets(h) == d \in Devices /\ wr[d] = h IN
    /\ unchecked' = [unchecked EXCEPT ![w] = open /\ (@ \/ opens \/ adds)]
    /\ unsynced' = [unsynced EXCEPT ![w] =
            /\ open /\ ~gets("WARNING")
            /\ @ \/ opens \/ d # EffectiveDevice(w) \/ gets("NORMAL")]

-----------------------------------------------------------------------------
(***************************************************************************)
(* Create, alone or as the first half of a repair opened from a PM visit   *)
(***************************************************************************)

BeginCreate(c, kind, w, T, t, d) ==
    /\ kind \in Requests /\ ~Exists(w)
    /\ PanelLockFree(c)
    /\ ~Conflict(w, T)
    /\ BeginAlone(c, kind, w, T, t, d, Writes(None, None, d, "WARNING"))

\* CreateWithFirstRound
CommitCreate(c) ==
    LET r == op[c] IN
    /\ Writing(c, "create") \/ Writing(c, "pmCreate")
    /\ status' = [status EXCEPT ![r.wo] = "WORKING"]
    /\ active' = [active EXCEPT ![r.wo] = TRUE]
    /\ round' = [round EXCEPT ![r.wo] = 1]
    /\ woDevice' = [woDevice EXCEPT ![r.wo] = r.dev]
    /\ topics' = [topics EXCEPT ![r.wo] = r.in]
    /\ report' = [report EXCEPT ![r.wo] = [device |-> r.dev, topic |-> r.topic]]
    /\ WriteDevices(c)
    /\ IF r.kind = "create" THEN Finish(c)
       ELSE op' = [op EXCEPT ![c].stage = "committed", ![c].holdsRow = FALSE]
    /\ UNCHANGED <<decided, unchecked, unsynced>>

\* EscalateFromPm and CreateOnsiteFix look up the report they have seeded ...
ReadRepair(c) ==
    LET w == op[c].wo IN
    /\ In(c, "pmCreate", "committed")
    /\ IF report[w] = NoReport THEN Finish(c)
       ELSE op' = [op EXCEPT ![c] = [@ EXCEPT
                !.kind = "pmRepair", !.stage = "snapshot", !.rnd = round[w],
                !.prev = report[w].device, !.writes = NoWrites]]
    /\ UNCHANGED <<woRow, topics, report, health, history>>

\* ... and fill it in, in a second transaction that takes the lock again and
\* does not look for a conflict again.
BeginRepair(c) ==
    LET r == op[c]
        rep == [device |-> r.dev, topic |-> r.topic] IN
    /\ Reading(c, "pmRepair")
    /\ PanelLockFree(c)
    /\ Begin(c, FALSE, ReportSaveSync(TRUE, r.wo, r.prev, r.dev,
                            IF r.rnd = round[r.wo] THEN rep ELSE report[r.wo],
                            Open(r.wo)))

-----------------------------------------------------------------------------
(***************************************************************************)
(* The report: upsert, PATCH, DELETE                                       *)
(***************************************************************************)

\* BeginWorkFromReportQ runs when the snapshot was ASSIGNED or PENDING and
\* the round is not checked in; it writes IN_PROGRESS whatever the status is.
BeginSaveReport(c, begins) ==
    LET r == op[c]
        rep == [device |-> r.dev, topic |-> r.topic] IN
    /\ Reading(c, "saveReport")
    /\ begins => r.st = "WORKING" /\ MayChange(r.wo)
    /\ PanelLockFree(c)
    /\ IF Conflict(r.wo, r.in) THEN Refuse(c)
       ELSE Begin(c, begins, ReportSaveSync(r.st \in OpenStatuses, r.wo, r.prev,
                    r.dev, IF r.rnd = round[r.wo] THEN rep ELSE report[r.wo],
                    Open(r.wo) \/ (begins /\ active[r.wo])))

\* The topics are only ever added to.  The report belongs to the round of the
\* snapshot: that of an older round covers no device.
CommitReport(c) ==
    LET r == op[c]
        st == IF r.holdsRow THEN "WORKING" ELSE status[r.wo]
        rep == IF r.rnd # round[r.wo] THEN report[r.wo]
               ELSE [device |-> r.dev, topic |-> r.topic] IN
    /\ Writing(c, "saveReport") \/ Writing(c, "pmRepair")
    /\ status' = [status EXCEPT ![r.wo] = st]
    /\ topics' = [topics EXCEPT ![r.wo] = @ \union r.in]
    /\ report' = [report EXCEPT ![r.wo] = rep]
    /\ WriteDevices(c)
    /\ Track(r.wo, st, active[r.wo], Coalesce(rep, woDevice[r.wo]),
             r.kind = "pmRepair" /\ ~(r.in \subseteq topics[r.wo]), r.writes)
    /\ Finish(c)
    /\ UNCHANGED <<active, round, decided, woDevice>>

\* PATCH /cm-reports/{id} with topics
BeginPatchReport(c) ==
    LET r == op[c] IN
    /\ Reading(c, "patchReport")
    /\ PanelLockFree(c)
    /\ IF Conflict(r.wo, r.in) THEN Refuse(c) ELSE Begin(c, FALSE, NoWrites)

CommitPatchReport(c) ==
    LET r == op[c] IN
    /\ Writing(c, "patchReport")
    /\ IF r.rnd = round[r.wo] /\ report[r.wo] = NoReport THEN Refuse(c)
       ELSE /\ topics' = [topics EXCEPT ![r.wo] = @ \union r.in]
            /\ report' = [report EXCEPT ![r.wo] =
                            IF r.rnd = round[r.wo] THEN [@ EXCEPT !.topic = r.topic]
                            ELSE @]
            /\ Finish(c)
            /\ UNCHANGED <<woRow, health, history>>

\* The same PATCH with a device and no topic: one UPDATE, no sync.
PatchReportDevice(w, d) ==
    /\ "patchReportDevice" \in Requests
    /\ report[w] # NoReport
    /\ report' = [report EXCEPT ![w].device = d]
    /\ Track(w, status[w], active[w], Coalesce([report[w] EXCEPT !.device = d], woDevice[w]), FALSE, NoWrites)
    /\ UNCHANGED <<woRow, topics, health, op, overtaken, reported>>

\* DELETE /cm-reports/{id}
DeleteReport(w) ==
    /\ "deleteReport" \in Requests
    /\ report[w] # NoReport
    /\ report' = [report EXCEPT ![w] = NoReport]
    /\ Track(w, status[w], active[w], woDevice[w], FALSE, NoWrites)
    /\ UNCHANGED <<woRow, topics, health, op, overtaken, reported>>

-----------------------------------------------------------------------------
(***************************************************************************)
(* PATCH /work-orders/{id}                                                 *)
(***************************************************************************)

\* Topics can be replaced while the snapshot is before PENDING_APPROVAL, and
\* by a list that keeps the report's topic of that moment.
ReadPatchTopics(c, w, T) ==
    /\ status[w] = "WORKING"
    /\ report[w] # NoReport => report[w].topic \in T
    /\ Snapshot(c, "patchTopics", w, None, None, T, None, None)

\* ReplaceCmProblemTopics looks for conflicts on the added topics only.
BeginPatchTopics(c) ==
    LET r == op[c] IN
    /\ Reading(c, "patchTopics")
    /\ PanelLockFree(c)
    /\ IF Conflict(r.wo, r.in \ topics[r.wo]) THEN Refuse(c)
       ELSE Begin(c, FALSE, NoWrites)

CommitPatchTopics(c) ==
    LET r == op[c] IN
    /\ Writing(c, "patchTopics")
    /\ topics' = [topics EXCEPT ![r.wo] = r.in]
    /\ Finish(c)
    /\ UNCHANGED <<woRow, report, health, history>>

\* The device is updated ...
PatchDevice(c) ==
    LET r == op[c] IN
    /\ Reading(c, "patchDevice")
    /\ RowFree(r.wo)
    /\ woDevice' = [woDevice EXCEPT ![r.wo] = r.dev]
    /\ Track(r.wo, status[r.wo], active[r.wo], Coalesce(report[r.wo], r.dev), FALSE, NoWrites)
    /\ op' = [op EXCEPT ![c].stage = "committed", ![c].dev = None]
    /\ UNCHANGED <<status, active, round, decided, topics, report, health,
                   overtaken, reported>>

\* ... and then synced by statements of their own, from the work order as it
\* is now: syncPanelDeviceOnCmDeviceChange.
BeginDeviceSync(c) ==
    LET r == op[c]
        new == woDevice[r.wo]
        old == IF r.prev # new
               THEN RecalcDevice(r.wo, r.prev, Open(r.wo) /\ EffectiveDevice(r.wo) = r.prev)
               ELSE NoWrites IN
    /\ In(c, "patchDevice", "committed")
    /\ IF status[r.wo] \notin OpenStatuses THEN Refuse(c)
       ELSE Begin(c, FALSE, [x \in Devices |-> IF x = new THEN "WARNING" ELSE old[x]])

CommitDeviceSync(c) ==
    LET w == op[c].wo IN
    /\ Writing(c, "patchDevice")
    /\ WriteDevices(c)
    /\ Track(w, status[w], active[w], EffectiveDevice(w), FALSE, op[c].writes)
    /\ Finish(c)
    /\ UNCHANGED <<woRow, topics, report>>

-----------------------------------------------------------------------------
(***************************************************************************)
(* Submission, review, cancellation                                        *)
(***************************************************************************)

\* MarkSubmitted: any status becomes PENDING_APPROVAL.
Submit(w) ==
    /\ "submit" \in Requests
    /\ MayChange(w)
    /\ Exists(w) /\ report[w] # NoReport
    /\ RowFree(w)
    /\ status' = [status EXCEPT ![w] = "PENDING_APPROVAL"]
    /\ Track(w, "PENDING_APPROVAL", active[w], EffectiveDevice(w), FALSE, NoWrites)
    /\ UNCHANGED <<active, round, decided, woDevice, topics, report, health, op,
                   overtaken, reported>>

\* Decide, and attachCmDeviceCloseSync: the device is looked up before the
\* transaction.
ReadDecide(c, w, d) ==
    /\ status[w] = "PENDING_APPROVAL"
    /\ d = "REJECTED" => round[w] < MaxRounds
    /\ Snapshot(c, d, w, None, None, {}, None, EffectiveDevice(w))

\* wo_approvals has one row per round.
BeginDecide(c) ==
    LET r == op[c] IN
    /\ op[c].stage = "snapshot" /\ r.kind \in Decisions
    /\ RowFree(r.wo)
    /\ IF r.rnd # round[r.wo] \/ decided[r.wo] THEN Refuse(c)
       ELSE Begin(c, TRUE, IF r.kind \in {"APPROVED", "APPROVED_CONDITION"}
                           THEN CloseSync(r.wo, r.dev, r.kind) ELSE NoWrites)

\* DecideAndApply: closed, or a new round without a report.
CommitDecide(c) ==
    LET r == op[c]
        rework == r.kind = "REJECTED"
        st == IF rework THEN "WORKING" ELSE "CLOSED"
        rep == IF rework THEN NoReport ELSE report[r.wo] IN
    /\ op[c].stage = "tx" /\ r.kind \in Decisions
    /\ status' = [status EXCEPT ![r.wo] = st]
    /\ decided' = [decided EXCEPT ![r.wo] = ~rework]
    /\ round' = [round EXCEPT ![r.wo] = IF rework THEN @ + 1 ELSE @]
    /\ report' = [report EXCEPT ![r.wo] = rep]
    /\ WriteDevices(c)
    /\ Track(r.wo, st, active[r.wo], Coalesce(rep, woDevice[r.wo]), FALSE, op[c].writes)
    /\ Finish(c)
    /\ UNCHANGED <<active, woDevice, topics>>

\* SetWorkOrderActive: the UPDATE comes first, the recalculation after it.
BeginCancel(c, w) ==
    /\ Exists(w)
    /\ BeginAlone(c, "cancel", w, {}, None, None,
                  RecalcDevice(w, EffectiveDevice(w), FALSE))

BeginRestore(c, w) ==
    /\ Exists(w)
    /\ BeginAlone(c, "restore", w, {}, None, None,
                  IF status[w] \in OpenStatuses
                  THEN Writes(None, None, EffectiveDevice(w), "WARNING")
                  ELSE NoWrites)

CommitSetActive(c) ==
    LET r == op[c]
        on == r.kind = "restore"
        st == IF on THEN status[r.wo] ELSE "CLOSED" IN
    /\ Writing(c, "cancel") \/ Writing(c, "restore")
    /\ active' = [active EXCEPT ![r.wo] = on]
    /\ status' = [status EXCEPT ![r.wo] = st]
    /\ WriteDevices(c)
    /\ Track(r.wo, st, on, EffectiveDevice(r.wo), FALSE, op[c].writes)
    /\ Finish(c)
    /\ UNCHANGED <<round, decided, woDevice, topics, report>>

\* POST /panel-devices/{id}/status and PATCH /panel-devices/{id}: one UPDATE
\* with any health, whatever CM is open on the device.
RecordStatus(d, h) ==
    /\ h \in Requests
    /\ health' = [health EXCEPT ![d] = h]
    /\ reported' = [reported EXCEPT ![d] = TRUE]
    /\ UNCHANGED <<woRow, topics, report, op, unchecked, unsynced, overtaken>>

-----------------------------------------------------------------------------
\* The first topic of a list is the report's.
Inputs(w) == {i \in TopicLists[w] \X Topics : i[2] \in i[1]}

Snapshots(c) ==
    /\ op[c] = Idle
    /\ \E w \in {m \in WorkOrders : Exists(m) /\ MayChange(m)} :
           \/ \E i \in Inputs(w), d \in MaybeDevice :
                   Snapshot(c, "saveReport", w, status[w], report[w].device, i[1], i[2], d)
           \/ \E i \in Inputs(w) :
                   /\ report[w] # NoReport
                   /\ Snapshot(c, "patchReport", w, None, None, i[1], i[2], None)
           \/ \E T \in TopicLists[w] : ReadPatchTopics(c, w, T)
           \/ \E d \in MaybeDevice :
                   Snapshot(c, "patchDevice", w, None, woDevice[w], {}, None, d)
           \/ \E d \in Decisions : ReadDecide(c, w, d)

Next ==
    \/ \E c \in Clients :
        \/ \E w \in WorkOrders : \E i \in Inputs(w), d \in MaybeDevice,
              kind \in {"create", "pmCreate"} : BeginCreate(c, kind, w, i[1], i[2], d)
        \/ Snapshots(c)
        \/ CommitCreate(c) \/ ReadRepair(c) \/ BeginRepair(c)
        \/ \E begins \in BOOLEAN : BeginSaveReport(c, begins)
        \/ CommitReport(c)
        \/ BeginPatchReport(c) \/ CommitPatchReport(c)
        \/ BeginPatchTopics(c) \/ CommitPatchTopics(c)
        \/ PatchDevice(c) \/ BeginDeviceSync(c) \/ CommitDeviceSync(c)
        \/ BeginDecide(c) \/ CommitDecide(c)
        \/ \E w \in WorkOrders : BeginCancel(c, w) \/ BeginRestore(c, w)
        \/ CommitSetActive(c)
    \/ \E w \in WorkOrders :
        \/ \E d \in MaybeDevice : PatchReportDevice(w, d)
        \/ DeleteReport(w)
        \/ Submit(w)
    \/ \E d \in Devices, h \in Healths : RecordStatus(d, h)

Spec == Init /\ [][Next]_vars

-----------------------------------------------------------------------------
(***************************************************************************)
(* Properties                                                              *)
(***************************************************************************)

\* Every column and every request in flight has one of its values.
TypeOK ==
    /\ status \in [WorkOrders -> Statuses \union {None}]
    /\ active \in [WorkOrders -> BOOLEAN]
    /\ round \in [WorkOrders -> 0 .. MaxRounds]
    /\ decided \in [WorkOrders -> BOOLEAN]
    /\ woDevice \in [WorkOrders -> MaybeDevice]
    /\ topics \in [WorkOrders -> SUBSET Topics]
    /\ report \in [WorkOrders -> Reports \union {NoReport}]
    /\ health \in [Devices -> Healths]
    /\ op \in [Clients -> Op \union {Idle}]
    /\ unchecked \in [WorkOrders -> BOOLEAN]
    /\ unsynced \in [WorkOrders -> BOOLEAN]
    /\ overtaken \in [Devices -> BOOLEAN]
    /\ reported \in [Devices -> BOOLEAN]

\* Two open CMs of the panel never cover the same problem topic, whatever
\* creations, report saves and PATCHes run at once (LockPanelCmWrites and
\* EnsureNoOpenCmConflictForTopics).  Two ways around the check are excepted:
\* a CM that was closed and opened again, and a PM repair that puts back a
\* topic taken from its CM between its two transactions.
OneOpenCmPerTopic ==
    \A v, w \in WorkOrders :
        /\ v # w /\ Open(v) /\ Open(w)
        /\ ~unchecked[v] /\ ~unchecked[w]
        => topics[v] \intersect topics[w] = {}

\* No request of a CM makes a device NORMAL that an open CM covers, although
\* reviews, cancellations and PATCHes write it without the panel's lock: it is
\* NORMAL only where the collector or a PATCH of the device wrote that since.
\* Two exceptions: the CM came to cover the device through a request that syncs
\* nothing (a rework, a PATCH or DELETE of the report), or the device was marked
\* while a request that had found no open CM was about to write NORMAL.
OpenCmKeepsDeviceMarked ==
    \A w \in WorkOrders, d \in Devices :
        /\ Open(w) /\ EffectiveDevice(w) = d
        /\ ~unsynced[w] /\ ~overtaken[d] /\ ~reported[d]
        => health[d] # "NORMAL"

\* What doc/api/04-panels-devices.md says of two CMs on one device: it stays
\* MONITORING until the last one closes.  It does not hold: a heartbeat may say
\* NORMAL at any time, and a review counts the open CMs before it writes NORMAL.
MonitoredUntilLastCmCloses ==
    \A w \in WorkOrders, d \in Devices :
        Open(w) /\ EffectiveDevice(w) = d => health[d] # "NORMAL"

\* What the same page says of cancelling a CM: only a WARNING is cleared, a
\* CRITICAL device is left alone.  It does not hold: an alarm recorded between
\* the read and the UPDATE is overwritten.
CancelLeavesCritical ==
    [][\A w \in WorkOrders, d \in Devices :
            active[w] /\ ~active'[w] /\ health[d] = "CRITICAL"
            => health'[d] = "CRITICAL"]_vars

\* What the same sentence, and the comment of RecalcPanelDeviceCmStatusQ, say of
\* a WARNING: only one that a CM has set is cleared.  It does not hold: the row
\* does not tell who wrote its WARNING, and the collector's is cleared too.
OnlyCmWarningsCleared ==
    [][\A w \in WorkOrders, d \in Devices :
            active[w] /\ ~active'[w] /\ health[d] = "WARNING" /\ reported[d]
            => health'[d] = "WARNING"]_vars
=============================================================================
