--------------------------- MODULE PmRecordsProofs ---------------------------
(***************************************************************************)
(* Type correctness of PmRecords, that a submitted report is frozen, and   *)
(* that the links of calibrations resolve, for every set of work orders,   *)
(* reports, calibrations and clients.                                      *)
(***************************************************************************)
EXTENDS PmRecords, TLAPS

USE DEF vars, rows

-----------------------------------------------------------------------------
(***************************************************************************)
(* Types                                                                   *)
(***************************************************************************)

\* The initial state has the types.
LEMMA InitTypes == Init => TypeOK
  BY RecordsAssumption DEF Init, TypeOK, NoReport, ReportRows, CalibrationRows,
     Idle, Op, MaybeWo, MaybeReport, Schedules

\* A request that starts has the type of a request.
LEMMA IdleTyped == Idle \in Op /\ 0 \in 0 .. MaxRounds
  BY RecordsAssumption DEF RecordsAssumption, Idle, Op, MaybeWo, MaybeReport

\* Updates of one or two fields keep the type of a request and of a row.
LEMMA OpUpdate ==
  ASSUME NEW o \in Op
  PROVE  [o EXCEPT !.kind = "submitted", !.report = None] \in Op
  BY DEF Op, MaybeReport

LEMMA StatusUpdate ==
  ASSUME NEW q \in ReportRows
  PROVE  [q EXCEPT !.status = "SUBMITTED"] \in ReportRows
  BY DEF ReportRows

LEMMA RowUpdate ==
  ASSUME NEW l \in CalibrationRows, NEW w \in MaybeWo, NEW r \in MaybeReport
  PROVE  [l EXCEPT !.wo = w, !.report = r] \in CalibrationRows
  BY DEF CalibrationRows

\* A link patch is a flag and a link.
LEMMA LinkPatchPair ==
  ASSUME NEW Ids, NEW p \in LinkPatches(Ids)
  PROVE  p[1] \in BOOLEAN /\ p[2] \in Ids \union {None}
<1>1. CASE p = <<FALSE, None>>
  BY <1>1
<1>2. ASSUME NEW i \in Ids \union {None}, p = <<TRUE, i>>
      PROVE  p[1] \in BOOLEAN /\ p[2] \in Ids \union {None}
  BY <1>2
<1>3. p = <<FALSE, None>> \/ \E i \in Ids \union {None} : p = <<TRUE, i>>
  BY Zenon DEF LinkPatches
<1> QED
  BY <1>1, <1>2, <1>3, Zenon

\* The five kinds of snapshot, with the fields of a PATCH apart.
LEMMA SnapshotKinds ==
  ASSUME NEW c \in Clients, Snapshots(c)
  PROVE  \/ \E w \in WorkOrders, p \in BOOLEAN, x \in Contents : ReadSave(c, w, p, x)
         \/ \E w \in WorkOrders : ReadSubmit(c, w)
         \/ \E w \in WorkOrders, s \in Schedules : ReadPatchSchedule(c, w, s)
         \/ \E k \in Calibrations, w \in MaybeWo, r \in MaybeReport :
                ReadCreateCalibration(c, k, w, r)
         \/ \E k \in Calibrations, sw \in BOOLEAN, w \in MaybeWo, sr \in BOOLEAN,
                r \in MaybeReport : ReadPatchCalibration(c, k, sw, w, sr, r)
<1>1. ASSUME NEW k \in Calibrations, NEW pw \in LinkPatches(WorkOrders),
             NEW pr \in LinkPatches(Reports),
             ReadPatchCalibration(c, k, pw[1], pw[2], pr[1], pr[2])
      PROVE \E sw \in BOOLEAN, w \in MaybeWo, sr \in BOOLEAN, r \in MaybeReport :
                ReadPatchCalibration(c, k, sw, w, sr, r)
  <2>1. pw[1] \in BOOLEAN /\ pw[2] \in MaybeWo
    BY <1>1, LinkPatchPair, Zenon DEF MaybeWo
  <2>2. pr[1] \in BOOLEAN /\ pr[2] \in MaybeReport
    BY <1>1, LinkPatchPair, Zenon DEF MaybeReport
  <2> QED
    BY <1>1, <2>1, <2>2
<1>2. CASE \E k \in Calibrations, pw \in LinkPatches(WorkOrders),
             pr \in LinkPatches(Reports) :
                ReadPatchCalibration(c, k, pw[1], pw[2], pr[1], pr[2])
  BY <1>1, <1>2
<1>3. \/ \E w \in WorkOrders, p \in BOOLEAN, x \in Contents : ReadSave(c, w, p, x)
      \/ \E w \in WorkOrders : ReadSubmit(c, w)
      \/ \E w \in WorkOrders, s \in Schedules : ReadPatchSchedule(c, w, s)
      \/ \E k \in Calibrations, w \in MaybeWo, r \in MaybeReport :
             ReadCreateCalibration(c, k, w, r)
      \/ \E k \in Calibrations, pw \in LinkPatches(WorkOrders),
             pr \in LinkPatches(Reports) :
                ReadPatchCalibration(c, k, pw[1], pw[2], pr[1], pr[2])
  BY Zenon DEF Snapshots
<1> QED
  BY <1>2, <1>3, Zenon

\* A snapshot changes no row.
LEMMA SnapshotReads ==
  ASSUME NEW c \in Clients, Snapshots(c)
  PROVE  UNCHANGED rows
<1>1. ASSUME NEW o, Start(c, o) PROVE UNCHANGED rows
  BY <1>1 DEF Start
<1>2. \E o : Start(c, o)
  BY SnapshotKinds, Zenon
     DEF ReadSave, ReadSubmit, ReadPatchSchedule, ReadCreateCalibration,
         ReadPatchCalibration
<1> QED
  BY <1>1, <1>2

\* What a save writes: a draft, on a new id or on a draft of the work order.
SavesAs(c, r) ==
    /\ \/ report[r].status = None
       \/ report[r].status = "DRAFT" /\ report[r].wo = op[c].wo
    /\ report' = [report EXCEPT ![r] =
                    Draft(op[c].wo, op[c].round, op[c].power, op[c].content)]

LEMMA SaveIsDraft ==
  ASSUME NEW c \in Clients, Save(c)
  PROVE  \E r \in Reports : SavesAs(c, r)
<1> DEFINE row == Draft(op[c].wo, op[c].round, op[c].power, op[c].content)
<1>1. row = [row EXCEPT !.status = "DRAFT"]
  BY DEF Draft
<1>2. CASE ReportsOf(op[c].wo, op[c].round) = {}
  BY <1>1, <1>2 DEF Save, SavesAs
<1>3. CASE ReportsOf(op[c].wo, op[c].round) # {}
  BY <1>1, <1>3 DEF Save, SavesAs, Editable, ReportsOf
<1> QED
  BY <1>2, <1>3

\* A PATCH of the schedule in flight carries one.
SchedulesSent ==
    \A c \in Clients : op[c].kind = "patchSchedule" => op[c].schedule \in Schedules

\* Every step keeps the types.
LEMMA StepTypes == TypeOK /\ SchedulesSent /\ [Next]_vars => TypeOK'
<1> USE RecordsAssumption
<1>1. ASSUME TypeOK, UNCHANGED vars PROVE TypeOK'
  BY <1>1 DEF TypeOK
<1>2. ASSUME TypeOK, NEW c \in Clients, NEW o \in Op, Start(c, o) PROVE TypeOK'
  <2>1. op' \in [Clients -> Op]
    BY <1>2 DEF TypeOK, Start
  <2> QED
    BY <2>1, <1>2 DEF TypeOK, Start
<1>3. ASSUME TypeOK, NEW c \in Clients, Snapshots(c) PROVE TypeOK'
  <2>1. ASSUME NEW w \in WorkOrders, NEW p \in BOOLEAN, NEW x \in Contents,
               ReadSave(c, w, p, x)
        PROVE TypeOK'
    <3>1. round[w] \in 0 .. MaxRounds
      BY <1>3 DEF TypeOK, RecordsAssumption
    <3> DEFINE o == [Idle EXCEPT !.kind = "save", !.wo = w, !.round = round[w],
                                 !.power = p, !.content = x]
    <3>2. o \in Op
      BY <3>1 DEF Idle, Op, MaybeWo, MaybeReport
    <3>3. Start(c, o)
      BY <2>1 DEF ReadSave
    <3> QED
      BY <1>2, <1>3, <3>2, <3>3
  <2>2. ASSUME NEW w \in WorkOrders, ReadSubmit(c, w) PROVE TypeOK'
    <3>1. round[w] \in 0 .. MaxRounds /\ schedule[w] \in Schedules
      BY <1>3 DEF TypeOK, RecordsAssumption
    <3> DEFINE o == [Idle EXCEPT !.kind = "submit", !.wo = w, !.round = round[w],
                                 !.schedule = schedule[w]]
    <3>2. o \in Op
      BY <3>1 DEF Idle, Op, MaybeWo, MaybeReport
    <3>3. Start(c, o)
      BY <2>2 DEF ReadSubmit
    <3> QED
      BY <1>2, <1>3, <3>2, <3>3
  <2>3. ASSUME NEW w \in WorkOrders, NEW s \in Schedules, ReadPatchSchedule(c, w, s)
        PROVE TypeOK'
    <3> DEFINE o == [Idle EXCEPT !.kind = "patchSchedule", !.wo = w, !.schedule = s]
    <3>1. o \in Op
      BY IdleTyped DEF Idle, Op, MaybeWo, MaybeReport
    <3>2. Start(c, o)
      BY <2>3 DEF ReadPatchSchedule
    <3> QED
      BY <1>2, <1>3, <3>1, <3>2
  <2>4. ASSUME NEW k \in Calibrations, NEW w \in MaybeWo, NEW r \in MaybeReport,
               ReadCreateCalibration(c, k, w, r)
        PROVE TypeOK'
    <3> DEFINE o == [Idle EXCEPT !.kind = "createCalibration", !.calibration = k,
                                 !.wo = w, !.report = r]
    <3>1. o \in Op
      BY IdleTyped DEF Idle, Op, MaybeWo, MaybeReport
    <3>2. Start(c, o)
      BY <2>4 DEF ReadCreateCalibration
    <3> QED
      BY <1>2, <1>3, <3>1, <3>2
  <2>5. ASSUME NEW k \in Calibrations, NEW sw \in BOOLEAN, NEW w \in MaybeWo,
               NEW sr \in BOOLEAN, NEW r \in MaybeReport,
               ReadPatchCalibration(c, k, sw, w, sr, r)
        PROVE TypeOK'
    <3> DEFINE o == [Idle EXCEPT !.kind = "patchCalibration", !.calibration = k,
                                 !.wo = w, !.report = r, !.setWo = sw,
                                 !.setReport = sr]
    <3>1. o \in Op
      BY IdleTyped DEF Idle, Op, MaybeWo, MaybeReport
    <3>2. Start(c, o)
      BY <2>5 DEF ReadPatchCalibration
    <3> QED
      BY <1>2, <1>3, <3>1, <3>2
  <2> QED
    BY <1>3, <2>1, <2>2, <2>3, <2>4, <2>5, SnapshotKinds
<1>7. ASSUME TypeOK, NEW c \in Clients, Save(c) PROVE TypeOK'
  <2>1. op[c] \in Op /\ op[c].kind = "save"
    BY <1>7 DEF TypeOK, Save
  <2>2. PICK r \in Reports : SavesAs(c, r)
    BY <1>7, SaveIsDraft
  <2>3. report' \in [Reports -> ReportRows]
    BY <2>1, <2>2, <1>7 DEF TypeOK, SavesAs, Draft, ReportRows, Op
  <2>4. op' \in [Clients -> Op \union {Idle}]
    BY <1>7 DEF Save, Finish, TypeOK
  <2> QED
    BY <2>3, <2>4, <1>7, IdleTyped DEF Save, TypeOK
<1>8. ASSUME TypeOK, NEW c \in Clients, CheckSubmit(c) PROVE TypeOK'
  <2>1. PICK r \in Reports :
            op' = [op EXCEPT ![c] = [Idle EXCEPT !.kind = "submitChecked",
                                                 !.wo = op[c].wo, !.report = r]]
    BY <1>8 DEF CheckSubmit, ReportsOf
  <2> DEFINE o == [Idle EXCEPT !.kind = "submitChecked", !.wo = op[c].wo, !.report = r]
  <2>2. op[c].wo \in MaybeWo
    BY <1>8 DEF TypeOK, Op
  <2>3. o \in Op
    BY <2>2, IdleTyped DEF Idle, Op, MaybeWo, MaybeReport
  <2>4. op' \in [Clients -> Op]
    BY <2>1, <2>3, <1>8 DEF TypeOK
  <2> QED
    BY <2>4, <1>8 DEF TypeOK, CheckSubmit
<1>9. ASSUME TypeOK, NEW c \in Clients, SubmitReport(c) PROVE TypeOK'
  <2>1. op' \in [Clients -> Op]
    <3> DEFINE o == [op[c] EXCEPT !.kind = "submitted", !.report = None]
    <3>1. o \in Op
      BY <1>9, OpUpdate, Zenon DEF TypeOK
    <3>2. op' = [op EXCEPT ![c] = o]
      BY <1>9, Zenon DEF SubmitReport
    <3> QED
      BY <3>1, <3>2, <1>9 DEF TypeOK
  <2>2. report' \in [Reports -> ReportRows]
    <3>1. \A r \in Reports : [report[r] EXCEPT !.status = "SUBMITTED"] \in ReportRows
      BY <1>9, StatusUpdate DEF TypeOK
    <3>2. report' = [report EXCEPT ![op[c].report] =
                        [report[op[c].report] EXCEPT !.status = "SUBMITTED"]]
      BY <1>9, Zenon DEF SubmitReport
    <3> QED
      BY <3>1, <3>2, <1>9 DEF TypeOK
  <2> QED
    BY <2>1, <2>2, <1>9 DEF TypeOK, SubmitReport
<1>10. ASSUME TypeOK, NEW c \in Clients, MarkSubmitted(c) PROVE TypeOK'
  BY <1>10, IdleTyped DEF TypeOK, MarkSubmitted, Finish
<1>11. ASSUME TypeOK, SchedulesSent, NEW c \in Clients, PatchSchedule(c) PROVE TypeOK'
  <2>1. op[c].schedule \in Schedules
    BY <1>11 DEF SchedulesSent, PatchSchedule
  <2> QED
    BY <2>1, <1>11, IdleTyped DEF TypeOK, PatchSchedule, Finish
<1>12. ASSUME TypeOK, NEW c \in Clients, CreateCalibration(c) PROVE TypeOK'
  BY <1>12, IdleTyped DEF TypeOK, CreateCalibration, Finish, Op, CalibrationRows
<1>13. ASSUME TypeOK, NEW c \in Clients, PatchCalibration(c) PROVE TypeOK'
  <2> DEFINE k == op[c].calibration
             row == [calibration[k] EXCEPT
                        !.wo = IF op[c].setWo THEN op[c].wo ELSE @,
                        !.report = IF op[c].setReport THEN op[c].report ELSE @]
  <2>1. calibration' = [calibration EXCEPT ![k] = row]
    BY <1>13, Zenon DEF PatchCalibration
  <2>2. op[c].wo \in MaybeWo /\ op[c].report \in MaybeReport
    BY <1>13 DEF TypeOK, Op
  <2>3. k \in Calibrations => row \in CalibrationRows
    <3> SUFFICES ASSUME k \in Calibrations PROVE row \in CalibrationRows
      OBVIOUS
    <3>1. calibration[k] \in CalibrationRows
      BY <1>13 DEF TypeOK
    <3>2. (IF op[c].setWo THEN op[c].wo ELSE calibration[k].wo) \in MaybeWo
      BY <2>2, <3>1 DEF CalibrationRows
    <3>3. (IF op[c].setReport THEN op[c].report ELSE calibration[k].report)
            \in MaybeReport
      BY <2>2, <3>1 DEF CalibrationRows
    <3> QED
      BY <3>1, <3>2, <3>3, RowUpdate, Zenon
  <2>4. calibration' \in [Calibrations -> CalibrationRows]
    BY <2>1, <2>3, <1>13 DEF TypeOK
  <2>5. crossed' \in [Calibrations -> BOOLEAN]
    BY <1>13 DEF TypeOK, PatchCalibration
  <2> QED
    BY <2>4, <2>5, <1>13, IdleTyped DEF TypeOK, PatchCalibration, Finish
<1>14. ASSUME TypeOK, NEW c \in Clients, Refuse(c) PROVE TypeOK'
  BY <1>14, IdleTyped DEF TypeOK, Refuse, Finish
<1>15. ASSUME TypeOK, NEW r \in Reports, DeleteReport(r) PROVE TypeOK'
  BY <1>15, IdleTyped DEF TypeOK, DeleteReport, NoReport, ReportRows, MaybeWo
<1>16. ASSUME TypeOK, NEW k \in Calibrations, DeleteCalibration(k) PROVE TypeOK'
  BY <1>16 DEF TypeOK, DeleteCalibration, CalibrationRows, MaybeWo, MaybeReport
<1>17. ASSUME TypeOK, NEW w \in WorkOrders, Rework(w) PROVE TypeOK'
  BY <1>17 DEF TypeOK, Rework
<1> QED
  BY <1>1, <1>3, <1>7, <1>8, <1>9, <1>10, <1>11, <1>12, <1>13, <1>14, <1>15,
     <1>16, <1>17 DEF Next

\* Only the snapshot of a PATCH of the schedule is one.
LEMMA StepSent == TypeOK /\ SchedulesSent /\ [Next]_vars => SchedulesSent'
<1> SUFFICES ASSUME TypeOK, SchedulesSent, [Next]_vars, NEW d \in Clients,
                    op'[d].kind = "patchSchedule"
             PROVE  op'[d].schedule \in Schedules
  BY DEF SchedulesSent
<1>1. CASE UNCHANGED op
  BY <1>1 DEF SchedulesSent
<1>2. ASSUME NEW c \in Clients, Snapshots(c) PROVE op'[d].schedule \in Schedules
  <2>1. CASE \E w \in WorkOrders, s \in Schedules : ReadPatchSchedule(c, w, s)
    BY <2>1 DEF ReadPatchSchedule, Start, TypeOK, SchedulesSent, Idle
  <2>2. ASSUME NEW o, Start(c, o), o.kind # "patchSchedule"
        PROVE op'[d].schedule \in Schedules
    BY <2>2 DEF Start, TypeOK, SchedulesSent
  <2>4. ASSUME NEW w \in WorkOrders, NEW p \in BOOLEAN, NEW x \in Contents,
               ReadSave(c, w, p, x)
        PROVE op'[d].schedule \in Schedules
    <3> DEFINE o == [Idle EXCEPT !.kind = "save", !.wo = w, !.round = round[w],
                                 !.power = p, !.content = x]
    <3>1. Start(c, o)
      BY <2>4, Zenon DEF ReadSave
    <3>2. o.kind = "save"
      BY DEF Idle
    <3> HIDE DEF o
    <3> QED
      BY <2>2, <3>1, <3>2
  <2>5. ASSUME NEW w \in WorkOrders, ReadSubmit(c, w)
        PROVE op'[d].schedule \in Schedules
    <3> DEFINE o == [Idle EXCEPT !.kind = "submit", !.wo = w, !.round = round[w],
                                 !.schedule = schedule[w]]
    <3>1. Start(c, o)
      BY <2>5, Zenon DEF ReadSubmit
    <3>2. o.kind = "submit"
      BY DEF Idle
    <3> HIDE DEF o
    <3> QED
      BY <2>2, <3>1, <3>2
  <2>6. ASSUME NEW k \in Calibrations, NEW w \in MaybeWo, NEW r \in MaybeReport,
               ReadCreateCalibration(c, k, w, r)
        PROVE op'[d].schedule \in Schedules
    <3> DEFINE o == [Idle EXCEPT !.kind = "createCalibration", !.calibration = k,
                                 !.wo = w, !.report = r]
    <3>1. Start(c, o)
      BY <2>6, Zenon DEF ReadCreateCalibration
    <3>2. o.kind = "createCalibration"
      BY DEF Idle
    <3> HIDE DEF o
    <3> QED
      BY <2>2, <3>1, <3>2
  <2>7. ASSUME NEW k \in Calibrations, NEW sw \in BOOLEAN, NEW w \in MaybeWo,
               NEW sr \in BOOLEAN, NEW r \in MaybeReport,
               ReadPatchCalibration(c, k, sw, w, sr, r)
        PROVE op'[d].schedule \in Schedules
    <3> DEFINE o == [Idle EXCEPT !.kind = "patchCalibration", !.calibration = k,
                                 !.wo = w, !.report = r, !.setWo = sw,
                                 !.setReport = sr]
    <3>1. Start(c, o)
      BY <2>7, Zenon DEF ReadPatchCalibration
    <3>2. o.kind = "patchCalibration"
      BY DEF Idle
    <3> HIDE DEF o
    <3> QED
      BY <2>2, <3>1, <3>2
  <2> QED
    BY <1>2, <2>1, <2>4, <2>5, <2>6, <2>7, SnapshotKinds
<1>3. ASSUME NEW c \in Clients, Finish(c) PROVE op'[d].schedule \in Schedules
  BY <1>3 DEF Finish, TypeOK, SchedulesSent, Idle
<1>4. ASSUME NEW c \in Clients, CheckSubmit(c) PROVE op'[d].schedule \in Schedules
  BY <1>4 DEF CheckSubmit, TypeOK, SchedulesSent, Idle
<1>5. ASSUME NEW c \in Clients, SubmitReport(c) PROVE op'[d].schedule \in Schedules
  BY <1>5 DEF SubmitReport, TypeOK, SchedulesSent
<1> QED
  BY <1>1, <1>2, <1>3, <1>4, <1>5
     DEF Next, Save, MarkSubmitted, PatchSchedule, CreateCalibration,
         PatchCalibration, Refuse, DeleteReport, DeleteCalibration, Rework

\* Every variable stays in its domain, whatever the constants are.
THEOREM RecordsTypeCorrect == Spec => []TypeOK
<1>1. Init => TypeOK /\ SchedulesSent
  BY InitTypes DEF Init, SchedulesSent, Idle
<1>2. TypeOK /\ SchedulesSent /\ [Next]_vars => TypeOK' /\ SchedulesSent'
  BY StepTypes, StepSent
<1> QED
  BY <1>1, <1>2, PTL DEF Spec

-----------------------------------------------------------------------------
(***************************************************************************)
(* A submitted report is frozen                                            *)
(***************************************************************************)

Frozen == \A r \in Reports : report[r].status = "SUBMITTED" => report'[r] = report[r]

\* The three actions that write reports only write new ids and drafts.
LEMMA StepFrozen == TypeOK /\ [Next]_vars => Frozen
<1> SUFFICES ASSUME TypeOK, [Next]_vars, NEW q \in Reports,
                    report[q].status = "SUBMITTED"
             PROVE  report'[q] = report[q]
  BY DEF Frozen
<1> USE DEF TypeOK
<1>1. CASE UNCHANGED report
  BY <1>1
<1>2. ASSUME NEW c \in Clients, Save(c) PROVE report'[q] = report[q]
  <2>1. PICK r \in Reports : SavesAs(c, r)
    BY <1>2, SaveIsDraft
  <2> QED
    BY <2>1, RecordsAssumption DEF SavesAs, None
<1>3. ASSUME NEW c \in Clients, SubmitReport(c) PROVE report'[q] = report[q]
  BY <1>3 DEF SubmitReport
<1>4. ASSUME NEW r \in Reports, DeleteReport(r) PROVE report'[q] = report[q]
  BY <1>4 DEF DeleteReport
<1> QED
  BY <1>1, <1>2, <1>3, <1>4, SnapshotReads
     DEF Next, CheckSubmit, MarkSubmitted, PatchSchedule, CreateCalibration, PatchCalibration, Refuse,
         DeleteCalibration, Rework

\* Once a report is submitted its row and its content stay as they are,
\* whatever requests saw it as a draft.
THEOREM SubmittedFrozen == Spec => SubmittedReportFrozen
<1>1. TypeOK /\ [Next]_vars => [Frozen]_vars
  BY StepFrozen
<1>2. Spec => [][Frozen]_vars
  BY <1>1, RecordsTypeCorrect, PTL DEF Spec
<1> QED
  BY <1>2 DEF SubmittedReportFrozen, Frozen

-----------------------------------------------------------------------------
(***************************************************************************)
(* The links of calibrations resolve                                       *)
(*                                                                         *)
(* A request in flight checked links that may have changed since.  What is *)
(* left of its check: a report it names was created before it, and belongs *)
(* to the work order it names or to none any more; the foreign key refuses *)
(* the latter when it writes.                                              *)
(***************************************************************************)

Named == \A r \in Reports : report[r].wo # None => report[r].status \in {"DRAFT", "SUBMITTED"}

MayLink(w, r) ==
    w # None /\ r # None => report[r].status # None /\ report[r].wo \in {w, None}

NextWo(o) == IF o.setWo THEN o.wo ELSE calibration[o.calibration].wo
NextReport(o) == IF o.setReport THEN o.report ELSE calibration[o.calibration].report

InFlightOK(o) ==
    /\ o.kind = "save" => o.wo # None
    /\ o.kind = "createCalibration" => MayLink(o.wo, o.report)
    /\ o.kind = "patchCalibration" =>
        /\ o.calibration \in Calibrations
        /\ calibration[o.calibration].status # None
        /\ calibration[o.calibration].status = "LIVE" /\ ~crossed[o.calibration]
           => MayLink(NextWo(o), NextReport(o))

LinkInv ==
    /\ Named
    /\ \A c \in Clients : InFlightOK(op[c])
    /\ LinksResolve

\* A report once there stays with its work order or is deleted for good.
Keeps(r) ==
    report[r].status # None =>
        report'[r].status # None /\ report'[r].wo \in {report[r].wo, None}

\* It keeps its work order while a calibration refers to it.
KeepsLinked(r) ==
    (\E k \in Calibrations : calibration[k].status = "LIVE" /\ calibration[k].report = r)
    /\ report[r].wo # None
    => report'[r].wo = report[r].wo

\* What a step makes of the reports.
LEMMA StepReports ==
  ASSUME TypeOK, LinkInv, [Next]_vars
  PROVE  /\ Named'
         /\ \A r \in Reports : Keeps(r) /\ KeepsLinked(r)
<1> USE DEF TypeOK, Named, Keeps, KeepsLinked
<1> DEFINE Goal == Named' /\ \A r \in Reports : Keeps(r) /\ KeepsLinked(r)
<1>1. CASE UNCHANGED report
  BY <1>1 DEF LinkInv
<1>2. ASSUME NEW c \in Clients, Save(c) PROVE Goal
  <2>1. PICK q \in Reports : SavesAs(c, q)
    BY <1>2, SaveIsDraft
  <2>2. report' = [report EXCEPT ![q] =
                    Draft(op[c].wo, op[c].round, op[c].power, op[c].content)]
    BY <2>1 DEF SavesAs
  <2>3. report'[q].wo = op[c].wo /\ report'[q].status = "DRAFT"
    BY <2>2 DEF Draft
  <2>4. \A r \in Reports : r # q => report'[r] = report[r]
    BY <2>2
  <2>5. report[q].status = None => report[q].wo = None
    BY RecordsAssumption DEF LinkInv, None
  <2>6. Named'
    BY <2>3, <2>4 DEF LinkInv
  <2>7. ASSUME NEW r \in Reports PROVE Keeps(r) /\ KeepsLinked(r)
    BY <2>1, <2>3, <2>4, <2>5 DEF SavesAs, None
  <2> QED
    BY <2>6, <2>7
<1>3. ASSUME NEW c \in Clients, SubmitReport(c) PROVE Goal
  <2> DEFINE q == op[c].report
  <2>1. \A r \in Reports : report'[r].wo = report[r].wo
    BY <1>3 DEF SubmitReport, ReportRows
  <2>2. \A r \in Reports : report'[r].status = report[r].status
                           \/ report'[r].status = "SUBMITTED"
    BY <1>3 DEF SubmitReport, ReportRows
  <2> QED
    BY <2>1, <2>2 DEF LinkInv, None
<1>4. ASSUME NEW q \in Reports, DeleteReport(q) PROVE Goal
  <2>1. report'[q].wo = None /\ report'[q].status = "DELETED"
    BY <1>4 DEF DeleteReport, NoReport
  <2>2. \A r \in Reports : r # q => report'[r] = report[r]
    BY <1>4 DEF DeleteReport
  <2>3. ~ \E k \in Calibrations :
            calibration[k].status = "LIVE" /\ calibration[k].report = q
    BY <1>4 DEF DeleteReport
  <2> QED
    BY <2>1, <2>2, <2>3 DEF LinkInv, None
<1> QED
  BY <1>1, <1>2, <1>3, <1>4, SnapshotReads
     DEF Next, CheckSubmit, MarkSubmitted, PatchSchedule, CreateCalibration,
         PatchCalibration, Refuse, DeleteCalibration, Rework

\* While the calibrations stay as they are their links still resolve.
LEMMA StillResolve ==
  ASSUME TypeOK, LinkInv, [Next]_vars, UNCHANGED <<calibration, crossed>>
  PROVE  LinksResolve'
<1> SUFFICES ASSUME NEW k \in Calibrations, calibration[k].status = "LIVE",
                    calibration[k].report # None
             PROVE  LET l == calibration[k] IN
                    /\ report'[l.report].wo # None
                    /\ l.wo # None /\ ~crossed[k] => report'[l.report].wo = l.wo
  BY DEF LinksResolve
<1>1. calibration[k].report \in Reports
  BY DEF TypeOK, CalibrationRows, MaybeReport
<1>2. /\ report[calibration[k].report].wo # None
      /\ calibration[k].wo # None /\ ~crossed[k]
         => report[calibration[k].report].wo = calibration[k].wo
  BY DEF LinkInv, LinksResolve
<1> QED
  BY <1>1, <1>2, StepReports DEF KeepsLinked

\* What a request has checked still holds.
LEMMA StillMay ==
  ASSUME TypeOK, LinkInv, [Next]_vars,
         NEW w \in MaybeWo, NEW r \in MaybeReport, MayLink(w, r)
  PROVE  MayLink(w, r)'
<1>1. CASE w = None \/ r = None
  BY <1>1 DEF MayLink
<1>2. CASE w # None /\ r \in Reports
  BY <1>2, StepReports DEF MayLink, Keeps
<1> QED
  BY <1>1, <1>2 DEF MaybeReport

\* A request whose calibration has the row it had is as good as before.
LEMMA StillInFlight ==
  ASSUME TypeOK, LinkInv, [Next]_vars, NEW d \in Clients, op'[d] = op[d],
         op[d].kind = "patchCalibration" =>
            UNCHANGED <<calibration[op[d].calibration], crossed[op[d].calibration]>>
  PROVE  InFlightOK(op[d])'
<1>1. InFlightOK(op[d])
  BY DEF LinkInv
<1>2. op[d] \in Op
  BY DEF TypeOK
<1>3. op[d].wo \in MaybeWo /\ op[d].report \in MaybeReport
  BY <1>2 DEF Op
<1>4. CASE op[d].kind = "createCalibration"
  <2>1. MayLink(op[d].wo, op[d].report)
    BY <1>1, <1>4 DEF InFlightOK
  <2>2. MayLink(op[d].wo, op[d].report)'
    BY <1>3, <2>1, StillMay DEF MayLink
  <2> QED
    BY <1>4, <2>2 DEF InFlightOK
<1>5. CASE op[d].kind = "patchCalibration"
  <2> DEFINE k == op[d].calibration
             w == NextWo(op[d])
             r == NextReport(op[d])
  <2>1. k \in Calibrations /\ calibration[k].status # None
    BY <1>1, <1>5 DEF InFlightOK
  <2>2. UNCHANGED <<calibration[k], crossed[k]>> /\ w' = w /\ r' = r /\ k' = k
    BY <1>5 DEF NextWo, NextReport
  <2>3. w \in MaybeWo /\ r \in MaybeReport
    BY <1>3, <2>1 DEF NextWo, NextReport, TypeOK, CalibrationRows
  <2>4. ASSUME calibration[k].status = "LIVE", ~crossed[k] PROVE MayLink(w, r)'
    <3>1. MayLink(w, r)
      BY <1>1, <1>5, <2>4 DEF InFlightOK
    <3> QED
      BY <3>1, <2>2, <2>3, StillMay DEF MayLink
  <2> QED
    BY <1>5, <2>1, <2>2, <2>4 DEF InFlightOK
<1>6. CASE op[d].kind \notin {"createCalibration", "patchCalibration"}
  BY <1>1, <1>6 DEF InFlightOK
<1> QED
  BY <1>4, <1>5, <1>6

\* A step that changes one request to one that has no links to write.
LEMMA StepHarmless ==
  ASSUME TypeOK, LinkInv, [Next]_vars, UNCHANGED <<calibration, crossed>>,
         NEW c \in Clients, NEW o, op' = [op EXCEPT ![c] = o],
         o.kind \notin {"save", "createCalibration", "patchCalibration"}
  PROVE  LinkInv'
<1>1. ASSUME NEW d \in Clients PROVE InFlightOK(op[d])'
  <2>1. CASE d = c
    <3>1. op'[d] = o
      BY <2>1 DEF TypeOK
    <3> QED
      BY <3>1 DEF InFlightOK
  <2>2. CASE d # c
    <3>1. op'[d] = op[d]
      BY <2>2 DEF TypeOK
    <3> QED
      BY <3>1, StillInFlight
  <2> QED
    BY <2>1, <2>2
<1> QED
  BY <1>1, StillResolve, StepReports DEF LinkInv

\* A step that changes no request and no calibration.
LEMMA StepSameOp ==
  ASSUME TypeOK, LinkInv, [Next]_vars, UNCHANGED <<op, calibration, crossed>>
  PROVE  LinkInv'
<1>1. ASSUME NEW d \in Clients PROVE InFlightOK(op[d])'
  BY StillInFlight
<1> QED
  BY <1>1, StillResolve, StepReports DEF LinkInv

\* What a handler checks is enough while nothing has happened.
LEMMA AllowedMay ==
  ASSUME TypeOK, Named, NEW w \in MaybeWo, NEW r \in MaybeReport, LinkAllowed(w, r)
  PROVE  MayLink(w, r)
<1> SUFFICES ASSUME w # None, r # None
             PROVE  report[r].status # None /\ report[r].wo \in {w, None}
  BY DEF MayLink
<1>1. r \in Reports /\ report[r].wo = w
  BY DEF LinkAllowed, MaybeReport
<1> QED
  BY <1>1 DEF Named, None

\* The snapshots that have something to write.
LEMMA StepSnapshots ==
  ASSUME TypeOK, LinkInv, [Next]_vars, NEW c \in Clients, Snapshots(c)
  PROVE  LinkInv'
<1>1. UNCHANGED rows
  BY SnapshotReads
<1>2. ASSUME NEW o, Start(c, o), InFlightOK(o)' PROVE LinkInv'
  <2>1. ASSUME NEW d \in Clients PROVE InFlightOK(op[d])'
    <3>1. CASE d = c
      <4>1. op'[d] = o
        BY <1>2, <3>1 DEF TypeOK, Start
      <4> QED
        BY <1>2, <4>1
    <3>2. CASE d # c
      <4>1. op'[d] = op[d]
        BY <1>2, <3>2 DEF TypeOK, Start
      <4> QED
        BY <4>1, <1>1, StillInFlight
    <3> QED
      BY <3>1, <3>2
  <2> QED
    BY <2>1, <1>1, StillResolve, StepReports DEF LinkInv
<1>3. ASSUME NEW w \in WorkOrders, NEW p \in BOOLEAN, NEW x \in Contents,
             ReadSave(c, w, p, x)
      PROVE LinkInv'
  <2>0. PICK n : n = round[w]
    OBVIOUS
  <2> DEFINE o == [Idle EXCEPT !.kind = "save", !.wo = w, !.round = n,
                               !.power = p, !.content = x]
  <2>1. Start(c, o)
    BY <1>3, <2>0, Zenon DEF ReadSave
  <2>2. o.kind = "save" /\ o.wo = w
    BY DEF Idle
  <2>3. w # None
    BY RecordsAssumption DEF RecordsAssumption
  <2> HIDE DEF o
  <2>4. InFlightOK(o)'
    BY <2>2, <2>3 DEF InFlightOK
  <2> QED
    BY <1>2, <2>1, <2>4
<1>4. ASSUME NEW k \in Calibrations, NEW w \in MaybeWo, NEW r \in MaybeReport,
             ReadCreateCalibration(c, k, w, r)
      PROVE LinkInv'
  <2> DEFINE o == [Idle EXCEPT !.kind = "createCalibration", !.calibration = k,
                               !.wo = w, !.report = r]
  <2>1. Start(c, o) /\ LinkAllowed(w, r)
    BY <1>4, Zenon DEF ReadCreateCalibration
  <2>2. o.kind = "createCalibration" /\ o.wo = w /\ o.report = r
    BY DEF Idle
  <2>3. MayLink(w, r)
    BY <2>1, AllowedMay DEF LinkInv
  <2> HIDE DEF o
  <2>4. InFlightOK(o)'
    BY <2>2, <2>3, <1>1 DEF InFlightOK, MayLink
  <2> QED
    BY <1>2, <2>1, <2>4
<1>5. ASSUME NEW k \in Calibrations, NEW sw \in BOOLEAN, NEW w \in MaybeWo,
             NEW sr \in BOOLEAN, NEW r \in MaybeReport,
             ReadPatchCalibration(c, k, sw, w, sr, r)
      PROVE LinkInv'
  <2> DEFINE o == [Idle EXCEPT !.kind = "patchCalibration", !.calibration = k,
                               !.wo = w, !.report = r, !.setWo = sw,
                               !.setReport = sr]
             nw == IF sw THEN w ELSE calibration[k].wo
             nr == IF sr THEN r ELSE calibration[k].report
  <2>1. Start(c, o) /\ LinkAllowed(nw, nr) /\ calibration[k].status = "LIVE"
    BY <1>5, Zenon DEF ReadPatchCalibration
  <2>2. /\ o.kind = "patchCalibration" /\ o.calibration = k
        /\ o.wo = w /\ o.report = r
    BY DEF Idle
  <2>3. o.setWo = sw /\ o.setReport = sr
    BY DEF Idle
  <2>4. nw \in MaybeWo /\ nr \in MaybeReport
    BY DEF TypeOK, CalibrationRows
  <2>5. MayLink(nw, nr)
    BY <2>1, <2>4, AllowedMay DEF LinkInv
  <2> HIDE DEF o
  <2>6. NextWo(o) = nw /\ NextReport(o) = nr
    BY <2>2, <2>3 DEF NextWo, NextReport
  <2>7. NextWo(o)' = nw /\ NextReport(o)' = nr
    BY <2>2, <2>3, <1>1 DEF NextWo, NextReport
  <2>8. MayLink(nw, nr)'
    BY <2>5, <1>1 DEF MayLink
  <2>9. MayLink(NextWo(o), NextReport(o))'
    BY <2>7, <2>8, <1>1 DEF MayLink
  <2>10. InFlightOK(o)'
    BY <2>1, <2>2, <2>9, <1>1 DEF InFlightOK, None
  <2> QED
    BY <1>2, <2>1, <2>10
<1>6. ASSUME NEW o, Start(c, o), o.kind \in {"submit", "patchSchedule"} PROVE LinkInv'
  BY <1>1, <1>6, StepHarmless DEF Start
<1>7. ASSUME NEW w \in WorkOrders, ReadSubmit(c, w) PROVE LinkInv'
  <2> DEFINE o == [Idle EXCEPT !.kind = "submit", !.wo = w, !.round = round[w],
                               !.schedule = schedule[w]]
  <2>1. Start(c, o)
    BY <1>7, Zenon DEF ReadSubmit
  <2>2. o.kind = "submit"
    BY DEF Idle
  <2> HIDE DEF o
  <2> QED
    BY <1>6, <2>1, <2>2
<1>8. ASSUME NEW w \in WorkOrders, NEW s \in Schedules, ReadPatchSchedule(c, w, s)
      PROVE LinkInv'
  <2> DEFINE o == [Idle EXCEPT !.kind = "patchSchedule", !.wo = w, !.schedule = s]
  <2>1. Start(c, o)
    BY <1>8, Zenon DEF ReadPatchSchedule
  <2>2. o.kind = "patchSchedule"
    BY DEF Idle
  <2> HIDE DEF o
  <2> QED
    BY <1>6, <2>1, <2>2
<1> QED
  BY <1>3, <1>4, <1>5, <1>7, <1>8, SnapshotKinds

\* The three actions that write calibrations.
LEMMA StepCreate ==
  ASSUME TypeOK, LinkInv, [Next]_vars, NEW c \in Clients, CreateCalibration(c)
  PROVE  LinkInv'
<1> DEFINE q == op[c].calibration
<1>1. op[c].wo \in MaybeWo /\ op[c].report \in MaybeReport
  BY DEF TypeOK, Op
<1>2. /\ calibration[q].status = None
      /\ calibration' = [calibration EXCEPT ![q] =
                [status |-> "LIVE", wo |-> op[c].wo, report |-> op[c].report]]
      /\ op' = [op EXCEPT ![c] = Idle]
      /\ UNCHANGED <<report, crossed>>
      /\ ReportExists(op[c].report)
      /\ MayLink(op[c].wo, op[c].report)
  BY DEF CreateCalibration, Finish, LinkInv, InFlightOK
<1>3. ASSUME NEW d \in Clients PROVE InFlightOK(op[d])'
  <2>1. CASE d = c
    BY <1>2, <2>1 DEF TypeOK, InFlightOK, Idle
  <2>2. CASE d # c
    <3>1. op'[d] = op[d]
      BY <1>2, <2>2 DEF TypeOK
    <3>2. op[d].kind = "patchCalibration" => op[d].calibration # q
      BY <1>2 DEF LinkInv, InFlightOK
    <3>3. op[d].kind = "patchCalibration" =>
            UNCHANGED <<calibration[op[d].calibration], crossed[op[d].calibration]>>
      BY <1>2, <3>1, <3>2 DEF TypeOK
    <3> QED
      BY <3>1, <3>3, StillInFlight
  <2> QED
    BY <2>1, <2>2
<1>4. LinksResolve'
  <2> SUFFICES ASSUME NEW k \in Calibrations, calibration'[k].status = "LIVE",
                      calibration'[k].report # None
               PROVE  LET l == calibration'[k] IN
                      /\ report'[l.report].wo # None
                      /\ l.wo # None /\ ~crossed'[k] => report'[l.report].wo = l.wo
    BY DEF LinksResolve
  <2>1. CASE k = q
    BY <1>2, <2>1 DEF TypeOK, ReportExists, MayLink
  <2>2. CASE k # q
    BY <1>2, <2>2 DEF TypeOK, LinkInv, LinksResolve
  <2> QED
    BY <2>1, <2>2
<1> QED
  BY <1>3, <1>4, StepReports DEF LinkInv

LEMMA StepPatch ==
  ASSUME TypeOK, LinkInv, [Next]_vars, NEW c \in Clients, PatchCalibration(c)
  PROVE  LinkInv'
<1> DEFINE q == op[c].calibration
           row == [calibration[q] EXCEPT
                        !.wo = IF op[c].setWo THEN op[c].wo ELSE @,
                        !.report = IF op[c].setReport THEN op[c].report ELSE @]
           twice == \E d \in Clients \ {c} :
                        op[d].kind = "patchCalibration" /\ op[d].calibration = q
<1>1. /\ calibration[q].status = "LIVE"
      /\ calibration' = [calibration EXCEPT ![q] = row]
      /\ crossed' = [crossed EXCEPT ![q] = @ \/ twice]
      /\ op' = [op EXCEPT ![c] = Idle]
      /\ UNCHANGED report
      /\ ReportExists(op[c].report)
  <2>1. calibration' = [calibration EXCEPT ![q] = row]
    BY Zenon DEF PatchCalibration
  <2>2. crossed' = [crossed EXCEPT ![q] = @ \/ twice]
    BY Zenon DEF PatchCalibration
  <2>3. /\ calibration[q].status = "LIVE"
        /\ op' = [op EXCEPT ![c] = Idle]
        /\ UNCHANGED report
        /\ ReportExists(op[c].report)
    BY Zenon DEF PatchCalibration, Finish
  <2> HIDE DEF row, twice
  <2> QED
    BY <2>1, <2>2, <2>3
<1>2. /\ q \in Calibrations
      /\ ~crossed[q] => MayLink(NextWo(op[c]), NextReport(op[c]))
  BY <1>1 DEF LinkInv, InFlightOK, PatchCalibration
<1>3. calibration[q] \in CalibrationRows
  BY <1>2 DEF TypeOK
<1>4. /\ row.wo = NextWo(op[c])
      /\ row.report = NextReport(op[c])
      /\ row.status = "LIVE"
  BY <1>1, <1>3 DEF NextWo, NextReport, CalibrationRows
<1> HIDE DEF row, twice
<1>5. /\ calibration'[q] = row
      /\ \A k \in Calibrations : k # q => calibration'[k] = calibration[k]
  BY <1>1, <1>2 DEF TypeOK
<1>6. /\ crossed'[q] = (crossed[q] \/ twice)
      /\ \A k \in Calibrations : k # q => crossed'[k] = crossed[k]
  BY <1>1, <1>2, Zenon DEF TypeOK
<1>7. ASSUME NEW d \in Clients PROVE InFlightOK(op[d])'
  <2>1. CASE d = c
    BY <1>1, <2>1 DEF TypeOK, InFlightOK, Idle
  <2>2. CASE d # c
    <3>1. op'[d] = op[d]
      BY <1>1, <2>2 DEF TypeOK
    <3>2. CASE op[d].kind = "patchCalibration" /\ op[d].calibration = q
      <4>1. crossed'[q]
        BY <1>6, <2>2, <3>2 DEF twice
      <4> QED
        BY <1>2, <1>4, <1>5, <3>1, <3>2, <4>1 DEF InFlightOK, None
    <3>3. CASE op[d].kind = "patchCalibration" /\ op[d].calibration # q
      <4>1. op[d].calibration \in Calibrations
        BY <3>3 DEF LinkInv, InFlightOK
      <4>2. UNCHANGED <<calibration[op[d].calibration], crossed[op[d].calibration]>>
        BY <1>5, <1>6, <3>1, <3>3, <4>1
      <4> QED
        BY <3>1, <4>2, StillInFlight
    <3>4. CASE op[d].kind # "patchCalibration"
      BY <3>1, <3>4, StillInFlight
    <3> QED
      BY <3>2, <3>3, <3>4
  <2> QED
    BY <2>1, <2>2
<1>8. LinksResolve'
  <2> SUFFICES ASSUME NEW k \in Calibrations, calibration'[k].status = "LIVE",
                      calibration'[k].report # None
               PROVE  LET l == calibration'[k] IN
                      /\ report'[l.report].wo # None
                      /\ l.wo # None /\ ~crossed'[k] => report'[l.report].wo = l.wo
    BY DEF LinksResolve
  <2>1. CASE k = q
    <3>1. NextReport(op[c]) # None
      BY <1>4, <1>5, <2>1
    <3>2. report[NextReport(op[c])].wo # None
      BY <1>1, <1>2, <3>1 DEF NextReport, ReportExists, LinkInv, LinksResolve
    <3>3. NextWo(op[c]) # None /\ ~crossed[q]
          => report[NextReport(op[c])].wo = NextWo(op[c])
      BY <1>2, <3>1, <3>2 DEF MayLink
    <3> QED
      <4>1. calibration'[k].wo = NextWo(op[c])
            /\ calibration'[k].report = NextReport(op[c])
        BY <1>4, <1>5, <2>1
      <4>2. ~crossed'[k] => ~crossed[q]
        BY <1>6, <2>1
      <4>3. report' = report
        BY <1>1
      <4> QED
        BY <3>2, <3>3, <4>1, <4>2, <4>3
  <2>2. CASE k # q
    BY <1>1, <1>5, <1>6, <2>2 DEF LinkInv, LinksResolve
  <2> QED
    BY <2>1, <2>2
<1> QED
  BY <1>7, <1>8, StepReports DEF LinkInv

LEMMA StepDelete ==
  ASSUME TypeOK, LinkInv, [Next]_vars, NEW q \in Calibrations, DeleteCalibration(q)
  PROVE  LinkInv'
<1>1. /\ calibration'[q].status = "DELETED"
      /\ \A k \in Calibrations :
            k # q => calibration'[k] = calibration[k] /\ crossed'[k] = crossed[k]
      /\ UNCHANGED <<report, op>>
  BY DEF DeleteCalibration, TypeOK
<1>2. ASSUME NEW d \in Clients PROVE InFlightOK(op[d])'
  <2>1. CASE op[d].kind = "patchCalibration" /\ op[d].calibration = q
    BY <1>1, <2>1 DEF InFlightOK, None
  <2>2. CASE op[d].kind = "patchCalibration" /\ op[d].calibration # q
    <3>1. op[d].calibration \in Calibrations
      BY <2>2 DEF LinkInv, InFlightOK
    <3>2. UNCHANGED <<calibration[op[d].calibration], crossed[op[d].calibration]>>
      BY <1>1, <2>2, <3>1
    <3> QED
      BY <1>1, <3>2, StillInFlight
  <2>3. CASE op[d].kind # "patchCalibration"
    BY <1>1, <2>3, StillInFlight
  <2> QED
    BY <2>1, <2>2, <2>3
<1>3. LinksResolve'
  BY <1>1 DEF LinkInv, LinksResolve
<1> QED
  BY <1>2, <1>3, StepReports DEF LinkInv

\* Every step keeps the invariant.
LEMMA StepLinks == TypeOK /\ LinkInv /\ [Next]_vars => LinkInv'
<1> SUFFICES ASSUME TypeOK, LinkInv, [Next]_vars PROVE LinkInv'
  OBVIOUS
<1>1. CASE UNCHANGED <<op, calibration, crossed>>
  BY <1>1, StepSameOp
<1>2. ASSUME NEW c \in Clients, NEW o, op' = [op EXCEPT ![c] = o],
             o.kind \in {"idle", "submitChecked", "submitted"},
             UNCHANGED <<calibration, crossed>>
      PROVE  LinkInv'
  BY <1>2, StepHarmless
<1>3. ASSUME NEW c \in Clients, Finish(c), UNCHANGED <<calibration, crossed>>
      PROVE  LinkInv'
  BY <1>2, <1>3 DEF Finish, Idle
<1>4. ASSUME NEW c \in Clients, CheckSubmit(c) PROVE LinkInv'
  <2>1. PICK w, r : op' = [op EXCEPT ![c] = [Idle EXCEPT !.kind = "submitChecked",
                                                         !.wo = w, !.report = r]]
    BY <1>4, Zenon DEF CheckSubmit
  <2> DEFINE o == [Idle EXCEPT !.kind = "submitChecked", !.wo = w, !.report = r]
  <2>2. o.kind = "submitChecked"
    BY DEF Idle
  <2> HIDE DEF o
  <2>3. UNCHANGED <<calibration, crossed>>
    BY <1>4 DEF CheckSubmit
  <2>4. op' = [op EXCEPT ![c] = o]
    BY <2>1 DEF o
  <2> QED
    BY <1>2, <2>2, <2>3, <2>4
<1>5. ASSUME NEW c \in Clients, SubmitReport(c) PROVE LinkInv'
  <2>1. PICK u : u = [op[c] EXCEPT !.kind = "submitted", !.report = None]
    OBVIOUS
  <2>2. op' = [op EXCEPT ![c] = u]
    BY <1>5, <2>1, Zenon DEF SubmitReport
  <2>3. u.kind = "submitted"
    BY <2>1 DEF TypeOK, Op
  <2> QED
    BY <1>2, <1>5, <2>2, <2>3 DEF SubmitReport
<1> QED
  BY <1>1, <1>3, <1>4, <1>5, StepSnapshots, StepCreate, StepPatch, StepDelete
     DEF Next, Save, MarkSubmitted, PatchSchedule, Refuse, DeleteReport, Rework

\* A calibration's report exists and is the report of the work order it names,
\* unless two PATCHes of it overlapped.
THEOREM LinksAlwaysResolve == Spec => []LinksResolve
<1>1. Init => LinkInv
  BY RecordsAssumption DEF Init, LinkInv, Named, InFlightOK, Idle, LinksResolve,
     NoReport, None
<1>2. LinkInv => LinksResolve
  BY DEF LinkInv
<1> QED
  BY <1>1, <1>2, StepLinks, RecordsTypeCorrect, PTL DEF Spec
=============================================================================
