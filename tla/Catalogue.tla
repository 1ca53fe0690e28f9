----------------------------- MODULE Catalogue -----------------------------
(***************************************************************************)
(* Master data: panels and their devices, device models, problem topics,   *)
(* checklist items and engineers, and the report rows that name them.      *)
(*                                                                         *)
(* Every kind has the same life: created, patched, deactivated, restored,  *)
(* purged, each by one statement under the constraints of its table.  A    *)
(* report reads the rows it names and inserts its own later; whatever      *)
(* happens to those rows in between meets the foreign keys.  An id whose   *)
(* row is purged is a new row when it is used again.                       *)
(***************************************************************************)
EXTENDS Naturals, FiniteSets

CONSTANTS
    Panels, Devices, Models, Topics, Items, Engineers,  \* ids of each table
    Codes,      \* codes of panels
    FewCodes,   \* bound: the codes and tags given to the other kinds
    Reports,    \* ids of the rows of reports and calibrations that name them
    Clients     \* concurrent HTTP requests

None == "NULL"

Ids == Panels \union Devices \union Models \union Topics \union Items
       \union Engineers

\* Each table has an id column of its own: no id is a row of two of them.
ASSUME CatalogueAssumption ==
    /\ FewCodes \subseteq Codes
    /\ None \notin Codes \union Ids
    /\ Panels \intersect (Devices \union Models \union Topics \union Items \union Engineers) = {}
    /\ Devices \intersect (Models \union Topics \union Items \union Engineers) = {}
    /\ Models \intersect (Topics \union Items \union Engineers) = {}
    /\ Topics \intersect (Items \union Engineers) = {}
    /\ Items \intersect Engineers = {}

VARIABLES
    row,        \* the rows of the six tables, by id
    report,     \* the rows that name a device, a topic, an item or an engineer
    op          \* the requests in flight that insert such a row

vars == <<row, report, op>>

\* One row of master data; only a device has a panel, and an engineer has no code.
NoRow == [state |-> "ABSENT", code |-> None, panel |-> None]
Rows == [state : {"ACTIVE", "INACTIVE"}, code : Codes \union {None},
         panel : Panels \union {None}]
Exists(m) == row[m] # NoRow

\* What a row names: a calibration a device, a CM report a topic, a checklist
\* result an item, a PM report an engineer.
Named == Devices \union Topics \union Items \union Engineers

Idle == [report |-> None, names |-> None]
Op == [report : Reports, names : Named]

KindOf(m) ==
    CASE m \in Panels -> Panels
      [] m \in Devices -> Devices
      [] m \in Models -> Models
      [] m \in Topics -> Topics
      [] m \in Items -> Items
      [] OTHER -> Engineers

-----------------------------------------------------------------------------
(* Constraints *)

\* The unique constraints on a code count deactivated rows too; a tag is unique
\* on its panel; None is SQL's NULL, which never collides.
UniqueAmongActive(m, code, panel) ==
    \A n \in KindOf(m) \ {m} :
        ~(row[n].state = "ACTIVE" /\ code # None
          /\ row[n].code = code /\ row[n].panel = panel)
Unique(m, code, panel) ==
    \A n \in KindOf(m) \ {m} :
        ~(Exists(n) /\ code # None /\ row[n].code = code /\ row[n].panel = panel)

\* ON DELETE RESTRICT of panel_devices, calibrations, cm_reports, checklist_results,
\* pm_reports; WorkOrderNumbers has that of work_orders.
Unreferenced(m) ==
    /\ \A d \in Devices : row[d].panel # m
    /\ \A r \in Reports : report[r] # m

Init ==
    /\ row = [m \in Ids |-> NoRow]
    /\ report = [r \in Reports |-> None]
    /\ op = [c \in Clients |-> Idle]

-----------------------------------------------------------------------------
(* The statements every kind has *)

Insert(m, code, panel, active) ==
    /\ ~Exists(m)
    /\ \A c \in Clients : op[c].names # m
    /\ Unique(m, code, panel)
    /\ row' = [row EXCEPT ![m] =
                  [state |-> IF active THEN "ACTIVE" ELSE "INACTIVE",
                   code |-> code, panel |-> panel]]
    /\ UNCHANGED <<report, op>>

\* A PATCH writes the fields it was sent: here any code and any active flag.
Update(m, code, panel, active) ==
    /\ Exists(m)
    /\ Unique(m, code, panel)
    /\ row' = [row EXCEPT ![m] =
                  [state |-> IF active THEN "ACTIVE" ELSE "INACTIVE",
                   code |-> code, panel |-> panel]]
    /\ UNCHANGED <<report, op>>

SetActive(m, active) ==
    /\ Exists(m)
    /\ row' = [row EXCEPT ![m].state = IF active THEN "ACTIVE" ELSE "INACTIVE"]
    /\ UNCHANGED <<report, op>>

Delete(m) ==
    /\ Exists(m)
    /\ Unreferenced(m)
    /\ row' = [row EXCEPT ![m] = NoRow]
    /\ UNCHANGED <<report, op>>

-----------------------------------------------------------------------------
(* Panels and their devices *)

CreatePanel(p, code, active) == p \in Panels /\ Insert(p, code, None, active)
UpdatePanelAcceptsNull(p, code, active) ==
    p \in Panels /\ Update(p, None, None, active)
UpdatePanel(p, code, active) == p \in Panels /\ Update(p, code, None, active)
SetPanelActive(p, active) == p \in Panels /\ SetActive(p, active)
DeletePanel(p) == p \in Panels /\ Delete(p)

\* fk_panel_devices_panel; nothing asks whether the panel is active.
PanelUnchecked(p) == TRUE
PanelKnown(p) == Exists(p)

CreatePanelDevice(d, tag, p, active) ==
    /\ d \in Devices
    /\ PanelKnown(p)
    /\ Insert(d, tag, p, active)

\* A PATCH may move the device to another panel.
UpdatePanelDevice(d, tag, p, active) ==
    /\ d \in Devices
    /\ PanelKnown(p)
    /\ Update(d, tag, p, active)

SetPanelDeviceActive(d, active) == d \in Devices /\ SetActive(d, active)
DeletePanelDevice(d) == d \in Devices /\ Delete(d)

-----------------------------------------------------------------------------
(* Device models, problem topics, checklist items, engineers *)

CreateDeviceModel(m, code, active) == m \in Models /\ Insert(m, code, None, active)
UpdateDeviceModel(m, code, active) == m \in Models /\ Update(m, code, None, active)
SetDeviceModelActive(m, active) == m \in Models /\ SetActive(m, active)
DeleteDeviceModel(m) == m \in Models /\ Delete(m)

CreateProblemTopic(t, code, active) == t \in Topics /\ Insert(t, code, None, active)
UpdateProblemTopic(t, code, active) == t \in Topics /\ Update(t, code, None, active)
SetProblemTopicActive(t, active) == t \in Topics /\ SetActive(t, active)
DeleteProblemTopic(t) == t \in Topics /\ Delete(t)

CreateChecklistItem(i, code, active) == i \in Items /\ Insert(i, code, None, active)
UpdateChecklistItem(i, code, active) == i \in Items /\ Update(i, code, None, active)
SetChecklistItemActive(i, active) == i \in Items /\ SetActive(i, active)
DeleteChecklistItem(i) == i \in Items /\ Delete(i)

CreateEngineer(e, active) == e \in Engineers /\ Insert(e, None, None, active)
UpdateEngineer(e, active) == e \in Engineers /\ Update(e, None, None, active)
SetEngineerActive(e, active) == e \in Engineers /\ SetActive(e, active)
DeleteEngineer(e) == e \in Engineers /\ Delete(e)

-----------------------------------------------------------------------------
(* The reports that name them *)

Begin(c, r, m) ==
    /\ op[c] = Idle
    /\ report[r] = None
    /\ \A d \in Clients : op[d].report # r
    /\ op' = [op EXCEPT ![c] = [report |-> r, names |-> m]]
    /\ UNCHANGED <<row, report>>

\* resolveProblemTopic: an inactive topic is refused.
ReadTopic(c, r, t) ==
    /\ t \in Topics
    /\ row[t].state = "ACTIVE"
    /\ Begin(c, r, t)

\* checkDeviceUsable: a calibration of an inactive device is refused.
ReadDevice(c, r, d) ==
    /\ d \in Devices
    /\ row[d].state = "ACTIVE"
    /\ Begin(c, r, d)

\* The save of a PM report reads neither the items nor the engineer it names.
SaveChecklist(c, r, i) == i \in Items /\ Begin(c, r, i)
SaveEngineer(c, r, e) == e \in Engineers /\ Begin(c, r, e)

\* The INSERT, under the foreign key.
InsertReportUnchecked(c) ==
    /\ op[c] # Idle
    /\ report' = [report EXCEPT ![op[c].report] = op[c].names]
    /\ op' = [op EXCEPT ![c] = Idle]
    /\ UNCHANGED row
InsertReport(c) ==
    /\ op[c] # Idle
    /\ Exists(op[c].names)
    /\ report' = [report EXCEPT ![op[c].report] = op[c].names]
    /\ op' = [op EXCEPT ![c] = Idle]
    /\ UNCHANGED row

\* A refused or interrupted request; a report that is deleted.
Refuse(c) ==
    /\ op[c] # Idle
    /\ op' = [op EXCEPT ![c] = Idle]
    /\ UNCHANGED <<row, report>>

DeleteReport(r) ==
    /\ report[r] # None
    /\ report' = [report EXCEPT ![r] = None]
    /\ UNCHANGED <<row, op>>

-----------------------------------------------------------------------------
PanelNext ==
    \E p \in Panels :
        \/ \E code \in Codes, active \in BOOLEAN : CreatePanel(p, code, active)
        \/ \E code \in Codes, active \in BOOLEAN : UpdatePanel(p, code, active)
        \/ \E active \in BOOLEAN : SetPanelActive(p, active)
        \/ DeletePanel(p)

DeviceNext ==
    \E d \in Devices :
        \/ \E tag \in FewCodes \union {None}, p \in Panels, active \in BOOLEAN :
               CreatePanelDevice(d, tag, p, active)
        \/ \E tag \in FewCodes \union {None}, p \in Panels, active \in BOOLEAN :
               UpdatePanelDevice(d, tag, p, active)
        \/ \E active \in BOOLEAN : SetPanelDeviceActive(d, active)
        \/ DeletePanelDevice(d)

ModelNext ==
    \E m \in Models :
        \/ \E code \in FewCodes, active \in BOOLEAN : CreateDeviceModel(m, code, active)
        \/ \E code \in FewCodes, active \in BOOLEAN : UpdateDeviceModel(m, code, active)
        \/ \E active \in BOOLEAN : SetDeviceModelActive(m, active)
        \/ DeleteDeviceModel(m)

TopicNext ==
    \E t \in Topics :
        \/ \E code \in FewCodes, active \in BOOLEAN : CreateProblemTopic(t, code, active)
        \/ \E code \in FewCodes, active \in BOOLEAN : UpdateProblemTopic(t, code, active)
        \/ \E active \in BOOLEAN : SetProblemTopicActive(t, active)
        \/ DeleteProblemTopic(t)

ItemNext ==
    \E i \in Items :
        \/ \E code \in FewCodes, active \in BOOLEAN : CreateChecklistItem(i, code, active)
        \/ \E code \in FewCodes, active \in BOOLEAN : UpdateChecklistItem(i, code, active)
        \/ \E active \in BOOLEAN : SetChecklistItemActive(i, active)
        \/ DeleteChecklistItem(i)

EngineerNext ==
    \E e \in Engineers :
        \/ \E active \in BOOLEAN : CreateEngineer(e, active)
        \/ \E active \in BOOLEAN : UpdateEngineer(e, active)
        \/ \E active \in BOOLEAN : SetEngineerActive(e, active)
        \/ DeleteEngineer(e)

ReportNext ==
    \/ \E c \in Clients, r \in Reports, t \in Topics : ReadTopic(c, r, t)
    \/ \E c \in Clients, r \in Reports, d \in Devices : ReadDevice(c, r, d)
    \/ \E c \in Clients, r \in Reports, i \in Items : SaveChecklist(c, r, i)
    \/ \E c \in Clients, r \in Reports, e \in Engineers : SaveEngineer(c, r, e)
    \/ \E c \in Clients : InsertReport(c)
    \/ \E c \in Clients : Refuse(c)
    \/ \E r \in Reports : DeleteReport(r)

Next ==
    \/ PanelNext
    \/ DeviceNext
    \/ ModelNext
    \/ TopicNext
    \/ ItemNext
    \/ EngineerNext
    \/ ReportNext

Spec == Init /\ [][Next]_vars

-----------------------------------------------------------------------------
(* Properties *)

\* Rows and requests stay in their domains: a device has a panel, nothing else has
\* one, an engineer has no code and every other row but a device has one.
TypeOK ==
    /\ row \in [Ids -> Rows \union {NoRow}]
    /\ report \in [Reports -> Named \union {None}]
    /\ op \in [Clients -> Op \union {Idle}]
    /\ \A m \in Ids : Exists(m) => (row[m].panel # None <=> m \in Devices)
    /\ \A m \in Ids \ (Devices \union Engineers) : Exists(m) => row[m].code # None

\* A code names one row of its table and a tag one device of its panel, through
\* deactivation, restore, PATCH and a move to another panel.
CodesUnique ==
    \A m \in Ids : \A n \in KindOf(m) \ {m} :
        (Exists(m) /\ Exists(n) /\ row[m].code # None /\ row[m].panel = row[n].panel)
            => row[m].code # row[n].code

\* "It fails while devices are attached" (panel.go:116) and its likes: a purge
\* never leaves a device without its panel or a report without the row it names,
\* although the report's request had read that row before the purge.
NamedRowsExist ==
    /\ \A d \in Devices : Exists(d) => Exists(row[d].panel)
    /\ \A r \in Reports : report[r] # None => Exists(report[r])
=============================================================================
