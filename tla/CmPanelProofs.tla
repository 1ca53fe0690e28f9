---------------------------- MODULE CmPanelProofs ----------------------------
(***************************************************************************)
(* Type correctness of CmPanel, and that the advisory lock keeps open CMs  *)
(* on different topics, for every set of work orders, topics, devices and  *)
(* clients and any number of rounds.                                       *)
(***************************************************************************)
EXTENDS CmPanel, TLAPS

USE DEF vars, woRow, history

-----------------------------------------------------------------------------
(***************************************************************************)
(* Requests                                                                *)
(***************************************************************************)

\* What a transaction writes on the devices.
DeviceRow == [Devices -> Healths \union {None}]

\* The requests that carry a report, and those whose transaction always holds
\* the row of the work order.
ReportKinds == {"create", "pmCreate", "pmRepair", "saveReport", "patchReport"}
RowKinds == {"create", "pmCreate"} \union Decisions

\* The requests whose transaction has looked for a conflict.
SearchedKinds == LockedKinds \ {"pmRepair"}

\* A request that carries a report has its topic, and one that sends the work
\* order back leaves room for a round.
Sound(r) ==
    /\ r.kind \in ReportKinds => r.topic \in Topics
    /\ r.kind = "REJECTED" => r.rnd < MaxRounds

RequestsSound == \A c \in Clients : op[c] # Idle => Sound(op[c])

\* The topics a transaction adds to the work order it names.
Added(r) == IF r.kind = "patchTopics" THEN r.in \ topics[r.wo] ELSE r.in

\* A request that is not idle has all its fields.
LEMMA Busy ==
  ASSUME TypeOK, NEW c \in Clients, op[c] # Idle \/ op[c].stage # "idle"
  PROVE  op[c] \in Op /\ op[c] # Idle
  BY DEF TypeOK, Idle, Op

LEMMA InputTyped ==
  ASSUME NEW w \in WorkOrders, NEW i \in Inputs(w)
  PROVE  i[1] \in SUBSET Topics /\ i[2] \in Topics
  BY PanelAssumption DEF Inputs

LEMMA ListTyped ==
  ASSUME NEW w \in WorkOrders, NEW T \in TopicLists[w]
  PROVE  T \in SUBSET Topics
  BY PanelAssumption

\* The device writes have their type.
LEMMA DeviceRows ==
  ASSUME NEW p \in MaybeDevice, NEW d \in MaybeDevice, NEW w,
         NEW hp \in Healths \union {None}, NEW hd \in Healths \union {None}
  PROVE  /\ NoWrites \in DeviceRow
         /\ Writes(p, hp, d, hd) \in DeviceRow
  BY DEF NoWrites, Writes, DeviceRow

LEMMA SyncRows ==
  ASSUME NEW w, NEW p, NEW new, NEW rep, NEW seen, NEW own, NEW kind
  PROVE  /\ RecalcDevice(w, p, own) \in DeviceRow
         /\ ReportSaveSync(seen, w, p, new, rep, own) \in DeviceRow
         /\ CloseSync(w, new, kind) \in DeviceRow
<1>1. \A q, b : Recalc(q, b) \in Healths \union {None}
  BY DEF Recalc, Healths
<1>2. \A b : RecalcDevice(w, p, b) \in DeviceRow
  BY <1>1 DEF RecalcDevice, NoWrites, Writes, DeviceRow
<1>3. ReportSaveSync(seen, w, p, new, rep, own) \in DeviceRow
  <2> DEFINE mine == own /\ Coalesce(rep, woDevice[w]) = p
             old == IF p # new THEN RecalcDevice(w, p, mine) ELSE NoWrites
  <2>1. old \in DeviceRow BY <1>2 DEF NoWrites, DeviceRow
  <2>2. ReportSaveSync(seen, w, p, new, rep, own) =
            IF ~seen THEN NoWrites
            ELSE [x \in Devices |-> IF x = new THEN "WARNING" ELSE old[x]]
    BY DEF ReportSaveSync
  <2> HIDE DEF old
  <2> QED BY <2>1, <2>2 DEF NoWrites, DeviceRow, Healths
<1> QED BY <1>2, <1>3 DEF CloseSync, Writes, DeviceRow, Healths

-----------------------------------------------------------------------------
(***************************************************************************)
(* How a step moves the requests                                           *)
(***************************************************************************)

\* Only the request of c moves.
OnlyMoves(c) == op' \in [Clients -> Op \union {Idle}]
                /\ \A o \in Clients \ {c} : op'[o] = op[o]

\* It enters its transaction, with the locks it takes ...
Enters(c) ==
    LET r == op'[c] IN
    /\ OnlyMoves(c)
    /\ r \in Op /\ Sound(r) /\ r.stage = "tx"
    /\ r.kind \in LockedKinds => PanelLockFree(c)
    /\ r.holdsRow => RowFree(r.wo)
    /\ r.kind \in RowKinds => r.holdsRow
    /\ r.kind = "REJECTED" => r.rnd = round[r.wo]
    /\ r.kind \in SearchedKinds => ~Conflict(r.wo, Added(r))
    /\ UNCHANGED <<woRow, topics, report, health, history>>

\* ... or it is outside one afterwards.
Leaves(c) ==
    /\ OnlyMoves(c)
    /\ \/ op'[c] = Idle
       \/ op'[c] \in Op /\ Sound(op'[c]) /\ op'[c].stage # "tx"

\* A transaction begins with the fields its request had.
LEMMA BeginMoves ==
  ASSUME TypeOK, NEW c \in Clients, op[c].stage \in {"snapshot", "committed"},
         NEW h \in BOOLEAN, NEW wr \in DeviceRow, Begin(c, h, wr)
  PROVE  /\ OnlyMoves(c) /\ op'[c] \in Op
         /\ op'[c].kind = op[c].kind /\ op'[c].stage = "tx" /\ op'[c].wo = op[c].wo
         /\ op'[c].rnd = op[c].rnd /\ op'[c].in = op[c].in
         /\ op'[c].topic = op[c].topic /\ op'[c].holdsRow = h /\ op'[c].writes = wr
         /\ h => RowFree(op[c].wo)
         /\ UNCHANGED <<woRow, topics, report, health, history>>
<1> DEFINE r == [op[c] EXCEPT !.stage = "tx", !.st = None, !.prev = None,
                              !.holdsRow = h, !.writes = wr]
<1>1. op[c] \in Op BY Busy
<1>2. op \in [Clients -> Op \union {Idle}] BY DEF TypeOK
<1>3. op' = [op EXCEPT ![c] = r] BY DEF Begin
<1>4. /\ r.kind = op[c].kind /\ r.stage = "tx" /\ r.wo = op[c].wo
      /\ r.rnd = op[c].rnd /\ r.in = op[c].in
      /\ r.topic = op[c].topic /\ r.holdsRow = h /\ r.writes = wr
  BY <1>1 DEF Op
<1>5. r \in Op
  BY <1>1 DEF Op, MaybeDevice, DeviceRow
<1> HIDE DEF r
<1>6. op'[c] = r /\ OnlyMoves(c) BY <1>2, <1>3, <1>5 DEF OnlyMoves
<1> QED BY <1>4, <1>5, <1>6 DEF Begin

\* A request that begins with its transaction.
LEMMA AloneMoves ==
  ASSUME TypeOK, NEW c \in Clients, NEW w \in WorkOrders,
         NEW kind \in {"create", "pmCreate", "cancel", "restore"},
         NEW T \in SUBSET Topics, NEW t \in Topics \union {None},
         NEW d \in MaybeDevice, NEW wr \in DeviceRow,
         BeginAlone(c, kind, w, T, t, d, wr)
  PROVE  /\ OnlyMoves(c) /\ op'[c] \in Op
         /\ op'[c].kind = kind /\ op'[c].stage = "tx" /\ op'[c].wo = w
         /\ op'[c].in = T /\ op'[c].topic = t /\ op'[c].holdsRow
         /\ op'[c].dev = d /\ op'[c].writes = wr
         /\ RowFree(w)
         /\ UNCHANGED <<woRow, topics, report, health, history>>
<1> DEFINE r == [kind |-> kind, stage |-> "tx", wo |-> w, st |-> None, rnd |-> 1,
                 prev |-> None, in |-> T, topic |-> t, dev |-> d,
                 holdsRow |-> TRUE, writes |-> wr]
<1>1. op \in [Clients -> Op \union {Idle}] BY DEF TypeOK
<1>2. op' = [op EXCEPT ![c] = r] BY DEF BeginAlone
<1>3. r \in Op BY DEF Op, MaybeDevice, DeviceRow, LockedKinds
<1>4. /\ r.kind = kind /\ r.stage = "tx" /\ r.wo = w
      /\ r.in = T /\ r.topic = t /\ r.holdsRow /\ r.dev = d /\ r.writes = wr
  OBVIOUS
<1> HIDE DEF r
<1>5. op'[c] = r /\ OnlyMoves(c) BY <1>1, <1>2, <1>3 DEF OnlyMoves
<1> QED BY <1>3, <1>4, <1>5 DEF BeginAlone

\* A request that begins with a snapshot.
LEMMA SnapshotMoves ==
  ASSUME TypeOK, NEW c \in Clients, NEW w \in WorkOrders,
         NEW kind \in {"saveReport", "patchReport", "patchTopics", "patchDevice"}
                      \union Decisions,
         NEW st \in Statuses \union {None}, NEW p \in MaybeDevice,
         NEW T \in SUBSET Topics, NEW t \in Topics \union {None},
         NEW d \in MaybeDevice,
         kind \in ReportKinds => t \in Topics,
         kind = "REJECTED" => round[w] < MaxRounds,
         Snapshot(c, kind, w, st, p, T, t, d)
  PROVE  Leaves(c) /\ UNCHANGED <<woRow, topics, report, health, history>>
<1> DEFINE r == [kind |-> kind, stage |-> "snapshot", wo |-> w, st |-> st,
                 rnd |-> round[w], prev |-> p, in |-> T, topic |-> t,
                 dev |-> d, holdsRow |-> FALSE, writes |-> NoWrites]
<1>1. op \in [Clients -> Op \union {Idle}] /\ round[w] \in Nat
  BY PanelAssumption DEF TypeOK
<1>2. op' = [op EXCEPT ![c] = r] BY DEF Snapshot
<1>3. r \in Op BY <1>1 DEF Op, LockedKinds, NoWrites
<1>4. r.kind = kind /\ r.stage = "snapshot" /\ r.topic = t /\ r.rnd = round[w]
  OBVIOUS
<1>5. Sound(r) BY <1>4 DEF Sound
<1> HIDE DEF r
<1>6. op'[c] = r /\ OnlyMoves(c) BY <1>1, <1>2, <1>3 DEF OnlyMoves
<1> QED BY <1>3, <1>4, <1>5, <1>6 DEF Leaves, Snapshot

\* A request that ends.
LEMMA FinishMoves ==
  ASSUME TypeOK, NEW c \in Clients, Finish(c)
  PROVE  Leaves(c)
  BY DEF TypeOK, Finish, Leaves, OnlyMoves

\* A refused request changes nothing but itself.
LEMMA RefuseMoves ==
  ASSUME TypeOK, NEW c \in Clients, Refuse(c)
  PROVE  Leaves(c) /\ UNCHANGED <<woRow, topics, report, health, history>>
  BY FinishMoves DEF Refuse

\* The columns the lemmas ask for.
LEMMA Columns ==
  ASSUME TypeOK, NEW w \in WorkOrders
  PROVE  /\ status[w] \in Statuses \union {None}
         /\ report[w].device \in MaybeDevice /\ woDevice[w] \in MaybeDevice
         /\ EffectiveDevice(w) \in MaybeDevice
         /\ \A rep \in Reports \union {NoReport} : \A d \in MaybeDevice :
                Coalesce(rep, d) \in MaybeDevice
         /\ {} \in SUBSET Topics
         /\ None \in MaybeDevice /\ None \in Topics \union {None}
         /\ None \in Statuses \union {None}
  BY DEF TypeOK, EffectiveDevice, Coalesce, Reports, NoReport, MaybeDevice

\* The handlers that begin with a snapshot.
LEMMA SnapshotsMove ==
  ASSUME TypeOK, NEW c \in Clients, Snapshots(c)
  PROVE  Leaves(c) /\ UNCHANGED <<woRow, topics, report, health, history>>
<1>1. ASSUME NEW w \in WorkOrders, NEW i \in Inputs(w), NEW d \in MaybeDevice,
             Snapshot(c, "saveReport", w, status[w], report[w].device, i[1], i[2], d)
      PROVE  Leaves(c) /\ UNCHANGED <<woRow, topics, report, health, history>>
  BY <1>1, InputTyped, Columns, SnapshotMoves
<1>2. ASSUME NEW w \in WorkOrders, NEW i \in Inputs(w),
             Snapshot(c, "patchReport", w, None, None, i[1], i[2], None)
      PROVE  Leaves(c) /\ UNCHANGED <<woRow, topics, report, health, history>>
  BY <1>2, InputTyped, Columns, SnapshotMoves
<1>3. ASSUME NEW w \in WorkOrders, NEW T \in TopicLists[w], ReadPatchTopics(c, w, T)
      PROVE  Leaves(c) /\ UNCHANGED <<woRow, topics, report, health, history>>
  BY <1>3, ListTyped, Columns, SnapshotMoves DEF ReadPatchTopics, ReportKinds
<1>4. ASSUME NEW w \in WorkOrders, NEW d \in MaybeDevice,
             Snapshot(c, "patchDevice", w, None, woDevice[w], {}, None, d)
      PROVE  Leaves(c) /\ UNCHANGED <<woRow, topics, report, health, history>>
  BY <1>4, Columns, SnapshotMoves DEF ReportKinds
<1>5. ASSUME NEW w \in WorkOrders, NEW d \in Decisions, ReadDecide(c, w, d)
      PROVE  Leaves(c) /\ UNCHANGED <<woRow, topics, report, health, history>>
  BY <1>5, Columns, SnapshotMoves DEF ReadDecide, ReportKinds, Decisions
<1> QED
  BY <1>1, <1>2, <1>3, <1>4, <1>5 DEF Snapshots

\* The transactions that begin.
LEMMA BeginsMove ==
  ASSUME TypeOK, RequestsSound, NEW c \in Clients,
         \/ \E w \in WorkOrders : \E i \in Inputs(w), d \in MaybeDevice,
              kind \in {"create", "pmCreate"} : BeginCreate(c, kind, w, i[1], i[2], d)
         \/ BeginRepair(c)
         \/ \E begins \in BOOLEAN : BeginSaveReport(c, begins)
         \/ BeginPatchReport(c) \/ BeginPatchTopics(c) \/ BeginDeviceSync(c)
         \/ BeginDecide(c)
         \/ \E w \in WorkOrders : BeginCancel(c, w) \/ BeginRestore(c, w)
  PROVE  /\ Enters(c) \/ Leaves(c)
         /\ UNCHANGED <<woRow, topics, report, health, history>>
<1>r. op[c].stage # "idle" => op[c] \in Op /\ Sound(op[c]) BY Busy DEF RequestsSound
<1>w. NoWrites \in DeviceRow BY DEF NoWrites, DeviceRow
<1>1. ASSUME NEW w \in WorkOrders, NEW i \in Inputs(w), NEW d \in MaybeDevice,
             NEW kind \in {"create", "pmCreate"}, BeginCreate(c, kind, w, i[1], i[2], d)
      PROVE  Enters(c)
  <2>1. Writes(None, None, d, "WARNING") \in DeviceRow
    BY Columns, DeviceRows DEF Healths
  <2>2. BeginAlone(c, kind, w, i[1], i[2], d, Writes(None, None, d, "WARNING"))
        /\ PanelLockFree(c) /\ ~Conflict(w, i[1])
    BY <1>1 DEF BeginCreate
  <2>3. i[1] \in SUBSET Topics /\ i[2] \in Topics BY InputTyped
  <2>4. /\ OnlyMoves(c) /\ op'[c] \in Op
        /\ op'[c].kind = kind /\ op'[c].stage = "tx" /\ op'[c].wo = w
        /\ op'[c].in = i[1] /\ op'[c].topic = i[2] /\ op'[c].holdsRow
        /\ RowFree(w)
        /\ UNCHANGED <<woRow, topics, report, health, history>>
    BY <2>1, <2>2, <2>3, AloneMoves
  <2> QED BY <2>2, <2>3, <2>4 DEF Enters, Sound, Added
<1>2. CASE BeginRepair(c)
  <2>1. PICK wr \in DeviceRow : Begin(c, FALSE, wr)
    BY <1>2, SyncRows DEF BeginRepair
  <2>2. op[c].stage = "snapshot" /\ op[c].kind = "pmRepair" /\ PanelLockFree(c)
    BY <1>2 DEF BeginRepair, Reading, In
  <2> QED BY <2>1, <2>2, <1>r, BeginMoves DEF Enters, Sound, RowKinds, SearchedKinds, Decisions
<1>3. ASSUME NEW begins \in BOOLEAN, BeginSaveReport(c, begins)
      PROVE  (Enters(c) \/ Leaves(c)) /\ UNCHANGED <<woRow, topics, report, health, history>>
  <2>1. CASE Conflict(op[c].wo, op[c].in)
    BY <1>3, <2>1, RefuseMoves DEF BeginSaveReport
  <2>2. CASE ~Conflict(op[c].wo, op[c].in)
    <3>1. PICK wr \in DeviceRow : Begin(c, begins, wr)
      BY <1>3, <2>2, SyncRows DEF BeginSaveReport
    <3>2. op[c].stage = "snapshot" /\ op[c].kind = "saveReport" /\ PanelLockFree(c)
      BY <1>3 DEF BeginSaveReport, Reading, In
    <3> QED BY <2>2, <3>1, <3>2, <1>r, BeginMoves DEF Enters, Sound, Added, RowKinds, Decisions
  <2> QED BY <2>1, <2>2
<1>4. CASE BeginPatchReport(c)
  <2>1. CASE Conflict(op[c].wo, op[c].in)
    BY <1>4, <2>1, RefuseMoves DEF BeginPatchReport
  <2>2. CASE ~Conflict(op[c].wo, op[c].in)
    BY <1>4, <2>2, <1>r, <1>w, BeginMoves
       DEF BeginPatchReport, Reading, In, Enters, Sound, Added, RowKinds, Decisions
  <2> QED BY <2>1, <2>2
<1>5. CASE BeginPatchTopics(c)
  <2>1. CASE Conflict(op[c].wo, op[c].in \ topics[op[c].wo])
    BY <1>5, <2>1, RefuseMoves DEF BeginPatchTopics
  <2>2. CASE ~Conflict(op[c].wo, op[c].in \ topics[op[c].wo])
    BY <1>5, <2>2, <1>r, <1>w, BeginMoves
       DEF BeginPatchTopics, Reading, In, Enters, Sound, Added, RowKinds, Decisions,
           ReportKinds
  <2> QED BY <2>1, <2>2
<1>6. CASE BeginDeviceSync(c)
  <2>1. CASE status[op[c].wo] \notin OpenStatuses
    BY <1>6, <2>1, RefuseMoves DEF BeginDeviceSync
  <2>2. CASE status[op[c].wo] \in OpenStatuses
    <3> DEFINE new == woDevice[op[c].wo]
               old == IF op[c].prev # new
                      THEN RecalcDevice(op[c].wo, op[c].prev, Open(op[c].wo)
                                  /\ EffectiveDevice(op[c].wo) = op[c].prev)
                      ELSE NoWrites
               wr == [x \in Devices |-> IF x = new THEN "WARNING" ELSE old[x]]
    <3>1. Begin(c, FALSE, wr) BY <1>6, <2>2 DEF BeginDeviceSync
    <3>2. old \in DeviceRow BY <1>w, SyncRows
    <3>3. wr \in DeviceRow
      <4> HIDE DEF old, new
      <4> QED BY <3>2 DEF DeviceRow, Healths
    <3>4. op[c].stage = "committed" /\ op[c].kind = "patchDevice"
      BY <1>6 DEF BeginDeviceSync, In
    <3> HIDE DEF wr
    <3> QED
      BY <3>1, <3>3, <3>4, <1>r, BeginMoves
         DEF Enters, Sound, LockedKinds, SearchedKinds, RowKinds, Decisions, ReportKinds
  <2> QED BY <2>1, <2>2
<1>7. CASE BeginDecide(c)
  <2>1. op[c].stage = "snapshot" /\ op[c].kind \in Decisions
    BY <1>7 DEF BeginDecide
  <2>2. CASE op[c].rnd # round[op[c].wo] \/ decided[op[c].wo]
    BY <1>7, <2>2, RefuseMoves DEF BeginDecide
  <2>3. CASE ~(op[c].rnd # round[op[c].wo] \/ decided[op[c].wo])
    <3>1. PICK wr \in DeviceRow : Begin(c, TRUE, wr)
      BY <1>7, <2>3, <1>w, SyncRows DEF BeginDecide
    <3> QED
      BY <3>1, <2>1, <2>3, <1>r, BeginMoves
         DEF Enters, Sound, LockedKinds, SearchedKinds, Decisions, ReportKinds
  <2> QED BY <2>2, <2>3
<1>8. ASSUME NEW w \in WorkOrders, BeginCancel(c, w) \/ BeginRestore(c, w)
      PROVE  Enters(c)
  <2>1. ASSUME NEW kind \in {"cancel", "restore"}, NEW wr \in DeviceRow,
               BeginAlone(c, kind, w, {}, None, None, wr)
        PROVE  Enters(c)
    BY <2>1, Columns, AloneMoves
       DEF Enters, Sound, LockedKinds, SearchedKinds, RowKinds, Decisions, ReportKinds
  <2>2. Writes(None, None, EffectiveDevice(w), "WARNING") \in DeviceRow
    BY Columns, DeviceRows DEF Healths
  <2>3. \E wr \in DeviceRow : \/ BeginAlone(c, "cancel", w, {}, None, None, wr)
                              \/ BeginAlone(c, "restore", w, {}, None, None, wr)
    BY <1>8, <2>2, <1>w, SyncRows DEF BeginCancel, BeginRestore
  <2> QED BY <2>1, <2>3
<1> QED
  BY <1>1, <1>2, <1>3, <1>4, <1>5, <1>6, <1>7, <1>8 DEF Enters

\* The steps that end a request's transaction or come after it.
LEMMA CommitsMove ==
  ASSUME TypeOK, RequestsSound, NEW c \in Clients,
         \/ CommitCreate(c) \/ ReadRepair(c) \/ CommitReport(c)
         \/ CommitPatchReport(c) \/ CommitPatchTopics(c) \/ PatchDevice(c)
         \/ CommitDeviceSync(c) \/ CommitDecide(c) \/ CommitSetActive(c)
  PROVE  Leaves(c)
<1>r. op[c].stage # "idle" => op[c] \in Op /\ Sound(op[c]) BY Busy DEF RequestsSound
<1>o. op \in [Clients -> Op \union {Idle}] /\ \A w \in WorkOrders : round[w] \in Nat
  BY PanelAssumption DEF TypeOK
<1>1. CASE Finish(c) BY <1>1, FinishMoves
<1>2. CASE CommitCreate(c) /\ op[c].kind = "pmCreate"
  <2> DEFINE r == [op[c] EXCEPT !.stage = "committed", !.holdsRow = FALSE]
  <2>1. op[c].stage = "tx" BY <1>2 DEF CommitCreate, Writing, In
  <2>2. op' = [op EXCEPT ![c] = r]
    BY <1>2, <1>o DEF CommitCreate
  <2>3. r \in Op /\ r.stage = "committed" /\ r.kind = "pmCreate" /\ r.topic = op[c].topic
    BY <1>2, <2>1, <1>r DEF Op
  <2> HIDE DEF r
  <2>4. op'[c] = r /\ OnlyMoves(c) BY <2>2, <2>3, <1>o DEF OnlyMoves
  <2> QED BY <1>2, <2>1, <2>3, <2>4, <1>r DEF Leaves, Sound
<1>3. CASE ReadRepair(c) /\ report[op[c].wo] # NoReport
  <2> DEFINE w == op[c].wo
             r == [op[c] EXCEPT !.kind = "pmRepair", !.stage = "snapshot",
                     !.rnd = round[w], !.prev = report[w].device, !.writes = NoWrites]
  <2>1. op[c].stage = "committed" /\ op[c].kind = "pmCreate"
    BY <1>3 DEF ReadRepair, In
  <2>2. op' = [op EXCEPT ![c] = r] BY <1>3 DEF ReadRepair
  <2>3. round[w] \in Nat /\ report[w].device \in MaybeDevice
    BY <2>1, <1>r, <1>o, Columns DEF Op
  <2>4. /\ r \in Op /\ r.stage = "snapshot" /\ r.kind = "pmRepair"
        /\ r.topic = op[c].topic
    BY <2>1, <2>3, <1>r DEF Op, LockedKinds, NoWrites
  <2> HIDE DEF r
  <2>5. op'[c] = r /\ OnlyMoves(c) BY <2>2, <2>4, <1>o DEF OnlyMoves
  <2> QED BY <2>1, <2>4, <2>5, <1>r DEF Leaves, Sound, ReportKinds
<1>4. CASE PatchDevice(c)
  <2> DEFINE r == [op[c] EXCEPT !.stage = "committed", !.dev = None]
  <2>1. op[c].stage = "snapshot" /\ op[c].kind = "patchDevice"
    BY <1>4 DEF PatchDevice, Reading, In
  <2>2. op' = [op EXCEPT ![c] = r] BY <1>4, <1>o DEF PatchDevice
  <2>3. r \in Op /\ r.stage = "committed" /\ r.kind = "patchDevice"
    BY <2>1, <1>r DEF Op, MaybeDevice
  <2> HIDE DEF r
  <2>4. op'[c] = r /\ OnlyMoves(c) BY <2>2, <2>3, <1>o DEF OnlyMoves
  <2> QED BY <2>3, <2>4 DEF Leaves, Sound, ReportKinds
<1> QED
  BY <1>1, <1>2, <1>3, <1>4
     DEF CommitCreate, ReadRepair, CommitReport, CommitPatchReport, Refuse,
         CommitPatchTopics, CommitDeviceSync, CommitDecide, CommitSetActive, Writing, In

\* The statements that belong to no request in flight.
Statements ==
    \/ \E w \in WorkOrders :
        \/ \E d \in MaybeDevice : PatchReportDevice(w, d)
        \/ DeleteReport(w)
        \/ Submit(w)
    \/ \E d \in Devices, h \in Healths : RecordStatus(d, h)

\* Every step moves at most one request.
LEMMA NextMoves ==
  TypeOK /\ RequestsSound /\ [Next]_vars
      => op' = op \/ \E c \in Clients : Enters(c) \/ Leaves(c)
<1>1. Statements => op' = op
  BY DEF Statements, PatchReportDevice, DeleteReport, Submit, RecordStatus
<1> QED
  BY <1>1, SnapshotsMove, BeginsMove, CommitsMove DEF Next, Statements

-----------------------------------------------------------------------------
(***************************************************************************)
(* The rows keep their types                                               *)
(***************************************************************************)

\* What a request that sends the work order back has checked still holds, and a
\* transaction that changes a work order's round or creates it holds its row.
RowsHeld ==
    \A c \in Clients : op[c].stage = "tx" =>
        /\ op[c].kind \in RowKinds => op[c].holdsRow
        /\ op[c].kind = "REJECTED" => op[c].rnd = round[op[c].wo]

\* Two transactions never hold the row of one work order.
RowExclusive ==
    \A c, d \in Clients :
        /\ c # d /\ op[c].stage = "tx" /\ op[d].stage = "tx"
        /\ op[c].holdsRow /\ op[d].holdsRow
        => op[c].wo # op[d].wo

\* Two transactions never hold the lock of the panel.
LockExclusive ==
    \A c, d \in Clients :
        /\ c # d /\ op[c].stage = "tx" /\ op[d].stage = "tx"
        => op[c].kind \notin LockedKinds \/ op[d].kind \notin LockedKinds

LEMMA LocksKept ==
  TypeOK /\ RequestsSound /\ RowExclusive /\ LockExclusive /\ [Next]_vars
      => RequestsSound' /\ RowExclusive' /\ LockExclusive'
<1> SUFFICES ASSUME TypeOK, RequestsSound, RowExclusive, LockExclusive, [Next]_vars
             PROVE  RequestsSound' /\ RowExclusive' /\ LockExclusive'
  OBVIOUS
<1>i. Idle.stage # "tx" BY DEF Idle
<1>1. ASSUME NEW c \in Clients, Leaves(c)
      PROVE  RequestsSound' /\ RowExclusive' /\ LockExclusive'
  BY <1>1, <1>i DEF Leaves, OnlyMoves, RequestsSound, RowExclusive, LockExclusive, Sound
<1>2. ASSUME NEW c \in Clients, Enters(c)
      PROVE  RequestsSound' /\ RowExclusive' /\ LockExclusive'
  <2>1. RequestsSound' BY <1>2 DEF Enters, OnlyMoves, RequestsSound, Sound
  <2>2. RowExclusive' BY <1>2 DEF Enters, OnlyMoves, RowExclusive, RowFree
  <2>3. LockExclusive' BY <1>2 DEF Enters, OnlyMoves, LockExclusive, PanelLockFree
  <2> QED BY <2>1, <2>2, <2>3
<1>3. CASE op' = op
  BY <1>3 DEF RequestsSound, RowExclusive, LockExclusive, Sound
<1> QED BY <1>1, <1>2, <1>3, NextMoves

\* The columns other than the requests have their types.
RowTypes ==
    /\ status \in [WorkOrders -> Statuses \union {None}]
    /\ active \in [WorkOrders -> BOOLEAN]
    /\ round \in [WorkOrders -> 0 .. MaxRounds]
    /\ decided \in [WorkOrders -> BOOLEAN]
    /\ woDevice \in [WorkOrders -> MaybeDevice]
    /\ topics \in [WorkOrders -> SUBSET Topics]
    /\ report \in [WorkOrders -> Reports \union {NoReport}]
    /\ health \in [Devices -> Healths]
HistoryTypes ==
    /\ unchecked \in [WorkOrders -> BOOLEAN]
    /\ unsynced \in [WorkOrders -> BOOLEAN]
    /\ overtaken \in [Devices -> BOOLEAN]
    /\ reported \in [Devices -> BOOLEAN]

LEMMA Types == TypeOK <=> RowTypes /\ HistoryTypes /\ op \in [Clients -> Op \union {Idle}]
  BY DEF TypeOK, RowTypes, HistoryTypes

LEMMA TrackTypes ==
  ASSUME TypeOK, NEW w, NEW st, NEW act, NEW d, NEW adds, NEW wr,
         Track(w, st, act, d, adds, wr)
  PROVE  unchecked' \in [WorkOrders -> BOOLEAN] /\ unsynced' \in [WorkOrders -> BOOLEAN]
<1> DEFINE open == act /\ st \in OpenStatuses
           gets(h) == d \in Devices /\ wr[d] = h
           u == open /\ (unchecked[w] \/ (open /\ ~Open(w)) \/ adds)
           s == /\ open /\ ~gets("WARNING")
                /\ \/ unsynced[w] \/ (open /\ ~Open(w)) \/ d # EffectiveDevice(w)
                   \/ gets("NORMAL")
<1>1. u \in BOOLEAN /\ s \in BOOLEAN OBVIOUS
<1>2. /\ unchecked' = [unchecked EXCEPT ![w] = u]
      /\ unsynced' = [unsynced EXCEPT ![w] = s]
  BY Zenon DEF Track
<1> HIDE DEF u, s
<1> QED BY <1>1, <1>2 DEF TypeOK

LEMMA DeviceTypes ==
  ASSUME TypeOK, NEW c \in Clients, op[c] \in Op, WriteDevices(c)
  PROVE  /\ health' \in [Devices -> Healths] /\ overtaken' \in [Devices -> BOOLEAN]
         /\ reported' \in [Devices -> BOOLEAN]
<1>1. op[c].writes \in [Devices -> Healths \union {None}] BY DEF Op
<1>2. health' \in [Devices -> Healths]
  BY <1>1 DEF WriteDevices, TypeOK
<1>3. \A d \in Devices : overtaken'[d] \in BOOLEAN
  BY DEF WriteDevices, TypeOK
<1>4. overtaken' = [d \in Devices |-> overtaken'[d]]
  BY DEF WriteDevices
<1>5. \A d \in Devices : reported'[d] \in BOOLEAN
  BY DEF WriteDevices
<1>6. reported' = [d \in Devices |-> reported'[d]]
  BY DEF WriteDevices
<1> QED BY <1>2, <1>3, <1>4, <1>5, <1>6, Zenon

\* Each commit keeps the types of the columns.
LEMMA CommitTypes ==
  ASSUME TypeOK, RequestsSound, RowsHeld, NEW c \in Clients,
         \/ CommitCreate(c) \/ ReadRepair(c) \/ CommitReport(c)
         \/ CommitPatchReport(c) \/ CommitPatchTopics(c) \/ PatchDevice(c)
         \/ CommitDeviceSync(c) \/ CommitDecide(c) \/ CommitSetActive(c)
  PROVE  RowTypes' /\ HistoryTypes'
<1>t. RowTypes /\ HistoryTypes BY Types
<1>r. op[c].stage # "idle" => op[c] \in Op /\ Sound(op[c]) BY Busy DEF RequestsSound
<1>s. /\ "WORKING" \in Statuses /\ "CLOSED" \in Statuses /\ "PENDING_APPROVAL" \in Statuses
      /\ 1 \in 0 .. MaxRounds
  BY PanelAssumption DEF Statuses, OpenStatuses
<1>u. CASE UNCHANGED <<woRow, topics, report, health, history>>
  BY <1>u, <1>t DEF RowTypes, HistoryTypes
<1>1. CASE CommitCreate(c)
  <2>1. op[c].stage = "tx" /\ op[c].kind \in ReportKinds
    BY <1>1 DEF CommitCreate, Writing, In, ReportKinds
  <2>2. /\ op[c] \in Op /\ op[c].topic \in Topics
        /\ op[c].dev \in MaybeDevice /\ op[c].in \in SUBSET Topics
    BY <2>1, <1>r DEF Sound, Op
  <2>3. /\ health' \in [Devices -> Healths] /\ overtaken' \in [Devices -> BOOLEAN]
        /\ reported' \in [Devices -> BOOLEAN]
    BY <1>1, <2>2, DeviceTypes DEF CommitCreate
  <2>4. [device |-> op[c].dev, topic |-> op[c].topic] \in Reports
    BY <2>2 DEF Reports
  <2> QED BY <1>1, <1>t, <1>s, <2>2, <2>3, <2>4 DEF CommitCreate, RowTypes, HistoryTypes
<1>2. CASE CommitReport(c)
  <2>1. op[c].stage = "tx" /\ op[c].kind \in ReportKinds
    BY <1>2 DEF CommitReport, Writing, In, ReportKinds
  <2>2. /\ op[c] \in Op /\ op[c].topic \in Topics /\ op[c].wo \in WorkOrders
        /\ op[c].dev \in MaybeDevice /\ op[c].in \in SUBSET Topics
    BY <2>1, <1>r DEF Sound, Op
  <2>3. /\ health' \in [Devices -> Healths] /\ overtaken' \in [Devices -> BOOLEAN]
        /\ reported' \in [Devices -> BOOLEAN]
    BY <1>2, <2>2, DeviceTypes DEF CommitReport
  <2>4. unchecked' \in [WorkOrders -> BOOLEAN] /\ unsynced' \in [WorkOrders -> BOOLEAN]
    BY <1>2, TrackTypes DEF CommitReport
  <2>5. [device |-> op[c].dev, topic |-> op[c].topic] \in Reports
    BY <2>2 DEF Reports
  <2> QED BY <1>2, <1>t, <1>s, <2>2, <2>3, <2>4, <2>5 DEF CommitReport, RowTypes, HistoryTypes
<1>3. CASE CommitPatchReport(c) /\ ~Refuse(c)
  <2>1. op[c].stage = "tx" /\ op[c].kind \in ReportKinds
    BY <1>3 DEF CommitPatchReport, Writing, In, ReportKinds
  <2>2. /\ op[c] \in Op /\ op[c].topic \in Topics /\ op[c].wo \in WorkOrders
        /\ op[c].in \in SUBSET Topics
    BY <2>1, <1>r DEF Sound, Op
  <2>3. ASSUME report[op[c].wo] # NoReport
        PROVE  [report[op[c].wo] EXCEPT !.topic = op[c].topic] \in Reports
    <3>1. report[op[c].wo] \in Reports BY <1>t, <2>2, <2>3 DEF RowTypes
    <3> QED BY <2>2, <3>1 DEF Reports
  <2> QED BY <1>3, <1>t, <2>2, <2>3 DEF CommitPatchReport, RowTypes, HistoryTypes
<1>4. CASE CommitPatchTopics(c)
  <2>1. op[c] \in Op BY <1>4, <1>r DEF CommitPatchTopics, Writing, In
  <2>2. op[c].in \in SUBSET Topics BY <2>1 DEF Op
  <2> QED BY <1>4, <1>t, <2>2 DEF CommitPatchTopics, RowTypes, HistoryTypes
<1>5. CASE PatchDevice(c)
  <2>1. op[c] \in Op BY <1>5, <1>r DEF PatchDevice, Reading, In
  <2>2. op[c].dev \in MaybeDevice BY <2>1 DEF Op
  <2>3. unchecked' \in [WorkOrders -> BOOLEAN] /\ unsynced' \in [WorkOrders -> BOOLEAN]
    BY <1>5, TrackTypes DEF PatchDevice
  <2> QED BY <1>5, <1>t, <2>2, <2>3 DEF PatchDevice, RowTypes, HistoryTypes
<1>6. CASE CommitDeviceSync(c)
  <2>1. op[c] \in Op BY <1>6, <1>r DEF CommitDeviceSync, Writing, In
  <2>2. /\ health' \in [Devices -> Healths] /\ overtaken' \in [Devices -> BOOLEAN]
        /\ reported' \in [Devices -> BOOLEAN]
    BY <1>6, <2>1, DeviceTypes DEF CommitDeviceSync
  <2>3. unchecked' \in [WorkOrders -> BOOLEAN] /\ unsynced' \in [WorkOrders -> BOOLEAN]
    BY <1>6, TrackTypes DEF CommitDeviceSync
  <2> QED BY <1>6, <1>t, <2>2, <2>3 DEF CommitDeviceSync, RowTypes, HistoryTypes
<1>7. CASE CommitDecide(c)
  <2>1. op[c] \in Op /\ op[c].stage = "tx" /\ Sound(op[c]) BY <1>7, <1>r DEF CommitDecide
  <2>2. op[c].wo \in WorkOrders BY <2>1 DEF Op
  <2>3. /\ health' \in [Devices -> Healths] /\ overtaken' \in [Devices -> BOOLEAN]
        /\ reported' \in [Devices -> BOOLEAN]
    BY <1>7, <2>1, DeviceTypes DEF CommitDecide
  <2>4. unchecked' \in [WorkOrders -> BOOLEAN] /\ unsynced' \in [WorkOrders -> BOOLEAN]
    BY <1>7, TrackTypes DEF CommitDecide
  <2>5. op[c].kind = "REJECTED" => round[op[c].wo] + 1 \in 0 .. MaxRounds
    BY <2>1, <2>2, <1>t, PanelAssumption DEF RowsHeld, Sound, RowTypes
  <2>6. (op[c].kind # "REJECTED") \in BOOLEAN OBVIOUS
  <2>7. round' \in [WorkOrders -> 0 .. MaxRounds]
    BY <1>7, <1>t, <2>2, <2>5 DEF CommitDecide, RowTypes
  <2>8. decided' \in [WorkOrders -> BOOLEAN]
    BY <1>7, <1>t, <2>2 DEF CommitDecide, RowTypes
  <2> QED
    BY <1>7, <1>t, <1>s, <2>2, <2>3, <2>4, <2>7, <2>8 DEF CommitDecide, RowTypes, HistoryTypes
<1>8. CASE CommitSetActive(c)
  <2>1. op[c] \in Op BY <1>8, <1>r DEF CommitSetActive, Writing, In
  <2>2. op[c].wo \in WorkOrders BY <2>1 DEF Op
  <2>3. /\ health' \in [Devices -> Healths] /\ overtaken' \in [Devices -> BOOLEAN]
        /\ reported' \in [Devices -> BOOLEAN]
    BY <1>8, <2>1, DeviceTypes DEF CommitSetActive
  <2>4. unchecked' \in [WorkOrders -> BOOLEAN] /\ unsynced' \in [WorkOrders -> BOOLEAN]
    BY <1>8, TrackTypes DEF CommitSetActive
  <2>5. active' \in [WorkOrders -> BOOLEAN]
    BY <1>8, <1>t, <2>2 DEF CommitSetActive, RowTypes
  <2> QED
    BY <1>8, <1>t, <1>s, <2>2, <2>3, <2>4, <2>5 DEF CommitSetActive, RowTypes, HistoryTypes
<1> QED
  BY <1>u, <1>1, <1>2, <1>3, <1>4, <1>5, <1>6, <1>7, <1>8 DEF ReadRepair, Refuse

LEMMA StatementTypes == TypeOK /\ Statements => RowTypes' /\ HistoryTypes'
<1> SUFFICES ASSUME TypeOK, Statements PROVE RowTypes' /\ HistoryTypes'
  OBVIOUS
<1>t. RowTypes /\ HistoryTypes BY Types
<1>1. ASSUME NEW w \in WorkOrders, NEW d \in MaybeDevice, PatchReportDevice(w, d)
      PROVE  RowTypes' /\ HistoryTypes'
  <2>1. report[w] \in Reports BY <1>1, <1>t DEF PatchReportDevice, RowTypes
  <2>2. [report[w] EXCEPT !.device = d] \in Reports BY <2>1 DEF Reports
  <2>3. report' = [report EXCEPT ![w] = [report[w] EXCEPT !.device = d]]
    BY <1>1, <1>t DEF PatchReportDevice, RowTypes
  <2>4. unchecked' \in [WorkOrders -> BOOLEAN] /\ unsynced' \in [WorkOrders -> BOOLEAN]
    BY <1>1, TrackTypes DEF PatchReportDevice
  <2>5. report' \in [WorkOrders -> Reports \union {NoReport}]
    BY <1>t, <2>2, <2>3 DEF RowTypes
  <2>6. UNCHANGED <<woRow, topics, health, overtaken, reported>> BY <1>1 DEF PatchReportDevice
  <2> QED BY <1>t, <2>4, <2>5, <2>6 DEF RowTypes, HistoryTypes
<1>2. ASSUME NEW w \in WorkOrders, DeleteReport(w)
      PROVE  RowTypes' /\ HistoryTypes'
  <2>1. unchecked' \in [WorkOrders -> BOOLEAN] /\ unsynced' \in [WorkOrders -> BOOLEAN]
    BY <1>2, TrackTypes DEF DeleteReport
  <2> QED BY <1>2, <1>t, <2>1 DEF DeleteReport, RowTypes, HistoryTypes
<1>3. ASSUME NEW w \in WorkOrders, Submit(w)
      PROVE  RowTypes' /\ HistoryTypes'
  <2>1. unchecked' \in [WorkOrders -> BOOLEAN] /\ unsynced' \in [WorkOrders -> BOOLEAN]
    BY <1>3, TrackTypes DEF Submit
  <2> QED BY <1>3, <1>t, <2>1 DEF Submit, RowTypes, HistoryTypes, Statuses, OpenStatuses
<1>4. ASSUME NEW d \in Devices, NEW h \in Healths, RecordStatus(d, h)
      PROVE  RowTypes' /\ HistoryTypes'
  BY <1>4, <1>t DEF RecordStatus, RowTypes, HistoryTypes
<1> QED BY <1>1, <1>2, <1>3, <1>4 DEF Statements

\* A round changes in the transaction of a request that holds the row, and that
\* ends with it.
LEMMA RoundsMove ==
  ASSUME TypeOK, RequestsSound, RowsHeld, [Next]_vars
  PROVE  \/ round' = round
         \/ \E c \in Clients :
              /\ op[c] \in Op /\ op[c].stage = "tx" /\ op[c].holdsRow /\ Leaves(c)
              /\ \A w \in WorkOrders \ {op[c].wo} : round'[w] = round[w]
<1>1. ASSUME NEW c \in Clients, CommitCreate(c) \/ CommitDecide(c)
      PROVE  /\ op[c] \in Op /\ op[c].stage = "tx" /\ op[c].holdsRow /\ Leaves(c)
             /\ \A w \in WorkOrders \ {op[c].wo} : round'[w] = round[w]
  <2>1. op[c].stage = "tx" /\ op[c].kind \in RowKinds
    BY <1>1 DEF CommitCreate, CommitDecide, Writing, In, RowKinds
  <2>2. op[c] \in Op BY <2>1, Busy
  <2>3. \A w \in WorkOrders \ {op[c].wo} : round'[w] = round[w]
    BY <1>1 DEF CommitCreate, CommitDecide, TypeOK
  <2> QED BY <1>1, <2>1, <2>2, <2>3, CommitsMove DEF RowsHeld
<1>2. ASSUME NEW c \in Clients,
             \/ ReadRepair(c) \/ CommitReport(c) \/ CommitPatchReport(c)
             \/ CommitPatchTopics(c) \/ PatchDevice(c) \/ CommitDeviceSync(c)
             \/ CommitSetActive(c)
      PROVE  round' = round
  BY <1>2 DEF ReadRepair, CommitReport, CommitPatchReport, Refuse, CommitPatchTopics,
     PatchDevice, CommitDeviceSync, CommitSetActive
<1>3. ASSUME Statements PROVE round' = round
  BY <1>3 DEF Statements, PatchReportDevice, DeleteReport, Submit, RecordStatus
<1> QED
  BY <1>1, <1>2, <1>3, SnapshotsMove, BeginsMove DEF Next, Statements

LEMMA RowsHeldKept ==
  TypeOK /\ RequestsSound /\ RowExclusive /\ RowsHeld /\ [Next]_vars => RowsHeld'
<1> SUFFICES ASSUME TypeOK, RequestsSound, RowExclusive, RowsHeld, [Next]_vars,
                    NEW c \in Clients, op'[c].stage = "tx"
             PROVE  /\ op'[c].kind \in RowKinds => op'[c].holdsRow
                    /\ op'[c].kind = "REJECTED" => op'[c].rnd = round'[op'[c].wo]
  BY DEF RowsHeld
<1>i. Idle.stage # "tx" BY DEF Idle
<1>1. CASE Enters(c) BY <1>1 DEF Enters
<1>2. CASE Leaves(c) BY <1>2, <1>i DEF Leaves
<1>3. CASE op'[c] = op[c]
  <2>1. /\ op[c].kind \in RowKinds => op[c].holdsRow
        /\ op[c].kind = "REJECTED" => op[c].rnd = round[op[c].wo]
    BY <1>3 DEF RowsHeld
  <2>2. ASSUME op[c].kind = "REJECTED" PROVE round'[op[c].wo] = round[op[c].wo]
    <3>1. op[c].holdsRow BY <2>1, <2>2 DEF RowKinds, Decisions
    <3>2. op[c] \in Op /\ op[c].wo \in WorkOrders BY <1>3, Busy DEF Op
    <3>3. ASSUME NEW d \in Clients, op[d] \in Op, op[d].stage = "tx", op[d].holdsRow,
                 Leaves(d), \A w \in WorkOrders \ {op[d].wo} : round'[w] = round[w]
          PROVE  round'[op[c].wo] = round[op[c].wo]
      <4>1. d # c BY <1>i, <1>3, <3>3 DEF Leaves
      <4>2. op[c].wo # op[d].wo BY <4>1, <1>3, <3>1, <3>3 DEF RowExclusive
      <4> QED BY <3>2, <3>3, <4>2
    <3> QED BY <3>3, RoundsMove
  <2> QED BY <1>3, <2>1, <2>2
<1> QED BY <1>1, <1>2, <1>3, NextMoves DEF Enters, Leaves, OnlyMoves

-----------------------------------------------------------------------------
(***************************************************************************)
(* Types and locks                                                         *)
(***************************************************************************)

Inv == TypeOK /\ RequestsSound /\ RowsHeld /\ RowExclusive /\ LockExclusive

LEMMA InitInv == Init => Inv
  BY PanelAssumption
     DEF Init, Inv, TypeOK, RequestsSound, RowsHeld, RowExclusive, LockExclusive,
         MaybeDevice, Healths, Idle

LEMMA NextKeepsInv == Inv /\ [Next]_vars => Inv'
<1> SUFFICES ASSUME Inv, [Next]_vars PROVE Inv'
  OBVIOUS
<1>1. RequestsSound' /\ RowExclusive' /\ LockExclusive' /\ RowsHeld'
  BY LocksKept, RowsHeldKept DEF Inv
<1>2. op' \in [Clients -> Op \union {Idle}]
  BY NextMoves DEF Inv, TypeOK, Enters, Leaves, OnlyMoves
<1>3. RowTypes /\ HistoryTypes BY Types DEF Inv
<1>4. ASSUME UNCHANGED <<woRow, topics, report, health, history>>
      PROVE  RowTypes' /\ HistoryTypes'
  BY <1>3, <1>4 DEF RowTypes, HistoryTypes
<1>5. RowTypes' /\ HistoryTypes'
  <2>1. ASSUME NEW c \in Clients,
               \/ CommitCreate(c) \/ ReadRepair(c) \/ CommitReport(c)
               \/ CommitPatchReport(c) \/ CommitPatchTopics(c) \/ PatchDevice(c)
               \/ CommitDeviceSync(c) \/ CommitDecide(c) \/ CommitSetActive(c)
        PROVE  RowTypes' /\ HistoryTypes'
    BY <2>1, CommitTypes DEF Inv
  <2>2. ASSUME Statements PROVE RowTypes' /\ HistoryTypes'
    BY <2>2, StatementTypes DEF Inv
  <2>3. TypeOK /\ RequestsSound BY DEF Inv
  <2> QED
    BY <1>4, <2>1, <2>2, <2>3, SnapshotsMove, BeginsMove DEF Next, Statements
<1>6. TypeOK' BY <1>2, <1>5 DEF TypeOK, RowTypes, HistoryTypes
<1> QED BY <1>1, <1>6 DEF Inv

\* Every column and every request in flight of a panel's CMs has one of its
\* values (work_order.go, cm_report.go, panel_device_cm_sync.go).
THEOREM PanelTypeCorrect == Spec => []TypeOK
<1>1. Inv => TypeOK BY DEF Inv
<1> QED BY InitInv, NextKeepsInv, <1>1, PTL DEF Spec

-----------------------------------------------------------------------------
(***************************************************************************)
(* One open CM for each topic                                              *)
(***************************************************************************)

\* A CM the duplicate check sees and vouches for.
Covered(m) == Open(m) /\ ~unchecked[m]
CoveredNext(m) == active'[m] /\ status'[m] \in OpenStatuses /\ ~unchecked'[m]

\* What the search of a transaction has found is still so: nobody else writes
\* topics while it holds the lock, and a CM that becomes open is unchecked.
SearchHolds ==
    \A c \in Clients :
        op[c].stage = "tx" /\ op[c].kind \in SearchedKinds =>
            \A m \in WorkOrders \ {op[c].wo} :
                Covered(m) => topics[m] \intersect Added(op[c]) = {}

\* A step that gives no CM a topic ...
Quiet ==
    /\ topics' = topics
    /\ \A m \in WorkOrders : CoveredNext(m) => Covered(m)

\* ... and one that gives a covered CM only the topics its search has covered.
GivesTopics(c) ==
    LET w == op[c].wo IN
    /\ op[c] \in Op /\ op[c].stage = "tx" /\ op[c].kind \in LockedKinds
    /\ Leaves(c)
    /\ \A m \in WorkOrders \ {w} :
           topics'[m] = topics[m] /\ (CoveredNext(m) => Covered(m))
    /\ CoveredNext(w) => \A t \in topics'[w] :
           \/ Covered(w) /\ t \in topics[w]
           \/ op[c].kind \in SearchedKinds /\ t \in Added(op[c])

LEMMA TrackCovers ==
  ASSUME TypeOK, NEW w \in WorkOrders, NEW st, NEW act, NEW d, NEW adds, NEW wr,
         Track(w, st, act, d, adds, wr), status' = [status EXCEPT ![w] = st],
         active' = [active EXCEPT ![w] = act]
  PROVE  /\ \A m \in WorkOrders : CoveredNext(m) => Covered(m)
         /\ CoveredNext(w) => ~adds
<1>1. /\ status \in [WorkOrders -> Statuses \union {None}]
      /\ active \in [WorkOrders -> BOOLEAN] /\ unchecked \in [WorkOrders -> BOOLEAN]
  BY DEF TypeOK
<1>2. /\ status'[w] = st /\ active'[w] = act
      /\ unchecked'[w] = (/\ act /\ st \in OpenStatuses
                          /\ \/ unchecked[w]
                             \/ (act /\ st \in OpenStatuses) /\ ~Open(w)
                             \/ adds)
  BY <1>1 DEF Track
<1>3. \A m \in WorkOrders \ {w} : /\ status'[m] = status[m] /\ active'[m] = active[m]
                                  /\ unchecked'[m] = unchecked[m]
  BY <1>1 DEF Track
<1> QED BY <1>2, <1>3 DEF Covered, CoveredNext, Open

LEMMA StepGivesTopics ==
  ASSUME Inv, [Next]_vars
  PROVE  Quiet \/ \E c \in Clients : GivesTopics(c)
<1>t. /\ TypeOK /\ status \in [WorkOrders -> Statuses \union {None}]
      /\ active \in [WorkOrders -> BOOLEAN] /\ unchecked \in [WorkOrders -> BOOLEAN]
      /\ topics \in [WorkOrders -> SUBSET Topics]
  BY DEF Inv, TypeOK
<1>u. CASE UNCHANGED <<woRow, topics, report, health, history>>
  BY <1>u DEF Quiet, Covered, CoveredNext, Open
<1>s. \A w \in WorkOrders : /\ status = [status EXCEPT ![w] = status[w]]
                            /\ active = [active EXCEPT ![w] = active[w]]
  BY <1>t
<1>1. ASSUME NEW c \in Clients, CommitCreate(c) PROVE GivesTopics(c)
  <2>1. op[c].stage = "tx" /\ op[c].kind \in {"create", "pmCreate"}
    BY <1>1 DEF CommitCreate, Writing, In
  <2>2. op[c] \in Op /\ op[c].wo \in WorkOrders BY <2>1, <1>t, Busy DEF Op
  <2>3. Leaves(c) BY <1>1, CommitsMove DEF Inv
  <2>4. \A m \in WorkOrders \ {op[c].wo} :
            topics'[m] = topics[m] /\ (CoveredNext(m) => Covered(m))
    BY <1>1, <1>t DEF CommitCreate, Covered, CoveredNext, Open
  <2>5. topics'[op[c].wo] = op[c].in BY <1>1, <1>t, <2>2 DEF CommitCreate
  <2> QED
    BY <2>1, <2>2, <2>3, <2>4, <2>5 DEF GivesTopics, LockedKinds, SearchedKinds, Added
<1>2. ASSUME NEW c \in Clients, CommitReport(c) PROVE GivesTopics(c)
  <2> DEFINE r == op[c]
             adds == r.kind = "pmRepair" /\ ~(r.in \subseteq topics[r.wo])
  <2>1. op[c].stage = "tx" /\ op[c].kind \in {"saveReport", "pmRepair"}
    BY <1>2 DEF CommitReport, Writing, In
  <2>2. op[c] \in Op /\ op[c].wo \in WorkOrders BY <2>1, <1>t, Busy DEF Op
  <2>3. Leaves(c) BY <1>2, CommitsMove DEF Inv
  <2>4. /\ \A m \in WorkOrders : CoveredNext(m) => Covered(m)
        /\ CoveredNext(r.wo) => ~adds
    <3> DEFINE st == IF r.holdsRow THEN "WORKING" ELSE status[r.wo]
               d == Coalesce(IF r.rnd # round[r.wo] THEN report[r.wo]
                             ELSE [device |-> r.dev, topic |-> r.topic], woDevice[r.wo])
    <3>1. /\ Track(r.wo, st, active[r.wo], d, adds, r.writes)
          /\ status' = [status EXCEPT ![r.wo] = st]
      BY <1>2 DEF CommitReport
    <3>2. active' = [active EXCEPT ![r.wo] = active[r.wo]]
      BY <1>2, <1>s, <2>2 DEF CommitReport
    <3>3. PICK a \in BOOLEAN : a = adds OBVIOUS
    <3> HIDE DEF adds, st, d
    <3>4. Track(r.wo, st, active[r.wo], d, a, r.writes) BY <3>1, <3>3, Zenon
    <3>5. /\ \A m \in WorkOrders : CoveredNext(m) => Covered(m)
          /\ CoveredNext(r.wo) => ~a
      BY <3>1, <3>2, <3>4, <2>2, <1>t, TrackCovers
    <3> QED BY <3>3, <3>5, Zenon
  <2>5. topics' = [topics EXCEPT ![r.wo] = @ \union r.in]
    BY <1>2 DEF CommitReport
  <2>6. /\ topics'[r.wo] = topics[r.wo] \union r.in
        /\ \A m \in WorkOrders \ {r.wo} : topics'[m] = topics[m]
    BY <2>2, <2>5, <1>t
  <2>7. ASSUME CoveredNext(r.wo), NEW t \in topics'[r.wo]
        PROVE  \/ Covered(r.wo) /\ t \in topics[r.wo]
               \/ r.kind \in SearchedKinds /\ t \in Added(r)
    <3>1. Covered(r.wo) /\ ~adds BY <2>2, <2>4, <2>7
    <3>2. CASE r.kind = "pmRepair" BY <3>1, <3>2, <2>6, <2>7
    <3>3. CASE r.kind = "saveReport"
      BY <3>1, <3>3, <2>6, <2>7 DEF LockedKinds, SearchedKinds, Added
    <3> QED BY <2>1, <3>2, <3>3
  <2> HIDE DEF adds
  <2>8. op[c].kind \in LockedKinds BY <2>1 DEF LockedKinds
  <2> QED BY <2>1, <2>2, <2>3, <2>4, <2>6, <2>7, <2>8 DEF GivesTopics
<1>3. ASSUME NEW c \in Clients, CommitPatchReport(c), ~Refuse(c) PROVE GivesTopics(c)
  <2>1. op[c].stage = "tx" /\ op[c].kind = "patchReport"
    BY <1>3 DEF CommitPatchReport, Writing, In
  <2>2. op[c] \in Op /\ op[c].wo \in WorkOrders BY <2>1, <1>t, Busy DEF Op
  <2>3. Leaves(c) BY <1>3, CommitsMove DEF Inv
  <2>4. UNCHANGED <<woRow, history>> /\ topics' = [topics EXCEPT ![op[c].wo] = @ \union op[c].in]
    BY <1>3 DEF CommitPatchReport
  <2>5. \A m \in WorkOrders : CoveredNext(m) <=> Covered(m)
    BY <2>4 DEF Covered, CoveredNext, Open
  <2>6. /\ topics'[op[c].wo] = topics[op[c].wo] \union op[c].in
        /\ \A m \in WorkOrders \ {op[c].wo} : topics'[m] = topics[m]
    BY <2>2, <2>4, <1>t
  <2>7. /\ op[c].kind \in LockedKinds /\ op[c].kind \in SearchedKinds
        /\ Added(op[c]) = op[c].in
    BY <2>1 DEF LockedKinds, SearchedKinds, Added
  <2> QED BY <2>1, <2>2, <2>3, <2>5, <2>6, <2>7 DEF GivesTopics
<1>4. ASSUME NEW c \in Clients, CommitPatchTopics(c) PROVE GivesTopics(c)
  <2>1. op[c].stage = "tx" /\ op[c].kind = "patchTopics"
    BY <1>4 DEF CommitPatchTopics, Writing, In
  <2>2. op[c] \in Op /\ op[c].wo \in WorkOrders BY <2>1, <1>t, Busy DEF Op
  <2>3. Leaves(c) BY <1>4, CommitsMove DEF Inv
  <2>4. UNCHANGED <<woRow, history>> /\ topics' = [topics EXCEPT ![op[c].wo] = op[c].in]
    BY <1>4 DEF CommitPatchTopics
  <2>5. \A m \in WorkOrders : CoveredNext(m) <=> Covered(m)
    BY <2>4 DEF Covered, CoveredNext, Open
  <2>6. /\ topics'[op[c].wo] = op[c].in
        /\ \A m \in WorkOrders \ {op[c].wo} : topics'[m] = topics[m]
    BY <2>2, <2>4, <1>t
  <2>7. /\ op[c].kind \in LockedKinds /\ op[c].kind \in SearchedKinds
        /\ Added(op[c]) = op[c].in \ topics[op[c].wo]
    BY <2>1 DEF LockedKinds, SearchedKinds, Added
  <2> QED BY <2>1, <2>2, <2>3, <2>5, <2>6, <2>7 DEF GivesTopics
<1>5. ASSUME NEW w \in WorkOrders, NEW st, NEW act, NEW d, NEW wr,
             Track(w, st, act, d, FALSE, wr), status' = [status EXCEPT ![w] = st],
             active' = [active EXCEPT ![w] = act], topics' = topics
      PROVE  Quiet
  <2>1. \A m \in WorkOrders : CoveredNext(m) => Covered(m)
    BY <1>5, <1>t, TrackCovers
  <2> QED BY <1>5, <2>1 DEF Quiet
<1>6. ASSUME NEW c \in Clients,
             PatchDevice(c) \/ CommitDeviceSync(c) \/ CommitDecide(c) \/ CommitSetActive(c)
      PROVE  Quiet
  <2>1. op[c].stage # "idle"
    BY <1>6 DEF PatchDevice, CommitDeviceSync, CommitDecide, CommitSetActive, Writing,
       Reading, In
  <2>2. op[c].wo \in WorkOrders BY <2>1, <1>t, Busy DEF Op
  <2>3. topics' = topics
    BY <1>6 DEF PatchDevice, CommitDeviceSync, CommitDecide, CommitSetActive
  <2> DEFINE w == op[c].wo
  <2>4. CASE PatchDevice(c)
    <3>1. /\ Track(w, status[w], active[w], Coalesce(report[w], op[c].dev), FALSE, NoWrites)
          /\ status' = status /\ active' = active
      BY <2>4 DEF PatchDevice
    <3> QED BY <3>1, <2>2, <2>3, <1>s, <1>5
  <2>5. CASE CommitDeviceSync(c)
    <3>1. /\ Track(w, status[w], active[w], EffectiveDevice(w), FALSE, op[c].writes)
          /\ status' = status /\ active' = active
      BY <2>5 DEF CommitDeviceSync
    <3> QED BY <3>1, <2>2, <2>3, <1>s, <1>5
  <2>6. CASE CommitDecide(c)
    <3> DEFINE rework == op[c].kind = "REJECTED"
               st == IF rework THEN "WORKING" ELSE "CLOSED"
               dev == Coalesce(IF rework THEN NoReport ELSE report[w], woDevice[w])
    <3>1. /\ Track(w, st, active[w], dev, FALSE, op[c].writes)
          /\ status' = [status EXCEPT ![w] = st] /\ active' = active
      BY <2>6 DEF CommitDecide
    <3> HIDE DEF st, dev
    <3> QED BY <3>1, <2>2, <2>3, <1>s, <1>5
  <2>7. CASE CommitSetActive(c)
    <3> DEFINE on == op[c].kind = "restore"
               st == IF on THEN status[w] ELSE "CLOSED"
    <3>1. /\ Track(w, st, on, EffectiveDevice(w), FALSE, op[c].writes)
          /\ status' = [status EXCEPT ![w] = st]
          /\ active' = [active EXCEPT ![w] = on]
      BY <2>7, Zenon DEF CommitSetActive
    <3> HIDE DEF st, on
    <3> QED BY <3>1, <2>2, <2>3, <1>5
  <2> QED BY <1>6, <2>4, <2>5, <2>6, <2>7
<1>7. ASSUME Statements PROVE Quiet
  <2>1. ASSUME NEW w \in WorkOrders,
               \/ \E d \in MaybeDevice : PatchReportDevice(w, d)
               \/ DeleteReport(w) \/ Submit(w)
        PROVE  Quiet
    <3>1. topics' = topics /\ active' = active
      BY <2>1 DEF PatchReportDevice, DeleteReport, Submit
    <3>2. ASSUME NEW d \in MaybeDevice, PatchReportDevice(w, d) PROVE Quiet
      <4>1. /\ Track(w, status[w], active[w],
                     Coalesce([report[w] EXCEPT !.device = d], woDevice[w]), FALSE, NoWrites)
            /\ status' = status
        BY <3>2 DEF PatchReportDevice
      <4> QED BY <3>1, <4>1, <1>s, <1>5
    <3>3. CASE DeleteReport(w)
      <4>1. /\ Track(w, status[w], active[w], woDevice[w], FALSE, NoWrites)
            /\ status' = status
        BY <3>3 DEF DeleteReport
      <4> QED BY <3>1, <4>1, <1>s, <1>5
    <3>4. CASE Submit(w)
      <4>1. /\ Track(w, "PENDING_APPROVAL", active[w], EffectiveDevice(w), FALSE, NoWrites)
            /\ status' = [status EXCEPT ![w] = "PENDING_APPROVAL"]
        BY <3>4 DEF Submit
      <4> QED BY <3>1, <4>1, <1>s, <1>5
    <3> QED BY <2>1, <3>2, <3>3, <3>4
  <2>2. ASSUME NEW d \in Devices, NEW h \in Healths, RecordStatus(d, h) PROVE Quiet
    BY <2>2 DEF RecordStatus, Quiet, Covered, CoveredNext, Open
  <2> QED BY <1>7, <2>1, <2>2 DEF Statements
<1> QED
  BY <1>u, <1>1, <1>2, <1>3, <1>4, <1>6, <1>7, SnapshotsMove, BeginsMove
     DEF Inv, Next, Statements, ReadRepair, Refuse

LEMMA NextKeepsSearch == Inv /\ SearchHolds /\ [Next]_vars => SearchHolds'
<1> SUFFICES ASSUME Inv, SearchHolds, [Next]_vars, NEW c \in Clients,
                    op'[c].stage = "tx", op'[c].kind \in SearchedKinds,
                    NEW m \in WorkOrders \ {op'[c].wo}, CoveredNext(m)
             PROVE  topics'[m] \intersect Added(op[c])' = {}
  BY DEF SearchHolds, Covered, CoveredNext, Open
<1>i. Idle.stage # "tx" BY DEF Idle
<1>1. CASE Enters(c)
  <2>1. /\ ~Conflict(op'[c].wo, Added(op'[c])) /\ topics' = topics
        /\ Covered(m)
    BY <1>1 DEF Enters, Covered, CoveredNext, Open
  <2>2. Added(op[c])' = Added(op'[c]) BY <2>1 DEF Added
  <2> QED BY <2>1, <2>2 DEF Conflict, Covered
<1>2. CASE Leaves(c) BY <1>2, <1>i DEF Leaves
<1>3. CASE op'[c] = op[c]
  <2>1. op[c] \in Op /\ op[c].wo \in WorkOrders BY <1>3, Busy DEF Inv, Op
  <2>2. Covered(m) => topics[m] \intersect Added(op[c]) = {}
    BY <1>3 DEF SearchHolds
  <2>3. CASE Quiet
    <3>1. Added(op[c])' = Added(op[c]) BY <1>3, <2>3 DEF Added, Quiet
    <3> QED BY <2>2, <2>3, <3>1 DEF Quiet
  <2>4. ASSUME NEW d \in Clients, GivesTopics(d) PROVE FALSE
    <3>1. d # c BY <1>i, <1>3, <2>4 DEF GivesTopics, Leaves
    <3> QED BY <3>1, <1>3, <2>4 DEF Inv, LockExclusive, GivesTopics, SearchedKinds
  <2> QED BY <2>3, <2>4, StepGivesTopics
<1> QED BY <1>1, <1>2, <1>3, NextMoves DEF Inv, Enters, Leaves, OnlyMoves

LEMMA NextKeepsTopics ==
  Inv /\ SearchHolds /\ OneOpenCmPerTopic /\ [Next]_vars => OneOpenCmPerTopic'
<1> SUFFICES ASSUME Inv, SearchHolds, OneOpenCmPerTopic, [Next]_vars,
                    NEW v \in WorkOrders, NEW w \in WorkOrders, v # w,
                    CoveredNext(v), CoveredNext(w)
             PROVE  topics'[v] \intersect topics'[w] = {}
  BY DEF OneOpenCmPerTopic, CoveredNext, Open
<1>1. ASSUME NEW x \in WorkOrders, NEW y \in WorkOrders, x # y, Covered(x), Covered(y)
      PROVE  topics[x] \intersect topics[y] = {}
  BY <1>1 DEF OneOpenCmPerTopic, Covered
<1>2. CASE Quiet BY <1>1, <1>2 DEF Quiet
<1>3. ASSUME NEW c \in Clients, GivesTopics(c) PROVE topics'[v] \intersect topics'[w] = {}
  <2>1. ASSUME NEW x \in WorkOrders, x # op[c].wo, op[c].wo \in WorkOrders,
               CoveredNext(x), CoveredNext(op[c].wo)
        PROVE  topics'[x] \intersect topics'[op[c].wo] = {}
    <3>1. Covered(x) /\ topics'[x] = topics[x] BY <1>3, <2>1 DEF GivesTopics
    <3>2. ASSUME NEW t \in topics'[op[c].wo] PROVE t \notin topics[x]
      <4>1. CASE Covered(op[c].wo) /\ t \in topics[op[c].wo]
        BY <1>1, <2>1, <3>1, <4>1
      <4>2. CASE op[c].kind \in SearchedKinds /\ t \in Added(op[c])
        BY <1>3, <2>1, <3>1, <4>2 DEF SearchHolds, GivesTopics
      <4> QED BY <1>3, <2>1, <3>2, <4>1, <4>2 DEF GivesTopics
    <3> QED BY <3>1, <3>2
  <2>2. op[c].wo \in WorkOrders BY <1>3 DEF GivesTopics, Op
  <2>3. CASE v # op[c].wo /\ w # op[c].wo BY <1>1, <1>3, <2>3 DEF GivesTopics
  <2>4. CASE v = op[c].wo
    <3>1. topics'[w] \intersect topics'[op[c].wo] = {} BY <2>1, <2>2, <2>4
    <3> QED BY <2>4, <3>1
  <2>5. CASE w = op[c].wo
    <3>1. topics'[v] \intersect topics'[op[c].wo] = {} BY <2>1, <2>2, <2>5
    <3> QED BY <2>5, <3>1
  <2> QED BY <2>3, <2>4, <2>5
<1> QED BY <1>2, <1>3, StepGivesTopics

\* Two open CMs of a panel never cover the same problem topic, whatever
\* creations, saves and PATCHes run at once: the lock of open_cm_conflict.go is
\* enough, except for the CMs it does not look at (unchecked).
THEOREM OpenCmsKeepApart == Spec => []OneOpenCmPerTopic
<1> DEFINE All == Inv /\ SearchHolds /\ OneOpenCmPerTopic
<1>1. Init => All
  BY InitInv DEF Init, SearchHolds, OneOpenCmPerTopic, Idle, Open
<1>2. All /\ [Next]_vars => All'
  BY NextKeepsInv, NextKeepsSearch, NextKeepsTopics
<1>3. All => OneOpenCmPerTopic
  OBVIOUS
<1> HIDE DEF All
<1> QED BY <1>1, <1>2, <1>3, PTL DEF Spec

-----------------------------------------------------------------------------
(***************************************************************************)
(* That a device under an open CM is not NORMAL, for every instance of     *)
(* CmPanel, except for what unsynced, overtaken and reported name.         *)
(***************************************************************************)

\* The CMs whose open work order keeps device d marked.
Marks(w, d) == Open(w) /\ EffectiveDevice(w) = d /\ ~unsynced[w]
MarksNext(w, d) ==
    /\ active'[w] /\ status'[w] \in OpenStatuses /\ ~unsynced'[w]
    /\ Coalesce(report'[w], woDevice'[w]) = d

\* A transaction that is about to write NORMAL has seen no other open CM on the
\* device; one that came meanwhile marked it, which overtook the transaction.
PendingOvertaken ==
    \A c \in Clients : op[c].stage = "tx" =>
        \A d \in Devices : op[c].writes[d] = "NORMAL" =>
            \A m \in WorkOrders \ {op[c].wo} : Marks(m, d) => overtaken[d]

\* A creation is about to mark its device.
CreateMarks ==
    \A c \in Clients :
        /\ op[c].stage = "tx" /\ op[c].kind \in {"create", "pmCreate"}
        /\ op[c].dev \in Devices
        => op[c].writes[op[c].dev] = "WARNING"

DeviceInv == Inv /\ PendingOvertaken /\ CreateMarks /\ OpenCmKeepsDeviceMarked

\* NORMAL is only written where no other CM is open.
Alone(w, wr) == \A x \in Devices : wr[x] = "NORMAL" => ~CoveredElsewhere(w, x)

LEMMA SyncAlone ==
  ASSUME NEW w, NEW p, NEW new, NEW rep, NEW seen, NEW own, NEW kind
  PROVE  /\ Alone(w, NoWrites)
         /\ Alone(w, Writes(None, None, new, "WARNING"))
         /\ Alone(w, RecalcDevice(w, p, own))
         /\ Alone(w, ReportSaveSync(seen, w, p, new, rep, own))
         /\ Alone(w, CloseSync(w, new, kind))
<1>1. Alone(w, NoWrites) BY DEF Alone, NoWrites, None
<1>2. Alone(w, Writes(None, None, new, "WARNING")) BY DEF Alone, Writes, None
<1>3. \A b : Alone(w, RecalcDevice(w, p, b))
  BY <1>1 DEF Alone, RecalcDevice, Recalc, Writes, None
<1>4. Alone(w, ReportSaveSync(seen, w, p, new, rep, own))
  <2> DEFINE mine == own /\ Coalesce(rep, woDevice[w]) = p
             old == IF p # new THEN RecalcDevice(w, p, mine) ELSE NoWrites
  <2>1. Alone(w, old) BY <1>1, <1>3
  <2>2. ReportSaveSync(seen, w, p, new, rep, own) =
            IF ~seen THEN NoWrites
            ELSE [x \in Devices |-> IF x = new THEN "WARNING" ELSE old[x]]
    BY DEF ReportSaveSync
  <2> HIDE DEF old
  <2> QED BY <1>1, <2>1, <2>2 DEF Alone
<1>5. Alone(w, CloseSync(w, new, kind)) BY DEF Alone, CloseSync, Writes, None
<1> QED BY <1>1, <1>2, <1>3, <1>4, <1>5

\* A transaction begins.
Begins(c) ==
    \/ \E w \in WorkOrders : \E i \in Inputs(w), d \in MaybeDevice,
          kind \in {"create", "pmCreate"} : BeginCreate(c, kind, w, i[1], i[2], d)
    \/ BeginRepair(c)
    \/ \E begins \in BOOLEAN : BeginSaveReport(c, begins)
    \/ BeginPatchReport(c) \/ BeginPatchTopics(c) \/ BeginDeviceSync(c)
    \/ BeginDecide(c)
    \/ \E w \in WorkOrders : BeginCancel(c, w) \/ BeginRestore(c, w)

\* What it will write has been seen to be harmless.
Prepared(c) ==
    LET r == op'[c] IN
    /\ Alone(r.wo, r.writes)
    /\ r.kind \in {"create", "pmCreate"} /\ r.dev \in Devices
           => r.writes[r.dev] = "WARNING"

LEMMA BeginsPrepared ==
  ASSUME Inv, NEW c \in Clients, Begins(c)
  PROVE  Leaves(c) \/ Prepared(c)
<1>t. TypeOK /\ RequestsSound BY DEF Inv
<1>w. NoWrites \in DeviceRow BY DEF NoWrites, DeviceRow
<1>b. ASSUME NEW h \in BOOLEAN, NEW wr \in DeviceRow, Begin(c, h, wr),
             op[c].stage \in {"snapshot", "committed"},
             op[c].kind \notin {"create", "pmCreate"}, Alone(op[c].wo, wr)
      PROVE  Prepared(c)
  <2>1. /\ op'[c].kind = op[c].kind /\ op'[c].wo = op[c].wo /\ op'[c].writes = wr
    BY <1>b, <1>t, BeginMoves
  <2> QED BY <1>b, <2>1 DEF Prepared
<1>1. ASSUME NEW w \in WorkOrders, NEW i \in Inputs(w), NEW d \in MaybeDevice,
             NEW kind \in {"create", "pmCreate"}, BeginCreate(c, kind, w, i[1], i[2], d)
      PROVE  Prepared(c)
  <2> DEFINE wr == Writes(None, None, d, "WARNING")
  <2>1. wr \in DeviceRow BY <1>t, Columns, DeviceRows DEF Healths
  <2>2. BeginAlone(c, kind, w, i[1], i[2], d, wr) BY <1>1 DEF BeginCreate
  <2>3. i[1] \in SUBSET Topics /\ i[2] \in Topics BY InputTyped
  <2>4. Alone(w, wr) BY SyncAlone
  <2>5. d \in Devices => wr[d] = "WARNING" BY DEF Writes
  <2> HIDE DEF wr
  <2>6. op'[c].wo = w /\ op'[c].dev = d /\ op'[c].writes = wr
    BY <1>t, <2>1, <2>2, <2>3, AloneMoves
  <2> QED BY <2>4, <2>5, <2>6 DEF Prepared
<1>2. CASE BeginRepair(c)
  <2>1. PICK wr \in DeviceRow : Begin(c, FALSE, wr) /\ Alone(op[c].wo, wr)
    BY <1>2, SyncRows, SyncAlone DEF BeginRepair
  <2>2. op[c].stage = "snapshot" /\ op[c].kind = "pmRepair"
    BY <1>2 DEF BeginRepair, Reading, In
  <2> QED BY <2>1, <2>2, <1>b
<1>3. ASSUME NEW begins \in BOOLEAN, BeginSaveReport(c, begins)
      PROVE  Leaves(c) \/ Prepared(c)
  <2>1. CASE Conflict(op[c].wo, op[c].in)
    BY <1>3, <2>1, <1>t, RefuseMoves DEF BeginSaveReport
  <2>2. CASE ~Conflict(op[c].wo, op[c].in)
    <3>1. PICK wr \in DeviceRow : Begin(c, begins, wr) /\ Alone(op[c].wo, wr)
      BY <1>3, <2>2, SyncRows, SyncAlone DEF BeginSaveReport
    <3>2. op[c].stage = "snapshot" /\ op[c].kind = "saveReport"
      BY <1>3 DEF BeginSaveReport, Reading, In
    <3> QED BY <3>1, <3>2, <1>b
  <2> QED BY <2>1, <2>2
<1>4. CASE BeginPatchReport(c) \/ BeginPatchTopics(c)
  <2>1. Refuse(c) \/ Begin(c, FALSE, NoWrites)
    BY <1>4 DEF BeginPatchReport, BeginPatchTopics
  <2>2. op[c].stage = "snapshot" /\ op[c].kind \in {"patchReport", "patchTopics"}
    BY <1>4 DEF BeginPatchReport, BeginPatchTopics, Reading, In
  <2>3. Alone(op[c].wo, NoWrites) BY SyncAlone
  <2> QED BY <2>1, <2>2, <2>3, <1>b, <1>t, <1>w, RefuseMoves
<1>6. CASE BeginDeviceSync(c)
  <2>1. CASE status[op[c].wo] \notin OpenStatuses
    BY <1>6, <2>1, <1>t, RefuseMoves DEF BeginDeviceSync
  <2>2. CASE status[op[c].wo] \in OpenStatuses
    <3> DEFINE new == woDevice[op[c].wo]
               own == Open(op[c].wo) /\ EffectiveDevice(op[c].wo) = op[c].prev
               old == IF op[c].prev # new
                      THEN RecalcDevice(op[c].wo, op[c].prev, own) ELSE NoWrites
               wr == [x \in Devices |-> IF x = new THEN "WARNING" ELSE old[x]]
    <3>1. Begin(c, FALSE, wr) BY <1>6, <2>2 DEF BeginDeviceSync
    <3>2. old \in DeviceRow /\ Alone(op[c].wo, old)
      <4> HIDE DEF own, new
      <4> QED BY <1>w, SyncRows, SyncAlone
    <3>3. wr \in DeviceRow /\ Alone(op[c].wo, wr)
      <4> HIDE DEF old, new
      <4> QED BY <3>2 DEF DeviceRow, Healths, Alone
    <3>4. op[c].stage = "committed" /\ op[c].kind = "patchDevice"
      BY <1>6 DEF BeginDeviceSync, In
    <3> HIDE DEF wr
    <3> QED BY <3>1, <3>3, <3>4, <1>b
  <2> QED BY <2>1, <2>2
<1>7. CASE BeginDecide(c)
  <2>1. op[c].stage = "snapshot" /\ op[c].kind \in Decisions
    BY <1>7 DEF BeginDecide
  <2>2. CASE Refuse(c) BY <2>2, <1>t, RefuseMoves
  <2>3. CASE ~Refuse(c)
    <3>1. PICK wr \in DeviceRow : Begin(c, TRUE, wr) /\ Alone(op[c].wo, wr)
      BY <1>7, <2>3, <1>w, SyncRows, SyncAlone DEF BeginDecide
    <3> QED BY <3>1, <2>1, <1>b DEF Decisions
  <2> QED BY <2>2, <2>3
<1>8. ASSUME NEW w \in WorkOrders, BeginCancel(c, w) \/ BeginRestore(c, w)
      PROVE  Prepared(c)
  <2>1. ASSUME NEW kind \in {"cancel", "restore"}, NEW wr \in DeviceRow, Alone(w, wr),
               BeginAlone(c, kind, w, {}, None, None, wr)
        PROVE  Prepared(c)
    <3>1. op'[c].wo = w /\ op'[c].kind = kind /\ op'[c].writes = wr
      BY <2>1, <1>t, Columns, AloneMoves
    <3> QED BY <2>1, <3>1 DEF Prepared
  <2>2. Writes(None, None, EffectiveDevice(w), "WARNING") \in DeviceRow
    BY <1>t, Columns, DeviceRows DEF Healths
  <2>3. \E wr \in DeviceRow : /\ Alone(w, wr)
                              /\ \/ BeginAlone(c, "cancel", w, {}, None, None, wr)
                                 \/ BeginAlone(c, "restore", w, {}, None, None, wr)
    BY <1>8, <2>2, <1>w, SyncRows, SyncAlone DEF BeginCancel, BeginRestore
  <2> QED BY <2>1, <2>3
<1> QED BY <1>1, <1>2, <1>3, <1>4, <1>6, <1>7, <1>8 DEF Begins

-----------------------------------------------------------------------------
(***************************************************************************)
(* What a step does to the marks                                           *)
(***************************************************************************)

\* A step that writes no device.
Silent ==
    /\ health' = health /\ overtaken' = overtaken /\ reported' = reported
    /\ \A m \in WorkOrders, d \in Devices : MarksNext(m, d) => Marks(m, d)

\* The row of w moves, to status st, activity act and device d.
RowMoves(w, st, act, d) ==
    /\ status' = [status EXCEPT ![w] = st]
    /\ active' = [active EXCEPT ![w] = act]
    /\ Coalesce(report'[w], woDevice'[w]) = d
    /\ \A m \in WorkOrders \ {w} : report'[m] = report[m] /\ woDevice'[m] = woDevice[m]

\* The other CMs mark no more than before, and w marks a device only if it is
\* written WARNING, or did so before and does not write NORMAL.
MarksMove(w, wr) ==
    /\ \A m \in WorkOrders \ {w}, x \in Devices : MarksNext(m, x) => Marks(m, x)
    /\ \A x \in Devices : MarksNext(w, x) =>
           wr[x] = "WARNING" \/ (Marks(w, x) /\ wr[x] # "NORMAL")

\* A step that ends a transaction.
Commits(c) ==
    /\ op[c] \in Op /\ op[c].stage = "tx" /\ Leaves(c) /\ WriteDevices(c)
    /\ MarksMove(op[c].wo, op[c].writes)

LEMMA TrackMarks ==
  ASSUME TypeOK, NEW w \in WorkOrders, NEW st, NEW act, NEW d, NEW adds, NEW wr,
         Track(w, st, act, d, adds, wr), RowMoves(w, st, act, d)
  PROVE  MarksMove(w, wr)
<1>1. /\ status \in [WorkOrders -> Statuses \union {None}]
      /\ active \in [WorkOrders -> BOOLEAN] /\ unsynced \in [WorkOrders -> BOOLEAN]
  BY DEF TypeOK
<1>2. /\ status'[w] = st /\ active'[w] = act
      /\ unsynced'[w] = /\ act /\ st \in OpenStatuses
                        /\ ~(d \in Devices /\ wr[d] = "WARNING")
                        /\ \/ unsynced[w]
                           \/ (act /\ st \in OpenStatuses) /\ ~Open(w)
                           \/ d # EffectiveDevice(w)
                           \/ d \in Devices /\ wr[d] = "NORMAL"
  BY <1>1 DEF Track, RowMoves
<1>3. \A m \in WorkOrders \ {w} :
          /\ status'[m] = status[m] /\ active'[m] = active[m]
          /\ unsynced'[m] = unsynced[m]
          /\ report'[m] = report[m] /\ woDevice'[m] = woDevice[m]
  BY <1>1 DEF Track, RowMoves
<1>4. \A m \in WorkOrders \ {w}, x \in Devices : MarksNext(m, x) => Marks(m, x)
  BY <1>3 DEF Marks, MarksNext, Open, EffectiveDevice
<1>5. ASSUME NEW x \in Devices, MarksNext(w, x), wr[x] # "WARNING"
      PROVE  Marks(w, x) /\ wr[x] # "NORMAL"
  <2>1. d = x BY <1>5 DEF MarksNext, RowMoves
  <2>2. act /\ st \in OpenStatuses /\ ~unsynced'[w]
    BY <1>2, <1>5 DEF MarksNext
  <2> QED BY <1>2, <1>5, <2>1, <2>2 DEF Marks
<1> QED BY <1>4, <1>5 DEF MarksMove

\* A statement that tracks a work order and writes no device is silent.
LEMMA TrackSilent ==
  ASSUME TypeOK, NEW w \in WorkOrders, NEW st, NEW act, NEW d,
         Track(w, st, act, d, FALSE, NoWrites), RowMoves(w, st, act, d),
         health' = health, overtaken' = overtaken, reported' = reported
  PROVE  Silent
<1>1. \A x \in Devices : NoWrites[x] # "WARNING" BY DEF NoWrites, None
<1>2. MarksMove(w, NoWrites) BY TrackMarks
<1> QED
  <2>1. ASSUME NEW m \in WorkOrders, NEW x \in Devices, MarksNext(m, x)
        PROVE  Marks(m, x)
    <3>1. CASE m = w BY <1>1, <1>2, <2>1, <3>1 DEF MarksMove
    <3>2. CASE m # w BY <1>2, <2>1, <3>2 DEF MarksMove
    <3> QED BY <3>1, <3>2
  <2> QED BY <2>1 DEF Silent

\* The collector, or a PATCH of the device, has written h.
Monitors(d, h) ==
    /\ health' = [health EXCEPT ![d] = h]
    /\ reported' = [reported EXCEPT ![d] = TRUE]

LEMMA StepMarks ==
  ASSUME Inv, CreateMarks, [Next]_vars
  PROVE  \/ Silent
         \/ \E c \in Clients : Commits(c)
         \/ /\ UNCHANGED <<woRow, topics, report, op, unsynced, overtaken>>
            /\ \E d \in Devices, h \in Healths : Monitors(d, h)
<1>t. TypeOK BY DEF Inv
<1>y. /\ status \in [WorkOrders -> Statuses \union {None}]
      /\ active \in [WorkOrders -> BOOLEAN]
      /\ report \in [WorkOrders -> Reports \union {NoReport}]
      /\ woDevice \in [WorkOrders -> MaybeDevice]
  BY <1>t DEF TypeOK
<1>s. \A w \in WorkOrders : /\ status = [status EXCEPT ![w] = status[w]]
                            /\ active = [active EXCEPT ![w] = active[w]]
  BY <1>y
<1>u. ASSUME UNCHANGED <<woRow, report, health, history>> PROVE Silent
  BY <1>u DEF Silent, Marks, MarksNext, Open, EffectiveDevice
<1>1. ASSUME NEW c \in Clients, CommitCreate(c) PROVE Commits(c)
  <2>1. op[c].stage = "tx" /\ op[c].kind \in {"create", "pmCreate"}
    BY <1>1 DEF CommitCreate, Writing, In
  <2>2. op[c] \in Op /\ op[c].wo \in WorkOrders /\ op[c].dev \in MaybeDevice
    BY <2>1, <1>t, Busy DEF Op
  <2>3. Leaves(c) /\ WriteDevices(c) BY <1>1, CommitsMove DEF Inv, CommitCreate
  <2>4. \A m \in WorkOrders \ {op[c].wo}, d \in Devices : MarksNext(m, d) => Marks(m, d)
    BY <1>1, <1>y DEF CommitCreate, Marks, MarksNext, Open, EffectiveDevice
  <2>5. ASSUME NEW d \in Devices, MarksNext(op[c].wo, d)
        PROVE  op[c].writes[d] = "WARNING"
    <3>1. report'[op[c].wo].device = op[c].dev /\ woDevice'[op[c].wo] = op[c].dev
      BY <1>1, <1>y, <2>2 DEF CommitCreate
    <3>2. d = op[c].dev BY <2>5, <3>1 DEF MarksNext, Coalesce
    <3> QED BY <2>1, <3>2 DEF CreateMarks
  <2> QED BY <2>1, <2>2, <2>3, <2>4, <2>5 DEF Commits, MarksMove
<1>2. ASSUME NEW c \in Clients, CommitReport(c) PROVE Commits(c)
  <2> DEFINE r == op[c]
             st == IF r.holdsRow THEN "WORKING" ELSE status[r.wo]
             rep == IF r.rnd # round[r.wo] THEN report[r.wo]
                    ELSE [device |-> r.dev, topic |-> r.topic]
             adds == r.kind = "pmRepair" /\ ~(r.in \subseteq topics[r.wo])
             dev == Coalesce(rep, woDevice[r.wo])
  <2>1. op[c].stage = "tx" BY <1>2 DEF CommitReport, Writing, In
  <2>2. op[c] \in Op /\ op[c].wo \in WorkOrders BY <2>1, <1>t, Busy DEF Op
  <2>3. Leaves(c) /\ WriteDevices(c) BY <1>2, CommitsMove DEF Inv, CommitReport
  <2>4. /\ Track(r.wo, st, active[r.wo], dev, adds, r.writes)
        /\ status' = [status EXCEPT ![r.wo] = st] /\ active' = active
        /\ report' = [report EXCEPT ![r.wo] = rep] /\ woDevice' = woDevice
    BY <1>2 DEF CommitReport
  <2>5. RowMoves(r.wo, st, active[r.wo], dev)
    <3> HIDE DEF rep, st
    <3> QED BY <2>2, <2>4, <1>y, <1>s DEF RowMoves
  <2>6. PICK a \in BOOLEAN : a = adds OBVIOUS
  <2> HIDE DEF st, dev, adds
  <2>7. Track(r.wo, st, active[r.wo], dev, a, r.writes) BY <2>4, <2>6, Zenon
  <2>8. MarksMove(r.wo, r.writes) BY <2>2, <2>5, <2>7, <1>t, TrackMarks
  <2> QED BY <2>1, <2>2, <2>3, <2>8 DEF Commits
<1>3. ASSUME NEW c \in Clients, CommitPatchReport(c), ~Refuse(c) PROVE Silent
  <2>1. op[c].stage = "tx" BY <1>3 DEF CommitPatchReport, Writing, In
  <2>2. op[c] \in Op /\ op[c].wo \in WorkOrders BY <2>1, <1>t, Busy DEF Op
  <2>3. UNCHANGED <<woRow, health, history>> BY <1>3 DEF CommitPatchReport
  <2> DEFINE rep == IF op[c].rnd = round[op[c].wo]
                    THEN [report[op[c].wo] EXCEPT !.topic = op[c].topic]
                    ELSE report[op[c].wo]
  <2>4. report' = [report EXCEPT ![op[c].wo] = rep] BY <1>3 DEF CommitPatchReport
  <2>5. rep.device = report[op[c].wo].device
    BY <2>2, <1>y DEF Reports, NoReport
  <2> HIDE DEF rep
  <2>6. \A m \in WorkOrders : report'[m].device = report[m].device
    BY <2>2, <2>4, <2>5, <1>y
  <2>7. /\ status' = status /\ active' = active /\ woDevice' = woDevice
        /\ health' = health /\ unsynced' = unsynced /\ overtaken' = overtaken
        /\ reported' = reported
    BY <2>3
  <2>8. ASSUME NEW m \in WorkOrders, NEW d \in Devices, MarksNext(m, d)
        PROVE  Marks(m, d)
    BY <2>6, <2>7, <2>8 DEF Marks, MarksNext, Open, EffectiveDevice, Coalesce
  <2> QED BY <2>7, <2>8 DEF Silent
<1>4. ASSUME NEW c \in Clients, CommitPatchTopics(c) PROVE Silent
  <2>1. UNCHANGED <<woRow, report, health, history>> BY <1>4 DEF CommitPatchTopics
  <2> QED BY <2>1, <1>u
<1>5. ASSUME NEW c \in Clients, PatchDevice(c) PROVE Silent
  <2> DEFINE w == op[c].wo
             dev == Coalesce(report[w], op[c].dev)
  <2>1. op[c].stage = "snapshot" BY <1>5 DEF PatchDevice, Reading, In
  <2>2. w \in WorkOrders BY <2>1, <1>t, Busy DEF Op
  <2>3. /\ Track(w, status[w], active[w], dev, FALSE, NoWrites)
        /\ status' = status /\ active' = active /\ report' = report
        /\ woDevice' = [woDevice EXCEPT ![w] = op[c].dev]
        /\ health' = health /\ overtaken' = overtaken /\ reported' = reported
    BY <1>5 DEF PatchDevice
  <2>4. RowMoves(w, status[w], active[w], dev)
    BY <2>2, <2>3, <1>y, <1>s DEF RowMoves
  <2> HIDE DEF dev
  <2> QED BY <2>2, <2>3, <2>4, <1>t, TrackSilent
<1>6. ASSUME NEW c \in Clients, CommitDeviceSync(c) \/ CommitDecide(c) \/ CommitSetActive(c)
      PROVE  Commits(c)
  <2> DEFINE w == op[c].wo
  <2>1. op[c].stage = "tx"
    BY <1>6 DEF CommitDeviceSync, CommitDecide, CommitSetActive, Writing, In
  <2>2. op[c] \in Op /\ w \in WorkOrders BY <2>1, <1>t, Busy DEF Op
  <2>3. Leaves(c) /\ WriteDevices(c)
    BY <1>6, CommitsMove DEF Inv, CommitDeviceSync, CommitDecide, CommitSetActive
  <2>4. ASSUME NEW st, NEW act, NEW dev, Track(w, st, act, dev, FALSE, op[c].writes),
               RowMoves(w, st, act, dev)
        PROVE  Commits(c)
    <3>1. MarksMove(w, op[c].writes) BY <2>2, <2>4, <1>t, TrackMarks
    <3> QED BY <2>1, <2>2, <2>3, <3>1 DEF Commits
  <2>5. CASE CommitDeviceSync(c)
    <3>1. /\ Track(w, status[w], active[w], EffectiveDevice(w), FALSE, op[c].writes)
          /\ status' = status /\ active' = active /\ report' = report
          /\ woDevice' = woDevice
      BY <2>5 DEF CommitDeviceSync
    <3>2. RowMoves(w, status[w], active[w], EffectiveDevice(w))
      BY <3>1, <2>2, <1>s DEF EffectiveDevice, RowMoves
    <3> QED BY <3>1, <3>2, <2>4
  <2>6. CASE CommitDecide(c)
    <3> DEFINE rework == op[c].kind = "REJECTED"
               st == IF rework THEN "WORKING" ELSE "CLOSED"
               rep == IF rework THEN NoReport ELSE report[w]
               dev == Coalesce(rep, woDevice[w])
    <3>1. /\ Track(w, st, active[w], dev, FALSE, op[c].writes)
          /\ status' = [status EXCEPT ![w] = st] /\ active' = active
          /\ report' = [report EXCEPT ![w] = rep] /\ woDevice' = woDevice
      BY <2>6 DEF CommitDecide
    <3>2. RowMoves(w, st, active[w], dev)
      <4> HIDE DEF rep, st
      <4> QED BY <3>1, <2>2, <1>y, <1>s DEF RowMoves
    <3> HIDE DEF st, dev
    <3> QED BY <3>1, <3>2, <2>4
  <2>7. CASE CommitSetActive(c)
    <3> DEFINE on == op[c].kind = "restore"
               st == IF on THEN status[w] ELSE "CLOSED"
    <3>1. /\ Track(w, st, on, EffectiveDevice(w), FALSE, op[c].writes)
          /\ status' = [status EXCEPT ![w] = st]
          /\ active' = [active EXCEPT ![w] = on]
          /\ report' = report /\ woDevice' = woDevice
      BY <2>7, Zenon DEF CommitSetActive
    <3>3. PICK a \in BOOLEAN : a = on OBVIOUS
    <3> HIDE DEF st, on
    <3>4. /\ Track(w, st, a, EffectiveDevice(w), FALSE, op[c].writes)
          /\ active' = [active EXCEPT ![w] = a]
      BY <3>1, <3>3, Zenon
    <3>5. RowMoves(w, st, a, EffectiveDevice(w))
      BY <3>1, <3>4, <2>2 DEF EffectiveDevice, RowMoves
    <3> QED BY <3>4, <3>5, <2>4
  <2> QED BY <1>6, <2>5, <2>6, <2>7
<1>7. ASSUME NEW w \in WorkOrders, NEW d \in MaybeDevice, PatchReportDevice(w, d)
      PROVE  Silent
  <2> DEFINE rep == [report[w] EXCEPT !.device = d]
             dev == Coalesce(rep, woDevice[w])
  <2>1. /\ Track(w, status[w], active[w], dev, FALSE, NoWrites)
        /\ status' = status /\ active' = active /\ woDevice' = woDevice
        /\ health' = health /\ overtaken' = overtaken /\ reported' = reported
        /\ report' = [report EXCEPT ![w] = rep]
    BY <1>7, <1>y DEF PatchReportDevice
  <2>2. RowMoves(w, status[w], active[w], dev)
    <3> HIDE DEF rep
    <3> QED BY <2>1, <1>y, <1>s DEF RowMoves
  <2> HIDE DEF dev
  <2> QED BY <2>1, <2>2, <1>t, TrackSilent
<1>8. ASSUME NEW w \in WorkOrders, DeleteReport(w) \/ Submit(w) PROVE Silent
  <2>1. CASE DeleteReport(w)
    <3>1. /\ Track(w, status[w], active[w], woDevice[w], FALSE, NoWrites)
          /\ status' = status /\ active' = active /\ woDevice' = woDevice
          /\ health' = health /\ overtaken' = overtaken /\ reported' = reported
          /\ report' = [report EXCEPT ![w] = NoReport]
      BY <2>1 DEF DeleteReport
    <3>2. Coalesce(NoReport, woDevice[w]) = woDevice[w] BY DEF Coalesce, NoReport
    <3>3. RowMoves(w, status[w], active[w], woDevice[w])
      BY <3>1, <3>2, <1>y, <1>s DEF RowMoves
    <3> QED BY <3>1, <3>3, <1>t, TrackSilent
  <2>2. CASE Submit(w)
    <3>1. /\ Track(w, "PENDING_APPROVAL", active[w], EffectiveDevice(w), FALSE, NoWrites)
          /\ status' = [status EXCEPT ![w] = "PENDING_APPROVAL"] /\ active' = active
          /\ woDevice' = woDevice /\ report' = report
          /\ health' = health /\ overtaken' = overtaken /\ reported' = reported
      BY <2>2 DEF Submit
    <3>2. RowMoves(w, "PENDING_APPROVAL", active[w], EffectiveDevice(w))
      BY <3>1, <1>s DEF EffectiveDevice, RowMoves
    <3> QED BY <3>1, <3>2, <1>t, TrackSilent
  <2> QED BY <1>8, <2>1, <2>2
<1>9. ASSUME NEW d \in Devices, NEW h \in Healths, RecordStatus(d, h)
      PROVE  UNCHANGED <<woRow, topics, report, op, unsynced, overtaken>> /\ Monitors(d, h)
  BY <1>9 DEF RecordStatus, Monitors
<1>10. ASSUME NEW c \in Clients, ReadRepair(c) \/ Refuse(c) \/ Begins(c) \/ Snapshots(c)
       PROVE  Silent
  <2>1. UNCHANGED <<woRow, report, health, history>>
    BY <1>10, SnapshotsMove, BeginsMove DEF Inv, ReadRepair, Refuse, Begins, Enters
  <2> QED BY <2>1, <1>u
<1>11. UNCHANGED vars => Silent BY <1>u
<1> QED
  BY <1>1, <1>2, <1>3, <1>4, <1>5, <1>6, <1>7, <1>8, <1>9, <1>10, <1>11
     DEF Next, Begins

-----------------------------------------------------------------------------
(***************************************************************************)
(* The invariant is kept                                                   *)
(***************************************************************************)

\* A request that enters its transaction is prepared.
LEMMA NextPrepares ==
  ASSUME Inv, [Next]_vars
  PROVE  op' = op \/ \E c \in Clients : Leaves(c) \/ (Enters(c) /\ Prepared(c))
<1>t. TypeOK /\ RequestsSound BY DEF Inv
<1>1. ASSUME NEW c \in Clients, Begins(c)
      PROVE  Leaves(c) \/ (Enters(c) /\ Prepared(c))
  <2>1. Enters(c) \/ Leaves(c) BY <1>1, <1>t, BeginsMove DEF Begins
  <2> QED BY <2>1, <1>1, BeginsPrepared
<1>2. Statements => op' = op
  BY DEF Statements, PatchReportDevice, DeleteReport, Submit, RecordStatus
<1> QED
  BY <1>t, <1>1, <1>2, SnapshotsMove, CommitsMove DEF Next, Statements, Begins

\* Every CM that comes to mark a device writes it, so that whoever is about to
\* write NORMAL has been overtaken.
LEMMA NextKeepsPending ==
  ASSUME DeviceInv, [Next]_vars
  PROVE  PendingOvertaken'
<1>t. Inv /\ PendingOvertaken /\ CreateMarks BY DEF DeviceInv
<1> SUFFICES ASSUME NEW c \in Clients, op'[c].stage = "tx",
                    NEW d \in Devices, op'[c].writes[d] = "NORMAL",
                    NEW m \in WorkOrders \ {op'[c].wo}, MarksNext(m, d)
             PROVE  overtaken'[d]
  BY DEF PendingOvertaken, Marks, MarksNext, Open, EffectiveDevice
<1>i. Idle.stage # "tx" BY DEF Idle
<1>1. CASE Enters(c) /\ Prepared(c)
  <2>1. CoveredElsewhere(op'[c].wo, d)
    BY <1>1 DEF Enters, MarksNext, CoveredElsewhere, Open, EffectiveDevice
  <2> QED BY <1>1, <2>1 DEF Prepared, Alone
<1>2. CASE Leaves(c) BY <1>2, <1>i DEF Leaves
<1>3. CASE op'[c] = op[c]
  <2>1. Marks(m, d) => overtaken[d] BY <1>3, <1>t DEF PendingOvertaken
  <2>2. CASE Silent BY <2>1, <2>2 DEF Silent
  <2>3. ASSUME NEW e \in Clients, Commits(e) PROVE overtaken'[d]
    <3>1. e # c BY <1>i, <1>3, <2>3 DEF Commits, Leaves
    <3>2. CASE op[e].writes[d] = "WARNING"
      BY <3>1, <3>2, <1>3, <2>3 DEF Commits, WriteDevices
    <3>3. CASE op[e].writes[d] # "WARNING"
      <4>1. Marks(m, d) BY <3>3, <2>3 DEF Commits, MarksMove
      <4>2. overtaken'[d] = overtaken[d] BY <3>3, <2>3 DEF Commits, WriteDevices
      <4> QED BY <4>1, <4>2, <2>1
    <3> QED BY <3>2, <3>3
  <2>4. CASE UNCHANGED <<woRow, topics, report, op, unsynced, overtaken>>
    BY <2>1, <2>4 DEF Marks, MarksNext, Open, EffectiveDevice
  <2> QED BY <2>2, <2>3, <2>4, <1>t, StepMarks
<1> QED BY <1>1, <1>2, <1>3, <1>t, NextPrepares DEF Enters, Leaves, OnlyMoves

LEMMA NextKeepsCreateMarks == DeviceInv /\ [Next]_vars => CreateMarks'
<1> SUFFICES ASSUME DeviceInv, [Next]_vars, NEW c \in Clients, op'[c].stage = "tx",
                    op'[c].kind \in {"create", "pmCreate"}, op'[c].dev \in Devices
             PROVE  op'[c].writes[op'[c].dev] = "WARNING"
  BY DEF CreateMarks
<1>i. Idle.stage # "tx" BY DEF Idle
<1>1. CASE Prepared(c) BY <1>1 DEF Prepared
<1>2. CASE Leaves(c) BY <1>2, <1>i DEF Leaves
<1>3. CASE op'[c] = op[c] BY <1>3 DEF DeviceInv, CreateMarks
<1> QED
  BY <1>1, <1>2, <1>3, NextPrepares DEF DeviceInv, Enters, Leaves, OnlyMoves

LEMMA NextKeepsMarked ==
  ASSUME DeviceInv, [Next]_vars
  PROVE  OpenCmKeepsDeviceMarked'
<1>t. /\ Inv /\ PendingOvertaken /\ CreateMarks /\ OpenCmKeepsDeviceMarked
      /\ health \in [Devices -> Healths] /\ overtaken \in [Devices -> BOOLEAN]
      /\ reported \in [Devices -> BOOLEAN]
  BY DEF DeviceInv, Inv, TypeOK
<1> SUFFICES ASSUME NEW w \in WorkOrders, NEW d \in Devices, MarksNext(w, d),
                    ~overtaken'[d], ~reported'[d]
             PROVE  health'[d] # "NORMAL"
  BY DEF OpenCmKeepsDeviceMarked, MarksNext, Open, EffectiveDevice
<1>1. Marks(w, d) /\ ~overtaken[d] /\ ~reported[d] => health[d] # "NORMAL"
  BY <1>t DEF OpenCmKeepsDeviceMarked, Marks
<1>2. CASE Silent BY <1>1, <1>2 DEF Silent
<1>3. ASSUME NEW c \in Clients, Commits(c) PROVE health'[d] # "NORMAL"
  <2> DEFINE h == op[c].writes[d]
  <2>1. /\ health'[d] = IF h = None THEN health[d] ELSE h
        /\ h # "WARNING" => overtaken'[d] = overtaken[d]
        /\ h = None => reported'[d] = reported[d]
    BY <1>3, <1>t DEF Commits, WriteDevices
  <2>2. CASE h = "WARNING" BY <2>1, <2>2 DEF None
  <2>3. CASE h # "WARNING"
    <3>1. Marks(w, d) /\ (w = op[c].wo => h # "NORMAL")
      BY <1>3, <2>3 DEF Commits, MarksMove
    <3>2. h # "NORMAL"
      BY <3>1, <2>1, <1>3, <1>t DEF Commits, PendingOvertaken
    <3> QED BY <3>1, <3>2, <2>1, <2>3, <1>1
  <2> QED BY <2>2, <2>3
<1>4. ASSUME UNCHANGED <<woRow, topics, report, op, unsynced, overtaken>>,
             NEW x \in Devices, NEW h \in Healths, Monitors(x, h)
      PROVE  health'[d] # "NORMAL"
  <2>1. x # d BY <1>4, <1>t DEF Monitors
  <2>2. health'[d] = health[d] /\ reported'[d] = reported[d]
    BY <2>1, <1>4, <1>t DEF Monitors
  <2>3. Marks(w, d) /\ ~overtaken[d]
    BY <1>4 DEF Marks, MarksNext, Open, EffectiveDevice
  <2> QED BY <2>2, <2>3, <1>1
<1> QED BY <1>2, <1>3, <1>4, <1>t, StepMarks

\* No request of a CM leaves a device NORMAL that an open CM covers, whatever
\* reviews, cancellations, saves and PATCHes write it at once:
\* panel_device_health.go looks for other open CMs before it writes NORMAL, and
\* the one CM it can miss is the one that marked the device meanwhile
\* (overtaken); unsynced names the requests that give a CM its device and call
\* no sync, reported the devices whose last health no CM has written.
THEOREM OpenCmsMarkDevices == Spec => []OpenCmKeepsDeviceMarked
<1>1. Init => DeviceInv
  BY InitInv
     DEF DeviceInv, Init, PendingOvertaken, CreateMarks, OpenCmKeepsDeviceMarked, Idle, Open
<1>2. DeviceInv /\ [Next]_vars => DeviceInv'
  BY NextKeepsInv, NextKeepsPending, NextKeepsCreateMarks, NextKeepsMarked DEF DeviceInv
<1>3. DeviceInv => OpenCmKeepsDeviceMarked
  BY DEF DeviceInv
<1> QED BY <1>1, <1>2, <1>3, PTL DEF Spec
=============================================================================
