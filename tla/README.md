# A verification model of rtu-api

rtu-api is the HTTP service behind the maintenance of RTU panels: preventive
(PM) and corrective (CM) work orders, the visits (rounds) that carry them out,
their reports, the reviews that close them, and the devices, images,
calibrations and users around them. It is a Go program (chi router → handler →
service → repository) over PostgreSQL at READ COMMITTED and an S3 store. It has
no background workers: all its concurrency is between HTTP requests, in any
number of processes, that meet in the database.

This directory holds TLA+ modules translated from that code, TLC configurations
that check them on small instances, and theorems checked by TLAPS for every
instance. `PROJECT.json` lists the runs, the mutations of the model that each
property catches, the lines of code behind every definition (`map`), the
hazards of the code and the disagreements found.

## 1. Inventory

| component | state it keeps | operations | what makes it correct |
|---|---|---|---|
| work orders and rounds (`service/work_order.go`, `repository/work_order*.go`) | `work_orders` (status, active, closed_at, current_round_id), `work_order_rounds` (assignee, check-in, check-out, submitted_at), activity log | create, reassign, check-in, check-out, begin work by a report, submit, open a new round, soft delete, restore, PATCH | status, rounds, reports and log agree for every schedule; status moves along the diagram of `doc/api/README.md` |
| approvals (`wo_approval.go`) | `wo_approvals`, one per round | decide: approve, approve with condition, reject to a new round, reject and escalate to a CM | a decision is final; closed exactly when a closing decision exists; an escalation names a CM |
| PM reports (`pm_report.go`) | report, checklist, ground and power tests | save, submit, delete | a submitted report does not change; its work order reaches review |
| CM reports and topics (`cm_report.go`, `open_cm_conflict.go`, `work_order_problem_topic.go`) | report per round, topics of a CM | save, submit, on-site fix, escalate, PATCH, delete | at most one open CM covers a topic of a panel |
| device health (`panel_device_cm_sync.go`, `service/panel_device.go`) | `panel_devices.health_status` | set on open, on close, recalculated on cancel and on device change; any value by a heartbeat or a PATCH of the device | no request of a CM hides a device that an open CM covers |
| work order numbers (`domain/work_order_no.go`) | `work_order_no` | look the panel up, count its work orders, insert | the CMs of a panel are numbered without a gap; a create does not meet a number of its own panel and type |
| images, attachments, S3 (`panel_image.go`, `attachment.go`, `storage/s3.go`) | rows of two tables, objects of a bucket | upload, replace, delete | a row names an object that exists; no object is forgotten unless a step failed |
| calibrations, instruments and readings (`calibration*.go`) | `calibrations`, `calibration_instruments`, `calibration_readings` | create, PATCH, delete, sheets of readings | certificate covers the day, links resolve, numbers of a sheet are unique |
| users and sessions (`auth.go`, `user.go`) | `users`, `refresh_tokens`, access tokens | register, login, refresh, logout, change password, administration | registration closes; a changed password ends the sessions; names stay unique |
| master data (`panel.go`, `panel_device.go`, `device_model.go`, `problem_topic.go`, `checklist_item.go`, `engineer.go`) | six tables | create, PATCH, deactivate, restore, purge | codes unique; nothing that is named disappears |
| middleware | token buckets, audit rows | rate limit, audit, authentication | bounded buckets |
| notifications, dashboard | rows, read-only aggregates | CRUD, queries | period arithmetic |

How they interact. Every handler follows one pattern: it reads the work order
outside any transaction (`GetView`), decides with what it saw, and then runs one
or more transactions with the round id and the status it saw. Submitting a
report calls the report repository and then `WorkOrderService.MarkSubmitted`,
two commits. A review calls the work order service to find or create a CM (a
commit), then `DecideAndApply` (a commit), then updates the panel's PM dates (a
statement of its own). The components around the work orders have no
transactions at all in most places: a login is four statements, a password
change two, an upload a call to S3 and then an insert. Between any two of those
another request may run, the client may disconnect (the request's context is
cancelled and the rest never runs), or the process may stop.

What guards the data are the WHERE clauses of single UPDATEs
(`check_in_at IS NULL`, `status = 'DRAFT'`), unique indexes
(`uk_wo_approvals_round_id`, one report per round, one `round_no` per work order)
and an advisory lock per panel around the writes of CMs. The hard question is
whether those few guards are enough for handlers that otherwise trust a
snapshot; `hazards` in `PROJECT.json` lists the places.

## 2. Modules

| module | models |
|---|---|
| `WorkOrderLifecycle` | the work orders of one panel, their rounds, reports, reviews and cancellation, with any number of concurrent requests |
| `ReviewFlow` | what a PM promises its users: the status diagram, with no snapshots and no requests |
| `CmPanel` | the CMs of one panel: their problem topics, the advisory lock and the duplicate check, and the health of the devices they cover |
| `PmRecords` | the content of PM reports, the schedule rule of a submit, and the calibrations linked to a work order or a report |
| `Sessions` | users, their passwords, refresh sessions and access tokens, statement by statement |
| `Files` | the rows of images and attachments and the objects they name, with the failure of every step |
| `ReadingSheet` | the readings of a calibration and the replacement of a whole sheet, statement by statement |
| `Certificates` | calibrations and the certificates of their instruments |
| `Catalogue` | the six tables of master data, their constraints, and the reports that name their rows |
| `WorkOrderNumbers` | the creates of work orders and the numbers they get, on the panels of `Catalogue` |
| `MC…` | small instances of each for TLC |
| `WorkOrderLifecycleProofs` | rounds, decisions, escalations, the status of a PM and the refinement of `ReviewFlow`, for every instance |
| `PmRecordsProofs` | types, frozen reports and resolved links of `PmRecords` |
| `FilesProofs` | rows name objects, no object is forgotten, for every instance of `Files` |
| `SessionsProofs` | names, registration, password changes and the owners of sessions, for every instance of `Sessions` |
| `CmPanelProofs` | one open CM per topic, and no CM makes a device NORMAL that another covers, for every instance of `CmPanel` |
| `ReadingSheetProofs` | numbers, owners and sheets, for every instance of `ReadingSheet` |
| `CertificatesProofs` | covered calibrations and ordered dates, for every instance of `Certificates` |
| `CatalogueProofs` | unique codes and rows that stay, and the numbers of work orders, for every instance of `Catalogue` and `WorkOrderNumbers` |

### WorkOrderLifecycle and the code

State. `status`, `active`, `closed`, `current` are the columns of
`rtu.work_orders` (`closed` is `closed_at IS NOT NULL`); rounds are named by
`round_no`, `roundCount` says how many a work order has, and `assignedTo`,
`checkedIn`, `checkedOut`, `submitted` are their columns (a time stamp is
reduced to whether it is set). `report[w][n]` is the report of a round: NULL,
DRAFT or SUBMITTED for a PM, NULL or SAVED for a CM, whose report has no status.
`approval[w][n]` and `newWorkOrder[w]` are `wo_approvals`; the decision REJECTED
sent with `escalate` is called ESCALATED here. `lastLog` is the newest status
transition of the activity log, `pmDates` whether the panel's PM dates were set
for the work order. `request[c]` is what the handler of client `c` holds
between two of its steps: the round, the status and the input it will use.
`cancelledOnce` is a history variable for the properties.

Actions. One read or one transaction is one action. `Read…` are the snapshots
with the early returns that follow them; `Reassign`, `CheckIn`, `CheckOut`,
`SaveReport`, `SubmitReport`, `ReadMark`, `MarkSubmitted`, `FindCm`, `CreateCm`,
`ApplyRework`, `ApplyClosing` and `SyncPmDates` are the transactions, named after
the functions in `map`. `Refuse` is the answer to a guarded UPDATE that matches
no row and to a violated unique index. `Disconnect` ends a request between two
of its steps; a database error does the same, as a transaction that fails leaves
nothing. Handlers with nothing between snapshot and write that others can
disturb (`Create`, `SoftDelete`, `Restore`, `DeleteReport`) are one action.

A transaction is atomic here although PostgreSQL runs at READ COMMITTED. It is
sound for these transactions: each updates rows of the one work order or round
it names, the guards are in the UPDATE that takes the row lock or in a unique
index, and the CM searches that decide something run under the panel's advisory
lock. Where that is not so (device health), `CmPanel` takes over.

Abstractions. One panel with one problem topic, so two open CMs always conflict.
The content of reports is not here, nor the rule that a PM of some schedules
needs a power test or a calibration: submitting may simply be refused earlier.
A deleted report that is saved again is the same report; the code would refuse a
submit that still holds the deleted row's id, so the model allows more than the
code. `PENDING` is a status the code accepts and never sets.

### CmPanel and the code

State. `status`, `active`, `round` and `woDevice` are columns of the CM work
orders, `topics` their rows of `work_order_problem_topics`, `report` the device
and the topic of the report of the current round, `decided` whether that round
has its row of `wo_approvals`, `health` the `health_status` of the devices.
`op[c]` is a request in flight. The statuses before PENDING_APPROVAL are one
here, WORKING, and the final ones are CLOSED: nothing in this part of the code
tells them apart, except that an escalation leaves the device alone.

Here the interleavings inside a transaction matter: a request that runs in one
is two steps. `Begin…` takes the locks and makes the reads that decide (the
conflict search, the search for other open CMs on a device); `Commit…` makes the
writes visible. PostgreSQL at READ COMMITTED lets any other transaction commit
in between, unless both take the panel's advisory lock (`PanelLockFree`) or the
row lock of the work order (`RowFree`). `Snapshot` is what the handler read
before its transaction. `Submit`, `DeleteReport`, `PatchReportDevice` and
`RecordStatus` are single statements or decide nothing from a read.

`RecordStatus` is the heartbeat of the telemetry collector
(`POST /panel-devices/{id}/status`) and the PATCH of a device: both write any of
NORMAL, WARNING, CRITICAL and UNKNOWN, at any time, and look at no CM. A device
starts with any of the four. A recalculation leaves all but WARNING alone.

A PATCH carries one kind of field at a time (topics or device). A report keeps
its identity when it is deleted and saved again. The descriptive fields and
`sort_order` are left out. Row locks on a device are not modelled: they make one
writer wait for the other and change neither what a transaction has read nor
what it writes.

Four history variables name the ways around a guarantee, so that the properties
can say it holds otherwise: `unchecked` (a CM that was open, closed and open
again, or that got topics no search has covered), `unsynced` (a CM came to cover
its device in a request that syncs nothing), `overtaken` (the device was marked
while a transaction that had seen no open CM was about to write NORMAL),
`reported` (the last write of the device's health was a heartbeat or a PATCH, not
the sync of a CM). So `OpenCmKeepsDeviceMarked` is a promise of the requests of
CMs: a NORMAL of the collector or of a PATCH under an open CM stands until a
request of a CM writes the device again.

### PmRecords and the code

State. `schedule` is `pm_schedule_type`, `pending` whether the status is
PENDING_APPROVAL, `round` the number of the current round. `report` holds the
rows of `pm_reports` by id, each with its children: `power` is whether there is a
power test, `content` everything else a save replaces. `calibration` holds the
two links of a calibration. Ids are not used twice, as uuids are not. `op[c]` is
a request in flight, `crossed[k]` remembers that two PATCHes of a calibration
overlapped.

Actions. `Read…` are snapshots with their early returns; `CheckSubmit` is the
second half of a submit's reads. `Save`, `SubmitReport`, `MarkSubmitted`,
`PatchSchedule`, `CreateCalibration` and `PatchCalibration` are the transactions
with the guards the database repeats: `status = 'DRAFT'` in the UPDATE, and the
foreign key of `pm_report_id` (`ReportExists`), whose RESTRICT is the second
guard of `DeleteReport`. `Save` is one step because its UPDATE or INSERT holds the
row of the report before any child is touched. `LinkAllowed` (`checkPmLink`)
reads the report and the work order in two statements; a report's work order
never changes, so only the schedule could differ, and no property depends on
when it was read.

Of the work order's status only what these requests ask is kept; the rest,
reviews included, is in `WorkOrderLifecycle`. A save does not ask for the status,
so it may write a draft while the work order waits for review.

### Sessions and the code

State. `user` holds the rows of `rtu.users`; a password is the number of the
change that set it, a name is a value of `Codes` or `Emails`. `token` holds the
rows of `rtu.refresh_tokens`; `proved`, the password its login had verified, and
`late`, that the row was inserted after a revocation meant for it, are
history. `access` is the set of users that hold an access token that has not
expired: the server stores none and `RequireAccessToken` asks for nothing but a
valid signature. `op[c]` is the next statement of a request in flight.

Actions. `ReadRegister`, `CreateFirst` are count and insert of the first
registration; `ReadLogin`, `TouchLastLogin`, `SignAccess`, `InsertToken` the
statements of a login (a registration joins at `SignAccess`); `SetPassword` and
`RevokeAll` the two of a password change. `CreateUser`, `PatchUser`,
`SetUserActive` and `Purge` are the handlers of `/users`, one statement each.
`Disconnect` ends a request between two statements.

### Files and the code

State. `row` holds the rows of `panel_images` and `attachments` with their owner
and key; `objects` the keys of the bucket. A key ends in a new uuid: `lastKey`
numbers them. `op[c]` holds the new key and the one read from the row. `lost`
names the rows written by a statement whose answer was an error, `left` the
objects a fault, a client that went or a crossing request left in the bucket.

Actions. `Read…` are the lookups that begin a request, `Upload` is PutObject,
`WriteRow` the INSERT, UPDATE or DELETE, `DeleteObject` the clean-up that follows
an error (`undo`) or a change (`drop`). `WriteFails` is an error of the database,
`AnswerLost` a statement that commits and whose answer is lost, `Abandon` a
failure of S3 or a request that is cut off: the clean-up runs on the request's
own context and fails with it. `OwnerAllows` is the foreign key only
`panel_images` has. The metadata, the checks of type and size (before the first
step; a replacement checks `image_type` after the swap) and the presigned links
are left out.

### ReadingSheet and the code

State. `reading` holds the rows of `calibration_readings` by id: calibration,
number, and, as history, the sheet they were written with. `op[c]` is an addition
or a replacement in flight; `seen` are the rows the DELETE of a replacement has
found, and locked.

Actions. `BeginReplace` and `CommitReplace` are the two halves of the transaction
of PUT: the DELETE sees what was committed before it, the COPY meets the unique
index. `ReadAdd` reads the next number, `AddReading` inserts under the foreign
key and the index. `RowFree` is the row lock. `Accepted` and `BuiltRows` are
`buildReadingRows`. `MaxReadings` is the limit of a sheet; `AddReading` does not
ask for it, nor does the code.

### Certificates and the code

State. Of an instrument: in use or not, the two dates of its certificate. Of a
calibration: instrument and day. Days are numbers, 0 is NULL. `excused` is
history: calibrations whose checks were overtaken by another write.

Actions. `CheckCreate` and `CheckPatch` are the reads of `checkInstrumentUsable`,
`InsertCalibration` and `UpdateCalibration` the statements that follow. The checks
of one request (row, instrument) are one read. `ReadInstrument` and
`UpdateInstrument` are a PATCH of one date, which compares it with the stored
other one; `CheckExpire` is the CHECK of the table. The device is in `Catalogue`,
the readings in `ReadingSheet`, the link to a report in `PmRecords`. Expiry is a
day in UTC, as in the code; its clock skew of a few minutes is left out.

### Catalogue and the code

State. `row` holds the rows of the six tables: active or not, code or tag, and
the panel of a device. `report[r]` is what a row of a report or calibration names.

Actions. One action per handler and kind, all built from four statements,
`Insert`, `Update`, `SetActive`, `Delete`, under the constraints `Unique`,
`Unreferenced` and `PanelKnown`. `Read…`, `Save…` and `InsertReport` are a report
that looks a row up and names it later, or names it without looking, as the save
of a PM report does. Panels, topics and devices are held by further tables (work
orders, images, CM reports) in the code: their deletion is possible here a little
more often than there. A row that was active when the request read it may be
deactivated before the report is inserted; the code does not look again, and no
property asks that it did.

### WorkOrderNumbers and the code

It extends `Catalogue`, whose panels are the ones that work orders are opened on.

State. `order[o]` is a row of `rtu.work_orders`: its panel, and the type, panel
code and sequence its number is made of. The format loses nothing, as the
sequence is what follows the last dash, so `uk_work_orders_no` is about these
triples (`NumberOf`). `opening[c]` is a create in flight; `crossed` is history,
another create of the panel and type has committed since this one counted.

Actions. `ReadPanel` is the look-up of `WorkOrderService.Create`, which takes the
code; `CountOrders` the count in `CreateWithFirstRound`, after
`LockPanelCmWrites` for a CM and after no lock for a PM; `CreateWorkOrder` the
INSERT with its unique index and foreign key, and the commit; `RefuseOrder` any
error. `MasterData` is any statement of `Catalogue` meanwhile: create, PATCH (the
code included), deactivation, restore, and purge when no work order holds the
panel. Work orders are never removed, so soft delete changes no count. A panel is
not created again under the id of one that was purged while a request holds that
id.

## 3. Runs

| run | instance | shows |
|---|---|---|
| `pm_review` | 1 PM, 2 requests in flight, 2 engineers, 2 rounds, all PM requests, cancellations, report deletions, disconnects (740 thousand states) | the status, report, round, decision and log of a PM agree for every interleaving of stale snapshots; until it is cancelled a PM implements `ReviewFlow` |
| `cm_review` | 1 PM, 1 CM, 2 requests, 2 rounds, escalation (420 thousand states) | rounds and decisions of both types stay consistent although a CM can be submitted in any status |
| `pm_liveness` | 1 PM, 2 requests, 2 rounds, fair service, no disconnects | the second commit of a submit and of a closing review happens |
| `pm_submit_cut` (violated) | 1 PM, disconnects | a submit cut between its commits leaves a PM that no retry brings to review |
| `cm_topics` | 2 CMs, 2 topics in any lists, no device, 2 requests: all that write topics, cancel, restore and reopen (1 million states) | the advisory lock keeps open CMs on different topics, except for CMs that were reopened and the second half of a repair opened from a PM |
| `cm_devices` | 2 CMs, one topic each, 1 device, 2 requests: create, save, PATCH of the device, submit, approve, cancel, heartbeats with NORMAL or CRITICAL, any health at the start (1.2 million states) | a device under an open CM is not NORMAL unless the collector or a PATCH said so since, the CM came to it unsynced, or its mark was overtaken |
| `pm_records` | 2 PMs, 1 report, 1 calibration, 2 contents, 2 rounds, 2 requests of every kind (200 thousand states) | a submitted report is frozen, and a calibration's links resolve to a report of its work order |
| `sessions` | 2 users, 2 codes, 2 emails, 2 passwords each, 1 session id, 2 requests of every kind (440 thousand states) | a password change ends the sessions, registration is closed while a user exists, names and sessions keep to their users |
| `files` | 1 image, 1 attachment, 1 owner, 4 objects, 3 requests, every step may fail (1.6 million states) | a row names an object that exists, whatever crosses; every object is named, in hand, or was left behind by a fault or a crossing |
| `reading_sheet` | 1 calibration, sheets of up to 2 readings, numbers up to 3, 4 rows, 2 requests (0.7 million states) | numbers stay unique, no reading outlives its calibration, sheets mix only when replacements cross |
| `certificates` | 1 calibration, 2 instruments, 2 days, 2 requests (0.7 million states) | a calibration lies on a day its certificate covers unless its checks were overtaken; two PATCHes of one date each never cross an instrument's dates |
| `catalogue` | 2 panels, 2 devices, one row of each other kind, 2 codes, 1 report in flight; on the panels 2 work orders, 2 creates in flight (190 thousand states) | codes and tags stay unique through restore and move; no purge takes a row that is named; the CMs of a panel are numbered without a gap |

Bounds. In `CmPanel` two CMs, two requests and one device suffice: a duplicate
and a missed CM are between two work orders and two transactions. "reopen" in
`Requests` bounds a run: without it, a closed CM stays closed although a late
submit or report save would open it again (section 5, first divergence). A
rework (REJECTED) is in neither run's `Requests`: it multiplies the states, and the
step that applies it is the one that applies an approval. Devices get one topic
list per work order in `cm_devices`, as topics decide nothing there; work orders
and topics are then exchanged together (`PairSymmetry`). Its devices start with
any of the four values; heartbeats then say NORMAL, which hides a CM, or CRITICAL,
which a sync may wipe out. WARNING is what the syncs write themselves, and no
branch of the code tells UNKNOWN from CRITICAL.

In `PmRecords` one report and one calibration are enough for a link to dangle or
to disagree, as each property is about one calibration and its report; two work
orders make the disagreement possible, two contents make an overwritten report
visible. What a second report would add (a link patched from one to another) the
proofs cover.

In `Sessions` one session id is enough, since each property is about one session
and an id is used again when its row is gone and nobody holds it; two passwords
make a session old, and two users make a name clash or a registration late.
`Files` has three requests: two replacements that read the same key and a third
that deletes the row between them. Four objects let two replacements put theirs and
a later upload follow. An image and an attachment differ in the foreign key and
in replacement, and each row is on its own otherwise. In `ReadingSheet` the
numbers 1 to 3 are "free", "taken" and "the largest smallint"; two rows make a
sheet that can be mixed. In `Certificates` day 1 is the last one a certificate of
day 1 covers and day 2 the first it does not; two instruments let two PATCHes of
one calibration check the old of one with the new of the other. In `Catalogue`
only panels have a second code and only panels and devices a second row, because the four
statements are the same for every kind; the second panel is where a device moves
to. One report suffices: a purge looks for any row that names its own.
In `WorkOrderNumbers` two creates are the race, two work orders let them count
none, one or two, and two panels can exchange two codes. The run keeps the two
halves apart (`OneHalf`, a CONSTRAINT of the cfg): there are no work orders, or
there is nothing but panels, which are all that the halves share.

In `WorkOrderLifecycle`, two requests in flight are enough for every race the code has between
a snapshot and a transaction: each guard relates one request to one other. Two
rounds make the difference between the current round and a past one; a third
adds no new relation. `MaxRounds` also bounds `ReadDecide`, which does not ask
for a round beyond it. `Requests` names the kinds of request an instance sends
so that runs about reviews need not enumerate reassignments. Clients and engineers are
symmetric (`Symmetry`): no action or property tells two of them apart. Deadlock is
not checked: when every work order is closed and no client sends anything the
system may stop.

Fairness. `FairSpec` asks weak fairness of `Serve(c)` for each client: the Go
runtime keeps running a handler that has started, and PostgreSQL answers it. No
fairness is put on `Accept`: nothing makes users send a request. Liveness is
stated without `Disconnect`, and `pm_submit_cut` shows that it needs that.

Cancellation. Soft delete writes CANCELLED over any status, and every other
request still works on a cancelled work order: check-in makes it IN_PROGRESS
again. The properties about the status of a PM therefore speak of work orders
that were never cancelled, except `PmPendingReviewable`, `RoundChain`,
`ClosedMatchesDecision` and `ReviewIsFinal`, which hold for all.

## 4. Proofs

The theorems hold for every set of work orders, types, engineers, clients, any
`MaxRounds` and any `Requests`. They assume what `WorkOrderLifecycle` assumes of
its constants: types are PM or CM, `MaxRounds` is positive, NULL is neither an
engineer nor a work order.

* `TypeCorrect`, `RoundsFormChain`. The invariant is
  `Inv == TypeOK /\ RoundChain /\ RequestsKnown`. `RoundChain` is not inductive
  alone: a review may hold a round number of any age, so `RequestsKnown` says
  that a request holds an existing work order and an existing round of it. With
  that, `UndecidedIsNewest` is the heart of the argument: a decision that finds
  no row for its round is about the newest round, because every older one was
  sent back. It is why the unique index alone is enough and the stale status
  check does not matter.
* `ClosedAsDecided`, `DecisionsAreFinal`, `StatusIsLogged`. One lemma,
  `NextMoves`, says what a step can do to the decisions of a work order: nothing,
  insert it, send its newest round back, close it.
* `PendingPmIsReviewable`. `PmInv` says that at most one client is between the
  two commits of a submit of a PM, that the newest round then has its report and
  not yet its stamp, and that every reviewer holds a stamped round. So a review
  cannot slip between the commits, and the second read of `MarkSubmitted` sees
  the round whose report was submitted. For a CM no report status plays that
  part: it can be submitted again after its decision (section 5).
  `SubmitsNeverCross` states the first of these facts on its own.
* `EscalationsNameCms`. The CM is found or created one or two steps before the
  decision that names it, so `EscInv` adds what a review in flight holds
  (`ReviewsFormed`): only an escalation looks for a CM, and when it comes to
  decide it holds one whose row exists. Rows are never removed (`RowsStay`), and a
  decision falls on the newest round, so an older round cannot leave its CM behind.
* `PmStatusIsEarned`, `SentBackRoundsFrozen`, `LogIsReal`, `FollowsReviewFlow`.
  No transaction asks for the status, so the invariant `FlowInv` is about the
  rounds: a stamped round is checked in, an unopened one has no report, and a
  snapshot other than ASSIGNED was taken of a round that is checked in
  (`SnapshotFits`). A round that was sent back is stamped, so a request whose guard
  finds its round not checked in, or its report not submitted, is about the newest
  one (`OpenIsNewest`), and there the stamps tell the status (`StatusFacts`). The
  status a request has kept is then the present one whenever it writes. Each step
  touches one work order (`OneTouched`) and, when that is a PM that was never
  cancelled, makes one of seven moves (`PmMove`): rest, open, start, stamp, send
  back, close, cancel. The three properties are read off the moves, and for
  the refinement each of them is one arrow of `ReviewFlow` (`MoveFollows`) or
  leaves the mapped state as it was; a cancelled PM maps to CANCELLED for ever.
* `SecondCommitsInHand` is the part of the two liveness properties that is
  safety: without `Disconnects`, a submitted report without its stamp, and a closed
  PM without its dates, is in the hand of a request whose next step repairs it.
  Cancellations, refusals, crossing saves and reworks lose neither.

* `RecordsTypeCorrect`, `SubmittedFrozen`, `LinksAlwaysResolve` assume of
  `PmRecords` that `MaxRounds` is positive and NULL is not an id.
  `SubmittedFrozen` follows from the types: each of the three actions that write
  reports writes a new id or a draft. `LinksResolve` is not inductive, because a
  request in flight holds links it checked earlier. `LinkInv` says what is left
  of that check: a report the request names was created before, and belongs to
  the work order it names or, deleted, to none - and then the foreign key refuses
  the write (`InFlightOK`, `MayLink`). For a PATCH this is said of the links the
  row would have after it, and only as long as no other PATCH of the same
  calibration has committed meanwhile; that is exactly `crossed`.

* `RowsNameObjects`, `NothingForgotten`, `ImagesKeepTheirPanel` (and
  `FilesTypeCorrect`) assume that images and attachments are different ids and
  NULL is no owner. That a row names an object is not inductive: an object is
  deleted under a key that was read long before. `FilesProofs!Inv` adds what
  makes the deletion harmless: the key a request has uploaded to is named by no
  row and in no other hand until its row is written (`NewIsFresh`), a key is
  named by one row at most (`KeyOfOneRow`), and a key that waits to be deleted is
  named by none (`DoomedIsFree`). Keys are never used again, which is why the
  last one stays true.
* `NamesStayUnique`, `RegistrationCloses`, `ChangesEndSessions`,
  `SessionsKeepOwners` (and `SessionsTypeCorrect`) assume that ids of users and
  sessions are not NULL. `RegistrationCloses` rests on `CountedNone`: a
  registration that has counted no user has been in flight since before every
  user there is. `SessionsKeepOwners` rests on `LoginStamped`: the UPDATE of
  `last_login_at` holds the user's row, so a user whose stamp was set and who is
  gone leaves no session behind. `ChangesEndSessions` needs both moves of a
  session (`TokenMoves`): a row inserted after the revocation is `late`, and one
  inserted before it was found by it.
* `OpenCmsKeepApart` (and `PanelTypeCorrect`) assume `PanelAssumption`: the lists
  of topics a client sends are not empty, and NULL is no id. That two open CMs
  have different topics is not inductive: a transaction searches for a conflict
  in one step and writes its topics in the next. `SearchHolds` says that what the
  holder of the lock has found is still so. It stays so because only a holder of
  the lock adds topics, there is one holder (`LockExclusive`), and a CM that
  becomes open under the feet of the holder is `unchecked` (`StepGivesTopics`).
  `RowsHeld` and `RowExclusive`, the locks on the rows of work orders, bound the
  rounds and give the types.
* `OpenCmsMarkDevices` has no lock to rest on: a review searches for open CMs and
  writes NORMAL later, and a heartbeat writes what it likes. `PendingOvertaken` says
  what is left of its search: no other CM marks the device, unless one marked it
  meanwhile. `StepMarks` divides
  the steps in those that write no device and give no CM a device to mark, the
  commits, after which a work order marks a device only if the commit wrote
  WARNING there or the mark was there before and the commit did not clear it, and
  `RecordStatus`, which makes the device `reported` until a commit writes it. So
  a mark is cleared only by a NORMAL whose device is `overtaken` or `reported`.

* `NumbersUnique`, `OwnedReadings`, `SheetSwapped`, `NumbersStartNew` (and
  `SheetTypeCorrect`) assume that NULL is no id and that a sheet is no longer than
  the greatest smallint (500 and 32767 in the code). `NumbersAreNew` needs that a
  finite set of numbers has a greatest one (`GreatestElement`), and that is all it
  needs. `OneSheet` speaks of two replacements: `Requests` says of one in flight
  that its calibration was there when it began, and that a row of this calibration
  it has not seen was added alone, unless another replacement has committed since.
* `CalibrationsCovered`, `DatesInOrder` (and `CertificatesTypeCorrect`) assume
  that NULL is no id. A calibration is checked in one step and written in the
  next, so `RequestsFormed` and `ChecksStand` say that what a request has checked
  still holds unless a write meanwhile has made it `stale`; `InstrumentsKept`, that
  an instrument a calibration names is not purged. `CertificateDates` needs no
  such thing: the CHECK of the table sees both dates, whatever the handler compared.
* `CodesStayUnique`, `NamedRowsStay` (and `CatalogueTypeCorrect`)
  assume that the ids of the six tables are different (uuids) and NULL is none.
* `CmsStayNumbered`, `OwnNumbersStayFree`, `OrderPanelsStay` (and
  `NumbersTypeCorrect`) assume the same. That the CMs are numbered 1 to their
  count is not inductive: the number is made of a count of two steps ago.
  `NumbersInv` says that a create that has counted holds at most one more than
  the present count, and exactly that if nobody has overtaken it or it is a CM
  (`OpeningsCounted`); that one CM create of a panel at most has counted
  (`OneCmCounted`, which is what the lock is for); and that no work order has a
  sequence beyond the count of its panel and type (`SequencesCounted`), so a
  number one beyond it is free there under whatever code. The set of work orders
  of a panel is finite in every reachable state (`OrdersFinite`), as the
  cardinalities need; the set of ids need not be.

Only model-checked: the two liveness properties (`SubmittedReportReachesReview`,
`ClosedPmGetsDates`), which need fairness and ENABLED and are out of the prover's
reach beyond `SecondCommitsInHand`. Every other property of a passing run is a
theorem. `NumbersTypeOK`, `OwnNumberFree` and `OrderPanelsExist` are theorems
without a run of their own; TLC agrees when they are added to `catalogue.cfg`. The sentences of section 5 are false and TLC finds the behaviours.

## 5. Where the code and its documents differ

`pm_submit_cut` is the run of a disagreement that is a fault of its own: a
submitted report whose work order no retry brings to review (`findings`).
`NextNumberIsFree` is another. Numbers are unique over all panels and made of the
panel's code, but counted by `panel_id` (`README.md:402`). When a code is PATCHed
and another panel takes the old one, that panel counts from one into numbers that
are taken; every create of its type is refused by `uk_work_orders_no`, and since a
refused create adds nothing to the count, so is every retry as long as the panel
keeps that code.

It and seven others contradict a sentence of the repository. The modules state
that sentence, and TLC finds it violated when it is added to a configuration:

| statement | add to | the code | the sentence |
|---|---|---|---|
| `PendingReviewable` | `cm_review.cfg`, INVARIANT | `cm_report.go:309`: submitting a CM report asks for no status, so a CM reviewed on its newest round is PENDING_APPROVAL again and cannot be decided | `doc/api/01-work-orders.md:315`: a review is possible when the status is `PENDING_APPROVAL` |
| `EscalationNamesOther` | `cm_review.cfg`, INVARIANT | `wo_approval.go:325`: the search for an open CM of the topic finds the CM under review | `wo_approval.go:42-43`: the issue "must become its own CM work order" |
| `NextNumberIsFree` | `catalogue.cfg`, INVARIANT | `repository/work_order.go:322`: the number is the panel's present code and the count of the panel's work orders plus one | `queries/work_orders.sql:33`: "Next sequence for work_order_no on a panel (TYPE-PANEL_CODE-0001)" |
| `MonitoredUntilLastCmCloses` | `cm_devices.cfg`, INVARIANT | `service/panel_device.go:195`: a heartbeat, or a PATCH of the device, says NORMAL without a look at the CMs; `repository/panel_device_cm_sync.go:83`: a review counts the open CMs before it writes NORMAL, and takes no lock | `doc/api/04-panels-devices.md:86`: MONITORING until the last CM closes |
| `CancelLeavesCritical` | `cm_devices.cfg`, PROPERTY | `repository/panel_device_cm_sync.go:110`: health is read, then updated by id; an alarm in between is lost | `doc/api/04-panels-devices.md:88`: CRITICAL is not touched |
| `OnlyCmWarningsCleared` | `cm_devices.cfg`, PROPERTY | `repository/panel_device_cm_sync.go:110`: the row does not tell who set its WARNING; a cancellation clears the collector's too | `doc/api/04-panels-devices.md:88` and `repository/panel_device_cm_sync.go:94`: only a WARNING that a CM has set is cleared |
| `SubmitMeetsSchedule` | `pm_records.cfg`, PROPERTY | `pm_report.go:204`: schedule, power test and calibrations are read before the UPDATE that checks only the draft | `doc/api/01-work-orders.md:190`: a submit uses the latest value on the work order |
| `SwapsWholeSheet` | `reading_sheet.cfg`, INVARIANT | `repository/calibration.go:256`: the DELETE of one replacement does not see the rows another inserts | `repository/calibration.go:247`: "swaps the whole reading sheet of a calibration atomically" |

Met while modelling, visible in the modules, without a statement of their own:

* Soft delete writes no activity row although `CANCELLED` is an action of the
  log (`migrations/000006_…up.sql:203`) and `work_order_round.go:17-19` says the
  timeline always matches reality; `LoggedUnlessCancelled` states what is left.
* A CM submit that races a rework stamps the new round, which has no report.
* PM dates are lost when the request ends after the decision (`README.md:558`).
* A repair opened from a PM (`EscalateFromPm`, `CreateOnsiteFix`) adds its topics
  in a second transaction that does not search for duplicates; when a PATCH has
  removed one in between and another CM taken it, two open CMs cover the topic,
  which `README.md:560` rules out. `OneOpenCmPerTopic` excepts it by `unchecked`.
* `RecalcPanelDeviceCmStatusQ` writes WARNING over CRITICAL whenever another CM
  is open on the device, with no race needed; `doc/api/04-panels-devices.md:90`
  says it leaves CRITICAL alone.
* A PATCH of topics checks the report's topic before it takes the lock. A report
  saved in between keeps a topic its work order no longer lists.
* A PATCH of the schedule from SIX_MONTH to THREE_MONTH keeps the linked
  calibrations, though `checkPmLink` (`service/calibration.go:446`) says that they
  only ever belong to a SIX_MONTH PM.
* Two PATCHes of a calibration, one of its work order and one of its report, each
  check their link with the other's old value and leave a report of another work
  order; `LinksResolve` excepts it by `crossed`.
* Closing an escalation that lost against another reviewer leaves the CM it had
  created.
* Sheets: `AddReading` does not ask for the limit of 500 readings
  (`service/calibration.go:20`), and a reading numbered 32767 leaves no automatic
  number for the next.
* Files: the comment at `repository/attachment.go:97` says that the object is
  deleted before the row; the service deletes the row first. An attachment
  outlives the record it belongs to. The clean-up after a failed insert runs on
  the request's own context, so a client that left leaves the object.
* Sessions: a password set by an administrator's PATCH ends no session; the
  sessions of a deactivated user come back with the restore; the check of the old
  password is not repeated in the UPDATE; a login name can be the code of one user
  and the email of another.
* Catalogue: `ProblemTopicService.RequireUsable` and the repository's
  `Usability` are called by nobody. PM power tests name instruments nobody has
  checked, and their foreign key is missing in `instrumentDeleteConstraints`. A
  device can be moved to another panel while a CM is open on it.
* The status of a panel is computed twice, and `repository/panel_status.go:4` says
  that the SQL mirrors `domain.DeviceOperationalStatus`: a device that is OFFLINE
  with health WARNING is ABNORMAL for the Go code and MONITORING for the SQL.

## 6. Plan

1. (done) `WorkOrderLifecycle`, `ReviewFlow`, their runs and first proofs.
2. (done) `CmPanel`: topics, the panel lock and device health, with their proofs.
3. (done) `PmRecords`: the content of a report, its schedule rule, save against
   submit, and the links of calibrations, with their proofs.
4. (done) `Sessions`, `Files`, `ReadingSheet`, `Certificates`, `Catalogue`, with
   their proofs.
5. (done) `WorkOrderNumbers` on the panels of `Catalogue`, with its proofs.
6. (done) The refinement of `ReviewFlow`, the escalations and the safety half of
   liveness, proved.
7. Open: the pure functions of the dashboard and the panel status, each against a
   reference definition; an abstract promise for the other components, as
   `ReviewFlow` is for the PMs.

Runs are kept few: one per module and question, with the bounds above. Statements
that only repeat a disagreement have no run; section 5 says how to see them.

## 7. Not modelled

Generated query code is not modelled as such: its SQL is what the actions
translate. HTTP parsing and validation only decide which requests reach a
service. Notifications are rows with one flag, the audit log
and metrics are written best effort and read by nothing here, the rate limiter is
a map of token buckets of a library. The dashboard, the lists of the views and
the derived panel status read and change nothing. Start-up and configuration have
no state to check. `PROJECT.json` names each under `components`.

Left out inside the modelled parts: descriptive fields, `sort_order`, captions and
metadata of images, presigned links, `uk_instrument_serial`, the clock skew of
dates, and the list queries. The several checks of one request about unrelated
rows are one read in `Certificates`.
