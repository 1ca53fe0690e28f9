---------------------------- MODULE ReadingSheet ----------------------------
(***************************************************************************)
(* The measurement sheet of a calibration: its readings and their          *)
(* sequence numbers.                                                       *)
(*                                                                         *)
(* A sheet is written with its calibration, replaced as a whole, or edited *)
(* row by row.  PUT replaces it in one transaction that deletes and then   *)
(* copies; at READ COMMITTED the DELETE sees the rows committed before it, *)
(* and what another request commits between it and the COPY stays.  So a   *)
(* replacement is two steps here, the DELETE and the rest; every other     *)
(* request is one statement after its reads.                               *)
(***************************************************************************)
EXTENDS Naturals, Sequences, FiniteSets

CONSTANTS
    Calibrations,   \* ids of rtu.calibrations, never used twice
    Clients,        \* concurrent HTTP requests
    MaxSequence,    \* the largest smallint
    MaxReadings,    \* maxReadingsPerCalibration
    MaxRows         \* bound: rows inserted in one behaviour

ASSUME SheetAssumption ==
    /\ MaxSequence \in Nat \ {0}
    /\ MaxReadings \in Nat /\ MaxReadings <= MaxSequence
    /\ MaxRows \in Nat
    /\ "NULL" \notin Calibrations

None == "NULL"

VARIABLES
    calibration,    \* whether rtu.calibrations has the row
    reading,        \* rtu.calibration_readings, by id
    lastId,         \* ids handed out so far
    op,             \* the requests in flight
    mixed           \* history: the last replacement was overtaken by another

vars == <<calibration, reading, lastId, op, mixed>>

RowIds == 1 .. MaxRows
SequenceNos == 1 .. MaxSequence

\* sheet: the id of the first row written with it, 0 for a row added alone.
NoRow == [cal |-> None, seq |-> 0, sheet |-> 0]
ReadingRows == {NoRow} \union
               [cal : Calibrations, seq : SequenceNos, sheet : 0 .. MaxRows]

Idle == [kind |-> "idle", cal |-> None, sheet |-> <<>>, seen |-> {}, seq |-> 0,
         overtaken |-> FALSE]
Op == [kind : {"idle", "add", "replace"}, cal : Calibrations \union {None},
       sheet : UNION {[1 .. n -> SequenceNos] : n \in 0 .. MaxReadings},
       seen : SUBSET RowIds, seq : 0 .. MaxSequence, overtaken : BOOLEAN]

-----------------------------------------------------------------------------
\* ListCalibrationReadings
RowsOf(k) == {i \in RowIds : reading[i].cal = k}

SequencesOf(ids) == {reading[i].seq : i \in ids}

\* What a client may send: a sequence number for each row, 0 when it sends none.
Sent == UNION {[1 .. n -> 0 .. MaxSequence] : n \in 0 .. MaxReadings}

\* buildReadingRows: all numbers or none, all different; none are numbered 1, 2, ...
Supplied(sent) == {i \in DOMAIN sent : sent[i] # 0}

Accepted(sent) ==
    /\ Supplied(sent) \in {{}, DOMAIN sent}
    /\ \A i, j \in Supplied(sent) : sent[i] = sent[j] => i = j

BuiltRows(sent) == IF Supplied(sent) = {} THEN [i \in DOMAIN sent |-> i] ELSE sent

\* NextCalibrationReadingSequence: the cast to smallint fails past the largest.
HighestOf(ids) ==
    CHOOSE n \in 0 .. MaxSequence :
        /\ n \in SequencesOf(ids) \union {0}
        /\ \A m \in SequencesOf(ids) : m <= n
NextAfterCount(k) == Cardinality(RowsOf(k)) + 1
NextSequence(k) == HighestOf(RowsOf(k)) + 1

\* The unique index on calibration_id and sequence, for rows written to k while
\* those of ids go away.
SequenceFreeUnchecked(k, ids, seq) == TRUE
SequenceFree(k, ids, seq) == seq \notin SequencesOf(RowsOf(k) \ ids)

\* A row a replacement has deleted and not committed is locked.
RowFree(i) == \A c \in Clients : i \notin op[c].seen

Init ==
    /\ calibration = [k \in Calibrations |-> None]
    /\ reading = [i \in RowIds |-> NoRow]
    /\ lastId = 0
    /\ op = [c \in Clients |-> Idle]
    /\ mixed = [k \in Calibrations |-> FALSE]

\* BulkCreateCalibrationReadings: COPY of the rows of a sheet with new ids, over
\* a table that has lost the rows of gone.
CopyInto(k, gone, sheet) ==
    reading' = [i \in RowIds |->
                   IF i \in lastId + 1 .. lastId + Len(sheet)
                   THEN [cal |-> k, seq |-> sheet[i - lastId], sheet |-> lastId + 1]
                   ELSE IF i \in gone THEN NoRow ELSE reading[i]]

Room(n) == lastId + n <= MaxRows

Finish(c) == op' = [op EXCEPT ![c] = Idle]

-----------------------------------------------------------------------------
\* CreateWithReadings: one transaction nobody sees before its commit.
CreateWithReadings(k, sent) ==
    /\ calibration[k] = None
    /\ Accepted(sent)
    /\ Room(Len(sent))
    /\ calibration' = [calibration EXCEPT ![k] = "LIVE"]
    /\ CopyInto(k, {}, BuiltRows(sent))
    /\ lastId' = lastId + Len(sent)
    /\ UNCHANGED <<op, mixed>>

\* AddReading: the number of the new row is read before the insert.
ReadAddUnbounded(c, k, sent) ==
    /\ op[c] = Idle
    /\ calibration[k] = "LIVE"
    /\ LET seq == IF sent = 0 THEN NextSequence(k) ELSE sent
       IN op' = [op EXCEPT ![c] = [Idle EXCEPT !.kind = "add", !.cal = k,
                                               !.seq = seq]]
    /\ UNCHANGED <<calibration, reading, lastId, mixed>>
ReadAdd(c, k, sent) ==
    /\ op[c] = Idle
    /\ calibration[k] = "LIVE"
    /\ LET seq == IF sent = 0 THEN NextSequence(k) ELSE sent
       IN /\ seq <= MaxSequence
          /\ op' = [op EXCEPT ![c] = [Idle EXCEPT !.kind = "add", !.cal = k,
                                                  !.seq = seq]]
    /\ UNCHANGED <<calibration, reading, lastId, mixed>>

\* CreateCalibrationReading, under the foreign key and the unique index.
AddReadingUnowned(c) ==
    /\ op[c].kind = "add"
    /\ SequenceFree(op[c].cal, {}, op[c].seq)
    /\ Room(1)
    /\ reading' = [reading EXCEPT ![lastId + 1] =
                      [cal |-> op[c].cal, seq |-> op[c].seq, sheet |-> 0]]
    /\ lastId' = lastId + 1
    /\ Finish(c)
    /\ UNCHANGED <<calibration, mixed>>
AddReading(c) ==
    /\ op[c].kind = "add"
    /\ calibration[op[c].cal] = "LIVE"
    /\ SequenceFree(op[c].cal, {}, op[c].seq)
    /\ Room(1)
    /\ reading' = [reading EXCEPT ![lastId + 1] =
                      [cal |-> op[c].cal, seq |-> op[c].seq, sheet |-> 0]]
    /\ lastId' = lastId + 1
    /\ Finish(c)
    /\ UNCHANGED <<calibration, mixed>>

-----------------------------------------------------------------------------
\* The rows DeleteCalibrationReadingsByCalibration finds when it starts.
DeletedSameNumbers(k, sheet) ==
    {i \in RowsOf(k) : \E j \in DOMAIN sheet : reading[i].seq = sheet[j]}
DeletedRows(k, sheet) == RowsOf(k)

\* ReplaceReadings up to its DELETE.
BeginReplace(c, k, sent) ==
    /\ op[c] = Idle
    /\ Accepted(sent)
    /\ calibration[k] = "LIVE"
    /\ op' = [op EXCEPT ![c] = [Idle EXCEPT !.kind = "replace", !.cal = k,
                                   !.sheet = BuiltRows(sent),
                                   !.seen = DeletedRows(k, BuiltRows(sent))]]
    /\ UNCHANGED <<calibration, reading, lastId, mixed>>

\* Its COPY and commit.  An empty sheet asks the foreign key for nothing.  The
\* other replacements in flight have not seen the rows written here.
CommitReplace(c) ==
    LET k == op[c].cal
        sheet == op[c].sheet
    IN /\ op[c].kind = "replace"
       /\ sheet # <<>> => calibration[k] = "LIVE"
       /\ \A i \in DOMAIN sheet : SequenceFree(k, op[c].seen, sheet[i])
       /\ Room(Len(sheet))
       /\ CopyInto(k, op[c].seen, sheet)
       /\ lastId' = lastId + Len(sheet)
       /\ mixed' = [mixed EXCEPT ![k] = op[c].overtaken]
       /\ op' = [d \in Clients |->
                    IF d = c THEN Idle
                    ELSE IF op[d].kind = "replace" /\ op[d].cal = k
                         THEN [op[d] EXCEPT !.overtaken = TRUE]
                         ELSE op[d]]
       /\ UNCHANGED calibration

-----------------------------------------------------------------------------
\* UpdateReading and DeleteReading by id; the nested paths first ask whether the
\* row belongs to the calibration they name, which no statement changes.
UpdateReading(i, seq) ==
    /\ reading[i] # NoRow
    /\ RowFree(i)
    /\ SequenceFree(reading[i].cal, {i}, seq)
    /\ reading' = [reading EXCEPT ![i].seq = seq]
    /\ UNCHANGED <<calibration, lastId, op, mixed>>

DeleteReading(i) ==
    /\ reading[i] # NoRow
    /\ RowFree(i)
    /\ reading' = [reading EXCEPT ![i] = NoRow]
    /\ UNCHANGED <<calibration, lastId, op, mixed>>

\* The foreign key of the readings cascades.
DeleteCalibration(k) ==
    /\ calibration[k] = "LIVE"
    /\ \A i \in RowsOf(k) : RowFree(i)
    /\ calibration' = [calibration EXCEPT ![k] = "DELETED"]
    /\ reading' = [i \in RowIds |-> IF reading[i].cal = k THEN NoRow ELSE reading[i]]
    /\ UNCHANGED <<lastId, op, mixed>>

\* A violated constraint, a cast that fails, a client that has gone: the
\* transaction is rolled back.
Rollback(c) ==
    /\ op[c] # Idle
    /\ Finish(c)
    /\ UNCHANGED <<calibration, reading, lastId, mixed>>

Next ==
    \/ \E k \in Calibrations, sent \in Sent : CreateWithReadings(k, sent)
    \/ \E c \in Clients, k \in Calibrations, sent \in 0 .. MaxSequence :
           ReadAdd(c, k, sent)
    \/ \E c \in Clients : AddReading(c)
    \/ \E c \in Clients, k \in Calibrations, sent \in Sent : BeginReplace(c, k, sent)
    \/ \E c \in Clients : CommitReplace(c)
    \/ \E i \in RowIds, seq \in SequenceNos : UpdateReading(i, seq)
    \/ \E i \in RowIds : DeleteReading(i)
    \/ \E k \in Calibrations : DeleteCalibration(k)
    \/ \E c \in Clients : Rollback(c)

Spec == Init /\ [][Next]_vars

-----------------------------------------------------------------------------
(* Properties *)

\* Rows and requests stay in their domains, a sequence number is a positive
\* smallint, and ids are handed out in order.
TypeOK ==
    /\ calibration \in [Calibrations -> {None, "LIVE", "DELETED"}]
    /\ reading \in [RowIds -> ReadingRows]
    /\ lastId \in 0 .. MaxRows
    /\ op \in [Clients -> Op]
    /\ mixed \in [Calibrations -> BOOLEAN]
    /\ \A i \in RowIds : i > lastId => reading[i] = NoRow

\* A replacement, an added row and a changed number that cross never leave two
\* readings with one number (calibration.go:493: "they must be unique").
SequencesUnique ==
    \A k \in Calibrations : \A i, j \in RowsOf(k) :
        reading[i].seq = reading[j].seq => i = j

\* No reading outlives its calibration, although the requests that write one
\* have looked for the calibration in an earlier statement.
ReadingsOwned ==
    \A i \in RowIds : reading[i] # NoRow => calibration[reading[i].cal] = "LIVE"

\* repository/calibration.go:247: a replacement "swaps the whole reading sheet".
\* The rows of two sheets are never together, unless the newest replacement began
\* before the one before it had committed; the next one puts that right.
OneSheet ==
    \A k \in Calibrations : \A i, j \in RowsOf(k) :
        reading[i].sheet # 0 /\ reading[j].sheet # 0 /\ ~mixed[k]
            => reading[i].sheet = reading[j].sheet

\* The comment has no exception: the sheet of a calibration is always one sheet.
SwapsWholeSheet ==
    \A k \in Calibrations : \A i, j \in RowsOf(k) :
        reading[i].sheet # 0 /\ reading[j].sheet # 0
            => reading[i].sheet = reading[j].sheet

\* AddReading without a number takes one that no reading of the sheet has at the
\* time it asks, so a client that is refused may simply ask again.
NumbersAreNew ==
    [][\A c \in Clients, k \in Calibrations :
           ReadAdd(c, k, 0) => SequenceFree(k, {}, op'[c].seq)]_vars
=============================================================================
