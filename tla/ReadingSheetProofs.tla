------------------------- MODULE ReadingSheetProofs -------------------------
(***************************************************************************)
(* Proofs about ReadingSheet for any calibrations, requests, sequence      *)
(* numbers and rows.                                                       *)
(*                                                                         *)
(* A replacement in flight is described by what it has seen: rows that had *)
(* their ids before it copies its own, and, as long as no other            *)
(* replacement of the sheet has committed, every row of it that came with  *)
(* a sheet.                                                                *)
(***************************************************************************)
EXTENDS ReadingSheet, FiniteSetTheorems, TLAPS

USE DEF vars

Sheets == UNION {[1 .. n -> SequenceNos] : n \in 0 .. MaxReadings}

Distinct(sheet) == \A i, j \in DOMAIN sheet : sheet[i] = sheet[j] => i = j

\* A request works on a calibration that was there when it began.
Begun(o) ==
    /\ o.kind = "idle" => o = Idle
    /\ o.kind # "idle" => o.cal \in Calibrations /\ calibration[o.cal] # None
    /\ o.kind = "add" => o.seq \in SequenceNos
    /\ o.kind = "replace" => Distinct(o.sheet) /\ o.seen \subseteq 1 .. lastId

\* What a replacement has not seen is a row added alone, unless it was overtaken.
SeenAll(o) ==
    o.kind = "replace" /\ ~o.overtaken =>
        \A i \in RowIds : reading[i].cal = o.cal /\ reading[i].sheet # 0 => i \in o.seen

Requests == \A c \in Clients : Begun(op[c]) /\ SeenAll(op[c])

Inv == TypeOK /\ Requests /\ SequencesUnique /\ ReadingsOwned /\ OneSheet

-----------------------------------------------------------------------------
(***************************************************************************)
(* Sheets                                                                  *)
(***************************************************************************)

LEMMA Bounds ==
  /\ MaxSequence \in Nat /\ MaxSequence >= 1 /\ MaxReadings \in Nat
  /\ MaxReadings <= MaxSequence /\ MaxRows \in Nat /\ None \notin Calibrations
  /\ \A i \in RowIds : i \in Nat /\ i >= 1 /\ i <= MaxRows
  /\ \A n \in SequenceNos : n \in Nat /\ n # 0
BY SheetAssumption DEF None, RowIds, SequenceNos

LEMMA IdleOp ==
  Idle \in Op /\ Idle.kind = "idle" /\ NoRow \in ReadingRows /\ NoRow.cal = None
<1>1. <<>> \in [1 .. 0 -> SequenceNos] OBVIOUS
<1>2. <<>> \in Sheets BY <1>1, Bounds DEF Sheets
<1> QED BY <1>2, Bounds DEF Idle, Op, Sheets, NoRow, ReadingRows

LEMMA SheetLength ==
  ASSUME NEW S, NEW n \in Nat, NEW s \in [1 .. n -> S]
  PROVE  Len(s) = n /\ DOMAIN s = 1 .. n /\ (n # 0 => s # <<>>)
OBVIOUS

LEMMA SheetTyped ==
  ASSUME NEW s \in Sheets
  PROVE  /\ Len(s) \in Nat /\ s \in [1 .. Len(s) -> SequenceNos]
         /\ DOMAIN s = 1 .. Len(s) /\ (Len(s) # 0 => s # <<>>)
<1>1. PICK n \in 0 .. MaxReadings : s \in [1 .. n -> SequenceNos] BY DEF Sheets
<1>2. n \in Nat BY Bounds
<1>3. Len(s) = n /\ DOMAIN s = 1 .. n /\ (n # 0 => s # <<>>) BY <1>1, <1>2, SheetLength
<1> QED BY <1>1, <1>2, <1>3

\* buildReadingRows: as many rows as were sent, with different numbers.
LEMMA BuiltRowsTyped ==
  ASSUME NEW sent \in Sent, Accepted(sent)
  PROVE  /\ BuiltRows(sent) \in Sheets /\ Distinct(BuiltRows(sent))
         /\ Len(BuiltRows(sent)) = Len(sent)
<1>1. PICK n \in 0 .. MaxReadings : sent \in [1 .. n -> 0 .. MaxSequence] BY DEF Sent
<1>2. n \in Nat /\ n <= MaxSequence BY Bounds
<1>3. Len(sent) = n /\ DOMAIN sent = 1 .. n BY <1>1, <1>2, SheetLength
<1>4. BuiltRows(sent) \in [1 .. n -> SequenceNos] /\ Distinct(BuiltRows(sent))
  <2>1. CASE Supplied(sent) = {}
    <3>1. BuiltRows(sent) = [i \in 1 .. n |-> i] BY <2>1, <1>3 DEF BuiltRows
    <3>2. \A i \in 1 .. n : i \in SequenceNos BY <1>2, Bounds DEF SequenceNos
    <3> QED BY <3>1, <3>2 DEF Distinct
  <2>2. CASE Supplied(sent) # {}
    <3>1. BuiltRows(sent) = sent BY <2>2 DEF BuiltRows
    <3>2. Supplied(sent) = 1 .. n BY <2>2, <1>3 DEF Accepted
    <3>3. \A i \in 1 .. n : sent[i] # 0 /\ sent[i] \in 0 .. MaxSequence
      BY <3>2, <1>1 DEF Supplied
    <3>4. \A i \in 1 .. n : sent[i] \in SequenceNos BY <3>3, Bounds DEF SequenceNos
    <3>5. Distinct(sent) BY <1>3, <3>2 DEF Accepted, Distinct
    <3> QED BY <1>1, <3>1, <3>4, <3>5
  <2> QED BY <2>1, <2>2
<1>5. BuiltRows(sent) \in Sheets BY <1>4 DEF Sheets
<1>6. Len(BuiltRows(sent)) = n BY <1>2, <1>4, SheetLength
<1> QED BY <1>3, <1>4, <1>5, <1>6

\* A nonempty bounded set of numbers has a greatest element.  The sets of the
\* elements above one of its elements have a least one, the empty set.
LEMMA GreatestElement ==
  ASSUME NEW N \in Nat, NEW T \in SUBSET (0 .. N), T # {}
  PROVE  \E x \in T : \A y \in T : y <= x
<1> DEFINE Above(n) == {m \in T : m > n}
           Sets == {Above(n) : n \in T}
           R == StrictSubsetOrdering(T)
           F == FiniteSubsetsOf(T)
<1>1. IsFiniteSet(T)
  <2>1. 0 \in Int /\ N \in Int OBVIOUS
  <2>2. IsFiniteSet(0 .. N) BY <2>1, FS_Interval
  <2> QED BY <2>2, FS_Subset
<1>2. \A n \in T : Above(n) \in F
  BY <1>1, FS_Subset DEF FiniteSubsetsOf
<1>3. Sets \subseteq F /\ Sets # {} BY <1>2
<1>4. IsWellFoundedOn(R, F) BY FS_StrictSubsetOrderingWellFounded
<1>5. \E s \in Sets : \A t \in Sets : <<t, s>> \notin R
  <2> HIDE DEF Sets, R, F
  <2> QED BY <1>3, <1>4, WFMin
<1>6. PICK x \in T : \A z \in T : <<Above(z), Above(x)>> \notin R BY <1>5
<1>7. ASSUME NEW y \in T, ~(y <= x) PROVE FALSE
  <2>1. x \in Nat /\ y \in Nat OBVIOUS
  <2>2. y \in Above(x) /\ y \notin Above(y) BY <1>7, <2>1
  <2>3. \A m \in Above(y) : m \in Above(x) BY <1>7, <2>1
  <2>4. Above(y) \in SUBSET T /\ Above(x) \in SUBSET T OBVIOUS
  <2>5. \A A, B \in SUBSET T : A \subseteq B /\ A # B => <<A, B>> \in R
    BY DEF StrictSubsetOrdering
  <2>6. Above(y) \subseteq Above(x) /\ Above(y) # Above(x)
    <3> HIDE DEF Above
    <3> QED BY <2>2, <2>3
  <2>7. <<Above(y), Above(x)>> \in R
    <3> HIDE DEF Above, R
    <3> QED BY <2>4, <2>5, <2>6
  <2> QED BY <1>6, <2>7
<1> QED BY <1>7

\* NextCalibrationReadingSequence: above every number in use, and the least one
\* is 1.
LEMMA NextIsAbove ==
  ASSUME TypeOK, NEW k \in Calibrations
  PROVE  /\ NextSequence(k) \in Nat /\ NextSequence(k) >= 1
         /\ SequenceFree(k, {}, NextSequence(k))
<1> DEFINE T == SequencesOf(RowsOf(k)) \union {0}
<1>1. \A i \in RowsOf(k) : reading[i].seq \in 0 .. MaxSequence
  <2> SUFFICES ASSUME NEW i \in RowsOf(k) PROVE reading[i].seq \in 0 .. MaxSequence
    OBVIOUS
  <2>1. reading[i] \in ReadingRows BY DEF TypeOK, RowsOf
  <2> QED BY <2>1, Bounds DEF ReadingRows, NoRow, SequenceNos
<1>2. T \in SUBSET (0 .. MaxSequence) /\ T # {} BY <1>1, Bounds DEF SequencesOf
<1>3. PICK x \in T : \A y \in T : y <= x BY <1>2, Bounds, GreatestElement
<1>4. \A m \in SequencesOf(RowsOf(k)) : m <= x BY <1>3
<1>5. /\ HighestOf(RowsOf(k)) \in 0 .. MaxSequence
      /\ \A m \in SequencesOf(RowsOf(k)) : m <= HighestOf(RowsOf(k))
  BY <1>2, <1>3, <1>4 DEF HighestOf
<1>6. \A m \in SequencesOf(RowsOf(k)) : m \in Nat BY <1>2
<1> QED BY <1>5, <1>6, Bounds DEF NextSequence, SequenceFree

-----------------------------------------------------------------------------
(***************************************************************************)
(* What a step does to the rows                                            *)
(***************************************************************************)

\* The rows of a sheet copied into k over a table that has lost those of gone.
Copied(k, gone, sheet) ==
    \A i \in RowIds :
        /\ i \in lastId + 1 .. lastId + Len(sheet) =>
               /\ reading'[i].cal = k /\ reading'[i].sheet = lastId + 1
               /\ reading'[i].seq = sheet[i - lastId]
        /\ i \notin lastId + 1 .. lastId + Len(sheet) =>
               reading'[i] = IF i \in gone THEN NoRow ELSE reading[i]

LEMMA CopyTyped ==
  ASSUME TypeOK, NEW k \in Calibrations, NEW gone, NEW sheet \in Sheets,
         Room(Len(sheet)), CopyInto(k, gone, sheet), lastId' = lastId + Len(sheet)
  PROVE  /\ reading' \in [RowIds -> ReadingRows] /\ lastId' \in 0 .. MaxRows
         /\ lastId' >= lastId
         /\ \A i \in RowIds : i > lastId' => reading'[i] = NoRow
         /\ Copied(k, gone, sheet)
<1> DEFINE n == Len(sheet)
<1>1. n \in Nat /\ sheet \in [1 .. n -> SequenceNos] BY SheetTyped
<1>2. lastId \in Nat /\ lastId + n \in 0 .. MaxRows BY <1>1, Bounds DEF TypeOK, Room
<1>3. \A i \in RowIds : reading'[i] =
          IF i \in lastId + 1 .. lastId + n
          THEN [cal |-> k, seq |-> sheet[i - lastId], sheet |-> lastId + 1]
          ELSE IF i \in gone THEN NoRow ELSE reading[i]
  BY DEF CopyInto
<1>4. Copied(k, gone, sheet)
  <2> SUFFICES ASSUME NEW i \in RowIds
               PROVE  /\ i \in lastId + 1 .. lastId + n =>
                             /\ reading'[i].cal = k /\ reading'[i].sheet = lastId + 1
                             /\ reading'[i].seq = sheet[i - lastId]
                      /\ i \notin lastId + 1 .. lastId + n =>
                             reading'[i] = IF i \in gone THEN NoRow ELSE reading[i]
    BY DEF Copied
  <2> HIDE DEF n
  <2>1. CASE i \in lastId + 1 .. lastId + n
    <3>1. reading'[i] = [cal |-> k, seq |-> sheet[i - lastId], sheet |-> lastId + 1]
      BY <1>3, <2>1
    <3> QED BY <2>1, <3>1
  <2>2. CASE i \notin lastId + 1 .. lastId + n BY <1>3, <2>2
  <2> QED BY <2>1, <2>2
<1> HIDE DEF n
<1>5. ASSUME NEW i \in lastId + 1 .. lastId + n
      PROVE  [cal |-> k, seq |-> sheet[i - lastId], sheet |-> lastId + 1] \in ReadingRows
  <2>1. i - lastId \in 1 .. n /\ lastId + 1 \in 0 .. MaxRows BY <1>1, <1>2, Bounds
  <2>2. sheet[i - lastId] \in SequenceNos BY <1>1, <2>1
  <2> QED BY <2>1, <2>2 DEF ReadingRows
<1>6. \A i \in RowIds : reading'[i] \in ReadingRows
  BY <1>3, <1>5, IdleOp DEF TypeOK
<1>7. reading' \in [RowIds -> ReadingRows] BY <1>6 DEF CopyInto
<1>8. ASSUME NEW i \in RowIds, i > lastId' PROVE reading'[i] = NoRow
  <2>1. i \in Nat /\ i > lastId /\ i \notin lastId + 1 .. lastId + n
    BY <1>1, <1>2, <1>8, Bounds DEF n
  <2> QED BY <1>3, <2>1 DEF TypeOK
<1> QED BY <1>1, <1>2, <1>4, <1>7, <1>8 DEF n

\* The copied rows keep the numbers of k unique if they are free.
LEMMA CopyUnique ==
  ASSUME Inv, NEW k \in Calibrations, NEW gone, NEW sheet \in Sheets, Distinct(sheet),
         Copied(k, gone, sheet), \A i \in DOMAIN sheet : SequenceFree(k, gone, sheet[i])
  PROVE  SequencesUnique'
<1> DEFINE New(i) == i \in lastId + 1 .. lastId + Len(sheet)
<1>1. Len(sheet) \in Nat /\ DOMAIN sheet = 1 .. Len(sheet) /\ lastId \in Nat
  BY SheetTyped, Bounds DEF Inv, TypeOK
<1>2. SUFFICES ASSUME NEW q \in Calibrations, NEW i \in RowIds, NEW j \in RowIds,
                      reading'[i].cal = q, reading'[j].cal = q,
                      reading'[i].seq = reading'[j].seq
               PROVE  i = j
  BY DEF SequencesUnique, RowsOf
<1>3. ASSUME NEW p \in RowIds, New(p)
      PROVE  p - lastId \in DOMAIN sheet /\ reading'[p].seq = sheet[p - lastId]
             /\ reading'[p].cal = k /\ p \in Nat
  BY <1>1, <1>3, Bounds DEF Copied
<1>4. ASSUME NEW p \in RowIds, ~New(p), reading'[p].cal = q
      PROVE  p \notin gone /\ reading'[p] = reading[p] /\ p \in RowsOf(q)
  BY <1>4, IdleOp, Bounds DEF Copied, RowsOf
<1>5. ASSUME NEW m \in RowIds, NEW p \in RowIds, New(m), ~New(p),
             reading'[m].cal = q, reading'[p].cal = q
      PROVE  reading'[m].seq # reading'[p].seq
  <2>1. q = k /\ m - lastId \in DOMAIN sheet /\ reading'[m].seq = sheet[m - lastId]
    BY <1>3, <1>5
  <2>2. p \in RowsOf(k) \ gone /\ reading'[p] = reading[p] BY <1>4, <1>5, <2>1
  <2>3. reading[p].seq \in SequencesOf(RowsOf(k) \ gone) BY <2>2 DEF SequencesOf
  <2> HIDE DEF New
  <2> QED BY <2>1, <2>2, <2>3 DEF SequenceFree
<1> HIDE DEF New
<1>6. CASE New(i) /\ New(j)
  <2>1. i - lastId = j - lastId BY <1>2, <1>3, <1>6 DEF Distinct
  <2> QED BY <2>1, <1>1, <1>3, <1>6
<1>7. CASE ~New(i) /\ ~New(j) BY <1>2, <1>4, <1>7 DEF Inv, SequencesUnique
<1>8. CASE New(i) /\ ~New(j) BY <1>2, <1>5, <1>8
<1>9. CASE ~New(i) /\ New(j) BY <1>2, <1>5, <1>9
<1> QED BY <1>6, <1>7, <1>8, <1>9

LEMMA CopyOwned ==
  ASSUME Inv, NEW k \in Calibrations, NEW gone, NEW sheet \in Sheets,
         Copied(k, gone, sheet), Len(sheet) # 0 => calibration'[k] = "LIVE",
         \A q \in Calibrations : calibration[q] = "LIVE" => calibration'[q] = "LIVE"
  PROVE  ReadingsOwned'
<1> SUFFICES ASSUME NEW i \in RowIds, reading'[i] # NoRow
             PROVE  calibration'[reading'[i].cal] = "LIVE"
  BY DEF ReadingsOwned
<1>1. lastId \in Nat /\ Len(sheet) \in Nat BY SheetTyped, Bounds DEF Inv, TypeOK
<1>2. CASE i \in lastId + 1 .. lastId + Len(sheet)
  BY <1>1, <1>2 DEF Copied
<1>3. CASE i \notin lastId + 1 .. lastId + Len(sheet)
  <2>1. reading'[i] = reading[i] /\ reading[i] # NoRow BY <1>3 DEF Copied
  <2>2. calibration[reading[i].cal] = "LIVE" BY <2>1 DEF Inv, ReadingsOwned
  <2>3. reading[i].cal \in Calibrations
    BY <2>1 DEF Inv, TypeOK, ReadingRows
  <2> QED BY <2>1, <2>2, <2>3
<1> QED BY <1>2, <1>3

\* A copied sheet is the only one of k if all rows that came with one are gone.
LEMMA CopyOneSheet ==
  ASSUME Inv, NEW k \in Calibrations, NEW gone, NEW sheet \in Sheets,
         Copied(k, gone, sheet),
         \A q \in Calibrations \ {k} : mixed'[q] = mixed[q],
         ~mixed'[k] => \A i \in RowsOf(k) : reading[i].sheet # 0 => i \in gone
  PROVE  OneSheet'
<1> SUFFICES ASSUME NEW q \in Calibrations, NEW i \in RowIds, NEW j \in RowIds,
                    reading'[i].cal = q, reading'[j].cal = q,
                    reading'[i].sheet # 0, reading'[j].sheet # 0, ~mixed'[q]
             PROVE  reading'[i].sheet = reading'[j].sheet
  BY DEF OneSheet, RowsOf
<1> DEFINE New(p) == p \in lastId + 1 .. lastId + Len(sheet)
<1>1. ASSUME NEW p \in RowIds, reading'[p].cal = q, ~New(p)
      PROVE  p \notin gone /\ reading'[p] = reading[p] /\ p \in RowsOf(q)
  BY <1>1, IdleOp, Bounds DEF Copied, RowsOf
<1>2. \A p \in RowIds : New(p) => reading'[p].cal = k /\ reading'[p].sheet = lastId + 1
  BY DEF Copied
<1> HIDE DEF New
<1>3. CASE q = k
  <2>1. New(i) /\ New(j) BY <1>1, <1>3
  <2> QED BY <1>2, <2>1
<1>4. CASE q # k
  <2>1. ~New(i) /\ ~New(j) BY <1>2, <1>4
  <2> QED BY <1>1, <1>4, <2>1 DEF Inv, OneSheet
<1> QED BY <1>3, <1>4

-----------------------------------------------------------------------------
LEMMA InitInv == Init => Inv
<1> SUFFICES ASSUME Init PROVE Inv OBVIOUS
<1>1. TypeOK BY IdleOp, Bounds DEF Init, TypeOK
<1>2. \A k \in Calibrations : RowsOf(k) = {} BY IdleOp, Bounds DEF Init, RowsOf
<1>3. SequencesUnique /\ OneSheet BY <1>2 DEF SequencesUnique, OneSheet
<1>4. ReadingsOwned BY DEF Init, ReadingsOwned
<1>5. Requests BY IdleOp DEF Init, Requests, Begun, SeenAll
<1> QED BY <1>1, <1>3, <1>4, <1>5 DEF Inv

\* A step that keeps the calibrations and ids handed out, drops rows or changes
\* the number of one, leaves the requests as they are.
LEMMA RowsShrink ==
  ASSUME Inv, UNCHANGED <<lastId, op, mixed>>,
         calibration' \in [Calibrations -> {None, "LIVE", "DELETED"}],
         \A q \in Calibrations : calibration[q] # None => calibration'[q] # None,
         reading' \in [RowIds -> ReadingRows],
         \A i \in RowIds : \/ reading'[i] = NoRow
                           \/ /\ reading'[i].cal = reading[i].cal
                              /\ reading'[i].sheet = reading[i].sheet
                              /\ reading[i] # NoRow
  PROVE  TypeOK' /\ Requests' /\ OneSheet'
<1>1. TypeOK' BY DEF Inv, TypeOK
<1>2. Requests'
  <2> SUFFICES ASSUME NEW c \in Clients PROVE (Begun(op[c]) /\ SeenAll(op[c]))'
    BY DEF Requests
  <2>1. Begun(op[c]) /\ SeenAll(op[c]) BY DEF Inv, Requests
  <2>2. Begun(op[c])' BY <2>1 DEF Begun
  <2>3. SeenAll(op[c])' BY <2>1, <2>2, IdleOp, Bounds DEF SeenAll, Begun
  <2> QED BY <2>2, <2>3
<1>3. OneSheet'
  BY IdleOp, Bounds DEF Inv, OneSheet, RowsOf
<1> QED BY <1>1, <1>2, <1>3

LEMMA CreateInv ==
  ASSUME Inv, NEW k \in Calibrations, NEW sent \in Sent, CreateWithReadings(k, sent)
  PROVE  Inv'
<1> DEFINE sheet == BuiltRows(sent)
<1>1. sheet \in Sheets /\ Distinct(sheet) /\ Len(sheet) = Len(sent)
  BY BuiltRowsTyped DEF CreateWithReadings
<1> HIDE DEF sheet
<1>2. /\ CopyInto(k, {}, sheet) /\ Room(Len(sheet)) /\ lastId' = lastId + Len(sheet)
      /\ UNCHANGED <<op, mixed>> /\ calibration[k] = None
      /\ calibration' = [calibration EXCEPT ![k] = "LIVE"]
  BY <1>1 DEF CreateWithReadings, sheet
<1>3. /\ reading' \in [RowIds -> ReadingRows] /\ lastId' \in 0 .. MaxRows
      /\ lastId' >= lastId
      /\ \A i \in RowIds : i > lastId' => reading'[i] = NoRow
      /\ Copied(k, {}, sheet)
  BY <1>1, <1>2, CopyTyped DEF Inv
<1>4. /\ calibration' \in [Calibrations -> {None, "LIVE", "DELETED"}]
      /\ calibration'[k] = "LIVE"
      /\ \A q \in Calibrations : q # k => calibration'[q] = calibration[q]
  BY <1>2 DEF Inv, TypeOK
<1>5. RowsOf(k) = {}
  <2>1. \A i \in RowsOf(k) : reading[i] # NoRow BY IdleOp, Bounds DEF RowsOf
  <2> QED BY <1>2, <2>1 DEF Inv, ReadingsOwned, RowsOf, None
<1>6. TypeOK' BY <1>2, <1>3, <1>4 DEF Inv, TypeOK
<1>7. Requests'
  <2> SUFFICES ASSUME NEW c \in Clients PROVE (Begun(op[c]) /\ SeenAll(op[c]))'
    BY DEF Requests
  <2>1. op'[c] = op[c] /\ Begun(op[c]) /\ SeenAll(op[c]) BY <1>2 DEF Inv, Requests
  <2>2. op[c].kind # "idle" => op[c].cal # k BY <1>2, <2>1 DEF Begun
  <2>3. lastId \in Nat /\ lastId' \in Nat BY <1>3, Bounds DEF Inv, TypeOK
  <2>4. Begun(op[c])' BY <1>3, <1>4, <2>1, <2>2, <2>3 DEF Begun, None
  <2>5. SeenAll(op[c])' BY <1>2, <1>3, <2>1, <2>2 DEF SeenAll, Copied
  <2> QED BY <2>4, <2>5
<1>8. SequencesUnique'
  BY <1>1, <1>3, <1>5, CopyUnique DEF SequenceFree, SequencesOf
<1>9. ReadingsOwned' BY <1>1, <1>2, <1>3, <1>4, CopyOwned DEF None
<1>10. OneSheet' BY <1>1, <1>2, <1>3, <1>5, CopyOneSheet
<1> QED BY <1>6, <1>7, <1>8, <1>9, <1>10 DEF Inv

LEMMA RequestMoves ==
  ASSUME Inv, NEW c \in Clients, NEW o \in Op, Begun(o), SeenAll(o),
         op' = [op EXCEPT ![c] = o], UNCHANGED <<calibration, reading, lastId, mixed>>
  PROVE  Inv'
<1>1. \A d \in Clients : op'[d] = IF d = c THEN o ELSE op[d] BY DEF Inv, TypeOK
<1>2. TypeOK' BY DEF Inv, TypeOK
<1>3. Requests' BY <1>1 DEF Inv, Requests, Begun, SeenAll
<1>4. SequencesUnique' /\ ReadingsOwned' /\ OneSheet'
  BY DEF Inv, SequencesUnique, ReadingsOwned, OneSheet, RowsOf
<1> QED BY <1>2, <1>3, <1>4 DEF Inv

LEMMA ReadAddInv ==
  ASSUME Inv, NEW c \in Clients, NEW k \in Calibrations, NEW sent \in 0 .. MaxSequence,
         ReadAdd(c, k, sent)
  PROVE  Inv'
<1> DEFINE seq == IF sent = 0 THEN NextSequence(k) ELSE sent
           o == [Idle EXCEPT !.kind = "add", !.cal = k, !.seq = seq]
<1>1. /\ op' = [op EXCEPT ![c] = o] /\ UNCHANGED <<calibration, reading, lastId, mixed>>
      /\ seq <= MaxSequence /\ calibration[k] = "LIVE"
  BY DEF ReadAdd
<1>2. seq \in SequenceNos
  <2>1. seq \in Nat /\ seq >= 1 BY NextIsAbove, Bounds DEF Inv
  <2> QED BY <1>1, <2>1, Bounds DEF SequenceNos
<1> HIDE DEF seq
<1>3. o \in Op /\ o.kind = "add" /\ o.cal = k /\ o.seq = seq
  <2>1. seq \in 0 .. MaxSequence BY <1>2 DEF SequenceNos
  <2> QED BY <2>1, IdleOp DEF Idle, Op
<1> HIDE DEF o
<1>4. Begun(o) /\ SeenAll(o) BY <1>1, <1>2, <1>3 DEF Begun, SeenAll, None
<1> QED BY <1>1, <1>3, <1>4, RequestMoves

LEMMA BeginReplaceInv ==
  ASSUME Inv, NEW c \in Clients, NEW k \in Calibrations, NEW sent \in Sent,
         BeginReplace(c, k, sent)
  PROVE  Inv'
<1> DEFINE sheet == BuiltRows(sent)
           o == [Idle EXCEPT !.kind = "replace", !.cal = k, !.sheet = sheet,
                             !.seen = RowsOf(k)]
<1>1. /\ op' = [op EXCEPT ![c] = o] /\ UNCHANGED <<calibration, reading, lastId, mixed>>
      /\ Accepted(sent) /\ calibration[k] = "LIVE"
  BY DEF BeginReplace, DeletedRows
<1>2. sheet \in Sheets /\ Distinct(sheet) BY <1>1, BuiltRowsTyped
<1> HIDE DEF sheet
<1>3. /\ o \in Op /\ o.kind = "replace" /\ o.cal = k /\ o.sheet = sheet
      /\ o.seen = RowsOf(k)
  <2>1. RowsOf(k) \in SUBSET RowIds BY DEF RowsOf
  <2> QED BY <1>2, <2>1, IdleOp DEF Idle, Op, Sheets
<1> HIDE DEF o
<1>4. RowsOf(k) \subseteq 1 .. lastId
  <2>1. \A i \in RowsOf(k) : ~(i > lastId)
    BY IdleOp, Bounds DEF Inv, TypeOK, RowsOf
  <2> QED BY <2>1, Bounds DEF Inv, TypeOK, RowsOf
<1>5. Begun(o) BY <1>1, <1>2, <1>3, <1>4 DEF Begun, None
<1>6. SeenAll(o) BY <1>3 DEF SeenAll, RowsOf
<1> QED BY <1>1, <1>3, <1>5, <1>6, RequestMoves

LEMMA RollbackInv ==
  ASSUME Inv, NEW c \in Clients, Rollback(c)
  PROVE  Inv'
<1>1. op' = [op EXCEPT ![c] = Idle] /\ UNCHANGED <<calibration, reading, lastId, mixed>>
  BY DEF Rollback, Finish
<1>2. Begun(Idle) /\ SeenAll(Idle) BY IdleOp DEF Begun, SeenAll
<1> QED BY <1>1, <1>2, IdleOp, RequestMoves

\* A row added alone belongs to no sheet.
LEMMA AddReadingInv ==
  ASSUME Inv, NEW c \in Clients, AddReading(c)
  PROVE  Inv'
<1> DEFINE k == op[c].cal
           seq == op[c].seq
           r == [cal |-> k, seq |-> seq, sheet |-> 0]
<1>1. k \in Calibrations /\ seq \in SequenceNos
  BY DEF AddReading, Inv, Requests, Begun
<1>2. /\ reading' = [reading EXCEPT ![lastId + 1] = r] /\ lastId' = lastId + 1
      /\ lastId + 1 <= MaxRows /\ calibration[k] = "LIVE"
      /\ op' = [op EXCEPT ![c] = Idle] /\ UNCHANGED <<calibration, mixed>>
      /\ SequenceFree(k, {}, seq)
  BY DEF AddReading, Room, Finish
<1>3. r \in ReadingRows /\ r.cal = k /\ r.seq = seq /\ r.sheet = 0
  BY <1>1, Bounds DEF ReadingRows
<1> HIDE DEF r, k, seq
<1>4. lastId \in Nat /\ lastId + 1 \in RowIds /\ lastId + 1 \in 0 .. MaxRows
  BY <1>2, Bounds DEF Inv, TypeOK, RowIds
<1>5. /\ reading' \in [RowIds -> ReadingRows]
      /\ \A i \in RowIds : reading'[i] = IF i = lastId + 1 THEN r ELSE reading[i]
  BY <1>2, <1>3 DEF Inv, TypeOK
<1>6. \A d \in Clients : op'[d] = IF d = c THEN Idle ELSE op[d]
  BY <1>2 DEF Inv, TypeOK
<1>7. TypeOK'
  <2>1. \A i \in RowIds : i > lastId' => reading'[i] = NoRow
    BY <1>2, <1>4, <1>5, Bounds DEF Inv, TypeOK
  <2>2. op' \in [Clients -> Op] BY <1>2, IdleOp DEF Inv, TypeOK
  <2> QED BY <1>2, <1>4, <1>5, <2>1, <2>2 DEF Inv, TypeOK
<1>8. Requests'
  <2> SUFFICES ASSUME NEW d \in Clients PROVE (Begun(op[d]) /\ SeenAll(op[d]))'
    BY DEF Requests
  <2>1. CASE d = c BY <1>6, <2>1, IdleOp DEF Begun, SeenAll
  <2>2. CASE d # c
    <3>1. op'[d] = op[d] /\ Begun(op[d]) /\ SeenAll(op[d])
      BY <1>6, <2>2 DEF Inv, Requests
    <3>2. Begun(op[d])' BY <1>2, <1>4, <3>1 DEF Begun
    <3>3. SeenAll(op[d])' BY <1>3, <1>5, <3>1 DEF SeenAll
    <3> QED BY <3>2, <3>3
  <2> QED BY <2>1, <2>2
<1>9. SequencesUnique'
  <2> SUFFICES ASSUME NEW q \in Calibrations, NEW i \in RowIds, NEW j \in RowIds,
                      reading'[i].cal = q, reading'[j].cal = q,
                      reading'[i].seq = reading'[j].seq
               PROVE  i = j
    BY DEF SequencesUnique, RowsOf
  <2>1. ASSUME NEW p \in RowIds, reading[p].cal = k PROVE reading[p].seq # seq
    <3>1. p \in RowsOf(k) \ {} BY <2>1 DEF RowsOf
    <3> QED BY <1>2, <3>1 DEF SequenceFree, SequencesOf
  <2> QED BY <1>3, <1>5, <2>1 DEF Inv, SequencesUnique, RowsOf
<1>10. ReadingsOwned' BY <1>2, <1>3, <1>5 DEF Inv, ReadingsOwned
<1>11. OneSheet' BY <1>2, <1>3, <1>5 DEF Inv, OneSheet, RowsOf
<1> QED BY <1>7, <1>8, <1>9, <1>10, <1>11 DEF Inv

LEMMA CommitReplaceInv ==
  ASSUME Inv, NEW c \in Clients, CommitReplace(c)
  PROVE  Inv'
<1> DEFINE k == op[c].cal
           sheet == op[c].sheet
           seen == op[c].seen
<1>1. /\ op[c].kind = "replace" /\ (sheet # <<>> => calibration[k] = "LIVE")
      /\ \A i \in DOMAIN sheet : SequenceFree(k, seen, sheet[i])
      /\ Room(Len(sheet)) /\ CopyInto(k, seen, sheet) /\ lastId' = lastId + Len(sheet)
      /\ mixed' = [mixed EXCEPT ![k] = op[c].overtaken] /\ UNCHANGED calibration
      /\ op' = [d \in Clients |->
                   IF d = c THEN Idle
                   ELSE IF op[d].kind = "replace" /\ op[d].cal = k
                        THEN [op[d] EXCEPT !.overtaken = TRUE]
                        ELSE op[d]]
  BY DEF CommitReplace
<1>2. op[c] \in Op /\ Begun(op[c]) /\ SeenAll(op[c]) BY DEF Inv, TypeOK, Requests
<1>3. /\ k \in Calibrations /\ sheet \in Sheets /\ Distinct(sheet)
      /\ op[c].overtaken \in BOOLEAN
  BY <1>1, <1>2 DEF Begun, Op, Sheets
<1>4. ~op[c].overtaken => \A i \in RowsOf(k) : reading[i].sheet # 0 => i \in seen
  BY <1>1, <1>2 DEF SeenAll, RowsOf
<1> HIDE DEF k, sheet, seen
<1>5. /\ reading' \in [RowIds -> ReadingRows] /\ lastId' \in 0 .. MaxRows
      /\ lastId' >= lastId
      /\ \A i \in RowIds : i > lastId' => reading'[i] = NoRow
      /\ Copied(k, seen, sheet)
  BY <1>1, <1>3, CopyTyped DEF Inv
<1>6. ASSUME NEW d \in Clients
      PROVE  /\ op'[d] \in Op
             /\ d = c => op'[d] = Idle
             /\ d # c => /\ op'[d].kind = op[d].kind /\ op'[d].cal = op[d].cal
                         /\ op'[d].seq = op[d].seq /\ op'[d].sheet = op[d].sheet
                         /\ op'[d].seen = op[d].seen
                         /\ op[d].kind = "idle" => op'[d] = op[d]
                         /\ ~op'[d].overtaken => op'[d] = op[d]
                         /\ ~op'[d].overtaken /\ op[d].kind = "replace" => op[d].cal # k
  <2>1. op[d] \in Op BY DEF Inv, TypeOK
  <2>2. CASE d = c BY <1>1, <2>2, IdleOp
  <2>3. CASE d # c /\ op[d].kind = "replace" /\ op[d].cal = k
    <3>1. op'[d] = [op[d] EXCEPT !.overtaken = TRUE] BY <1>1, <2>3
    <3> QED BY <2>1, <2>3, <3>1 DEF Op
  <2>4. CASE d # c /\ ~(op[d].kind = "replace" /\ op[d].cal = k)
    BY <1>1, <2>1, <2>4
  <2> QED BY <2>2, <2>3, <2>4
<1>7. TypeOK'
  <2>1. op' \in [Clients -> Op] BY <1>1, <1>6
  <2>2. mixed' \in [Calibrations -> BOOLEAN] BY <1>1, <1>3 DEF Inv, TypeOK
  <2> QED BY <1>1, <1>5, <2>1, <2>2 DEF Inv, TypeOK
<1>8. Requests'
  <2> SUFFICES ASSUME NEW d \in Clients PROVE (Begun(op[d]) /\ SeenAll(op[d]))'
    BY DEF Requests
  <2>1. CASE d = c BY <1>6, <2>1, IdleOp DEF Begun, SeenAll
  <2>2. CASE d # c
    <3>1. Begun(op[d]) /\ SeenAll(op[d]) BY DEF Inv, Requests
    <3>2. lastId \in Nat /\ lastId' \in Nat BY <1>5, Bounds DEF Inv, TypeOK
    <3>3. Begun(op[d])' BY <1>1, <1>5, <1>6, <2>2, <3>1, <3>2 DEF Begun
    <3>4. SeenAll(op[d])'
      <4> SUFFICES ASSUME op'[d].kind = "replace", ~op'[d].overtaken, NEW i \in RowIds,
                          reading'[i].cal = op'[d].cal, reading'[i].sheet # 0
                   PROVE  i \in op'[d].seen
        BY DEF SeenAll
      <4>1. op'[d] = op[d] /\ op[d].cal # k /\ op[d].cal \in Calibrations
        BY <1>6, <2>2, <3>1 DEF Begun
      <4>2. reading'[i] = reading[i]
        BY <4>1, <1>5, IdleOp, Bounds DEF Copied
      <4> QED BY <3>1, <4>1, <4>2 DEF SeenAll
    <3> QED BY <3>3, <3>4
  <2> QED BY <2>1, <2>2
<1>9. SequencesUnique' BY <1>1, <1>3, <1>5, CopyUnique
<1>10. ReadingsOwned'
  <2>1. Len(sheet) # 0 => sheet # <<>> BY <1>3, SheetTyped
  <2> QED BY <1>1, <1>3, <1>5, <2>1, CopyOwned
<1>11. OneSheet'
  <2>1. \A q \in Calibrations \ {k} : mixed'[q] = mixed[q]
    BY <1>1, <1>3 DEF Inv, TypeOK
  <2>2. mixed'[k] = op[c].overtaken BY <1>1, <1>3 DEF Inv, TypeOK
  <2> QED BY <1>3, <1>4, <1>5, <2>1, <2>2, CopyOneSheet
<1> QED BY <1>7, <1>8, <1>9, <1>10, <1>11 DEF Inv

LEMMA UpdateReadingInv ==
  ASSUME Inv, NEW i \in RowIds, NEW seq \in SequenceNos, UpdateReading(i, seq)
  PROVE  Inv'
<1>1. /\ UNCHANGED <<calibration, lastId, op, mixed>> /\ reading[i] # NoRow
      /\ reading' = [reading EXCEPT ![i].seq = seq]
      /\ SequenceFree(reading[i].cal, {i}, seq)
  BY DEF UpdateReading
<1>2. reading[i] \in [cal : Calibrations, seq : SequenceNos, sheet : 0 .. MaxRows]
  BY <1>1 DEF Inv, TypeOK, ReadingRows
<1>3. /\ reading' \in [RowIds -> ReadingRows]
      /\ \A j \in RowIds : j # i => reading'[j] = reading[j]
      /\ reading'[i].cal = reading[i].cal /\ reading'[i].sheet = reading[i].sheet
      /\ reading'[i].seq = seq
  <2> DEFINE r == [reading[i] EXCEPT !.seq = seq]
  <2>1. /\ r \in ReadingRows /\ r.cal = reading[i].cal /\ r.sheet = reading[i].sheet
        /\ r.seq = seq
    BY <1>2 DEF ReadingRows
  <2>2. reading' = [reading EXCEPT ![i] = r] BY <1>1
  <2> HIDE DEF r
  <2> QED BY <2>1, <2>2 DEF Inv, TypeOK
<1>4. TypeOK' /\ Requests' /\ OneSheet'
  <2>1. \A j \in RowIds : \/ reading'[j] = NoRow
                          \/ /\ reading'[j].cal = reading[j].cal
                             /\ reading'[j].sheet = reading[j].sheet
                             /\ reading[j] # NoRow
    BY <1>1, <1>3
  <2>2. /\ calibration' \in [Calibrations -> {None, "LIVE", "DELETED"}]
        /\ \A q \in Calibrations : calibration[q] # None => calibration'[q] # None
    BY <1>1 DEF Inv, TypeOK
  <2> QED BY <1>1, <1>3, <2>1, <2>2, RowsShrink
<1>5. SequencesUnique'
  <2> SUFFICES ASSUME NEW q \in Calibrations, NEW m \in RowIds, NEW p \in RowIds,
                      reading'[m].cal = q, reading'[p].cal = q,
                      reading'[m].seq = reading'[p].seq
               PROVE  m = p
    BY DEF SequencesUnique, RowsOf
  <2>1. ASSUME NEW j \in RowIds, j # i, reading[j].cal = reading[i].cal
        PROVE  reading[j].seq # seq
    <3>1. j \in RowsOf(reading[i].cal) \ {i} BY <2>1 DEF RowsOf
    <3> QED BY <1>1, <3>1 DEF SequenceFree, SequencesOf
  <2>2. CASE m # i /\ p # i BY <1>3, <2>2 DEF Inv, SequencesUnique, RowsOf
  <2>3. CASE m = i /\ p # i BY <1>3, <2>1, <2>3
  <2>4. CASE m # i /\ p = i BY <1>3, <2>1, <2>4
  <2> QED BY <2>2, <2>3, <2>4
<1>6. ReadingsOwned' BY <1>1, <1>3 DEF Inv, ReadingsOwned
<1> QED BY <1>4, <1>5, <1>6 DEF Inv

\* Rows that go, with their calibration or without, take nothing else along.
LEMMA LossInv ==
  ASSUME Inv, UNCHANGED <<lastId, op, mixed>>,
         calibration' \in [Calibrations -> {None, "LIVE", "DELETED"}],
         \A q \in Calibrations : calibration[q] # None => calibration'[q] # None,
         reading' \in [RowIds -> ReadingRows],
         \A i \in RowIds :
            \/ reading'[i] = NoRow
            \/ reading'[i] = reading[i] /\ reading[i] # NoRow
               /\ calibration'[reading[i].cal] = calibration[reading[i].cal]
  PROVE  Inv'
<1>1. TypeOK' /\ Requests' /\ OneSheet' BY RowsShrink
<1>2. SequencesUnique' BY IdleOp, Bounds DEF Inv, SequencesUnique, RowsOf
<1>3. ReadingsOwned' BY DEF Inv, ReadingsOwned
<1> QED BY <1>1, <1>2, <1>3 DEF Inv

LEMMA DeleteReadingInv ==
  ASSUME Inv, NEW i \in RowIds, DeleteReading(i)
  PROVE  Inv'
<1>1. /\ UNCHANGED <<lastId, op, mixed, calibration>>
      /\ reading' = [reading EXCEPT ![i] = NoRow]
  BY DEF DeleteReading
<1>2. reading' \in [RowIds -> ReadingRows] BY <1>1, IdleOp DEF Inv, TypeOK
<1>3. /\ calibration' \in [Calibrations -> {None, "LIVE", "DELETED"}]
      /\ \A q \in Calibrations : calibration[q] # None => calibration'[q] # None
  BY <1>1 DEF Inv, TypeOK
<1>4. \A j \in RowIds : reading'[j] = NoRow \/ (reading'[j] = reading[j] /\ reading[j] # NoRow)
  BY <1>1 DEF Inv, TypeOK
<1> QED BY <1>1, <1>2, <1>3, <1>4, LossInv

LEMMA DeleteCalibrationInv ==
  ASSUME Inv, NEW k \in Calibrations, DeleteCalibration(k)
  PROVE  Inv'
<1>1. /\ UNCHANGED <<lastId, op, mixed>>
      /\ calibration' = [calibration EXCEPT ![k] = "DELETED"]
      /\ reading' = [i \in RowIds |-> IF reading[i].cal = k THEN NoRow ELSE reading[i]]
  BY DEF DeleteCalibration
<1>2. reading' \in [RowIds -> ReadingRows] BY <1>1, IdleOp DEF Inv, TypeOK
<1>3. /\ calibration' \in [Calibrations -> {None, "LIVE", "DELETED"}]
      /\ \A q \in Calibrations : q # k => calibration'[q] = calibration[q]
      /\ calibration'[k] # None
  BY <1>1 DEF Inv, TypeOK, None
<1>4. \A i \in RowIds :
          reading'[i] = NoRow
          \/ (reading'[i] = reading[i] /\ reading[i] # NoRow /\ reading[i].cal # k
              /\ reading[i].cal \in Calibrations)
  BY <1>1 DEF Inv, TypeOK, ReadingRows
<1> QED BY <1>1, <1>2, <1>3, <1>4, LossInv

-----------------------------------------------------------------------------
LEMMA NextInv == Inv /\ [Next]_vars => Inv'
<1> SUFFICES ASSUME Inv, [Next]_vars PROVE Inv' OBVIOUS
<1>1. CASE Next
  BY <1>1, CreateInv, ReadAddInv, AddReadingInv, BeginReplaceInv, CommitReplaceInv,
     UpdateReadingInv, DeleteReadingInv, DeleteCalibrationInv, RollbackInv
  DEF Next
<1>2. CASE UNCHANGED vars
  BY <1>2 DEF Inv, TypeOK, Requests, Begun, SeenAll, SequencesUnique, ReadingsOwned,
     OneSheet, RowsOf
<1> QED BY <1>1, <1>2

LEMMA InvAlways == Spec => []Inv
BY InitInv, NextInv, PTL DEF Spec

\* Rows and requests stay in their domains: TypeOK.
THEOREM SheetTypeCorrect == Spec => []TypeOK
<1>1. Inv => TypeOK BY DEF Inv
<1> QED BY <1>1, InvAlways, PTL

\* calibration.go:493: the sequence numbers of a sheet are unique, whatever
\* replacements, added rows and changed numbers cross.
THEOREM NumbersUnique == Spec => []SequencesUnique
<1>1. Inv => SequencesUnique BY DEF Inv
<1> QED BY <1>1, InvAlways, PTL

\* No reading outlives its calibration.
THEOREM OwnedReadings == Spec => []ReadingsOwned
<1>1. Inv => ReadingsOwned BY DEF Inv
<1> QED BY <1>1, InvAlways, PTL

\* repository/calibration.go:247: a sheet is swapped as a whole, unless the newest
\* replacement was overtaken by another.
THEOREM SheetSwapped == Spec => []OneSheet
<1>1. Inv => OneSheet BY DEF Inv
<1> QED BY <1>1, InvAlways, PTL

\* A row added without a number gets one that no row has when it is asked for:
\* one above the greatest.
THEOREM NumbersStartNew == Spec => NumbersAreNew
<1>1. ASSUME Inv, NEW c \in Clients, NEW k \in Calibrations, ReadAdd(c, k, 0)
      PROVE  SequenceFree(k, {}, op'[c].seq)
  <2>1. op'[c].seq = NextSequence(k) BY <1>1 DEF ReadAdd, Inv, TypeOK, Idle
  <2> QED BY <1>1, <2>1, NextIsAbove DEF Inv
<1>2. Inv => \A c \in Clients, k \in Calibrations :
                 ReadAdd(c, k, 0) => SequenceFree(k, {}, op'[c].seq)
  BY <1>1
<1> QED BY <1>2, InvAlways, PTL DEF NumbersAreNew
=============================================================================
