------------------------- MODULE CertificatesProofs -------------------------
(***************************************************************************)
(* Proofs about Certificates for any calibrations, instruments, requests   *)
(* and days.                                                               *)
(*                                                                         *)
(* CertificateDates follows from the table's own constraint.  For          *)
(* CertificateCovers a request carries its checks with it: until it is     *)
(* marked stale, the instrument it checked still covers the day it will    *)
(* leave in the row, and the row a PATCH leaves alone is the one it read.  *)
(***************************************************************************)
EXTENDS Certificates, TLAPS

USE DEF vars

Covers(i, day) == instrument[i].expires = 0 \/ day <= instrument[i].expires

\* What a request has sent agrees with its kind; a PATCH that checked nothing
\* sends neither an instrument nor a day.
WellFormed(o) ==
    /\ o.kind \in {"create", "patch"} => o.cal \in Calibrations
    /\ o.kind = "create" => o.inst \in Instruments /\ o.day \in Days /\ o.on = o.inst
    /\ o.kind = "patch" /\ o.on = None => o.inst = None /\ o.day = 0
    /\ o.kind = "patch" /\ o.inst # None => o.on = o.inst
    /\ o.kind = "certificate" => o.on \in Instruments
    /\ o.kind = "idle" => o = Idle

RequestsFormed == \A c \in Clients : WellFormed(op[c])

\* The checks of a request that is not stale still stand.
ChecksStand ==
    \A c \in Clients :
        /\ op[c].kind \in {"create", "patch"} /\ op[c].on # None /\ ~op[c].stale
        /\ op[c].kind = "patch" => calibration[op[c].cal].state = "LIVE"
        => /\ Covers(op[c].on, Written(op[c]).day)
           /\ op[c].on = Written(op[c]).inst

\* fk_calibrations_instrument: a live calibration has its instrument, and a
\* request its row or none.
InstrumentsKept ==
    \A k \in Calibrations :
        calibration[k].state = "LIVE" => instrument[calibration[k].inst] # NoInstrument

Inv ==
    /\ TypeOK
    /\ RequestsFormed
    /\ ChecksStand
    /\ InstrumentsKept
    /\ CertificateDates
    /\ CertificateCovers

-----------------------------------------------------------------------------
LEMMA Bounds ==
  /\ MaxDay \in Nat /\ MaxDay >= 1 /\ None \notin Instruments /\ None \notin Calibrations
  /\ NotSent \in Nat /\ NotSent \notin Dates /\ 0 \in Dates
  /\ \A d \in Dates : d \in Nat
  /\ \A d \in Days : d \in Dates /\ d # 0
  /\ \A d \in Dates : d # 0 => d \in Days
BY CertificatesAssumption DEF None, NotSent, Dates, Days

LEMMA IdleOp ==
  /\ Idle \in Op /\ Idle.kind = "idle" /\ Idle.stale = FALSE /\ WellFormed(Idle)
  /\ NoInstrument \in InstrumentRows /\ NoInstrument.expires = 0
  /\ NoInstrument.calibrated = 0
  /\ Unused \in CalibrationRows /\ Unused.state = "UNUSED"
  /\ Deleted \in CalibrationRows /\ Deleted.state = "DELETED"
BY Bounds DEF Idle, Op, WellFormed, NoInstrument, InstrumentRows, Unused, Deleted,
   CalibrationRows

LEMMA InstrumentTypes ==
  ASSUME TypeOK, NEW i \in Instruments
  PROVE  /\ instrument[i].expires \in Dates /\ instrument[i].calibrated \in Dates
         /\ instrument[i] # NoInstrument =>
              instrument[i] \in [state : {"ACTIVE", "INACTIVE"}, calibrated : Dates,
                                 expires : Dates]
<1>1. instrument[i] \in InstrumentRows BY DEF TypeOK
<1> QED BY <1>1, Bounds DEF InstrumentRows, NoInstrument

LEMMA CalibrationTypes ==
  ASSUME TypeOK, NEW k \in Calibrations, calibration[k].state = "LIVE"
  PROVE  /\ calibration[k] \in [state : {"LIVE"}, inst : Instruments, day : Days]
         /\ calibration[k].inst \in Instruments /\ calibration[k].day \in Days
<1>1. calibration[k] \in CalibrationRows BY DEF TypeOK
<1> QED BY <1>1, IdleOp DEF CalibrationRows

LEMMA MarkedTyped ==
  ASSUME NEW ops \in [Clients -> Op], NEW i, NEW k
  PROVE  Marked(ops, i, k) \in [Clients -> Op]
<1>1. \A d \in Clients : [ops[d] EXCEPT !.stale = TRUE] \in Op BY DEF Op
<1> QED BY <1>1 DEF Marked

\* A request is not changed by the writes of others but for its mark.
LEMMA MarkedOps ==
  ASSUME NEW ops \in [Clients -> Op], NEW i, NEW k, NEW c \in Clients
  PROVE  /\ Marked(ops, i, k)[c].kind = ops[c].kind
         /\ Marked(ops, i, k)[c].cal = ops[c].cal
         /\ Marked(ops, i, k)[c].inst = ops[c].inst
         /\ Marked(ops, i, k)[c].day = ops[c].day
         /\ Marked(ops, i, k)[c].on = ops[c].on
         /\ WellFormed(ops[c]) => WellFormed(Marked(ops, i, k)[c])
         /\ ~Marked(ops, i, k)[c].stale =>
                Marked(ops, i, k)[c] = ops[c] /\ (ops[c] = Idle \/ ~Overtaken(ops[c], i, k))
<1>3. CASE ops[c] # Idle /\ Overtaken(ops[c], i, k)
  <2>1. Marked(ops, i, k)[c] = [ops[c] EXCEPT !.stale = TRUE] BY <1>3 DEF Marked
  <2>2. ops[c] \in Op OBVIOUS
  <2>3. WellFormed(ops[c]) => ops[c].kind # "idle" BY <1>3 DEF WellFormed
  <2>4. /\ Marked(ops, i, k)[c].kind = ops[c].kind
        /\ Marked(ops, i, k)[c].cal = ops[c].cal
        /\ Marked(ops, i, k)[c].inst = ops[c].inst
        /\ Marked(ops, i, k)[c].day = ops[c].day
        /\ Marked(ops, i, k)[c].on = ops[c].on
        /\ Marked(ops, i, k)[c].stale
    BY <2>1, <2>2 DEF Op
  <2> QED BY <2>3, <2>4 DEF WellFormed
<1>4. CASE ~(ops[c] # Idle /\ Overtaken(ops[c], i, k))
  BY <1>4 DEF Marked
<1> QED BY <1>3, <1>4

LEMMA InitInv == Init => Inv
<1> SUFFICES ASSUME Init PROVE Inv OBVIOUS
<1>1. TypeOK BY IdleOp DEF Init, TypeOK
<1>2. RequestsFormed /\ ChecksStand BY IdleOp DEF Init, RequestsFormed, ChecksStand
<1>3. InstrumentsKept /\ CertificateCovers
  BY IdleOp DEF Init, InstrumentsKept, CertificateCovers
<1>4. CertificateDates BY IdleOp DEF Init, CertificateDates
<1> QED BY <1>1, <1>2, <1>3, <1>4 DEF Inv

-----------------------------------------------------------------------------
(***************************************************************************)
(* Instruments                                                             *)
(***************************************************************************)

LEMMA CreateInstrumentInv ==
  ASSUME Inv, NEW i \in Instruments, NEW x \in Dates, NEW y \in Dates,
         NEW active \in BOOLEAN, CreateInstrument(i, x, y, active)
  PROVE  Inv'
<1> DEFINE r == [state |-> IF active THEN "ACTIVE" ELSE "INACTIVE",
                 calibrated |-> x, expires |-> y]
<1>1. instrument' = [instrument EXCEPT ![i] = r] /\ UNCHANGED <<calibration, op, excused>>
  BY DEF CreateInstrument
<1>2. /\ r \in InstrumentRows /\ r # NoInstrument /\ r.calibrated = x /\ r.expires = y
      /\ (x = 0 \/ y = 0 \/ y > x)
  BY DEF InstrumentRows, NoInstrument, CreateInstrument, DatesValid
<1> HIDE DEF r
<1>3. /\ instrument' \in [Instruments -> InstrumentRows]
      /\ \A j \in Instruments : instrument'[j] = IF j = i THEN r ELSE instrument[j]
  BY <1>1, <1>2 DEF Inv, TypeOK
<1>4. instrument[i] = NoInstrument /\ \A c \in Clients : op[c].on # i
  BY DEF CreateInstrument
<1>5. TypeOK' BY <1>1, <1>3 DEF Inv, TypeOK
<1>6. \A k \in Calibrations : calibration[k].state = "LIVE" =>
          calibration[k].inst \in Instruments /\ calibration[k].inst # i
  BY <1>4, CalibrationTypes DEF Inv, InstrumentsKept
<1>7. RequestsFormed' BY <1>1 DEF Inv, RequestsFormed
<1>8. ChecksStand'
  <2> SUFFICES ASSUME NEW c \in Clients,
                      op[c].kind \in {"create", "patch"}, op[c].on # None, ~op[c].stale,
                      op[c].kind = "patch" => calibration[op[c].cal].state = "LIVE"
               PROVE  Covers(op[c].on, Written(op[c]).day)' /\ op[c].on = Written(op[c]).inst
    BY <1>1 DEF ChecksStand, Written
  <2>1. Covers(op[c].on, Written(op[c]).day) /\ op[c].on = Written(op[c]).inst
    BY DEF Inv, ChecksStand
  <2>2. op[c].on \in Instruments /\ op[c].on # i BY <1>4 DEF Inv, TypeOK, Op
  <2> QED BY <1>1, <1>3, <2>1, <2>2 DEF Covers, Written
<1>9. InstrumentsKept' /\ CertificateCovers'
  BY <1>1, <1>2, <1>3, <1>6 DEF Inv, InstrumentsKept, CertificateCovers
<1>10. CertificateDates' BY <1>2, <1>3 DEF Inv, CertificateDates
<1> QED BY <1>5, <1>7, <1>8, <1>9, <1>10 DEF Inv

\* An active flag is set, or a certificate gets new dates and what had been
\* checked with it is marked.
LEMMA FlagInv ==
  ASSUME Inv, NEW i \in Instruments, NEW active \in BOOLEAN, SetInstrumentActive(i, active)
  PROVE  Inv'
<1>1. UNCHANGED <<calibration, op, excused>> BY DEF SetInstrumentActive
<1>2. /\ instrument' \in [Instruments -> InstrumentRows]
      /\ \A j \in Instruments :
            /\ instrument'[j].expires = instrument[j].expires
            /\ instrument'[j].calibrated = instrument[j].calibrated
            /\ instrument[j] # NoInstrument => instrument'[j] # NoInstrument
  <2>1. instrument[i] \in [state : {"ACTIVE", "INACTIVE"}, calibrated : Dates,
                           expires : Dates]
    BY InstrumentTypes DEF Inv, SetInstrumentActive
  <2> DEFINE r == [instrument[i] EXCEPT !.state = IF active THEN "ACTIVE" ELSE "INACTIVE"]
  <2>2. /\ r \in InstrumentRows /\ r # NoInstrument
        /\ r.expires = instrument[i].expires /\ r.calibrated = instrument[i].calibrated
    BY <2>1 DEF InstrumentRows, NoInstrument
  <2>3. instrument' = [instrument EXCEPT ![i] = r] BY DEF SetInstrumentActive
  <2> HIDE DEF r
  <2> QED BY <2>2, <2>3 DEF Inv, TypeOK
<1>3. TypeOK' BY <1>1, <1>2 DEF Inv, TypeOK
<1>4. RequestsFormed' BY <1>1 DEF Inv, RequestsFormed
<1>5. ChecksStand'
  <2> SUFFICES ASSUME NEW c \in Clients,
                      op[c].kind \in {"create", "patch"}, op[c].on # None, ~op[c].stale,
                      op[c].kind = "patch" => calibration[op[c].cal].state = "LIVE"
               PROVE  Covers(op[c].on, Written(op[c]).day)' /\ op[c].on = Written(op[c]).inst
    BY <1>1 DEF ChecksStand, Written
  <2>1. Covers(op[c].on, Written(op[c]).day) /\ op[c].on = Written(op[c]).inst
    BY DEF Inv, ChecksStand
  <2>2. op[c].on \in Instruments BY DEF Inv, TypeOK, Op
  <2> QED BY <1>1, <1>2, <2>1, <2>2 DEF Covers, Written
<1>6. InstrumentsKept' /\ CertificateCovers' /\ CertificateDates'
  <2>1. \A k \in Calibrations : calibration[k].state = "LIVE" =>
            calibration[k].inst \in Instruments
    BY CalibrationTypes DEF Inv
  <2> QED BY <1>1, <1>2, <2>1
          DEF Inv, InstrumentsKept, CertificateCovers, CertificateDates
<1> QED BY <1>3, <1>4, <1>5, <1>6 DEF Inv

LEMMA DeleteInstrumentInv ==
  ASSUME Inv, NEW i \in Instruments, DeleteInstrument(i)
  PROVE  Inv'
<1>1. UNCHANGED <<calibration, op, excused>> BY DEF DeleteInstrument
<1>2. /\ instrument' \in [Instruments -> InstrumentRows]
      /\ \A j \in Instruments :
            instrument'[j] = IF j = i THEN NoInstrument ELSE instrument[j]
  BY IdleOp DEF DeleteInstrument, Inv, TypeOK
<1>3. TypeOK' BY <1>1, <1>2 DEF Inv, TypeOK
<1>4. RequestsFormed' BY <1>1 DEF Inv, RequestsFormed
<1>5. ChecksStand'
  <2> SUFFICES ASSUME NEW c \in Clients,
                      op[c].kind \in {"create", "patch"}, op[c].on # None, ~op[c].stale,
                      op[c].kind = "patch" => calibration[op[c].cal].state = "LIVE"
               PROVE  Covers(op[c].on, Written(op[c]).day)' /\ op[c].on = Written(op[c]).inst
    BY <1>1 DEF ChecksStand, Written
  <2>1. Covers(op[c].on, Written(op[c]).day) /\ op[c].on = Written(op[c]).inst
    BY DEF Inv, ChecksStand
  <2>2. op[c].on \in Instruments BY DEF Inv, TypeOK, Op
  <2> QED BY <1>1, <1>2, <2>1, <2>2, IdleOp DEF Covers, Written
<1>6. InstrumentsKept' /\ CertificateCovers' /\ CertificateDates'
  <2>1. \A k \in Calibrations : calibration[k].state = "LIVE" =>
            calibration[k].inst \in Instruments /\ calibration[k].inst # i
    BY CalibrationTypes DEF Inv, DeleteInstrument, CalibrationsOf
  <2> QED BY <1>1, <1>2, <2>1, IdleOp
          DEF Inv, InstrumentsKept, CertificateCovers, CertificateDates
<1> QED BY <1>3, <1>4, <1>5, <1>6 DEF Inv

\* A certificate that is written excuses the calibrations made with its
\* instrument and marks the requests that checked it.
LEMMA CertificateWritten ==
  ASSUME Inv, NEW i \in Instruments, NEW x \in Dates, NEW y \in Dates,
         NEW ops \in [Clients -> Op], \A c \in Clients : ops[c] = op[c] \/ ops[c] = Idle,
         instrument[i] # NoInstrument, x = 0 \/ y = 0 \/ y > x,
         instrument' = [instrument EXCEPT ![i].calibrated = x, ![i].expires = y],
         op' = Marked(ops, i, None), excused' = excused \union CalibrationsOf(i),
         UNCHANGED calibration
  PROVE  Inv'
<1>1. instrument[i] \in [state : {"ACTIVE", "INACTIVE"}, calibrated : Dates,
                         expires : Dates]
  BY InstrumentTypes DEF Inv
<1>2. /\ instrument' \in [Instruments -> InstrumentRows]
      /\ \A j \in Instruments : j # i => instrument'[j] = instrument[j]
      /\ instrument'[i] # NoInstrument
      /\ instrument'[i].calibrated = x /\ instrument'[i].expires = y
  <2> DEFINE r == [instrument[i] EXCEPT !.calibrated = x, !.expires = y]
  <2>1. r \in InstrumentRows /\ r # NoInstrument /\ r.calibrated = x /\ r.expires = y
    BY <1>1 DEF InstrumentRows, NoInstrument
  <2>2. instrument \in [Instruments -> InstrumentRows] BY DEF Inv, TypeOK
  <2>3. instrument' = [instrument EXCEPT ![i] = r] BY <2>2
  <2> HIDE DEF r
  <2> QED BY <2>1, <2>2, <2>3
<1>3. op' \in [Clients -> Op] BY MarkedTyped
<1>4. TypeOK'
  BY <1>2, <1>3 DEF Inv, TypeOK, CalibrationsOf
<1>5. RequestsFormed'
  <2>1. \A c \in Clients : WellFormed(ops[c]) BY IdleOp DEF Inv, RequestsFormed
  <2> QED BY <2>1, MarkedOps DEF RequestsFormed
<1>6. ChecksStand'
  <2> SUFFICES ASSUME NEW c \in Clients,
                      op'[c].kind \in {"create", "patch"}, op'[c].on # None, ~op'[c].stale,
                      op'[c].kind = "patch" => calibration[op'[c].cal].state = "LIVE"
               PROVE  Covers(op[c].on, Written(op[c]).day)' /\ (op[c].on = Written(op[c]).inst)'
    BY DEF ChecksStand
  <2>1. op'[c] = op[c] /\ op[c].on # i
    <3>1. op'[c] = ops[c] /\ ops[c] # Idle BY MarkedOps, IdleOp
    <3> QED BY <3>1, MarkedOps DEF Overtaken
  <2>2. Covers(op[c].on, Written(op[c]).day) /\ op[c].on = Written(op[c]).inst
    BY <2>1 DEF Inv, ChecksStand
  <2>3. op[c].on \in Instruments BY <2>1 DEF Inv, TypeOK, Op
  <2> QED BY <1>2, <2>1, <2>2, <2>3 DEF Covers, Written
<1>7. InstrumentsKept' /\ CertificateCovers'
  <2>1. \A k \in Calibrations : calibration[k].state = "LIVE" =>
            calibration[k].inst \in Instruments
    BY CalibrationTypes DEF Inv
  <2>2. \A k \in Calibrations \ excused' : calibration[k].inst # i BY DEF CalibrationsOf
  <2> QED BY <1>2, <2>1, <2>2 DEF Inv, InstrumentsKept, CertificateCovers
<1>8. CertificateDates' BY <1>2 DEF Inv, CertificateDates
<1> QED BY <1>4, <1>5, <1>6, <1>7, <1>8 DEF Inv

LEMMA UpdateInstrumentInv ==
  ASSUME Inv, NEW c \in Clients, UpdateInstrument(c)
  PROVE  Inv'
<1> DEFINE i == op[c].on
           x == Effective(op[c].calibrated, instrument[i].calibrated)
           y == Effective(op[c].expires, instrument[i].expires)
           ops == [op EXCEPT ![c] = Idle]
<1>1. op[c] \in Op BY DEF Inv, TypeOK
<1>2. i \in Instruments BY <1>1 DEF UpdateInstrument, Inv, RequestsFormed, WellFormed
<1>3. x \in Dates /\ y \in Dates
  BY <1>1, <1>2, InstrumentTypes DEF Effective, Inv, Op
<1>4. ops \in [Clients -> Op] /\ \A d \in Clients : ops[d] = op[d] \/ ops[d] = Idle
  BY IdleOp DEF Inv, TypeOK
<1>5. /\ instrument[i] # NoInstrument /\ CheckExpire(x, y)
      /\ instrument' = [instrument EXCEPT ![i].calibrated = x, ![i].expires = y]
      /\ op' = Marked(ops, i, None) /\ excused' = excused \union CalibrationsOf(i)
      /\ UNCHANGED calibration
  BY DEF UpdateInstrument
<1>6. x = 0 \/ y = 0 \/ y > x BY <1>5 DEF CheckExpire
<1> HIDE DEF i, x, y, ops
<1> QED BY <1>2, <1>3, <1>4, <1>5, <1>6, CertificateWritten

LEMMA PatchBothDatesInv ==
  ASSUME Inv, NEW i \in Instruments, NEW x \in Dates, NEW y \in Dates,
         PatchBothDates(i, x, y)
  PROVE  Inv'
<1>1. op \in [Clients -> Op] BY DEF Inv, TypeOK
<1>2. x = 0 \/ y = 0 \/ y > x BY DEF PatchBothDates, DatesValid
<1>3. /\ instrument[i] # NoInstrument
      /\ instrument' = [instrument EXCEPT ![i].calibrated = x, ![i].expires = y]
      /\ op' = Marked(op, i, None) /\ excused' = excused \union CalibrationsOf(i)
      /\ UNCHANGED calibration
  BY DEF PatchBothDates
<1> QED BY <1>1, <1>2, <1>3, CertificateWritten

-----------------------------------------------------------------------------
(***************************************************************************)
(* Calibrations                                                            *)
(***************************************************************************)

LEMMA UsableCovers ==
  ASSUME TypeOK, NEW i \in Instruments, NEW day \in Dates, InstrumentUsable(i, day)
  PROVE  Covers(i, day)
<1>1. instrument[i].expires \in Nat /\ day \in Nat BY InstrumentTypes, Bounds
<1> QED BY <1>1 DEF InstrumentUsable, Covers

\* A request that only changes itself keeps the invariant if it is well formed
\* and its checks stand.
LEMMA RequestMoves ==
  ASSUME Inv, NEW c \in Clients, NEW o \in Op, WellFormed(o),
         op' = [op EXCEPT ![c] = o], UNCHANGED <<instrument, calibration, excused>>,
         /\ o.kind \in {"create", "patch"} /\ o.on # None
         /\ o.kind = "patch" => calibration[o.cal].state = "LIVE"
         => Covers(o.on, Written(o).day) /\ o.on = Written(o).inst
  PROVE  Inv'
<1>1. \A d \in Clients : op'[d] = IF d = c THEN o ELSE op[d] BY DEF Inv, TypeOK
<1>2. TypeOK' BY DEF Inv, TypeOK
<1>3. RequestsFormed' BY <1>1 DEF Inv, RequestsFormed
<1>4. ChecksStand'
  BY <1>1 DEF Inv, ChecksStand, Covers, Written
<1>5. InstrumentsKept' /\ CertificateDates' /\ CertificateCovers'
  BY DEF Inv, InstrumentsKept, CertificateDates, CertificateCovers
<1> QED BY <1>2, <1>3, <1>4, <1>5 DEF Inv

LEMMA ReadInstrumentInv ==
  ASSUME Inv, NEW c \in Clients, NEW i \in Instruments,
         NEW x \in Dates \union {NotSent}, NEW y \in Dates \union {NotSent},
         ReadInstrument(c, i, x, y)
  PROVE  Inv'
<1> DEFINE o == [Idle EXCEPT !.kind = "certificate", !.on = i, !.calibrated = x,
                             !.expires = y]
<1>1. op' = [op EXCEPT ![c] = o] /\ UNCHANGED <<instrument, calibration, excused>>
  BY DEF ReadInstrument
<1>2. o \in Op /\ o.kind = "certificate" /\ WellFormed(o)
  BY Bounds DEF Idle, Op, WellFormed
<1> HIDE DEF o
<1> QED BY <1>1, <1>2, RequestMoves

LEMMA CheckCreateInv ==
  ASSUME Inv, NEW c \in Clients, NEW k \in Calibrations, NEW i \in Instruments,
         NEW day \in Days, CheckCreate(c, k, i, day)
  PROVE  Inv'
<1> DEFINE o == [Idle EXCEPT !.kind = "create", !.cal = k, !.inst = i, !.day = day,
                             !.on = i]
<1>1. op' = [op EXCEPT ![c] = o] /\ UNCHANGED <<instrument, calibration, excused>>
  BY DEF CheckCreate
<1>2. /\ o \in Op /\ WellFormed(o) /\ o.on = i /\ o.day = day /\ o.inst = i
  BY Bounds DEF Idle, Op, WellFormed
<1> HIDE DEF o
<1>3. Written(o).day = day /\ Written(o).inst = i BY <1>2, Bounds DEF Written
<1>4. Covers(i, day) BY UsableCovers, Bounds DEF CheckCreate, Inv
<1> QED BY <1>1, <1>2, <1>3, <1>4, RequestMoves

LEMMA CheckPatchInv ==
  ASSUME Inv, NEW c \in Clients, NEW k \in Calibrations,
         NEW i \in Instruments \union {None}, NEW day \in Dates, CheckPatch(c, k, i, day)
  PROVE  Inv'
<1> DEFINE inst == IF i = None THEN calibration[k].inst ELSE i
           at == IF day = 0 THEN calibration[k].day ELSE day
           on == IF i # None \/ day # 0 THEN inst ELSE None
           o == [Idle EXCEPT !.kind = "patch", !.cal = k, !.inst = i, !.day = day,
                             !.on = on]
<1>1. /\ op' = [op EXCEPT ![c] = o] /\ UNCHANGED <<instrument, calibration, excused>>
      /\ calibration[k].state = "LIVE"
      /\ (i # None \/ day # 0) => InstrumentUsable(inst, at)
  BY DEF CheckPatch
<1>2. inst \in Instruments /\ at \in Dates
  BY <1>1, CalibrationTypes, Bounds DEF Inv
<1>3. /\ o.kind = "patch" /\ o.cal = k /\ o.inst = i /\ o.day = day /\ o.on = on
  BY DEF Idle
<1>4. Written(o).inst = inst /\ Written(o).day = at BY <1>3 DEF Written
<1>5. on = IF i # None \/ day # 0 THEN inst ELSE None OBVIOUS
<1>6. i # None => inst = i OBVIOUS
<1>o. on \in Instruments \union {None} BY <1>2, <1>5
<1>7. o \in Op
  <2> HIDE DEF on
  <2> QED BY <1>o, Bounds DEF Idle, Op
<1> HIDE DEF inst, at, on, o
<1>8. WellFormed(o) BY <1>2, <1>3, <1>5, <1>6, Bounds DEF WellFormed
<1>9. on # None => Covers(on, at) /\ on = inst
  BY <1>1, <1>2, <1>5, UsableCovers DEF Inv
<1> QED BY <1>1, <1>3, <1>4, <1>7, <1>8, <1>9, RequestMoves

\* What a request is about to write is a row, and if its checks stand, a covered one.
LEMMA WrittenRow ==
  ASSUME Inv, NEW c \in Clients, op[c].kind \in {"create", "patch"},
         op[c].kind = "patch" => calibration[op[c].cal].state = "LIVE"
  PROVE  /\ op[c].cal \in Calibrations
         /\ Written(op[c]) \in [state : {"LIVE"}, inst : Instruments, day : Days]
         /\ op[c].on # None /\ ~op[c].stale =>
                Covers(Written(op[c]).inst, Written(op[c]).day)
         /\ op[c].on = None => /\ op[c].kind = "patch"
                               /\ Written(op[c]).inst = calibration[op[c].cal].inst
                               /\ Written(op[c]).day = calibration[op[c].cal].day
<1> DEFINE o == op[c]
<1>1. o \in Op /\ WellFormed(o) BY DEF Inv, TypeOK, RequestsFormed
<1>2. o.cal \in Calibrations BY <1>1 DEF WellFormed
<1>3. /\ o.inst = None \/ o.day = 0 => o.kind = "patch"
      /\ o.inst # None => o.inst \in Instruments
      /\ o.day # 0 => o.day \in Days
  BY <1>1, Bounds DEF WellFormed, Op
<1>4. Written(o) \in [state : {"LIVE"}, inst : Instruments, day : Days]
  BY <1>2, <1>3, CalibrationTypes DEF Written, Inv
<1>5. o.on # None /\ ~o.stale => Covers(Written(o).inst, Written(o).day)
  BY DEF Inv, ChecksStand
<1>6. o.on = None => o.kind = "patch" /\ o.inst = None /\ o.day = 0
  BY <1>1, Bounds DEF WellFormed
<1>7. o.on = None => /\ Written(o).inst = calibration[o.cal].inst
                     /\ Written(o).day = calibration[o.cal].day
  BY <1>6 DEF Written
<1> QED BY <1>2, <1>4, <1>5, <1>6, <1>7

LEMMA WriteInv ==
  ASSUME Inv, NEW c \in Clients, InsertCalibration(c) \/ UpdateCalibration(c)
  PROVE  Inv'
<1> DEFINE o == op[c]
           k == op[c].cal
           new == Written(op[c])
           ops == [op EXCEPT ![c] = Idle]
<1>1. /\ o.kind \in {"create", "patch"}
      /\ o.kind = "patch" => calibration[k].state = "LIVE"
      /\ o.kind = "create" => calibration[k].state = "UNUSED"
      /\ instrument[new.inst] # NoInstrument
      /\ calibration' = [calibration EXCEPT ![k] = new]
      /\ op' = Marked(ops, None, k) /\ excused' = Excuse(o) /\ UNCHANGED instrument
  BY DEF InsertCalibration, UpdateCalibration, WriteCalibration, ReferenceHolds
<1>2. /\ k \in Calibrations
      /\ new \in [state : {"LIVE"}, inst : Instruments, day : Days]
      /\ o.on # None /\ ~o.stale => Covers(new.inst, new.day)
      /\ o.on = None => /\ o.kind = "patch" /\ new.inst = calibration[k].inst
                        /\ new.day = calibration[k].day
  BY <1>1, WrittenRow
<1>3. ops \in [Clients -> Op] /\ \A d \in Clients : ops[d] = op[d] \/ ops[d] = Idle
  BY IdleOp DEF Inv, TypeOK
<1>4. /\ o.on = None => excused' = excused
      /\ o.on # None /\ o.stale => excused' = excused \union {k}
      /\ o.on # None /\ ~o.stale => excused' = excused \ {k}
  <2>1. o.on = None => Excuse(o) = excused BY DEF Excuse
  <2>2. o.on # None /\ o.stale => Excuse(o) = excused \union {k} BY DEF Excuse
  <2>3. o.on # None /\ ~o.stale => Excuse(o) = excused \ {k} BY DEF Excuse
  <2> QED BY <1>1, <2>1, <2>2, <2>3
<1> HIDE DEF new, ops
<1>5. new \in CalibrationRows /\ new.state = "LIVE" /\ new.inst \in Instruments
  BY <1>2 DEF CalibrationRows
<1>6. /\ calibration' \in [Calibrations -> CalibrationRows]
      /\ \A j \in Calibrations : calibration'[j] = IF j = k THEN new ELSE calibration[j]
  BY <1>1, <1>2, <1>5 DEF Inv, TypeOK
<1>7. TypeOK'
  <2>1. op' \in [Clients -> Op] BY <1>1, <1>3, MarkedTyped
  <2>2. excused' \subseteq Calibrations BY <1>2, <1>4 DEF Inv, TypeOK
  <2> QED BY <1>1, <1>6, <2>1, <2>2 DEF Inv, TypeOK
<1>8. RequestsFormed'
  <2>1. \A d \in Clients : WellFormed(ops[d]) BY <1>3, IdleOp DEF Inv, RequestsFormed
  <2> QED BY <1>1, <1>3, <2>1, MarkedOps DEF RequestsFormed
<1>9. ChecksStand'
  <2> SUFFICES ASSUME NEW d \in Clients,
                      op'[d].kind \in {"create", "patch"}, op'[d].on # None, ~op'[d].stale,
                      op'[d].kind = "patch" => calibration'[op'[d].cal].state = "LIVE"
               PROVE  Covers(op[d].on, Written(op[d]).day)' /\ (op[d].on = Written(op[d]).inst)'
    BY DEF ChecksStand
  <2>0. op[d] \in Op BY DEF Inv, TypeOK
  <2>1. op'[d] = op[d] /\ op[d].cal # k
    <3>1. op'[d] = ops[d] /\ ops[d] # Idle BY <1>1, <1>3, MarkedOps, IdleOp
    <3>2. ~Overtaken(op[d], None, k) BY <1>1, <1>3, <3>1, MarkedOps
    <3>3. k # None BY <1>2, Bounds
    <3> QED BY <1>3, <3>1, <3>2, <3>3 DEF Overtaken
  <2>2. op[d].cal \in Calibrations BY <2>1 DEF Inv, RequestsFormed, WellFormed
  <2>3. calibration'[op[d].cal] = calibration[op[d].cal] BY <1>6, <2>1, <2>2
  <2>4. Covers(op[d].on, Written(op[d]).day) /\ op[d].on = Written(op[d]).inst
    BY <2>1, <2>3 DEF Inv, ChecksStand
  <2> QED BY <1>1, <2>1, <2>3, <2>4 DEF Covers, Written
<1>10. InstrumentsKept'
  BY <1>1, <1>5, <1>6 DEF Inv, InstrumentsKept
<1>11. CertificateCovers'
  <2> SUFFICES ASSUME NEW j \in Calibrations \ excused', calibration'[j].state = "LIVE"
               PROVE  Covers(calibration'[j].inst, calibration'[j].day)
    BY <1>1 DEF CertificateCovers, Covers
  <2>1. CASE j # k
    BY <2>1, <1>4, <1>6 DEF Inv, CertificateCovers, Covers
  <2>2. CASE j = k
    <3>2. CASE o.on # None
      <4>1. ~o.stale BY <3>2, <2>2, <1>4
      <4> QED BY <4>1, <3>2, <2>2, <1>2, <1>6
    <3>3. CASE o.on = None
      BY <3>3, <2>2, <1>1, <1>2, <1>4, <1>6 DEF Inv, CertificateCovers, Covers
    <3> QED BY <3>2, <3>3
  <2> QED BY <2>1, <2>2
<1>12. CertificateDates' BY <1>1 DEF Inv, CertificateDates
<1> QED BY <1>7, <1>8, <1>9, <1>10, <1>11, <1>12 DEF Inv

LEMMA DeleteCalibrationInv ==
  ASSUME Inv, NEW k \in Calibrations, DeleteCalibration(k)
  PROVE  Inv'
<1>1. UNCHANGED <<instrument, op, excused>> BY DEF DeleteCalibration
<1>2. /\ calibration' \in [Calibrations -> CalibrationRows]
      /\ \A j \in Calibrations : calibration'[j] = IF j = k THEN Deleted ELSE calibration[j]
  BY IdleOp DEF DeleteCalibration, Inv, TypeOK
<1>3. TypeOK' BY <1>1, <1>2 DEF Inv, TypeOK
<1>4. RequestsFormed' BY <1>1 DEF Inv, RequestsFormed
<1>5. ChecksStand'
  <2> SUFFICES ASSUME NEW c \in Clients,
                      op[c].kind \in {"create", "patch"}, op[c].on # None, ~op[c].stale,
                      op[c].kind = "patch" => calibration'[op[c].cal].state = "LIVE"
               PROVE  Covers(op[c].on, Written(op[c]).day)' /\ (op[c].on = Written(op[c]).inst)'
    BY <1>1 DEF ChecksStand
  <2>1. op[c] \in Op /\ WellFormed(op[c]) BY DEF Inv, TypeOK, RequestsFormed
  <2>2. CASE op[c].kind = "create"
    <3>1. op[c].inst # None /\ op[c].day # 0 BY <2>1, <2>2, Bounds DEF WellFormed
    <3>2. Covers(op[c].on, op[c].day) /\ op[c].on = op[c].inst
      BY <2>2, <3>1 DEF Inv, ChecksStand, Written
    <3> QED BY <1>1, <3>1, <3>2 DEF Covers, Written
  <2>3. CASE op[c].kind = "patch"
    <3>1. op[c].cal \in Calibrations /\ op[c].cal # k
      BY <2>1, <2>3, <1>2, IdleOp DEF WellFormed
    <3>2. calibration'[op[c].cal] = calibration[op[c].cal] BY <1>2, <3>1
    <3>3. Covers(op[c].on, Written(op[c]).day) /\ op[c].on = Written(op[c]).inst
      BY <2>3, <3>2 DEF Inv, ChecksStand
    <3> QED BY <1>1, <3>2, <3>3 DEF Covers, Written
  <2> QED BY <2>2, <2>3
<1>6. InstrumentsKept' /\ CertificateCovers' /\ CertificateDates'
  BY <1>1, <1>2, IdleOp DEF Inv, InstrumentsKept, CertificateCovers, CertificateDates
<1> QED BY <1>3, <1>4, <1>5, <1>6 DEF Inv

LEMMA RefuseInv ==
  ASSUME Inv, NEW c \in Clients, Refuse(c)
  PROVE  Inv'
<1>1. op' = [op EXCEPT ![c] = Idle] /\ UNCHANGED <<instrument, calibration, excused>>
  BY DEF Refuse
<1> QED BY <1>1, IdleOp, RequestMoves

-----------------------------------------------------------------------------
LEMMA NextInv == Inv /\ [Next]_vars => Inv'
<1> SUFFICES ASSUME Inv, [Next]_vars PROVE Inv' OBVIOUS
<1>1. CASE Next
  BY <1>1, CreateInstrumentInv, ReadInstrumentInv, UpdateInstrumentInv,
     PatchBothDatesInv, FlagInv, DeleteInstrumentInv, CheckCreateInv, CheckPatchInv,
     WriteInv, DeleteCalibrationInv, RefuseInv
  DEF Next
<1>2. CASE UNCHANGED vars
  BY <1>2 DEF Inv, TypeOK, RequestsFormed, ChecksStand, InstrumentsKept,
     CertificateDates, CertificateCovers, Covers, Written
<1> QED BY <1>1, <1>2

LEMMA InvAlways == Spec => []Inv
BY InitInv, NextInv, PTL DEF Spec

\* Rows and requests stay in their domains: TypeOK.
THEOREM CertificatesTypeCorrect == Spec => []TypeOK
<1>1. Inv => TypeOK BY DEF Inv
<1> QED BY <1>1, InvAlways, PTL

\* calibration.go:434: a calibration lies on a day its instrument's certificate
\* covers, unless its checks were overtaken.
THEOREM CalibrationsCovered == Spec => []CertificateCovers
<1>1. Inv => CertificateCovers BY DEF Inv
<1> QED BY <1>1, InvAlways, PTL

\* A certificate expires after it was issued, whatever PATCHes cross.
THEOREM DatesInOrder == Spec => []CertificateDates
<1>1. Inv => CertificateDates BY DEF Inv
<1> QED BY <1>1, InvAlways, PTL
=============================================================================
