---------------------------- MODULE Certificates ----------------------------
(***************************************************************************)
(* Calibrations and the instruments they were made with.                   *)
(*                                                                         *)
(* A calibration may be recorded if its instrument is in use and the       *)
(* instrument's certificate had not expired on that day.  The check is a   *)
(* statement of its own before the INSERT or UPDATE; a PATCH checks what   *)
(* it sends against what the row held.  The database itself only keeps the *)
(* reference and the order of an instrument's two dates.                   *)
(*                                                                         *)
(* The device of a calibration is in Catalogue, its readings in            *)
(* ReadingSheet, its link to a PM report in PmRecords.                     *)
(***************************************************************************)
EXTENDS Naturals, FiniteSets

CONSTANTS
    Calibrations,   \* ids of rtu.calibrations, never used twice
    Instruments,    \* ids of rtu.calibration_instruments
    Clients,        \* concurrent HTTP requests
    MaxDay          \* today: no calibration lies in the future

ASSUME CertificatesAssumption ==
    /\ MaxDay \in Nat \ {0}
    /\ "NULL" \notin Instruments \union Calibrations

None == "NULL"

VARIABLES
    instrument,     \* the rows of rtu.calibration_instruments
    calibration,    \* the rows of rtu.calibrations
    op,             \* the requests between their checks and their write
    excused         \* history: calibrations whose checks were overtaken

vars == <<instrument, calibration, op, excused>>

Days == 1 .. MaxDay
Dates == 0 .. MaxDay        \* 0 is a NULL date
NotSent == MaxDay + 1       \* a field a PATCH leaves out

NoInstrument == [state |-> "ABSENT", calibrated |-> 0, expires |-> 0]
InstrumentRows == {NoInstrument} \union
    [state : {"ACTIVE", "INACTIVE"}, calibrated : Dates, expires : Dates]

Unused == [state |-> "UNUSED", inst |-> None, day |-> 0]
Deleted == [Unused EXCEPT !.state = "DELETED"]
CalibrationRows == {Unused, Deleted} \union
    [state : {"LIVE"}, inst : Instruments, day : Days]

\* inst and day: what a calibration request writes; calibrated and expires:
\* what a PATCH of an instrument writes.  stale: a row it read has changed since.
Idle == [kind |-> "idle", cal |-> None, inst |-> None, day |-> 0, on |-> None,
         calibrated |-> NotSent, expires |-> NotSent, stale |-> FALSE]
Op == [kind : {"idle", "create", "patch", "certificate"},
       cal : Calibrations \union {None}, inst : Instruments \union {None}, day : Dates,
       calibrated : Dates \union {NotSent}, expires : Dates \union {NotSent},
       on : Instruments \union {None}, stale : BOOLEAN]

Init ==
    /\ instrument = [i \in Instruments |-> NoInstrument]
    /\ calibration = [k \in Calibrations |-> Unused]
    /\ op = [c \in Clients |-> Idle]
    /\ excused = {}

-----------------------------------------------------------------------------
(* Checks *)

\* checkInstrumentUsable: "The certificate stays valid through the whole of its
\* expiry date."
UsableNextDay(i, day) ==
    /\ instrument[i].state = "ACTIVE"
    /\ instrument[i].expires = 0 \/ day <= instrument[i].expires + 1
InstrumentUsable(i, day) ==
    /\ instrument[i].state = "ACTIVE"
    /\ instrument[i].expires = 0 \/ day < instrument[i].expires + 1

\* validateCertificateDates
DatesValid(calibrated, expires) ==
    calibrated = 0 \/ expires = 0 \/ expires > calibrated

\* ck_instrument_expire_after_calibration
CheckDropped(calibrated, expires) == TRUE
CheckExpire(calibrated, expires) ==
    expires = 0 \/ calibrated = 0 \/ expires > calibrated

\* fk_calibrations_instrument
ReferenceHolds(i) == instrument[i] # NoInstrument

-----------------------------------------------------------------------------
(* History: a write of instrument i or of calibration k makes the other *)
(* requests stale that have checked that row.                           *)

Overtaken(o, i, k) == o.on = i \/ (k # None /\ o.cal = k)
Marked(ops, i, k) ==
    [c \in Clients |-> IF ops[c] # Idle /\ Overtaken(ops[c], i, k)
                       THEN [ops[c] EXCEPT !.stale = TRUE] ELSE ops[c]]
CalibrationsOf(i) == {k \in Calibrations : calibration[k].inst = i}

-----------------------------------------------------------------------------
(* Instruments *)

CreateInstrument(i, calibrated, expires, active) ==
    /\ instrument[i] = NoInstrument
    /\ \A c \in Clients : op[c].inst # i /\ op[c].on # i
    /\ DatesValid(calibrated, expires)
    /\ instrument' = [instrument EXCEPT ![i] =
                         [state |-> IF active THEN "ACTIVE" ELSE "INACTIVE",
                          calibrated |-> calibrated, expires |-> expires]]
    /\ UNCHANGED <<calibration, op, excused>>

\* A PATCH of one date compares it with the stored value of the other.
Effective(sent, stored) == IF sent = NotSent THEN stored ELSE sent

ReadInstrument(c, i, calibrated, expires) ==
    /\ op[c] = Idle
    /\ instrument[i] # NoInstrument
    /\ (calibrated # NotSent) # (expires # NotSent)
    /\ DatesValid(Effective(calibrated, instrument[i].calibrated),
                  Effective(expires, instrument[i].expires))
    /\ op' = [op EXCEPT ![c] = [Idle EXCEPT !.kind = "certificate", !.on = i,
                                   !.calibrated = calibrated, !.expires = expires]]
    /\ UNCHANGED <<instrument, calibration, excused>>

UpdateInstrument(c) ==
    LET i == op[c].on
        calibrated == Effective(op[c].calibrated, instrument[i].calibrated)
        expires == Effective(op[c].expires, instrument[i].expires)
    IN /\ op[c].kind = "certificate"
       /\ instrument[i] # NoInstrument
       /\ CheckExpire(calibrated, expires)
       /\ instrument' = [instrument EXCEPT ![i].calibrated = calibrated,
                                           ![i].expires = expires]
       /\ op' = Marked([op EXCEPT ![c] = Idle], i, None)
       /\ excused' = excused \union CalibrationsOf(i)
       /\ UNCHANGED calibration

\* A PATCH of both dates compares nothing stored: its read and its write are one.
PatchBothDates(i, calibrated, expires) ==
    /\ instrument[i] # NoInstrument
    /\ DatesValid(calibrated, expires)
    /\ instrument' = [instrument EXCEPT ![i].calibrated = calibrated,
                                        ![i].expires = expires]
    /\ op' = Marked(op, i, None)
    /\ excused' = excused \union CalibrationsOf(i)
    /\ UNCHANGED calibration

SetInstrumentActive(i, active) ==
    /\ instrument[i] # NoInstrument
    /\ instrument' = [instrument EXCEPT ![i].state =
                         IF active THEN "ACTIVE" ELSE "INACTIVE"]
    /\ UNCHANGED <<calibration, op, excused>>

DeleteInstrument(i) ==
    /\ instrument[i] # NoInstrument
    /\ CalibrationsOf(i) = {}
    /\ instrument' = [instrument EXCEPT ![i] = NoInstrument]
    /\ UNCHANGED <<calibration, op, excused>>

-----------------------------------------------------------------------------
(* Calibrations *)

\* Create up to the INSERT.
CheckCreate(c, k, i, day) ==
    /\ op[c] = Idle
    /\ calibration[k] = Unused
    /\ \A e \in Clients : op[e].cal # k
    /\ InstrumentUsable(i, day)
    /\ op' = [op EXCEPT ![c] = [Idle EXCEPT !.kind = "create", !.cal = k,
                                   !.inst = i, !.day = day, !.on = i]]
    /\ UNCHANGED <<instrument, calibration, excused>>

\* Update up to the UPDATE: i and day are sent or None and 0; the
\* instrument is checked when either is.
CheckPatch(c, k, i, day) ==
    LET inst == IF i = None THEN calibration[k].inst ELSE i
        at == IF day = 0 THEN calibration[k].day ELSE day
    IN /\ op[c] = Idle
       /\ calibration[k].state = "LIVE"
       /\ (i # None \/ day # 0) => InstrumentUsable(inst, at)
       /\ op' = [op EXCEPT ![c] = [Idle EXCEPT !.kind = "patch", !.cal = k,
                                      !.inst = i, !.day = day,
                                      !.on = IF i # None \/ day # 0
                                             THEN inst ELSE None]]
       /\ UNCHANGED <<instrument, calibration, excused>>

\* CreateCalibration and UpdateCalibration: an UPDATE writes what was sent.
WrittenInFull(o) == [state |-> "LIVE", inst |-> o.inst, day |-> o.day]
Written(o) ==
    [state |-> "LIVE",
     inst |-> IF o.inst = None THEN calibration[o.cal].inst ELSE o.inst,
     day |-> IF o.day = 0 THEN calibration[o.cal].day ELSE o.day]

\* A write whose checks still stand takes the excuse away; one that had nothing to
\* check leaves instrument and day as they were.
Excuse(o) ==
    CASE o.on = None -> excused
      [] o.on # None /\ o.stale -> excused \union {o.cal}
      [] o.on # None /\ ~o.stale -> excused \ {o.cal}

WriteCalibration(c, was) ==
    LET o == op[c]
        new == Written(o)
    IN /\ calibration[o.cal].state = was
       /\ ReferenceHolds(new.inst)
       /\ calibration' = [calibration EXCEPT ![o.cal] = new]
       /\ op' = Marked([op EXCEPT ![c] = Idle], None, o.cal)
       /\ excused' = Excuse(o)
       /\ UNCHANGED instrument

InsertCalibration(c) == op[c].kind = "create" /\ WriteCalibration(c, "UNUSED")
UpdateCalibration(c) == op[c].kind = "patch" /\ WriteCalibration(c, "LIVE")

DeleteCalibration(k) ==
    /\ calibration[k].state = "LIVE"
    /\ calibration' = [calibration EXCEPT ![k] = Deleted]
    /\ UNCHANGED <<instrument, op, excused>>

\* A violated constraint, a row that is gone, a client that is.
Refuse(c) ==
    /\ op[c] # Idle
    /\ op' = [op EXCEPT ![c] = Idle]
    /\ UNCHANGED <<instrument, calibration, excused>>

Next ==
    \/ \E i \in Instruments, x, y \in Dates, active \in BOOLEAN :
           CreateInstrument(i, x, y, active)
    \/ \E c \in Clients, i \in Instruments, x, y \in Dates \union {NotSent} :
           ReadInstrument(c, i, x, y)
    \/ \E c \in Clients : UpdateInstrument(c)
    \/ \E i \in Instruments, x, y \in Dates : PatchBothDates(i, x, y)
    \/ \E i \in Instruments, active \in BOOLEAN : SetInstrumentActive(i, active)
    \/ \E i \in Instruments : DeleteInstrument(i)
    \/ \E c \in Clients, k \in Calibrations, i \in Instruments, day \in Days :
           CheckCreate(c, k, i, day)
    \/ \E c \in Clients, k \in Calibrations,
          i \in Instruments \union {None}, day \in Dates : CheckPatch(c, k, i, day)
    \/ \E c \in Clients : InsertCalibration(c)
    \/ \E c \in Clients : UpdateCalibration(c)
    \/ \E k \in Calibrations : DeleteCalibration(k)
    \/ \E c \in Clients : Refuse(c)

Spec == Init /\ [][Next]_vars

-----------------------------------------------------------------------------
(* Properties *)

\* Rows and requests stay in their domains: a calibration always has an
\* instrument and a day.
TypeOK ==
    /\ instrument \in [Instruments -> InstrumentRows]
    /\ calibration \in [Calibrations -> CalibrationRows]
    /\ op \in [Clients -> Op]
    /\ excused \subseteq Calibrations

\* calibration.go:434: a calibration lies on a day the certificate of its
\* instrument covers.  Only a PATCH of the certificate, or a request that ran while
\* one, or another PATCH of the calibration, was written can leave one uncovered.
CertificateCovers ==
    \A k \in Calibrations \ excused :
        calibration[k].state = "LIVE" =>
            LET expires == instrument[calibration[k].inst].expires
            IN expires = 0 \/ calibration[k].day <= expires

\* A certificate expires after the day it was issued, although two PATCHes that
\* send one date each have both compared it with the other's old value.
CertificateDates ==
    \A i \in Instruments :
        instrument[i].calibrated # 0 /\ instrument[i].expires # 0
            => instrument[i].expires > instrument[i].calibrated
=============================================================================
