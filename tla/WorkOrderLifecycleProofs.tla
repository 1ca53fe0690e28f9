---------------------- MODULE WorkOrderLifecycleProofs ----------------------
(***************************************************************************)
(* Proofs about WorkOrderLifecycle for every set of work orders, engineers *)
(* and clients and every bound on the rounds.                              *)
(***************************************************************************)
EXTENDS WorkOrderLifecycle, TLAPS

USE DEF woRow, roundRows, reviewRows

(***************************************************************************)
(* A request only ever holds a work order that exists and a round of it.   *)
(* This is what the foreign keys and the snapshot of a handler give.       *)
(***************************************************************************)
RequestsKnown ==
    \A c \in Clients : request[c] # Idle =>
        /\ status[request[c].wo] # None
        /\ request[c].rnd <= roundCount[request[c].wo]

\* The inductive invariant behind the rounds.
Inv == TypeOK /\ RoundChain /\ RequestsKnown

LEMMA Constants ==
    /\ MaxRounds \in Nat /\ MaxRounds >= 1
    /\ None \notin Engineers /\ None \notin WorkOrders
    /\ \A w \in WorkOrders : WoType[w] \in {"PM", "CM"}
    /\ 1 \in RoundNos
    /\ \A n \in RoundNos : n \in Nat /\ n >= 1 /\ n <= MaxRounds
    /\ None \notin Statuses /\ None \notin Decisions
    /\ Idle \notin Request
BY MaxRoundsAssumption, NoneAssumption, WoTypeAssumption
   DEF RoundNos, Statuses, OpenStatuses, ClosedStatuses, Decisions,
       ClosingDecisions, None, Idle, Request, Steps

LEMMA StatusNames ==
    /\ {"ASSIGNED", "IN_PROGRESS", "PENDING_APPROVAL", "COMPLETED",
        "CONDITIONAL", "CANCELLED"} \subseteq Statuses
    /\ None \notin Statuses
BY DEF Statuses, OpenStatuses, ClosedStatuses, None

\* What a request in flight holds.
LEMMA Held ==
    ASSUME Inv, NEW c \in Clients, request[c].step \in Steps
    PROVE  /\ request[c] \in Request /\ request[c] # Idle
           /\ request[c].wo \in WorkOrders
           /\ request[c].rnd \in RoundNos
           /\ request[c].st \in Statuses
           /\ request[c].to \in Engineers \union {None}
           /\ request[c].decision \in Decisions \union {None}
           /\ request[c].cm \in WorkOrders \union {None}
           /\ status[request[c].wo] # None
           /\ request[c].rnd <= roundCount[request[c].wo]
           /\ roundCount[request[c].wo] \in RoundNos
<1>1. request[c] # Idle
  BY DEF Idle, Steps
<1>2. request[c] \in Request
  BY <1>1 DEF Inv, TypeOK
<1>3. /\ status[request[c].wo] # None
      /\ request[c].rnd <= roundCount[request[c].wo]
  BY <1>1 DEF Inv, RequestsKnown
<1>4. request[c].wo \in WorkOrders /\ request[c].rnd \in RoundNos
  BY <1>2 DEF Request
<1>5. roundCount[request[c].wo] \in RoundNos
  BY <1>3, <1>4, Constants DEF Inv, TypeOK, RoundNos
<1> QED BY <1>1, <1>2, <1>3, <1>4, <1>5 DEF Request

\* A step that opens no round, decides nothing and creates no work order keeps
\* the chain; a request it lets go on must hold a round that exists.
LEMMA QuietStep ==
    ASSUME Inv, TypeOK', UNCHANGED <<current, roundCount, approval>>,
           \A w \in WorkOrders : status'[w] = None <=> status[w] = None,
           \A c \in Clients : request'[c] \notin {Idle, request[c]} =>
                /\ status[request'[c].wo] # None
                /\ request'[c].rnd <= roundCount[request'[c].wo]
    PROVE  Inv'
<1>1. RoundChain'
  BY DEF Inv, TypeOK, RoundChain
<1>2. RequestsKnown'
  <2> SUFFICES ASSUME NEW c \in Clients, request'[c] # Idle
               PROVE  /\ status'[request'[c].wo] # None
                      /\ request'[c].rnd <= roundCount[request'[c].wo]
    BY DEF RequestsKnown
  <2>1. request'[c].wo \in WorkOrders
    BY DEF TypeOK, Request
  <2>2. /\ status[request'[c].wo] # None
        /\ request'[c].rnd <= roundCount[request'[c].wo]
    BY DEF Inv, RequestsKnown
  <2> QED BY <2>1, <2>2
<1> QED BY <1>1, <1>2 DEF Inv

\* What SetStatus, Finish and GoOn do to their variables.
LEMMA SetStatusTyped ==
    ASSUME TypeOK, NEW w \in WorkOrders, NEW from \in Statuses \union {None},
           NEW to \in Statuses, status[w] # None \/ from = None,
           SetStatus(w, from, to)
    PROVE  /\ status' \in [WorkOrders -> Statuses \union {None}]
           /\ lastLog' \in [WorkOrders -> [from : Statuses \union {None},
                                           to : Statuses \union {None}]]
           /\ \A v \in WorkOrders : v # w => status'[v] = status[v]
           /\ status'[w] # None
BY StatusNames DEF TypeOK, SetStatus

LEMMA FinishTyped ==
    ASSUME TypeOK, NEW c \in Clients, Finish(c)
    PROVE  /\ request' \in [Clients -> Request \union {Idle}]
           /\ \A d \in Clients : request'[d] \in {Idle, request[d]}
BY DEF TypeOK, Finish

LEMMA GoOnTyped ==
    ASSUME TypeOK, NEW c \in Clients, request[c] \in Request,
           NEW step \in Steps, NEW rnd \in RoundNos, NEW st \in Statuses,
           NEW cm \in WorkOrders \union {None}, GoOn(c, step, rnd, st, cm)
    PROVE  /\ request' \in [Clients -> Request \union {Idle}]
           /\ \A d \in Clients : d # c => request'[d] = request[d]
           /\ request'[c].wo = request[c].wo
           /\ request'[c].rnd = rnd
BY DEF TypeOK, GoOn, Request

(***************************************************************************)
(* One lemma per action: it preserves Inv.                                 *)
(***************************************************************************)
LEMMA InitInv == Init => Inv
<1> SUFFICES ASSUME Init PROVE Inv
  OBVIOUS
<1>1. TypeOK
  BY Constants DEF Init, TypeOK
<1>2. RoundChain
  <2> SUFFICES ASSUME NEW w \in WorkOrders
               PROVE  /\ current[w] = roundCount[w]
                      /\ status[w] = None <=> roundCount[w] = 0
                      /\ \A n \in RoundNos :
                            /\ n < roundCount[w] => approval[w][n] = "REJECTED"
                            /\ n = roundCount[w] => approval[w][n] # "REJECTED"
                            /\ n > roundCount[w] => approval[w][n] = None
    BY DEF RoundChain
  <2>1. current[w] = 0 /\ roundCount[w] = 0 /\ status[w] = None
    BY DEF Init
  <2>2. \A n \in RoundNos : approval[w][n] = None /\ n > 0 /\ n \in Nat
    BY Constants DEF Init, RoundNos
  <2> QED BY <2>1, <2>2
<1>3. RequestsKnown
  BY DEF Init, RequestsKnown
<1> QED BY <1>1, <1>2, <1>3 DEF Inv

LEMMA OpenRoundTyped ==
    ASSUME TypeOK, NEW w \in WorkOrders, NEW n \in RoundNos,
           NEW e \in Engineers \union {None}, OpenRound(w, n, e)
    PROVE  /\ current' \in [WorkOrders -> 0 .. MaxRounds]
           /\ roundCount' \in [WorkOrders -> 0 .. MaxRounds]
           /\ assignedTo' \in [WorkOrders -> [RoundNos -> Engineers \union {None}]]
           /\ checkedIn' \in [WorkOrders -> [RoundNos -> BOOLEAN]]
           /\ checkedOut' \in [WorkOrders -> [RoundNos -> BOOLEAN]]
           /\ submitted' \in [WorkOrders -> [RoundNos -> BOOLEAN]]
           /\ current'[w] = n /\ roundCount'[w] = n
           /\ \A v \in WorkOrders : v # w =>
                current'[v] = current[v] /\ roundCount'[v] = roundCount[v]
<1>1. n \in 0 .. MaxRounds
  BY Constants DEF RoundNos
<1> QED BY <1>1 DEF TypeOK, OpenRound

\* Both ways to create a work order leave the requests to their caller.
LEMMA InsertWorkOrderInv ==
    ASSUME Inv, NEW w \in WorkOrders, NEW e \in Engineers \union {None},
           InsertWorkOrder(w, e),
           request' \in [Clients -> Request \union {Idle}],
           \A c \in Clients : request'[c] # Idle =>
                /\ status[request'[c].wo] # None
                /\ request'[c].rnd <= roundCount[request'[c].wo]
    PROVE  Inv'
<1> USE DEF Inv
<1>1. status[w] = None /\ roundCount[w] = 0
  BY DEF InsertWorkOrder, RoundChain
<1>2. OpenRound(w, 1, e) /\ SetStatus(w, None, "ASSIGNED")
  BY DEF InsertWorkOrder
<1>3. TypeOK'
  <2>1. report' \in [WorkOrders -> [RoundNos -> {None, "DRAFT", "SUBMITTED", "SAVED"}]]
    BY Constants DEF TypeOK, InsertWorkOrder
  <2> QED BY <1>1, <1>2, <2>1, OpenRoundTyped, SetStatusTyped, StatusNames, Constants
          DEF TypeOK, InsertWorkOrder
<1>4. /\ current'[w] = 1 /\ roundCount'[w] = 1 /\ status'[w] # None
      /\ \A v \in WorkOrders : v # w =>
            /\ current'[v] = current[v] /\ roundCount'[v] = roundCount[v]
            /\ status'[v] = status[v]
  BY <1>1, <1>2, OpenRoundTyped, SetStatusTyped, StatusNames, Constants
<1>5. RoundChain'
  <2> SUFFICES ASSUME NEW v \in WorkOrders
               PROVE  /\ current'[v] = roundCount'[v]
                      /\ status'[v] = None <=> roundCount'[v] = 0
                      /\ \A n \in RoundNos :
                          /\ n < roundCount'[v] => approval[v][n] = "REJECTED"
                          /\ n = roundCount'[v] => approval[v][n] # "REJECTED"
                          /\ n > roundCount'[v] => approval[v][n] = None
    BY DEF RoundChain, InsertWorkOrder
  <2>1. CASE v # w
    BY <1>4, <2>1 DEF RoundChain
  <2>2. CASE v = w
    <3>1. \A n \in RoundNos : approval[w][n] = None
      BY <1>1, Constants DEF RoundChain
    <3> QED BY <1>4, <2>2, <3>1, Constants DEF None
  <2> QED BY <2>1, <2>2
<1>6. RequestsKnown'
  <2> SUFFICES ASSUME NEW c \in Clients, request'[c] # Idle
               PROVE  /\ status'[request'[c].wo] # None
                      /\ request'[c].rnd <= roundCount'[request'[c].wo]
    BY DEF RequestsKnown
  <2>1. request'[c].wo \in WorkOrders
    BY DEF Request
  <2>2. request'[c].wo # w
    BY <1>1
  <2> QED BY <1>4, <2>1, <2>2
<1> QED BY <1>3, <1>5, <1>6

LEMMA CreateInv ==
    ASSUME Inv, NEW w \in WorkOrders, NEW e \in Engineers, Create(w, e)
    PROVE  Inv'
<1>1. InsertWorkOrder(w, e) /\ request' = request
  BY DEF Create
<1>2. \A c \in Clients : request'[c] # Idle =>
        /\ status[request'[c].wo] # None
        /\ request'[c].rnd <= roundCount[request'[c].wo]
  BY <1>1 DEF Inv, RequestsKnown
<1>3. request' \in [Clients -> Request \union {Idle}]
  BY <1>1 DEF Inv, TypeOK
<1> QED BY <1>1, <1>2, <1>3, InsertWorkOrderInv

LEMMA SoftDeleteInv ==
    ASSUME Inv, NEW w \in WorkOrders, SoftDelete(w)
    PROVE  Inv'
<1>1. TypeOK'
  BY StatusNames DEF Inv, TypeOK, SoftDelete
<1>2. \A v \in WorkOrders : status'[v] = None <=> status[v] = None
  BY StatusNames DEF Inv, TypeOK, SoftDelete
<1> QED BY <1>1, <1>2, QuietStep DEF SoftDelete

LEMMA RestoreInv ==
    ASSUME Inv, NEW w \in WorkOrders, Restore(w)
    PROVE  Inv'
<1>1. TypeOK'
  BY DEF Inv, TypeOK, Restore
<1> QED BY <1>1, QuietStep DEF Restore

LEMMA DeleteReportInv ==
    ASSUME Inv, NEW w \in WorkOrders, NEW n \in RoundNos, DeleteReport(w, n)
    PROVE  Inv'
<1>1. TypeOK'
  BY DEF Inv, TypeOK, DeleteReport
<1> QED BY <1>1, QuietStep DEF DeleteReport

LEMMA ReadInv ==
    ASSUME Inv, NEW c \in Clients, NEW w \in WorkOrders, NEW step \in Steps,
           NEW to \in Engineers \union {None},
           NEW decision \in Decisions \union {None},
           Read(c, w, step, to, decision)
    PROVE  Inv'
<1>1. status[w] \in Statuses /\ current[w] \in RoundNos /\ current[w] = roundCount[w]
  BY Constants DEF Inv, TypeOK, RoundChain, Read, RoundNos
<1>2. request' \in [Clients -> Request \union {Idle}]
  BY <1>1 DEF Inv, TypeOK, Read, Request
<1>3. TypeOK'
  BY <1>2 DEF Inv, TypeOK, Read
<1>4. \A d \in Clients : request'[d] \notin {Idle, request[d]} =>
        /\ status[request'[d].wo] # None
        /\ request'[d].rnd <= roundCount[request'[d].wo]
  BY <1>1, Constants DEF Inv, TypeOK, Read
<1> QED BY <1>3, <1>4, QuietStep DEF Read

LEMMA AcceptInv ==
    ASSUME Inv, NEW c \in Clients, NEW w \in WorkOrders, Accept(c, w)
    PROVE  Inv'
<1>1. CASE \E e \in Engineers : ReadReassign(c, w, e)
  BY <1>1, ReadInv DEF ReadReassign, Steps
<1>2. CASE ReadCheckIn(c, w) \/ ReadCheckOut(c, w) \/ ReadSaveReport(c, w)
  BY <1>2, ReadInv DEF ReadCheckIn, ReadCheckOut, ReadSaveReport, Steps
<1>3. CASE ReadSubmitPm(c, w) \/ ReadSubmitCm(c, w)
  BY <1>3, ReadInv DEF ReadSubmitPm, ReadSubmitCm, Steps
<1>4. CASE \E d \in Decisions, e \in Engineers : ReadDecide(c, w, d, e)
  BY <1>4, ReadInv DEF ReadDecide, Steps
<1> QED BY <1>1, <1>2, <1>3, <1>4 DEF Accept

LEMMA ReassignInv ==
    ASSUME Inv, NEW c \in Clients, Reassign(c)
    PROVE  Inv'
<1> DEFINE r == request[c]
<1>1. /\ r.wo \in WorkOrders /\ r.rnd \in RoundNos /\ r.st \in Statuses
      /\ r.to \in Engineers \union {None} /\ status[r.wo] # None
  BY Held DEF Reassign, Steps
<1>2. assignedTo' \in [WorkOrders -> [RoundNos -> Engineers \union {None}]]
  BY <1>1 DEF Inv, TypeOK, Reassign
<1>3. Finish(c)
  BY DEF Reassign
<1>4. TypeOK'
  BY <1>2, <1>3, FinishTyped DEF Inv, TypeOK, Reassign
<1>5. \A d \in Clients : request'[d] \in {Idle, request[d]}
  BY <1>3, FinishTyped DEF Inv
<1> QED BY <1>4, <1>5, QuietStep DEF Reassign

LEMMA CheckOutInv ==
    ASSUME Inv, NEW c \in Clients, CheckOut(c)
    PROVE  Inv'
<1> DEFINE r == request[c]
<1>1. /\ r.wo \in WorkOrders /\ r.rnd \in RoundNos /\ r.st \in Statuses
      /\ r.to \in Engineers \union {None} /\ status[r.wo] # None
  BY Held DEF CheckOut, Steps
<1>2. checkedOut' \in [WorkOrders -> [RoundNos -> BOOLEAN]]
  BY <1>1 DEF Inv, TypeOK, CheckOut
<1>3. Finish(c)
  BY DEF CheckOut
<1>4. TypeOK'
  BY <1>2, <1>3, FinishTyped DEF Inv, TypeOK, CheckOut
<1>5. \A d \in Clients : request'[d] \in {Idle, request[d]}
  BY <1>3, FinishTyped DEF Inv
<1> QED BY <1>4, <1>5, QuietStep DEF CheckOut

LEMMA CheckInInv ==
    ASSUME Inv, NEW c \in Clients, CheckIn(c)
    PROVE  Inv'
<1> DEFINE r == request[c]
<1>1. /\ r.wo \in WorkOrders /\ r.rnd \in RoundNos /\ r.st \in Statuses
      /\ r.to \in Engineers \union {None} /\ status[r.wo] # None
  BY Held DEF CheckIn, Steps
<1>2. checkedIn' \in [WorkOrders -> [RoundNos -> BOOLEAN]]
  BY <1>1 DEF Inv, TypeOK, CheckIn
<1>3. Finish(c)
  BY DEF CheckIn
<1>4. SetStatus(r.wo, r.st, "IN_PROGRESS")
  BY DEF CheckIn
<1>5. TypeOK'
  BY <1>1, <1>2, <1>3, <1>4, SetStatusTyped, FinishTyped, StatusNames
     DEF Inv, TypeOK, CheckIn
<1>6. \A w \in WorkOrders : status'[w] = None <=> status[w] = None
  BY <1>1, <1>4, SetStatusTyped, StatusNames DEF Inv
<1>7. \A d \in Clients : request'[d] \in {Idle, request[d]}
  BY <1>3, FinishTyped DEF Inv
<1> QED BY <1>5, <1>6, <1>7, QuietStep DEF CheckIn

LEMMA MarkSubmittedInv ==
    ASSUME Inv, NEW c \in Clients, MarkSubmitted(c)
    PROVE  Inv'
<1> DEFINE r == request[c]
<1>1. /\ r.wo \in WorkOrders /\ r.rnd \in RoundNos /\ r.st \in Statuses
      /\ r.to \in Engineers \union {None} /\ status[r.wo] # None
  BY Held DEF MarkSubmitted, Steps
<1>2. submitted' \in [WorkOrders -> [RoundNos -> BOOLEAN]]
  BY <1>1 DEF Inv, TypeOK, MarkSubmitted
<1>3. Finish(c)
  BY DEF MarkSubmitted
<1>4. SetStatus(r.wo, r.st, "PENDING_APPROVAL")
  BY DEF MarkSubmitted
<1>5. TypeOK'
  BY <1>1, <1>2, <1>3, <1>4, SetStatusTyped, FinishTyped, StatusNames
     DEF Inv, TypeOK, MarkSubmitted
<1>6. \A w \in WorkOrders : status'[w] = None <=> status[w] = None
  BY <1>1, <1>4, SetStatusTyped, StatusNames DEF Inv
<1>7. \A d \in Clients : request'[d] \in {Idle, request[d]}
  BY <1>3, FinishTyped DEF Inv
<1> QED BY <1>5, <1>6, <1>7, QuietStep DEF MarkSubmitted

LEMMA SyncPmDatesInv ==
    ASSUME Inv, NEW c \in Clients, SyncPmDates(c)
    PROVE  Inv'
<1> DEFINE r == request[c]
<1>1. /\ r.wo \in WorkOrders /\ r.rnd \in RoundNos /\ r.st \in Statuses
      /\ r.to \in Engineers \union {None} /\ status[r.wo] # None
  BY Held DEF SyncPmDates, Steps
<1>2. pmDates' \in [WorkOrders -> BOOLEAN]
  BY <1>1 DEF Inv, TypeOK, SyncPmDates
<1>3. Finish(c)
  BY DEF SyncPmDates
<1>4. TypeOK'
  BY <1>2, <1>3, FinishTyped DEF Inv, TypeOK, SyncPmDates
<1>5. \A d \in Clients : request'[d] \in {Idle, request[d]}
  BY <1>3, FinishTyped DEF Inv
<1> QED BY <1>4, <1>5, QuietStep DEF SyncPmDates

LEMMA SaveReportInv ==
    ASSUME Inv, NEW c \in Clients, SaveReport(c)
    PROVE  Inv'
<1> DEFINE r == request[c]
<1>1. /\ r.wo \in WorkOrders /\ r.rnd \in RoundNos /\ r.st \in Statuses
      /\ status[r.wo] # None
  BY Held DEF SaveReport, Steps
<1>2. report' \in [WorkOrders -> [RoundNos -> {None, "DRAFT", "SUBMITTED", "SAVED"}]]
  BY <1>1 DEF Inv, TypeOK, SaveReport
<1>3. checkedIn' \in [WorkOrders -> [RoundNos -> BOOLEAN]]
  <2>1. CASE BeginsWork(r)
    <3>1. checkedIn' = [checkedIn EXCEPT ![r.wo][r.rnd] = TRUE]
      BY <2>1 DEF SaveReport
    <3> QED BY <1>1, <3>1 DEF Inv, TypeOK
  <2>2. CASE ~BeginsWork(r)
    BY <2>2 DEF SaveReport, Inv, TypeOK
  <2> QED BY <2>1, <2>2
<1>4. /\ status' \in [WorkOrders -> Statuses \union {None}]
      /\ lastLog' \in [WorkOrders -> [from : Statuses \union {None},
                                      to : Statuses \union {None}]]
      /\ \A w \in WorkOrders : status'[w] = None <=> status[w] = None
  <2>1. CASE BeginsWork(r)
    <3>1. SetStatus(r.wo, r.st, "IN_PROGRESS")
      BY <2>1 DEF SaveReport
    <3> QED BY <1>1, <3>1, SetStatusTyped, StatusNames DEF Inv
  <2>2. CASE ~BeginsWork(r)
    BY <2>2 DEF SaveReport, Inv, TypeOK
  <2> QED BY <2>1, <2>2
<1>5. Finish(c)
  BY DEF SaveReport
<1>6. TypeOK'
  BY <1>2, <1>3, <1>4, <1>5, FinishTyped DEF Inv, TypeOK, SaveReport
<1>7. \A d \in Clients : request'[d] \in {Idle, request[d]}
  BY <1>5, FinishTyped DEF Inv
<1> QED BY <1>4, <1>6, <1>7, QuietStep DEF SaveReport

LEMMA SubmitReportInv ==
    ASSUME Inv, NEW c \in Clients, SubmitReport(c)
    PROVE  Inv'
<1> DEFINE r == request[c]
<1>1. /\ r \in Request /\ r.wo \in WorkOrders /\ r.rnd \in RoundNos
      /\ r.st \in Statuses /\ status[r.wo] # None
      /\ r.rnd <= roundCount[r.wo]
  BY Held DEF SubmitReport, Steps
<1>2. report' \in [WorkOrders -> [RoundNos -> {None, "DRAFT", "SUBMITTED", "SAVED"}]]
  BY <1>1 DEF Inv, TypeOK, SubmitReport
<1>3. GoOn(c, "readMark", r.rnd, r.st, None)
  BY DEF SubmitReport
<1>4. /\ request' \in [Clients -> Request \union {Idle}]
      /\ \A d \in Clients : d # c => request'[d] = request[d]
      /\ request'[c].wo = r.wo /\ request'[c].rnd = r.rnd
  BY <1>1, <1>3, GoOnTyped DEF Inv, Steps
<1>5. TypeOK'
  BY <1>2, <1>4 DEF Inv, TypeOK, SubmitReport
<1> QED BY <1>1, <1>4, <1>5, QuietStep DEF SubmitReport

LEMMA ReadMarkInv ==
    ASSUME Inv, NEW c \in Clients, ReadMark(c)
    PROVE  Inv'
<1> DEFINE r == request[c]
<1>1. r \in Request /\ r.wo \in WorkOrders /\ status[r.wo] # None
  BY Held DEF ReadMark, Steps
<1>2. /\ current[r.wo] = roundCount[r.wo] /\ current[r.wo] \in RoundNos
      /\ status[r.wo] \in Statuses
  BY <1>1, Constants DEF Inv, TypeOK, RoundChain, RoundNos
<1>3. GoOn(c, "mark", current[r.wo], status[r.wo], None)
  BY DEF ReadMark
<1>4. /\ request' \in [Clients -> Request \union {Idle}]
      /\ \A d \in Clients : d # c => request'[d] = request[d]
      /\ request'[c].wo = r.wo /\ request'[c].rnd = current[r.wo]
  BY <1>1, <1>2, <1>3, GoOnTyped DEF Inv, Steps
<1>5. TypeOK'
  BY <1>4 DEF Inv, TypeOK, ReadMark
<1>6. roundCount[r.wo] <= roundCount[r.wo]
  BY <1>2, Constants
<1> QED BY <1>1, <1>2, <1>4, <1>5, <1>6, QuietStep DEF ReadMark

LEMMA FindCmInv ==
    ASSUME Inv, NEW c \in Clients, FindCm(c)
    PROVE  Inv'
<1> DEFINE r == request[c]
<1>1. /\ r \in Request /\ r.wo \in WorkOrders /\ r.rnd \in RoundNos
      /\ r.st \in Statuses /\ status[r.wo] # None
      /\ r.rnd <= roundCount[r.wo]
  BY Held DEF FindCm, Steps
<1>2. PICK step \in {"decide", "createCm"}, m \in WorkOrders \union {None} :
        GoOn(c, step, r.rnd, r.st, m)
  BY DEF FindCm
<1>3. /\ request' \in [Clients -> Request \union {Idle}]
      /\ \A d \in Clients : d # c => request'[d] = request[d]
      /\ request'[c].wo = r.wo /\ request'[c].rnd = r.rnd
  BY <1>1, <1>2, GoOnTyped DEF Inv, Steps
<1>4. TypeOK'
  BY <1>3 DEF Inv, TypeOK, FindCm
<1> QED BY <1>1, <1>3, <1>4, QuietStep DEF FindCm

LEMMA CreateCmInv ==
    ASSUME Inv, NEW c \in Clients, CreateCm(c)
    PROVE  Inv'
<1> DEFINE r == request[c]
<1>1. /\ r \in Request /\ r.wo \in WorkOrders /\ r.rnd \in RoundNos
      /\ r.st \in Statuses /\ status[r.wo] # None
      /\ r.rnd <= roundCount[r.wo] /\ r.to \in Engineers \union {None}
  BY Held DEF CreateCm, Steps
<1>2. PICK m \in WorkOrders : InsertWorkOrder(m, r.to) /\ GoOn(c, "decide", r.rnd, r.st, m)
  BY DEF CreateCm
<1>3. /\ request' \in [Clients -> Request \union {Idle}]
      /\ \A d \in Clients : d # c => request'[d] = request[d]
      /\ request'[c].wo = r.wo /\ request'[c].rnd = r.rnd
  BY <1>1, <1>2, GoOnTyped DEF Inv, Steps
<1>4. \A d \in Clients : request'[d] # Idle =>
        /\ status[request'[d].wo] # None
        /\ request'[d].rnd <= roundCount[request'[d].wo]
  BY <1>1, <1>3 DEF Inv, RequestsKnown
<1> QED BY <1>1, <1>2, <1>3, <1>4, InsertWorkOrderInv

\* A decision that finds no decision on its round is about the newest round:
\* the earlier ones were sent back.
LEMMA UndecidedIsNewest ==
    ASSUME Inv, NEW c \in Clients, request[c].step \in Steps, Undecided(request[c])
    PROVE  request[c].rnd = roundCount[request[c].wo]
BY Held, Constants DEF Inv, RoundChain, Undecided, None

LEMMA ApplyReworkInv ==
    ASSUME Inv, NEW c \in Clients, ApplyRework(c)
    PROVE  Inv'
<1> DEFINE r == request[c]
           n == roundCount[r.wo] + 1
<1>1. /\ r.wo \in WorkOrders /\ r.rnd \in RoundNos /\ r.st \in Statuses
      /\ status[r.wo] # None /\ r.to \in Engineers \union {None}
      /\ r.rnd = roundCount[r.wo] /\ n \in RoundNos
  BY Held, UndecidedIsNewest DEF ApplyRework, Steps
<1>2. /\ OpenRound(r.wo, n, r.to) /\ SetStatus(r.wo, r.st, "ASSIGNED") /\ Finish(c)
      /\ approval' = [approval EXCEPT ![r.wo][r.rnd] = "REJECTED"]
  BY DEF ApplyRework
<1>3. TypeOK'
  <2>1. approval' \in [WorkOrders -> [RoundNos -> Decisions \union {None}]]
    BY <1>1, <1>2 DEF Inv, TypeOK, Decisions
  <2> QED BY <1>1, <1>2, <2>1, OpenRoundTyped, SetStatusTyped, FinishTyped, StatusNames
          DEF Inv, TypeOK, ApplyRework
<1>4. /\ current'[r.wo] = n /\ roundCount'[r.wo] = n /\ status'[r.wo] # None
      /\ \A v \in WorkOrders : v # r.wo =>
            /\ current'[v] = current[v] /\ roundCount'[v] = roundCount[v]
            /\ status'[v] = status[v] /\ approval'[v] = approval[v]
  BY <1>1, <1>2, OpenRoundTyped, SetStatusTyped, StatusNames DEF Inv, TypeOK
<1>5. \A k \in RoundNos :
        approval'[r.wo][k] = IF k = r.rnd THEN "REJECTED" ELSE approval[r.wo][k]
  BY <1>1, <1>2 DEF Inv, TypeOK
<1>6. RoundChain'
  <2> SUFFICES ASSUME NEW v \in WorkOrders
               PROVE  /\ current'[v] = roundCount'[v]
                      /\ status'[v] = None <=> roundCount'[v] = 0
                      /\ \A k \in RoundNos :
                          /\ k < roundCount'[v] => approval'[v][k] = "REJECTED"
                          /\ k = roundCount'[v] => approval'[v][k] # "REJECTED"
                          /\ k > roundCount'[v] => approval'[v][k] = None
    BY DEF RoundChain
  <2>1. CASE v # r.wo
    BY <1>4, <2>1 DEF Inv, RoundChain
  <2>2. CASE v = r.wo
    <3>1. roundCount[v] \in RoundNos
      BY <1>1, <2>2
    <3>2. \A k \in RoundNos : /\ k < roundCount[v] => approval[v][k] = "REJECTED"
                              /\ k > roundCount[v] => approval[v][k] = None
      BY DEF Inv, RoundChain
    <3>3. None # "REJECTED"
      BY DEF None
    <3> QED BY <1>1, <1>4, <1>5, <2>2, <3>1, <3>2, <3>3, Constants
  <2> QED BY <2>1, <2>2
<1>7. RequestsKnown'
  <2> SUFFICES ASSUME NEW d \in Clients, request'[d] # Idle
               PROVE  /\ status'[request'[d].wo] # None
                      /\ request'[d].rnd <= roundCount'[request'[d].wo]
    BY DEF RequestsKnown
  <2>1. request'[d] = request[d] /\ request[d] \in Request
    BY <1>2, FinishTyped DEF Inv, TypeOK
  <2>2. /\ request[d].wo \in WorkOrders /\ request[d].rnd \in RoundNos
        /\ status[request[d].wo] # None
        /\ request[d].rnd <= roundCount[request[d].wo]
    BY <2>1 DEF Inv, RequestsKnown, Request
  <2> QED BY <1>1, <1>4, <2>1, <2>2, Constants
<1> QED BY <1>3, <1>6, <1>7 DEF Inv

LEMMA ApplyClosingInv ==
    ASSUME Inv, NEW c \in Clients, ApplyClosing(c)
    PROVE  Inv'
<1> DEFINE r == request[c]
<1>1. /\ r \in Request /\ r.wo \in WorkOrders /\ r.rnd \in RoundNos
      /\ r.st \in Statuses /\ status[r.wo] # None
      /\ r.cm \in WorkOrders \union {None}
      /\ r.decision \in ClosingDecisions
      /\ r.rnd = roundCount[r.wo]
  BY Held, UndecidedIsNewest DEF ApplyClosing, Steps
<1>2. /\ SetStatus(r.wo, r.st, FinalStatus(r.decision))
      /\ approval' = [approval EXCEPT ![r.wo][r.rnd] = r.decision]
      /\ UNCHANGED <<current, roundCount>>
  BY DEF ApplyClosing
<1>3. FinalStatus(r.decision) \in Statuses
  BY StatusNames DEF FinalStatus
<1>4. /\ request' \in [Clients -> Request \union {Idle}]
      /\ \A d \in Clients : \/ request'[d] \in {Idle, request[d]}
                            \/ request'[d].wo = r.wo /\ request'[d].rnd = r.rnd
  <2>1. CASE DatesPanel(r)
    <3>1. GoOn(c, "pmDates", r.rnd, r.st, r.cm)
      BY <2>1 DEF ApplyClosing
    <3> QED BY <1>1, <3>1, GoOnTyped DEF Inv, Steps
  <2>2. CASE ~DatesPanel(r)
    <3>1. Finish(c)
      BY <2>2 DEF ApplyClosing
    <3> QED BY <3>1, FinishTyped DEF Inv
  <2> QED BY <2>1, <2>2
<1>5. TypeOK'
  <2>1. approval' \in [WorkOrders -> [RoundNos -> Decisions \union {None}]]
    BY <1>1, <1>2 DEF Inv, TypeOK, Decisions
  <2>2. /\ newWorkOrder' \in [WorkOrders -> WorkOrders \union {None}]
        /\ closed' \in [WorkOrders -> BOOLEAN]
    BY <1>1 DEF Inv, TypeOK, ApplyClosing
  <2> QED BY <1>1, <1>2, <1>3, <1>4, <2>1, <2>2, SetStatusTyped DEF Inv, TypeOK, ApplyClosing
<1>6. /\ status'[r.wo] # None
      /\ \A v \in WorkOrders : v # r.wo =>
            status'[v] = status[v] /\ approval'[v] = approval[v]
  BY <1>1, <1>2, <1>3, SetStatusTyped DEF Inv, TypeOK
<1>7. \A k \in RoundNos :
        approval'[r.wo][k] = IF k = r.rnd THEN r.decision ELSE approval[r.wo][k]
  BY <1>1, <1>2 DEF Inv, TypeOK
<1>8. RoundChain'
  <2> SUFFICES ASSUME NEW v \in WorkOrders
               PROVE  /\ current[v] = roundCount[v]
                      /\ status'[v] = None <=> roundCount[v] = 0
                      /\ \A k \in RoundNos :
                          /\ k < roundCount[v] => approval'[v][k] = "REJECTED"
                          /\ k = roundCount[v] => approval'[v][k] # "REJECTED"
                          /\ k > roundCount[v] => approval'[v][k] = None
    BY <1>2 DEF RoundChain
  <2>1. CASE v # r.wo
    BY <1>6, <2>1 DEF Inv, RoundChain
  <2>2. CASE v = r.wo
    <3>1. \A k \in RoundNos : /\ k < roundCount[v] => approval[v][k] = "REJECTED"
                              /\ k > roundCount[v] => approval[v][k] = None
      BY DEF Inv, RoundChain
    <3>2. r.decision # "REJECTED"
      BY <1>1 DEF ClosingDecisions
    <3>3. current[v] = roundCount[v] /\ (status[v] = None <=> roundCount[v] = 0)
      BY DEF Inv, RoundChain
    <3> QED BY <1>1, <1>6, <1>7, <2>2, <3>1, <3>2, <3>3, Constants
  <2> QED BY <2>1, <2>2
<1>9. RequestsKnown'
  <2> SUFFICES ASSUME NEW d \in Clients, request'[d] # Idle
               PROVE  /\ status'[request'[d].wo] # None
                      /\ request'[d].rnd <= roundCount[request'[d].wo]
    BY <1>2 DEF RequestsKnown
  <2>1. CASE request'[d] = request[d]
    <3>1. request[d].wo \in WorkOrders /\ status[request[d].wo] # None
      BY <2>1 DEF Inv, TypeOK, RequestsKnown, Request
    <3> QED BY <1>6, <2>1, <3>1 DEF Inv, RequestsKnown
  <2>2. CASE request'[d].wo = r.wo /\ request'[d].rnd = r.rnd
    BY <1>1, <1>6, <2>2, Constants
  <2> QED BY <1>4, <2>1, <2>2
<1> QED BY <1>5, <1>8, <1>9 DEF Inv

LEMMA StopInv ==
    ASSUME Inv, NEW c \in Clients, Refuse(c) \/ Disconnect(c)
    PROVE  Inv'
<1>1. Finish(c)
  BY DEF Refuse, Disconnect
<1>2. TypeOK'
  BY <1>1, FinishTyped DEF Inv, TypeOK, Refuse, Disconnect
<1>3. \A d \in Clients : request'[d] \in {Idle, request[d]}
  BY <1>1, FinishTyped DEF Inv
<1> QED BY <1>2, <1>3, QuietStep DEF Refuse, Disconnect

LEMMA NextInv == Inv /\ [Next]_vars => Inv'
<1> SUFFICES ASSUME Inv, [Next]_vars PROVE Inv'
  OBVIOUS
<1>1. CASE \E w \in WorkOrders, e \in Engineers : Create(w, e)
  BY <1>1, CreateInv
<1>2. CASE \E w \in WorkOrders : SoftDelete(w) \/ Restore(w)
  BY <1>2, SoftDeleteInv, RestoreInv
<1>3. CASE \E w \in WorkOrders, n \in RoundNos : DeleteReport(w, n)
  BY <1>3, DeleteReportInv
<1>4. CASE \E c \in Clients, w \in WorkOrders : Accept(c, w)
  BY <1>4, AcceptInv
<1>5. ASSUME NEW c \in Clients, Serve(c) PROVE Inv'
  BY <1>5, ReassignInv, CheckInInv, CheckOutInv, SaveReportInv, SubmitReportInv,
     ReadMarkInv, MarkSubmittedInv, FindCmInv, CreateCmInv, ApplyReworkInv,
     ApplyClosingInv, SyncPmDatesInv, StopInv DEF Serve
<1>6. CASE \E c \in Clients : Disconnect(c)
  BY <1>6, StopInv
<1>7. CASE UNCHANGED vars
  BY <1>7 DEF vars, Inv, TypeOK, RoundChain, RequestsKnown
<1> QED BY <1>1, <1>2, <1>3, <1>4, <1>5, <1>6, <1>7 DEF Next

\* In every reachable state each variable has its type, whatever the requests.
THEOREM TypeCorrect == Spec => []TypeOK
<1>1. Inv => TypeOK
  BY DEF Inv
<1> QED BY <1>1, InitInv, NextInv, PTL DEF Spec

\* The rounds of every work order form a chain in which only the newest round
\* is open, for any number of clients, work orders and rounds.
THEOREM RoundsFormChain == Spec => []RoundChain
<1>1. Inv => RoundChain
  BY DEF Inv
<1> QED BY <1>1, InitInv, NextInv, PTL DEF Spec

LEMMA InvAlways == Spec => []Inv
BY InitInv, NextInv, PTL DEF Spec

-----------------------------------------------------------------------------
(***************************************************************************)
(* Proofs about reviews: what the decisions of a work order say of its     *)
(* status, and that they are final.                                        *)
(*                                                                         *)
(* Everything follows from one lemma that says what a step can do to the   *)
(* decisions of a work order: nothing, insert the row, send its newest     *)
(* round back, or close it.                                                *)
(***************************************************************************)

Kept(w) ==
    /\ closed'[w] = closed[w] /\ roundCount'[w] = roundCount[w]
    /\ approval'[w] = approval[w]
    /\ status'[w] \in ClosedStatuses => status'[w] = status[w]

Inserted(w) ==
    /\ roundCount[w] = 0 /\ roundCount'[w] = 1
    /\ closed'[w] = closed[w] /\ approval'[w] = approval[w]
    /\ status'[w] = "ASSIGNED"

\* The newest round had no decision and gets d.
DecidedAs(w, d) ==
    /\ roundCount[w] \in RoundNos
    /\ approval[w][roundCount[w]] = None
    /\ approval'[w] = [approval[w] EXCEPT ![roundCount[w]] = d]

SentBack(w) ==
    /\ DecidedAs(w, "REJECTED")
    /\ roundCount'[w] = roundCount[w] + 1 /\ roundCount'[w] \in RoundNos
    /\ closed'[w] = closed[w]
    /\ status'[w] = "ASSIGNED"

Closed(w) ==
    \E d \in ClosingDecisions :
        /\ DecidedAs(w, d)
        /\ roundCount'[w] = roundCount[w]
        /\ closed'[w] = TRUE
        /\ status'[w] = FinalStatus(d)

DecisionMove(w) == Kept(w) \/ Inserted(w) \/ SentBack(w) \/ Closed(w)

\* A step that writes none of the decision columns keeps them, when the only
\* status it writes is not a closing one.
LEMMA WorkKeeps ==
    ASSUME TypeOK, NEW w \in WorkOrders, NEW v \in WorkOrders,
           NEW from \in Statuses, NEW to \in Statuses \ ClosedStatuses,
           SetStatus(v, from, to), UNCHANGED <<closed, roundCount, approval>>
    PROVE  Kept(w)
BY DEF TypeOK, SetStatus, Kept

LEMMA OpenNames ==
    {"ASSIGNED", "IN_PROGRESS", "PENDING_APPROVAL", "CANCELLED"}
        \subseteq Statuses \ ClosedStatuses
BY DEF Statuses, OpenStatuses, ClosedStatuses

LEMMA InsertMoves ==
    ASSUME Inv, NEW v \in WorkOrders, NEW e \in Engineers \union {None},
           InsertWorkOrder(v, e), NEW w \in WorkOrders
    PROVE  DecisionMove(w)
<1>1. OpenRound(v, 1, e) /\ SetStatus(v, None, "ASSIGNED")
      /\ UNCHANGED <<closed, approval>> /\ roundCount[v] = 0
  BY DEF InsertWorkOrder, Inv, RoundChain
<1>2. /\ roundCount'[v] = 1 /\ status'[v] = "ASSIGNED"
      /\ w # v => roundCount'[w] = roundCount[w] /\ status'[w] = status[w]
  BY <1>1 DEF OpenRound, SetStatus, Inv, TypeOK
<1> QED BY <1>1, <1>2 DEF DecisionMove, Kept, Inserted

LEMMA ReworkMoves ==
    ASSUME Inv, NEW c \in Clients, ApplyRework(c), NEW w \in WorkOrders
    PROVE  DecisionMove(w)
<1> DEFINE r == request[c]
<1>1. /\ r.wo \in WorkOrders /\ r.rnd = roundCount[r.wo]
      /\ roundCount[r.wo] \in RoundNos /\ roundCount[r.wo] + 1 \in RoundNos
      /\ approval[r.wo][r.rnd] = None
  BY Held, UndecidedIsNewest DEF ApplyRework, Steps, Undecided
<1>2. /\ OpenRound(r.wo, roundCount[r.wo] + 1, r.to)
      /\ SetStatus(r.wo, r.st, "ASSIGNED")
      /\ approval' = [approval EXCEPT ![r.wo][r.rnd] = "REJECTED"]
      /\ UNCHANGED closed
  BY DEF ApplyRework
<1>3. /\ roundCount'[r.wo] = roundCount[r.wo] + 1
      /\ status'[r.wo] = "ASSIGNED"
      /\ approval'[r.wo] = [approval[r.wo] EXCEPT ![r.rnd] = "REJECTED"]
      /\ w # r.wo => /\ roundCount'[w] = roundCount[w] /\ status'[w] = status[w]
                     /\ approval'[w] = approval[w]
  BY <1>1, <1>2 DEF OpenRound, SetStatus, Inv, TypeOK
<1>4. CASE w = r.wo
  BY <1>1, <1>2, <1>3, <1>4 DEF DecisionMove, SentBack, DecidedAs
<1>5. CASE w # r.wo
  BY <1>2, <1>3, <1>5 DEF DecisionMove, Kept
<1> QED BY <1>4, <1>5

LEMMA ClosingMoves ==
    ASSUME Inv, NEW c \in Clients, ApplyClosing(c), NEW w \in WorkOrders
    PROVE  DecisionMove(w)
<1> DEFINE r == request[c]
<1>1. /\ r.wo \in WorkOrders /\ r.rnd = roundCount[r.wo]
      /\ roundCount[r.wo] \in RoundNos /\ r.decision \in ClosingDecisions
      /\ approval[r.wo][r.rnd] = None
  BY Held, UndecidedIsNewest DEF ApplyClosing, Steps, Undecided
<1>2. /\ SetStatus(r.wo, r.st, FinalStatus(r.decision))
      /\ approval' = [approval EXCEPT ![r.wo][r.rnd] = r.decision]
      /\ closed' = [closed EXCEPT ![r.wo] = TRUE]
      /\ UNCHANGED roundCount
  BY DEF ApplyClosing
<1>3. /\ closed'[r.wo] = TRUE /\ status'[r.wo] = FinalStatus(r.decision)
      /\ approval'[r.wo] = [approval[r.wo] EXCEPT ![r.rnd] = r.decision]
      /\ w # r.wo => /\ closed'[w] = closed[w] /\ status'[w] = status[w]
                     /\ approval'[w] = approval[w]
  BY <1>1, <1>2 DEF SetStatus, Inv, TypeOK
<1>4. CASE w = r.wo
  BY <1>1, <1>2, <1>3, <1>4 DEF DecisionMove, Closed, DecidedAs
<1>5. CASE w # r.wo
  BY <1>2, <1>3, <1>5 DEF DecisionMove, Kept
<1> QED BY <1>4, <1>5

LEMMA ServeMoves ==
    ASSUME Inv, NEW c \in Clients, Serve(c), NEW w \in WorkOrders
    PROVE  DecisionMove(w)
<1> DEFINE r == request[c]
<1>1. CASE \/ Reassign(c) \/ CheckOut(c) \/ SubmitReport(c) \/ ReadMark(c)
           \/ FindCm(c) \/ SyncPmDates(c) \/ Refuse(c)
  BY <1>1 DEF Reassign, CheckOut, SubmitReport, ReadMark, FindCm, SyncPmDates,
              Refuse, DecisionMove, Kept
<1>2. CASE CheckIn(c)
  BY <1>2, Held, WorkKeeps, OpenNames DEF CheckIn, Steps, Inv, DecisionMove
<1>3. CASE MarkSubmitted(c)
  BY <1>3, Held, WorkKeeps, OpenNames DEF MarkSubmitted, Steps, Inv, DecisionMove
<1>4. CASE SaveReport(c)
  <2>1. UNCHANGED <<closed, roundCount, approval>>
    BY <1>4 DEF SaveReport
  <2>2. CASE BeginsWork(r)
    <3>1. SetStatus(r.wo, r.st, "IN_PROGRESS")
      BY <1>4, <2>2 DEF SaveReport
    <3> QED BY <1>4, <2>1, <3>1, Held, WorkKeeps, OpenNames
            DEF SaveReport, Steps, Inv, DecisionMove
  <2>3. CASE ~BeginsWork(r)
    BY <1>4, <2>1, <2>3 DEF SaveReport, DecisionMove, Kept
  <2> QED BY <2>2, <2>3
<1>5. CASE CreateCm(c)
  <2>1. PICK m \in WorkOrders : InsertWorkOrder(m, r.to)
    BY <1>5 DEF CreateCm
  <2>2. r.to \in Engineers \union {None}
    BY <1>5, Held DEF CreateCm, Steps
  <2> QED BY <2>1, <2>2, InsertMoves
<1>6. CASE ApplyRework(c)
  BY <1>6, ReworkMoves
<1>7. CASE ApplyClosing(c)
  BY <1>7, ClosingMoves
<1> QED BY <1>1, <1>2, <1>3, <1>4, <1>5, <1>6, <1>7, Constants DEF Serve

LEMMA NextMoves ==
    ASSUME Inv, [Next]_vars, NEW w \in WorkOrders
    PROVE  DecisionMove(w)
<1>1. ASSUME NEW v \in WorkOrders, NEW e \in Engineers, Create(v, e)
      PROVE  DecisionMove(w)
  BY <1>1, InsertMoves DEF Create
<1>2. ASSUME NEW v \in WorkOrders, SoftDelete(v)
      PROVE  DecisionMove(w)
  BY <1>2, OpenNames DEF SoftDelete, Inv, TypeOK, DecisionMove, Kept
<1>3. ASSUME NEW v \in WorkOrders, Restore(v)
      PROVE  DecisionMove(w)
  BY <1>3 DEF Restore, DecisionMove, Kept
<1>4. ASSUME NEW v \in WorkOrders, NEW n \in RoundNos, DeleteReport(v, n)
      PROVE  DecisionMove(w)
  BY <1>4 DEF DeleteReport, DecisionMove, Kept
<1>5. ASSUME NEW c \in Clients, NEW v \in WorkOrders, Accept(c, v)
      PROVE  DecisionMove(w)
  BY <1>5 DEF Accept, ReadReassign, ReadCheckIn, ReadCheckOut, ReadSaveReport,
              ReadSubmitPm, ReadSubmitCm, ReadDecide, Read, DecisionMove, Kept
<1>6. ASSUME NEW c \in Clients, Serve(c)
      PROVE  DecisionMove(w)
  BY <1>6, ServeMoves
<1>7. ASSUME NEW c \in Clients, Disconnect(c)
      PROVE  DecisionMove(w)
  BY <1>7 DEF Disconnect, DecisionMove, Kept
<1>8. CASE UNCHANGED vars
  BY <1>8 DEF vars, DecisionMove, Kept
<1> QED BY <1>1, <1>2, <1>3, <1>4, <1>5, <1>6, <1>7, <1>8 DEF Next

-----------------------------------------------------------------------------
LEMMA FinalStatuses ==
    ASSUME NEW d \in ClosingDecisions
    PROVE  /\ FinalStatus(d) \in {"COMPLETED", "CONDITIONAL"}
           /\ FinalStatus(d) = "COMPLETED" => d = "APPROVED"
           /\ FinalStatus(d) = "CONDITIONAL" =>
                d \in {"APPROVED_CONDITION", "ESCALATED"}
BY DEF FinalStatus, ClosingDecisions

\* What ClosedMatchesDecision says of one work order.
Matches(w) ==
    LET d == IF roundCount[w] = 0 THEN None ELSE approval[w][roundCount[w]]
    IN /\ closed[w] <=> d \in ClosingDecisions
       /\ status[w] = "COMPLETED" => d = "APPROVED"
       /\ status[w] = "CONDITIONAL" => d \in {"APPROVED_CONDITION", "ESCALATED"}

LEMMA ClosedMatchesInit == Init => ClosedMatchesDecision
<1> SUFFICES ASSUME Init, NEW w \in WorkOrders PROVE Matches(w)
  BY DEF ClosedMatchesDecision, Matches
<1>1. roundCount[w] = 0 /\ closed[w] = FALSE /\ status[w] = None
  BY DEF Init
<1> QED BY <1>1 DEF Matches, None, ClosingDecisions

LEMMA ClosedMatchesStep ==
    ASSUME Inv, Inv', ClosedMatchesDecision, [Next]_vars
    PROVE  ClosedMatchesDecision'
<1> SUFFICES ASSUME NEW w \in WorkOrders PROVE Matches(w)'
  BY DEF ClosedMatchesDecision, Matches
<1>1. Matches(w)
  BY DEF ClosedMatchesDecision, Matches
<1>2. roundCount[w] \in 0 .. MaxRounds /\ approval[w] \in [RoundNos -> Decisions \union {None}]
  BY DEF Inv, TypeOK
<1>3. CASE Kept(w)
  BY <1>1, <1>3 DEF Kept, Matches, ClosedStatuses
<1>4. CASE Inserted(w)
  <2>1. approval[w][1] = None
    BY <1>4, Constants DEF Inserted, Inv, RoundChain
  <2> QED BY <1>1, <1>4, <2>1 DEF Inserted, Matches, None, ClosingDecisions
<1>5. CASE SentBack(w)
  <2>1. approval[w][roundCount[w] + 1] = None
    BY <1>2, <1>5, Constants DEF SentBack, Inv, RoundChain
  <2>2. approval'[w][roundCount'[w]] = None /\ roundCount'[w] # 0
    BY <1>2, <1>5, <2>1, Constants DEF SentBack, DecidedAs
  <2>3. ~closed[w]
    BY <1>1, <1>5, Constants DEF SentBack, DecidedAs, Matches, None, ClosingDecisions
  <2> QED BY <1>5, <2>2, <2>3 DEF SentBack, Matches, None, ClosingDecisions
<1>6. CASE Closed(w)
  <2>1. PICK d \in ClosingDecisions :
            /\ DecidedAs(w, d) /\ roundCount'[w] = roundCount[w]
            /\ closed'[w] = TRUE /\ status'[w] = FinalStatus(d)
    BY <1>6 DEF Closed
  <2>2. approval'[w][roundCount'[w]] = d /\ roundCount'[w] # 0
    BY <1>2, <2>1, Constants DEF DecidedAs
  <2> QED BY <2>1, <2>2, FinalStatuses DEF Matches
<1> QED BY <1>3, <1>4, <1>5, <1>6, NextMoves DEF DecisionMove

\* A work order is stamped closed, and has a final status, exactly as the
\* decision on its newest round says, for any number of concurrent requests.
THEOREM ClosedAsDecided == Spec => []ClosedMatchesDecision
<1>1. Inv /\ ClosedMatchesDecision /\ [Next]_vars => (Inv /\ ClosedMatchesDecision)'
  BY NextInv, ClosedMatchesStep
<1> QED BY <1>1, InitInv, ClosedMatchesInit, PTL DEF Spec

\* No schedule of reviewers replaces a decision or opens a round on a work
\* order that one of them has closed.
THEOREM DecisionsAreFinal == Spec => ReviewIsFinal
<1>1. Inv /\ ClosedMatchesDecision /\ [Next]_vars =>
        [\A w \in WorkOrders :
            /\ \A n \in RoundNos :
                approval[w][n] # None => approval'[w][n] = approval[w][n]
            /\ closed[w] => closed'[w] /\ roundCount'[w] = roundCount[w]]_vars
  <2> SUFFICES ASSUME Inv, ClosedMatchesDecision, [Next]_vars,
                      NEW w \in WorkOrders
               PROVE  /\ \A n \in RoundNos :
                            approval[w][n] # None => approval'[w][n] = approval[w][n]
                      /\ closed[w] => closed'[w] /\ roundCount'[w] = roundCount[w]
    OBVIOUS
  <2>1. Matches(w) /\ approval[w] \in [RoundNos -> Decisions \union {None}]
    BY DEF ClosedMatchesDecision, Matches, Inv, TypeOK
  <2>2. CASE Kept(w)
    BY <2>2 DEF Kept
  <2>3. CASE Inserted(w)
    BY <2>1, <2>3 DEF Inserted, Matches, None, ClosingDecisions
  <2>4. CASE SentBack(w)
    BY <2>1, <2>4, Constants DEF SentBack, DecidedAs, Matches, None, ClosingDecisions
  <2>5. CASE Closed(w)
    BY <2>1, <2>5, Constants DEF Closed, DecidedAs, Matches, None, ClosingDecisions
  <2> QED BY <2>2, <2>3, <2>4, <2>5, NextMoves DEF DecisionMove
<1>2. Spec => []ClosedMatchesDecision
  BY ClosedAsDecided
<1> QED BY <1>1, <1>2, InvAlways, PTL DEF Spec, ReviewIsFinal

-----------------------------------------------------------------------------
\* A step that writes a status writes its log row, except a cancellation.
LEMMA LogStep ==
    ASSUME Inv, [Next]_vars, NEW w \in WorkOrders
    PROVE  \/ /\ status'[w] = status[w] /\ lastLog'[w] = lastLog[w]
              /\ cancelledOnce'[w] = cancelledOnce[w]
           \/ status'[w] = lastLog'[w].to
           \/ status'[w] = "CANCELLED" /\ cancelledOnce'[w]
<1> DEFINE P == \/ /\ status'[w] = status[w] /\ lastLog'[w] = lastLog[w]
                   /\ cancelledOnce'[w] = cancelledOnce[w]
                \/ status'[w] = lastLog'[w].to
                \/ status'[w] = "CANCELLED" /\ cancelledOnce'[w]
<1> SUFFICES P
  OBVIOUS
<1>1. ASSUME NEW v \in WorkOrders, NEW from, NEW to, SetStatus(v, from, to),
             UNCHANGED cancelledOnce
      PROVE  P
  BY <1>1 DEF SetStatus, Inv, TypeOK
<1>2. ASSUME UNCHANGED <<status, lastLog, cancelledOnce>> PROVE P
  BY <1>2
<1> HIDE DEF P
<1>3. ASSUME NEW v \in WorkOrders, NEW e, InsertWorkOrder(v, e) PROVE P
  BY <1>1, <1>3 DEF InsertWorkOrder
<1>4. ASSUME NEW v \in WorkOrders, SoftDelete(v) PROVE P
  BY <1>4 DEF SoftDelete, Inv, TypeOK, P
<1>5. ASSUME NEW c \in Clients, Serve(c) PROVE P
  <2> DEFINE r == request[c]
  <2>1. CASE \/ Reassign(c) \/ CheckOut(c) \/ SubmitReport(c) \/ ReadMark(c)
             \/ FindCm(c) \/ SyncPmDates(c) \/ Refuse(c)
    BY <1>2, <2>1 DEF Reassign, CheckOut, SubmitReport, ReadMark, FindCm,
                      SyncPmDates, Refuse
  <2>2. CASE CheckIn(c)
    BY <1>1, <2>2, Held DEF CheckIn, Steps
  <2>3. CASE MarkSubmitted(c)
    BY <1>1, <2>3, Held DEF MarkSubmitted, Steps
  <2>4. CASE SaveReport(c)
    BY <1>1, <1>2, <2>4, Held DEF SaveReport, Steps
  <2>5. CASE CreateCm(c)
    BY <1>3, <2>5 DEF CreateCm
  <2>6. CASE ApplyRework(c)
    BY <1>1, <2>6, Held DEF ApplyRework, Steps
  <2>7. CASE ApplyClosing(c)
    BY <1>1, <2>7, Held DEF ApplyClosing, Steps
  <2> QED BY <1>5, <2>1, <2>2, <2>3, <2>4, <2>5, <2>6, <2>7 DEF Serve
<1>6. ASSUME NEW c \in Clients, NEW v \in WorkOrders, Accept(c, v) PROVE P
  BY <1>2, <1>6 DEF Accept, ReadReassign, ReadCheckIn, ReadCheckOut,
                    ReadSaveReport, ReadSubmitPm, ReadSubmitCm, ReadDecide, Read
<1>7. ASSUME \/ \E v \in WorkOrders : Restore(v)
             \/ \E v \in WorkOrders, n \in RoundNos : DeleteReport(v, n)
             \/ \E c \in Clients : Disconnect(c)
             \/ UNCHANGED vars
      PROVE  P
  BY <1>2, <1>7 DEF Restore, DeleteReport, Disconnect, vars
<1> QED BY <1>3, <1>4, <1>5, <1>6, <1>7 DEF Next, Create

\* In every reachable state the status is the one of the newest activity row,
\* unless the work order has been cancelled.
THEOREM StatusIsLogged == Spec => []LoggedUnlessCancelled
<1>1. Init => LoggedUnlessCancelled
  <2> SUFFICES ASSUME Init, NEW w \in WorkOrders PROVE status[w] = lastLog[w].to
    BY DEF LoggedUnlessCancelled
  <2> QED BY DEF Init
<1>2. Inv /\ LoggedUnlessCancelled /\ [Next]_vars => LoggedUnlessCancelled'
  BY LogStep DEF LoggedUnlessCancelled
<1> QED BY <1>1, <1>2, InvAlways, PTL DEF Spec

-----------------------------------------------------------------------------
(***************************************************************************)
(* Proofs about the PMs: a PM that waits for review can be reviewed.       *)
(*                                                                         *)
(* Submitting a PM report takes two commits, and only one client can be    *)
(* between them: the DRAFT guard of the first commit makes its client the  *)
(* only one that may carry the second out.  While it has not, the round is *)
(* not submitted, so no reviewer holds it and no other round is opened.    *)
(***************************************************************************)

Submits(c, w) == request[c].step \in {"readMark", "mark"} /\ request[c].wo = w
Reviews(c, w) == request[c].step \in {"findCm", "createCm", "decide"} /\ request[c].wo = w

\* A stamped round has its report, a decided round is stamped.
StampedInOrder ==
    \A w \in Pms, n \in RoundNos :
        /\ submitted[w][n] => report[w][n] = "SUBMITTED"
        /\ approval[w][n] # None => submitted[w][n]

\* A client between the two commits of a submit is the only one, and the
\* newest round has its report and not yet its stamp.
OneSubmitter ==
    \A w \in Pms, c \in Clients : Submits(c, w) =>
        /\ request[c].rnd = roundCount[w]
        /\ report[w][roundCount[w]] = "SUBMITTED"
        /\ ~submitted[w][roundCount[w]]
        /\ \A d \in Clients : Submits(d, w) => d = c

\* A reviewer answers a stamped round.
ReviewersSawStamp ==
    \A w \in Pms, c \in Clients : Reviews(c, w) => submitted[w][request[c].rnd]

PendingIsStamped ==
    \A w \in Pms : status[w] = "PENDING_APPROVAL" =>
        submitted[w][roundCount[w]] /\ approval[w][roundCount[w]] = None

PmInv == StampedInOrder /\ OneSubmitter /\ ReviewersSawStamp /\ PendingIsStamped

-----------------------------------------------------------------------------
LEMMA PmsAreWorkOrders == Pms \subseteq WorkOrders
BY DEF Pms

LEMMA Newest ==
    ASSUME Inv, NEW w \in WorkOrders, status[w] # None
    PROVE  roundCount[w] \in RoundNos /\ current[w] = roundCount[w]
BY Constants DEF Inv, TypeOK, RoundChain, RoundNos

LEMMA PmInvInit == Init => PmInv
<1> SUFFICES ASSUME Init PROVE PmInv
  OBVIOUS
<1>1. \A w \in Pms : status[w] = None /\ \A n \in RoundNos :
        submitted[w][n] = FALSE /\ approval[w][n] = None
  BY PmsAreWorkOrders DEF Init
<1>2. \A c \in Clients : request[c].step = "idle"
  BY DEF Init, Idle
<1>3. StampedInOrder
  BY <1>1 DEF StampedInOrder
<1>4. OneSubmitter /\ ReviewersSawStamp
  BY <1>2 DEF OneSubmitter, ReviewersSawStamp, Submits, Reviews
<1>5. PendingIsStamped
  BY <1>1 DEF PendingIsStamped, None
<1> QED BY <1>3, <1>4, <1>5 DEF PmInv

\* The steps that leave the rounds, their stamps and the decisions alone.
LEMMA PmQuiet ==
    ASSUME Inv, PmInv, Inv', UNCHANGED <<roundCount, submitted, approval>>,
           \A w \in Pms, n \in RoundNos :
                report[w][n] = "SUBMITTED" => report'[w][n] = "SUBMITTED",
           \A w \in Pms : status'[w] = "PENDING_APPROVAL" =>
                status[w] = "PENDING_APPROVAL",
           \A c \in Clients :
                \/ request'[c] \in {Idle, request[c]}
                \/ /\ request'[c].step \notin {"readMark", "mark"} \/ request'[c].wo \notin Pms
                   /\ \A w \in Pms : Reviews(c, w)' => submitted[w][request'[c].rnd]
    PROVE  PmInv'
<1>1. StampedInOrder'
  BY DEF PmInv, StampedInOrder
<1>2. \A c \in Clients, w \in Pms : Submits(c, w)' =>
        request'[c] = request[c] /\ Submits(c, w)
  BY DEF Submits, Idle
<1>3. \A w \in Pms, c \in Clients : Submits(c, w)' => roundCount[w] \in RoundNos
  BY <1>2, Held DEF Submits, Steps
<1>4. OneSubmitter'
  BY <1>2, <1>3 DEF PmInv, OneSubmitter
<1>5. ReviewersSawStamp'
  BY DEF PmInv, ReviewersSawStamp, Reviews, Idle
<1>6. PendingIsStamped'
  BY DEF PmInv, PendingIsStamped
<1> QED BY <1>1, <1>4, <1>5, <1>6 DEF PmInv

LEMMA PmInsert ==
    ASSUME Inv, PmInv, Inv', NEW v \in WorkOrders, NEW e \in Engineers \union {None},
           InsertWorkOrder(v, e),
           \A c \in Clients :
                \/ request'[c] \in {Idle, request[c]}
                \/ /\ request'[c].step \notin {"readMark", "mark"}
                   /\ \A w \in Pms : Reviews(c, w)' => Reviews(c, w) /\ request'[c].rnd = request[c].rnd
    PROVE  PmInv'
<1>1. /\ status[v] = None /\ status'[v] = "ASSIGNED" /\ roundCount[v] = 0
      /\ UNCHANGED approval
      /\ \A n \in RoundNos : approval[v][n] = None
  BY Constants DEF InsertWorkOrder, SetStatus, Inv, TypeOK, RoundChain
<1>2. \A w \in WorkOrders : w # v =>
        /\ status'[w] = status[w] /\ roundCount'[w] = roundCount[w]
        /\ submitted'[w] = submitted[w] /\ report'[w] = report[w]
  BY DEF InsertWorkOrder, SetStatus, OpenRound, Inv, TypeOK
<1>3. \A n \in RoundNos : submitted'[v][n] => submitted[v][n] /\ report'[v][n] = report[v][n]
  BY Constants DEF InsertWorkOrder, OpenRound, Inv, TypeOK
<1>4. \A c \in Clients, w \in Pms : Submits(c, w)' => Submits(c, w) /\ request'[c] = request[c]
  BY DEF Submits, Idle
<1>5. \A c \in Clients, w \in Pms : Reviews(c, w)' =>
        Reviews(c, w) /\ request'[c].rnd = request[c].rnd
  BY DEF Reviews, Idle
<1>6. \A c \in Clients, w \in Pms : Submits(c, w) \/ Reviews(c, w) => w # v
  BY <1>1, Held DEF Submits, Reviews, Steps
<1>7. StampedInOrder'
  BY <1>1, <1>2, <1>3, PmsAreWorkOrders DEF PmInv, StampedInOrder
<1>8. OneSubmitter'
  BY <1>2, <1>4, <1>6, PmsAreWorkOrders DEF PmInv, OneSubmitter
<1>9. ReviewersSawStamp'
  BY <1>2, <1>5, <1>6, PmsAreWorkOrders DEF PmInv, ReviewersSawStamp
<1>10. PendingIsStamped'
  BY <1>1, <1>2, PmsAreWorkOrders DEF PmInv, PendingIsStamped
<1> QED BY <1>7, <1>8, <1>9, <1>10 DEF PmInv

-----------------------------------------------------------------------------
LEMMA PmSubmitReport ==
    ASSUME Inv, PmInv, Inv', NEW c \in Clients, SubmitReport(c)
    PROVE  PmInv'
<1> DEFINE r == request[c]
<1>1. /\ r \in Request /\ r.wo \in WorkOrders /\ r.rnd \in RoundNos
      /\ r.st \in Statuses /\ roundCount[r.wo] \in RoundNos
  BY Held DEF SubmitReport, Steps
<1>2. /\ report[r.wo][r.rnd] = "DRAFT"
      /\ report' = [report EXCEPT ![r.wo][r.rnd] = "SUBMITTED"]
      /\ GoOn(c, "readMark", r.rnd, r.st, None)
      /\ UNCHANGED <<status, roundCount, submitted, approval>>
  BY DEF SubmitReport, IsDraft
<1>3. /\ report'[r.wo][r.rnd] = "SUBMITTED"
      /\ \A w \in WorkOrders, n \in RoundNos :
            report[w][n] = "SUBMITTED" => report'[w][n] = "SUBMITTED"
  BY <1>1, <1>2 DEF Inv, TypeOK
<1>4. /\ request'[c].step = "readMark" /\ request'[c].wo = r.wo
      /\ request'[c].rnd = r.rnd
      /\ \A d \in Clients : d # c => request'[d] = request[d]
  BY <1>1, <1>2 DEF GoOn, Inv, TypeOK
<1>5. ASSUME r.wo \in Pms
      PROVE  /\ r.rnd = roundCount[r.wo] /\ ~submitted[r.wo][r.rnd]
             /\ \A d \in Clients : ~Submits(d, r.wo)
  <2>1. ~submitted[r.wo][r.rnd]
    BY <1>1, <1>2, <1>5 DEF PmInv, StampedInOrder
  <2>2. approval[r.wo][r.rnd] = None
    BY <1>1, <1>5, <2>1 DEF PmInv, StampedInOrder
  <2>3. r.rnd = roundCount[r.wo]
    BY <2>2, UndecidedIsNewest DEF SubmitReport, Undecided, Steps
  <2>4. \A d \in Clients : ~Submits(d, r.wo)
    BY <1>2, <1>5, <2>3 DEF PmInv, OneSubmitter
  <2> QED BY <2>1, <2>3, <2>4
<1>6. StampedInOrder'
  BY <1>2, <1>3, PmsAreWorkOrders DEF PmInv, StampedInOrder
<1>7. OneSubmitter'
  <2> SUFFICES ASSUME NEW w \in Pms, NEW d \in Clients, Submits(d, w)'
               PROVE  /\ request'[d].rnd = roundCount[w]
                      /\ report'[w][roundCount[w]] = "SUBMITTED"
                      /\ ~submitted[w][roundCount[w]]
                      /\ \A b \in Clients : Submits(b, w)' => b = d
    BY <1>2 DEF OneSubmitter
  <2>1. CASE w = r.wo
    BY <1>1, <1>3, <1>4, <1>5, <2>1 DEF Submits
  <2>2. CASE w # r.wo
    <3>1. Submits(d, w) /\ request'[d] = request[d]
      BY <1>4, <2>2 DEF Submits
    <3>2. \A b \in Clients : Submits(b, w)' => Submits(b, w)
      BY <1>4, <2>2 DEF Submits
    <3>3. roundCount[w] \in RoundNos
      BY <3>1, Held DEF Submits, Steps
    <3> QED BY <1>3, <3>1, <3>2, <3>3, PmsAreWorkOrders DEF PmInv, OneSubmitter
  <2> QED BY <2>1, <2>2
<1>8. ReviewersSawStamp'
  BY <1>2, <1>4 DEF PmInv, ReviewersSawStamp, Reviews
<1>9. PendingIsStamped'
  BY <1>2 DEF PmInv, PendingIsStamped
<1> QED BY <1>6, <1>7, <1>8, <1>9 DEF PmInv

\* The second read changes nothing but the step.
LEMMA PmReadMark ==
    ASSUME Inv, PmInv, Inv', NEW c \in Clients, ReadMark(c)
    PROVE  PmInv'
<1> DEFINE r == request[c]
<1>1. /\ r.step = "readMark" /\ r \in Request /\ r.wo \in WorkOrders
      /\ current[r.wo] = roundCount[r.wo]
  BY Held DEF ReadMark, Steps, Inv, RoundChain
<1>2. /\ GoOn(c, "mark", current[r.wo], status[r.wo], None)
      /\ UNCHANGED <<status, roundCount, submitted, approval, report>>
  BY DEF ReadMark
<1>3. /\ request'[c].step = "mark" /\ request'[c].wo = r.wo
      /\ request'[c].rnd = roundCount[r.wo]
      /\ \A d \in Clients : d # c => request'[d] = request[d]
  BY <1>1, <1>2 DEF GoOn, Inv, TypeOK
<1>4. \A d \in Clients, w \in Pms : Submits(d, w)' <=> Submits(d, w)
  BY <1>1, <1>3 DEF Submits
<1>5. OneSubmitter'
  BY <1>2, <1>3, <1>4 DEF PmInv, OneSubmitter, Submits
<1>6. StampedInOrder' /\ PendingIsStamped'
  BY <1>2 DEF PmInv, StampedInOrder, PendingIsStamped
<1>7. ReviewersSawStamp'
  BY <1>2, <1>3 DEF PmInv, ReviewersSawStamp, Reviews
<1> QED BY <1>5, <1>6, <1>7 DEF PmInv

LEMMA PmMarkSubmitted ==
    ASSUME Inv, PmInv, Inv', NEW c \in Clients, MarkSubmitted(c)
    PROVE  PmInv'
<1> DEFINE r == request[c]
<1>1. /\ r.step = "mark" /\ r.wo \in WorkOrders /\ r.rnd \in RoundNos
      /\ Submits(c, r.wo)
  BY Held DEF MarkSubmitted, Steps, Submits
<1>2. /\ submitted' = [submitted EXCEPT ![r.wo][r.rnd] = TRUE]
      /\ status' = [status EXCEPT ![r.wo] = "PENDING_APPROVAL"]
      /\ request' = [request EXCEPT ![c] = Idle]
      /\ UNCHANGED <<roundCount, approval, report>>
  BY DEF MarkSubmitted, SetStatus, Finish
<1>3. /\ submitted'[r.wo][r.rnd] = TRUE
      /\ \A w \in WorkOrders, n \in RoundNos :
            w # r.wo \/ n # r.rnd => submitted'[w][n] = submitted[w][n]
  <2>1. submitted \in [WorkOrders -> [RoundNos -> BOOLEAN]]
    BY DEF Inv, TypeOK
  <2>2. /\ submitted'[r.wo] = [submitted[r.wo] EXCEPT ![r.rnd] = TRUE]
        /\ \A w \in WorkOrders : w # r.wo => submitted'[w] = submitted[w]
    BY <1>1, <1>2, <2>1
  <2> QED BY <1>1, <2>1, <2>2
<1>4. ASSUME r.wo \in Pms
      PROVE  /\ r.rnd = roundCount[r.wo] /\ report[r.wo][r.rnd] = "SUBMITTED"
             /\ approval[r.wo][r.rnd] = None
             /\ \A d \in Clients : Submits(d, r.wo) => d = c
  BY <1>1, <1>4 DEF PmInv, OneSubmitter, StampedInOrder
<1>5. \A d \in Clients, w \in Pms :
        /\ Submits(d, w)' => d # c /\ Submits(d, w) /\ request'[d] = request[d]
        /\ Reviews(d, w)' => Reviews(d, w) /\ request'[d] = request[d]
  BY <1>1, <1>2 DEF Submits, Reviews, Idle, Inv, TypeOK
<1>6. StampedInOrder'
  BY <1>2, <1>3, <1>4, PmsAreWorkOrders DEF PmInv, StampedInOrder
<1>7. OneSubmitter'
  <2> SUFFICES ASSUME NEW w \in Pms, NEW d \in Clients, Submits(d, w)'
               PROVE  /\ request'[d].rnd = roundCount[w]
                      /\ report[w][roundCount[w]] = "SUBMITTED"
                      /\ ~submitted'[w][roundCount[w]]
                      /\ \A b \in Clients : Submits(b, w)' => b = d
    BY <1>2 DEF OneSubmitter
  <2>1. w # r.wo /\ w \in WorkOrders /\ Submits(d, w)
    BY <1>4, <1>5, PmsAreWorkOrders
  <2>2. roundCount[w] \in RoundNos
    BY <2>1, Held DEF Submits, Steps
  <2> QED BY <1>3, <1>5, <2>1, <2>2 DEF PmInv, OneSubmitter
<1>8. ReviewersSawStamp'
  <2> SUFFICES ASSUME NEW w \in Pms, NEW d \in Clients, Reviews(d, w)'
               PROVE  submitted'[w][request'[d].rnd]
    BY DEF ReviewersSawStamp
  <2>1. Reviews(d, w) /\ request'[d] = request[d]
    BY <1>5
  <2>2. request[d].rnd \in RoundNos
    BY <2>1, Held DEF Reviews, Steps
  <2> QED BY <1>3, <2>1, <2>2, PmsAreWorkOrders DEF PmInv, ReviewersSawStamp
<1>9. PendingIsStamped'
  <2> SUFFICES ASSUME NEW w \in Pms, status'[w] = "PENDING_APPROVAL"
               PROVE  submitted'[w][roundCount[w]] /\ approval[w][roundCount[w]] = None
    BY <1>2 DEF PendingIsStamped
  <2>1. CASE w = r.wo
    BY <1>1, <1>3, <1>4, <2>1
  <2>2. CASE w # r.wo
    <3>1. status[w] = "PENDING_APPROVAL"
      BY <1>2, <2>2, PmsAreWorkOrders DEF Inv, TypeOK
    <3>2. roundCount[w] \in RoundNos
      BY <3>1, Newest, PmsAreWorkOrders DEF None
    <3> QED BY <1>3, <3>1, <3>2, PmsAreWorkOrders DEF PmInv, PendingIsStamped
  <2> QED BY <2>1, <2>2
<1> QED BY <1>6, <1>7, <1>8, <1>9 DEF PmInv

\* A reviewer that finds no decision holds the newest round, which is stamped:
\* nobody is between the two commits of a submit.
LEMMA ReviewAlone ==
    ASSUME Inv, PmInv, NEW c \in Clients, request[c].step = "decide",
           Undecided(request[c]), request[c].wo \in Pms
    PROVE  /\ submitted[request[c].wo][request[c].rnd]
           /\ \A d \in Clients : ~Submits(d, request[c].wo)
<1>1. request[c].rnd = roundCount[request[c].wo]
  BY UndecidedIsNewest DEF Steps
<1>2. submitted[request[c].wo][request[c].rnd]
  BY DEF PmInv, ReviewersSawStamp, Reviews
<1> QED BY <1>1, <1>2 DEF PmInv, OneSubmitter

LEMMA PmApplyClosing ==
    ASSUME Inv, PmInv, Inv', NEW c \in Clients, ApplyClosing(c)
    PROVE  PmInv'
<1> DEFINE r == request[c]
<1>1. /\ r \in Request /\ r.wo \in WorkOrders /\ r.rnd \in RoundNos
      /\ r.step = "decide" /\ Undecided(r)
      /\ r.st \in Statuses /\ r.cm \in WorkOrders \union {None}
  BY Held DEF ApplyClosing, Steps
<1>2. /\ approval' = [approval EXCEPT ![r.wo][r.rnd] = r.decision]
      /\ status' = [status EXCEPT ![r.wo] = FinalStatus(r.decision)]
      /\ UNCHANGED <<roundCount, submitted, report>>
  BY DEF ApplyClosing, SetStatus
<1>3. \A w \in WorkOrders, n \in RoundNos :
        approval'[w][n] # approval[w][n] => w = r.wo /\ n = r.rnd
  BY <1>1, <1>2 DEF Inv, TypeOK
<1>4. r.wo \in Pms => submitted[r.wo][r.rnd]
  BY <1>1, ReviewAlone
<1>5. \A d \in Clients :
        \/ request'[d] \in {Idle, request[d]}
        \/ request'[d].step = "pmDates"
  <2>1. CASE DatesPanel(r)
    BY <1>1, <2>1 DEF ApplyClosing, GoOn, Inv, TypeOK
  <2>2. CASE ~DatesPanel(r)
    BY <2>2 DEF ApplyClosing, Finish, Inv, TypeOK
  <2> QED BY <2>1, <2>2
<1>6. \A d \in Clients, w \in Pms :
        /\ Submits(d, w)' => Submits(d, w) /\ request'[d] = request[d]
        /\ Reviews(d, w)' => Reviews(d, w) /\ request'[d] = request[d]
  BY <1>5 DEF Submits, Reviews, Idle
<1>7. StampedInOrder'
  BY <1>2, <1>3, <1>4, PmsAreWorkOrders DEF PmInv, StampedInOrder
<1>8. OneSubmitter' /\ ReviewersSawStamp'
  BY <1>2, <1>6 DEF PmInv, OneSubmitter, ReviewersSawStamp
<1>9. PendingIsStamped'
  <2> SUFFICES ASSUME NEW w \in Pms, status'[w] = "PENDING_APPROVAL"
               PROVE  submitted[w][roundCount[w]] /\ approval'[w][roundCount[w]] = None
    BY <1>2 DEF PendingIsStamped
  <2>1. w # r.wo /\ status[w] = "PENDING_APPROVAL" /\ w \in WorkOrders
    BY <1>1, <1>2, PmsAreWorkOrders DEF Inv, TypeOK, FinalStatus
  <2>2. roundCount[w] \in RoundNos
    BY <2>1, Newest DEF None
  <2> QED BY <1>3, <2>1, <2>2 DEF PmInv, PendingIsStamped
<1> QED BY <1>7, <1>8, <1>9 DEF PmInv

LEMMA PmApplyRework ==
    ASSUME Inv, PmInv, Inv', NEW c \in Clients, ApplyRework(c)
    PROVE  PmInv'
<1> DEFINE r == request[c]
           n == roundCount[r.wo] + 1
<1>1. /\ r.wo \in WorkOrders /\ r.rnd \in RoundNos /\ n \in RoundNos
      /\ r.step = "decide" /\ Undecided(r) /\ r.rnd = roundCount[r.wo]
  BY Held, UndecidedIsNewest DEF ApplyRework, Steps
<1>2. /\ approval' = [approval EXCEPT ![r.wo][r.rnd] = "REJECTED"]
      /\ status' = [status EXCEPT ![r.wo] = "ASSIGNED"]
      /\ submitted' = [submitted EXCEPT ![r.wo][n] = FALSE]
      /\ roundCount' = [roundCount EXCEPT ![r.wo] = n]
      /\ request' = [request EXCEPT ![c] = Idle]
      /\ UNCHANGED report
  BY DEF ApplyRework, OpenRound, SetStatus, Finish
<1>3. /\ submitted'[r.wo][n] = FALSE
      /\ \A w \in WorkOrders, k \in RoundNos :
            /\ w # r.wo \/ k # r.rnd => approval'[w][k] = approval[w][k]
            /\ w # r.wo \/ k # n => submitted'[w][k] = submitted[w][k]
  <2>1. submitted \in [WorkOrders -> [RoundNos -> BOOLEAN]]
    BY DEF Inv, TypeOK
  <2>2. /\ submitted'[r.wo] = [submitted[r.wo] EXCEPT ![n] = FALSE]
        /\ \A w \in WorkOrders : w # r.wo => submitted'[w] = submitted[w]
    BY <1>1, <1>2, <2>1
  <2>3. \A w \in WorkOrders, k \in RoundNos :
            w # r.wo \/ k # r.rnd => approval'[w][k] = approval[w][k]
    BY <1>1, <1>2 DEF Inv, TypeOK
  <2> QED BY <1>1, <2>1, <2>2, <2>3
<1>4. \A w \in WorkOrders : w # r.wo =>
        roundCount'[w] = roundCount[w] /\ status'[w] = status[w]
  BY <1>1, <1>2 DEF Inv, TypeOK
<1>5. r.wo \in Pms => /\ submitted[r.wo][r.rnd]
                      /\ \A d \in Clients : ~Submits(d, r.wo)
  BY <1>1, ReviewAlone
<1>6. approval[r.wo][n] = None /\ r.rnd # n
  BY <1>1, Constants DEF Inv, RoundChain
<1>7. \A d \in Clients, w \in Pms :
        /\ Submits(d, w)' => Submits(d, w) /\ request'[d] = request[d]
        /\ Reviews(d, w)' => Reviews(d, w) /\ request'[d] = request[d]
  BY <1>1, <1>2 DEF Submits, Reviews, Idle, Inv, TypeOK
<1>8. StampedInOrder'
  BY <1>2, <1>3, <1>5, <1>6, PmsAreWorkOrders DEF PmInv, StampedInOrder
<1>9. OneSubmitter'
  <2> SUFFICES ASSUME NEW w \in Pms, NEW d \in Clients, Submits(d, w)'
               PROVE  /\ request'[d].rnd = roundCount'[w]
                      /\ report[w][roundCount'[w]] = "SUBMITTED"
                      /\ ~submitted'[w][roundCount'[w]]
                      /\ \A b \in Clients : Submits(b, w)' => b = d
    BY <1>2 DEF OneSubmitter
  <2>1. w # r.wo /\ w \in WorkOrders /\ Submits(d, w)
    BY <1>5, <1>7, PmsAreWorkOrders
  <2>2. roundCount[w] \in RoundNos
    BY <2>1, Held DEF Submits, Steps
  <2> QED BY <1>3, <1>4, <1>7, <2>1, <2>2 DEF PmInv, OneSubmitter
<1>10. ReviewersSawStamp'
  <2> SUFFICES ASSUME NEW w \in Pms, NEW d \in Clients, Reviews(d, w)'
               PROVE  submitted'[w][request'[d].rnd]
    BY DEF ReviewersSawStamp
  <2>1. Reviews(d, w) /\ request'[d] = request[d]
    BY <1>7
  <2>2. /\ request[d].rnd \in RoundNos /\ request[d].rnd <= roundCount[request[d].wo]
        /\ request[d].wo = w /\ w \in WorkOrders
    BY <2>1, Held, PmsAreWorkOrders DEF Reviews, Steps
  <2>3. w # r.wo \/ request[d].rnd # n
    BY <1>1, <2>2, Constants
  <2> QED BY <1>3, <2>1, <2>2, <2>3 DEF PmInv, ReviewersSawStamp
<1>11. PendingIsStamped'
  <2> SUFFICES ASSUME NEW w \in Pms, status'[w] = "PENDING_APPROVAL"
               PROVE  submitted'[w][roundCount'[w]] /\ approval'[w][roundCount'[w]] = None
    BY DEF PendingIsStamped
  <2>1. w # r.wo /\ status[w] = "PENDING_APPROVAL" /\ w \in WorkOrders
    BY <1>1, <1>2, PmsAreWorkOrders DEF Inv, TypeOK
  <2>2. roundCount[w] \in RoundNos
    BY <2>1, Newest DEF None
  <2> QED BY <1>3, <1>4, <2>1, <2>2 DEF PmInv, PendingIsStamped
<1> QED BY <1>8, <1>9, <1>10, <1>11 DEF PmInv

-----------------------------------------------------------------------------
LEMMA PmCreate ==
    ASSUME Inv, PmInv, Inv', NEW w \in WorkOrders, NEW e \in Engineers, Create(w, e)
    PROVE  PmInv'
BY PmInsert DEF Create

LEMMA PmCancel ==
    ASSUME Inv, PmInv, Inv', NEW w \in WorkOrders, SoftDelete(w) \/ Restore(w)
    PROVE  PmInv'
<1>1. \A v \in Pms : status'[v] = "PENDING_APPROVAL" => status[v] = "PENDING_APPROVAL"
  BY PmsAreWorkOrders DEF SoftDelete, Restore, Inv, TypeOK
<1> QED BY <1>1, PmQuiet DEF SoftDelete, Restore

LEMMA PmDeleteReport ==
    ASSUME Inv, PmInv, Inv', NEW w \in WorkOrders, NEW n \in RoundNos, DeleteReport(w, n)
    PROVE  PmInv'
<1>1. \A v \in Pms, k \in RoundNos :
        report[v][k] = "SUBMITTED" => report'[v][k] = "SUBMITTED"
  BY PmsAreWorkOrders DEF DeleteReport, Inv, TypeOK
<1> QED BY <1>1, PmQuiet DEF DeleteReport

LEMMA PmRead ==
    ASSUME Inv, PmInv, Inv', NEW c \in Clients, NEW w \in WorkOrders,
           NEW step, NEW to, NEW decision, Read(c, w, step, to, decision),
           step \in {"readMark", "mark"} => w \notin Pms,
           step \in {"findCm", "createCm", "decide"} => status[w] = "PENDING_APPROVAL"
    PROVE  PmInv'
<1>1. /\ request'[c].step = step /\ request'[c].wo = w
      /\ request'[c].rnd = roundCount[w]
      /\ \A d \in Clients : d # c => request'[d] = request[d]
  BY Newest DEF Read, Inv, TypeOK
<1>2. \A v \in Pms : Reviews(c, v)' => submitted[v][request'[c].rnd]
  BY <1>1 DEF Reviews, PmInv, PendingIsStamped
<1> QED BY <1>1, <1>2, PmQuiet DEF Read

LEMMA PmAccept ==
    ASSUME Inv, PmInv, Inv', NEW c \in Clients, NEW w \in WorkOrders, Accept(c, w)
    PROVE  PmInv'
<1>1. CASE \E e \in Engineers : ReadReassign(c, w, e)
  BY <1>1, PmRead DEF ReadReassign
<1>2. CASE ReadCheckIn(c, w) \/ ReadCheckOut(c, w) \/ ReadSaveReport(c, w)
  BY <1>2, PmRead DEF ReadCheckIn, ReadCheckOut, ReadSaveReport
<1>3. CASE ReadSubmitPm(c, w)
  BY <1>3, PmRead DEF ReadSubmitPm
<1>4. CASE ReadSubmitCm(c, w)
  BY <1>4, PmRead DEF ReadSubmitCm, Pms
<1>5. CASE \E d \in Decisions, e \in Engineers : ReadDecide(c, w, d, e)
  BY <1>5, PmRead DEF ReadDecide
<1> QED BY <1>1, <1>2, <1>3, <1>4, <1>5 DEF Accept

\* A step that ends its request and writes a status other than PENDING_APPROVAL,
\* or none.
LEMMA PmEnds ==
    ASSUME Inv, PmInv, Inv', NEW c \in Clients, Finish(c),
           UNCHANGED <<roundCount, submitted, approval>>,
           \A w \in Pms, n \in RoundNos :
                report[w][n] = "SUBMITTED" => report'[w][n] = "SUBMITTED",
           \/ UNCHANGED status
           \/ \E w \in WorkOrders, from \in Statuses : SetStatus(w, from, "IN_PROGRESS")
    PROVE  PmInv'
<1>1. \A d \in Clients : request'[d] \in {Idle, request[d]}
  BY FinishTyped DEF Inv
<1>2. \A w \in Pms : status'[w] = "PENDING_APPROVAL" => status[w] = "PENDING_APPROVAL"
  BY PmsAreWorkOrders DEF SetStatus, Inv, TypeOK
<1> QED BY <1>1, <1>2, PmQuiet

LEMMA PmSaveReport ==
    ASSUME Inv, PmInv, Inv', NEW c \in Clients, SaveReport(c)
    PROVE  PmInv'
<1> DEFINE r == request[c]
<1>1. r.wo \in WorkOrders /\ r.rnd \in RoundNos /\ r.st \in Statuses
  BY Held DEF SaveReport, Steps
<1>2. r.wo \in Pms => report[r.wo][r.rnd] # "SUBMITTED"
  BY DEF SaveReport, CanSave, Pms
<1>3. \A w \in Pms, n \in RoundNos :
        report[w][n] = "SUBMITTED" => report'[w][n] = "SUBMITTED"
  BY <1>1, <1>2, PmsAreWorkOrders DEF SaveReport, Inv, TypeOK
<1>4. \/ UNCHANGED status
      \/ SetStatus(r.wo, r.st, "IN_PROGRESS")
  BY DEF SaveReport
<1> QED BY <1>1, <1>3, <1>4, PmEnds DEF SaveReport

LEMMA PmEscalate ==
    ASSUME Inv, PmInv, Inv', NEW c \in Clients, FindCm(c) \/ CreateCm(c)
    PROVE  PmInv'
<1> DEFINE r == request[c]
<1>1. /\ r.step \in {"findCm", "createCm"} /\ r \in Request
      /\ r.to \in Engineers \union {None}
  BY Held DEF FindCm, CreateCm, Steps
<1>2. /\ request'[c].step \in {"createCm", "decide"}
      /\ request'[c].wo = r.wo /\ request'[c].rnd = r.rnd
      /\ \A d \in Clients : d # c => request'[d] = request[d]
  BY DEF FindCm, CreateCm, GoOn, Inv, TypeOK
<1>3. \A w \in Pms : Reviews(c, w)' => Reviews(c, w) /\ request'[c].rnd = r.rnd
  BY <1>1, <1>2 DEF Reviews
<1>4. CASE FindCm(c)
  <2>1. \A w \in Pms : Reviews(c, w)' => submitted[w][request'[c].rnd]
    BY <1>3 DEF PmInv, ReviewersSawStamp
  <2> QED BY <1>2, <1>4, <2>1, PmQuiet DEF FindCm
<1>5. CASE CreateCm(c)
  <2>1. PICK m \in WorkOrders : InsertWorkOrder(m, r.to)
    BY <1>5 DEF CreateCm
  <2> QED BY <1>1, <1>2, <1>3, <2>1, PmInsert
<1> QED BY <1>4, <1>5

LEMMA PmServe ==
    ASSUME Inv, PmInv, Inv', NEW c \in Clients, Serve(c)
    PROVE  PmInv'
<1>1. CASE Reassign(c) \/ CheckOut(c) \/ SyncPmDates(c) \/ Refuse(c)
  BY <1>1, PmEnds DEF Reassign, CheckOut, SyncPmDates, Refuse
<1>2. CASE CheckIn(c)
  BY <1>2, Held, PmEnds DEF CheckIn, Steps
<1> QED BY <1>1, <1>2, PmSaveReport, PmSubmitReport, PmReadMark, PmMarkSubmitted,
           PmEscalate, PmApplyRework, PmApplyClosing DEF Serve

LEMMA PmNext == Inv /\ PmInv /\ [Next]_vars => (Inv /\ PmInv)'
<1> SUFFICES ASSUME Inv, PmInv, [Next]_vars PROVE (Inv /\ PmInv)'
  OBVIOUS
<1>1. Inv'
  BY NextInv
<1>2. CASE \E w \in WorkOrders, e \in Engineers : Create(w, e)
  BY <1>1, <1>2, PmCreate
<1>3. CASE \E w \in WorkOrders : SoftDelete(w) \/ Restore(w)
  BY <1>1, <1>3, PmCancel
<1>4. CASE \E w \in WorkOrders, n \in RoundNos : DeleteReport(w, n)
  BY <1>1, <1>4, PmDeleteReport
<1>5. CASE \E c \in Clients, w \in WorkOrders : Accept(c, w)
  BY <1>1, <1>5, PmAccept
<1>6. CASE \E c \in Clients : Serve(c)
  BY <1>1, <1>6, PmServe
<1>7. CASE \E c \in Clients : Disconnect(c)
  BY <1>1, <1>7, PmEnds DEF Disconnect
<1>8. CASE UNCHANGED vars
  BY <1>1, <1>8, PmQuiet DEF vars
<1> QED BY <1>1, <1>2, <1>3, <1>4, <1>5, <1>6, <1>7, <1>8 DEF Next

LEMMA PmPendingFollows == Inv /\ PmInv => PmPendingReviewable
<1> SUFFICES ASSUME Inv, PmInv, NEW w \in Pms, status[w] = "PENDING_APPROVAL"
             PROVE  /\ report[w][current[w]] = "SUBMITTED"
                    /\ submitted[w][current[w]]
                    /\ approval[w][current[w]] = None
  BY DEF PmPendingReviewable
<1>1. roundCount[w] \in RoundNos /\ current[w] = roundCount[w]
  BY Newest, PmsAreWorkOrders DEF None
<1> QED BY <1>1 DEF PmInv, PendingIsStamped, StampedInOrder

\* A PM that waits for review always has a submitted report on its current
\* round and no decision, however many requests race and wherever they stop.
THEOREM PendingPmIsReviewable == Spec => []PmPendingReviewable
BY InitInv, PmInvInit, PmNext, PmPendingFollows, PTL DEF Spec

\* The two commits of a submit are not one transaction, yet at most one request
\* is ever between them on one PM, and the round it will stamp is the newest.
THEOREM SubmitsNeverCross == Spec => []OneSubmitter
<1>1. PmInv => OneSubmitter
  BY DEF PmInv
<1> QED BY <1>1, InitInv, PmInvInit, PmNext, PTL DEF Spec

-----------------------------------------------------------------------------
(***************************************************************************)
(* Proofs about escalations: the decision of the newest round is ESCALATED *)
(* exactly when the work order names a CM.                                 *)
(*                                                                         *)
(* The CM is found or created in a step of its own, so the invariant is    *)
(* also about the reviews in flight: what they hold when they are about to *)
(* decide, and that a work order, once created, never goes away.           *)
(***************************************************************************)

\* A work order a decision can name: its row exists.
CmRow(m) == m \in WorkOrders /\ WoType[m] = "CM" /\ status[m] # None

\* What a review in flight holds: only an escalation looks for a CM, and it
\* has one when it comes to decide.
ReviewFormed(r) ==
    /\ r.step \in {"findCm", "createCm"} => r.decision = "ESCALATED"
    /\ r.step = "decide" =>
        IF r.decision = "ESCALATED" THEN CmRow(r.cm) ELSE r.cm = None

ReviewsFormed == \A c \in Clients : ReviewFormed(request[c])

\* The decision on the newest round.
NewestDecision(w) == IF roundCount[w] = 0 THEN None ELSE approval[w][roundCount[w]]

\* What EscalationNamesCm says of one work order.
NamesCm(w) ==
    /\ NewestDecision(w) = "ESCALATED" <=> newWorkOrder[w] # None
    /\ newWorkOrder[w] # None => CmRow(newWorkOrder[w])

EscInv == ReviewsFormed /\ \A w \in WorkOrders : NamesCm(w)

LEMMA EscInvInit == Init => EscInv
<1> SUFFICES ASSUME Init PROVE EscInv
  OBVIOUS
<1>1. \A c \in Clients : request[c].step = "idle"
  BY DEF Init, Idle
<1>2. \A w \in WorkOrders : roundCount[w] = 0 /\ newWorkOrder[w] = None
  BY DEF Init
<1> QED BY <1>1, <1>2 DEF EscInv, ReviewsFormed, ReviewFormed, NamesCm,
                          NewestDecision, None

\* No request takes a work order out of the table.
LEMMA RowsStay ==
    ASSUME Inv, Inv', [Next]_vars, NEW w \in WorkOrders, status[w] # None
    PROVE  status'[w] # None
<1>1. roundCount[w] \in RoundNos
  BY Newest
<1>2. roundCount'[w] \in {1, roundCount[w], roundCount[w] + 1}
  BY NextMoves DEF DecisionMove, Kept, Inserted, SentBack, Closed
<1>3. roundCount'[w] # 0
  BY <1>1, <1>2, Constants
<1> QED BY <1>3 DEF Inv, RoundChain

LEMMA CmRowsStay ==
    ASSUME Inv, Inv', [Next]_vars, NEW m, CmRow(m)
    PROVE  CmRow(m)'
BY RowsStay DEF CmRow

\* A request that is over or untouched stays well formed.

\* A request q is well formed after the step.
FormedNext(q) ==
    /\ q.step \in {"findCm", "createCm"} => q.decision = "ESCALATED"
    /\ q.step = "decide" =>
        IF q.decision = "ESCALATED"
        THEN q.cm \in WorkOrders /\ WoType[q.cm] = "CM" /\ status'[q.cm] # None
        ELSE q.cm = None

LEMMA FormedStep ==
    ASSUME Inv, Inv', ReviewsFormed, [Next]_vars,
           \A c \in Clients : \/ request'[c] \in {Idle, request[c]}
                              \/ FormedNext(request'[c])
    PROVE  ReviewsFormed'
<1>1. ASSUME NEW c \in Clients PROVE FormedNext(request'[c])
  <2>1. CASE request'[c] = Idle
    BY <2>1 DEF FormedNext, Idle
  <2>2. CASE request'[c] = request[c]
    <3>1. ReviewFormed(request[c])
      BY DEF ReviewsFormed
    <3>2. CmRow(request[c].cm) => status'[request[c].cm] # None
      BY RowsStay DEF CmRow
    <3> QED BY <2>2, <3>1, <3>2 DEF ReviewFormed, CmRow, FormedNext
  <2> QED BY <2>1, <2>2
<1> QED BY <1>1 DEF ReviewsFormed, ReviewFormed, CmRow, FormedNext

\* The steps that take no decision.
LEMMA EscQuiet ==
    ASSUME Inv, Inv', EscInv, [Next]_vars, UNCHANGED newWorkOrder,
           \A w \in WorkOrders :
                NewestDecision(w)' = "ESCALATED" <=> NewestDecision(w) = "ESCALATED",
           \A c \in Clients : \/ request'[c] \in {Idle, request[c]}
                              \/ FormedNext(request'[c])
    PROVE  EscInv'
<1>1. ReviewsFormed'
  BY FormedStep DEF EscInv
<1>2. ASSUME NEW w \in WorkOrders PROVE NamesCm(w)'
  <2>1. NamesCm(w) /\ newWorkOrder'[w] = newWorkOrder[w]
    BY DEF EscInv
  <2>2. CmRow(newWorkOrder[w]) => status'[newWorkOrder[w]] # None
    BY RowsStay DEF CmRow
  <2> QED BY <2>1, <2>2 DEF NamesCm, CmRow
<1> QED BY <1>1, <1>2 DEF EscInv

LEMMA EscFinish ==
    ASSUME Inv, Inv', EscInv, [Next]_vars, NEW c \in Clients, Finish(c),
           UNCHANGED <<roundCount, approval, newWorkOrder>>
    PROVE  EscInv'
<1>1. \A d \in Clients : request'[d] \in {Idle, request[d]}
  BY FinishTyped DEF Inv
<1> QED BY <1>1, EscQuiet DEF NewestDecision

LEMMA EscInsert ==
    ASSUME Inv, Inv', EscInv, [Next]_vars, NEW v \in WorkOrders,
           NEW e \in Engineers \union {None}, InsertWorkOrder(v, e),
           \A c \in Clients : \/ request'[c] \in {Idle, request[c]}
                              \/ FormedNext(request'[c])
    PROVE  EscInv'
<1>1. /\ roundCount[v] = 0 /\ roundCount'[v] = 1
      /\ \A w \in WorkOrders : w # v => roundCount'[w] = roundCount[w]
      /\ UNCHANGED <<approval, newWorkOrder>>
  BY DEF InsertWorkOrder, OpenRound, Inv, RoundChain, TypeOK
<1>2. approval[v][1] = None
  BY <1>1, Constants DEF Inv, RoundChain
<1>3. \A w \in WorkOrders :
        NewestDecision(w)' = "ESCALATED" <=> NewestDecision(w) = "ESCALATED"
  BY <1>1, <1>2 DEF NewestDecision, None
<1> QED BY <1>1, <1>3, EscQuiet

LEMMA EscRead ==
    ASSUME Inv, Inv', EscInv, [Next]_vars, NEW c \in Clients, NEW w \in WorkOrders,
           NEW step, NEW to, NEW decision, Read(c, w, step, to, decision),
           step \in {"findCm", "createCm"} => decision = "ESCALATED",
           step = "decide" => decision # "ESCALATED"
    PROVE  EscInv'
<1>1. /\ request'[c].step = step /\ request'[c].decision = decision
      /\ request'[c].cm = None
      /\ \A d \in Clients : d # c => request'[d] = request[d]
  BY DEF Read, Inv, TypeOK
<1>2. FormedNext(request'[c])
  BY <1>1 DEF FormedNext
<1> QED BY <1>1, <1>2, EscQuiet DEF Read, NewestDecision

LEMMA EscAccept ==
    ASSUME Inv, Inv', EscInv, [Next]_vars, NEW c \in Clients, NEW w \in WorkOrders,
           Accept(c, w)
    PROVE  EscInv'
<1>1. CASE \E e \in Engineers : ReadReassign(c, w, e)
  BY <1>1, EscRead DEF ReadReassign
<1>2. CASE ReadCheckIn(c, w) \/ ReadCheckOut(c, w) \/ ReadSaveReport(c, w)
  BY <1>2, EscRead DEF ReadCheckIn, ReadCheckOut, ReadSaveReport
<1>3. CASE ReadSubmitPm(c, w) \/ ReadSubmitCm(c, w)
  BY <1>3, EscRead DEF ReadSubmitPm, ReadSubmitCm
<1>4. CASE \E d \in Decisions, e \in Engineers : ReadDecide(c, w, d, e)
  BY <1>4, EscRead DEF ReadDecide
<1> QED BY <1>1, <1>2, <1>3, <1>4 DEF Accept

\* A step that lets its request go on without coming to the decision.
LEMMA EscGoOn ==
    ASSUME Inv, Inv', EscInv, [Next]_vars, NEW c \in Clients,
           NEW step, NEW rnd, NEW st, NEW cm, GoOn(c, step, rnd, st, cm),
           step \in {"readMark", "mark"},
           UNCHANGED <<roundCount, approval, newWorkOrder>>
    PROVE  EscInv'
<1>1. /\ request'[c].step = step
      /\ \A d \in Clients : d # c => request'[d] = request[d]
  BY DEF GoOn, Inv, TypeOK
<1>2. FormedNext(request'[c])
  BY <1>1 DEF FormedNext
<1> QED BY <1>1, <1>2, EscQuiet DEF NewestDecision

LEMMA EscFindCm ==
    ASSUME Inv, Inv', EscInv, [Next]_vars, NEW c \in Clients, FindCm(c)
    PROVE  EscInv'
<1> DEFINE r == request[c]
<1>1. r.decision = "ESCALATED"
  BY DEF FindCm, EscInv, ReviewsFormed, ReviewFormed
<1>2. UNCHANGED <<status, roundCount, approval, newWorkOrder>>
  BY DEF FindCm
<1>3. FormedNext(request'[c]) /\ \A d \in Clients : d # c => request'[d] = request[d]
  <2>1. CASE \E m \in WorkOrders : OpenCm(m) /\ GoOn(c, "decide", r.rnd, r.st, m)
    <3>1. PICK m \in WorkOrders : OpenCm(m) /\ GoOn(c, "decide", r.rnd, r.st, m)
      BY <2>1
    <3>2. WoType[m] = "CM" /\ status[m] # None
      BY <3>1, Constants DEF OpenCm, OpenStatuses, None
    <3>3. /\ request'[c].step = "decide" /\ request'[c].cm = m
          /\ request'[c].decision = r.decision
          /\ \A d \in Clients : d # c => request'[d] = request[d]
      BY <3>1 DEF GoOn, Inv, TypeOK
    <3> QED BY <1>1, <1>2, <3>2, <3>3 DEF FormedNext
  <2>2. CASE GoOn(c, "createCm", r.rnd, r.st, None)
    <3>1. /\ request'[c].step = "createCm" /\ request'[c].decision = r.decision
          /\ \A d \in Clients : d # c => request'[d] = request[d]
      BY <2>2 DEF GoOn, Inv, TypeOK
    <3> QED BY <1>1, <3>1 DEF FormedNext
  <2> QED BY <2>1, <2>2 DEF FindCm
<1> QED BY <1>2, <1>3, EscQuiet DEF NewestDecision

LEMMA EscCreateCm ==
    ASSUME Inv, Inv', EscInv, [Next]_vars, NEW c \in Clients, CreateCm(c)
    PROVE  EscInv'
<1> DEFINE r == request[c]
<1>1. r.decision = "ESCALATED" /\ r.to \in Engineers \union {None}
  BY Held DEF CreateCm, Steps, EscInv, ReviewsFormed, ReviewFormed
<1>2. PICK m \in WorkOrders : /\ WoType[m] = "CM" /\ InsertWorkOrder(m, r.to)
                              /\ GoOn(c, "decide", r.rnd, r.st, m)
  BY DEF CreateCm
<1>3. /\ request'[c].step = "decide" /\ request'[c].cm = m
      /\ request'[c].decision = r.decision
      /\ \A d \in Clients : d # c => request'[d] = request[d]
  BY <1>2 DEF GoOn, Inv, TypeOK
<1>4. status'[m] # None
  BY <1>2 DEF InsertWorkOrder, SetStatus, Inv, TypeOK, None
<1>5. FormedNext(request'[c])
  BY <1>1, <1>2, <1>3, <1>4 DEF FormedNext
<1> QED BY <1>1, <1>2, <1>3, <1>5, EscInsert

\* The round sent back had no decision, and the new one has none.
LEMMA EscRework ==
    ASSUME Inv, Inv', EscInv, [Next]_vars, NEW c \in Clients, ApplyRework(c)
    PROVE  EscInv'
<1> DEFINE r == request[c]
<1>1. r.wo \in WorkOrders /\ r.rnd = roundCount[r.wo] /\ roundCount[r.wo] \in RoundNos
      /\ approval[r.wo][r.rnd] = None /\ roundCount[r.wo] + 1 \in RoundNos
  BY Held, UndecidedIsNewest DEF ApplyRework, Steps, Undecided
<1>2. /\ roundCount'[r.wo] = roundCount[r.wo] + 1
      /\ approval'[r.wo] = [approval[r.wo] EXCEPT ![r.rnd] = "REJECTED"]
      /\ \A w \in WorkOrders : w # r.wo =>
            roundCount'[w] = roundCount[w] /\ approval'[w] = approval[w]
      /\ UNCHANGED newWorkOrder
  <2>1. /\ roundCount' = [roundCount EXCEPT ![r.wo] = roundCount[r.wo] + 1]
        /\ approval' = [approval EXCEPT ![r.wo][r.rnd] = "REJECTED"]
        /\ UNCHANGED newWorkOrder
    BY DEF ApplyRework, OpenRound
  <2> QED BY <1>1, <2>1 DEF Inv, TypeOK
<1>3. approval[r.wo][roundCount[r.wo] + 1] = None
  BY <1>1, Constants DEF Inv, RoundChain
<1>4. NewestDecision(r.wo) = None
  BY <1>1, Constants DEF NewestDecision
<1>5. approval'[r.wo][roundCount'[r.wo]] = None /\ roundCount'[r.wo] # 0
  BY <1>1, <1>2, <1>3, Constants DEF Inv, TypeOK
<1>6. \A w \in WorkOrders :
        NewestDecision(w)' = "ESCALATED" <=> NewestDecision(w) = "ESCALATED"
  BY <1>2, <1>4, <1>5 DEF NewestDecision, None
<1>7. \A d \in Clients : request'[d] \in {Idle, request[d]}
  BY FinishTyped DEF ApplyRework, Inv
<1> QED BY <1>2, <1>6, <1>7, EscQuiet

LEMMA EscClosing ==
    ASSUME Inv, Inv', EscInv, [Next]_vars, NEW c \in Clients, ApplyClosing(c)
    PROVE  EscInv'
<1> DEFINE r == request[c]
<1>1. /\ r.wo \in WorkOrders /\ r.rnd = roundCount[r.wo]
      /\ roundCount[r.wo] \in RoundNos /\ r \in Request
      /\ r.step = "decide" /\ r.decision \in ClosingDecisions
  BY Held, UndecidedIsNewest DEF ApplyClosing, Steps
<1>2. ReviewFormed(r)
  BY DEF EscInv, ReviewsFormed
<1>3. /\ approval' = [approval EXCEPT ![r.wo][r.rnd] = r.decision]
      /\ newWorkOrder' = [newWorkOrder EXCEPT ![r.wo] = r.cm]
      /\ UNCHANGED roundCount
  BY DEF ApplyClosing
<1>4. /\ newWorkOrder'[r.wo] = r.cm /\ approval'[r.wo][roundCount'[r.wo]] = r.decision
      /\ roundCount'[r.wo] # 0
      /\ \A w \in WorkOrders : w # r.wo =>
            newWorkOrder'[w] = newWorkOrder[w] /\ approval'[w] = approval[w]
  BY <1>1, <1>3, Constants DEF Inv, TypeOK
<1>5. \A d \in Clients : \/ request'[d] \in {Idle, request[d]}
                         \/ request'[d].step = "pmDates"
  BY DEF ApplyClosing, Finish, GoOn, Inv, TypeOK
<1>6. ReviewsFormed'
  BY <1>5, FormedStep DEF EscInv, FormedNext
<1>7. ASSUME NEW w \in WorkOrders, w = r.wo PROVE NamesCm(w)'
  <2>1. CASE r.decision = "ESCALATED"
    <3>1. CmRow(r.cm) /\ status'[r.cm] # None /\ r.cm # None
      BY <1>1, <1>2, <2>1, RowsStay, Constants DEF ReviewFormed, CmRow
    <3> QED BY <1>3, <1>4, <1>7, <2>1, <3>1 DEF NamesCm, NewestDecision, CmRow
  <2>2. CASE r.decision # "ESCALATED"
    <3>1. r.cm = None
      BY <1>1, <1>2, <2>2 DEF ReviewFormed
    <3> QED BY <1>3, <1>4, <1>7, <2>2, <3>1 DEF NamesCm, NewestDecision
  <2> QED BY <2>1, <2>2
<1>8. ASSUME NEW w \in WorkOrders, w # r.wo PROVE NamesCm(w)'
  <2>1. NamesCm(w) /\ newWorkOrder'[w] = newWorkOrder[w] /\ approval'[w] = approval[w]
    BY <1>4, <1>8 DEF EscInv
  <2>2. CmRow(newWorkOrder[w]) => status'[newWorkOrder[w]] # None
    BY RowsStay DEF CmRow
  <2> QED BY <1>3, <2>1, <2>2 DEF NamesCm, CmRow, NewestDecision
<1> QED BY <1>6, <1>7, <1>8 DEF EscInv

LEMMA EscNext == Inv /\ EscInv /\ [Next]_vars => (Inv /\ EscInv)'
<1> SUFFICES ASSUME Inv, EscInv, [Next]_vars, Inv' PROVE EscInv'
  BY NextInv
<1>1. ASSUME NEW w \in WorkOrders, NEW e \in Engineers, Create(w, e) PROVE EscInv'
  <2>1. \A c \in Clients : request'[c] = request[c]
    BY <1>1 DEF Create
  <2> QED BY <1>1, <2>1, EscInsert DEF Create
<1>2. ASSUME NEW w \in WorkOrders, SoftDelete(w) \/ Restore(w) PROVE EscInv'
  BY <1>2, EscQuiet DEF SoftDelete, Restore, NewestDecision
<1>3. ASSUME NEW w \in WorkOrders, NEW n \in RoundNos, DeleteReport(w, n) PROVE EscInv'
  BY <1>3, EscQuiet DEF DeleteReport, NewestDecision
<1>4. CASE \E c \in Clients, w \in WorkOrders : Accept(c, w)
  BY <1>4, EscAccept
<1>5. ASSUME NEW c \in Clients, Serve(c) PROVE EscInv'
  <2>1. CASE Reassign(c) \/ CheckIn(c) \/ CheckOut(c) \/ MarkSubmitted(c)
             \/ SyncPmDates(c) \/ Refuse(c)
    BY <2>1, EscFinish DEF Reassign, CheckIn, CheckOut, MarkSubmitted,
                           SyncPmDates, Refuse
  <2>2. CASE SaveReport(c)
    BY <2>2, EscFinish DEF SaveReport
  <2>3. CASE SubmitReport(c)
    BY <2>3, EscGoOn DEF SubmitReport
  <2>4. CASE ReadMark(c)
    BY <2>4, EscGoOn DEF ReadMark
  <2> QED BY <1>5, <2>1, <2>2, <2>3, <2>4, EscFindCm, EscCreateCm, EscRework,
             EscClosing DEF Serve
<1>6. ASSUME NEW c \in Clients, Disconnect(c) PROVE EscInv'
  BY <1>6, EscFinish DEF Disconnect
<1>7. CASE UNCHANGED vars
  BY <1>7, EscQuiet DEF vars, NewestDecision
<1> QED BY <1>1, <1>2, <1>3, <1>4, <1>5, <1>6, <1>7 DEF Next

\* The decision on the newest round is ESCALATED exactly when the work order
\* names a CM, and that CM exists, whoever created it and whatever happened
\* between finding it and deciding.
THEOREM EscalationsNameCms == Spec => []EscalationNamesCm
<1>1. EscInv => EscalationNamesCm
  BY DEF EscInv, NamesCm, NewestDecision, CmRow, EscalationNamesCm
<1> QED BY <1>1, InitInv, EscInvInit, EscNext, PTL DEF Spec

-----------------------------------------------------------------------------
(***************************************************************************)
(* Proofs about the PMs that were never cancelled: where their rounds      *)
(* stand, what a step can do to them and that they follow ReviewFlow.      *)
(*                                                                         *)
(* No transaction looks at the status, so the argument is about the guards *)
(* on the rounds.  A round that was sent back is stamped and checked in,   *)
(* so a request that finds its round not checked in, or its report not     *)
(* submitted, is about the newest round, and there the stamps tell which   *)
(* status the work order has.  Each step is then one of seven moves.       *)
(***************************************************************************)
NeverCancelled == {w \in Pms : ~cancelledOnce[w]}

\* What PmStatusAgrees says of one work order.
Agrees(w) ==
    LET n == roundCount[w] IN
    \/ status[w] = "ASSIGNED" /\ ~checkedIn[w][n] /\ report[w][n] = None
    \/ /\ status[w] = "IN_PROGRESS"
       /\ checkedIn[w][n] /\ ~submitted[w][n] /\ approval[w][n] = None
    \/ status[w] = "PENDING_APPROVAL" /\ checkedIn[w][n] /\ submitted[w][n]
    \/ status[w] \in ClosedStatuses /\ submitted[w][n]

\* A round that was not opened has no report; a stamped round is checked in.
RoundsInOrder(w) ==
    \A n \in RoundNos :
        /\ n > roundCount[w] => report[w][n] = None
        /\ submitted[w][n] => checkedIn[w][n]

\* The status a request r on w has kept says this of the round it has kept.
SnapshotFits(r, w) ==
    r.wo = w /\ r # Idle =>
        /\ r.st = "ASSIGNED" \/ checkedIn[w][r.rnd]
        /\ r.st # "PENDING"
        /\ r.step = "mark" => r.st = "IN_PROGRESS"
        /\ r.step \in {"findCm", "createCm", "decide"} => r.st = "PENDING_APPROVAL"

PmFlow ==
    \A w \in NeverCancelled :
        /\ status[w] # None => Agrees(w)
        /\ RoundsInOrder(w)
        /\ \A c \in Clients : SnapshotFits(request[c], w)

\* The whole inductive invariant.
FlowInv == Inv /\ PmInv /\ ClosedMatchesDecision /\ PmFlow

-----------------------------------------------------------------------------
LEMMA NeverCancelledPms ==
    ASSUME NEW w \in NeverCancelled
    PROVE  w \in Pms /\ w \in WorkOrders /\ ~cancelledOnce[w] /\ WoType[w] = "PM"
BY DEF NeverCancelled, Pms

LEMMA PmFlowInit == Init => PmFlow
<1> SUFFICES ASSUME Init, NEW w \in NeverCancelled
             PROVE  /\ status[w] # None => Agrees(w)
                    /\ RoundsInOrder(w)
                    /\ \A c \in Clients : SnapshotFits(request[c], w)
  BY DEF PmFlow
<1>1. w \in WorkOrders
  BY NeverCancelledPms
<1>2. status[w] = None /\ \A n \in RoundNos : report[w][n] = None /\ ~submitted[w][n]
  BY <1>1 DEF Init
<1>3. \A c \in Clients : request[c] = Idle
  BY DEF Init
<1> QED BY <1>2, <1>3 DEF RoundsInOrder, SnapshotFits

\* What the invariant says of a PM, in the form the steps use it.
LEMMA RoundFacts ==
    ASSUME FlowInv, NEW w \in NeverCancelled, NEW n \in RoundNos
    PROVE  /\ n < roundCount[w] => submitted[w][n]
           /\ submitted[w][n] => checkedIn[w][n] /\ report[w][n] = "SUBMITTED"
           /\ approval[w][n] # None => submitted[w][n]
           /\ n > roundCount[w] => report[w][n] = None
<1>1. w \in Pms /\ w \in WorkOrders
  BY NeverCancelledPms
<1>2. /\ submitted[w][n] => report[w][n] = "SUBMITTED"
      /\ approval[w][n] # None => submitted[w][n]
  BY <1>1 DEF FlowInv, PmInv, StampedInOrder
<1>3. n < roundCount[w] => approval[w][n] # None
  BY <1>1 DEF FlowInv, Inv, RoundChain, None
<1>4. /\ n > roundCount[w] => report[w][n] = None
      /\ submitted[w][n] => checkedIn[w][n]
  BY DEF FlowInv, PmFlow, RoundsInOrder
<1> QED BY <1>2, <1>3, <1>4

\* The round of a request that finds it not stamped is the newest.
LEMMA OpenIsNewest ==
    ASSUME FlowInv, NEW w \in NeverCancelled, NEW n \in RoundNos,
           n <= roundCount[w], ~submitted[w][n]
    PROVE  n = roundCount[w]
<1>1. roundCount[w] \in Nat /\ n \in Nat
  BY NeverCancelledPms, Constants DEF FlowInv, Inv, TypeOK
<1> QED BY <1>1, RoundFacts

\* The stamps of the newest round tell the status.
LEMMA StatusFacts ==
    ASSUME FlowInv, NEW w \in NeverCancelled, status[w] # None
    PROVE  LET n == roundCount[w] IN
           /\ n \in RoundNos /\ current[w] = n
           /\ ~checkedIn[w][n] => status[w] = "ASSIGNED"
           /\ checkedIn[w][n] /\ ~submitted[w][n] => status[w] = "IN_PROGRESS"
           /\ report[w][n] # None /\ ~submitted[w][n] => status[w] = "IN_PROGRESS"
           /\ submitted[w][n] /\ approval[w][n] = None
                => status[w] = "PENDING_APPROVAL"
           /\ status[w] # "ASSIGNED" => checkedIn[w][n]
           /\ status[w] # "PENDING"
<1> DEFINE n == roundCount[w]
<1>1. w \in WorkOrders /\ n \in RoundNos /\ current[w] = n
  BY Newest, NeverCancelledPms DEF FlowInv
<1>2. Agrees(w)
  BY DEF FlowInv, PmFlow
<1>3. /\ submitted[w][n] => checkedIn[w][n]
  BY <1>1, RoundFacts
<1>4. status[w] \in ClosedStatuses => approval[w][n] # None
  BY <1>1, Constants DEF FlowInv, ClosedMatchesDecision, ClosedStatuses, None
<1> QED BY <1>1, <1>2, <1>3, <1>4 DEF Agrees, ClosedStatuses

-----------------------------------------------------------------------------
\* The step does nothing to w that its life can be told by.
Same(w) ==
    /\ status'[w] = status[w] /\ roundCount'[w] = roundCount[w]
    /\ report'[w] = report[w] /\ assignedTo'[w] = assignedTo[w]
    /\ checkedIn'[w] = checkedIn[w] /\ submitted'[w] = submitted[w]
    /\ lastLog'[w] = lastLog[w] /\ cancelledOnce'[w] = cancelledOnce[w]

\* The rounds of w other than n keep their rows.
RowsBut(w, n) ==
    \A m \in RoundNos : m # n =>
        /\ report'[w][m] = report[w][m] /\ assignedTo'[w][m] = assignedTo[w][m]
        /\ checkedIn'[w][m] = checkedIn[w][m] /\ submitted'[w][m] = submitted[w][m]

\* The status goes from one value to another and the log says so.
Goes(w, from, to) ==
    /\ status[w] = from /\ status'[w] = to /\ lastLog'[w].from = from
    /\ cancelledOnce'[w] = cancelledOnce[w]

Rests(w) ==
    /\ status'[w] = status[w] /\ lastLog'[w] = lastLog[w]
    /\ cancelledOnce'[w] = cancelledOnce[w] /\ roundCount'[w] = roundCount[w]
    /\ RowsBut(w, roundCount[w])
    /\ checkedIn'[w] = checkedIn[w] /\ submitted'[w] = submitted[w]
    /\ report'[w] = report[w] \/ status[w] = "IN_PROGRESS"

Opens(w) ==
    /\ Goes(w, None, "ASSIGNED")
    /\ roundCount[w] = 0 /\ roundCount'[w] = 1 /\ RowsBut(w, 1)
    /\ report'[w][1] = None /\ ~checkedIn'[w][1] /\ ~submitted'[w][1]

Starts(w) ==
    /\ Goes(w, "ASSIGNED", "IN_PROGRESS")
    /\ roundCount'[w] = roundCount[w] /\ RowsBut(w, roundCount[w])
    /\ checkedIn'[w][roundCount[w]] /\ submitted'[w] = submitted[w]

Stamps(w) ==
    /\ Goes(w, "IN_PROGRESS", "PENDING_APPROVAL")
    /\ roundCount'[w] = roundCount[w] /\ RowsBut(w, roundCount[w])
    /\ checkedIn'[w] = checkedIn[w] /\ submitted'[w][roundCount[w]]

IsSentBack(w) ==
    LET n == roundCount[w] + 1 IN
    /\ Goes(w, "PENDING_APPROVAL", "ASSIGNED")
    /\ n \in RoundNos /\ roundCount'[w] = n /\ RowsBut(w, n)
    /\ report'[w][n] = None /\ ~checkedIn'[w][n] /\ ~submitted'[w][n]

IsClosed(w) ==
    /\ \E f \in ClosedStatuses : Goes(w, "PENDING_APPROVAL", f)
    /\ roundCount'[w] = roundCount[w] /\ report'[w] = report[w]
    /\ assignedTo'[w] = assignedTo[w]
    /\ checkedIn'[w] = checkedIn[w] /\ submitted'[w] = submitted[w]

IsCancelled(w) ==
    /\ status[w] # None /\ cancelledOnce'[w]
    /\ report'[w] = report[w] /\ assignedTo'[w] = assignedTo[w]
    /\ checkedIn'[w] = checkedIn[w] /\ submitted'[w] = submitted[w]
    /\ lastLog'[w] = lastLog[w]

PmMove(w) == \/ Rests(w) \/ Opens(w) \/ Starts(w) \/ Stamps(w)
             \/ IsSentBack(w) \/ IsClosed(w) \/ IsCancelled(w)

\* Only v can be touched.
Touches(v) == \A w \in WorkOrders : w # v => Same(w)

LEMMA SameRests ==
    ASSUME NEW w, Same(w)
    PROVE  PmMove(w)
BY DEF Same, PmMove, Rests, RowsBut

-----------------------------------------------------------------------------
\* What writing one column of one round does.
LEMMA PutRound ==
    ASSUME NEW S, NEW f \in [WorkOrders -> [RoundNos -> S]],
           NEW v \in WorkOrders, NEW n \in RoundNos, NEW x,
           NEW g, g = [f EXCEPT ![v][n] = x]
    PROVE  /\ g[v][n] = x
           /\ \A m \in RoundNos : m # n => g[v][m] = f[v][m]
           /\ \A w \in WorkOrders : w # v => g[w] = f[w]
<1>1. g[v] = [f[v] EXCEPT ![n] = x] /\ \A w \in WorkOrders : w # v => g[w] = f[w]
  OBVIOUS
<1>2. f[v] \in [RoundNos -> S]
  OBVIOUS
<1> QED BY <1>1, <1>2

\* What writing the status and its activity row does.
LEMMA PutStatus ==
    ASSUME TypeOK, NEW v \in WorkOrders, NEW from, NEW to, SetStatus(v, from, to)
    PROVE  /\ status'[v] = to /\ lastLog'[v].from = from
           /\ \A w \in WorkOrders : w # v =>
                status'[w] = status[w] /\ lastLog'[w] = lastLog[w]
BY DEF SetStatus, TypeOK

\* What opening round n does.
LEMMA PutNewRound ==
    ASSUME TypeOK, NEW v \in WorkOrders, NEW n \in RoundNos, NEW e,
           OpenRound(v, n, e)
    PROVE  /\ roundCount'[v] = n
           /\ ~checkedIn'[v][n] /\ ~submitted'[v][n]
           /\ \A m \in RoundNos : m # n =>
                /\ assignedTo'[v][m] = assignedTo[v][m]
                /\ checkedIn'[v][m] = checkedIn[v][m]
                /\ submitted'[v][m] = submitted[v][m]
           /\ \A w \in WorkOrders : w # v =>
                /\ roundCount'[w] = roundCount[w] /\ assignedTo'[w] = assignedTo[w]
                /\ checkedIn'[w] = checkedIn[w] /\ submitted'[w] = submitted[w]
<1>1. /\ assignedTo \in [WorkOrders -> [RoundNos -> Engineers \union {None}]]
      /\ checkedIn \in [WorkOrders -> [RoundNos -> BOOLEAN]]
      /\ submitted \in [WorkOrders -> [RoundNos -> BOOLEAN]]
      /\ roundCount \in [WorkOrders -> 0 .. MaxRounds]
  BY DEF TypeOK
<1>2. /\ assignedTo' = [assignedTo EXCEPT ![v][n] = e]
      /\ checkedIn' = [checkedIn EXCEPT ![v][n] = FALSE]
      /\ submitted' = [submitted EXCEPT ![v][n] = FALSE]
      /\ roundCount' = [roundCount EXCEPT ![v] = n]
  BY DEF OpenRound
<1>3. /\ \A m \in RoundNos : m # n => assignedTo'[v][m] = assignedTo[v][m]
      /\ \A w \in WorkOrders : w # v => assignedTo'[w] = assignedTo[w]
  BY <1>1, <1>2, PutRound
<1>4. /\ checkedIn'[v][n] = FALSE
      /\ \A m \in RoundNos : m # n => checkedIn'[v][m] = checkedIn[v][m]
      /\ \A w \in WorkOrders : w # v => checkedIn'[w] = checkedIn[w]
  BY <1>1, <1>2, PutRound
<1>5. /\ submitted'[v][n] = FALSE
      /\ \A m \in RoundNos : m # n => submitted'[v][m] = submitted[v][m]
      /\ \A w \in WorkOrders : w # v => submitted'[w] = submitted[w]
  BY <1>1, <1>2, PutRound
<1>6. roundCount'[v] = n /\ \A w \in WorkOrders : w # v => roundCount'[w] = roundCount[w]
  BY <1>1, <1>2
<1> QED BY <1>3, <1>4, <1>5, <1>6

-----------------------------------------------------------------------------
(***************************************************************************)
(* One lemma per action that writes rows: the work order it touches, and   *)
(* the move it makes when that is a PM that was never cancelled.           *)
(***************************************************************************)
LEMMA InsertTouches ==
    ASSUME FlowInv, NEW v \in WorkOrders, NEW e, InsertWorkOrder(v, e)
    PROVE  Touches(v) /\ (v \in NeverCancelled => PmMove(v))
<1>1. /\ status[v] = None /\ SetStatus(v, None, "ASSIGNED") /\ OpenRound(v, 1, e)
      /\ report' = [report EXCEPT ![v][1] = IF WoType[v] = "CM" THEN "SAVED" ELSE None]
      /\ UNCHANGED cancelledOnce
  BY DEF InsertWorkOrder
<1>2. TypeOK /\ 1 \in RoundNos /\ roundCount[v] = 0
      /\ report \in [WorkOrders -> [RoundNos -> {None, "DRAFT", "SUBMITTED", "SAVED"}]]
  BY <1>1, Constants DEF FlowInv, Inv, TypeOK, RoundChain
<1>3. /\ report'[v][1] = IF WoType[v] = "CM" THEN "SAVED" ELSE None
      /\ \A m \in RoundNos : m # 1 => report'[v][m] = report[v][m]
      /\ \A w \in WorkOrders : w # v => report'[w] = report[w]
  BY <1>1, <1>2, PutRound
<1>4. Touches(v)
  BY <1>1, <1>2, <1>3, PutStatus, PutNewRound DEF Touches, Same
<1>5. ASSUME v \in NeverCancelled PROVE Opens(v)
  <2>1. WoType[v] # "CM"
    BY <1>5, NeverCancelledPms
  <2> QED BY <1>1, <1>2, <1>3, <2>1, PutStatus, PutNewRound DEF Opens, Goes, RowsBut
<1> QED BY <1>4, <1>5 DEF PmMove

LEMMA ReassignTouches ==
    ASSUME FlowInv, NEW c \in Clients, Reassign(c), NEW v, v = request[c].wo
    PROVE  v \in WorkOrders /\ Touches(v) /\ (v \in NeverCancelled => PmMove(v))
<1> DEFINE n == request[c].rnd
<1>1. /\ v \in WorkOrders /\ n \in RoundNos /\ n <= roundCount[v] /\ ~checkedIn[v][n]
  BY Held DEF FlowInv, Reassign, Reassignable, Steps
<1>2. /\ assignedTo' = [assignedTo EXCEPT ![v][n] = request[c].to]
      /\ UNCHANGED <<status, roundCount, checkedIn, submitted, report, lastLog,
                     cancelledOnce>>
      /\ assignedTo \in [WorkOrders -> [RoundNos -> Engineers \union {None}]]
  BY DEF Reassign, FlowInv, Inv, TypeOK
<1>3. /\ \A m \in RoundNos : m # n => assignedTo'[v][m] = assignedTo[v][m]
      /\ \A w \in WorkOrders : w # v => assignedTo'[w] = assignedTo[w]
  BY <1>1, <1>2, PutRound
<1>4. v \in NeverCancelled => n = roundCount[v]
  BY <1>1, RoundFacts, OpenIsNewest
<1> QED BY <1>1, <1>2, <1>3, <1>4 DEF Touches, Same, PmMove, Rests, RowsBut

LEMMA CheckInTouches ==
    ASSUME FlowInv, NEW c \in Clients, CheckIn(c), NEW v, v = request[c].wo
    PROVE  v \in WorkOrders /\ Touches(v) /\ (v \in NeverCancelled => PmMove(v))
<1> DEFINE n == request[c].rnd
<1>1. /\ v \in WorkOrders /\ n \in RoundNos /\ n <= roundCount[v]
      /\ status[v] # None /\ ~checkedIn[v][n] /\ request[c] # Idle
  BY Held DEF FlowInv, CheckIn, NotCheckedIn, Steps
<1>2. /\ checkedIn' = [checkedIn EXCEPT ![v][n] = TRUE]
      /\ SetStatus(v, request[c].st, "IN_PROGRESS")
      /\ UNCHANGED <<roundCount, assignedTo, submitted, report, cancelledOnce>>
      /\ checkedIn \in [WorkOrders -> [RoundNos -> BOOLEAN]] /\ TypeOK
  BY DEF CheckIn, FlowInv, Inv, TypeOK
<1>3. /\ checkedIn'[v][n] = TRUE
      /\ \A m \in RoundNos : m # n => checkedIn'[v][m] = checkedIn[v][m]
      /\ \A w \in WorkOrders : w # v => checkedIn'[w] = checkedIn[w]
  BY <1>1, <1>2, PutRound
<1>4. Touches(v)
  BY <1>1, <1>2, <1>3, PutStatus DEF Touches, Same
<1>5. ASSUME v \in NeverCancelled PROVE Starts(v)
  <2>1. n = roundCount[v]
    BY <1>1, <1>5, RoundFacts, OpenIsNewest
  <2>2. status[v] = "ASSIGNED"
    BY <1>1, <1>5, <2>1, StatusFacts
  <2>3. request[c].st = "ASSIGNED"
    BY <1>1, <1>5 DEF FlowInv, PmFlow, SnapshotFits
  <2> QED BY <1>1, <1>2, <1>3, <2>1, <2>2, <2>3, PutStatus DEF Starts, Goes, RowsBut
<1> QED BY <1>1, <1>4, <1>5 DEF PmMove

\* A save only reaches the newest round, and it starts the work when the work
\* was not started.
LEMMA SaveReportTouches ==
    ASSUME FlowInv, NEW c \in Clients, SaveReport(c), NEW v, v = request[c].wo
    PROVE  v \in WorkOrders /\ Touches(v) /\ (v \in NeverCancelled => PmMove(v))
<1> DEFINE r == request[c]
           n == r.rnd
<1>1. /\ v \in WorkOrders /\ n \in RoundNos /\ n <= roundCount[v]
      /\ status[v] # None /\ r # Idle /\ r.st \in Statuses
  BY Held DEF FlowInv, SaveReport, Steps
<1>2. /\ report' = [report EXCEPT ![v][n] = IF WoType[v] = "PM" THEN "DRAFT" ELSE "SAVED"]
      /\ UNCHANGED <<roundCount, assignedTo, submitted, cancelledOnce>>
      /\ report \in [WorkOrders -> [RoundNos -> {None, "DRAFT", "SUBMITTED", "SAVED"}]]
      /\ checkedIn \in [WorkOrders -> [RoundNos -> BOOLEAN]] /\ TypeOK
  BY DEF SaveReport, FlowInv, Inv, TypeOK
<1>3. /\ \A m \in RoundNos : m # n => report'[v][m] = report[v][m]
      /\ \A w \in WorkOrders : w # v => report'[w] = report[w]
  BY <1>1, <1>2, PutRound
<1>4. \/ /\ BeginsWork(r) /\ ~checkedIn[v][n]
         /\ checkedIn' = [checkedIn EXCEPT ![v][n] = TRUE]
         /\ SetStatus(v, r.st, "IN_PROGRESS")
      \/ ~BeginsWork(r) /\ UNCHANGED <<checkedIn, status, lastLog>>
  BY DEF SaveReport, CanSave, NotCheckedIn
<1>5. ASSUME v \in NeverCancelled PROVE n = roundCount[v] /\ ~submitted[v][n]
  <2>1. report[v][n] # "SUBMITTED"
    BY <1>5, NeverCancelledPms DEF SaveReport, CanSave
  <2>2. ~submitted[v][n]
    BY <1>1, <1>5, <2>1, RoundFacts
  <2> QED BY <1>1, <1>5, <2>2, OpenIsNewest
<1>6. CASE BeginsWork(r)
  <2>1. /\ checkedIn' = [checkedIn EXCEPT ![v][n] = TRUE]
        /\ SetStatus(v, r.st, "IN_PROGRESS") /\ ~checkedIn[v][n]
    BY <1>4, <1>6
  <2>2. /\ checkedIn'[v][n] = TRUE
        /\ \A m \in RoundNos : m # n => checkedIn'[v][m] = checkedIn[v][m]
        /\ \A w \in WorkOrders : w # v => checkedIn'[w] = checkedIn[w]
    BY <1>1, <1>2, <2>1, PutRound
  <2>3. Touches(v)
    BY <1>1, <1>2, <1>3, <2>1, <2>2, PutStatus DEF Touches, Same
  <2>4. ASSUME v \in NeverCancelled PROVE Starts(v)
    <3>1. n = roundCount[v]
      BY <2>4, <1>5
    <3>2. status[v] = "ASSIGNED"
      BY <1>1, <2>1, <2>4, <3>1, StatusFacts
    <3>3. r.st = "ASSIGNED"
      BY <1>1, <2>1, <2>4 DEF FlowInv, PmFlow, SnapshotFits
    <3> QED BY <1>1, <1>2, <1>3, <2>1, <2>2, <3>1, <3>2, <3>3, PutStatus
            DEF Starts, Goes, RowsBut
  <2> QED BY <1>1, <2>3, <2>4 DEF PmMove
<1>7. CASE ~BeginsWork(r)
  <2>1. UNCHANGED <<checkedIn, status, lastLog>>
    BY <1>4, <1>7
  <2>2. Touches(v)
    BY <1>1, <1>2, <1>3, <2>1 DEF Touches, Same
  <2>3. ASSUME v \in NeverCancelled PROVE Rests(v)
    <3>1. n = roundCount[v] /\ ~submitted[v][n]
      BY <2>3, <1>5
    <3>2. checkedIn[v][n]
      BY <1>1, <1>7, <2>3 DEF FlowInv, PmFlow, SnapshotFits, BeginsWork
    <3>3. status[v] = "IN_PROGRESS"
      BY <1>1, <2>3, <3>1, <3>2, StatusFacts
    <3> QED BY <1>1, <1>2, <1>3, <2>1, <3>1, <3>3 DEF Rests, RowsBut
  <2> QED BY <1>1, <2>2, <2>3 DEF PmMove
<1> QED BY <1>6, <1>7

LEMMA SubmitReportTouches ==
    ASSUME FlowInv, NEW c \in Clients, SubmitReport(c), NEW v, v = request[c].wo
    PROVE  v \in WorkOrders /\ Touches(v) /\ (v \in NeverCancelled => PmMove(v))
<1> DEFINE n == request[c].rnd
<1>1. /\ v \in WorkOrders /\ n \in RoundNos /\ n <= roundCount[v]
      /\ status[v] # None /\ report[v][n] = "DRAFT"
  BY Held DEF FlowInv, SubmitReport, IsDraft, Steps
<1>2. /\ report' = [report EXCEPT ![v][n] = "SUBMITTED"]
      /\ UNCHANGED <<status, roundCount, assignedTo, checkedIn, submitted, lastLog,
                     cancelledOnce>>
      /\ report \in [WorkOrders -> [RoundNos -> {None, "DRAFT", "SUBMITTED", "SAVED"}]]
  BY DEF SubmitReport, FlowInv, Inv, TypeOK
<1>3. /\ \A m \in RoundNos : m # n => report'[v][m] = report[v][m]
      /\ \A w \in WorkOrders : w # v => report'[w] = report[w]
  BY <1>1, <1>2, PutRound
<1>4. Touches(v)
  BY <1>2, <1>3 DEF Touches, Same
<1>5. ASSUME v \in NeverCancelled PROVE Rests(v)
  <2>1. n = roundCount[v] /\ ~submitted[v][n]
    BY <1>1, <1>5, RoundFacts, OpenIsNewest
  <2>2. status[v] = "IN_PROGRESS"
    BY <1>1, <1>5, <2>1, StatusFacts DEF None
  <2> QED BY <1>2, <1>3, <2>1, <2>2 DEF Rests, RowsBut
<1> QED BY <1>1, <1>4, <1>5 DEF PmMove

\* Only one request is between the two commits of a submit, so the round it
\* stamps is the newest and in progress.
LEMMA MarkSubmittedTouches ==
    ASSUME FlowInv, NEW c \in Clients, MarkSubmitted(c), NEW v, v = request[c].wo
    PROVE  v \in WorkOrders /\ Touches(v) /\ (v \in NeverCancelled => PmMove(v))
<1> DEFINE n == request[c].rnd
<1>1. /\ v \in WorkOrders /\ n \in RoundNos /\ n <= roundCount[v]
      /\ status[v] # None /\ request[c].step = "mark" /\ request[c] # Idle
  BY Held DEF FlowInv, MarkSubmitted, Steps
<1>2. /\ submitted' = [submitted EXCEPT ![v][n] = TRUE]
      /\ SetStatus(v, request[c].st, "PENDING_APPROVAL")
      /\ UNCHANGED <<roundCount, assignedTo, checkedIn, report, cancelledOnce>>
      /\ submitted \in [WorkOrders -> [RoundNos -> BOOLEAN]] /\ TypeOK
  BY DEF MarkSubmitted, FlowInv, Inv, TypeOK
<1>3. /\ submitted'[v][n] = TRUE
      /\ \A m \in RoundNos : m # n => submitted'[v][m] = submitted[v][m]
      /\ \A w \in WorkOrders : w # v => submitted'[w] = submitted[w]
  BY <1>1, <1>2, PutRound
<1>4. Touches(v)
  BY <1>1, <1>2, <1>3, PutStatus DEF Touches, Same
<1>5. ASSUME v \in NeverCancelled PROVE Stamps(v)
  <2>1. Submits(c, v) /\ v \in Pms
    BY <1>1, <1>5, NeverCancelledPms DEF Submits
  <2>2. n = roundCount[v] /\ report[v][n] = "SUBMITTED" /\ ~submitted[v][n]
    BY <2>1 DEF FlowInv, PmInv, OneSubmitter
  <2>3. status[v] = "IN_PROGRESS"
    BY <1>1, <1>5, <2>2, StatusFacts DEF None
  <2>4. request[c].st = "IN_PROGRESS"
    BY <1>1, <1>5 DEF FlowInv, PmFlow, SnapshotFits
  <2> QED BY <1>1, <1>2, <1>3, <2>2, <2>3, <2>4, PutStatus DEF Stamps, Goes, RowsBut
<1> QED BY <1>1, <1>4, <1>5 DEF PmMove

\* A decision about an undecided round is about a PM that still waits.
LEMMA DecidesPending ==
    ASSUME FlowInv, NEW c \in Clients, request[c].step = "decide",
           Undecided(request[c]), NEW v, v = request[c].wo
    PROVE  /\ v \in WorkOrders /\ roundCount[v] \in RoundNos
           /\ request[c].rnd = roundCount[v]
           /\ v \in NeverCancelled =>
                status[v] = "PENDING_APPROVAL" /\ request[c].st = "PENDING_APPROVAL"
<1> DEFINE n == roundCount[v]
<1>1. /\ v \in WorkOrders /\ n \in RoundNos /\ request[c].rnd = n
      /\ approval[v][n] = None /\ status[v] # None /\ request[c] # Idle
  BY Held, UndecidedIsNewest DEF FlowInv, Steps, Undecided
<1>2. ASSUME v \in NeverCancelled
      PROVE  status[v] = "PENDING_APPROVAL" /\ request[c].st = "PENDING_APPROVAL"
  <2>1. submitted[v][n]
    BY <1>1, <1>2, NeverCancelledPms DEF FlowInv, PmInv, ReviewersSawStamp, Reviews
  <2>2. status[v] = "PENDING_APPROVAL"
    BY <1>1, <1>2, <2>1, StatusFacts
  <2>3. request[c].st = "PENDING_APPROVAL"
    BY <1>1, <1>2 DEF FlowInv, PmFlow, SnapshotFits
  <2> QED BY <2>2, <2>3
<1> QED BY <1>1, <1>2

LEMMA ReworkTouches ==
    ASSUME FlowInv, NEW c \in Clients, ApplyRework(c), NEW v, v = request[c].wo
    PROVE  v \in WorkOrders /\ Touches(v) /\ (v \in NeverCancelled => PmMove(v))
<1> DEFINE n == roundCount[v] + 1
<1>1. /\ v \in WorkOrders /\ roundCount[v] \in RoundNos
      /\ v \in NeverCancelled =>
            status[v] = "PENDING_APPROVAL" /\ request[c].st = "PENDING_APPROVAL"
  BY DecidesPending DEF ApplyRework
<1>2. /\ n \in RoundNos /\ OpenRound(v, n, request[c].to)
      /\ SetStatus(v, request[c].st, "ASSIGNED")
      /\ UNCHANGED <<report, cancelledOnce>> /\ TypeOK
  BY DEF ApplyRework, FlowInv, Inv
<1>3. Touches(v)
  BY <1>1, <1>2, PutStatus, PutNewRound DEF Touches, Same
<1>4. ASSUME v \in NeverCancelled PROVE IsSentBack(v)
  <2>1. n > roundCount[v]
    BY <1>1, Constants
  <2>2. report'[v][n] = None
    BY <1>2, <1>4, <2>1, RoundFacts
  <2> QED BY <1>1, <1>2, <1>4, <2>2, PutStatus, PutNewRound
          DEF IsSentBack, Goes, RowsBut
<1> QED BY <1>1, <1>3, <1>4 DEF PmMove

LEMMA ClosingTouches ==
    ASSUME FlowInv, NEW c \in Clients, ApplyClosing(c), NEW v, v = request[c].wo
    PROVE  v \in WorkOrders /\ Touches(v) /\ (v \in NeverCancelled => PmMove(v))
<1>1. /\ v \in WorkOrders /\ roundCount[v] \in RoundNos
      /\ v \in NeverCancelled =>
            status[v] = "PENDING_APPROVAL" /\ request[c].st = "PENDING_APPROVAL"
  BY DecidesPending DEF ApplyClosing
<1>2. /\ SetStatus(v, request[c].st, FinalStatus(request[c].decision))
      /\ UNCHANGED <<roundCount, assignedTo, checkedIn, submitted, report,
                     cancelledOnce>> /\ TypeOK
  BY DEF ApplyClosing, FlowInv, Inv
<1>3. Touches(v)
  BY <1>1, <1>2, PutStatus DEF Touches, Same
<1>4. FinalStatus(request[c].decision) \in ClosedStatuses
  BY DEF FinalStatus, ClosedStatuses
<1>5. ASSUME v \in NeverCancelled PROVE IsClosed(v)
  BY <1>1, <1>2, <1>4, <1>5, PutStatus DEF IsClosed, Goes
<1> QED BY <1>1, <1>3, <1>5 DEF PmMove

LEMMA SoftDeleteTouches ==
    ASSUME FlowInv, NEW v \in WorkOrders, SoftDelete(v)
    PROVE  Touches(v) /\ (v \in NeverCancelled => PmMove(v))
<1>1. /\ status' = [status EXCEPT ![v] = "CANCELLED"] /\ status[v] # None
      /\ cancelledOnce' = [cancelledOnce EXCEPT ![v] = TRUE]
      /\ UNCHANGED <<roundCount, assignedTo, checkedIn, submitted, report, lastLog>>
      /\ status \in [WorkOrders -> Statuses \union {None}]
      /\ cancelledOnce \in [WorkOrders -> BOOLEAN]
  BY DEF SoftDelete, FlowInv, Inv, TypeOK
<1>2. /\ cancelledOnce'[v] = TRUE
      /\ \A w \in WorkOrders : w # v =>
            status'[w] = status[w] /\ cancelledOnce'[w] = cancelledOnce[w]
  BY <1>1
<1> QED BY <1>1, <1>2 DEF Touches, Same, PmMove, IsCancelled

\* Only the draft of the newest round can be deleted.
LEMMA DeleteReportTouches ==
    ASSUME FlowInv, NEW v \in WorkOrders, NEW n \in RoundNos, DeleteReport(v, n)
    PROVE  Touches(v) /\ (v \in NeverCancelled => PmMove(v))
<1>1. /\ report[v][n] \in {"DRAFT", "SAVED"}
      /\ report' = [report EXCEPT ![v][n] = None]
      /\ UNCHANGED <<status, roundCount, assignedTo, checkedIn, submitted, lastLog,
                     cancelledOnce>>
      /\ report \in [WorkOrders -> [RoundNos -> {None, "DRAFT", "SUBMITTED", "SAVED"}]]
  BY DEF DeleteReport, FlowInv, Inv, TypeOK
<1>2. /\ \A m \in RoundNos : m # n => report'[v][m] = report[v][m]
      /\ \A w \in WorkOrders : w # v => report'[w] = report[w]
  BY <1>1, PutRound
<1>3. Touches(v)
  BY <1>1, <1>2 DEF Touches, Same
<1>4. ASSUME v \in NeverCancelled PROVE Rests(v)
  <2>1. ~submitted[v][n] /\ ~(n > roundCount[v])
    BY <1>1, <1>4, RoundFacts DEF None
  <2>2. roundCount[v] \in Nat /\ n \in Nat /\ n >= 1
    BY Constants DEF FlowInv, Inv, TypeOK
  <2>3. n = roundCount[v]
    BY <1>4, <2>1, <2>2, OpenIsNewest
  <2>4. status[v] # None
    BY <2>2, <2>3 DEF FlowInv, Inv, RoundChain
  <2>5. status[v] = "IN_PROGRESS"
    BY <1>1, <1>4, <2>1, <2>3, <2>4, StatusFacts DEF None
  <2> QED BY <1>1, <1>2, <2>3, <2>5 DEF Rests, RowsBut
<1> QED BY <1>3, <1>4 DEF PmMove

\* A step touches one work order at most; a PM that was never cancelled moves.
LEMMA OneTouched ==
    ASSUME FlowInv, [Next]_vars
    PROVE  \/ \A w \in WorkOrders : Same(w)
           \/ \E v \in WorkOrders : Touches(v) /\ (v \in NeverCancelled => PmMove(v))
<1> DEFINE P == \/ \A w \in WorkOrders : Same(w)
                \/ \E v \in WorkOrders :
                        Touches(v) /\ (v \in NeverCancelled => PmMove(v))
<1>1. ASSUME UNCHANGED <<status, roundCount, report, assignedTo, checkedIn,
                         submitted, lastLog, cancelledOnce>>
      PROVE  P
  BY <1>1 DEF Same
<1>2. ASSUME NEW v \in WorkOrders, Touches(v), v \in NeverCancelled => PmMove(v)
      PROVE  P
  BY <1>2
<1> HIDE DEF P
<1>3. ASSUME NEW v \in WorkOrders, NEW e, InsertWorkOrder(v, e) PROVE P
  BY <1>2, <1>3, InsertTouches
<1>4. ASSUME NEW v \in WorkOrders, SoftDelete(v) PROVE P
  BY <1>2, <1>4, SoftDeleteTouches
<1>5. ASSUME NEW v \in WorkOrders, NEW n \in RoundNos, DeleteReport(v, n) PROVE P
  BY <1>2, <1>5, DeleteReportTouches
<1>6. ASSUME NEW c \in Clients, Serve(c) PROVE P
  <2>1. PICK v : v = request[c].wo
    OBVIOUS
  <2>2. CASE Reassign(c)
    BY <1>2, <2>1, <2>2, ReassignTouches
  <2>3. CASE CheckIn(c)
    BY <1>2, <2>1, <2>3, CheckInTouches
  <2>4. CASE SaveReport(c)
    BY <1>2, <2>1, <2>4, SaveReportTouches
  <2>5. CASE SubmitReport(c)
    BY <1>2, <2>1, <2>5, SubmitReportTouches
  <2>6. CASE MarkSubmitted(c)
    BY <1>2, <2>1, <2>6, MarkSubmittedTouches
  <2>7. CASE ApplyRework(c)
    BY <1>2, <2>1, <2>7, ReworkTouches
  <2>8. CASE ApplyClosing(c)
    BY <1>2, <2>1, <2>8, ClosingTouches
  <2>9. CASE CreateCm(c)
    BY <1>3, <2>9 DEF CreateCm
  <2>10. CASE \/ CheckOut(c) \/ ReadMark(c) \/ FindCm(c) \/ SyncPmDates(c) \/ Refuse(c)
    BY <1>1, <2>10 DEF CheckOut, ReadMark, FindCm, SyncPmDates, Refuse
  <2> QED BY <1>6, <2>2, <2>3, <2>4, <2>5, <2>6, <2>7, <2>8, <2>9, <2>10 DEF Serve
<1>7. ASSUME NEW c \in Clients, NEW v \in WorkOrders, Accept(c, v) PROVE P
  BY <1>1, <1>7 DEF Accept, ReadReassign, ReadCheckIn, ReadCheckOut,
                    ReadSaveReport, ReadSubmitPm, ReadSubmitCm, ReadDecide, Read
<1>8. ASSUME \/ \E v \in WorkOrders : Restore(v)
             \/ \E c \in Clients : Disconnect(c)
             \/ UNCHANGED vars
      PROVE  P
  BY <1>1, <1>8 DEF Restore, Disconnect, vars
<1>9. P
  BY <1>3, <1>4, <1>5, <1>6, <1>7, <1>8 DEF Next, Create
<1> QED BY <1>9 DEF P

LEMMA PmMoves ==
    ASSUME FlowInv, [Next]_vars, NEW w \in NeverCancelled
    PROVE  PmMove(w)
BY OneTouched, SameRests, NeverCancelledPms DEF Touches

LEMMA CancelledStays ==
    ASSUME FlowInv, [Next]_vars, NEW w \in WorkOrders, cancelledOnce[w]
    PROVE  cancelledOnce'[w]
<1>1. ASSUME UNCHANGED cancelledOnce PROVE cancelledOnce'[w]
  BY <1>1
<1>2. ASSUME NEW v \in WorkOrders, SoftDelete(v) PROVE cancelledOnce'[w]
  BY <1>2 DEF SoftDelete, FlowInv, Inv, TypeOK
<1>3. ASSUME NEW c \in Clients, Serve(c) PROVE UNCHANGED cancelledOnce
  BY <1>3 DEF Serve, Reassign, CheckIn, CheckOut, SaveReport, SubmitReport,
              ReadMark, MarkSubmitted, FindCm, CreateCm, InsertWorkOrder,
              ApplyRework, ApplyClosing, SyncPmDates, Refuse
<1>4. ASSUME NEW c \in Clients, NEW v \in WorkOrders, Accept(c, v)
      PROVE  UNCHANGED cancelledOnce
  BY <1>4 DEF Accept, ReadReassign, ReadCheckIn, ReadCheckOut,
              ReadSaveReport, ReadSubmitPm, ReadSubmitCm, ReadDecide, Read
<1>5. ASSUME \/ \E v \in WorkOrders, e \in Engineers : Create(v, e)
             \/ \E v \in WorkOrders : Restore(v)
             \/ \E v \in WorkOrders, n \in RoundNos : DeleteReport(v, n)
             \/ \E c \in Clients : Disconnect(c)
             \/ UNCHANGED vars
      PROVE  UNCHANGED cancelledOnce
  BY <1>5 DEF Create, InsertWorkOrder, Restore, DeleteReport, Disconnect, vars
<1> QED BY <1>1, <1>2, <1>3, <1>4, <1>5 DEF Next

\* A check-in of an opened round is never undone.
LEMMA CheckInsStay ==
    ASSUME FlowInv, [Next]_vars, NEW w \in NeverCancelled, NEW n \in RoundNos,
           n <= roundCount[w], checkedIn[w][n]
    PROVE  checkedIn'[w][n]
<1>1. roundCount[w] \in Nat /\ n \in Nat /\ n >= 1
  BY NeverCancelledPms, Constants DEF FlowInv, Inv, TypeOK
<1>2. CASE Rests(w) \/ IsClosed(w) \/ IsCancelled(w) \/ Stamps(w)
  BY <1>2 DEF Rests, IsClosed, IsCancelled, Stamps
<1>3. CASE Opens(w)
  BY <1>1, <1>3 DEF Opens
<1>4. CASE Starts(w)
  BY <1>4 DEF Starts, RowsBut
<1>5. CASE IsSentBack(w)
  BY <1>1, <1>5 DEF IsSentBack, RowsBut
<1> QED BY <1>2, <1>3, <1>4, <1>5, PmMoves DEF PmMove

-----------------------------------------------------------------------------
\* A request q fits w after the step.
FitsNext(q, w) ==
    q.wo = w /\ q # Idle =>
        /\ q.st = "ASSIGNED" \/ checkedIn'[w][q.rnd]
        /\ q.st # "PENDING"
        /\ q.step = "mark" => q.st = "IN_PROGRESS"
        /\ q.step \in {"findCm", "createCm", "decide"} => q.st = "PENDING_APPROVAL"

LEMMA KeptRequestFits ==
    ASSUME FlowInv, [Next]_vars, NEW w \in NeverCancelled, NEW c \in Clients,
           request'[c] \in {Idle, request[c]}
    PROVE  FitsNext(request'[c], w)
<1> SUFFICES ASSUME request'[c].wo = w, request'[c] # Idle, request'[c] = request[c]
             PROVE  FitsNext(request[c], w)
  BY DEF FitsNext
<1>1. SnapshotFits(request[c], w)
  BY DEF FlowInv, PmFlow
<1>2. request[c].rnd \in RoundNos /\ request[c].rnd <= roundCount[w]
  <2>1. request[c] \in Request
    BY DEF FlowInv, Inv, TypeOK
  <2> QED BY <2>1 DEF FlowInv, Inv, RequestsKnown, Request
<1>3. checkedIn[w][request[c].rnd] => checkedIn'[w][request[c].rnd]
  BY <1>2, CheckInsStay
<1> QED BY <1>1, <1>3 DEF SnapshotFits, FitsNext

\* A request that goes on with the round and the status it has kept.
LEMMA GoOnFits ==
    ASSUME FlowInv, [Next]_vars, NEW w \in NeverCancelled, NEW c \in Clients,
           request[c] # Idle, NEW d \in Clients,
           NEW step, NEW cm, GoOn(c, step, request[c].rnd, request[c].st, cm),
           step # "mark",
           step \in {"findCm", "createCm", "decide"}
                => request[c].step \in {"findCm", "createCm", "decide"}
    PROVE  FitsNext(request'[d], w)
<1>1. CASE d # c
  <2>1. request'[d] = request[d]
    BY <1>1 DEF GoOn, FlowInv, Inv, TypeOK
  <2> QED BY <2>1, KeptRequestFits
<1>2. CASE d = c
  <2> SUFFICES ASSUME request'[c].wo = w PROVE FitsNext(request'[c], w)
    BY <1>2 DEF FitsNext
  <2>1. /\ request'[c].step = step /\ request'[c].wo = request[c].wo
        /\ request'[c].rnd = request[c].rnd /\ request'[c].st = request[c].st
    BY DEF GoOn, FlowInv, Inv, TypeOK
  <2>2. SnapshotFits(request[c], w)
    BY DEF FlowInv, PmFlow
  <2>3. request[c].rnd \in RoundNos /\ request[c].rnd <= roundCount[w]
    <3>1. request[c] \in Request
      BY DEF FlowInv, Inv, TypeOK
    <3> QED BY <2>1, <3>1 DEF FlowInv, Inv, RequestsKnown, Request
  <2>4. checkedIn[w][request[c].rnd] => checkedIn'[w][request[c].rnd]
    BY <2>3, CheckInsStay
  <2> QED BY <2>1, <2>2, <2>4 DEF SnapshotFits, FitsNext
<1> QED BY <1>1, <1>2

\* A snapshot of a PM fits it.
LEMMA ReadFits ==
    ASSUME FlowInv, [Next]_vars, NEW w \in NeverCancelled, NEW c \in Clients,
           NEW v \in WorkOrders, NEW step, NEW to, NEW decision,
           Read(c, v, step, to, decision), NEW d \in Clients, step # "mark",
           step \in {"findCm", "createCm", "decide"} => status[v] = "PENDING_APPROVAL"
    PROVE  FitsNext(request'[d], w)
<1>1. CASE d # c
  <2>1. request'[d] = request[d]
    BY <1>1 DEF Read, FlowInv, Inv, TypeOK
  <2> QED BY <2>1, KeptRequestFits
<1>2. CASE d = c
  <2>1. /\ request'[c].step = step /\ request'[c].wo = v
        /\ request'[c].rnd = current[v] /\ request'[c].st = status[v]
        /\ status[v] # None /\ UNCHANGED checkedIn
    BY DEF Read, FlowInv, Inv, TypeOK
  <2>2. CASE v = w
    BY <1>2, <2>1, <2>2, StatusFacts DEF FitsNext
  <2>3. CASE v # w
    BY <1>2, <2>1, <2>3 DEF FitsNext
  <2> QED BY <2>2, <2>3
<1> QED BY <1>1, <1>2

\* The second commit of a submit starts from a new snapshot, of work in progress.
LEMMA ReadMarkFits ==
    ASSUME FlowInv, [Next]_vars, NEW w \in NeverCancelled, NEW c \in Clients,
           ReadMark(c), NEW d \in Clients
    PROVE  FitsNext(request'[d], w)
<1>1. CASE d # c
  <2>1. request'[d] = request[d]
    BY <1>1 DEF ReadMark, GoOn, FlowInv, Inv, TypeOK
  <2> QED BY <2>1, KeptRequestFits
<1>2. CASE d = c
  <2> SUFFICES ASSUME request'[c].wo = w PROVE FitsNext(request'[c], w)
    BY <1>2 DEF FitsNext
  <2>1. PICK v : v = request[c].wo
    OBVIOUS
  <2>2. /\ request'[c].step = "mark" /\ request'[c].wo = v
        /\ request'[c].rnd = current[v] /\ request'[c].st = status[v]
        /\ request[c].step = "readMark" /\ UNCHANGED checkedIn
    BY <2>1 DEF ReadMark, GoOn, FlowInv, Inv, TypeOK
  <2>3. v = w /\ Submits(c, w) /\ w \in Pms /\ status[w] # None
    BY <2>1, <2>2, Held, NeverCancelledPms DEF Submits, Steps, FlowInv
  <2>4. report[w][roundCount[w]] = "SUBMITTED" /\ ~submitted[w][roundCount[w]]
    BY <2>3 DEF FlowInv, PmInv, OneSubmitter
  <2>5. status[w] = "IN_PROGRESS" /\ current[w] = roundCount[w]
        /\ checkedIn[w][roundCount[w]]
    BY <2>3, <2>4, StatusFacts DEF None
  <2> QED BY <2>2, <2>3, <2>5 DEF FitsNext
<1> QED BY <1>1, <1>2

LEMMA RequestsFit ==
    ASSUME FlowInv, [Next]_vars, NEW w \in NeverCancelled, NEW d \in Clients
    PROVE  FitsNext(request'[d], w)
<1> DEFINE P == FitsNext(request'[d], w)
<1>1. ASSUME UNCHANGED request PROVE P
  BY <1>1, KeptRequestFits
<1>2. ASSUME NEW c \in Clients, Finish(c) PROVE P
  BY <1>2, FinishTyped, KeptRequestFits DEF FlowInv, Inv
<1>3. ASSUME NEW c \in Clients, NEW v \in WorkOrders, Accept(c, v) PROVE P
  <2>1. CASE \E e \in Engineers : ReadReassign(c, v, e)
    BY <2>1, ReadFits DEF ReadReassign
  <2>2. CASE ReadCheckIn(c, v) \/ ReadCheckOut(c, v) \/ ReadSaveReport(c, v)
    BY <2>2, ReadFits DEF ReadCheckIn, ReadCheckOut, ReadSaveReport
  <2>3. CASE ReadSubmitPm(c, v) \/ ReadSubmitCm(c, v)
    BY <2>3, ReadFits DEF ReadSubmitPm, ReadSubmitCm
  <2>4. CASE \E t \in Decisions, e \in Engineers : ReadDecide(c, v, t, e)
    BY <2>4, ReadFits DEF ReadDecide
  <2> QED BY <1>3, <2>1, <2>2, <2>3, <2>4 DEF Accept
<1>4. ASSUME NEW c \in Clients, Serve(c) PROVE P
  <2>1. CASE \/ Reassign(c) \/ CheckIn(c) \/ CheckOut(c) \/ SaveReport(c)
             \/ MarkSubmitted(c) \/ ApplyRework(c) \/ SyncPmDates(c) \/ Refuse(c)
    BY <1>2, <2>1 DEF Reassign, CheckIn, CheckOut, SaveReport, MarkSubmitted,
                      ApplyRework, SyncPmDates, Refuse
  <2>2. CASE SubmitReport(c)
    <3>1. request[c] # Idle /\ GoOn(c, "readMark", request[c].rnd, request[c].st, None)
      BY <2>2 DEF SubmitReport, Idle
    <3> QED BY <3>1, GoOnFits
  <2>3. CASE FindCm(c)
    <3>1. request[c] # Idle /\ request[c].step = "findCm"
          /\ \E step \in {"decide", "createCm"}, m \in WorkOrders \union {None} :
                GoOn(c, step, request[c].rnd, request[c].st, m)
      BY <2>3 DEF FindCm, Idle
    <3> QED BY <3>1, GoOnFits
  <2>4. CASE CreateCm(c)
    <3>1. request[c] # Idle /\ request[c].step = "createCm"
          /\ \E m \in WorkOrders : GoOn(c, "decide", request[c].rnd, request[c].st, m)
      BY <2>4 DEF CreateCm, Idle
    <3> QED BY <3>1, GoOnFits
  <2>5. CASE ApplyClosing(c)
    <3>1. request[c] # Idle
          /\ \/ Finish(c)
             \/ GoOn(c, "pmDates", request[c].rnd, request[c].st, request[c].cm)
      BY <2>5 DEF ApplyClosing, Idle
    <3> QED BY <1>2, <3>1, GoOnFits
  <2>6. CASE ReadMark(c)
    BY <2>6, ReadMarkFits
  <2> QED BY <1>4, <2>1, <2>2, <2>3, <2>4, <2>5, <2>6 DEF Serve
<1>5. ASSUME NEW c \in Clients, Disconnect(c) PROVE P
  BY <1>2, <1>5 DEF Disconnect
<1>6. ASSUME \/ \E v \in WorkOrders, e \in Engineers : Create(v, e)
             \/ \E v \in WorkOrders : SoftDelete(v) \/ Restore(v)
             \/ \E v \in WorkOrders, n \in RoundNos : DeleteReport(v, n)
             \/ UNCHANGED vars
      PROVE  UNCHANGED request
  BY <1>6 DEF Create, SoftDelete, Restore, DeleteReport, vars
<1> HIDE DEF P
<1>7. P
  BY <1>1, <1>3, <1>4, <1>5, <1>6 DEF Next
<1> QED BY <1>7 DEF P

-----------------------------------------------------------------------------
\* The moves keep the rounds in order and the status in agreement with them.
LEMMA AgreesNext ==
    ASSUME FlowInv, Inv', PmInv', [Next]_vars, NEW w \in NeverCancelled,
           ~cancelledOnce'[w]
    PROVE  /\ status'[w] # None => Agrees(w)'
           /\ RoundsInOrder(w)'
<1> DEFINE n == roundCount[w]
<1>1. /\ w \in Pms /\ w \in WorkOrders /\ n \in Nat
      /\ \A m \in RoundNos : m \in Nat /\ m >= 1
  BY NeverCancelledPms, Constants DEF FlowInv, Inv, TypeOK
<1>2. status[w] # None => n \in RoundNos /\ Agrees(w)
  BY <1>1, StatusFacts DEF FlowInv, PmFlow
<1>3. \A m \in RoundNos :
        /\ m > n => report[w][m] = None
        /\ submitted[w][m] => checkedIn[w][m]
  BY RoundFacts
<1>4. \A m \in RoundNos : approval'[w][m] # None => submitted'[w][m]
  BY <1>1 DEF PmInv, StampedInOrder
<1>5. CASE Rests(w)
  <2>1. RoundsInOrder(w)'
    BY <1>1, <1>3, <1>5 DEF Rests, RowsBut, RoundsInOrder
  <2>2. ASSUME status[w] # None PROVE Agrees(w)'
    <3>1. CASE report'[w] = report[w]
      BY <1>2, <1>4, <1>5, <2>2, <3>1 DEF Rests, Agrees
    <3>2. CASE status[w] = "IN_PROGRESS"
      BY <1>2, <1>4, <1>5, <2>2, <3>2 DEF Rests, Agrees, ClosedStatuses
    <3> QED BY <1>5, <3>1, <3>2 DEF Rests
  <2> QED BY <1>5, <2>1, <2>2 DEF Rests
<1>6. CASE Opens(w)
  <2>1. RoundsInOrder(w)'
    BY <1>1, <1>3, <1>6 DEF Opens, RowsBut, RoundsInOrder
  <2> QED BY <1>6, <2>1 DEF Opens, Goes, Agrees
<1>7. CASE Starts(w)
  <2>1. n \in RoundNos /\ Agrees(w)
    BY <1>2, <1>7 DEF Starts, Goes, None
  <2>2. ~checkedIn[w][n]
    BY <1>7, <2>1 DEF Starts, Goes, Agrees, ClosedStatuses
  <2>3. RoundsInOrder(w)'
    BY <1>1, <1>3, <1>7 DEF Starts, RowsBut, RoundsInOrder
  <2> QED BY <1>3, <1>4, <1>7, <2>1, <2>2, <2>3 DEF Starts, Goes, Agrees
<1>8. CASE Stamps(w)
  <2>1. n \in RoundNos /\ Agrees(w)
    BY <1>2, <1>8 DEF Stamps, Goes, None
  <2>2. checkedIn[w][n]
    BY <1>8, <2>1 DEF Stamps, Goes, Agrees, ClosedStatuses
  <2>3. RoundsInOrder(w)'
    BY <1>1, <1>3, <1>8, <2>1, <2>2 DEF Stamps, RowsBut, RoundsInOrder
  <2> QED BY <1>8, <2>1, <2>2, <2>3 DEF Stamps, Goes, Agrees
<1>9. CASE IsSentBack(w)
  <2>1. RoundsInOrder(w)'
    BY <1>1, <1>3, <1>9 DEF IsSentBack, RowsBut, RoundsInOrder
  <2> QED BY <1>9, <2>1 DEF IsSentBack, Goes, Agrees
<1>10. CASE IsClosed(w)
  <2>1. Agrees(w)
    BY <1>2, <1>10 DEF IsClosed, Goes, None
  <2>2. submitted[w][n]
    BY <1>10, <2>1 DEF IsClosed, Goes, Agrees, ClosedStatuses
  <2>3. RoundsInOrder(w)'
    BY <1>3, <1>10 DEF IsClosed, RoundsInOrder
  <2> QED BY <1>10, <2>2, <2>3 DEF IsClosed, Goes, Agrees
<1>11. ~IsCancelled(w)
  BY DEF IsCancelled
<1> QED BY <1>5, <1>6, <1>7, <1>8, <1>9, <1>10, <1>11, PmMoves DEF PmMove

LEMMA FlowNext == FlowInv /\ [Next]_vars => FlowInv'
<1> SUFFICES ASSUME FlowInv, [Next]_vars PROVE FlowInv'
  OBVIOUS
<1>1. Inv' /\ PmInv'
  BY PmNext DEF FlowInv
<1>2. ClosedMatchesDecision'
  BY <1>1, ClosedMatchesStep DEF FlowInv
<1>3. ASSUME NEW w \in Pms, ~cancelledOnce'[w]
      PROVE  /\ status'[w] # None => Agrees(w)'
             /\ RoundsInOrder(w)'
             /\ \A c \in Clients : SnapshotFits(request[c], w)'
  <2>1. w \in NeverCancelled
    BY <1>3, CancelledStays, PmsAreWorkOrders DEF NeverCancelled
  <2>2. \A c \in Clients : SnapshotFits(request[c], w)'
    BY <2>1, RequestsFit DEF SnapshotFits, FitsNext
  <2> QED BY <1>1, <1>3, <2>1, <2>2, AgreesNext
<1>4. PmFlow'
  BY <1>3 DEF PmFlow, NeverCancelled
<1> QED BY <1>1, <1>2, <1>4 DEF FlowInv

LEMMA FlowAlways == Spec => []FlowInv
<1>1. Init => FlowInv
  BY InitInv, PmInvInit, ClosedMatchesInit, PmFlowInit DEF FlowInv
<1> QED BY <1>1, FlowNext, PTL DEF Spec

-----------------------------------------------------------------------------
\* Whatever the snapshots its requests were sent from, the status of a PM that
\* was never cancelled is the one its newest round has earned.
THEOREM PmStatusIsEarned == Spec => []PmStatusAgrees
<1>1. FlowInv => PmStatusAgrees
  <2> SUFFICES ASSUME FlowInv, NEW w \in Pms, status[w] # None, ~cancelledOnce[w]
               PROVE  LET n == current[w] IN
                      CASE status[w] = "ASSIGNED" ->
                                ~checkedIn[w][n] /\ report[w][n] = None
                        [] status[w] = "IN_PROGRESS" ->
                                /\ checkedIn[w][n] /\ ~submitted[w][n]
                                /\ approval[w][n] = None
                        [] status[w] = "PENDING_APPROVAL" ->
                                checkedIn[w][n] /\ submitted[w][n]
                        [] OTHER -> status[w] \in ClosedStatuses /\ submitted[w][n]
    BY DEF PmStatusAgrees
  <2>1. w \in NeverCancelled
    BY DEF NeverCancelled
  <2>2. Agrees(w) /\ current[w] = roundCount[w]
    BY <2>1, StatusFacts DEF FlowInv, PmFlow
  <2>3. CASE status[w] = "ASSIGNED"
    BY <2>2, <2>3 DEF Agrees, ClosedStatuses
  <2>4. CASE status[w] = "IN_PROGRESS"
    BY <2>2, <2>4 DEF Agrees, ClosedStatuses
  <2>5. CASE status[w] = "PENDING_APPROVAL"
    BY <2>2, <2>5 DEF Agrees, ClosedStatuses
  <2>6. CASE status[w] \notin {"ASSIGNED", "IN_PROGRESS", "PENDING_APPROVAL"}
    BY <2>2, <2>6 DEF Agrees
  <2> QED BY <2>3, <2>4, <2>5, <2>6
<1> QED BY <1>1, FlowAlways, PTL

\* No late request reaches a round of a PM that was sent back, for any number
\* of rounds and clients, while the PM was never cancelled.
THEOREM SentBackRoundsFrozen == Spec => PmPastRoundsFrozen
<1>1. FlowInv /\ [Next]_vars =>
        [\A w \in Pms : ~cancelledOnce[w] =>
            \A n \in 1 .. roundCount[w] - 1 :
                /\ report'[w][n] = report[w][n]
                /\ assignedTo'[w][n] = assignedTo[w][n]
                /\ checkedIn'[w][n] = checkedIn[w][n]
                /\ submitted'[w][n] = submitted[w][n]]_vars
  <2> SUFFICES ASSUME FlowInv, [Next]_vars, NEW w \in Pms, ~cancelledOnce[w],
                      NEW n \in 1 .. roundCount[w] - 1
               PROVE  /\ report'[w][n] = report[w][n]
                      /\ assignedTo'[w][n] = assignedTo[w][n]
                      /\ checkedIn'[w][n] = checkedIn[w][n]
                      /\ submitted'[w][n] = submitted[w][n]
    OBVIOUS
  <2>1. w \in NeverCancelled /\ w \in WorkOrders
    BY PmsAreWorkOrders DEF NeverCancelled
  <2>2. roundCount[w] \in Nat /\ roundCount[w] <= MaxRounds
    BY <2>1, Constants DEF FlowInv, Inv, TypeOK
  <2>3. n \in RoundNos /\ n # roundCount[w] /\ n # roundCount[w] + 1
        /\ roundCount[w] # 0
    BY <2>2, Constants DEF RoundNos
  <2>4. CASE Rests(w)
    BY <2>3, <2>4 DEF Rests, RowsBut
  <2>5. CASE Opens(w)
    BY <2>3, <2>5 DEF Opens
  <2>6. CASE Starts(w)
    BY <2>3, <2>6 DEF Starts, RowsBut
  <2>7. CASE Stamps(w)
    BY <2>3, <2>7 DEF Stamps, RowsBut
  <2>8. CASE IsSentBack(w)
    BY <2>3, <2>8 DEF IsSentBack, RowsBut
  <2>9. CASE IsClosed(w) \/ IsCancelled(w)
    BY <2>9 DEF IsClosed, IsCancelled
  <2> QED BY <2>1, <2>4, <2>5, <2>6, <2>7, <2>8, <2>9, PmMoves DEF PmMove
<1> QED BY <1>1, FlowAlways, PTL DEF Spec, PmPastRoundsFrozen

\* The activity log of a PM that was never cancelled says the status it really
\* left, though every handler takes it from its snapshot.
THEOREM LogIsReal == Spec => PmLogFromIsReal
<1>1. FlowInv /\ [Next]_vars =>
        [\A w \in Pms : ~cancelledOnce[w] /\ lastLog'[w] # lastLog[w]
            => lastLog'[w].from = status[w]]_vars
  <2> SUFFICES ASSUME FlowInv, [Next]_vars, NEW w \in Pms, ~cancelledOnce[w],
                      lastLog'[w] # lastLog[w]
               PROVE  lastLog'[w].from = status[w]
    OBVIOUS
  <2>1. PmMove(w)
    BY PmMoves DEF NeverCancelled
  <2> QED BY <2>1 DEF PmMove, Rests, Opens, Starts, Stamps, IsSentBack, IsClosed,
                      IsCancelled, Goes
<1> QED BY <1>1, FlowAlways, PTL DEF Spec, PmLogFromIsReal

-----------------------------------------------------------------------------
(***************************************************************************)
(* The refinement: each move of a PM that was never cancelled is an arrow  *)
(* of ReviewFlow or no step of it, and a cancelled PM takes no step.       *)
(***************************************************************************)
phaseOf == [w \in Pms |-> IF cancelledOnce[w] THEN "CANCELLED" ELSE status[w]]
sentBackOf == [w \in Pms |-> IF cancelledOnce[w] \/ roundCount[w] = 0
                             THEN 0 ELSE roundCount[w] - 1]

LEMMA FlowStarts == Init => Promise!Init
<1> SUFFICES ASSUME Init PROVE Promise!Init
  OBVIOUS
<1>1. \A w \in Pms : /\ status[w] = "NULL" /\ cancelledOnce[w] = FALSE
                     /\ roundCount[w] = 0
  BY PmsAreWorkOrders DEF Init, None
<1> QED BY <1>1 DEF Promise!Init

\* What the abstract state becomes when only v is touched.
LEMMA PhaseAt ==
    ASSUME NEW v \in NeverCancelled, Touches(v)
    PROVE  /\ phaseOf[v] = status[v]
           /\ sentBackOf[v] = IF roundCount[v] = 0 THEN 0 ELSE roundCount[v] - 1
           /\ phaseOf' = [phaseOf EXCEPT ![v] =
                IF cancelledOnce'[v] THEN "CANCELLED" ELSE status'[v]]
           /\ sentBackOf' = [sentBackOf EXCEPT ![v] =
                IF cancelledOnce'[v] \/ roundCount'[v] = 0
                THEN 0 ELSE roundCount'[v] - 1]
<1>1. v \in Pms /\ ~cancelledOnce[v]
  BY NeverCancelledPms
<1>2. \A w \in Pms : w # v => /\ status'[w] = status[w]
                              /\ roundCount'[w] = roundCount[w]
                              /\ cancelledOnce'[w] = cancelledOnce[w]
  BY PmsAreWorkOrders DEF Touches, Same
<1> QED BY <1>1, <1>2 DEF phaseOf, sentBackOf

LEMMA ArrowTaken ==
    ASSUME NEW v \in Pms, NEW from, NEW to, phaseOf[v] = from,
           phaseOf' = [phaseOf EXCEPT ![v] = to], sentBackOf' = sentBackOf
    PROVE  Promise!Move(v, from, to)
BY DEF Promise!Move, phaseOf, sentBackOf

LEMMA CountKept ==
    ASSUME NEW v \in Pms
    PROVE  sentBackOf = [sentBackOf EXCEPT ![v] = sentBackOf[v]]
BY DEF sentBackOf

LEMMA PhaseKept ==
    ASSUME NEW v \in Pms
    PROVE  phaseOf = [phaseOf EXCEPT ![v] = phaseOf[v]]
BY DEF phaseOf

\* A move of v, seen from outside.
LEMMA MoveFollows ==
    ASSUME FlowInv, NEW v \in NeverCancelled, Touches(v), PmMove(v)
    PROVE  Promise!Next \/ UNCHANGED <<phaseOf, sentBackOf>>
<1> DEFINE n == roundCount[v]
<1>1. v \in Pms /\ v \in WorkOrders /\ ~cancelledOnce[v]
  BY NeverCancelledPms
<1>2. /\ phaseOf[v] = status[v]
      /\ sentBackOf[v] = IF n = 0 THEN 0 ELSE n - 1
      /\ phaseOf' = [phaseOf EXCEPT ![v] =
            IF cancelledOnce'[v] THEN "CANCELLED" ELSE status'[v]]
      /\ sentBackOf' = [sentBackOf EXCEPT ![v] =
            IF cancelledOnce'[v] \/ roundCount'[v] = 0 THEN 0 ELSE roundCount'[v] - 1]
  BY PhaseAt
<1>3. ASSUME roundCount'[v] = n, cancelledOnce'[v] = cancelledOnce[v]
      PROVE  sentBackOf' = sentBackOf
  BY <1>1, <1>2, <1>3, CountKept
<1>4. ASSUME NEW from, NEW to, Goes(v, from, to)
      PROVE  /\ phaseOf[v] = from /\ phaseOf' = [phaseOf EXCEPT ![v] = to]
             /\ ~cancelledOnce'[v]
  BY <1>1, <1>2, <1>4 DEF Goes
<1>5. CASE Rests(v)
  BY <1>1, <1>2, <1>3, <1>5, PhaseKept DEF Rests
<1>6. CASE Opens(v)
  <2>1. sentBackOf' = sentBackOf
    BY <1>1, <1>2, <1>6, CountKept DEF Opens, Goes
  <2>2. Promise!Move(v, "NULL", "ASSIGNED")
    BY <1>1, <1>4, <1>6, <2>1, ArrowTaken DEF Opens, None
  <2> QED BY <1>1, <2>2 DEF Promise!Next, Promise!Open
<1>7. CASE Starts(v)
  <2>1. sentBackOf' = sentBackOf
    BY <1>3, <1>7 DEF Starts, Goes
  <2>2. Promise!Move(v, "ASSIGNED", "IN_PROGRESS")
    BY <1>1, <1>4, <1>7, <2>1, ArrowTaken DEF Starts
  <2> QED BY <1>1, <2>2 DEF Promise!Next, Promise!StartWork
<1>8. CASE Stamps(v)
  <2>1. sentBackOf' = sentBackOf
    BY <1>3, <1>8 DEF Stamps, Goes
  <2>2. Promise!Move(v, "IN_PROGRESS", "PENDING_APPROVAL")
    BY <1>1, <1>4, <1>8, <2>1, ArrowTaken DEF Stamps
  <2> QED BY <1>1, <2>2 DEF Promise!Next, Promise!SubmitWork
<1>9. CASE IsClosed(v)
  <2>1. PICK f \in ClosedStatuses : Goes(v, "PENDING_APPROVAL", f)
    BY <1>9 DEF IsClosed
  <2>2. sentBackOf' = sentBackOf
    BY <1>3, <1>9, <2>1 DEF IsClosed, Goes
  <2>3. Promise!Move(v, "PENDING_APPROVAL", f)
    BY <1>1, <1>4, <2>1, <2>2, ArrowTaken
  <2> QED BY <1>1, <2>3 DEF Promise!Next, Promise!Close, Promise!Finals, ClosedStatuses
<1>10. CASE IsSentBack(v)
  <2>1. n \in RoundNos /\ n + 1 \in RoundNos /\ roundCount'[v] = n + 1
        /\ Goes(v, "PENDING_APPROVAL", "ASSIGNED")
    BY <1>10, StatusFacts DEF IsSentBack, Goes, None
  <2>2. /\ phaseOf[v] = "PENDING_APPROVAL"
        /\ phaseOf' = [phaseOf EXCEPT ![v] = "ASSIGNED"]
        /\ ~cancelledOnce'[v]
    BY <1>4, <2>1
  <2>3. n \in Nat /\ n >= 1 /\ n + 1 <= MaxRounds /\ MaxRounds \in Nat
    BY <2>1, Constants
  <2>4. sentBackOf[v] = n - 1 /\ sentBackOf' = [sentBackOf EXCEPT ![v] = n]
    <3>1. n # 0 /\ roundCount'[v] # 0 /\ roundCount'[v] - 1 = n
      BY <2>1, <2>3
    <3>2. sentBackOf[v] = n - 1
      BY <1>2, <3>1
    <3>3. (IF cancelledOnce'[v] \/ roundCount'[v] = 0 THEN 0 ELSE roundCount'[v] - 1) = n
      BY <2>2, <3>1
    <3> QED BY <1>2, <3>2, <3>3
  <2>5. sentBackOf[v] + 1 = n /\ sentBackOf[v] + 1 < MaxRounds
    BY <2>3, <2>4
  <2>6. sentBackOf' = [sentBackOf EXCEPT ![v] = @ + 1]
    BY <2>4, <2>5
  <2>7. Promise!SendBack(v)
    BY <2>2, <2>5, <2>6 DEF Promise!SendBack, phaseOf, sentBackOf
  <2> QED BY <1>1, <2>7 DEF Promise!Next
<1>11. CASE IsCancelled(v)
  <2>1. /\ phaseOf[v] # "NULL" /\ phaseOf' = [phaseOf EXCEPT ![v] = "CANCELLED"]
        /\ sentBackOf' = [sentBackOf EXCEPT ![v] = 0]
    BY <1>2, <1>11 DEF IsCancelled, None
  <2>2. Promise!Cancel(v)
    BY <2>1 DEF Promise!Cancel, phaseOf, sentBackOf
  <2> QED BY <1>1, <2>2 DEF Promise!Next
<1> QED BY <1>5, <1>6, <1>7, <1>8, <1>9, <1>10, <1>11 DEF PmMove

LEMMA FlowFollows ==
    ASSUME FlowInv, [Next]_vars
    PROVE  Promise!Next \/ UNCHANGED <<phaseOf, sentBackOf>>
<1>1. CASE \A w \in WorkOrders : Same(w)
  BY <1>1, PmsAreWorkOrders DEF Same, phaseOf, sentBackOf
<1>2. ASSUME NEW v \in WorkOrders, Touches(v), v \in NeverCancelled => PmMove(v)
      PROVE  Promise!Next \/ UNCHANGED <<phaseOf, sentBackOf>>
  <2>1. CASE v \in NeverCancelled
    BY <1>2, <2>1, MoveFollows
  <2>2. CASE v \notin NeverCancelled
    <3>1. \A w \in Pms :
            \/ /\ status'[w] = status[w] /\ roundCount'[w] = roundCount[w]
               /\ cancelledOnce'[w] = cancelledOnce[w]
            \/ cancelledOnce[w] /\ cancelledOnce'[w]
      BY <1>2, <2>2, CancelledStays, PmsAreWorkOrders
         DEF Touches, Same, NeverCancelled
    <3> QED BY <3>1 DEF phaseOf, sentBackOf
  <2> QED BY <2>1, <2>2
<1> QED BY <1>1, <1>2, OneTouched

\* Until it is cancelled every PM moves along the status diagram, one arrow at
\* a time, for any number of PMs, rounds and clients: WorkOrderLifecycle
\* implements ReviewFlow.
THEOREM FollowsReviewFlow == Spec => ImplementsReviewFlow
<1>1. FlowInv /\ [Next]_vars => [Promise!Next]_<<phaseOf, sentBackOf>>
  BY FlowFollows
<1> QED BY <1>1, FlowStarts, FlowAlways, PTL
        DEF Spec, ImplementsReviewFlow, Promise!Spec, phaseOf, sentBackOf

-----------------------------------------------------------------------------
(***************************************************************************)
(* What liveness rests on.  That a step is taken in the end is left to     *)
(* TLC; that there is always a request whose step it is, and that only a   *)
(* request that dies can lose it, is a safety property and is proved here. *)
(***************************************************************************)
AtStamp(c) == request[c].step \in {"readMark", "mark"}
AtDates(c) == request[c].step = "pmDates"

\* A submitted report without its stamp is in the hand of a request.
SubmitInHand ==
    \A w \in Pms, n \in RoundNos :
        report[w][n] = "SUBMITTED" /\ ~submitted[w][n] =>
            \E c \in Clients : Submits(c, w) /\ request[c].rnd = n

\* A PM that a review closed, without its dates, is in the hand of a request.
DatesInHand ==
    \A w \in Pms : closed[w] /\ ~pmDates[w] =>
        \E c \in Clients : AtDates(c) /\ request[c].wo = w

UnopenedEmpty ==
    \A w \in WorkOrders, n \in RoundNos : n > roundCount[w] => report[w][n] = None

HandInv == UnopenedEmpty /\ SubmitInHand /\ DatesInHand

LEMMA HandInit == Init => HandInv
<1> SUFFICES ASSUME Init PROVE HandInv
  OBVIOUS
<1>1. \A w \in WorkOrders : closed[w] = FALSE /\ \A n \in RoundNos : report[w][n] = None
  BY DEF Init
<1> QED BY <1>1, PmsAreWorkOrders
        DEF HandInv, UnopenedEmpty, SubmitInHand, DatesInHand, None

\* The steps that submit nothing, close nothing and stop no request that has
\* one of the two in hand.
LEMMA HandQuiet ==
    ASSUME HandInv, UnopenedEmpty',
           \A w \in Pms, n \in RoundNos :
                report'[w][n] = "SUBMITTED" /\ ~submitted'[w][n] =>
                    report[w][n] = "SUBMITTED" /\ ~submitted[w][n],
           \A w \in Pms : closed'[w] /\ ~pmDates'[w] => closed[w] /\ ~pmDates[w],
           \A c \in Clients : AtStamp(c) \/ AtDates(c) => request'[c] = request[c]
    PROVE  HandInv'
BY DEF HandInv, SubmitInHand, DatesInHand, Submits, AtStamp, AtDates

LEMMA ReportKept ==
    ASSUME HandInv, UNCHANGED <<report, roundCount>>
    PROVE  UnopenedEmpty'
BY DEF HandInv, UnopenedEmpty

LEMMA ReportWritten ==
    ASSUME Inv, HandInv, NEW v \in WorkOrders, NEW n \in RoundNos, NEW x,
           report' = [report EXCEPT ![v][n] = x], UNCHANGED roundCount,
           n <= roundCount[v] \/ x = None
    PROVE  UnopenedEmpty'
<1>1. report \in [WorkOrders -> [RoundNos -> {None, "DRAFT", "SUBMITTED", "SAVED"}]]
      /\ roundCount[v] \in Nat /\ n \in Nat
  BY Constants DEF Inv, TypeOK
<1>2. /\ report'[v][n] = x
      /\ \A m \in RoundNos : m # n => report'[v][m] = report[v][m]
      /\ \A w \in WorkOrders : w # v => report'[w] = report[w]
  BY <1>1, PutRound
<1> QED BY <1>1, <1>2 DEF HandInv, UnopenedEmpty

LEMMA HandInsert ==
    ASSUME Inv, PmInv, HandInv, NEW v \in WorkOrders,
           NEW e, InsertWorkOrder(v, e),
           \A c \in Clients : AtStamp(c) \/ AtDates(c) => request'[c] = request[c]
    PROVE  HandInv'
<1>1. /\ status[v] = None /\ OpenRound(v, 1, e)
      /\ report' = [report EXCEPT ![v][1] = IF WoType[v] = "CM" THEN "SAVED" ELSE None]
      /\ UNCHANGED <<closed, pmDates>>
  BY DEF InsertWorkOrder
<1>2. TypeOK /\ 1 \in RoundNos /\ roundCount[v] = 0
      /\ report \in [WorkOrders -> [RoundNos -> {None, "DRAFT", "SUBMITTED", "SAVED"}]]
      /\ \A n \in RoundNos : n \in Nat /\ n >= 1
  BY <1>1, Constants DEF Inv, TypeOK, RoundChain
<1>3. /\ report'[v][1] = IF WoType[v] = "CM" THEN "SAVED" ELSE None
      /\ \A m \in RoundNos : m # 1 => report'[v][m] = report[v][m]
      /\ \A w \in WorkOrders : w # v => report'[w] = report[w]
  BY <1>1, <1>2, PutRound
<1>4. /\ roundCount'[v] = 1
      /\ \A m \in RoundNos : m # 1 => submitted'[v][m] = submitted[v][m]
      /\ \A w \in WorkOrders : w # v =>
            roundCount'[w] = roundCount[w] /\ submitted'[w] = submitted[w]
  BY <1>1, <1>2, PutNewRound
<1>5. UnopenedEmpty'
  BY <1>2, <1>3, <1>4 DEF HandInv, UnopenedEmpty
<1>6. \A w \in Pms, n \in RoundNos :
        report'[w][n] = "SUBMITTED" /\ ~submitted'[w][n] =>
            report[w][n] = "SUBMITTED" /\ ~submitted[w][n]
  BY <1>3, <1>4, PmsAreWorkOrders DEF None
<1> QED BY <1>1, <1>5, <1>6, HandQuiet

\* A request that ends had neither in hand.
LEMMA HandFinish ==
    ASSUME Inv, HandInv, UnopenedEmpty', NEW c \in Clients, Finish(c),
           ~AtStamp(c), ~AtDates(c),
           UNCHANGED <<submitted, closed, pmDates>>,
           \A w \in Pms, n \in RoundNos :
                report'[w][n] = "SUBMITTED" => report[w][n] = "SUBMITTED"
    PROVE  HandInv'
<1>1. \A d \in Clients : d # c => request'[d] = request[d]
  BY DEF Finish, Inv, TypeOK
<1> QED BY <1>1, HandQuiet

LEMMA HandAccept ==
    ASSUME Inv, HandInv, NEW c \in Clients, NEW w \in WorkOrders, Accept(c, w)
    PROVE  HandInv'
<1>1. \E step, to, decision : Read(c, w, step, to, decision)
  BY DEF Accept, ReadReassign, ReadCheckIn, ReadCheckOut, ReadSaveReport,
         ReadSubmitPm, ReadSubmitCm, ReadDecide
<1>2. PICK step, to, decision : Read(c, w, step, to, decision)
  BY <1>1
<1>3. \A d \in Clients : AtStamp(d) \/ AtDates(d) => request'[d] = request[d]
  BY <1>2 DEF Read, Idle, AtStamp, AtDates, Inv, TypeOK
<1>4. UNCHANGED <<report, roundCount, submitted, closed, pmDates>>
  BY <1>2 DEF Read
<1> QED BY <1>3, <1>4, ReportKept, HandQuiet

LEMMA HandSaveReport ==
    ASSUME Inv, HandInv, NEW c \in Clients, SaveReport(c)
    PROVE  HandInv'
<1> DEFINE r == request[c]
<1>1. /\ r.wo \in WorkOrders /\ r.rnd \in RoundNos /\ r.rnd <= roundCount[r.wo]
      /\ r.step = "saveReport"
  BY Held DEF SaveReport, Steps
<1>2. /\ report' = [report EXCEPT ![r.wo][r.rnd] =
                        IF WoType[r.wo] = "PM" THEN "DRAFT" ELSE "SAVED"]
      /\ Finish(c) /\ UNCHANGED <<roundCount, submitted, closed, pmDates>>
  BY DEF SaveReport
<1>3. UnopenedEmpty'
  BY <1>1, <1>2, ReportWritten
<1>4. \A w \in Pms, n \in RoundNos :
        report'[w][n] = "SUBMITTED" => report[w][n] = "SUBMITTED"
  BY <1>1, <1>2, PmsAreWorkOrders DEF Inv, TypeOK
<1> QED BY <1>1, <1>2, <1>3, <1>4, HandFinish DEF AtStamp, AtDates

LEMMA HandDeleteReport ==
    ASSUME Inv, HandInv, NEW w \in WorkOrders, NEW n \in RoundNos, DeleteReport(w, n)
    PROVE  HandInv'
<1>1. /\ report' = [report EXCEPT ![w][n] = None]
      /\ UNCHANGED <<roundCount, submitted, closed, pmDates, request>>
  BY DEF DeleteReport
<1>2. UnopenedEmpty'
  BY <1>1, ReportWritten
<1>3. \A v \in Pms, m \in RoundNos :
        report'[v][m] = "SUBMITTED" => report[v][m] = "SUBMITTED"
  BY <1>1, PmsAreWorkOrders DEF Inv, TypeOK, None
<1> QED BY <1>1, <1>2, <1>3, HandQuiet

\* The first commit of a submit takes the report in hand.
LEMMA HandSubmitReport ==
    ASSUME Inv, HandInv, NEW c \in Clients, SubmitReport(c)
    PROVE  HandInv'
<1>1. PICK v \in WorkOrders, n \in RoundNos : v = request[c].wo /\ n = request[c].rnd
                                              /\ n <= roundCount[v]
  BY Held DEF SubmitReport, Steps
<1>2. /\ report' = [report EXCEPT ![v][n] = "SUBMITTED"]
      /\ request[c].step = "submitReport"
      /\ GoOn(c, "readMark", n, request[c].st, None)
      /\ UNCHANGED <<roundCount, submitted, closed, pmDates>>
  BY <1>1 DEF SubmitReport
<1>3. /\ request'[c].step = "readMark" /\ request'[c].wo = v /\ request'[c].rnd = n
      /\ \A d \in Clients : d # c => request'[d] = request[d]
  BY <1>1, <1>2 DEF GoOn, Inv, TypeOK
<1>4. UnopenedEmpty'
  BY <1>1, <1>2, ReportWritten
<1>5. \A w \in Pms, m \in RoundNos :
        report'[w][m] = "SUBMITTED" => report[w][m] = "SUBMITTED" \/ (w = v /\ m = n)
  BY <1>2, PmsAreWorkOrders DEF Inv, TypeOK
<1>6. SubmitInHand'
  <2> SUFFICES ASSUME NEW w \in Pms, NEW m \in RoundNos,
                      report'[w][m] = "SUBMITTED", ~submitted'[w][m]
               PROVE  \E d \in Clients : /\ request'[d].step \in {"readMark", "mark"}
                                         /\ request'[d].wo = w /\ request'[d].rnd = m
    BY DEF SubmitInHand, Submits
  <2>1. CASE w = v /\ m = n
    BY <1>3, <2>1
  <2>2. CASE report[w][m] = "SUBMITTED"
    <3>1. PICK d \in Clients : Submits(d, w) /\ request[d].rnd = m
      BY <1>2, <2>2 DEF HandInv, SubmitInHand
    <3> QED BY <1>2, <1>3, <3>1 DEF Submits
  <2> QED BY <1>5, <2>1, <2>2
<1>7. DatesInHand'
  BY <1>2, <1>3 DEF HandInv, DatesInHand, AtDates
<1> QED BY <1>4, <1>6, <1>7 DEF HandInv

\* The second read keeps it: the round of a submit is still the newest.
LEMMA HandReadMark ==
    ASSUME Inv, PmInv, HandInv, NEW c \in Clients, ReadMark(c)
    PROVE  HandInv'
<1>1. PICK v \in WorkOrders : v = request[c].wo /\ status[v] # None
  BY Held DEF ReadMark, Steps
<1>2. /\ request[c].step = "readMark" /\ current[v] = roundCount[v]
      /\ GoOn(c, "mark", current[v], status[v], None)
      /\ UNCHANGED <<report, roundCount, submitted, closed, pmDates>>
  BY <1>1, Newest DEF ReadMark
<1>3. /\ request'[c].step = "mark" /\ request'[c].wo = v
      /\ request'[c].rnd = roundCount[v]
      /\ \A d \in Clients : d # c => request'[d] = request[d]
  BY <1>1, <1>2 DEF GoOn, Inv, TypeOK
<1>4. \A d \in Clients, w \in Pms : Submits(d, w) =>
        /\ request'[d].step \in {"readMark", "mark"}
        /\ request'[d].wo = w /\ request'[d].rnd = request[d].rnd
  BY <1>1, <1>3 DEF Submits, PmInv, OneSubmitter
<1>5. SubmitInHand'
  BY <1>2, <1>4 DEF HandInv, SubmitInHand, Submits
<1>6. DatesInHand'
  BY <1>2, <1>3 DEF HandInv, DatesInHand, AtDates
<1> QED BY <1>2, <1>5, <1>6, ReportKept DEF HandInv

\* The stamp lets it go, and only it.
LEMMA HandMarkSubmitted ==
    ASSUME Inv, HandInv, NEW c \in Clients, MarkSubmitted(c)
    PROVE  HandInv'
<1>1. PICK v \in WorkOrders, n \in RoundNos : v = request[c].wo /\ n = request[c].rnd
  BY Held DEF MarkSubmitted, Steps
<1>2. /\ submitted' = [submitted EXCEPT ![v][n] = TRUE] /\ request[c].step = "mark"
      /\ Finish(c) /\ UNCHANGED <<report, roundCount, closed, pmDates>>
      /\ submitted \in [WorkOrders -> [RoundNos -> BOOLEAN]]
  BY <1>1 DEF MarkSubmitted, Inv, TypeOK
<1>3. /\ submitted'[v][n] = TRUE
      /\ \A m \in RoundNos : m # n => submitted'[v][m] = submitted[v][m]
      /\ \A w \in WorkOrders : w # v => submitted'[w] = submitted[w]
  BY <1>1, <1>2, PutRound
<1>4. \A d \in Clients : d # c => request'[d] = request[d]
  BY <1>2 DEF Finish, Inv, TypeOK
<1>5. SubmitInHand'
  <2> SUFFICES ASSUME NEW w \in Pms, NEW m \in RoundNos,
                      report[w][m] = "SUBMITTED", ~submitted'[w][m]
               PROVE  \E d \in Clients : /\ request'[d].step \in {"readMark", "mark"}
                                         /\ request'[d].wo = w /\ request'[d].rnd = m
    BY <1>2 DEF SubmitInHand, Submits
  <2>1. ~submitted[w][m] /\ ~(w = v /\ m = n)
    BY <1>3, PmsAreWorkOrders
  <2>2. PICK d \in Clients : Submits(d, w) /\ request[d].rnd = m
    BY <2>1 DEF HandInv, SubmitInHand
  <2>3. d # c
    BY <1>1, <2>1, <2>2 DEF Submits
  <2> QED BY <1>4, <2>2, <2>3 DEF Submits
<1>6. DatesInHand'
  BY <1>2, <1>4 DEF HandInv, DatesInHand, AtDates
<1> QED BY <1>2, <1>5, <1>6, ReportKept DEF HandInv

LEMMA HandEscalate ==
    ASSUME Inv, PmInv, HandInv, NEW c \in Clients, FindCm(c) \/ CreateCm(c)
    PROVE  HandInv'
<1>1. ~AtStamp(c) /\ ~AtDates(c)
  BY DEF FindCm, CreateCm, AtStamp, AtDates
<1>2. \A d \in Clients : d # c => request'[d] = request[d]
  BY DEF FindCm, CreateCm, GoOn, Inv, TypeOK
<1>3. \A d \in Clients : AtStamp(d) \/ AtDates(d) => request'[d] = request[d]
  BY <1>1, <1>2
<1>4. CASE FindCm(c)
  <2>1. UNCHANGED <<report, roundCount, submitted, closed, pmDates>>
    BY <1>4 DEF FindCm
  <2> QED BY <1>3, <2>1, ReportKept, HandQuiet
<1>5. CASE CreateCm(c)
  BY <1>3, <1>5, HandInsert DEF CreateCm
<1> QED BY <1>4, <1>5

\* A new round has no report.
LEMMA HandRework ==
    ASSUME Inv, HandInv, NEW c \in Clients, ApplyRework(c)
    PROVE  HandInv'
<1>1. PICK v \in WorkOrders : v = request[c].wo /\ roundCount[v] \in RoundNos
  BY Held DEF ApplyRework, Steps
<1> DEFINE n == roundCount[v] + 1
<1>2. /\ n \in RoundNos /\ OpenRound(v, n, request[c].to) /\ request[c].step = "decide"
      /\ Finish(c) /\ UNCHANGED <<report, closed, pmDates>> /\ TypeOK
  BY <1>1 DEF ApplyRework, Inv
<1>3. /\ roundCount'[v] = n
      /\ \A m \in RoundNos : m # n => submitted'[v][m] = submitted[v][m]
      /\ \A w \in WorkOrders : w # v =>
            roundCount'[w] = roundCount[w] /\ submitted'[w] = submitted[w]
  BY <1>1, <1>2, PutNewRound
<1>4. roundCount[v] \in Nat /\ n > roundCount[v]
      /\ \A m \in RoundNos : m \in Nat /\ (m > n => m > roundCount[v])
  BY <1>1, Constants
<1>5. UnopenedEmpty'
  BY <1>2, <1>3, <1>4 DEF HandInv, UnopenedEmpty
<1>6. report[v][n] = None
  BY <1>2, <1>4 DEF HandInv, UnopenedEmpty
<1>7. \A w \in Pms, m \in RoundNos :
        report'[w][m] = "SUBMITTED" /\ ~submitted'[w][m] =>
            report[w][m] = "SUBMITTED" /\ ~submitted[w][m]
  BY <1>2, <1>3, <1>6, PmsAreWorkOrders DEF None
<1>8. \A d \in Clients : AtStamp(d) \/ AtDates(d) => request'[d] = request[d]
  BY <1>2 DEF Finish, AtStamp, AtDates, Inv, TypeOK
<1> QED BY <1>2, <1>5, <1>7, <1>8, HandQuiet

\* A review that closes a PM takes its dates in hand.
LEMMA HandClosing ==
    ASSUME Inv, HandInv, NEW c \in Clients, ApplyClosing(c)
    PROVE  HandInv'
<1>1. PICK v \in WorkOrders : v = request[c].wo
  BY Held DEF ApplyClosing, Steps
<1>2. /\ request[c].step = "decide" /\ closed' = [closed EXCEPT ![v] = TRUE]
      /\ UNCHANGED <<report, roundCount, submitted, pmDates>>
  BY <1>1 DEF ApplyClosing
<1>3. /\ \A d \in Clients : d # c => request'[d] = request[d]
      /\ v \in Pms => request'[c].step = "pmDates" /\ request'[c].wo = v
  BY <1>1 DEF ApplyClosing, Finish, GoOn, DatesPanel, Pms, Inv, TypeOK
<1>4. SubmitInHand'
  BY <1>2, <1>3 DEF HandInv, SubmitInHand, Submits
<1>5. DatesInHand'
  <2> SUFFICES ASSUME NEW w \in Pms, closed'[w], ~pmDates[w]
               PROVE  \E d \in Clients :
                        request'[d].step = "pmDates" /\ request'[d].wo = w
    BY <1>2 DEF DatesInHand, AtDates
  <2>1. CASE w = v
    BY <1>3, <2>1
  <2>2. CASE w # v
    <3>1. closed[w]
      BY <1>1, <1>2, <2>2, PmsAreWorkOrders DEF Inv, TypeOK
    <3>2. PICK d \in Clients : AtDates(d) /\ request[d].wo = w
      BY <3>1 DEF HandInv, DatesInHand
    <3> QED BY <1>2, <1>3, <3>2 DEF AtDates
  <2> QED BY <2>1, <2>2
<1> QED BY <1>2, <1>4, <1>5, ReportKept DEF HandInv

LEMMA HandSyncPmDates ==
    ASSUME Inv, HandInv, NEW c \in Clients, SyncPmDates(c)
    PROVE  HandInv'
<1>1. PICK v \in WorkOrders : v = request[c].wo
  BY Held DEF SyncPmDates, Steps
<1>2. /\ request[c].step = "pmDates" /\ pmDates' = [pmDates EXCEPT ![v] = TRUE]
      /\ Finish(c) /\ UNCHANGED <<report, roundCount, submitted, closed>>
      /\ pmDates \in [WorkOrders -> BOOLEAN]
  BY <1>1 DEF SyncPmDates, Inv, TypeOK
<1>3. \A d \in Clients : d # c => request'[d] = request[d]
  BY <1>2 DEF Finish, Inv, TypeOK
<1>4. SubmitInHand'
  BY <1>2, <1>3 DEF HandInv, SubmitInHand, Submits
<1>5. DatesInHand'
  <2> SUFFICES ASSUME NEW w \in Pms, closed[w], ~pmDates'[w]
               PROVE  \E d \in Clients :
                        request'[d].step = "pmDates" /\ request'[d].wo = w
    BY <1>2 DEF DatesInHand, AtDates
  <2>1. ~pmDates[w] /\ w # v
    BY <1>2, PmsAreWorkOrders
  <2>2. PICK d \in Clients : AtDates(d) /\ request[d].wo = w
    BY <2>1 DEF HandInv, DatesInHand
  <2> QED BY <1>1, <1>3, <2>1, <2>2 DEF AtDates
<1> QED BY <1>2, <1>4, <1>5, ReportKept DEF HandInv

LEMMA HandServe ==
    ASSUME Inv, PmInv, HandInv, NEW c \in Clients, Serve(c)
    PROVE  HandInv'
<1>1. CASE Reassign(c) \/ CheckIn(c) \/ CheckOut(c) \/ Refuse(c)
  <2>1. ~AtStamp(c) /\ ~AtDates(c)
    BY <1>1 DEF Reassign, CheckIn, CheckOut, Refuse, Refused, AtStamp, AtDates
  <2>2. Finish(c) /\ UNCHANGED <<report, roundCount, submitted, closed, pmDates>>
    BY <1>1 DEF Reassign, CheckIn, CheckOut, Refuse
  <2> QED BY <2>1, <2>2, ReportKept, HandFinish
<1> QED BY <1>1, HandSaveReport, HandSubmitReport, HandReadMark, HandMarkSubmitted,
           HandEscalate, HandRework, HandClosing, HandSyncPmDates DEF Serve

LEMMA HandNext == ~Disconnects /\ Inv /\ PmInv /\ HandInv /\ [Next]_vars => HandInv'
<1> SUFFICES ASSUME ~Disconnects, Inv, PmInv, HandInv, [Next]_vars PROVE HandInv'
  OBVIOUS
<1>1. ASSUME NEW w \in WorkOrders, NEW e \in Engineers, Create(w, e) PROVE HandInv'
  BY <1>1, HandInsert DEF Create
<1>2. ASSUME NEW w \in WorkOrders, SoftDelete(w) \/ Restore(w) PROVE HandInv'
  <2>1. UNCHANGED <<report, roundCount, submitted, closed, pmDates, request>>
    BY <1>2 DEF SoftDelete, Restore
  <2> QED BY <2>1, ReportKept, HandQuiet
<1>3. CASE \E w \in WorkOrders, n \in RoundNos : DeleteReport(w, n)
  BY <1>3, HandDeleteReport
<1>4. CASE \E c \in Clients, w \in WorkOrders : Accept(c, w)
  BY <1>4, HandAccept
<1>5. CASE \E c \in Clients : Serve(c)
  BY <1>5, HandServe
<1>6. \A c \in Clients : ~Disconnect(c)
  BY DEF Disconnect
<1>7. CASE UNCHANGED vars
  <2>1. UNCHANGED <<report, roundCount, submitted, closed, pmDates, request>>
    BY <1>7 DEF vars
  <2> QED BY <2>1, ReportKept, HandQuiet
<1> QED BY <1>1, <1>2, <1>3, <1>4, <1>5, <1>6, <1>7 DEF Next

\* While no request dies, every submitted PM report that is not stamped is in
\* the hand of the request that will stamp it, and every closed PM without its
\* dates in the hand of the request that will set them: no interleaving,
\* refusal, cancellation or rework loses the second commit.
THEOREM SecondCommitsInHand ==
    ~Disconnects => (Spec => [](SubmitInHand /\ DatesInHand))
<1>1. Init => Inv /\ PmInv /\ HandInv
  BY InitInv, PmInvInit, HandInit
<1>2. ~Disconnects /\ Inv /\ PmInv /\ HandInv /\ [Next]_vars => (Inv /\ PmInv /\ HandInv)'
  BY PmNext, HandNext
<1>3. HandInv => SubmitInHand /\ DatesInHand
  BY DEF HandInv
<1> SUFFICES ASSUME ~Disconnects PROVE Spec => [](SubmitInHand /\ DatesInHand)
  OBVIOUS
<1>4. Inv /\ PmInv /\ HandInv /\ [Next]_vars => (Inv /\ PmInv /\ HandInv)'
  BY <1>2
<1> QED BY <1>1, <1>3, <1>4, PTL DEF Spec
=============================================================================
