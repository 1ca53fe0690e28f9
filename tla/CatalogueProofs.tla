--------------------------- MODULE CatalogueProofs ---------------------------
(***************************************************************************)
(* Proofs about Catalogue for any rows, codes, reports and requests, and   *)
(* about WorkOrderNumbers for any panels, codes, work orders and creates.  *)
(*                                                                         *)
(* What each table promises is kept by each of its four statements,        *)
(* whatever the requests in flight have read.  The sequences of a panel's  *)
(* work orders never exceed their number, and for CMs they are all of      *)
(* 1 .. n, because a counted CM is the only one of its panel.              *)
(***************************************************************************)
EXTENDS WorkOrderNumbers, FiniteSetTheorems, TLAPS

USE DEF vars

Inv == TypeOK /\ CodesUnique /\ NamedRowsExist

-----------------------------------------------------------------------------
LEMMA Kinds ==
  /\ None \notin Ids /\ None \notin Codes /\ FewCodes \subseteq Codes
  /\ Panels \subseteq Ids /\ Devices \subseteq Ids /\ Models \subseteq Ids
  /\ Topics \subseteq Ids /\ Items \subseteq Ids /\ Engineers \subseteq Ids
  /\ Named \subseteq Ids
  /\ \A p \in Panels : p \notin Devices /\ p \notin Engineers
  /\ \A m \in Models \union Topics \union Items : m \notin Devices /\ m \notin Engineers
  /\ \A e \in Engineers : e \notin Devices
BY CatalogueAssumption DEF Ids, Named

\* Rows of one table are of one kind, so uniqueness within a kind is symmetric.
LEMMA KindIsMutual ==
  ASSUME NEW m \in Ids, NEW n \in KindOf(m)
  PROVE  n \in Ids /\ m \in KindOf(n)
<1>1. CASE m \in Panels BY <1>1, CatalogueAssumption DEF KindOf, Ids
<1>2. CASE m \in Devices BY <1>2, CatalogueAssumption DEF KindOf, Ids
<1>3. CASE m \in Models BY <1>3, CatalogueAssumption DEF KindOf, Ids
<1>4. CASE m \in Topics BY <1>4, CatalogueAssumption DEF KindOf, Ids
<1>5. CASE m \in Items BY <1>5, CatalogueAssumption DEF KindOf, Ids
<1>6. CASE m \in Engineers BY <1>6, CatalogueAssumption DEF KindOf, Ids
<1> QED BY <1>1, <1>2, <1>3, <1>4, <1>5, <1>6 DEF Ids

LEMMA InitInv == Init => Inv
<1> SUFFICES ASSUME Init PROVE Inv OBVIOUS
<1>1. \A m \in Ids : ~Exists(m) BY DEF Init, Exists
<1>2. Devices \subseteq Ids BY Kinds
<1>3. TypeOK BY <1>1 DEF Init, TypeOK
<1>4. CodesUnique BY <1>1 DEF CodesUnique
<1>5. NamedRowsExist BY <1>1, <1>2 DEF NamedRowsExist, Init
<1> QED BY <1>3, <1>4, <1>5 DEF Inv

-----------------------------------------------------------------------------
(***************************************************************************)
(* The statements every kind has                                           *)
(***************************************************************************)

\* A row of a table may become r: it has a code and a panel if its kind does.
Fits(m, r) ==
    /\ r \in Rows
    /\ r.panel # None <=> m \in Devices
    /\ m \notin Devices \union Engineers => r.code # None
    /\ m \in Devices => Exists(r.panel)

\* Insert, Update and SetActive put a row where it fits and is unique.
LEMMA PutKeepsInv ==
  ASSUME Inv, NEW m \in Ids, NEW r, Fits(m, r), Unique(m, r.code, r.panel),
         row' = [row EXCEPT ![m] = r], UNCHANGED <<report, op>>
  PROVE  Inv'
<1>r. r \in Rows /\ r # NoRow BY DEF Fits, Rows, NoRow
<1>a. /\ row \in [Ids -> Rows \union {NoRow}] /\ row' \in [Ids -> Rows \union {NoRow}]
      /\ \A n \in Ids : row'[n] = IF n = m THEN r ELSE row[n]
  BY <1>r DEF Inv, TypeOK
<1>e. \A n \in Ids : row'[n] # NoRow <=> (n = m \/ row[n] # NoRow)
  BY <1>a, <1>r
<1>1. TypeOK'
  <2>1. \A n \in Ids : row'[n] # NoRow => (row'[n].panel # None <=> n \in Devices)
    BY <1>a DEF Inv, TypeOK, Fits, Exists
  <2>2. \A n \in Ids \ (Devices \union Engineers) :
            row'[n] # NoRow => row'[n].code # None
    BY <1>a DEF Inv, TypeOK, Fits, Exists
  <2> QED BY <1>a, <2>1, <2>2 DEF Inv, TypeOK, Exists
<1>2. CodesUnique'
  <2> SUFFICES ASSUME NEW n \in Ids, NEW o \in KindOf(n) \ {n},
                      row'[n] # NoRow, row'[o] # NoRow, row'[n].code # None,
                      row'[n].panel = row'[o].panel
               PROVE  row'[n].code # row'[o].code
    BY DEF CodesUnique, Exists
  <2>1. o \in Ids /\ n \in KindOf(o) BY KindIsMutual
  <2>2. CASE n = m
    BY <2>1, <2>2, <1>a, <1>e DEF Unique, Exists
  <2>3. CASE o = m
    BY <2>1, <2>3, <1>a, <1>e DEF Unique, Exists
  <2>4. CASE n # m /\ o # m
    BY <2>1, <2>4, <1>a DEF Inv, CodesUnique, Exists
  <2> QED BY <2>2, <2>3, <2>4
<1>3. NamedRowsExist'
  <2>1. ASSUME NEW d \in Devices, row'[d] # NoRow PROVE row'[row'[d].panel] # NoRow
    <3>1. d \in Ids /\ None \notin Ids BY Kinds
    <3>2. row'[d].panel \in Panels
      <4>1. row'[d] \in Rows /\ row'[d].panel # None BY <1>1, <3>1, <2>1 DEF TypeOK, Exists
      <4> QED BY <4>1 DEF Rows
    <3>3. row[row'[d].panel] # NoRow
      BY <1>a, <3>1, <2>1 DEF Inv, NamedRowsExist, Fits, Exists
    <3> QED BY <3>2, <3>3, <1>e, Kinds
  <2>2. ASSUME NEW q \in Reports, report'[q] # None PROVE row'[report'[q]] # NoRow
    BY <2>2, <1>e, Kinds DEF Inv, NamedRowsExist, TypeOK, Exists
  <2> QED BY <2>1, <2>2 DEF NamedRowsExist, Exists
<1> QED BY <1>1, <1>2, <1>3 DEF Inv

LEMMA WriteKeepsInv ==
  ASSUME Inv, NEW m \in Ids, NEW code \in Codes \union {None},
         NEW panel \in Panels \union {None}, NEW active \in BOOLEAN,
         panel # None <=> m \in Devices, m \in Devices => Exists(panel),
         m \notin Devices \union Engineers => code # None,
         Insert(m, code, panel, active) \/ Update(m, code, panel, active)
  PROVE  Inv'
<1> DEFINE r == [state |-> IF active THEN "ACTIVE" ELSE "INACTIVE",
                 code |-> code, panel |-> panel]
<1>1. r.code = code /\ r.panel = panel /\ Fits(m, r) BY DEF Fits, Rows
<1>2. /\ row' = [row EXCEPT ![m] = r] /\ UNCHANGED <<report, op>>
      /\ Unique(m, code, panel)
  BY DEF Insert, Update
<1> HIDE DEF r
<1> QED BY <1>1, <1>2, PutKeepsInv

LEMMA SetActiveKeepsInv ==
  ASSUME Inv, NEW m \in Ids, NEW active \in BOOLEAN, SetActive(m, active)
  PROVE  Inv'
<1>a. row[m] \in Rows /\ row[m] # NoRow BY DEF SetActive, Exists, Inv, TypeOK
<1> DEFINE r == [row[m] EXCEPT !.state = IF active THEN "ACTIVE" ELSE "INACTIVE"]
<1>1. r \in Rows /\ r.code = row[m].code /\ r.panel = row[m].panel
  BY <1>a DEF Rows
<1>2. row' = [row EXCEPT ![m] = r] /\ UNCHANGED <<report, op>>
  BY DEF SetActive, Inv, TypeOK
<1> HIDE DEF r
<1>3. Fits(m, r) BY <1>a, <1>1, Kinds DEF Fits, Inv, TypeOK, NamedRowsExist, Exists
<1>4. Unique(m, r.code, r.panel)
  BY <1>a, <1>1, KindIsMutual DEF Unique, Inv, CodesUnique, Exists
<1> QED BY <1>2, <1>3, <1>4, PutKeepsInv

LEMMA DeleteKeepsInv ==
  ASSUME Inv, NEW m \in Ids, Delete(m)
  PROVE  Inv'
<1>a. /\ row' \in [Ids -> Rows \union {NoRow}]
      /\ \A n \in Ids : row'[n] = IF n = m THEN NoRow ELSE row[n]
      /\ UNCHANGED <<report, op>>
  BY DEF Delete, Inv, TypeOK
<1>1. TypeOK' BY <1>a DEF Inv, TypeOK, Exists
<1>2. CodesUnique' BY <1>a, KindIsMutual DEF Inv, CodesUnique, Exists
<1>3. NamedRowsExist'
  <2>1. ASSUME NEW d \in Devices, row'[d] # NoRow PROVE row'[row'[d].panel] # NoRow
    <3>1. d \in Ids /\ row'[d] = row[d] /\ row[d] # NoRow BY <1>a, <2>1, Kinds
    <3>2. row[d].panel # m /\ row[row[d].panel] # NoRow
      BY <3>1 DEF Delete, Unreferenced, Inv, NamedRowsExist, Exists
    <3>3. row[d] \in Rows /\ row[d].panel # None BY <3>1, <2>1 DEF Inv, TypeOK, Exists
    <3>4. row[d].panel \in Ids BY <3>3, Kinds DEF Rows
    <3> QED BY <3>1, <3>2, <3>4, <1>a
  <2>2. ASSUME NEW q \in Reports, report'[q] # None PROVE row'[report'[q]] # NoRow
    <3>1. report[q] \in Ids /\ report[q] # m /\ row[report[q]] # NoRow
      BY <1>a, <2>2, Kinds DEF Delete, Unreferenced, Inv, NamedRowsExist, TypeOK, Exists
    <3> QED BY <3>1, <1>a
  <2> QED BY <2>1, <2>2 DEF NamedRowsExist, Exists
<1> QED BY <1>1, <1>2, <1>3 DEF Inv

-----------------------------------------------------------------------------
(***************************************************************************)
(* The reports                                                             *)
(***************************************************************************)

LEMMA BeginKeepsInv ==
  ASSUME Inv, NEW c \in Clients, NEW r \in Reports, NEW m \in Named, Begin(c, r, m)
  PROVE  Inv'
<1>1. [report |-> r, names |-> m] \in Op BY DEF Op
<1>2. TypeOK' BY <1>1 DEF Begin, Inv, TypeOK, Exists
<1>3. CodesUnique' /\ NamedRowsExist'
  BY DEF Begin, Inv, CodesUnique, NamedRowsExist, Exists
<1> QED BY <1>2, <1>3 DEF Inv

\* A request that ends, and a report that then names a row or none.
LEMMA FinishKeepsInv ==
  ASSUME Inv, UNCHANGED row, report' \in [Reports -> Named \union {None}],
         \A r \in Reports : report'[r] # report[r] /\ report'[r] # None
             => Exists(report'[r]),
         op' = op \/ \E c \in Clients : op' = [op EXCEPT ![c] = Idle]
  PROVE  Inv'
<1>1. TypeOK' BY DEF Inv, TypeOK, Exists
<1>2. CodesUnique' BY DEF Inv, CodesUnique, Exists
<1>3. NamedRowsExist' BY DEF Inv, NamedRowsExist, Exists
<1> QED BY <1>1, <1>2, <1>3 DEF Inv

-----------------------------------------------------------------------------
LEMMA PanelKeepsInv == Inv /\ PanelNext => Inv'
<1> SUFFICES ASSUME Inv, PanelNext PROVE Inv' OBVIOUS
<1> PICK p \in Panels :
      \/ \E code \in Codes, active \in BOOLEAN : CreatePanel(p, code, active)
      \/ \E code \in Codes, active \in BOOLEAN : UpdatePanel(p, code, active)
      \/ \E active \in BOOLEAN : SetPanelActive(p, active)
      \/ DeletePanel(p)
  BY DEF PanelNext
<1>p. p \in Ids /\ p \notin Devices BY Kinds
<1>1. ASSUME NEW code \in Codes, NEW active \in BOOLEAN,
             CreatePanel(p, code, active) \/ UpdatePanel(p, code, active)
      PROVE  Inv'
  BY <1>1, <1>p, Kinds, WriteKeepsInv DEF CreatePanel, UpdatePanel
<1>2. ASSUME NEW active \in BOOLEAN, SetPanelActive(p, active) PROVE Inv'
  BY <1>2, <1>p, SetActiveKeepsInv DEF SetPanelActive
<1>3. CASE DeletePanel(p) BY <1>3, <1>p, DeleteKeepsInv DEF DeletePanel
<1> QED BY <1>1, <1>2, <1>3

LEMMA DeviceKeepsInv == Inv /\ DeviceNext => Inv'
<1> SUFFICES ASSUME Inv, DeviceNext PROVE Inv' OBVIOUS
<1> PICK d \in Devices :
      \/ \E tag \in FewCodes \union {None}, p \in Panels, active \in BOOLEAN :
             CreatePanelDevice(d, tag, p, active)
      \/ \E tag \in FewCodes \union {None}, p \in Panels, active \in BOOLEAN :
             UpdatePanelDevice(d, tag, p, active)
      \/ \E active \in BOOLEAN : SetPanelDeviceActive(d, active)
      \/ DeletePanelDevice(d)
  BY DEF DeviceNext
<1>d. d \in Ids BY Kinds
<1>1. ASSUME NEW tag \in FewCodes \union {None}, NEW p \in Panels, NEW active \in BOOLEAN,
             CreatePanelDevice(d, tag, p, active) \/ UpdatePanelDevice(d, tag, p, active)
      PROVE  Inv'
  <2>1. tag \in Codes \union {None} /\ p \in Panels \union {None} /\ p # None BY Kinds
  <2>2. Exists(p) /\ (Insert(d, tag, p, active) \/ Update(d, tag, p, active))
    BY <1>1 DEF CreatePanelDevice, UpdatePanelDevice, PanelKnown
  <2> QED BY <1>d, <2>1, <2>2, WriteKeepsInv
<1>2. ASSUME NEW active \in BOOLEAN, SetPanelDeviceActive(d, active) PROVE Inv'
  BY <1>2, <1>d, SetActiveKeepsInv DEF SetPanelDeviceActive
<1>3. CASE DeletePanelDevice(d) BY <1>3, <1>d, DeleteKeepsInv DEF DeletePanelDevice
<1> QED BY <1>1, <1>2, <1>3

LEMMA ModelKeepsInv == Inv /\ ModelNext => Inv'
<1> SUFFICES ASSUME Inv, ModelNext PROVE Inv' OBVIOUS
<1> PICK m \in Models :
      \/ \E code \in FewCodes, active \in BOOLEAN : CreateDeviceModel(m, code, active)
      \/ \E code \in FewCodes, active \in BOOLEAN : UpdateDeviceModel(m, code, active)
      \/ \E active \in BOOLEAN : SetDeviceModelActive(m, active)
      \/ DeleteDeviceModel(m)
  BY DEF ModelNext
<1>1. ASSUME NEW code \in FewCodes, NEW active \in BOOLEAN,
             CreateDeviceModel(m, code, active) \/ UpdateDeviceModel(m, code, active)
      PROVE  Inv'
  BY <1>1, Kinds, WriteKeepsInv DEF CreateDeviceModel, UpdateDeviceModel
<1>2. ASSUME NEW active \in BOOLEAN, SetDeviceModelActive(m, active) PROVE Inv'
  BY <1>2, Kinds, SetActiveKeepsInv DEF SetDeviceModelActive
<1>3. CASE DeleteDeviceModel(m) BY <1>3, Kinds, DeleteKeepsInv DEF DeleteDeviceModel
<1> QED BY <1>1, <1>2, <1>3

LEMMA TopicKeepsInv == Inv /\ TopicNext => Inv'
<1> SUFFICES ASSUME Inv, TopicNext PROVE Inv' OBVIOUS
<1> PICK t \in Topics :
      \/ \E code \in FewCodes, active \in BOOLEAN : CreateProblemTopic(t, code, active)
      \/ \E code \in FewCodes, active \in BOOLEAN : UpdateProblemTopic(t, code, active)
      \/ \E active \in BOOLEAN : SetProblemTopicActive(t, active)
      \/ DeleteProblemTopic(t)
  BY DEF TopicNext
<1>1. ASSUME NEW code \in FewCodes, NEW active \in BOOLEAN,
             CreateProblemTopic(t, code, active) \/ UpdateProblemTopic(t, code, active)
      PROVE  Inv'
  BY <1>1, Kinds, WriteKeepsInv DEF CreateProblemTopic, UpdateProblemTopic
<1>2. ASSUME NEW active \in BOOLEAN, SetProblemTopicActive(t, active) PROVE Inv'
  BY <1>2, Kinds, SetActiveKeepsInv DEF SetProblemTopicActive
<1>3. CASE DeleteProblemTopic(t) BY <1>3, Kinds, DeleteKeepsInv DEF DeleteProblemTopic
<1> QED BY <1>1, <1>2, <1>3

LEMMA ItemKeepsInv == Inv /\ ItemNext => Inv'
<1> SUFFICES ASSUME Inv, ItemNext PROVE Inv' OBVIOUS
<1> PICK i \in Items :
      \/ \E code \in FewCodes, active \in BOOLEAN : CreateChecklistItem(i, code, active)
      \/ \E code \in FewCodes, active \in BOOLEAN : UpdateChecklistItem(i, code, active)
      \/ \E active \in BOOLEAN : SetChecklistItemActive(i, active)
      \/ DeleteChecklistItem(i)
  BY DEF ItemNext
<1>1. ASSUME NEW code \in FewCodes, NEW active \in BOOLEAN,
             CreateChecklistItem(i, code, active) \/ UpdateChecklistItem(i, code, active)
      PROVE  Inv'
  BY <1>1, Kinds, WriteKeepsInv DEF CreateChecklistItem, UpdateChecklistItem
<1>2. ASSUME NEW active \in BOOLEAN, SetChecklistItemActive(i, active) PROVE Inv'
  BY <1>2, Kinds, SetActiveKeepsInv DEF SetChecklistItemActive
<1>3. CASE DeleteChecklistItem(i) BY <1>3, Kinds, DeleteKeepsInv DEF DeleteChecklistItem
<1> QED BY <1>1, <1>2, <1>3

LEMMA EngineerKeepsInv == Inv /\ EngineerNext => Inv'
<1> SUFFICES ASSUME Inv, EngineerNext PROVE Inv' OBVIOUS
<1> PICK e \in Engineers :
      \/ \E active \in BOOLEAN : CreateEngineer(e, active)
      \/ \E active \in BOOLEAN : UpdateEngineer(e, active)
      \/ \E active \in BOOLEAN : SetEngineerActive(e, active)
      \/ DeleteEngineer(e)
  BY DEF EngineerNext
<1>1. ASSUME NEW active \in BOOLEAN, CreateEngineer(e, active) \/ UpdateEngineer(e, active)
      PROVE  Inv'
  BY <1>1, Kinds, WriteKeepsInv DEF CreateEngineer, UpdateEngineer
<1>2. ASSUME NEW active \in BOOLEAN, SetEngineerActive(e, active) PROVE Inv'
  BY <1>2, Kinds, SetActiveKeepsInv DEF SetEngineerActive
<1>3. CASE DeleteEngineer(e) BY <1>3, Kinds, DeleteKeepsInv DEF DeleteEngineer
<1> QED BY <1>1, <1>2, <1>3

LEMMA ReportKeepsInv == Inv /\ ReportNext => Inv'
<1> SUFFICES ASSUME Inv, ReportNext PROVE Inv' OBVIOUS
<1>1. ASSUME NEW c \in Clients, NEW r \in Reports, NEW m \in Named,
             Begin(c, r, m)
      PROVE  Inv'
  BY <1>1, BeginKeepsInv
<1>2. ASSUME NEW c \in Clients, NEW r \in Reports, NEW t \in Topics, ReadTopic(c, r, t)
      PROVE  Inv'
  BY <1>1, <1>2 DEF ReadTopic, Named
<1>3. ASSUME NEW c \in Clients, NEW r \in Reports, NEW d \in Devices, ReadDevice(c, r, d)
      PROVE  Inv'
  BY <1>1, <1>3 DEF ReadDevice, Named
<1>4. ASSUME NEW c \in Clients, NEW r \in Reports, NEW i \in Items, SaveChecklist(c, r, i)
      PROVE  Inv'
  BY <1>1, <1>4, Kinds DEF SaveChecklist, Named
<1>5. ASSUME NEW c \in Clients, NEW r \in Reports, NEW e \in Engineers,
             SaveEngineer(c, r, e)
      PROVE  Inv'
  BY <1>1, <1>5, Kinds DEF SaveEngineer, Named
<1>6. ASSUME NEW c \in Clients, InsertReport(c) PROVE Inv'
  <2>1. op[c] \in Op BY <1>6 DEF InsertReport, Inv, TypeOK
  <2>2. op[c].report \in Reports /\ op[c].names \in Named BY <2>1 DEF Op
  <2>3. /\ report' \in [Reports -> Named \union {None}]
        /\ \A r \in Reports : report'[r] # report[r] => report'[r] = op[c].names
    BY <1>6, <2>2 DEF InsertReport, Inv, TypeOK
  <2>4. UNCHANGED row /\ Exists(op[c].names) /\ op' = [op EXCEPT ![c] = Idle]
    BY <1>6 DEF InsertReport
  <2> QED BY <2>3, <2>4, FinishKeepsInv
<1>7. ASSUME NEW c \in Clients, Refuse(c) PROVE Inv'
  <2>1. UNCHANGED <<row, report>> /\ op' = [op EXCEPT ![c] = Idle]
    BY <1>7 DEF Refuse
  <2>2. report' \in [Reports -> Named \union {None}] BY <2>1 DEF Inv, TypeOK
  <2> QED BY <2>1, <2>2, FinishKeepsInv
<1>8. ASSUME NEW r \in Reports, DeleteReport(r) PROVE Inv'
  <2>1. UNCHANGED <<row, op>> /\ report' \in [Reports -> Named \union {None}]
    BY <1>8 DEF DeleteReport, Inv, TypeOK
  <2>2. \A q \in Reports : report'[q] # report[q] => report'[q] = None
    BY <1>8 DEF DeleteReport, Inv, TypeOK
  <2> QED BY <2>1, <2>2, FinishKeepsInv
<1> QED BY <1>2, <1>3, <1>4, <1>5, <1>6, <1>7, <1>8 DEF ReportNext

LEMMA NextInv == Inv /\ [Next]_vars => Inv'
<1> SUFFICES ASSUME Inv, [Next]_vars PROVE Inv' OBVIOUS
<1>1. CASE Next
  BY <1>1, PanelKeepsInv, DeviceKeepsInv, ModelKeepsInv, TopicKeepsInv, ItemKeepsInv,
     EngineerKeepsInv, ReportKeepsInv DEF Next
<1>2. CASE UNCHANGED vars
  BY <1>2 DEF Inv, TypeOK, CodesUnique, NamedRowsExist, Exists
<1> QED BY <1>1, <1>2

LEMMA InvAlways == Spec => []Inv
BY InitInv, NextInv, PTL DEF Spec

\* Rows and requests stay in their domains: TypeOK.
THEOREM CatalogueTypeCorrect == Spec => []TypeOK
<1>1. Inv => TypeOK BY DEF Inv
<1> QED BY <1>1, InvAlways, PTL

\* A code names one row of its table and a tag one device of its panel: the
\* unique constraints, as every statement meets them.
THEOREM CodesStayUnique == Spec => []CodesUnique
<1>1. Inv => CodesUnique BY DEF Inv
<1> QED BY <1>1, InvAlways, PTL

\* No purge leaves a device without its panel or a report without the row it
\* names, whatever the report's request had read.
THEOREM NamedRowsStay == Spec => []NamedRowsExist
<1>1. Inv => NamedRowsExist BY DEF Inv
<1> QED BY <1>1, InvAlways, PTL

-----------------------------------------------------------------------------
(***************************************************************************)
(* The numbers of work orders                                              *)
(***************************************************************************)

OrdersFinite ==
    \A p \in Panels, type \in OrderTypes : IsFiniteSet(OrdersOf(p, type))

\* A sequence is at most the number of work orders of its panel and type.
SequencesCounted ==
    \A o \in Orders : order[o] # NoOrder =>
        order[o].seq <= Count(order[o].panel, order[o].type)

\* A create that has counted would number the next work order, unless another
\* has committed since; then its sequence is a former one.
OpeningsCounted ==
    \A c \in Clients : Counted(c) =>
        LET n == Count(opening[c].panel, opening[c].type) IN
        /\ opening[c].seq \in 1 .. n + 1
        /\ opening[c].type = "CM" \/ ~opening[c].crossed => opening[c].seq = n + 1

\* One CM of a panel at a time has counted.
OneCmCounted ==
    \A c, d \in Clients :
        /\ Counted(c) /\ opening[c].type = "CM"
        /\ Counted(d) /\ opening[d].type = "CM"
        /\ opening[c].panel = opening[d].panel
        => c = d

NumbersInv ==
    /\ NumbersTypeOK /\ OrdersFinite /\ SequencesCounted /\ OpeningsCounted
    /\ OneCmCounted /\ CmsNumberedInOrder

LEMMA NonePanel == None \notin Panels
  BY CatalogueAssumption DEF Ids

LEMMA CountIsNat ==
  ASSUME OrdersFinite, NEW p \in Panels, NEW type \in OrderTypes
  PROVE  Count(p, type) \in Nat
  BY FS_CardinalityType DEF OrdersFinite, Count

LEMMA InitNumbers == NumbersInit => NumbersInv
<1> SUFFICES ASSUME NumbersInit PROVE NumbersInv OBVIOUS
<1>1. \A p \in Panels, type \in OrderTypes : OrdersOf(p, type) = {}
  BY NonePanel DEF NumbersInit, OrdersOf, NoOrder
<1>2. \A p \in Panels, type \in OrderTypes : Count(p, type) = 0
  BY <1>1, FS_EmptySet DEF Count
<1>3. NumbersTypeOK BY DEF NumbersInit, NumbersTypeOK
<1>4. OrdersFinite BY <1>1, FS_EmptySet DEF OrdersFinite
<1>5. SequencesCounted BY DEF NumbersInit, SequencesCounted
<1>6. \A c \in Clients : ~Counted(c) BY DEF NumbersInit, Counted, NotOpening
<1>7. OpeningsCounted /\ OneCmCounted BY <1>6 DEF OpeningsCounted, OneCmCounted
<1>8. CmsNumberedInOrder
  <2> SUFFICES ASSUME NEW p \in Panels
               PROVE  {order[o].seq : o \in OrdersOf(p, "CM")} = 1 .. Count(p, "CM")
    BY DEF CmsNumberedInOrder
  <2>1. OrdersOf(p, "CM") = {} /\ Count(p, "CM") = 0 BY <1>1, <1>2 DEF OrderTypes
  <2> QED BY <2>1
<1> QED BY <1>3, <1>4, <1>5, <1>7, <1>8 DEF NumbersInv

\* A create that reads, is refused or has nothing to do with the work orders.
LEMMA OrdersUnchanged ==
  ASSUME NumbersInv, order' = order
  PROVE  /\ OrdersFinite' /\ SequencesCounted' /\ CmsNumberedInOrder'
         /\ \A p, type : Count(p, type)' = Count(p, type)
<1>1. \A p, type : OrdersOf(p, type)' = OrdersOf(p, type) BY DEF OrdersOf
<1>2. \A p, type : Count(p, type)' = Count(p, type) BY <1>1 DEF Count
<1> QED BY <1>1, <1>2 DEF NumbersInv, OrdersFinite, SequencesCounted, CmsNumberedInOrder

\* One create moves to v, which has not counted or counts now.
LEMMA OpeningMoves ==
  ASSUME NumbersInv, order' = order, NEW c \in Clients,
         NEW v \in Openings \union {NotOpening}, opening' = [opening EXCEPT ![c] = v],
         v.at = "counted" =>
             /\ v.seq = Count(v.panel, v.type) + 1
             /\ v.type = "CM" => \A d \in Clients \ {c} :
                    ~(Counted(d) /\ opening[d].type = "CM" /\ opening[d].panel = v.panel)
  PROVE  NumbersInv'
<1>a. /\ opening \in [Clients -> Openings \union {NotOpening}]
      /\ opening'[c] = v /\ \A d \in Clients \ {c} : opening'[d] = opening[d]
  BY DEF NumbersInv, NumbersTypeOK
<1>b. \A p, type : Count(p, type)' = Count(p, type) BY OrdersUnchanged
<1>1. NumbersTypeOK' BY <1>a DEF NumbersInv, NumbersTypeOK
<1>2. OpeningsCounted'
  <2> SUFFICES ASSUME NEW d \in Clients, opening'[d].at = "counted"
               PROVE  LET n == Count(opening'[d].panel, opening'[d].type) IN
                      /\ opening'[d].seq \in 1 .. n + 1
                      /\ opening'[d].type = "CM" \/ ~opening'[d].crossed
                             => opening'[d].seq = n + 1
    BY <1>b DEF OpeningsCounted, Counted
  <2>1. CASE d = c
    <3>1. v \in Openings BY <2>1, <1>a DEF NotOpening
    <3>2. Count(v.panel, v.type) \in Nat
      BY <3>1, CountIsNat DEF NumbersInv, Openings
    <3> QED BY <2>1, <3>2, <1>a
  <2>2. CASE d # c BY <2>2, <1>a DEF NumbersInv, OpeningsCounted, Counted
  <2> QED BY <2>1, <2>2
<1>3. OneCmCounted' BY <1>a DEF NumbersInv, OneCmCounted, Counted
<1> QED BY <1>1, <1>2, <1>3, OrdersUnchanged DEF NumbersInv

LEMMA ReadPanelKeeps ==
  ASSUME NumbersInv, TypeOK, NEW c \in Clients, NEW p \in Panels,
         NEW type \in OrderTypes, ReadPanel(c, p, type)
  PROVE  NumbersInv'
<1> DEFINE v == [at |-> "read", panel |-> p, type |-> type,
                 code |-> row[p].code, seq |-> 0, crossed |-> FALSE]
<1>1. row[p].code \in Codes
  <2>1. p \in Ids \ (Devices \union Engineers) BY Kinds
  <2>2. row[p] # NoRow BY DEF ReadPanel, NoRow
  <2>3. row[p] \in Rows BY <2>1, <2>2 DEF TypeOK
  <2> QED BY <2>1, <2>2, <2>3 DEF TypeOK, Exists, Rows
<1>2. v \in Openings /\ v.at # "counted" BY <1>1 DEF Openings
<1>3. opening' = [opening EXCEPT ![c] = v] /\ order' = order BY DEF ReadPanel
<1> HIDE DEF v
<1> QED BY <1>2, <1>3, OpeningMoves

LEMMA CountOrdersKeeps ==
  ASSUME NumbersInv, NEW c \in Clients, CountOrders(c)
  PROVE  NumbersInv'
<1> DEFINE r == opening[c]
           n == NextSequence(r.panel, r.type)
           s == [r EXCEPT !.at = "counted"]
           v == [s EXCEPT !.seq = n]
<1>1. r \in Openings BY DEF CountOrders, NumbersInv, NumbersTypeOK, NotOpening
<1>2. Count(r.panel, r.type) \in Nat BY <1>1, CountIsNat DEF NumbersInv, Openings
<1>3. n = Count(r.panel, r.type) + 1 /\ n \in Nat BY <1>2 DEF NextSequence
<1>4. opening' = [opening EXCEPT ![c] = v] /\ order' = order
  BY DEF CountOrders, NumbersInv, NumbersTypeOK
<1>5. r.type = "CM" => \A d \in Clients \ {c} :
          ~(Counted(d) /\ opening[d].type = "CM" /\ opening[d].panel = r.panel)
  BY DEF CountOrders, CmLockFree
<1> HIDE DEF n, r
<1>6. s \in Openings /\ s.panel = r.panel /\ s.type = r.type BY <1>1 DEF Openings
<1> HIDE DEF s
<1>7. v \in Openings /\ v.panel = r.panel /\ v.type = r.type /\ v.seq = n
  BY <1>3, <1>6 DEF Openings
<1> HIDE DEF v
<1> QED BY <1>3, <1>4, <1>5, <1>7, OpeningMoves

LEMMA RefuseKeeps ==
  ASSUME NumbersInv, NEW c \in Clients, RefuseOrder(c)
  PROVE  NumbersInv'
<1>1. opening' = [opening EXCEPT ![c] = NotOpening] /\ order' = order BY DEF RefuseOrder
<1>2. NotOpening.at # "counted" BY DEF NotOpening
<1> QED BY <1>1, <1>2, OpeningMoves

\* The work orders of a panel and type after a step.
OrdersOfNext(p, type) == {o \in Orders : order'[o].panel = p /\ order'[o].type = type}
CountNext(p, type) == Cardinality(OrdersOfNext(p, type))

\* A work order is inserted: one more of its panel and type, and no other.
LEMMA CreateCounts ==
  ASSUME NumbersInv, NEW c \in Clients, NEW o \in Orders, CreateWorkOrder(c, o),
         NEW p \in Panels, NEW type \in OrderTypes
  PROVE  /\ Count(p, type) \in Nat /\ IsFiniteSet(OrdersOfNext(p, type))
         /\ p = opening[c].panel /\ type = opening[c].type =>
               /\ OrdersOfNext(p, type) = OrdersOf(p, type) \union {o}
               /\ CountNext(p, type) = Count(p, type) + 1
         /\ ~(p = opening[c].panel /\ type = opening[c].type) =>
               /\ OrdersOfNext(p, type) = OrdersOf(p, type)
               /\ CountNext(p, type) = Count(p, type)
<1> DEFINE S == OrdersOf(p, type)
           N == OrdersOfNext(p, type)
<1>1. o \notin S BY NonePanel DEF CreateWorkOrder, OrdersOf, NoOrder
<1>2. /\ order'[o].panel = opening[c].panel /\ order'[o].type = opening[c].type
      /\ \A x \in Orders \ {o} : order'[x] = order[x]
  BY DEF CreateWorkOrder, NumbersInv, NumbersTypeOK
<1>3. /\ p = opening[c].panel /\ type = opening[c].type => N = S \union {o}
      /\ ~(p = opening[c].panel /\ type = opening[c].type) => N = S
  BY <1>1, <1>2 DEF OrdersOf, OrdersOfNext
<1>4. IsFiniteSet(S) /\ Count(p, type) \in Nat
  BY CountIsNat DEF NumbersInv, OrdersFinite
<1>5. IsFiniteSet(S \union {o}) /\ Cardinality(S \union {o}) = Cardinality(S) + 1
  BY <1>1, <1>4, FS_AddElement
<1>6. Count(p, type) = Cardinality(S) /\ CountNext(p, type) = Cardinality(N)
  BY DEF Count, CountNext
<1> HIDE DEF S, N
<1>7. IsFiniteSet(N) BY <1>3, <1>4, <1>5
<1> QED BY <1>3, <1>4, <1>5, <1>6, <1>7 DEF S, N

LEMMA CreateKeeps ==
  ASSUME NumbersInv, NEW c \in Clients, NEW o \in Orders, CreateWorkOrder(c, o)
  PROVE  NumbersInv'
<1> DEFINE r == opening[c]
           n == Count(r.panel, r.type)
<1>a. /\ r \in Openings /\ r.panel \in Panels /\ r.type \in OrderTypes /\ Counted(c)
      /\ r.code \in Codes
  <2>1. Counted(c) /\ r \in Openings
    BY DEF CreateWorkOrder, Counted, NumbersInv, NumbersTypeOK, NotOpening
  <2> QED BY <2>1 DEF Openings
<1>b. \A p \in Panels, type \in OrderTypes :
          /\ Count(p, type) \in Nat
          /\ p = r.panel /\ type = r.type => CountNext(p, type) = Count(p, type) + 1
          /\ ~(p = r.panel /\ type = r.type) => CountNext(p, type) = Count(p, type)
  BY CreateCounts
<1>c. n \in Nat /\ CountNext(r.panel, r.type) = n + 1 BY <1>a, <1>b
<1>d. /\ r.seq \in 1 .. n + 1
      /\ r.type = "CM" => r.seq = n + 1
  BY <1>a DEF NumbersInv, OpeningsCounted
<1>e. /\ order'[o] = [panel |-> r.panel, type |-> r.type, code |-> r.code, seq |-> r.seq]
      /\ \A x \in Orders \ {o} : order'[x] = order[x]
      /\ order[o] = NoOrder
  BY DEF CreateWorkOrder, NumbersInv, NumbersTypeOK
<1>f. ASSUME NEW d \in Clients, opening'[d].at = "counted"
      PROVE  /\ d # c /\ Counted(d) /\ opening[d] \in Openings
             /\ opening'[d].panel = opening[d].panel /\ opening'[d].type = opening[d].type
             /\ opening'[d].seq = opening[d].seq
             /\ ~opening'[d].crossed =>
                    ~opening[d].crossed /\ ~(opening[d].panel = r.panel /\ opening[d].type = r.type)
  <2>1. d # c BY <1>f DEF CreateWorkOrder, NotOpening
  <2>2. opening[d] \in Openings \union {NotOpening} BY DEF NumbersInv, NumbersTypeOK
  <2>3. CASE Counted(d) /\ opening[d].panel = r.panel /\ opening[d].type = r.type
    <3>1. opening'[d] = [opening[d] EXCEPT !.crossed = TRUE]
      BY <2>1, <2>3 DEF CreateWorkOrder
    <3>2. opening[d] \in Openings BY <2>2, <2>3 DEF Counted, NotOpening
    <3> QED BY <2>1, <2>3, <3>1, <3>2 DEF Openings
  <2>4. CASE ~(Counted(d) /\ opening[d].panel = r.panel /\ opening[d].type = r.type)
    <3>1. opening'[d] = opening[d] BY <2>1, <2>4 DEF CreateWorkOrder
    <3>2. Counted(d) BY <1>f, <3>1 DEF Counted
    <3>3. opening[d] \in Openings BY <2>2, <3>2 DEF Counted, NotOpening
    <3> QED BY <2>1, <2>4, <3>1, <3>2, <3>3
  <2> QED BY <2>3, <2>4
<1>1. NumbersTypeOK'
  <2>1. r.seq \in Nat \ {0} BY <1>c, <1>d
  <2>2. [panel |-> r.panel, type |-> r.type, code |-> r.code, seq |-> r.seq] \in OrderRows
    BY <2>1, <1>a DEF OrderRows
  <2>3. order' \in [Orders -> OrderRows \union {NoOrder}]
    BY <2>2 DEF CreateWorkOrder, NumbersInv, NumbersTypeOK
  <2>4. ASSUME NEW d \in Clients PROVE opening'[d] \in Openings \union {NotOpening}
    <3>1. opening'[d] \in {NotOpening, opening[d], [opening[d] EXCEPT !.crossed = TRUE]}
      BY DEF CreateWorkOrder
    <3>2. opening'[d] = [opening[d] EXCEPT !.crossed = TRUE]
            => opening[d] \in Openings \/ opening'[d] \in {NotOpening, opening[d]}
      BY DEF CreateWorkOrder, Counted, NotOpening, NumbersInv, NumbersTypeOK
    <3>3. opening[d] \in Openings => [opening[d] EXCEPT !.crossed = TRUE] \in Openings
      BY DEF Openings
    <3> QED BY <3>1, <3>2, <3>3 DEF NumbersInv, NumbersTypeOK
  <2>5. opening' = [d \in Clients |-> opening'[d]] BY DEF CreateWorkOrder
  <2> QED BY <2>3, <2>4, <2>5 DEF NumbersTypeOK
<1>2. OrdersFinite' BY CreateCounts DEF OrdersFinite, OrdersOf, OrdersOfNext
<1>3. SequencesCounted'
  <2> SUFFICES ASSUME NEW x \in Orders, order'[x] # NoOrder
               PROVE  order'[x].seq <= CountNext(order'[x].panel, order'[x].type)
    BY DEF SequencesCounted, Count, CountNext, OrdersOf, OrdersOfNext
  <2>1. CASE x = o BY <2>1, <1>c, <1>d, <1>e
  <2>2. CASE x # o
    <3>1. order[x] \in OrderRows BY <2>2, <1>e DEF NumbersInv, NumbersTypeOK
    <3>2. /\ order[x].panel \in Panels /\ order[x].type \in OrderTypes
          /\ order[x].seq \in Nat
      BY <3>1 DEF OrderRows
    <3>3. order[x].seq <= Count(order[x].panel, order[x].type)
      BY <2>2, <1>e DEF NumbersInv, SequencesCounted
    <3> QED BY <2>2, <1>b, <1>e, <3>2, <3>3
  <2> QED BY <2>1, <2>2
<1>4. OpeningsCounted'
  <2> SUFFICES ASSUME NEW d \in Clients, opening'[d].at = "counted"
               PROVE  LET n1 == CountNext(opening'[d].panel, opening'[d].type) IN
                      /\ opening'[d].seq \in 1 .. n1 + 1
                      /\ opening'[d].type = "CM" \/ ~opening'[d].crossed
                             => opening'[d].seq = n1 + 1
    BY DEF OpeningsCounted, Counted, Count, CountNext, OrdersOf, OrdersOfNext
  <2> DEFINE k == Count(opening[d].panel, opening[d].type)
  <2>1. /\ opening[d].panel \in Panels /\ opening[d].type \in OrderTypes
        /\ opening[d].seq \in Nat
    BY <1>f DEF Openings
  <2>2. /\ k \in Nat /\ opening[d].seq \in 1 .. k + 1
        /\ opening[d].type = "CM" \/ ~opening[d].crossed => opening[d].seq = k + 1
    BY <1>f, <2>1, <1>b DEF NumbersInv, OpeningsCounted
  <2>3. ~(opening[d].type = "CM" /\ r.type = "CM" /\ opening[d].panel = r.panel)
    BY <1>a, <1>f DEF NumbersInv, OneCmCounted
  <2>4. /\ opening[d].panel = r.panel /\ opening[d].type = r.type
                => CountNext(opening[d].panel, opening[d].type) = k + 1
        /\ ~(opening[d].panel = r.panel /\ opening[d].type = r.type)
                => CountNext(opening[d].panel, opening[d].type) = k
    BY <2>1, <1>b
  <2> HIDE DEF k
  <2>5. CASE opening[d].panel = r.panel /\ opening[d].type = r.type
    BY <1>f, <2>1, <2>2, <2>3, <2>4, <2>5
  <2>6. CASE ~(opening[d].panel = r.panel /\ opening[d].type = r.type)
    BY <1>f, <2>1, <2>2, <2>4, <2>6
  <2> QED BY <2>5, <2>6
<1>5. OneCmCounted' BY <1>f DEF NumbersInv, OneCmCounted, Counted
<1>6. CmsNumberedInOrder'
  <2> SUFFICES ASSUME NEW p \in Panels
               PROVE  {order'[x].seq : x \in OrdersOfNext(p, "CM")} = 1 .. CountNext(p, "CM")
    BY DEF CmsNumberedInOrder, Count, CountNext, OrdersOf, OrdersOfNext
  <2> DEFINE S == OrdersOf(p, "CM")
             k == Count(p, "CM")
  <2>1. {order[x].seq : x \in S} = 1 .. k BY DEF NumbersInv, CmsNumberedInOrder
  <2>2. o \notin S /\ S \subseteq Orders BY <1>e, NonePanel DEF OrdersOf, NoOrder
  <2>3. {order'[x].seq : x \in S} = 1 .. k BY <2>1, <2>2, <1>e
  <2>4. "CM" \in OrderTypes BY DEF OrderTypes
  <2>5. CASE p = r.panel /\ r.type = "CM"
    <3>1. OrdersOfNext(p, "CM") = S \union {o} /\ CountNext(p, "CM") = k + 1 /\ k \in Nat
      BY <2>4, <2>5, CreateCounts
    <3>2. order'[o].seq = k + 1 BY <1>d, <1>e, <2>5
    <3> HIDE DEF S, k
    <3>3. {order'[x].seq : x \in S \union {o}} = (1 .. k) \union {k + 1}
      BY <2>3, <3>2
    <3> QED BY <3>1, <3>3
  <2>6. CASE ~(p = r.panel /\ r.type = "CM")
    <3>1. OrdersOfNext(p, "CM") = S /\ CountNext(p, "CM") = k
      BY <2>4, <2>6, CreateCounts
    <3> QED BY <2>3, <3>1
  <2> QED BY <2>5, <2>6
<1> QED BY <1>1, <1>2, <1>3, <1>4, <1>5, <1>6 DEF NumbersInv

\* Master data change: the work orders stay, and so do the panels they are for.
LEMMA MasterDataKeeps ==
  ASSUME Inv, NumbersInv, OrderPanelsExist, MasterData
  PROVE  Inv' /\ NumbersInv' /\ OrderPanelsExist'
<1>1. order' = order /\ opening' = opening BY DEF MasterData
<1>2. Inv' BY NextInv DEF MasterData
<1>3. NumbersInv'
  BY <1>1, OrdersUnchanged
     DEF NumbersInv, NumbersTypeOK, OpeningsCounted, OneCmCounted, Counted
<1>4. ASSUME NEW o \in Orders, order[o] # NoOrder PROVE row'[order[o].panel] # NoRow
  <2>1. order[o].panel \in Panels
    BY <1>4 DEF NumbersInv, NumbersTypeOK, OrderRows
  <2>2. row[order[o].panel] # NoRow BY <1>4 DEF OrderPanelsExist, Exists
  <2> QED BY <2>1, <2>2 DEF MasterData, Exists
<1>5. OrderPanelsExist' BY <1>1, <1>4 DEF OrderPanelsExist, Exists
<1> QED BY <1>2, <1>3, <1>5

All == Inv /\ NumbersInv /\ OrderPanelsExist

LEMMA NextAll == All /\ [NumbersNext]_numberVars => All'
<1> SUFFICES ASSUME All, [NumbersNext]_numberVars PROVE All'
  OBVIOUS
<1>a. Inv /\ TypeOK /\ NumbersInv /\ OrderPanelsExist BY DEF All, Inv
<1>u. UNCHANGED vars => Inv'
  BY <1>a DEF Inv, TypeOK, CodesUnique, NamedRowsExist, Exists
<1>o. UNCHANGED <<vars, order>> => OrderPanelsExist' BY <1>a DEF OrderPanelsExist, Exists
<1>1. ASSUME NEW c \in Clients, NEW p \in Panels, NEW type \in OrderTypes,
             ReadPanel(c, p, type)
      PROVE  All'
  BY <1>1, <1>a, <1>u, <1>o, ReadPanelKeeps DEF ReadPanel, All
<1>2. ASSUME NEW c \in Clients, CountOrders(c) PROVE All'
  BY <1>2, <1>a, <1>u, <1>o, CountOrdersKeeps DEF CountOrders, All
<1>3. ASSUME NEW c \in Clients, NEW o \in Orders, CreateWorkOrder(c, o) PROVE All'
  <2>1. /\ order'[o].panel = opening[c].panel
        /\ \A x \in Orders \ {o} : order'[x] = order[x]
    BY <1>3, <1>a DEF CreateWorkOrder, NumbersInv, NumbersTypeOK
  <2>2. UNCHANGED vars /\ Exists(opening[c].panel)
    BY <1>3 DEF CreateWorkOrder, PanelStays
  <2>3. OrderPanelsExist' BY <2>1, <2>2, <1>a DEF OrderPanelsExist, Exists
  <2> QED BY <1>3, <1>a, <1>u, <2>2, <2>3, CreateKeeps DEF All
<1>4. ASSUME NEW c \in Clients, RefuseOrder(c) PROVE All'
  BY <1>4, <1>a, <1>u, <1>o, RefuseKeeps DEF RefuseOrder, All
<1>5. CASE MasterData BY <1>5, <1>a, MasterDataKeeps DEF All
<1>6. CASE UNCHANGED numberVars
  <2>1. UNCHANGED <<vars, order, opening>> BY <1>6 DEF numberVars
  <2>2. NumbersInv'
    BY <2>1, <1>a, OrdersUnchanged
       DEF NumbersInv, NumbersTypeOK, OpeningsCounted, OneCmCounted, Counted
  <2> QED BY <2>1, <2>2, <1>a, <1>u, <1>o DEF All
<1> QED BY <1>1, <1>2, <1>3, <1>4, <1>5, <1>6 DEF NumbersNext

LEMMA AllAlways == NumbersSpec => []All
<1>1. NumbersInit => All
  <2> SUFFICES ASSUME NumbersInit PROVE All OBVIOUS
  <2>1. Inv BY InitInv DEF NumbersInit
  <2>2. OrderPanelsExist BY DEF NumbersInit, OrderPanelsExist
  <2> QED BY <2>1, <2>2, InitNumbers DEF All
<1> QED BY <1>1, NextAll, PTL DEF NumbersSpec

\* Work orders and creates stay in their domains: NumbersTypeOK.
THEOREM NumbersTypeCorrect == NumbersSpec => []NumbersTypeOK
<1>1. All => NumbersTypeOK BY DEF All, NumbersInv
<1> QED BY <1>1, AllAlways, PTL

\* The CMs of a panel are numbered 1 .. n, for any number of creates and whatever
\* PATCHes change its code: CountWorkOrdersByPanelAndType runs under the lock.
THEOREM CmsStayNumbered == NumbersSpec => []CmsNumberedInOrder
<1>1. All => CmsNumberedInOrder BY DEF All, NumbersInv
<1> QED BY <1>1, AllAlways, PTL

\* A create meets its number on no work order of its own panel and type, unless
\* it is a PM that another overtook: no sequence exceeds the count.
THEOREM OwnNumbersStayFree == NumbersSpec => []OwnNumberFree
<1>1. All => OwnNumberFree
  <2> SUFFICES ASSUME All, NEW c \in Clients, Counted(c),
                      opening[c].type = "CM" \/ ~opening[c].crossed,
                      NEW o \in OrdersOf(opening[c].panel, opening[c].type)
               PROVE  NumberOf(order[o]) # NumberOf(opening[c])
    BY DEF OwnNumberFree
  <2>1. opening[c] \in Openings
    BY DEF All, NumbersInv, NumbersTypeOK, Counted, NotOpening
  <2>2. opening[c].panel \in Panels /\ opening[c].type \in OrderTypes
    BY <2>1 DEF Openings
  <2> DEFINE n == Count(opening[c].panel, opening[c].type)
  <2>3. n \in Nat BY <2>2, CountIsNat DEF All, NumbersInv
  <2>4. opening[c].seq = n + 1 BY DEF All, NumbersInv, OpeningsCounted
  <2>5. o \in Orders /\ order[o] # NoOrder /\ order[o].seq <= n
    BY <2>2, NonePanel DEF OrdersOf, NoOrder, All, NumbersInv, SequencesCounted
  <2>6. order[o].seq \in Nat
    BY <2>5 DEF All, NumbersInv, NumbersTypeOK, OrderRows
  <2> HIDE DEF n
  <2>7. order[o].seq # opening[c].seq BY <2>3, <2>4, <2>5, <2>6
  <2> QED BY <2>7 DEF NumberOf
<1> QED BY <1>1, AllAlways, PTL

\* No work order loses its panel: fk_work_orders_panel, against a purge between
\* the look-up of a create and its insert.
THEOREM OrderPanelsStay == NumbersSpec => []OrderPanelsExist
<1>1. All => OrderPanelsExist BY DEF All
<1> QED BY <1>1, AllAlways, PTL
=============================================================================
