-------------------------- MODULE WorkOrderNumbers --------------------------
(***************************************************************************)
(* The numbers of work orders: {TYPE}-{panel code}-{sequence}.             *)
(*                                                                         *)
(* A create reads the panel and its code, and then, in the transaction     *)
(* that inserts the work order, counts the work orders of the panel and    *)
(* its type.  The creates of CMs hold the advisory lock of the panel from  *)
(* before the count to the commit; those of PMs hold none.  Panels are the *)
(* rows of Catalogue, and a PATCH may change a code at any time: the       *)
(* sequence belongs to the panel, the number to the code.                  *)
(*                                                                         *)
(* The format loses nothing: what follows the last dash is the sequence,   *)
(* so a number is the triple here.  A work order keeps its panel and type, *)
(* and none is ever deleted.                                               *)
(***************************************************************************)
EXTENDS Catalogue

CONSTANT Orders     \* ids of rtu.work_orders

VARIABLES
    order,      \* rtu.work_orders: the panel, and the three parts of the number
    opening     \* the creates in flight, one of each client

numberVars == <<vars, order, opening>>

OrderTypes == {"PM", "CM"}
NoOrder == [panel |-> None, type |-> None, code |-> None, seq |-> 0]
OrderRows == [panel : Panels, type : OrderTypes, code : Codes, seq : Nat \ {0}]

\* A create has read its panel, or counted and is about to insert.  crossed is
\* history: another create of the panel and type has committed since the count.
NotOpening == [at |-> "idle", panel |-> None, type |-> None, code |-> None,
               seq |-> 0, crossed |-> FALSE]
Openings == [at : {"read", "counted"}, panel : Panels, type : OrderTypes,
             code : Codes, seq : Nat, crossed : BOOLEAN]

NumberOf(r) == <<r.type, r.code, r.seq>>
Counted(c) == opening[c].at = "counted"

NumbersInit ==
    /\ Init
    /\ order = [o \in Orders |-> NoOrder]
    /\ opening = [c \in Clients |-> NotOpening]

-----------------------------------------------------------------------------
(* What a create sees and waits for *)

OrdersOf(p, type) == {o \in Orders : order[o].panel = p /\ order[o].type = type}

\* CountWorkOrdersByPanelAndType
Count(p, type) == Cardinality(OrdersOf(p, type))

NextSequence(p, type) == Count(p, type) + 1

\* LockPanelCmWrites, which the creates of CMs take.
NoCmLock(c) == TRUE
CmLockFree(c) ==
    \A d \in Clients \ {c} :
        ~(Counted(d) /\ opening[d].type = "CM" /\ opening[d].panel = opening[c].panel)

\* uk_work_orders_no
NumberFree(number) == \A o \in Orders : NumberOf(order[o]) # number

\* fk_work_orders_panel, on the insert of a work order.
PanelStays(p) == Exists(p)

-----------------------------------------------------------------------------
(* A create: WorkOrderService.Create, CreateWithFirstRound *)

ReadPanel(c, p, type) ==
    /\ opening[c] = NotOpening
    /\ row[p].state = "ACTIVE"
    /\ opening' = [opening EXCEPT ![c] =
                      [at |-> "read", panel |-> p, type |-> type,
                       code |-> row[p].code, seq |-> 0, crossed |-> FALSE]]
    /\ UNCHANGED <<vars, order>>

CountOrders(c) ==
    /\ opening[c].at = "read"
    /\ opening[c].type = "CM" => CmLockFree(c)
    /\ opening' = [opening EXCEPT
                      ![c].at = "counted",
                      ![c].seq = NextSequence(opening[c].panel, opening[c].type)]
    /\ UNCHANGED <<vars, order>>

\* The INSERT and the commit.
CreateWorkOrder(c, o) ==
    LET r == opening[c]
        overtakes(d) == Counted(d) /\ opening[d].panel = r.panel
                        /\ opening[d].type = r.type IN
    /\ Counted(c)
    /\ order[o] = NoOrder
    /\ PanelStays(r.panel)
    /\ NumberFree(NumberOf(r))
    /\ order' = [order EXCEPT ![o] = [panel |-> r.panel, type |-> r.type,
                                      code |-> r.code, seq |-> r.seq]]
    /\ opening' = [d \in Clients |->
                      IF d = c THEN NotOpening
                      ELSE IF overtakes(d) THEN [opening[d] EXCEPT !.crossed = TRUE]
                      ELSE opening[d]]
    /\ UNCHANGED vars

\* An error answer: a number that is taken, a panel that is gone, another open
\* CM on the topic, a client that has left.  Nothing is tried again.
RefuseOrder(c) ==
    /\ opening[c] # NotOpening
    /\ opening' = [opening EXCEPT ![c] = NotOpening]
    /\ UNCHANGED <<vars, order>>

\* A statement of Catalogue meanwhile.  A panel that has work orders is not
\* purged, and a new one has an id no request has read.
MasterData ==
    /\ Next
    /\ \A p \in Panels :
        /\ Exists(p) /\ ~Exists(p)' => \A o \in Orders : order[o].panel # p
        /\ ~Exists(p) /\ Exists(p)' => \A c \in Clients : opening[c].panel # p
    /\ UNCHANGED <<order, opening>>

NumbersNext ==
    \/ \E c \in Clients :
        \/ \E p \in Panels, type \in OrderTypes : ReadPanel(c, p, type)
        \/ CountOrders(c)
        \/ \E o \in Orders : CreateWorkOrder(c, o)
        \/ RefuseOrder(c)
    \/ MasterData

NumbersSpec == NumbersInit /\ [][NumbersNext]_numberVars

-----------------------------------------------------------------------------
(* Properties *)

\* Work orders and creates stay in their domains; a sequence starts at 1.
NumbersTypeOK ==
    /\ order \in [Orders -> OrderRows \union {NoOrder}]
    /\ opening \in [Clients -> Openings \union {NotOpening}]

\* The CMs of a panel are numbered 1, 2, 3, ... with no gap and none twice,
\* although the code is read before the lock is taken and may change between two
\* of them: the lock spans the count and the commit.  Two PMs that count at once
\* get one sequence, and under two codes both keep it.
CmsNumberedInOrder ==
    \A p \in Panels :
        {order[o].seq : o \in OrdersOf(p, "CM")} = 1 .. Count(p, "CM")

\* A create never meets its number on a work order of its own panel and type,
\* whatever codes the panel has had, unless it is a PM that another overtook.
OwnNumberFree ==
    \A c \in Clients :
        Counted(c) /\ (opening[c].type = "CM" \/ ~opening[c].crossed) =>
            \A o \in OrdersOf(opening[c].panel, opening[c].type) :
                NumberOf(order[o]) # NumberOf(opening[c])

\* A work order is never without its panel, which the create looks up before
\* its transaction and a purge may take in between.
OrderPanelsExist == \A o \in Orders : order[o] # NoOrder => Exists(order[o].panel)

\* What the comment of CountWorkOrdersByPanelAndType says: one more than the count
\* is the next sequence of TYPE-PANEL_CODE.  It does not hold: the number may have
\* been given to another panel, which had the code before, and then no create of
\* the panel and type gets past it.
NextNumberIsFree ==
    \A p \in Panels, type \in OrderTypes :
        Exists(p) => NumberFree(<<type, row[p].code, NextSequence(p, type)>>)
=============================================================================
