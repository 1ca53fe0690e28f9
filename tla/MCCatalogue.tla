---------------------------- MODULE MCCatalogue ----------------------------
(***************************************************************************)
(* A small instance of Catalogue and WorkOrderNumbers for TLC.             *)
(***************************************************************************)
EXTENDS WorkOrderNumbers, TLC

CONSTANTS p1, p2, d1, d2, m1, t1, i1, e1, x, y, r1, o1, o2, a, b

Symmetry ==
    Permutations(Devices) \union Permutations(Panels)
    \union Permutations(Orders) \union Permutations(Clients)

\* Bound: the panels are all that the numbers of work orders and the rest of the
\* master data share, so either there are no work orders, nor a create in flight,
\* or there is nothing but panels.
NoWorkOrders == order = [o \in Orders |-> NoOrder] /\ opening = [c \in Clients |-> NotOpening]
OnlyPanels == (\A m \in Ids \ Panels : ~Exists(m)) /\ op = [c \in Clients |-> Idle]
OneHalf == NoWorkOrders \/ OnlyPanels
=============================================================================
