---------------------------- MODULE MCRefunds ------------------------------
(***************************************************************************)
(* Refunds on one order of one unit, the last of its product: from the     *)
(* order's creation, and, with a reader, from its confirmation on.  Before *)
(* that there is nothing to be read: no refund, and no completed sale.     *)
(***************************************************************************)
EXTENDS Summaries, TLC

CONSTANTS item

MCProductOf == [o \in Orders |-> item]
MCGroupOf == [o \in Orders |-> Orders]
MCQuantity == [o \in Orders |-> 1]
MCInitialStock == [q \in Products |-> 1]

VARIABLE read   \* whether there is a reader in this behaviour

\* The order was paid for and confirmed; an admin's edit, decided before, may be
\* about to write Pending.
ConfirmedInit ==
    /\ status = [o \in Orders |-> "Confirmed"]
    /\ stock = [q \in Products |-> 0]
    /\ revenue = [o \in Orders |-> "Completed"]
    /\ payOrder = [p \in Payments |-> CHOOSE o \in Orders : TRUE]
    /\ payStatus = [p \in Payments |-> "Succeeded"]
    /\ gateway = [p \in Payments |-> "COMPLETE"]
    /\ events = {<<p, "COMPLETE">> : p \in Payments}
    /\ \E o \in Orders, editors \in SUBSET Workers :
          /\ Cardinality(editors) <= 1
          /\ jobs = [w \in Workers |-> IF w \in editors
                                     THEN [NoJob EXCEPT !.pc = "edit", !.o = o, !.st = "Pending"]
                                     ELSE NoJob]
    /\ forced = {}
    /\ refund = [p \in Payments |-> "none"]
    /\ payouts = [p \in Payments |-> 0]

MCInit == /\ read \in BOOLEAN
          /\ reopened = {} /\ reader = NoReader
          /\ IF read THEN ConfirmedInit ELSE RefundInit
\* Bounds: pages are opened on released orders, those ReadsCoherent speaks of, and
\* beside a reader there is one request at a time, and an edit decided before.
MCNext == /\ IF read THEN SummaryNext ELSE RefundsNext /\ UNCHANGED summaryVars
          /\ reader'.page \in {"sale", "payment"} => reader'.released
          /\ read => Cardinality({w \in Workers : jobs'[w].pc \notin {"idle", "edit"}}) <= 1
          /\ UNCHANGED read
MCSpec == MCInit /\ [][MCNext]_<<allVars, summaryVars, read>>

\* Requests are interchangeable.
Symmetry == Permutations(Workers)
=============================================================================
