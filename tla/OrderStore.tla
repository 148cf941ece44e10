----------------------------- MODULE OrderStore -----------------------------
(***************************************************************************)
(* The rows of the PostgreSQL database that the order and payment handlers *)
(* share (orders, products, revenues, payments, payment_events), the state *)
(* of the eSewa gateway as far as its status check shows it, and the       *)
(* requests in flight.  The component modules EXTEND this one and add the  *)
(* handlers.                                                               *)
(*                                                                         *)
(* A request is a worker with a job record: what the handler has read so   *)
(* far and where it is.  One action is one transaction or one statement    *)
(* outside a transaction; other requests run between two actions of a job. *)
(***************************************************************************)
EXTENDS Integers, FiniteSets

CONSTANTS
    Orders,       \* order rows, all created by earlier checkouts
    Products,     \* product rows
    Workers,      \* concurrent requests the server runs
    MaxPayments,  \* bound: payment rows that checkouts may insert
    ProductOf,    \* orders.productId
    GroupOf,      \* the orders of the same orderGroupId, {o} without a group
    Quantity,     \* orders.quantity, fixed at checkout
    InitialStock, \* products.quantity when the behaviour starts
    None

ASSUME StoreAssumption ==
    /\ MaxPayments \in Nat
    /\ IsFiniteSet(Orders)
    /\ ProductOf \in [Orders -> Products]
    /\ GroupOf \in [Orders -> SUBSET Orders]
    /\ \A o \in Orders : o \in GroupOf[o]
    /\ \A o \in Orders : \A q \in GroupOf[o] : GroupOf[q] = GroupOf[o]
    /\ Quantity \in [Orders -> Nat \ {0}]
    /\ InitialStock \in [Products -> Nat]

VARIABLES
    status,     \* orders.status
    stock,      \* products.quantity
    revenue,    \* status of the order's first revenue row, "none" without one
    payOrder,   \* payments.orderId
    payStatus,  \* payments.status
    gateway,    \* what eSewa's status check answers for the payment
    events,     \* payment_events.gatewayEventId, a payment and a gateway status
    jobs,       \* the requests in flight
    forced      \* history: orders an admin pushed past the payment gate

orderVars == <<status, stock, revenue>>
payVars == <<payOrder, payStatus, gateway, events>>
vars == <<status, stock, revenue, payOrder, payStatus, gateway, events,
          jobs, forced>>

-----------------------------------------------------------------------------
(* Types *)

\* Payments are numbered in the order of their createdAt.
Payments == 1..MaxPayments

\* The lifecycle statuses, the transient "Confirming" of confirmOrderCore, and
\* "Deleted" for a row that is gone.
Statuses == {"Pending", "Confirming", "Confirmed", "Processing", "Shipped",
             "Delivered", "Cancelled", "Return Requested", "Return Approved",
             "Return Rejected", "Refund Released", "Deleted"}

PaymentStatuses == {"absent", "Initiated", "Succeeded", "Failed"}

\* The code tells COMPLETE from everything else; PENDING is an answer after
\* which the customer can still pay, CANCELED one after which it cannot.
GatewayStatuses == {"PENDING", "COMPLETE", "CANCELED"}

RevenueStatuses == {"none", "Pending", "Completed", "Refunded"}

Steps == {"idle", "checkout", "check", "confirm", "loop", "publish",
          "reread", "stage", "edit", "return", "delete",
          "refund", "settle"}

Job == [pc   : Steps,
        o    : Orders \cup {None},            \* the order of the request
        p    : Payments \cup {None},          \* the payment of the request
        st   : Statuses \cup {None},          \* a status read, or to be written
        gw   : GatewayStatuses \cup {None},   \* the gateway's answer
        cont : {"idle", "publish", "reread"}, \* where confirmOrderCore returns
        todo : SUBSET Orders,                 \* orders still to confirm
        any  : BOOLEAN]                       \* some order was confirmed

NoJob == [pc |-> "idle", o |-> None, p |-> None, st |-> None, gw |-> None,
          cont |-> "idle", todo |-> {}, any |-> FALSE]

TypeOK ==
    /\ status \in [Orders -> Statuses]
    /\ stock \in [Products -> Nat]
    /\ revenue \in [Orders -> RevenueStatuses]
    /\ payOrder \in [Payments -> Orders \cup {None}]
    /\ payStatus \in [Payments -> PaymentStatuses]
    /\ gateway \in [Payments -> GatewayStatuses \cup {"none"}]
    /\ events \in SUBSET (Payments \X GatewayStatuses)
    /\ jobs \in [Workers -> Job]
    /\ forced \in SUBSET Orders

\* Orders just created by checkout: Pending, not charged, and with a revenue
\* row unless its best-effort insert failed.
Init ==
    /\ status = [o \in Orders |-> "Pending"]
    /\ stock = InitialStock
    /\ revenue \in [Orders -> {"none", "Pending"}]
    /\ payOrder = [p \in Payments |-> None]
    /\ payStatus = [p \in Payments |-> "absent"]
    /\ gateway = [p \in Payments |-> "none"]
    /\ events = {}
    /\ jobs = [w \in Workers |-> NoJob]
    /\ forced = {}

-----------------------------------------------------------------------------
(* Shared state formulae *)

\* The job record of a worker replaced.
SetJob(w, job) == jobs' = [jobs EXCEPT ![w] = job]

Idle(w) == jobs[w].pc = "idle"

PaymentsOf(o) == {p \in Payments : payOrder[p] = o}

\* The payments a request about order o can find: those of its group.
GroupPayments(o) == {p \in Payments : payOrder[p] \in GroupOf[o]}

\* Bound: a checkout that finds no open intent starts only while payment numbers
\* are left for it and for the checkouts in flight.
PaymentsLeft ==
    Cardinality({p \in Payments : payStatus[p] = "absent"})
      > Cardinality({w \in Workers : jobs[w].pc = "checkout"})

OpenIntents(o) == {p \in PaymentsOf(o) : payStatus[p] = "Initiated"}

\* eSewa took the customer's money for the checkout that o belongs to.
Charged(o) == \E p \in GroupPayments(o) : gateway[p] = "COMPLETE"

\* What entitles order o to be confirmed.
Backed(o) == o \in forced \/ Charged(o)

\* Statuses under which the order's units are off the shelf.
HoldsStock == {"Confirmed", "Processing", "Shipped", "Delivered",
               "Return Requested", "Return Rejected"}

\* Statuses an order only has after confirmOrderCore confirmed it.
PastConfirmation == HoldsStock \cup {"Return Approved"}

\* adjustStock with sign = 1, inside the caller's transaction.
Restore(o) ==
    stock' = [stock EXCEPT ![ProductOf[o]] = @ + Quantity[o]]

\* Mutant of CanDeduct: the decrement is not conditional on the quantity.
CanDeductUnchecked(o) == Quantity[o] > 0

\* adjustStock with sign = -1: a conditional update, null (FALSE) on 0 rows.
CanDeduct(o) == stock[ProductOf[o]] >= Quantity[o]
Deduct(o) ==
    stock' = [stock EXCEPT ![ProductOf[o]] = @ - Quantity[o]]

\* The units of product pr that orders hold, one element for each unit.
HeldUnits(pr) ==
    UNION {{o} \X (1..Quantity[o]) :
             o \in {q \in Orders : ProductOf[q] = pr /\ status[q] \in HoldsStock}}
=============================================================================
