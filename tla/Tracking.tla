------------------------------ MODULE Tracking ------------------------------
(***************************************************************************)
(* The journey of one order: the dates its row records for the stages, and *)
(* what its readers make of them, the two timelines, the support draft,    *)
(* the admin's queues and the rules on who may ask for a return.  How the  *)
(* status moves is Fulfilment's subject; here each write carries its dates *)
(* with it, decided like the status on an earlier read.                    *)
(***************************************************************************)
EXTENDS Integers, FiniteSets

CONSTANTS
    Clerks,       \* requests that decide on a read and write later
    MaxDay,       \* bound: days that pass
    ReturnDays,   \* the window for returns, 7 days in requestReturn
    PolicyDays,   \* the window that the approved policy answer names
    QueueDays,    \* the window of the queues, 90 days
    Never

VARIABLES
    at,           \* orders.status
    stamp,        \* confirmedAt, processingAt, shippedAt, deliveredAt
    asked,        \* returnRequestedAt
    failed,       \* the order has a refund that failed
    due,          \* deliveryDate, as promised at checkout
    promised,     \* history: what it was when the order was last Pending
    today,        \* the date; the order was created on day 0
    pending,      \* the writes decided and not yet made
    overlapped,   \* history: a write was made over another state than was read
    edited        \* history: updateOrder moved the status, which dates nothing

trackVars == <<at, stamp, asked, failed, due, promised, today, pending, overlapped, edited>>

-----------------------------------------------------------------------------
(* Types *)

Days == 0..MaxDay

\* DELIVERY_STAGES, in their order.
StageOrder == <<"Confirmed", "Processing", "Shipped", "Delivered">>
StageNames == {StageOrder[i] : i \in 1..4}
IndexOf(s) == IF s \in StageNames THEN CHOOSE i \in 1..4 : StageOrder[i] = s ELSE 0

ReturnStatuses == {"Return Requested", "Return Approved", "Return Rejected"}

\* The statuses an order is stored with; "Confirming" stays behind when there is
\* no stock for it.
JourneyStatuses == StageNames \cup ReturnStatuses
                   \cup {"Pending", "Confirming", "Cancelled", "Refund Released"}

\* A write: the status and the delivery date, if it has them, the dates it sets,
\* whether it records a return, and the row it was decided on.
Dates == [1..4 -> Days \cup {Never}]
LateData == [to : JourneyStatuses \cup {Never}, due : Days \cup {Never},
             sets : SUBSET (1..4), dates : Dates, asks : BOOLEAN,
             seen : JourneyStatuses \X Dates]

ASSUME TrackingAssumption ==
    /\ MaxDay \in Nat /\ ReturnDays \in Nat /\ PolicyDays \in Nat /\ QueueDays \in Nat
    /\ Never \notin Int /\ Never \notin JourneyStatuses /\ Never \notin LateData

TrackTypeOK ==
    /\ at \in JourneyStatuses
    /\ stamp \in Dates
    /\ asked \in Days \cup {Never}
    /\ failed \in BOOLEAN
    /\ due \in Days /\ promised \in Days /\ today \in Days
    /\ pending \in [Clerks -> LateData \cup {Never}]
    /\ overlapped \in BOOLEAN /\ edited \in BOOLEAN

TrackInit ==
    /\ at = "Pending"
    /\ stamp = [i \in 1..4 |-> Never]
    /\ asked = Never /\ failed = FALSE
    /\ due \in Days /\ promised = due /\ today = 0
    /\ pending = [k \in Clerks |-> Never]
    /\ overlapped = FALSE /\ edited = FALSE

-----------------------------------------------------------------------------
(* Writing *)

\* A date that is there stays: order[field] || new Date().
Dated(i) == IF stamp[i] = Never THEN today ELSE stamp[i]

Tomorrow ==
    /\ today < MaxDay /\ today' = today + 1
    /\ UNCHANGED <<at, stamp, asked, failed, due, promised, pending, overlapped, edited>>

\* confirmOrderCore: the claim, and with stock the status and its date.
ConfirmDated ==
    /\ at = "Pending"
    /\ \/ at' = "Confirmed" /\ stamp' = [stamp EXCEPT ![1] = Dated(1)]
       \/ at' = "Confirming" /\ UNCHANGED stamp
    /\ UNCHANGED <<asked, failed, due, promised, today, pending, overlapped, edited>>

\* A handler has read the order and decided on a write.  Bound: none does after
\* a write went over another, as nothing is said of the dates from then on.
Late(k, to, date, sets, dates, asks) ==
    /\ pending[k] = Never /\ ~overlapped
    /\ pending' = [pending EXCEPT ![k] =
                     [to |-> to, due |-> date, sets |-> sets, dates |-> dates,
                      asks |-> asks, seen |-> <<at, stamp>>]]
    /\ UNCHANGED <<at, stamp, asked, failed, due, promised, today, overlapped, edited>>

\* updateSellerOrderStatus by a seller: the next stage and its date.
SellerReads(k) ==
    LET next == IndexOf(at) + 1 IN
    /\ at \in StageNames /\ next <= 4
    /\ Late(k, StageOrder[next], Never, {next}, [stamp EXCEPT ![next] = Dated(next)], FALSE)

\* Mutant of OverrideDates: a step back leaves the later dates.
OverrideDatesKept(target) ==
    [i \in 1..4 |-> IF i <= target THEN Dated(i) ELSE stamp[i]]

\* The stages up to the one chosen are dated, the later ones lose their dates.
OverrideDates(target) ==
    [i \in 1..4 |-> IF i <= target THEN Dated(i) ELSE Never]

\* updateSellerOrderStatus by an admin: any stage.
AdminReads(k, target) ==
    /\ at \in StageNames
    /\ Late(k, StageOrder[target], Never, 1..4, OverrideDates(target), FALSE)

\* updateOrder: the status, by ORDER_STATUS_TRANSITIONS, and the delivery date,
\* of which another one is taken while the order is Pending and the one that was
\* read is written back in any case.
EditReads(k, to, date) ==
    /\ \/ to = at
       \/ to = "Cancelled" /\ at \in {"Pending", "Confirmed"}
       \/ at \in StageNames /\ IndexOf(to) = IndexOf(at) + 1
    /\ date # due => at = "Pending"
    /\ Late(k, to, date, {}, stamp, FALSE)

\* Mutant of UserUpdateReads: the status is not asked for.
UserUpdateAnytime(k, date) == Late(k, Never, date, {}, stamp, FALSE)

\* userUpdateOrder: the customer's own, while the order is Pending.
UserUpdateReads(k, date) ==
    /\ at = "Pending"
    /\ Late(k, Never, date, {}, stamp, FALSE)

\* Days since the date that requestReturn goes by.
SinceDelivery == today - (IF stamp[4] = Never THEN due ELSE stamp[4])

\* requestReturn's conditions.
MayRequestReturn == at = "Delivered" /\ SinceDelivery <= ReturnDays

RequestReads(k) ==
    /\ MayRequestReturn
    /\ Late(k, "Return Requested", Never, {}, stamp, TRUE)

\* isOrderReturnEligible, when a return is proposed and again when it is
\* executed.
IsOrderReturnEligible ==
    at = "Delivered" /\ asked = Never /\ stamp[4] # Never /\ today - stamp[4] <= PolicyDays

ExecuteReads(k) ==
    /\ IsOrderReturnEligible
    /\ Late(k, "Return Requested", Never, {}, stamp, TRUE)

\* The write by primary key.
LateWrite(k) ==
    LET late == pending[k] IN
    /\ late # Never
    /\ at' = IF late.to = Never THEN at ELSE late.to
    /\ due' = IF late.due = Never THEN due ELSE late.due
    /\ promised' = IF at' = "Pending" THEN due' ELSE promised
    /\ stamp' = [i \in 1..4 |-> IF i \in late.sets THEN late.dates[i] ELSE stamp[i]]
    /\ asked' = IF late.asks THEN today ELSE asked
    /\ overlapped' = (overlapped \/ <<at, stamp>> # late.seen)
    /\ edited' = (edited \/ (late.sets = {} /\ ~late.asks /\ late.to \notin {Never, late.seen[1]}))
    /\ pending' = [pending EXCEPT ![k] = Never]
    /\ UNCHANGED <<failed, today>>

\* An executed sale.advance_fulfillment: the row must be the one that was read.
ApplyFulfillmentTransition ==
    LET next == IndexOf(at) + 1 IN
    /\ at \in StageNames /\ next <= 4
    /\ at' = StageOrder[next] /\ stamp' = [stamp EXCEPT ![next] = Dated(next)]
    /\ UNCHANGED <<asked, failed, due, promised, today, pending, overlapped, edited>>

\* cancelOrderCore and an executed order.cancel.
CancelDated ==
    /\ at \in {"Pending", "Confirmed"}
    /\ at' = "Cancelled"
    /\ UNCHANGED <<stamp, asked, failed, due, promised, today, pending, overlapped, edited>>

\* processReturn.
DecideReturn ==
    /\ at = "Return Requested"
    /\ at' \in {"Return Approved", "Return Rejected"}
    /\ UNCHANGED <<stamp, asked, failed, due, promised, today, pending, overlapped, edited>>

\* processRefundCore settles; with success the order is released.
Settle ==
    /\ at \in {"Return Approved", "Cancelled"}
    /\ \/ at' = "Refund Released" /\ failed' = FALSE
       \/ at' = at /\ failed' = TRUE
    /\ UNCHANGED <<stamp, asked, due, promised, today, pending, overlapped, edited>>

-----------------------------------------------------------------------------
(* Reading *)

\* trackOrder and the assistant's trackMyOrder: a step after "Order Placed" is
\* done by its date or by the status.
Done(i) == stamp[i] # Never \/ IndexOf(at) >= i
StepsDone == {i \in 1..4 : Done(i)}

\* The TrackOrder page: "Current" goes to the last step that is done, 0 being
\* "Order Placed"; a closed or returned order has a notice in place of the steps.
ShowsTimeline == at \notin ReturnStatuses \cup {"Cancelled", "Refund Released"}
ActiveStep == CHOOSE i \in StepsDone \cup {0} : \A j \in StepsDone : j <= i

\* What the page says under a step.
StepText(i) ==
    CASE stamp[i] # Never -> "dated"
      [] stamp[i] = Never /\ Done(i) -> "Completed"
      [] OTHER -> "Pending"

\* The support draft's delivery stage: the latest with a date, or "unknown".
DeliveryStage ==
    LET dated == {i \in 1..4 : stamp[i] # Never}
    IN IF dated = {} THEN 0 ELSE CHOOSE i \in dated : \A j \in dated : j <= i

\* The statuses of the exception queue.
ExceptionStatuses == ReturnStatuses \cup {"Refund Released"}

\* The rolling window of both queues, by the day the order was created.
InWindow == today <= QueueDays

\* listReturnQueue, findReturnQueueOrder and the draft made from it.
InReturnQueue == at \in ReturnStatuses /\ asked # Never /\ InWindow

\* listOrderExceptionQueue and getOrderExceptionDetail.
InExceptionQueue == (at \in ExceptionStatuses \/ failed) /\ InWindow

-----------------------------------------------------------------------------
(* Specification *)

TrackNext ==
    \/ Tomorrow \/ ConfirmDated
    \/ \E k \in Clerks :
          \/ SellerReads(k) \/ RequestReads(k) \/ ExecuteReads(k)
          \/ (\E target \in 1..4 : AdminReads(k, target))
          \/ (\E date \in Days :
                 UserUpdateReads(k, date) \/ (\E to \in JourneyStatuses : EditReads(k, to, date)))
          \/ LateWrite(k)
    \/ ApplyFulfillmentTransition \/ CancelDated \/ DecideReturn \/ Settle

TrackSpec == TrackInit /\ [][TrackNext]_trackVars

-----------------------------------------------------------------------------
(* Properties *)

\* How far the order got by its status: a cancelled one had reached Confirmed
\* at most, one in or past the return lifecycle had been delivered.
Reached(n) ==
    CASE at \in StageNames -> n = IndexOf(at)
      [] at \in {"Pending", "Confirming"} -> n = 0
      [] at = "Cancelled" -> n \in {0, 1}
      [] at \in ReturnStatuses -> n = 4
      [] at = "Refund Released" -> n \in {0, 1, 4}

\* Unless a write went over a state it had not read, or an admin's edit moved
\* the status without a date: the timelines show the steps up to the one the
\* order reached and no other, however often it was moved forth and back, with a
\* date under each and "Current" beside the order's status, and the support draft
\* names the same stage, and the delivery date is the one of the paid order.  A
\* return the assistant offers is one the storefront takes.  And a return that
\* waits for its decision, or has had it, is in both queues as long as they go
\* back to the order's day.
JourneyTold ==
    /\ ~overlapped /\ ~edited =>
          /\ \E n \in 0..4 : Reached(n) /\ StepsDone = 1..n /\ DeliveryStage = n
          /\ ShowsTimeline => ActiveStep = IndexOf(at)
          /\ \A i \in 1..4 : StepText(i) # "Completed"
          /\ due = promised
    /\ PolicyDays <= ReturnDays /\ IsOrderReturnEligible => MayRequestReturn
    /\ at \in ReturnStatuses /\ InWindow /\ ~overlapped
          => InReturnQueue /\ InExceptionQueue
=============================================================================
