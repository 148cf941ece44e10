----------------------------- MODULE Fulfilment -----------------------------
(***************************************************************************)
(* Purchase together with what sellers, admins and customers do to orders  *)
(* afterwards: updateSellerOrderStatus with its admin override, the admin's *)
(* updateOrder, deleteOrder and userDeleteOrder, requestReturn and         *)
(* processReturn.  Most of these write a status decided on an earlier read *)
(* and do not compare it again: the read and the write are two actions.    *)
(***************************************************************************)
EXTENDS Purchase

CONSTANT
    MaxPhantom  \* bound: units on a shelf beyond those there ever were

ASSUME FulfilmentAssumption == MaxPhantom \in Nat

-----------------------------------------------------------------------------
(* The order state machine of the source *)

\* ORDER_STATUS_TRANSITIONS: what an admin's updateOrder may change.
Transitions == {<<"Pending", "Cancelled">>, <<"Confirmed", "Processing">>,
                <<"Confirmed", "Cancelled">>, <<"Processing", "Shipped">>,
                <<"Shipped", "Delivered">>}

DeliveryStages == {"Confirmed", "Processing", "Shipped", "Delivered"}

\* SELLER_FULFILLMENT_TRANSITIONS: one step forward.
SellerTransitions == {<<"Confirmed", "Processing">>, <<"Processing", "Shipped">>,
                      <<"Shipped", "Delivered">>}

-----------------------------------------------------------------------------
(* A status decided now and written later *)

\* Bound: stale writes let units come back twice, so stock can grow without
\* limit; no new decision is taken once a shelf has passed MaxPhantom.
WithinPhantom ==
    \A pr \in Products : stock[pr] <= InitialStock[pr] + MaxPhantom

\* The handler has decided to write st; the write is its next step.
Decide(w, step, o, st) ==
    /\ Idle(w) /\ WithinPhantom
    /\ SetJob(w, [NoJob EXCEPT !.pc = step, !.o = o, !.st = st])
    /\ UNCHANGED <<orderVars, payVars, forced>>

\* The write by primary key, whatever the status is by now; a missing row
\* raises an error.
WriteStatus(w, step) ==
    LET o == jobs[w].o IN
    /\ jobs[w].pc = step
    /\ status' = IF status[o] = "Deleted" THEN status
                 ELSE [status EXCEPT ![o] = jobs[w].st]
    /\ SetJob(w, NoJob)
    /\ UNCHANGED <<stock, revenue, payVars, forced>>

-----------------------------------------------------------------------------
(* updateSellerOrderStatus *)

\* Mutant of SellerDecides: any later stage, from Pending too.
SellerDecidesFreely(w, o, st) ==
    /\ st \in DeliveryStages
    /\ status[o] \in {"Pending"} \cup DeliveryStages
    /\ Decide(w, "stage", o, st)

\* A seller advances an own sale by one step.
SellerDecides(w, o, st) ==
    /\ <<status[o], st>> \in SellerTransitions
    /\ Decide(w, "stage", o, st)

\* An admin moves an order to any stage, forward or back.
AdminDecides(w, o, st) ==
    /\ {status[o], st} \subseteq DeliveryStages
    /\ Decide(w, "stage", o, st)

\* An admin forces a Pending order into the pipeline: confirmOrderCore without
\* the payment gate, then the stage.
AdminForces(w, o, st) ==
    /\ Idle(w)
    /\ status[o] = "Pending"
    /\ st \in DeliveryStages
    /\ SetJob(w, [NoJob EXCEPT !.pc = "confirm", !.o = o, !.st = st,
                               !.cont = "reread"])
    /\ forced' = forced \cup GroupOf[o]
    /\ UNCHANGED <<orderVars, payVars>>

\* Back from confirmOrderCore: a 409 if it confirmed nothing; the order is
\* read again and only one inside the pipeline is moved on.
Reread(w) ==
    /\ jobs[w].pc = "reread"
    /\ SetJob(w, IF jobs[w].any /\ status[jobs[w].o] \in DeliveryStages
                 THEN [jobs[w] EXCEPT !.pc = "stage", !.cont = "idle", !.any = FALSE]
                 ELSE NoJob)
    /\ UNCHANGED <<orderVars, payVars, forced>>

StageWrite(w) == WriteStatus(w, "stage")

-----------------------------------------------------------------------------
(* updateOrder, the admin's edit *)

\* Without a status in the request the one that was read is written back.
EditDecides(w, o, st) ==
    /\ status[o] # "Deleted"
    /\ st = status[o] \/ <<status[o], st>> \in Transitions
    /\ Decide(w, "edit", o, st)

EditWrite(w) == WriteStatus(w, "edit")

-----------------------------------------------------------------------------
(* deleteOrder and userDeleteOrder *)

\* The read before the transaction; it decides whether units come back.
DeleteDecides(w, o) ==
    /\ status[o] # "Deleted"
    /\ Decide(w, "delete", o, status[o])

\* Mutant of DeleteRow: without the foreign key of payments.
DeleteRowUnpaid(w) ==
    LET o == jobs[w].o IN
    /\ jobs[w].pc = "delete"
    /\ status[o] # "Deleted" /\ revenue[o] = "none"
    /\ status' = [status EXCEPT ![o] = "Deleted"]
    /\ SetJob(w, NoJob)
    /\ UNCHANGED <<stock, revenue, payVars, forced>>

\* Units back and the row deleted in one transaction.  The foreign keys of
\* revenues and payments are RESTRICT: a row that one of them names stays.
DeleteRow(w) ==
    LET o == jobs[w].o IN
    /\ jobs[w].pc = "delete"
    /\ status[o] # "Deleted" /\ revenue[o] = "none" /\ PaymentsOf(o) = {}
    /\ IF jobs[w].st \in {"Confirmed", "Processing", "Shipped"}
       THEN Restore(o) ELSE UNCHANGED stock
    /\ status' = [status EXCEPT ![o] = "Deleted"]
    /\ SetJob(w, NoJob)
    /\ UNCHANGED <<revenue, payVars, forced>>

\* The transaction fails and is rolled back.
DeleteRefused(w) ==
    LET o == jobs[w].o IN
    /\ jobs[w].pc = "delete"
    /\ status[o] = "Deleted" \/ revenue[o] # "none" \/ PaymentsOf(o) # {}
    /\ SetJob(w, NoJob)
    /\ UNCHANGED <<orderVars, payVars, forced>>

-----------------------------------------------------------------------------
(* Returns *)

\* requestReturn within the window of 7 days.
ReturnDecides(w, o) ==
    /\ status[o] = "Delivered"
    /\ Decide(w, "return", o, "Return Requested")

ReturnWrite(w) == WriteStatus(w, "return")

\* Mutant of ApproveReturn: an approved return can be approved again.
ApproveReturnAgain(o) ==
    /\ status[o] \in {"Return Requested", "Return Approved"}
    /\ status' = [status EXCEPT ![o] = "Return Approved"]
    /\ Restore(o)
    /\ UNCHANGED <<revenue, payVars, jobs, forced>>

\* processReturn "approve": the claim and the units in one transaction.
ApproveReturn(o) ==
    /\ status[o] = "Return Requested"
    /\ status' = [status EXCEPT ![o] = "Return Approved"]
    /\ Restore(o)
    /\ UNCHANGED <<revenue, payVars, jobs, forced>>

\* processReturn "reject".
RejectReturn(o) ==
    /\ status[o] = "Return Requested"
    /\ status' = [status EXCEPT ![o] = "Return Rejected"]
    /\ UNCHANGED <<stock, revenue, payVars, jobs, forced>>

-----------------------------------------------------------------------------
(* Specification *)

Manage(w) ==
    \/ \E o \in Orders :
          \/ \E st \in DeliveryStages : \/ SellerDecides(w, o, st)
                                        \/ AdminDecides(w, o, st)
                                        \/ AdminForces(w, o, st)
          \/ \E st \in Statuses : EditDecides(w, o, st)
          \/ DeleteDecides(w, o) \/ ReturnDecides(w, o)
    \/ Reread(w) \/ StageWrite(w) \/ EditWrite(w) \/ ReturnWrite(w)
    \/ DeleteRow(w) \/ DeleteRefused(w)

ReviewReturn == \E o \in Orders : ApproveReturn(o) \/ RejectReturn(o)

FulfilmentNext == PurchaseNext \/ ReviewReturn \/ \E w \in Workers : Manage(w)

FulfilmentSpec == Init /\ [][FulfilmentNext]_vars

-----------------------------------------------------------------------------
(* Properties *)

\* An order that money refers to keeps its row: no checkout in flight and no
\* delete decided earlier can leave a payment or a revenue without its order.
MoneyKeepsRow ==
    \A o \in Orders :
        status[o] = "Deleted" => PaymentsOf(o) = {} /\ revenue[o] = "none"

\* Why MoneyKeepsRow holds: no request is about to write "Deleted" as a status.
JobKeepsRow(job) == Rereading(job) \/ Writing(job) => job.st # "Deleted"

RowInv ==
    /\ PaidInv
    /\ MoneyKeepsRow
    /\ \A w \in Workers : JobKeepsRow(jobs[w])

\* If the shelf of product pr changed, one of its orders moved with it.
StockMoved(pr) ==
    stock'[pr] # stock[pr] =>
        \E o \in Orders :
            /\ ProductOf[o] = pr
            /\ \/ /\ status[o] = "Pending" /\ status'[o] = "Confirmed"
                  /\ stock'[pr] = stock[pr] - Quantity[o]
               \/ /\ status'[o] \in {"Cancelled", "Return Approved", "Deleted"}
                  /\ status'[o] # status[o]
                  /\ stock'[pr] = stock[pr] + Quantity[o]

\* README.md:237: stock and status move in one transaction.  Units leave only
\* with an order that leaves Pending, and come back only with an order that
\* becomes Cancelled, Return Approved or deleted in the same step.
StockMovesWithStatus == [][\A pr \in Products : StockMoved(pr)]_vars

\* README.md:297: only a Pending or Confirmed order can be cancelled, only a
\* Delivered one can enter Return Requested.  The handlers check this on the
\* status they read, not on the status they overwrite.
EntriesAsDocumented ==
    [][\A o \in Orders : status'[o] # status[o] =>
         /\ status'[o] = "Cancelled" => status[o] \in {"Pending", "Confirmed"}
         /\ status'[o] = "Return Requested" => status[o] = "Delivered"]_vars
=============================================================================
