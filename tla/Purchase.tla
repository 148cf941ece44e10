------------------------------ MODULE Purchase ------------------------------
(***************************************************************************)
(* From checkout to a confirmed or cancelled order: payment.checkout, the  *)
(* eSewa callback (processEsewaEvent), confirmOrderCore, the customer's    *)
(* confirm route and cancelOrderCore.                                      *)
(***************************************************************************)
EXTENDS OrderStore

-----------------------------------------------------------------------------
(* The gateway *)

\* The customer completes the eSewa form; nothing tells the server.
CustomerPays(p) ==
    /\ gateway[p] = "PENDING"
    /\ gateway' = [gateway EXCEPT ![p] = "COMPLETE"]
    /\ UNCHANGED <<orderVars, payOrder, payStatus, events, jobs, forced>>

\* The form expires or the customer cancels it at eSewa.
GatewayCloses(p) ==
    /\ gateway[p] = "PENDING"
    /\ gateway' = [gateway EXCEPT ![p] = "CANCELED"]
    /\ UNCHANGED <<orderVars, payOrder, payStatus, events, jobs, forced>>

-----------------------------------------------------------------------------
(* POST /payment/checkout *)

\* The transaction's first read: only a Pending order can be paid.
CheckoutRead(w, o) ==
    /\ Idle(w)
    /\ PaymentsLeft \/ OpenIntents(o) # {}
    /\ status[o] = "Pending"
    /\ SetJob(w, [NoJob EXCEPT !.pc = "checkout", !.o = o])
    /\ UNCHANGED <<orderVars, payVars, forced>>

\* An Initiated payment of this order is signed again (found by the read, or
\* by the rejected insert of a request that another one overtook).
ReuseIntent(w) ==
    /\ jobs[w].pc = "checkout"
    /\ OpenIntents(jobs[w].o) # {}
    /\ SetJob(w, NoJob)
    /\ UNCHANGED <<orderVars, payVars, forced>>

\* A new payment row.  The partial unique index rejects a second Initiated row
\* of one order, the foreign key a row of a deleted order.
InsertIntent(w, p) ==
    LET o == jobs[w].o IN
    /\ jobs[w].pc = "checkout"
    /\ OpenIntents(o) = {}
    /\ status[o] # "Deleted"
    /\ payStatus[p] = "absent"
    /\ \A q \in 1..(p - 1) : payStatus[q] # "absent"
    /\ payOrder' = [payOrder EXCEPT ![p] = o]
    /\ payStatus' = [payStatus EXCEPT ![p] = "Initiated"]
    /\ gateway' = [gateway EXCEPT ![p] = "PENDING"]
    /\ SetJob(w, NoJob)
    /\ UNCHANGED <<orderVars, events, forced>>

-----------------------------------------------------------------------------
(* The eSewa redirect: processEsewaEvent *)

\* A callback for a payment that is still Initiated; any other is answered
\* alreadyProcessed and changes nothing.
CallbackRead(w, p) ==
    /\ Idle(w)
    /\ payStatus[p] = "Initiated"
    /\ SetJob(w, [NoJob EXCEPT !.pc = "check", !.o = payOrder[p], !.p = p])
    /\ UNCHANGED <<orderVars, payVars, forced>>

\* Mutant of CheckStatus: the redirect itself is believed.
CheckStatusSkipped(w) ==
    /\ jobs[w].pc = "check"
    /\ SetJob(w, [jobs[w] EXCEPT !.pc = "confirm", !.gw = "COMPLETE",
                                 !.cont = "publish"])
    /\ UNCHANGED <<orderVars, payVars, forced>>

\* The status check.  COMPLETE goes through confirmOrderCore before the
\* payment is published, any other answer straight to Failed.
CheckStatus(w) ==
    LET answer == gateway[jobs[w].p] IN
    /\ jobs[w].pc = "check"
    /\ SetJob(w, [jobs[w] EXCEPT
                    !.pc = IF answer = "COMPLETE" THEN "confirm" ELSE "publish",
                    !.gw = answer, !.cont = "publish"])
    /\ UNCHANGED <<orderVars, payVars, forced>>

\* The event row and the payment status in one transaction; a gatewayEventId
\* already recorded rolls both back.
Publish(w) ==
    LET p == jobs[w].p
        answer == jobs[w].gw
    IN
    /\ jobs[w].pc = "publish"
    /\ IF <<p, answer>> \in events
       THEN UNCHANGED <<events, payStatus>>
       ELSE /\ events' = events \cup {<<p, answer>>}
            /\ payStatus' = [payStatus EXCEPT ![p] =
                  IF answer = "COMPLETE" THEN "Succeeded" ELSE "Failed"]
    /\ SetJob(w, NoJob)
    /\ UNCHANGED <<orderVars, payOrder, gateway, forced>>

-----------------------------------------------------------------------------
(* confirmOrderCore *)

\* Mutant of Return: the callback gives up when nothing had to be confirmed.
ReturnEnds(job) == IF ~job.any THEN NoJob
                   ELSE [job EXCEPT !.pc = job.cont, !.todo = {}]

\* confirmOrderCore returns to its caller.
Return(job) == IF job.cont = "idle" THEN NoJob
               ELSE [job EXCEPT !.pc = job.cont, !.todo = {}]

\* The read of the primary order: a no-op unless it is Pending, a 404 for a
\* deleted one; otherwise every order of the group is to be confirmed.
ConfirmRead(w) ==
    LET o == jobs[w].o IN
    /\ jobs[w].pc = "confirm"
    /\ SetJob(w, CASE status[o] = "Pending" ->
                        [jobs[w] EXCEPT !.pc = "loop", !.todo = GroupOf[o]]
                   [] status[o] = "Deleted" -> NoJob
                   [] OTHER -> Return(jobs[w]))
    /\ UNCHANGED <<orderVars, payVars, forced>>

\* Mutant of Handled: an order that was not confirmed ends the loop.
HandledStops(w, o, confirmed) ==
    SetJob(w, [jobs[w] EXCEPT !.todo = IF confirmed THEN @ \ {o} ELSE {},
                              !.any = @ \/ confirmed])

\* The loop has handled one order.
Handled(w, o, confirmed) ==
    SetJob(w, [jobs[w] EXCEPT !.todo = @ \ {o}, !.any = @ \/ confirmed])

\* Mutant of ConfirmOrder: the claim does not compare the status.
ConfirmOrderUnclaimed(w, o) ==
    /\ jobs[w].pc = "loop" /\ o \in jobs[w].todo
    /\ status[o] \in {"Pending", "Cancelled"}
    /\ CanDeduct(o)
    /\ Deduct(o)
    /\ status' = [status EXCEPT ![o] = "Confirmed"]
    /\ Handled(w, o, TRUE)
    /\ UNCHANGED <<revenue, payVars, forced>>

\* The order's transaction won its claim and found the stock.
ConfirmOrder(w, o) ==
    /\ jobs[w].pc = "loop" /\ o \in jobs[w].todo
    /\ status[o] = "Pending"
    /\ CanDeduct(o)
    /\ Deduct(o)
    /\ status' = [status EXCEPT ![o] = "Confirmed"]
    /\ revenue' = IF revenue[o] = "none" THEN revenue
                  ELSE [revenue EXCEPT ![o] = "Completed"]
    /\ Handled(w, o, TRUE)
    /\ UNCHANGED <<payVars, forced>>

\* The claim succeeded but adjustStock returned null: the transaction callback
\* returns instead of throwing, so the claimed status is committed.
ConfirmOutOfStock(w, o) ==
    /\ jobs[w].pc = "loop" /\ o \in jobs[w].todo
    /\ status[o] = "Pending"
    /\ ~CanDeduct(o)
    /\ status' = [status EXCEPT ![o] = "Confirming"]
    /\ Handled(w, o, FALSE)
    /\ UNCHANGED <<stock, revenue, payVars, forced>>

\* Another request changed the order first: the claim matches no row.
ConfirmSkip(w, o) ==
    /\ jobs[w].pc = "loop" /\ o \in jobs[w].todo
    /\ status[o] # "Pending"
    /\ Handled(w, o, FALSE)
    /\ UNCHANGED <<orderVars, payVars, forced>>

\* The transaction throws (a lost connection, a deadlock, a timeout): rolled
\* back, noted in errors, and the loop goes on.
ConfirmFails(w, o) ==
    /\ jobs[w].pc = "loop" /\ o \in jobs[w].todo
    /\ Handled(w, o, FALSE)
    /\ UNCHANGED <<orderVars, payVars, forced>>

\* All orders handled: e-mail, cart, and back to the caller.
ConfirmDone(w) ==
    /\ jobs[w].pc = "loop" /\ jobs[w].todo = {}
    /\ SetJob(w, Return(jobs[w]))
    /\ UNCHANGED <<orderVars, payVars, forced>>

-----------------------------------------------------------------------------
(* The customer's routes *)

\* PUT /order/confirm/:orderId: the latest payment of the group must have
\* Succeeded.
ConfirmRoute(w, o) ==
    /\ Idle(w)
    /\ status[o] = "Pending"
    /\ \E p \in GroupPayments(o) :
          /\ payStatus[p] = "Succeeded"
          /\ \A q \in GroupPayments(o) : q <= p
    /\ SetJob(w, [NoJob EXCEPT !.pc = "confirm", !.o = o])
    /\ UNCHANGED <<orderVars, payVars, forced>>

\* Mutant of Cancel: units come back whatever the status was.
CancelAlwaysRestores(o) ==
    /\ status[o] \in {"Pending", "Confirmed"}
    /\ status' = [status EXCEPT ![o] = "Cancelled"]
    /\ Restore(o)
    /\ UNCHANGED <<revenue, payVars, jobs, forced>>

\* Mutant of Cancel: units that a confirmed order held do not come back.
CancelKeepsUnits(o) ==
    /\ status[o] \in {"Pending", "Confirmed"}
    /\ status' = [status EXCEPT ![o] = "Cancelled"]
    /\ UNCHANGED <<stock, revenue, payVars, jobs, forced>>

\* cancelOrderCore: one transaction whose claim compares the status it read.
Cancel(o) ==
    /\ status[o] \in {"Pending", "Confirmed"}
    /\ status' = [status EXCEPT ![o] = "Cancelled"]
    /\ IF status[o] = "Confirmed" THEN Restore(o) ELSE UNCHANGED stock
    /\ UNCHANGED <<revenue, payVars, jobs, forced>>

\* A request dies between two of its steps: an exception, a closed connection
\* or a restart of the server.  What it committed stays.
Abandon(w) ==
    /\ ~Idle(w)
    /\ SetJob(w, NoJob)
    /\ UNCHANGED <<orderVars, payVars, forced>>

-----------------------------------------------------------------------------
(* Specification *)

Confirm(w) ==
    \/ ConfirmRead(w) \/ ConfirmDone(w)
    \/ \E o \in Orders : \/ ConfirmOrder(w, o) \/ ConfirmOutOfStock(w, o)
                         \/ ConfirmSkip(w, o)

\* The steps a request takes by itself once it has begun.
Continue(w) ==
    \/ ReuseIntent(w) \/ \E p \in Payments : InsertIntent(w, p)
    \/ CheckStatus(w) \/ Publish(w)
    \/ Confirm(w)

Begin(w) ==
    \/ \E o \in Orders : CheckoutRead(w, o) \/ ConfirmRoute(w, o)
    \/ \E p \in Payments : CallbackRead(w, p)

Fault(w) == Abandon(w) \/ \E o \in Orders : ConfirmFails(w, o)

Environment ==
    \/ \E p \in Payments : CustomerPays(p) \/ GatewayCloses(p)
    \/ \E o \in Orders : Cancel(o)

PurchaseNext == Environment \/ \E w \in Workers : Begin(w) \/ Continue(w) \/ Fault(w)

PurchaseSpec == Init /\ [][PurchaseNext]_vars

\* A server without faults: every request that has begun goes on, the
\* customer and new requests owe nothing.
HealthyNext == Environment \/ \E w \in Workers : Begin(w) \/ Continue(w)

HealthySpec == Init /\ [][HealthyNext]_vars /\ \A w \in Workers : WF_vars(Continue(w))

-----------------------------------------------------------------------------
(* Properties *)

\* No unit is lost or sold twice: what left the shelf is exactly what orders
\* that were confirmed and not cancelled hold, whichever callbacks, confirm
\* routes and cancellations race (confirmOrderCore, cancelOrderCore).
StockAccounted ==
    \A pr \in Products : stock[pr] + Cardinality(HeldUnits(pr)) = InitialStock[pr]

\* No order gets past confirmation, and no revenue is counted for it, unless
\* eSewa took the money of its checkout or an admin forced it: the gate of
\* confirmOrderAndDeductStock and the status check of processEsewaEvent.
NoFreeConfirm ==
    \A o \in Orders :
        status[o] \in PastConfirmation \/ revenue[o] \in {"Completed", "Refunded"}
            => Backed(o)

\* payments is a read model of payment_events: a payment waits exactly while
\* no event is recorded, and says Succeeded only after a recorded COMPLETE
\* that the gateway really gave (the publish transaction).
LedgerAgrees ==
    \A p \in Payments :
        LET seen == {g \in GatewayStatuses : <<p, g>> \in events} IN
        /\ payStatus[p] \in {"absent", "Initiated"} <=> seen = {}
        /\ payStatus[p] = "Succeeded" => "COMPLETE" \in seen
        /\ payStatus[p] = "Failed" => seen # {"COMPLETE"}
        /\ "COMPLETE" \in seen => gateway[p] = "COMPLETE"

\* A cancelled order is never confirmed by a request that read it before the
\* cancellation (the claims of confirmOrderCore and cancelOrderCore).
CancelledStays ==
    [][\A o \in Orders : status[o] = "Cancelled" => status'[o] = "Cancelled"]_vars

\* payment.js:70-72: at most one form of a purchase can still be paid.  The
\* look-up is by order and by the payment's own status, not by purchase and by
\* what the gateway says.
OnePayableForm ==
    \A o \in Orders :
        Cardinality({p \in GroupPayments(o) : gateway[p] = "PENDING"}) <= 1

\* payment.js:178-180: a payment is published as Succeeded only once its order
\* is past Pending.  confirmOrderCore collects its errors and returns them.
PaidMeansConfirmed ==
    \A p \in Payments :
        payStatus[p] = "Succeeded" => status[payOrder[p]] # "Pending"

\* order.js:1487-1489: Confirming is a transient state of the transaction that
\* claims the order, which no other request sees: the order is Confirmed or
\* Pending again when it ends.  Out of stock the claim itself is committed.
ConfirmingIsTransient == \A o \in Orders : status[o] # "Confirming"

\* Every order of the group that a running confirmation was to handle leaves
\* Pending, cancellations and concurrent confirmations notwithstanding.
GroupSettles ==
    \A o \in Orders :
        (\E w \in Workers : jobs[w].pc = "loop" /\ o \in jobs[w].todo)
            ~> status[o] # "Pending"

\* A payment whose callback has begun is published: the customer does not
\* wait for ever on a payment that eSewa has answered for.
CallbackSettles ==
    \A p \in Payments :
        (\E w \in Workers : jobs[w].pc = "check" /\ jobs[w].p = p)
            ~> payStatus[p] \in {"Succeeded", "Failed"}

-----------------------------------------------------------------------------
(* Why NoFreeConfirm holds: the inductive invariant *)

\* A payment row belongs to an order and is known to the gateway, and only one
\* that the gateway completed says Succeeded.
PaymentOK ==
    \A p \in Payments :
        /\ payStatus[p] = "absent" => gateway[p] = "none"
        /\ payStatus[p] # "absent" => /\ payOrder[p] \in Orders
                                     /\ gateway[p] \in GatewayStatuses
        /\ payStatus[p] = "Succeeded" => gateway[p] = "COMPLETE"

\* An admin's override covers the whole group.
ForcedOK == \A o \in forced : GroupOf[o] \subseteq forced

\* What a job that is confirming or about to publish rests on.
Confirming(job) == job.pc \in {"confirm", "loop"}
Publishing(job) == job.pc = "publish" \/ (Confirming(job) /\ job.cont = "publish")
Rereading(job) == job.pc = "reread" \/ (Confirming(job) /\ job.cont = "reread")
Writing(job) == job.pc \in {"stage", "edit", "return"}

\* A request in flight carries only what still holds: a confirmation is backed
\* by money or an override, an answer of the gateway is still its answer, and a
\* status to be written is one the order is entitled to.
JobOK(job) ==
    /\ job.pc # "idle" => job.o \in Orders
    /\ job.pc = "check" => /\ job.p \in Payments
                           /\ payStatus[job.p] # "absent"
                           /\ job.o = payOrder[job.p]
    /\ Publishing(job) => /\ job.p \in Payments
                          /\ payStatus[job.p] # "absent"
                          /\ job.gw \in GatewayStatuses
                          /\ job.gw = "COMPLETE" => gateway[job.p] = "COMPLETE"
    /\ Confirming(job) => Backed(job.o)
    /\ job.pc = "loop" => job.todo \subseteq GroupOf[job.o]
    /\ Rereading(job) \/ Writing(job) => job.st \in Statuses
    /\ Writing(job) /\ job.st \in PastConfirmation => Backed(job.o)

PaidInv ==
    /\ TypeOK
    /\ PaymentOK
    /\ ForcedOK
    /\ \A w \in Workers : JobOK(jobs[w])
    /\ NoFreeConfirm

-----------------------------------------------------------------------------
(* Refinement of Sale *)

\* What the row of an order says of its sale.
SaleOf(st) == CASE st \in HoldsStock -> "sold"
                [] st = "Cancelled" -> "void"
                [] st = "Confirming" -> "stranded"
                [] OTHER -> "open"

Ideal == INSTANCE Sale WITH sale <- [o \in Orders |-> SaleOf(status[o])],
                            shelf <- stock

\* The handlers sell as Sale promises: stock and status move together, once.
SaleImplemented == Ideal!SaleSpec
=============================================================================
