---------------------------- MODULE RefundsProofs ----------------------------
(***************************************************************************)
(* Proofs about Fulfilment and Refunds, for every set of orders and        *)
(* requests: the writes that follow a purchase confirm no order without    *)
(* payment or force, leave no money without its order and move stock with  *)
(* the status; no payment is paid back twice, and an order reads Refund    *)
(* Released only after its money went back; and what readers put together  *)
(* from rows read one after the other (Summaries) agrees with the money.   *)
(***************************************************************************)
EXTENDS Summaries, PurchaseProofs

-----------------------------------------------------------------------------
(* A status decided now and written later *)

\* A decision is sound if the order is entitled to the status already.
LEMMA DecideStep ==
    ASSUME PaidInv, NEW w \in Workers, NEW o \in Orders, NEW st \in Statuses,
           NEW step \in {"stage", "edit", "return", "delete"}, Decide(w, step, o, st),
           st \in PastConfirmation => step = "delete" \/ Backed(o)
    PROVE  PaidInv'
<1> DEFINE job == [NoJob EXCEPT !.pc = step, !.o = o, !.st = st]
<1>1. job \in Job /\ JobOK(job)
  BY DEF NoJob, Job, Steps, JobOK, Confirming, Publishing, Rereading, Writing
<1> QED
  BY <1>1, ReadStep DEF Decide

\* An order past confirmation is backed.
LEMMA PastIsBacked ==
    ASSUME PaidInv, NEW o \in Orders, status[o] \in PastConfirmation
    PROVE  Backed(o)
BY DEF PaidInv, NoFreeConfirm

LEMMA WriteStep ==
    ASSUME PaidInv, NEW w \in Workers, NEW step \in {"stage", "edit", "return"},
           WriteStatus(w, step)
    PROVE  PaidInv'
<1>1. UNCHANGED <<payVars, forced>> /\ SetJob(w, NoJob)
  BY DEF WriteStatus
<1>2. jobs' \in [Workers -> Job] /\ \A v \in Workers : JobOK(jobs[v])'
  BY <1>1, UnchangedGrows, NoJobOK, JobsStay
<1>3. /\ jobs[w].o \in Orders /\ jobs[w].st \in Statuses
      /\ jobs[w].st \in PastConfirmation => Backed(jobs[w].o)
  BY DEF WriteStatus, PaidInv, JobOK, Writing
<1>4. /\ status' \in [Orders -> Statuses]
      /\ UNCHANGED <<stock, revenue>>
  BY <1>3 DEF WriteStatus, PaidInv, TypeOK
<1>5. \A q \in Orders :
         status'[q] \in PastConfirmation => status[q] \in PastConfirmation \/ Backed(q)
  BY <1>3 DEF WriteStatus, PaidInv, TypeOK
<1> QED
  BY <1>1, <1>2, <1>4, <1>5, OrderStep DEF PaidInv, TypeOK

-----------------------------------------------------------------------------
(* The handlers *)

LEMMA StageDecisionStep ==
    ASSUME PaidInv, NEW w \in Workers, NEW o \in Orders, NEW st \in DeliveryStages,
           SellerDecides(w, o, st) \/ AdminDecides(w, o, st)
    PROVE  PaidInv'
<1>1. Decide(w, "stage", o, st) /\ status[o] \in PastConfirmation
  BY DEF SellerDecides, AdminDecides, SellerTransitions, DeliveryStages,
         PastConfirmation, HoldsStock
<1>2. st \in Statuses
  BY DEF DeliveryStages, Statuses
<1> QED
  BY <1>1, <1>2, PastIsBacked, DecideStep

LEMMA AdminForcesStep ==
    ASSUME PaidInv, NEW w \in Workers, NEW o \in Orders, NEW st \in DeliveryStages,
           AdminForces(w, o, st)
    PROVE  PaidInv'
<1> DEFINE job == [NoJob EXCEPT !.pc = "confirm", !.o = o, !.st = st, !.cont = "reread"]
<1>1. st \in Statuses /\ o \in GroupOf[o] /\ GroupOf[o] \subseteq Orders
  BY StoreAssumption DEF DeliveryStages, Statuses
<1>2. Grows
  BY DEF AdminForces, Grows, payVars
<1>3. Backed(o)'
  BY <1>1 DEF AdminForces, Backed
<1>4. job \in Job /\ JobOK(job)'
  BY <1>1, <1>3 DEF NoJob, Job, Steps, JobOK, Confirming, Publishing, Rereading, Writing
<1>5. jobs' \in [Workers -> Job] /\ \A v \in Workers : JobOK(jobs[v])'
  BY <1>2, <1>4, JobsStay DEF AdminForces
<1>6. TypeOK'
  BY <1>1, <1>5 DEF AdminForces, PaidInv, TypeOK, orderVars, payVars
<1>7. PaymentOK'
  BY DEF AdminForces, PaidInv, PaymentOK, payVars
<1>8. ForcedOK'
  BY SameGroup DEF AdminForces, PaidInv, ForcedOK
<1>9. NoFreeConfirm'
  <2>1. \A q \in Orders : Backed(q) => Backed(q)'
    BY <1>2, BackedStays DEF PaidInv
  <2> QED
    BY <2>1 DEF AdminForces, PaidInv, NoFreeConfirm, orderVars
<1> QED
  BY <1>5, <1>6, <1>7, <1>8, <1>9 DEF PaidInv

LEMMA RereadStep ==
    ASSUME PaidInv, NEW w \in Workers, Reread(w)
    PROVE  PaidInv'
<1> DEFINE job == [jobs[w] EXCEPT !.pc = "stage", !.cont = "idle", !.any = FALSE]
<1>1. /\ jobs[w] \in Job /\ JobOK(jobs[w]) /\ jobs[w].pc = "reread"
      /\ jobs[w].o \in Orders
  BY DEF Reread, PaidInv, TypeOK, JobOK
<1>2. CASE jobs[w].any /\ status[jobs[w].o] \in DeliveryStages
  <2>1. Backed(jobs[w].o)
    BY <1>1, <1>2, PastIsBacked DEF DeliveryStages, PastConfirmation, HoldsStock
  <2>2. job \in Job /\ JobOK(job)
    BY <1>1, <2>1 DEF Job, Steps, JobOK, Confirming, Publishing, Rereading, Writing
  <2> QED
    BY <1>2, <2>2, ReadStep DEF Reread
<1>3. CASE ~(jobs[w].any /\ status[jobs[w].o] \in DeliveryStages)
  BY <1>3, NoJobOK, ReadStep DEF Reread
<1> QED
  BY <1>2, <1>3

LEMMA EditDecisionStep ==
    ASSUME PaidInv, NEW w \in Workers, NEW o \in Orders, NEW st \in Statuses,
           EditDecides(w, o, st)
    PROVE  PaidInv'
<1>1. Decide(w, "edit", o, st)
  BY DEF EditDecides
<1>2. st \in PastConfirmation => status[o] \in PastConfirmation
  BY DEF EditDecides, Transitions, PastConfirmation, HoldsStock
<1> QED
  BY <1>1, <1>2, PastIsBacked, DecideStep

LEMMA DeleteDecisionStep ==
    ASSUME PaidInv, NEW w \in Workers, NEW o \in Orders, DeleteDecides(w, o)
    PROVE  PaidInv'
<1>1. status[o] \in Statuses
  BY DEF PaidInv, TypeOK
<1> QED
  BY <1>1, DecideStep DEF DeleteDecides

LEMMA ReturnDecisionStep ==
    ASSUME PaidInv, NEW w \in Workers, NEW o \in Orders, ReturnDecides(w, o)
    PROVE  PaidInv'
<1>1. status[o] \in PastConfirmation
  BY DEF ReturnDecides, PastConfirmation, HoldsStock
<1> QED
  BY <1>1, PastIsBacked, DecideStep DEF ReturnDecides, Statuses

LEMMA DeleteRowStep ==
    ASSUME PaidInv, NEW w \in Workers, DeleteRow(w)
    PROVE  PaidInv'
<1>1. jobs[w].o \in Orders
  BY DEF DeleteRow, PaidInv, JobOK
<1>2. UNCHANGED <<payVars, forced>> /\ SetJob(w, NoJob) /\ UNCHANGED revenue
  BY DEF DeleteRow
<1>3. jobs' \in [Workers -> Job] /\ \A v \in Workers : JobOK(jobs[v])'
  BY <1>2, UnchangedGrows, NoJobOK, JobsStay
<1>4. stock' \in [Products -> Nat]
  BY <1>1, RestoreOK DEF DeleteRow, PaidInv, TypeOK
<1>5. status' \in [Orders -> Statuses]
  BY <1>1 DEF DeleteRow, PaidInv, TypeOK, Statuses
<1>6. \A q \in Orders :
         status'[q] \in PastConfirmation => status[q] \in PastConfirmation
  BY <1>1 DEF DeleteRow, PaidInv, TypeOK, PastConfirmation, HoldsStock
<1> QED
  BY <1>2, <1>3, <1>4, <1>5, <1>6, OrderStep DEF PaidInv, TypeOK

LEMMA DeleteRefusedStep ==
    ASSUME PaidInv, NEW w \in Workers, DeleteRefused(w)
    PROVE  PaidInv'
BY NoJobOK, ReadStep DEF DeleteRefused

LEMMA ReviewStep ==
    ASSUME PaidInv, NEW o \in Orders, ApproveReturn(o) \/ RejectReturn(o)
    PROVE  PaidInv'
<1>1. UNCHANGED <<payVars, forced>> /\ UNCHANGED jobs /\ UNCHANGED revenue
  BY DEF ApproveReturn, RejectReturn
<1>2. jobs' \in [Workers -> Job] /\ \A v \in Workers : JobOK(jobs[v])'
  BY <1>1, UnchangedGrows, JobsUnchanged
<1>3. status' \in [Orders -> Statuses]
  BY DEF ApproveReturn, RejectReturn, PaidInv, TypeOK, Statuses
<1>4. stock' \in [Products -> Nat]
  BY RestoreOK DEF ApproveReturn, RejectReturn, PaidInv, TypeOK
<1>5. \A q \in Orders :
         status'[q] \in PastConfirmation => status[q] \in PastConfirmation
  BY DEF ApproveReturn, RejectReturn, PaidInv, TypeOK, PastConfirmation, HoldsStock
<1> QED
  BY <1>1, <1>2, <1>3, <1>4, <1>5, OrderStep DEF PaidInv, TypeOK

LEMMA FulfilmentPaidInvStep == PaidInv /\ [FulfilmentNext]_vars => PaidInv'
<1> SUFFICES ASSUME PaidInv, [FulfilmentNext]_vars PROVE PaidInv'
  OBVIOUS
<1>1. CASE [PurchaseNext]_vars
  BY <1>1, PaidInvStep
<1>2. CASE ReviewReturn
  BY <1>2, ReviewStep DEF ReviewReturn
<1>3. ASSUME NEW w \in Workers, Manage(w)
      PROVE  PaidInv'
  <2>1. CASE StageWrite(w) \/ EditWrite(w) \/ ReturnWrite(w)
    BY <2>1, WriteStep DEF StageWrite, EditWrite, ReturnWrite
  <2>2. CASE Reread(w) \/ DeleteRow(w) \/ DeleteRefused(w)
    BY <2>2, RereadStep, DeleteRowStep, DeleteRefusedStep
  <2>3. ASSUME NEW o \in Orders, NEW st \in DeliveryStages,
               SellerDecides(w, o, st) \/ AdminDecides(w, o, st) \/ AdminForces(w, o, st)
        PROVE  PaidInv'
    BY <2>3, StageDecisionStep, AdminForcesStep
  <2>4. ASSUME NEW o \in Orders, NEW st \in Statuses, EditDecides(w, o, st)
        PROVE  PaidInv'
    BY <2>4, EditDecisionStep
  <2>5. ASSUME NEW o \in Orders, DeleteDecides(w, o) \/ ReturnDecides(w, o)
        PROVE  PaidInv'
    BY <2>5, DeleteDecisionStep, ReturnDecisionStep
  <2> QED
    BY <1>3, <2>1, <2>2, <2>3, <2>4, <2>5 DEF Manage
<1> QED
  BY <1>1, <1>2, <1>3 DEF FulfilmentNext

-----------------------------------------------------------------------------
(* Theorems *)

\* PaidInv holds in every state of Fulfilment.
THEOREM FulfilmentPaidInv == FulfilmentSpec => []PaidInv
BY PaidInvInit, FulfilmentPaidInvStep, PTL DEF FulfilmentSpec

\* Stale status writes, overrides, deletions and returns never let an order
\* past confirmation without money or override (updateSellerOrderStatus,
\* updateOrder, requestReturn, processReturn).
THEOREM FulfilmentNoFreeConfirm == FulfilmentSpec => []NoFreeConfirm
<1>1. PaidInv => NoFreeConfirm
  BY DEF PaidInv
<1> QED
  BY <1>1, FulfilmentPaidInv, PTL
-----------------------------------------------------------------------------
(* Money keeps its row *)

\* A step that inserts no payment: what it deletes no money refers to.
LEMMA RowStep ==
    ASSUME RowInv, PaidInv', UNCHANGED payOrder,
           \A o \in Orders :
               /\ status'[o] = "Deleted" =>
                     status[o] = "Deleted" \/ (PaymentsOf(o) = {} /\ revenue[o] = "none")
               /\ revenue[o] = "none" => revenue'[o] = "none",
           \A w \in Workers : jobs'[w] = jobs[w] \/ JobKeepsRow(jobs'[w])
    PROVE  RowInv'
<1>1. MoneyKeepsRow'
  BY DEF RowInv, MoneyKeepsRow, PaymentsOf
<1>2. \A w \in Workers : JobKeepsRow(jobs[w])'
  BY DEF RowInv, JobKeepsRow, Rereading, Writing, Confirming
<1> QED
  BY <1>1, <1>2 DEF RowInv

\* Only request w moved.
LEMMA OneJob ==
    ASSUME TypeOK, NEW w \in Workers, NEW job, SetJob(w, job), JobKeepsRow(job)
    PROVE  \A v \in Workers : jobs'[v] = jobs[v] \/ JobKeepsRow(jobs'[v])
BY DEF TypeOK, SetJob

LEMMA NoJobKeepsRow == JobKeepsRow(NoJob)
BY DEF JobKeepsRow, NoJob, Rereading, Writing, Confirming

\* A step that only moves request w.
LEMMA RowReadStep ==
    ASSUME RowInv, PaidInv', UNCHANGED <<orderVars, payVars>>,
           NEW w \in Workers, NEW job, SetJob(w, job), JobKeepsRow(job)
    PROVE  RowInv'
<1>1. UNCHANGED payOrder /\ UNCHANGED status /\ UNCHANGED revenue
  BY DEF orderVars, payVars
<1>2. \A v \in Workers : jobs'[v] = jobs[v] \/ JobKeepsRow(jobs'[v])
  BY OneJob DEF RowInv, PaidInv
<1> QED
  BY <1>1, <1>2, RowStep

LEMMA RowInsertStep ==
    ASSUME RowInv, PaidInv', NEW w \in Workers, NEW p \in Payments, InsertIntent(w, p)
    PROVE  RowInv'
<1>1. TypeOK /\ status[jobs[w].o] # "Deleted"
  BY DEF RowInv, PaidInv, InsertIntent
<1>2. \A v \in Workers : JobKeepsRow(jobs[v])'
  BY <1>1, OneJob, NoJobKeepsRow
  DEF InsertIntent, RowInv, JobKeepsRow, Rereading, Writing, Confirming
<1>3. MoneyKeepsRow'
  <2>1. \A q \in Payments : payOrder'[q] = IF q = p THEN jobs[w].o ELSE payOrder[q]
    BY <1>1 DEF InsertIntent, TypeOK
  <2> QED
    BY <1>1, <2>1 DEF InsertIntent, RowInv, MoneyKeepsRow, PaymentsOf, orderVars
<1> QED
  BY <1>2, <1>3 DEF RowInv

\* Checkout, callback and confirm route.
LEMMA RowBeginStep ==
    ASSUME RowInv, PaidInv', NEW w \in Workers, Begin(w)
    PROVE  RowInv'
<1>1. ASSUME NEW o \in Orders, CheckoutRead(w, o)
      PROVE  RowInv'
  <2> DEFINE job == [NoJob EXCEPT !.pc = "checkout", !.o = o]
  <2>1. JobKeepsRow(job)
    BY DEF NoJob, JobKeepsRow, Rereading, Writing, Confirming
  <2> QED
    BY <1>1, <2>1, RowReadStep DEF CheckoutRead
<1>2. ASSUME NEW o \in Orders, ConfirmRoute(w, o)
      PROVE  RowInv'
  <2> DEFINE job == [NoJob EXCEPT !.pc = "confirm", !.o = o]
  <2>1. JobKeepsRow(job)
    BY DEF NoJob, JobKeepsRow, Rereading, Writing, Confirming
  <2> QED
    BY <1>2, <2>1, RowReadStep DEF ConfirmRoute
<1>3. ASSUME NEW p \in Payments, CallbackRead(w, p)
      PROVE  RowInv'
  <2> DEFINE job == [NoJob EXCEPT !.pc = "check", !.o = payOrder[p], !.p = p]
  <2>1. JobKeepsRow(job)
    BY DEF NoJob, JobKeepsRow, Rereading, Writing, Confirming
  <2> QED
    BY <1>3, <2>1, RowReadStep DEF CallbackRead
<1> QED
  BY <1>1, <1>2, <1>3 DEF Begin

LEMMA RowReturn ==
    ASSUME NEW job \in Job, Confirming(job), JobKeepsRow(job)
    PROVE  JobKeepsRow(Return(job))
BY NoJobKeepsRow DEF Return, Job, JobKeepsRow, Rereading, Writing, Confirming

\* The loop of confirmOrderCore.
LEMMA RowLoopStep ==
    ASSUME RowInv, PaidInv', NEW w \in Workers, NEW o \in Orders,
           \/ ConfirmOrder(w, o) \/ ConfirmOutOfStock(w, o)
           \/ ConfirmSkip(w, o) \/ ConfirmFails(w, o)
    PROVE  RowInv'
<1>1. TypeOK /\ jobs[w] \in Job /\ JobKeepsRow(jobs[w]) /\ jobs[w].pc = "loop"
  BY DEF RowInv, PaidInv, TypeOK, ConfirmOrder, ConfirmOutOfStock, ConfirmSkip, ConfirmFails
<1>2. PICK confirmed \in BOOLEAN : Handled(w, o, confirmed)
  BY DEF ConfirmOrder, ConfirmOutOfStock, ConfirmSkip, ConfirmFails
<1> DEFINE job == [jobs[w] EXCEPT !.todo = @ \ {o}, !.any = @ \/ confirmed]
<1>3. JobKeepsRow(job)
  BY <1>1 DEF Job, JobKeepsRow, Rereading, Writing, Confirming
<1>4. SetJob(w, job)
  BY <1>2 DEF Handled
<1>5. \A v \in Workers : jobs'[v] = jobs[v] \/ JobKeepsRow(jobs'[v])
  BY <1>1, <1>3, <1>4, OneJob
<1>6. \A q \in Orders : /\ status'[q] = "Deleted" => status[q] = "Deleted"
                        /\ revenue[q] = "none" => revenue'[q] = "none"
  BY <1>1
  DEF TypeOK, ConfirmOrder, ConfirmOutOfStock, ConfirmSkip, ConfirmFails, orderVars
<1>7. UNCHANGED payOrder
  BY DEF ConfirmOrder, ConfirmOutOfStock, ConfirmSkip, ConfirmFails, payVars
<1> QED
  BY <1>5, <1>6, <1>7, RowStep

\* The other steps of a request of Purchase.
LEMMA RowContinueStep ==
    ASSUME RowInv, PaidInv', NEW w \in Workers,
           \/ ReuseIntent(w) \/ Abandon(w) \/ CheckStatus(w) \/ Publish(w)
           \/ ConfirmRead(w) \/ ConfirmDone(w)
    PROVE  RowInv'
<1>1. TypeOK /\ jobs[w] \in Job /\ JobKeepsRow(jobs[w])
  BY DEF RowInv, PaidInv, TypeOK
<1>2. CASE ReuseIntent(w) \/ Abandon(w)
  BY <1>2, NoJobKeepsRow, RowReadStep DEF ReuseIntent, Abandon
<1>3. CASE CheckStatus(w)
  <2> DEFINE answer == gateway[jobs[w].p]
             job == [jobs[w] EXCEPT
                       !.pc = IF answer = "COMPLETE" THEN "confirm" ELSE "publish",
                       !.gw = answer, !.cont = "publish"]
  <2>1. JobKeepsRow(job)
    BY <1>1 DEF Job, JobKeepsRow, Rereading, Writing, Confirming
  <2>2. SetJob(w, job) /\ UNCHANGED <<orderVars, payVars>>
    BY <1>3 DEF CheckStatus
  <2> HIDE DEF job
  <2> QED
    BY <2>1, <2>2, RowReadStep
<1>4. CASE Publish(w)
  <2>1. \A v \in Workers : jobs'[v] = jobs[v] \/ JobKeepsRow(jobs'[v])
    BY <1>1, <1>4, OneJob, NoJobKeepsRow DEF Publish
  <2> QED
    BY <1>4, <2>1, RowStep DEF Publish, orderVars
<1>5. CASE ConfirmRead(w)
  <2> DEFINE loop == [jobs[w] EXCEPT !.pc = "loop", !.todo = GroupOf[jobs[w].o]]
  <2>1. JobKeepsRow(loop)
    BY <1>1, <1>5 DEF ConfirmRead, Job, JobKeepsRow, Rereading, Writing, Confirming
  <2>2. JobKeepsRow(Return(jobs[w]))
    BY <1>1, <1>5, RowReturn DEF ConfirmRead, Confirming
  <2>3. /\ UNCHANGED <<orderVars, payVars>>
        /\ SetJob(w, loop) \/ SetJob(w, NoJob) \/ SetJob(w, Return(jobs[w]))
    BY <1>5 DEF ConfirmRead
  <2> HIDE DEF loop
  <2> QED
    BY <2>1, <2>2, <2>3, NoJobKeepsRow, RowReadStep
<1>6. CASE ConfirmDone(w)
  <2>1. JobKeepsRow(Return(jobs[w]))
    BY <1>1, <1>6, RowReturn DEF ConfirmDone, Confirming
  <2> QED
    BY <1>6, <2>1, RowReadStep DEF ConfirmDone
<1> QED
  BY <1>2, <1>3, <1>4, <1>5, <1>6

\* The gateway, cancellations and reviewed returns move no request.
LEMMA RowOutsideStep ==
    ASSUME RowInv, PaidInv', Environment \/ ReviewReturn
    PROVE  RowInv'
<1>1. UNCHANGED jobs /\ UNCHANGED payOrder /\ UNCHANGED revenue
  BY DEF Environment, ReviewReturn, CustomerPays, GatewayCloses, Cancel,
         ApproveReturn, RejectReturn, orderVars, payVars
<1>2. \A q \in Orders : status'[q] = "Deleted" => status[q] = "Deleted"
  BY DEF RowInv, PaidInv, TypeOK, Environment, ReviewReturn, CustomerPays,
         GatewayCloses, Cancel, ApproveReturn, RejectReturn, orderVars
<1> QED
  BY <1>1, <1>2, RowStep

\* What sellers, admins and customers decide is never "Deleted".
LEMMA RowDecideStep ==
    ASSUME RowInv, PaidInv', NEW w \in Workers, NEW o \in Orders, NEW st,
           NEW step \in {"stage", "edit", "return", "delete"}, Decide(w, step, o, st),
           step = "delete" \/ st # "Deleted"
    PROVE  RowInv'
<1> DEFINE job == [NoJob EXCEPT !.pc = step, !.o = o, !.st = st]
<1>1. JobKeepsRow(job)
  BY DEF NoJob, JobKeepsRow, Rereading, Writing, Confirming
<1> QED
  BY <1>1, RowReadStep DEF Decide

LEMMA RowWriteStep ==
    ASSUME RowInv, PaidInv', NEW w \in Workers,
           NEW step \in {"stage", "edit", "return"}, WriteStatus(w, step)
    PROVE  RowInv'
<1>1. TypeOK /\ jobs[w].st # "Deleted"
  BY DEF WriteStatus, RowInv, PaidInv, JobKeepsRow, Writing
<1>2. \A v \in Workers : jobs'[v] = jobs[v] \/ JobKeepsRow(jobs'[v])
  BY <1>1, OneJob, NoJobKeepsRow DEF WriteStatus
<1>3. UNCHANGED payOrder /\ UNCHANGED revenue
  BY DEF WriteStatus, payVars
<1>4. \A q \in Orders : status'[q] = "Deleted" => status[q] = "Deleted"
  BY <1>1 DEF WriteStatus, TypeOK
<1> QED
  BY <1>2, <1>3, <1>4, RowStep

LEMMA RowDeleteStep ==
    ASSUME RowInv, PaidInv', NEW w \in Workers, DeleteRow(w) \/ DeleteRefused(w)
    PROVE  RowInv'
<1>1. TypeOK
  BY DEF RowInv, PaidInv
<1>2. CASE DeleteRow(w)
  <2>1. \A v \in Workers : jobs'[v] = jobs[v] \/ JobKeepsRow(jobs'[v])
    BY <1>1, <1>2, OneJob, NoJobKeepsRow DEF DeleteRow
  <2>2. UNCHANGED payOrder /\ UNCHANGED revenue
    BY <1>2 DEF DeleteRow, payVars
  <2>3. \A q \in Orders : status'[q] = "Deleted" =>
           status[q] = "Deleted" \/ (PaymentsOf(q) = {} /\ revenue[q] = "none")
    BY <1>1, <1>2 DEF DeleteRow, TypeOK
  <2> QED
    BY <2>1, <2>2, <2>3, RowStep
<1>3. CASE DeleteRefused(w)
  BY <1>3, NoJobKeepsRow, RowReadStep DEF DeleteRefused
<1> QED
  BY <1>2, <1>3

LEMMA RowForceStep ==
    ASSUME RowInv, PaidInv', NEW w \in Workers, NEW o \in Orders,
           NEW st \in DeliveryStages, AdminForces(w, o, st)
    PROVE  RowInv'
<1> DEFINE job == [NoJob EXCEPT !.pc = "confirm", !.o = o, !.st = st, !.cont = "reread"]
<1>1. JobKeepsRow(job)
  BY DEF DeliveryStages, NoJob, JobKeepsRow, Rereading, Writing, Confirming
<1> QED
  BY <1>1, RowReadStep DEF AdminForces

LEMMA RowRereadStep ==
    ASSUME RowInv, PaidInv', NEW w \in Workers, Reread(w)
    PROVE  RowInv'
<1> DEFINE job == [jobs[w] EXCEPT !.pc = "stage", !.cont = "idle", !.any = FALSE]
<1>1. JobKeepsRow(jobs[w]) /\ jobs[w] \in Job
  BY DEF RowInv, PaidInv, TypeOK
<1>2. JobKeepsRow(job)
  BY <1>1 DEF Reread, Job, JobKeepsRow, Rereading, Writing, Confirming
<1>3. (SetJob(w, job) \/ SetJob(w, NoJob)) /\ UNCHANGED <<orderVars, payVars>>
  BY DEF Reread
<1> HIDE DEF job
<1> QED
  BY <1>2, <1>3, NoJobKeepsRow, RowReadStep

LEMMA RowManageStep ==
    ASSUME RowInv, PaidInv', NEW w \in Workers, Manage(w)
    PROVE  RowInv'
<1>1. CASE StageWrite(w) \/ EditWrite(w) \/ ReturnWrite(w)
  BY <1>1, RowWriteStep DEF StageWrite, EditWrite, ReturnWrite
<1>2. CASE Reread(w) \/ DeleteRow(w) \/ DeleteRefused(w)
  BY <1>2, RowRereadStep, RowDeleteStep
<1>3. ASSUME NEW o \in Orders, NEW st \in DeliveryStages,
             SellerDecides(w, o, st) \/ AdminDecides(w, o, st) \/ AdminForces(w, o, st)
      PROVE  RowInv'
  <2>1. st # "Deleted"
    BY DEF DeliveryStages
  <2> QED
    BY <1>3, <2>1, RowDecideStep, RowForceStep DEF SellerDecides, AdminDecides
<1>4. ASSUME NEW o \in Orders, NEW st \in Statuses, EditDecides(w, o, st)
      PROVE  RowInv'
  <2>1. st # "Deleted" /\ Decide(w, "edit", o, st)
    BY <1>4 DEF EditDecides, Transitions
  <2> QED
    BY <2>1, RowDecideStep
<1>5. ASSUME NEW o \in Orders, DeleteDecides(w, o) \/ ReturnDecides(w, o)
      PROVE  RowInv'
  BY <1>5, RowDecideStep DEF DeleteDecides, ReturnDecides
<1> QED
  BY <1>1, <1>2, <1>3, <1>4, <1>5 DEF Manage

LEMMA RowInvStep == RowInv /\ [FulfilmentNext]_vars => RowInv'
<1> SUFFICES ASSUME RowInv, [FulfilmentNext]_vars PROVE RowInv'
  OBVIOUS
<1>1. PaidInv'
  BY FulfilmentPaidInvStep DEF RowInv
<1>2. CASE UNCHANGED vars
  BY <1>1, <1>2, RowStep DEF vars
<1>3. CASE Environment \/ ReviewReturn
  BY <1>1, <1>3, RowOutsideStep
<1>4. ASSUME NEW w \in Workers, Begin(w) \/ Manage(w)
      PROVE  RowInv'
  BY <1>1, <1>4, RowBeginStep, RowManageStep
<1>5. ASSUME NEW w \in Workers, Continue(w) \/ Fault(w)
      PROVE  RowInv'
  BY <1>1, <1>5, RowInsertStep, RowContinueStep, RowLoopStep
  DEF Continue, Confirm, Fault
<1> QED
  BY <1>2, <1>3, <1>4, <1>5 DEF FulfilmentNext, PurchaseNext

LEMMA RowInvInit == Init => RowInv
<1> SUFFICES ASSUME Init PROVE RowInv
  OBVIOUS
<1>1. PaidInv
  BY PaidInvInit
<1>2. MoneyKeepsRow
  BY DEF Init, MoneyKeepsRow
<1>3. \A w \in Workers : JobKeepsRow(jobs[w])
  BY NoJobKeepsRow DEF Init
<1> QED
  BY <1>1, <1>2, <1>3 DEF RowInv

\* A deleted order has neither payment nor revenue, however checkouts,
\* confirmations and stale deletions interleave (deleteOrder, userDeleteOrder,
\* the RESTRICT foreign keys).
THEOREM FulfilmentMoneyKeepsRow == FulfilmentSpec => []MoneyKeepsRow
<1>1. FulfilmentSpec => []RowInv
  BY RowInvInit, RowInvStep, PTL DEF FulfilmentSpec
<1>2. RowInv => MoneyKeepsRow
  BY DEF RowInv
<1> QED
  BY <1>1, <1>2, PTL

-----------------------------------------------------------------------------
(* Stock moves with the status *)

\* adjustStock on order o touches the shelf of its product only.
LEMMA AdjustStep ==
    ASSUME TypeOK, NEW o \in Orders, NEW st,
           status' = [status EXCEPT ![o] = st],
           \/ Deduct(o) /\ status[o] = "Pending" /\ st = "Confirmed"
           \/ /\ Restore(o) /\ status[o] # st
              /\ st \in {"Cancelled", "Return Approved", "Deleted"},
           NEW pr \in Products
    PROVE  StockMoved(pr)
<1>1. status'[o] = st
  BY DEF TypeOK
<1>2. CASE ProductOf[o] = pr
  <2>1. CASE Deduct(o)
    BY <1>1, <1>2, <2>1 DEF Deduct, Restore, TypeOK, StockMoved
  <2>2. CASE Restore(o)
    BY <1>1, <1>2, <2>2 DEF Deduct, Restore, TypeOK, StockMoved
  <2> QED
    BY <2>1, <2>2
<1>3. CASE ProductOf[o] # pr
  BY <1>3 DEF Deduct, Restore, TypeOK, StockMoved
<1> QED
  BY <1>2, <1>3

LEMMA StockStep ==
    ASSUME PaidInv, [FulfilmentNext]_vars, NEW pr \in Products
    PROVE  StockMoved(pr)
<1> TypeOK
  BY DEF PaidInv
<1>1. CASE UNCHANGED stock
  BY <1>1 DEF StockMoved
<1>2. CASE UNCHANGED vars
  BY <1>1, <1>2 DEF vars
<1>3. CASE Environment
  <2>1. ASSUME NEW o \in Orders, Cancel(o)
        PROVE  StockMoved(pr)
    <3>1. CASE status[o] = "Confirmed"
      <4>1. Restore(o) /\ status' = [status EXCEPT ![o] = "Cancelled"]
        BY <2>1, <3>1 DEF Cancel
      <4> QED
        BY <3>1, <4>1, AdjustStep
    <3> QED
      BY <1>1, <2>1, <3>1 DEF Cancel
  <2> QED
    BY <1>1, <1>3, <2>1 DEF Environment, CustomerPays, GatewayCloses, orderVars
<1>4. CASE ReviewReturn
  <2>1. ASSUME NEW o \in Orders, ApproveReturn(o)
        PROVE  StockMoved(pr)
    <3>1. Restore(o) /\ status' = [status EXCEPT ![o] = "Return Approved"]
      BY <2>1 DEF ApproveReturn
    <3> QED
      BY <2>1, <3>1, AdjustStep DEF ApproveReturn
  <2> QED
    BY <1>1, <1>4, <2>1 DEF ReviewReturn, RejectReturn
<1>5. ASSUME NEW w \in Workers, Begin(w) \/ Fault(w)
      PROVE  UNCHANGED stock
  BY <1>5 DEF Begin, CheckoutRead, ConfirmRoute, CallbackRead, Fault, Abandon,
              ConfirmFails, orderVars
<1>6. ASSUME NEW w \in Workers, Continue(w)
      PROVE  StockMoved(pr)
  <2>1. ASSUME NEW o \in Orders, ConfirmOrder(w, o)
        PROVE  StockMoved(pr)
    BY <2>1, AdjustStep DEF ConfirmOrder
  <2> QED
    BY <1>1, <1>6, <2>1
    DEF Continue, Confirm, ReuseIntent, InsertIntent, CheckStatus, Publish, ConfirmRead,
        ConfirmDone, ConfirmOutOfStock, ConfirmSkip, orderVars
<1>7. ASSUME NEW w \in Workers, Manage(w)
      PROVE  StockMoved(pr)
  <2>1. CASE DeleteRow(w)
    <3>1. PICK o \in Orders : /\ status[o] # "Deleted"
                              /\ status' = [status EXCEPT ![o] = "Deleted"]
                              /\ Restore(o) \/ UNCHANGED stock
      BY <2>1 DEF DeleteRow, PaidInv, JobOK
    <3> QED
      BY <1>1, <3>1, AdjustStep
  <2> QED
    BY <1>1, <1>7, <2>1
    DEF Manage, Decide, SellerDecides, AdminDecides, AdminForces, EditDecides,
        DeleteDecides, ReturnDecides, Reread, WriteStatus, StageWrite, EditWrite,
        ReturnWrite, DeleteRefused, orderVars
<1> QED
  BY <1>1, <1>2, <1>3, <1>4, <1>5, <1>6, <1>7 DEF FulfilmentNext, PurchaseNext

\* README.md:237, for every interleaving: units move only in the step that moves
\* the status of their order (adjustStock and its callers).
THEOREM FulfilmentStockMoves == FulfilmentSpec => StockMovesWithStatus
<1>1. PaidInv /\ [FulfilmentNext]_vars =>
         [\A pr \in Products : StockMoved(pr)]_vars
  BY StockStep
<1> QED
  BY <1>1, FulfilmentPaidInv, PTL DEF FulfilmentSpec, StockMovesWithStatus


-----------------------------------------------------------------------------
(* Steps of Fulfilment *)

\* A request that holds no refund and writes no release of its own accord.
QuietJob(job) == ~Repaying(job) /\ ReleaseOK(job)

LEMMA QuietNoJob == QuietJob(NoJob)
BY DEF QuietJob, Repaying, ReleaseOK, NoJob, Confirming, Rereading, Writing

\* What was paid back stays paid back.
LEMMA PaidBackStays ==
    ASSUME PaymentOK, PaidBackOnce, Grows, UNCHANGED refundVars, NEW o, PaidBack(o)
    PROVE  PaidBack(o)'
<1>1. PICK p \in PaymentsOf(o) : refund[p] = "Succeeded" /\ payouts[p] = 1
  BY DEF PaidBack
<1>2. p \in Payments /\ payOrder[p] = o /\ gateway[p] = "COMPLETE"
  BY <1>1 DEF PaymentsOf, PaidBackOnce
<1>3. payOrder'[p] = o
  BY <1>2 DEF PaymentOK, Grows
<1> QED
  BY <1>1, <1>2, <1>3 DEF PaidBack, PaymentsOf, Payments, refundVars

\* So a request that was sound and did not move still is.
LEMMA RefundJobStays ==
    ASSUME RefundInv, Grows, UNCHANGED refundVars, NEW job
    PROVE  /\ RepayOK(job) => RepayOK(job)'
           /\ ReleaseOK(job) => ReleaseOK(job)'
<1>1. RepayOK(job) => RepayOK(job)'
  BY DEF RefundInv, PaidInv, PaymentOK, Grows, RepayOK, Repaying, refundVars
<1>2. PaidBack(job.o) => PaidBack(job.o)'
  BY PaidBackStays DEF RefundInv, PaidInv
<1> QED
  BY <1>1, <1>2 DEF ReleaseOK, Confirming, Rereading, Writing

\* A step that touches no refund keeps RefundInv if it releases nothing and
\* moves requests only to quiet jobs.
LEMMA QuietStep ==
    ASSUME RefundInv, PaidInv', Grows, UNCHANGED refundVars,
           \A o \in Orders : status'[o] = "Refund Released" =>
               status[o] = "Refund Released" \/ PaidBack(o),
           \A w \in Workers : jobs'[w] = jobs[w] \/ QuietJob(jobs'[w])
    PROVE  RefundInv'
<1>1. RefundTypeOK'
  BY DEF RefundInv, RefundTypeOK, PaidInv, refundVars, RefundStatuses
<1>2. PaidBackOnce'
  BY DEF RefundInv, PaidInv, PaymentOK, Grows, PaidBackOnce, refundVars
<1>3. ReleasedMeansPaid'
  <2>1. \A o \in Orders : PaidBack(o) => PaidBack(o)'
    BY PaidBackStays DEF RefundInv, PaidInv
  <2> QED
    BY <2>1 DEF RefundInv, ReleasedMeansPaid
<1>4. ASSUME NEW w \in Workers
      PROVE  RepayOK(jobs[w])' /\ ReleaseOK(jobs[w])'
  <2>1. PICK j : j = jobs'[w]
    OBVIOUS
  <2>2. RepayOK(j) /\ ReleaseOK(j)
    BY <2>1 DEF RefundInv, QuietJob, RepayOK
  <2>3. RepayOK(j)' /\ ReleaseOK(j)'
    BY <2>2, RefundJobStays
  <2> QED
    BY <2>1, <2>3 DEF RepayOK, ReleaseOK, Repaying, Confirming, Rereading, Writing
<1>5. OneRepays'
  BY DEF RefundInv, OneRepays, QuietJob, Repaying
<1> QED
  BY <1>1, <1>2, <1>3, <1>4, <1>5 DEF RefundInv

LEMMA QuietMove ==
    ASSUME RefundInv, NEW w \in Workers, NEW job, SetJob(w, job), QuietJob(job)
    PROVE  \A v \in Workers : jobs'[v] = jobs[v] \/ QuietJob(jobs'[v])
BY DEF RefundInv, PaidInv, TypeOK, SetJob

\* A step that only moves request w.
LEMMA QuietReadStep ==
    ASSUME RefundInv, PaidInv', UNCHANGED refundVars, UNCHANGED <<orderVars, payVars>>,
           forced \subseteq forced',
           NEW w \in Workers, NEW job, SetJob(w, job), QuietJob(job)
    PROVE  RefundInv'
<1>1. Grows /\ UNCHANGED status
  BY DEF Grows, orderVars, payVars
<1> QED
  BY <1>1, QuietMove, QuietStep DEF RefundInv, ReleasedMeansPaid

\* confirmOrderCore goes back to a request as quiet as it came from.
LEMMA QuietReturn ==
    ASSUME NEW job \in Job, Confirming(job), ReleaseOK(job)
    PROVE  QuietJob(Return(job))
BY QuietNoJob
DEF Return, Job, QuietJob, Repaying, ReleaseOK, Rereading, Writing, Confirming

-----------------------------------------------------------------------------
(* The handlers of Purchase *)

LEMMA QuietBeginStep ==
    ASSUME RefundInv, PaidInv', UNCHANGED refundVars, NEW w \in Workers, Begin(w)
    PROVE  RefundInv'
<1>1. ASSUME NEW o \in Orders, CheckoutRead(w, o)
      PROVE  RefundInv'
  <2> DEFINE job == [NoJob EXCEPT !.pc = "checkout", !.o = o]
  <2>1. QuietJob(job)
    BY DEF NoJob, QuietJob, Repaying, ReleaseOK, Rereading, Writing, Confirming
  <2> QED
    BY <1>1, <2>1, QuietReadStep DEF CheckoutRead
<1>2. ASSUME NEW o \in Orders, ConfirmRoute(w, o)
      PROVE  RefundInv'
  <2> DEFINE job == [NoJob EXCEPT !.pc = "confirm", !.o = o]
  <2>1. QuietJob(job)
    BY DEF NoJob, QuietJob, Repaying, ReleaseOK, Rereading, Writing, Confirming
  <2> QED
    BY <1>2, <2>1, QuietReadStep DEF ConfirmRoute
<1>3. ASSUME NEW p \in Payments, CallbackRead(w, p)
      PROVE  RefundInv'
  <2> DEFINE job == [NoJob EXCEPT !.pc = "check", !.o = payOrder[p], !.p = p]
  <2>1. QuietJob(job)
    BY DEF NoJob, QuietJob, Repaying, ReleaseOK, Rereading, Writing, Confirming
  <2> QED
    BY <1>3, <2>1, QuietReadStep DEF CallbackRead
<1> QED
  BY <1>1, <1>2, <1>3 DEF Begin

LEMMA QuietCallbackStep ==
    ASSUME RefundInv, PaidInv', UNCHANGED refundVars, NEW w \in Workers,
           ReuseIntent(w) \/ Abandon(w) \/ CheckStatus(w)
    PROVE  RefundInv'
<1>1. CASE ReuseIntent(w) \/ Abandon(w)
  BY <1>1, QuietNoJob, QuietReadStep DEF ReuseIntent, Abandon
<1>2. CASE CheckStatus(w)
  <2> DEFINE answer == gateway[jobs[w].p]
             job == [jobs[w] EXCEPT
                       !.pc = IF answer = "COMPLETE" THEN "confirm" ELSE "publish",
                       !.gw = answer, !.cont = "publish"]
  <2>1. jobs[w] \in Job
    BY DEF RefundInv, PaidInv, TypeOK
  <2>2. QuietJob(job)
    BY <2>1 DEF Job, QuietJob, Repaying, ReleaseOK, Rereading, Writing, Confirming
  <2>3. SetJob(w, job) /\ UNCHANGED <<orderVars, payVars, forced>>
    BY <1>2 DEF CheckStatus
  <2> HIDE DEF job
  <2> QED
    BY <2>2, <2>3, QuietReadStep
<1> QED
  BY <1>1, <1>2

\* The payment row inserted or published: nothing the refunds rest on changes.
LEMMA QuietPaymentStep ==
    ASSUME RefundInv, PaidInv', UNCHANGED refundVars, NEW w \in Workers,
           Publish(w) \/ \E p \in Payments : InsertIntent(w, p)
    PROVE  RefundInv'
<1>1. SetJob(w, NoJob) /\ UNCHANGED status
  BY DEF Publish, InsertIntent, orderVars
<1>2. Grows
  <2>1. CASE Publish(w)
    BY <2>1 DEF Publish, Grows, RefundInv, PaidInv, TypeOK
  <2>2. ASSUME NEW p \in Payments, InsertIntent(w, p)
        PROVE  Grows
    BY <2>2 DEF InsertIntent, Grows, RefundInv, PaidInv, TypeOK
  <2> QED
    BY <2>1, <2>2
<1> QED
  BY <1>1, <1>2, QuietNoJob, QuietMove, QuietStep DEF RefundInv, ReleasedMeansPaid

LEMMA QuietConfirmStep ==
    ASSUME RefundInv, PaidInv', UNCHANGED refundVars, NEW w \in Workers,
           ConfirmRead(w) \/ ConfirmDone(w)
    PROVE  RefundInv'
<1> DEFINE loop == [jobs[w] EXCEPT !.pc = "loop", !.todo = GroupOf[jobs[w].o]]
<1>1. jobs[w] \in Job /\ Confirming(jobs[w]) /\ ReleaseOK(jobs[w])
  BY DEF RefundInv, PaidInv, TypeOK, ConfirmRead, ConfirmDone, Confirming
<1>2. QuietJob(loop)
  BY <1>1 DEF Job, QuietJob, Repaying, ReleaseOK, Rereading, Writing, Confirming
<1>3. QuietJob(Return(jobs[w]))
  BY <1>1, QuietReturn
<1>4. /\ UNCHANGED <<orderVars, payVars, forced>>
      /\ SetJob(w, loop) \/ SetJob(w, NoJob) \/ SetJob(w, Return(jobs[w]))
  BY DEF ConfirmRead, ConfirmDone
<1> HIDE DEF loop
<1> QED
  BY <1>2, <1>3, <1>4, QuietNoJob, QuietReadStep

\* The loop of confirmOrderCore.
LEMMA QuietLoopStep ==
    ASSUME RefundInv, PaidInv', UNCHANGED refundVars, NEW w \in Workers, NEW o \in Orders,
           \/ ConfirmOrder(w, o) \/ ConfirmOutOfStock(w, o)
           \/ ConfirmSkip(w, o) \/ ConfirmFails(w, o)
    PROVE  RefundInv'
<1>1. TypeOK /\ jobs[w] \in Job /\ ReleaseOK(jobs[w]) /\ jobs[w].pc = "loop"
  BY DEF RefundInv, PaidInv, TypeOK, ConfirmOrder, ConfirmOutOfStock, ConfirmSkip,
         ConfirmFails
<1>2. PICK confirmed \in BOOLEAN : Handled(w, o, confirmed)
  BY DEF ConfirmOrder, ConfirmOutOfStock, ConfirmSkip, ConfirmFails
<1> DEFINE job == [jobs[w] EXCEPT !.todo = @ \ {o}, !.any = @ \/ confirmed]
<1>3. QuietJob(job)
  BY <1>1 DEF Job, QuietJob, Repaying, ReleaseOK, Rereading, Writing, Confirming
<1>4. SetJob(w, job)
  BY <1>2 DEF Handled
<1>5. UNCHANGED <<payVars, forced>>
  BY DEF ConfirmOrder, ConfirmOutOfStock, ConfirmSkip, ConfirmFails
<1>6. \A q \in Orders :
         status'[q] = "Refund Released" => status[q] = "Refund Released"
  BY <1>1 DEF TypeOK, ConfirmOrder, ConfirmOutOfStock, ConfirmSkip, ConfirmFails, orderVars
<1>7. \A v \in Workers : jobs'[v] = jobs[v] \/ QuietJob(jobs'[v])
  BY <1>3, <1>4, QuietMove
<1> QED
  BY <1>5, <1>6, <1>7, UnchangedGrows, QuietStep

\* The gateway, cancellations and reviewed returns move no request.
LEMMA QuietOutsideStep ==
    ASSUME RefundInv, PaidInv', UNCHANGED refundVars, Environment \/ ReviewReturn
    PROVE  RefundInv'
<1>1. UNCHANGED jobs /\ Grows
  BY DEF RefundInv, PaidInv, TypeOK, Environment, ReviewReturn, CustomerPays,
         GatewayCloses, Cancel, ApproveReturn, RejectReturn, payVars, Grows
<1>2. \A q \in Orders :
         status'[q] = "Refund Released" => status[q] = "Refund Released"
  BY DEF RefundInv, PaidInv, TypeOK, Environment, ReviewReturn, CustomerPays,
         GatewayCloses, Cancel, ApproveReturn, RejectReturn, orderVars
<1> QED
  BY <1>1, <1>2, QuietStep

-----------------------------------------------------------------------------
(* The handlers of Fulfilment *)

\* A decision releases nothing: the status to be written is another one, or the
\* one that the order has.
LEMMA QuietDecideStep ==
    ASSUME RefundInv, PaidInv', UNCHANGED refundVars, NEW w \in Workers,
           NEW o \in Orders, NEW st, NEW step \in {"stage", "edit", "return", "delete"},
           Decide(w, step, o, st),
           st = "Refund Released" => step = "delete" \/ status[o] = "Refund Released"
    PROVE  RefundInv'
<1> DEFINE job == [NoJob EXCEPT !.pc = step, !.o = o, !.st = st]
<1>1. st = "Refund Released" => step = "delete" \/ PaidBack(o)
  BY DEF RefundInv, ReleasedMeansPaid
<1>2. QuietJob(job)
  BY <1>1 DEF NoJob, QuietJob, Repaying, ReleaseOK, Rereading, Writing, Confirming
<1> QED
  BY <1>2, QuietReadStep DEF Decide

LEMMA QuietWriteStep ==
    ASSUME RefundInv, PaidInv', UNCHANGED refundVars, NEW w \in Workers,
           NEW step \in {"stage", "edit", "return"}, WriteStatus(w, step)
    PROVE  RefundInv'
<1>1. TypeOK /\ (jobs[w].st = "Refund Released" => PaidBack(jobs[w].o))
  BY DEF WriteStatus, RefundInv, PaidInv, ReleaseOK, Writing
<1>2. \A q \in Orders : status'[q] = "Refund Released" =>
         status[q] = "Refund Released" \/ PaidBack(q)
  BY <1>1 DEF WriteStatus, TypeOK
<1>3. Grows
  BY UnchangedGrows DEF WriteStatus
<1> QED
  BY <1>2, <1>3, QuietNoJob, QuietMove, QuietStep DEF WriteStatus

LEMMA QuietDeleteStep ==
    ASSUME RefundInv, PaidInv', UNCHANGED refundVars, NEW w \in Workers,
           DeleteRow(w) \/ DeleteRefused(w)
    PROVE  RefundInv'
<1>1. SetJob(w, NoJob) /\ Grows
  BY UnchangedGrows DEF DeleteRow, DeleteRefused
<1>2. \A q \in Orders :
         status'[q] = "Refund Released" => status[q] = "Refund Released"
  BY DEF DeleteRow, DeleteRefused, RefundInv, PaidInv, TypeOK, orderVars
<1> QED
  BY <1>1, <1>2, QuietNoJob, QuietMove, QuietStep

LEMMA QuietForceStep ==
    ASSUME RefundInv, PaidInv', UNCHANGED refundVars, NEW w \in Workers,
           NEW o \in Orders, NEW st \in DeliveryStages, AdminForces(w, o, st)
    PROVE  RefundInv'
<1> DEFINE job == [NoJob EXCEPT !.pc = "confirm", !.o = o, !.st = st, !.cont = "reread"]
<1>1. QuietJob(job)
  BY DEF DeliveryStages, NoJob, QuietJob, Repaying, ReleaseOK, Rereading, Writing,
         Confirming
<1> QED
  BY <1>1, QuietReadStep DEF AdminForces

LEMMA QuietRereadStep ==
    ASSUME RefundInv, PaidInv', UNCHANGED refundVars, NEW w \in Workers, Reread(w)
    PROVE  RefundInv'
<1> DEFINE job == [jobs[w] EXCEPT !.pc = "stage", !.cont = "idle", !.any = FALSE]
<1>1. ReleaseOK(jobs[w]) /\ jobs[w] \in Job
  BY DEF RefundInv, PaidInv, TypeOK
<1>2. QuietJob(job)
  BY <1>1 DEF Reread, Job, QuietJob, Repaying, ReleaseOK, Rereading, Writing, Confirming
<1>3. (SetJob(w, job) \/ SetJob(w, NoJob)) /\ UNCHANGED <<orderVars, payVars, forced>>
  BY DEF Reread
<1> HIDE DEF job
<1> QED
  BY <1>2, <1>3, QuietNoJob, QuietReadStep

LEMMA QuietManageStep ==
    ASSUME RefundInv, PaidInv', UNCHANGED refundVars, NEW w \in Workers, Manage(w)
    PROVE  RefundInv'
<1>1. CASE StageWrite(w) \/ EditWrite(w) \/ ReturnWrite(w)
  BY <1>1, QuietWriteStep DEF StageWrite, EditWrite, ReturnWrite
<1>2. CASE Reread(w) \/ DeleteRow(w) \/ DeleteRefused(w)
  BY <1>2, QuietRereadStep, QuietDeleteStep
<1>3. ASSUME NEW o \in Orders, NEW st \in DeliveryStages,
             SellerDecides(w, o, st) \/ AdminDecides(w, o, st) \/ AdminForces(w, o, st)
      PROVE  RefundInv'
  <2>1. st # "Refund Released"
    BY DEF DeliveryStages
  <2> QED
    BY <1>3, <2>1, QuietDecideStep, QuietForceStep DEF SellerDecides, AdminDecides
<1>4. ASSUME NEW o \in Orders, NEW st \in Statuses, EditDecides(w, o, st)
      PROVE  RefundInv'
  <2>1. /\ Decide(w, "edit", o, st)
        /\ st = "Refund Released" => status[o] = "Refund Released"
    BY <1>4 DEF EditDecides, Transitions
  <2> QED
    BY <2>1, QuietDecideStep
<1>5. ASSUME NEW o \in Orders, DeleteDecides(w, o) \/ ReturnDecides(w, o)
      PROVE  RefundInv'
  BY <1>5, QuietDecideStep DEF DeleteDecides, ReturnDecides
<1> QED
  BY <1>1, <1>2, <1>3, <1>4, <1>5 DEF Manage

LEMMA QuietFulfilmentStep ==
    ASSUME RefundInv, [FulfilmentNext]_vars, UNCHANGED refundVars
    PROVE  RefundInv'
<1>1. PaidInv'
  BY FulfilmentPaidInvStep DEF RefundInv
<1>2. CASE UNCHANGED vars
  <2>1. Grows /\ UNCHANGED status /\ UNCHANGED jobs
    BY <1>2, UnchangedGrows DEF vars, payVars
  <2> QED
    BY <1>1, <2>1, QuietStep
<1>3. CASE Environment \/ ReviewReturn
  BY <1>1, <1>3, QuietOutsideStep
<1>4. ASSUME NEW w \in Workers, Begin(w) \/ Manage(w)
      PROVE  RefundInv'
  BY <1>1, <1>4, QuietBeginStep, QuietManageStep
<1>5. ASSUME NEW w \in Workers, Continue(w) \/ Fault(w)
      PROVE  RefundInv'
  BY <1>1, <1>5, QuietCallbackStep, QuietPaymentStep, QuietConfirmStep, QuietLoopStep
  DEF Continue, Confirm, Fault
<1> QED
  BY <1>2, <1>3, <1>4, <1>5 DEF FulfilmentNext, PurchaseNext

-----------------------------------------------------------------------------
(* releaseRefund *)

\* A request between claim and settlement is the only one on its refund.
LEMMA HolderAlone ==
    ASSUME RefundInv, NEW w \in Workers, Repaying(jobs[w])
    PROVE  /\ jobs[w] \in Job
           /\ jobs[w].p \in Payments /\ jobs[w].o = payOrder[jobs[w].p]
           /\ gateway[jobs[w].p] = "COMPLETE" /\ refund[jobs[w].p] = "Processing"
           /\ payouts[jobs[w].p] =
                 IF jobs[w].pc = "settle" /\ jobs[w].gw = "COMPLETE" THEN 1 ELSE 0
           /\ jobs[w].gw = "CANCELED" => payouts[jobs[w].p] # 1
           /\ \A v \in Workers \ {w} : ~(Repaying(jobs[v]) /\ jobs[v].p = jobs[w].p)
BY DEF RefundInv, PaidInv, TypeOK, RepayOK, OneRepays

\* A step of request w on the refund of payment p, which no other request
\* holds, leaves the refunds of all other payments as they were.
LEMMA HolderStep ==
    ASSUME RefundInv, PaidInv', UNCHANGED payVars, NEW w \in Workers, NEW p \in Payments,
           NEW job \in Job, SetJob(w, job), Repaying(job) => job.p = p,
           RepayOK(job)', ~Rereading(job), ~Writing(job),
           refund[p] # "Succeeded",
           refund' \in [Payments -> RefundStatuses], payouts' \in [Payments -> Nat],
           \A q \in Payments \ {p} : refund'[q] = refund[q] /\ payouts'[q] = payouts[q],
           payouts'[p] <= 1,
           payouts'[p] = 1 => /\ gateway[p] = "COMPLETE"
                              /\ refund'[p] \in {"Processing", "Succeeded"},
           \A v \in Workers \ {w} : ~(Repaying(jobs[v]) /\ jobs[v].p = p),
           \A o \in Orders :
               status'[o] = "Refund Released" =>
                   status[o] = "Refund Released" \/ PaidBack(o)'
    PROVE  RefundInv'
<1>1. \A v \in Workers : jobs'[v] = IF v = w THEN job ELSE jobs[v]
  BY DEF RefundInv, PaidInv, TypeOK, SetJob
<1>2. RefundTypeOK'
  BY DEF RefundTypeOK, PaidInv
<1>3. PaidBackOnce'
  BY DEF RefundInv, PaidBackOnce, payVars
<1>4. \A o : PaidBack(o) => PaidBack(o)'
  BY DEF PaidBack, PaymentsOf, Payments, payVars
<1>5. ReleasedMeansPaid'
  BY <1>4 DEF RefundInv, ReleasedMeansPaid
<1>6. ASSUME NEW v \in Workers
      PROVE  RepayOK(jobs[v])' /\ ReleaseOK(jobs[v])'
  <2>1. CASE v = w
    <3>1. jobs'[v] = job
      BY <1>1, <2>1
    <3> QED
      BY <3>1 DEF RepayOK, ReleaseOK, Repaying, Confirming, Rereading, Writing
  <2>2. CASE v # w
    <3>1. PICK j : j = jobs[v]
      OBVIOUS
    <3>2. jobs'[v] = j /\ RepayOK(j) /\ ReleaseOK(j) /\ ~(Repaying(j) /\ j.p = p)
      BY <1>1, <2>2, <3>1 DEF RefundInv
    <3>3. RepayOK(j)'
      BY <3>2 DEF RepayOK, Repaying, payVars
    <3>4. ReleaseOK(j)'
      BY <1>4, <3>2 DEF ReleaseOK, Confirming, Rereading, Writing
    <3> QED
      BY <3>2, <3>3, <3>4
      DEF RepayOK, ReleaseOK, Repaying, Confirming, Rereading, Writing
  <2> QED
    BY <2>1, <2>2
<1>7. OneRepays'
  <2>1. SUFFICES ASSUME NEW u \in Workers, NEW v \in Workers,
                        Repaying(jobs'[u]), Repaying(jobs'[v]), jobs'[u].p = jobs'[v].p
                 PROVE  u = v
    BY DEF OneRepays, Repaying
  <2>2. CASE u # w /\ v # w
    BY <1>1, <2>1, <2>2 DEF RefundInv, OneRepays
  <2>3. CASE u = w /\ v # w
    BY <1>1, <2>1, <2>3
  <2>4. CASE u # w /\ v = w
    BY <1>1, <2>1, <2>4
  <2> QED
    BY <2>2, <2>3, <2>4
<1> QED
  BY <1>2, <1>3, <1>5, <1>6, <1>7 DEF RefundInv

\* A job of releaseRefund, or none, asks nothing more of PaidInv than its order.
LEMMA RepayJobOK ==
    ASSUME NEW job, job.pc \in {"refund", "settle"}, job.o \in Orders
    PROVE  JobOK(job) /\ ~Rereading(job) /\ ~Writing(job) /\ Repaying(job)
BY DEF JobOK, Confirming, Publishing, Rereading, Writing, Repaying

LEMMA NoJobHolds == ~Rereading(NoJob) /\ ~Writing(NoJob) /\ ~Repaying(NoJob)
BY DEF NoJob, Confirming, Rereading, Writing, Repaying

LEMMA ClaimRefundStep ==
    ASSUME RefundInv, NEW w \in Workers, NEW o \in Orders, NEW p \in Payments,
           ClaimRefund(w, o, p)
    PROVE  RefundInv'
<1>1. /\ gateway[p] = "COMPLETE" /\ payOrder[p] = o
      /\ refund[p] \in {"none", "Failed"} /\ status[o] \in Statuses
  BY DEF ClaimRefund, IsRefundable, PaymentsOf, RefundInv, PaidInv, PaymentOK, TypeOK
<1>2. payouts[p] = 0
  BY <1>1 DEF RefundInv, RefundTypeOK, PaidBackOnce
<1>3. \A v \in Workers : ~(Repaying(jobs[v]) /\ jobs[v].p = p)
  BY <1>1 DEF RefundInv, RepayOK
<1>4. PICK job \in Job : /\ SetJob(w, job)
                         /\ job.pc = "refund" /\ job.o = o /\ job.p = p
  <2> DEFINE claim == [NoJob EXCEPT !.pc = "refund", !.o = o, !.p = p, !.st = status[o]]
  <2>1. claim \in Job /\ claim.pc = "refund" /\ claim.o = o /\ claim.p = p
    BY <1>1 DEF NoJob, Job, Steps
  <2>2. SetJob(w, claim)
    BY DEF ClaimRefund
  <2> HIDE DEF claim
  <2> QED
    BY <2>1, <2>2
<1>5. /\ UNCHANGED <<orderVars, payVars, forced, payouts>>
      /\ refund' = [refund EXCEPT ![p] = "Processing"]
  BY DEF ClaimRefund
<1>6. JobOK(job) /\ ~Rereading(job) /\ ~Writing(job) /\ Repaying(job)
  BY <1>4, RepayJobOK
<1>7. PaidInv'
  BY <1>4, <1>5, <1>6, ReadStep DEF RefundInv
<1>8. /\ refund' \in [Payments -> RefundStatuses] /\ refund'[p] = "Processing"
      /\ \A q \in Payments \ {p} : refund'[q] = refund[q]
  BY <1>5 DEF RefundInv, RefundTypeOK, RefundStatuses
<1>9. RepayOK(job)'
  BY <1>1, <1>2, <1>4, <1>5, <1>8 DEF RepayOK, payVars
<1>10. payouts' \in [Payments -> Nat] /\ UNCHANGED <<payouts, status, payVars>>
  BY <1>5 DEF RefundInv, RefundTypeOK, orderVars
<1>11. payouts'[p] <= 1 /\ payouts'[p] # 1
  BY <1>2, <1>10
<1>12. refund[p] # "Succeeded"
  BY <1>1
<1> QED
  BY <1>3, <1>4, <1>6, <1>7, <1>8, <1>9, <1>10, <1>11, <1>12, HolderStep

LEMMA ProviderStep ==
    ASSUME RefundInv, NEW w \in Workers, ProviderPays(w) \/ ProviderRefuses(w)
    PROVE  RefundInv'
<1>1. jobs[w].pc = "refund" /\ Repaying(jobs[w])
  BY DEF ProviderPays, ProviderRefuses, Repaying
<1>2. PICK p \in Payments :
      /\ p = jobs[w].p /\ jobs[w] \in Job /\ jobs[w].o = payOrder[p]
      /\ gateway[p] = "COMPLETE" /\ refund[p] = "Processing" /\ payouts[p] = 0
      /\ \A v \in Workers \ {w} : ~(Repaying(jobs[v]) /\ jobs[v].p = p)
  BY <1>1, HolderAlone
<1>3. jobs[w].o \in Orders
  BY <1>1 DEF RefundInv, PaidInv, JobOK
<1>4. PICK gw \in {"COMPLETE", "CANCELED"} :
         /\ SetJob(w, [jobs[w] EXCEPT !.pc = "settle", !.gw = gw])
         /\ payouts' = [payouts EXCEPT ![p] = IF gw = "COMPLETE" THEN 1 ELSE 0]
  <2>1. CASE ProviderPays(w)
    <3>1. payouts[p] + 1 = 1
      BY <1>2
    <3>2. payouts' = [payouts EXCEPT ![p] = payouts[p] + 1]
      BY <1>2, <2>1 DEF ProviderPays
    <3> QED
      BY <2>1, <3>1, <3>2 DEF ProviderPays
  <2>2. CASE ProviderRefuses(w)
    <3>1. payouts' = [payouts EXCEPT ![p] = 0]
      BY <1>2, <2>2 DEF ProviderRefuses, refundVars, RefundInv, RefundTypeOK
    <3> QED
      BY <2>2, <3>1 DEF ProviderRefuses
  <2> QED
    BY <2>1, <2>2
<1>5. UNCHANGED <<orderVars, payVars, forced, refund>>
  BY DEF ProviderPays, ProviderRefuses, refundVars
<1>6. PICK job \in Job : /\ SetJob(w, job) /\ job.pc = "settle" /\ job.gw = gw
                         /\ job.o = jobs[w].o /\ job.p = p
  <2> DEFINE answered == [jobs[w] EXCEPT !.pc = "settle", !.gw = gw]
  <2>1. /\ answered \in Job /\ answered.pc = "settle" /\ answered.gw = gw
        /\ answered.o = jobs[w].o /\ answered.p = p
    BY <1>2 DEF Job, Steps, GatewayStatuses
  <2>2. SetJob(w, answered)
    BY <1>4
  <2> HIDE DEF answered
  <2> QED
    BY <2>1, <2>2
<1>7. JobOK(job) /\ ~Rereading(job) /\ ~Writing(job) /\ Repaying(job)
  BY <1>3, <1>6, RepayJobOK
<1>8. PaidInv'
  BY <1>5, <1>6, <1>7, ReadStep DEF RefundInv
<1>9. /\ payouts' \in [Payments -> Nat]
      /\ payouts'[p] = IF gw = "COMPLETE" THEN 1 ELSE 0
      /\ \A q \in Payments \ {p} : payouts'[q] = payouts[q]
  BY <1>2, <1>4 DEF RefundInv, RefundTypeOK
<1>10. RepayOK(job)'
  BY <1>2, <1>5, <1>6, <1>9 DEF RepayOK, payVars
<1>11. refund' \in [Payments -> RefundStatuses] /\ UNCHANGED <<refund, status, payVars>>
  BY <1>5 DEF RefundInv, RefundTypeOK, orderVars
<1>12. /\ refund[p] # "Succeeded" /\ payouts'[p] <= 1
       /\ gateway[p] = "COMPLETE" /\ refund'[p] \in {"Processing", "Succeeded"}
  BY <1>2, <1>9, <1>11
<1>13. \A v \in Workers \ {w} : ~(Repaying(jobs[v]) /\ jobs[v].p = p)
  BY <1>2
<1> QED
  BY <1>6, <1>7, <1>8, <1>9, <1>10, <1>11, <1>12, <1>13, HolderStep

\* A settlement that writes the refund row and ends the request.
LEMMA SettleStep ==
    ASSUME RefundInv, PaidInv', UNCHANGED payVars, UNCHANGED payouts, NEW w \in Workers,
           jobs[w].pc = "settle", SetJob(w, NoJob),
           NEW outcome \in {"Succeeded", "Failed"},
           \/ jobs[w].gw = "COMPLETE" /\ outcome = "Succeeded"
           \/ jobs[w].gw = "CANCELED" /\ outcome = "Failed",
           refund' = [refund EXCEPT ![jobs[w].p] = outcome],
           \A o \in Orders : status'[o] = "Refund Released" =>
               \/ status[o] = "Refund Released"
               \/ o = jobs[w].o /\ jobs[w].gw = "COMPLETE"
    PROVE  RefundInv'
<1>1. Repaying(jobs[w])
  BY DEF Repaying
<1>2. PICK p \in Payments :
      /\ p = jobs[w].p /\ jobs[w].o = payOrder[p]
      /\ gateway[p] = "COMPLETE" /\ refund[p] = "Processing"
      /\ jobs[w].gw = "COMPLETE" => payouts[p] = 1
      /\ jobs[w].gw = "CANCELED" => payouts[p] # 1
      /\ \A v \in Workers \ {w} : ~(Repaying(jobs[v]) /\ jobs[v].p = p)
  BY <1>1, HolderAlone
<1>3. /\ refund' \in [Payments -> RefundStatuses] /\ refund'[p] = outcome
      /\ \A q \in Payments \ {p} : refund'[q] = refund[q]
  BY <1>2 DEF RefundInv, RefundTypeOK, RefundStatuses
<1>4. payouts' \in [Payments -> Nat] /\ UNCHANGED payouts /\ UNCHANGED payVars
  BY DEF RefundInv, RefundTypeOK
<1>5. \A o \in Orders : status'[o] = "Refund Released" =>
         status[o] = "Refund Released" \/ PaidBack(o)'
  BY <1>2, <1>3, <1>4 DEF PaidBack, PaymentsOf, Payments, payVars
<1>6. PICK job \in Job : job = NoJob
  BY NoJobOK
<1>7. SetJob(w, job) /\ ~Rereading(job) /\ ~Writing(job) /\ ~Repaying(job)
  BY <1>6, NoJobHolds
<1>8. RepayOK(job)'
  BY <1>7 DEF RepayOK, Repaying
<1>9. /\ refund[p] # "Succeeded" /\ payouts'[p] <= 1
      /\ payouts'[p] = 1 => /\ gateway[p] = "COMPLETE"
                            /\ refund'[p] \in {"Processing", "Succeeded"}
  <2>1. refund[p] = "Processing" /\ gateway[p] = "COMPLETE"
    BY <1>2
  <2>2. payouts'[p] <= 1
    BY <1>4 DEF RefundInv, PaidBackOnce
  <2>3. CASE jobs[w].gw = "COMPLETE"
    BY <1>3, <2>1, <2>2, <2>3
  <2>4. CASE jobs[w].gw = "CANCELED"
    BY <1>2, <1>4, <2>1, <2>2, <2>4, Zenon
  <2> QED
    BY <2>3, <2>4
<1>10. \A v \in Workers \ {w} : ~(Repaying(jobs[v]) /\ jobs[v].p = p)
  BY <1>2
<1> QED
  BY <1>3, <1>4, <1>5, <1>7, <1>8, <1>9, <1>10, HolderStep

LEMMA SettleRefusedStep ==
    ASSUME RefundInv, NEW w \in Workers, SettleRefused(w)
    PROVE  RefundInv'
<1>1. jobs[w].pc = "settle" /\ Repaying(jobs[w])
  BY DEF SettleRefused, Repaying
<1>2. refund' = [refund EXCEPT ![jobs[w].p] = "Failed"]
  BY <1>1, HolderAlone DEF SettleRefused
<1>3. /\ UNCHANGED <<orderVars, payVars, forced, payouts>> /\ SetJob(w, NoJob)
      /\ jobs[w].gw = "CANCELED"
  BY DEF SettleRefused
<1>4. PaidInv' /\ UNCHANGED status
  BY <1>3, NoJobOK, ReadStep DEF RefundInv, orderVars
<1> QED
  BY <1>1, <1>2, <1>3, <1>4, SettleStep

\* The settlement counts the revenue of an order that was charged.
LEMMA SettlePaidStep ==
    ASSUME RefundInv, NEW w \in Workers, SettlePaid(w)
    PROVE  RefundInv'
<1>1. /\ jobs[w].pc = "settle" /\ Repaying(jobs[w]) /\ jobs[w].gw = "COMPLETE"
      /\ SetJob(w, NoJob) /\ UNCHANGED <<stock, payVars, forced, payouts>>
      /\ refund' = [refund EXCEPT ![jobs[w].p] = "Succeeded"]
      /\ status' = [status EXCEPT ![jobs[w].o] = "Refund Released"]
      /\ \/ revenue' = revenue
         \/ revenue' = [revenue EXCEPT ![jobs[w].o] = "Refunded"]
  BY DEF SettlePaid, Repaying
<1>2. TypeOK /\ PaidInv /\ jobs[w].o \in Orders
  BY <1>1 DEF RefundInv, PaidInv, JobOK
<1>3. Backed(jobs[w].o)
  BY <1>1, <1>2, HolderAlone, StoreAssumption DEF Backed, Charged, GroupPayments
<1>4. jobs' \in [Workers -> Job] /\ \A v \in Workers : JobOK(jobs[v])'
  BY <1>1, <1>2, UnchangedGrows, NoJobOK, JobsStay
<1>5. /\ status' \in [Orders -> Statuses] /\ stock' \in [Products -> Nat]
      /\ revenue' \in [Orders -> RevenueStatuses]
  BY <1>1, <1>2 DEF TypeOK, Statuses, RevenueStatuses
<1>6. \A o \in Orders :
         /\ status'[o] \in PastConfirmation => status[o] \in PastConfirmation
         /\ revenue'[o] \in {"Completed", "Refunded"} =>
               revenue[o] \in {"Completed", "Refunded"} \/ Backed(o)
         /\ status'[o] = "Refund Released" =>
               status[o] = "Refund Released" \/ o = jobs[w].o
  BY <1>1, <1>2, <1>3 DEF TypeOK, PastConfirmation, HoldsStock
<1>7. PaidInv'
  BY <1>1, <1>2, <1>4, <1>5, <1>6, OrderStep
<1> QED
  BY <1>1, <1>6, <1>7, SettleStep

LEMMA RefundingStep ==
    ASSUME RefundInv, NEW w \in Workers, Refunding(w)
    PROVE  RefundInv'
<1>1. CASE SettleConflict(w)
  <2>1. /\ SetJob(w, NoJob) /\ UNCHANGED refundVars
        /\ UNCHANGED <<orderVars, payVars, forced>>
    BY <1>1 DEF SettleConflict
  <2>2. PaidInv'
    BY <2>1, NoJobOK, ReadStep DEF RefundInv
  <2> QED
    BY <2>1, <2>2, QuietNoJob, QuietReadStep
<1> QED
  BY <1>1, ClaimRefundStep, ProviderStep, SettlePaidStep, SettleRefusedStep DEF Refunding

-----------------------------------------------------------------------------
(* Theorems *)

LEMMA RefundInvInit == RefundInit => RefundInv
<1> SUFFICES ASSUME RefundInit PROVE RefundInv
  OBVIOUS
<1>1. PaidInv /\ TypeOK
  BY PaidInvInit DEF RefundInit, PaidInv
<1>2. RefundTypeOK /\ PaidBackOnce /\ ReleasedMeansPaid
  BY <1>1
  DEF RefundInit, Init, RefundTypeOK, RefundStatuses, PaidBackOnce, ReleasedMeansPaid
<1>3. \A w \in Workers : RepayOK(jobs[w]) /\ ReleaseOK(jobs[w])
  BY QuietNoJob DEF RefundInit, Init, QuietJob, RepayOK
<1>4. OneRepays
  BY QuietNoJob DEF RefundInit, Init, QuietJob, OneRepays
<1> QED
  BY <1>1, <1>2, <1>3, <1>4 DEF RefundInv

LEMMA RefundInvStep == RefundInv /\ [RefundsNext]_allVars => RefundInv'
<1> SUFFICES ASSUME RefundInv, [RefundsNext]_allVars PROVE RefundInv'
  OBVIOUS
<1>1. CASE [FulfilmentNext]_vars /\ UNCHANGED refundVars
  BY <1>1, QuietFulfilmentStep
<1>2. CASE \E w \in Workers : Refunding(w)
  BY <1>2, RefundingStep
<1> QED
  BY <1>1, <1>2 DEF RefundsNext, allVars

\* Types of the refund rows and requests, those of Purchase with them, for any
\* number of requests, retries and crashes.
THEOREM RefundsTypeOK == RefundsSpec => []RefundTypeOK
<1>1. RefundsSpec => []RefundInv
  BY RefundInvInit, RefundInvStep, PTL DEF RefundsSpec
<1>2. RefundInv => RefundTypeOK
  BY DEF RefundInv
<1> QED
  BY <1>1, <1>2, PTL

\* The provider pays no payment back twice, whatever is retried, raced or cut
\* off (processRefundCore: the claim, the unique paymentId, the settlement).
THEOREM RefundsPaidBackOnce == RefundsSpec => []PaidBackOnce
<1>1. RefundsSpec => []RefundInv
  BY RefundInvInit, RefundInvStep, PTL DEF RefundsSpec
<1>2. RefundInv => PaidBackOnce
  BY DEF RefundInv
<1> QED
  BY <1>1, <1>2, PTL

\* No stale status write and no settlement makes an order read Refund Released
\* before its money went back (processRefundCore, updateOrder).
THEOREM RefundsReleasedMeansPaid == RefundsSpec => []ReleasedMeansPaid
<1>1. RefundsSpec => []RefundInv
  BY RefundInvInit, RefundInvStep, PTL DEF RefundsSpec
<1>2. RefundInv => ReleasedMeansPaid
  BY DEF RefundInv
<1> QED
  BY <1>1, <1>2, PTL

-----------------------------------------------------------------------------
(* What Fulfilment keeps, Refunds keeps *)

\* Orders are backed while refunds are claimed, paid and settled too: no order
\* gets past confirmation, and no revenue is counted or refunded, without money
\* or an admin's override (confirmOrderAndDeductStock, processRefundCore).
THEOREM RefundsNoFreeConfirm == RefundsSpec => []NoFreeConfirm
<1>1. RefundsSpec => []RefundInv
  BY RefundInvInit, RefundInvStep, PTL DEF RefundsSpec
<1>2. RefundInv => NoFreeConfirm
  BY DEF RefundInv, PaidInv
<1> QED
  BY <1>1, <1>2, PTL

\* A request of releaseRefund carries no status that it would write as it is.
LEMMA RepayKeepsRow ==
    ASSUME NEW job, Repaying(job)
    PROVE  JobKeepsRow(job)
BY DEF Repaying, JobKeepsRow, Confirming, Rereading, Writing

\* What a step of releaseRefund does to the rows: no payment moves, no order is
\* deleted, no revenue appears, and no unit leaves or reaches a shelf.
LEMMA RefundingRows ==
    ASSUME RefundInv, NEW w \in Workers, Refunding(w)
    PROVE  /\ UNCHANGED <<payVars, forced, stock>>
           /\ \A o \in Orders : /\ status'[o] = "Deleted" => status[o] = "Deleted"
                                /\ revenue[o] = "none" => revenue'[o] = "none"
           /\ \A v \in Workers : jobs'[v] = jobs[v] \/ JobKeepsRow(jobs'[v])
<1>1. TypeOK
  BY DEF RefundInv, RefundTypeOK
<1>2. CASE SettlePaid(w)
  <2>1. /\ UNCHANGED <<payVars, forced, stock>> /\ SetJob(w, NoJob)
        /\ status' = [status EXCEPT ![jobs[w].o] = "Refund Released"]
        /\ \/ revenue' = revenue
           \/ /\ revenue[jobs[w].o] # "none"
              /\ revenue' = [revenue EXCEPT ![jobs[w].o] = "Refunded"]
    BY <1>2 DEF SettlePaid
  <2>2. \A v \in Workers : jobs'[v] = jobs[v] \/ JobKeepsRow(jobs'[v])
    BY <1>1, <2>1, OneJob, NoJobKeepsRow
  <2>3. \A o \in Orders : /\ status'[o] = "Deleted" => status[o] = "Deleted"
                          /\ revenue[o] = "none" => revenue'[o] = "none"
    BY <1>1, <2>1 DEF TypeOK
  <2> QED
    BY <2>1, <2>2, <2>3
<1>3. CASE ~SettlePaid(w)
  <2>1. UNCHANGED <<payVars, forced, orderVars>>
    BY <1>3 DEF Refunding, ClaimRefund, ProviderPays, ProviderRefuses, SettleConflict,
                SettleRefused
  <2>2. jobs[w] \in Job
    BY <1>1 DEF TypeOK
  <2>3. ASSUME ProviderPays(w) \/ ProviderRefuses(w)
        PROVE  \A v \in Workers : jobs'[v] = jobs[v] \/ JobKeepsRow(jobs'[v])
    <3> DEFINE answered(gw) == [jobs[w] EXCEPT !.pc = "settle", !.gw = gw]
    <3>1. PICK gw \in {"COMPLETE", "CANCELED"} : SetJob(w, answered(gw))
      BY <2>3 DEF ProviderPays, ProviderRefuses
    <3>2. Repaying(answered(gw))
      BY <2>2 DEF Job, Repaying
    <3>3. PICK job : SetJob(w, job) /\ Repaying(job)
      BY <3>1, <3>2
    <3>4. JobKeepsRow(job)
      BY <3>3, RepayKeepsRow
    <3> QED
      BY <1>1, <3>3, <3>4, OneJob
  <2>4. ASSUME NEW o \in Orders, NEW p \in Payments, ClaimRefund(w, o, p)
        PROVE  \A v \in Workers : jobs'[v] = jobs[v] \/ JobKeepsRow(jobs'[v])
    <3> DEFINE claim == [NoJob EXCEPT !.pc = "refund", !.o = o, !.p = p, !.st = status[o]]
    <3>1. SetJob(w, claim)
      BY <2>4 DEF ClaimRefund
    <3>2. Repaying(claim)
      BY DEF NoJob, Repaying
    <3> HIDE DEF claim
    <3>3. JobKeepsRow(claim)
      BY <3>2, RepayKeepsRow
    <3> QED
      BY <1>1, <3>1, <3>3, OneJob
  <2>5. ASSUME SettleConflict(w) \/ SettleRefused(w)
        PROVE  \A v \in Workers : jobs'[v] = jobs[v] \/ JobKeepsRow(jobs'[v])
    BY <1>1, <2>5, OneJob, NoJobKeepsRow DEF SettleConflict, SettleRefused
  <2> QED
    BY <1>3, <2>1, <2>3, <2>4, <2>5 DEF Refunding, orderVars
<1> QED
  BY <1>2, <1>3

LEMMA RefundsRowStep ==
    ASSUME RefundInv, RowInv, [RefundsNext]_allVars
    PROVE  RowInv'
<1>1. PaidInv'
  BY RefundInvStep DEF RefundInv
<1>2. CASE [FulfilmentNext]_vars
  BY <1>2, RowInvStep
<1>3. ASSUME NEW w \in Workers, Refunding(w)
      PROVE  RowInv'
  <2>1. UNCHANGED payOrder
    BY <1>3, RefundingRows DEF payVars
  <2> QED
    BY <1>1, <1>3, <2>1, RefundingRows, RowStep
<1> QED
  BY <1>2, <1>3 DEF RefundsNext, allVars

\* A settlement that turns revenue into Refunded, or a request between claim
\* and settlement, leaves no money without its order (the RESTRICT foreign keys,
\* processRefundCore beside deleteOrder and userDeleteOrder).
THEOREM RefundsMoneyKeepsRow == RefundsSpec => []MoneyKeepsRow
<1>1. RefundInit => RefundInv /\ RowInv
  BY RefundInvInit, RowInvInit DEF RefundInit
<1>2. (RefundInv /\ RowInv) /\ [RefundsNext]_allVars => (RefundInv /\ RowInv)'
  BY RefundInvStep, RefundsRowStep
<1>3. RowInv => MoneyKeepsRow
  BY DEF RowInv
<1> QED
  BY <1>1, <1>2, <1>3, PTL DEF RefundsSpec

\* A refund moves no unit: they came back with the cancellation or the return
\* before it, and do not come back again (processRefundCore, README.md:237).
THEOREM RefundsStockMoves == RefundsSpec => StockMovesWithStatus
<1>1. RefundsSpec => []RefundInv
  BY RefundInvInit, RefundInvStep, PTL DEF RefundsSpec
<1>2. RefundInv /\ [RefundsNext]_allVars => [\A pr \in Products : StockMoved(pr)]_vars
  <2>1. ASSUME RefundInv, [FulfilmentNext]_vars
        PROVE  [\A pr \in Products : StockMoved(pr)]_vars
    BY <2>1, StockStep DEF RefundInv
  <2>2. ASSUME RefundInv, NEW w \in Workers, Refunding(w)
        PROVE  \A pr \in Products : StockMoved(pr)
    BY <2>2, RefundingRows DEF StockMoved
  <2> QED
    BY <2>1, <2>2 DEF RefundsNext, allVars
<1> QED
  BY <1>1, <1>2, PTL DEF RefundsSpec, StockMovesWithStatus

\* What a manager, a customer or a refund does touches no payment and no event.
LEMMA LedgerApart ==
    ASSUME PaidInv, LedgerAgrees, UNCHANGED payVars
    PROVE  LedgerAgrees'
BY DEF LedgerAgrees, payVars

LEMMA RefundsLedgerStep ==
    ASSUME RefundInv, LedgerAgrees, [RefundsNext]_allVars
    PROVE  LedgerAgrees'
<1>1. PaidInv
  BY DEF RefundInv
<1>2. CASE [PurchaseNext]_vars
  BY <1>1, <1>2, LedgerStep
<1>3. ASSUME NEW w \in Workers, Manage(w)
      PROVE  UNCHANGED payVars
  BY <1>3 DEF Manage, SellerDecides, AdminDecides, AdminForces, EditDecides, DeleteDecides,
              ReturnDecides, Decide, Reread, StageWrite, EditWrite, ReturnWrite, WriteStatus,
              DeleteRow, DeleteRefused
<1>4. CASE ReviewReturn
  BY <1>1, <1>4, LedgerApart DEF ReviewReturn, ApproveReturn, RejectReturn
<1>5. ASSUME NEW w \in Workers, Refunding(w)
      PROVE  UNCHANGED payVars
  BY <1>5, RefundingRows
<1> QED
  BY <1>1, <1>2, <1>3, <1>4, <1>5, LedgerApart DEF RefundsNext, FulfilmentNext, allVars

\* payments stays the read model of payment_events with everything that sellers,
\* admins and refunds do beside the callbacks: none of them publishes a status
\* or an event of a payment (processEsewaEvent's publish transaction).
THEOREM RefundsLedgerAgrees == RefundsSpec => []LedgerAgrees
<1>1. RefundInit => RefundInv /\ LedgerAgrees
  BY RefundInvInit DEF RefundInit, Init, LedgerAgrees
<1>2. (RefundInv /\ LedgerAgrees) /\ [RefundsNext]_allVars => (RefundInv /\ LedgerAgrees)'
  BY RefundInvStep, RefundsLedgerStep
<1> QED
  BY <1>1, <1>2, PTL DEF RefundsSpec

-----------------------------------------------------------------------------
(* What is told of the money *)

\* What a step does to rows that a reader may have read: a payment keeps its
\* order, and a sale is counted as completed when its order leaves Pending.
RowsKept ==
    /\ \A p \in Payments :
          payStatus[p] # "absent" => payStatus'[p] # "absent" /\ payOrder'[p] = payOrder[p]
    /\ \A o \in Orders :
          revenue'[o] = "Completed" => revenue[o] = "Completed" \/ status[o] = "Pending"

\* The handlers of Fulfilment keep the rows.
LEMMA FulfilmentKeepsRows ==
    ASSUME TypeOK, [FulfilmentNext]_vars
    PROVE  RowsKept
<1>1. CASE UNCHANGED <<payVars, revenue>>
  BY <1>1 DEF RowsKept, payVars
<1>2. CASE Environment
  BY <1>1, <1>2 DEF Environment, CustomerPays, GatewayCloses, Cancel, RowsKept, orderVars, payVars
<1>3. ASSUME NEW w \in Workers, Manage(w)
      PROVE  RowsKept
  <2>1. UNCHANGED <<payVars, revenue>>
    BY <1>3 DEF Manage, SellerDecides, AdminDecides, AdminForces, EditDecides, DeleteDecides,
                ReturnDecides, Decide, Reread, StageWrite, EditWrite, ReturnWrite, WriteStatus,
                DeleteRow, DeleteRefused, orderVars
  <2> QED
    BY <1>1, <2>1
<1>4. CASE ReviewReturn
  BY <1>1, <1>4 DEF ReviewReturn, ApproveReturn, RejectReturn
<1>5. ASSUME NEW w \in Workers, Begin(w) \/ Fault(w)
      PROVE  RowsKept
  BY <1>1, <1>5 DEF Begin, Fault, CheckoutRead, ConfirmRoute, CallbackRead, Abandon,
                    ConfirmFails, orderVars
<1>6. ASSUME NEW w \in Workers, NEW p \in Payments, InsertIntent(w, p)
      PROVE  RowsKept
  BY <1>6 DEF InsertIntent, TypeOK, RowsKept, orderVars
<1>7. ASSUME NEW w \in Workers, Publish(w)
      PROVE  RowsKept
  <2>1. UNCHANGED <<payOrder, revenue>>
    BY <1>7 DEF Publish, orderVars
  <2>2. \A p \in Payments : payStatus[p] # "absent" => payStatus'[p] # "absent"
    BY <1>7 DEF Publish, TypeOK
  <2> QED
    BY <2>1, <2>2 DEF RowsKept
<1>8. ASSUME NEW w \in Workers, NEW o \in Orders, ConfirmOrder(w, o)
      PROVE  RowsKept
  <2>1. UNCHANGED payVars /\ status[o] = "Pending"
    BY <1>8 DEF ConfirmOrder
  <2>2. \A q \in Orders : q # o => revenue'[q] = revenue[q]
    BY <1>8 DEF ConfirmOrder, TypeOK
  <2> QED
    BY <2>1, <2>2 DEF RowsKept, payVars
<1>9. ASSUME NEW w \in Workers, Continue(w)
      PROVE  RowsKept
  BY <1>1, <1>6, <1>7, <1>8, <1>9
  DEF Continue, ReuseIntent, CheckStatus, Confirm, ConfirmRead, ConfirmDone,
      ConfirmOutOfStock, ConfirmSkip, orderVars
<1> QED
  BY <1>1, <1>2, <1>3, <1>4, <1>5, <1>9 DEF FulfilmentNext, PurchaseNext, vars, payVars

\* A refund that succeeded stays so; one that comes to succeed is of a payment
\* there is, and its order and revenue say so in the same step.
RefundsMove ==
    \A p \in Payments :
        /\ refund[p] = "Succeeded" => refund'[p] = "Succeeded"
        /\ refund'[p] = "Succeeded" =>
              \/ refund[p] = "Succeeded"
              \/ /\ payStatus[p] # "absent"
                 /\ status'[payOrder[p]] = "Refund Released"
                 /\ revenue'[payOrder[p]] # "Completed"

\* So do the steps of releaseRefund.
LEMMA RefundsKeepRows ==
    ASSUME RefundInv, [RefundsNext]_allVars
    PROVE  RowsKept /\ RefundsMove
<1>1. CASE [FulfilmentNext]_vars /\ UNCHANGED refundVars
  <2>1. RowsKept
    BY <1>1, FulfilmentKeepsRows DEF RefundInv, PaidInv
  <2>2. RefundsMove
    BY <1>1 DEF RefundsMove, refundVars
  <2> QED
    BY <2>1, <2>2
<1>2. ASSUME UNCHANGED <<payVars, revenue>> PROVE RowsKept
  BY <1>2 DEF RowsKept, payVars
<1>3. ASSUME NEW w \in Workers, NEW o \in Orders, NEW p \in Payments, ClaimRefund(w, o, p)
      PROVE  RowsKept /\ RefundsMove
  <2>1. RowsKept
    BY <1>2, <1>3 DEF ClaimRefund, orderVars
  <2>2. RefundsMove
    BY <1>3 DEF ClaimRefund, RefundInv, RefundTypeOK, RefundsMove
  <2> QED
    BY <2>1, <2>2
<1>4. ASSUME NEW w \in Workers,
             ProviderPays(w) \/ ProviderRefuses(w) \/ SettleConflict(w)
      PROVE  RowsKept /\ RefundsMove
  <2>1. UNCHANGED <<payVars, revenue, refund>>
    BY <1>4 DEF ProviderPays, ProviderRefuses, SettleConflict, orderVars, refundVars
  <2> QED
    BY <1>2, <2>1 DEF RefundsMove
<1>5. ASSUME NEW w \in Workers, SettleRefused(w)
      PROVE  RowsKept /\ RefundsMove
  <2>1. RowsKept
    BY <1>2, <1>5 DEF SettleRefused, orderVars
  <2>2. RefundsMove
    BY <1>5 DEF SettleRefused, RefundInv, RefundTypeOK, RefundsMove
  <2> QED
    BY <2>1, <2>2
<1>6. ASSUME NEW w \in Workers, SettlePaid(w)
      PROVE  RowsKept /\ RefundsMove
  <2>1. PICK p \in Payments, o \in Orders : p = jobs[w].p /\ o = jobs[w].o /\ o = payOrder[p]
    BY <1>6, HolderAlone DEF SettlePaid, Repaying, RefundInv, PaidInv, JobOK
  <2>2. payStatus[p] # "absent"
    BY <1>6, <2>1, HolderAlone DEF SettlePaid, Repaying, RefundInv, PaidInv, PaymentOK
  <2>3. /\ \A q \in Payments : q # p => refund'[q] = refund[q]
        /\ \A q \in Orders : revenue'[q] = "Completed" => q # o /\ revenue[q] = "Completed"
        /\ status'[o] = "Refund Released"
        /\ refund'[p] = "Succeeded" /\ UNCHANGED payVars
    BY <1>6, <2>1 DEF SettlePaid, RefundInv, RefundTypeOK, TypeOK
  <2> QED
    BY <2>1, <2>2, <2>3 DEF RowsKept, RefundsMove, payVars
<1> QED
  BY <1>1, <1>3, <1>4, <1>5, <1>6 DEF RefundsNext, Refunding, allVars

\* A payment that was refunded is there.  An order whose payment was refunded
\* says so, and so does its revenue, unless a stale write came over it.
SettledOK ==
    /\ \A p \in Repaid : payStatus[p] # "absent"
    /\ \A o \in Orders \ reopened :
          PaymentsOf(o) \cap Repaid # {} =>
              status[o] = "Refund Released" /\ revenue[o] # "Completed"

\* What a reader has read goes with what it has still to read: a summary has every
\* sale that was completed when it began, and the refunds it has not found, as that
\* of an order seen as released, are still to be looked at.
ReaderOK ==
    /\ reader.pc = "ledger" => reader.page = "sale"
    /\ reader.pc = "refunds" => reader.page \in {"summary", "payment"}
    /\ reader.repaid \subseteq Repaid
    /\ reader.page = "summary" =>
          /\ reader.sold \subseteq reader.gross
          /\ reader.repaid \subseteq reader.todo \cup reader.refunded
    /\ reader.released /\ reader.pc # "done" /\ reader.page \in {"sale", "payment"} =>
          \A o \in reader.about : \E p \in PaymentsOf(o) \cap Repaid :
              reader.page = "payment" => p \in reader.todo \cup reader.refunded

MoneyInv == RefundInv /\ SummaryTypeOK /\ SettledOK /\ ReaderOK /\ ReadsCoherent

\* A reader at rest has read nothing.
LEMMA NoReaderOK ==
    ASSUME reader = NoReader
    PROVE  ReaderOK /\ ReadsCoherent
BY DEF NoReader, ReaderOK, ReadsCoherent, Read

\* At first nothing was refunded, and nobody reads.
LEMMA MoneyInitially == SummaryInit => MoneyInv
<1> SUFFICES ASSUME SummaryInit PROVE MoneyInv
  OBVIOUS
<1>1. RefundInv /\ reader = NoReader /\ reopened = {}
  BY RefundInvInit DEF SummaryInit
<1>2. SummaryTypeOK
  BY <1>1 DEF SummaryTypeOK, NoReader
<1>3. SettledOK
  BY DEF SummaryInit, RefundInit, SettledOK, Repaid
<1> QED
  BY <1>1, <1>2, <1>3, NoReaderOK DEF MoneyInv

-----------------------------------------------------------------------------
(* Payments and refunds go on *)

\* After a step of the store an order whose payment was refunded still says so.
LEMMA SettledStep ==
    ASSUME MoneyInv, RowsKept, RefundsMove, RefundInv',
           reopened' = reopened \cup
             {o \in Orders : status[o] = "Refund Released" /\ status'[o] # status[o]}
    PROVE  SettledOK'
<1>1. \A p \in Payments :
         refund'[p] = "Succeeded" => payStatus[p] # "absent" /\ payOrder'[p] = payOrder[p]
  BY DEF MoneyInv, SettledOK, Repaid, RefundsMove, RowsKept
<1>2. \A p \in Repaid' : payStatus'[p] # "absent"
  BY <1>1 DEF Repaid, RowsKept
<1>3. ASSUME NEW o \in Orders, o \notin reopened', NEW p \in Payments,
             payOrder'[p] = o, refund'[p] = "Succeeded"
      PROVE  status'[o] = "Refund Released" /\ revenue'[o] # "Completed"
  <2>1. payOrder[p] = o /\ o \notin reopened
    BY <1>1, <1>3
  <2>2. CASE refund[p] = "Succeeded"
    <3>1. status[o] = "Refund Released" /\ revenue[o] # "Completed"
      BY <2>1, <2>2 DEF MoneyInv, SettledOK, PaymentsOf, Repaid
    <3> QED
      BY <1>3, <3>1 DEF RowsKept
  <2>3. CASE refund[p] # "Succeeded"
    BY <1>3, <2>1, <2>3 DEF RefundsMove
  <2> QED
    BY <2>2, <2>3
<1> QED
  BY <1>2, <1>3 DEF SettledOK, PaymentsOf, Repaid

\* What a reader has read before a step of the store is still right after it.
LEMMA ReaderWaits ==
    ASSUME MoneyInv, RowsKept, RefundsMove, reader.pc # "done", UNCHANGED reader,
           reopened \subseteq reopened'
    PROVE  ReaderOK' /\ ReadsCoherent'
<1>1. Repaid \subseteq Repaid'
  BY DEF RefundsMove, Repaid
<1>2. \A o, p : p \in PaymentsOf(o) \cap Repaid => p \in PaymentsOf(o)' \cap Repaid'
  BY <1>1 DEF MoneyInv, SettledOK, PaymentsOf, Repaid, RowsKept, Payments
<1>3. \A o, p : p \in PaymentsOf(o)' \cap Repaid => p \in PaymentsOf(o)
  BY DEF MoneyInv, SettledOK, PaymentsOf, Repaid, RowsKept, Payments
<1>4. reader.repaid \subseteq Repaid
  BY DEF MoneyInv, ReaderOK
<1>5. ReaderOK'
  BY <1>1, <1>2, <1>3, <1>4 DEF MoneyInv, ReaderOK
<1> QED
  BY <1>5 DEF ReadsCoherent, Read

\* A step of the store, which a reader at rest forgets what it had read at.
LEMMA MoneyMoves ==
    ASSUME MoneyInv, RefundsNext,
           reopened' = reopened \cup
             {o \in Orders : status[o] = "Refund Released" /\ status'[o] # status[o]},
           reader' = IF reader.pc = "done" THEN NoReader ELSE reader
    PROVE  MoneyInv'
<1>1. RefundInv' /\ RowsKept /\ RefundsMove
  BY RefundInvStep, RefundsKeepRows DEF MoneyInv
<1>2. SettledOK'
  BY <1>1, SettledStep
<1>3. SummaryTypeOK'
  BY DEF MoneyInv, SummaryTypeOK, NoReader
<1>4. ReaderOK' /\ ReadsCoherent'
  <2>1. CASE reader.pc = "done"
    BY <2>1 DEF NoReader, ReaderOK, ReadsCoherent, Read
  <2>2. CASE reader.pc # "done"
    BY <1>1, <2>2, ReaderWaits
  <2> QED
    BY <2>1, <2>2
<1> QED
  BY <1>1, <1>2, <1>3, <1>4 DEF MoneyInv

-----------------------------------------------------------------------------
(* The readers *)

\* A step of a reader leaves the rows alone.
LEMMA ReaderMoves ==
    ASSUME MoneyInv, ReaderOnly, SummaryTypeOK', ReaderOK', ReadsCoherent'
    PROVE  MoneyInv'
<1>1. /\ UNCHANGED <<status, stock, revenue, payOrder, payStatus, gateway, events, jobs,
                     forced, refund, payouts, reopened>>
  BY DEF ReaderOnly, allVars, vars, refundVars
<1>2. RefundInv'
  BY <1>1, RefundInvStep DEF MoneyInv, allVars, vars, refundVars
<1>3. SettledOK'
  BY <1>1 DEF MoneyInv, SettledOK, Repaid, PaymentsOf
<1> QED
  BY <1>2, <1>3 DEF MoneyInv

\* What a reader carries.
Reading == [pc       : {"refunds", "ledger", "done"},
            page     : {"none", "summary", "report", "sale", "payment"},
            about    : SUBSET Orders,
            released : BOOLEAN,
            gross    : SUBSET Orders,
            todo     : SUBSET Payments,
            refunded : SUBSET Payments,
            sold     : SUBSET Orders,
            repaid   : SUBSET Payments]

\* The refunds, releases and sales in the scope of a reader when it begins.
RepaidIn(scope) == {p \in Repaid : payOrder[p] \in scope}
ReleasedIn(scope) == \E o \in scope : status[o] = "Refund Released"
SoldIn(scope) == Completed \cap scope

\* What a reader begins with.
LEMMA StartsWith ==
    ASSUME NEW scope \in SUBSET Orders, NEW page \in {"summary", "report", "sale", "payment"},
           NEW s, s = Starts(page, scope)
    PROVE  /\ s \in Reading /\ s.pc = "done" /\ s.page = page /\ s.about = scope
           /\ s.gross = {} /\ s.todo = {} /\ s.refunded = {}
           /\ s.sold = SoldIn(scope)
           /\ s.repaid = RepaidIn(scope)
           /\ s.released <=> ReleasedIn(scope)
<1>1. NoReader \in Reading /\ NoReader.pc = "done" /\ NoReader.gross = {}
      /\ NoReader.todo = {} /\ NoReader.refunded = {}
  BY DEF NoReader, Reading
<1>2. PICK b \in BOOLEAN : b <=> ReleasedIn(scope)
  OBVIOUS
<1>3. s = [NoReader EXCEPT !.page = page, !.about = scope, !.sold = SoldIn(scope),
                           !.repaid = RepaidIn(scope),
                           !.released = b]
  BY <1>2 DEF Starts, SoldIn, RepaidIn, ReleasedIn
<1>4. SoldIn(scope) \in SUBSET Orders /\ RepaidIn(scope) \in SUBSET Payments
  BY DEF Repaid, SoldIn, RepaidIn
<1> QED
  BY <1>1, <1>2, <1>3, <1>4 DEF Reading

\* What is counted as completed has not been refunded.
LEMMA CompletedNotRepaid ==
    ASSUME SettledOK, NEW o \in Orders \ reopened, o \in Completed
    PROVE  PaymentsOf(o) \cap Repaid = {}
BY DEF SettledOK, Completed

\* The reports, which are one statement, and the summaries, which then read the
\* refunds.
LEMMA CountStep ==
    ASSUME MoneyInv, NEW scope \in SUBSET Orders, Report(scope) \/ Summarise(scope)
    PROVE  MoneyInv'
<1>1. ReaderOnly /\ UNCHANGED reopened /\ UNCHANGED payOrder /\ UNCHANGED refund
  BY DEF Report, Summarise, ReaderOnly, allVars, vars, refundVars
<1>2. /\ Completed \cap scope \in SUBSET Orders /\ {} \in SUBSET Payments
      /\ {p \in Payments : payOrder[p] \in scope} \in SUBSET Payments
  OBVIOUS
<1>3. CASE Report(scope)
  <2>1. PICK s : s = Starts("report", scope)
    OBVIOUS
  <2>2. /\ reader'.pc = "done" /\ reader'.page = "report" /\ reader'.about = scope
        /\ reader'.gross = Completed \cap scope
        /\ reader'.repaid = RepaidIn(scope)
        /\ SummaryTypeOK'
    <3>1. reader' = [s EXCEPT !.gross = Completed \cap scope]
      BY <1>3, <2>1 DEF Report
    <3>2. /\ s \in Reading /\ s.pc = "done" /\ s.page = "report" /\ s.about = scope
          /\ s.gross = {} /\ s.sold = SoldIn(scope)
          /\ s.repaid = RepaidIn(scope)
      BY <2>1, StartsWith
    <3> QED
      BY <1>1, <1>2, <3>1, <3>2 DEF MoneyInv, SummaryTypeOK, Reading
  <2>3. ReaderOK'
    BY <1>1, <2>2 DEF ReaderOK, Repaid, RepaidIn
  <2>4. ReadsCoherent'
    BY <1>1, <2>2, CompletedNotRepaid DEF MoneyInv, ReadsCoherent, Read, RepaidIn, PaymentsOf
  <2> QED
    BY <1>1, <2>2, <2>3, <2>4, ReaderMoves
<1>4. CASE Summarise(scope)
  <2>1. PICK s : s = Starts("summary", scope)
    OBVIOUS
  <2>2. /\ reader'.pc = "refunds" /\ reader'.page = "summary" /\ reader'.about = scope
        /\ reader'.gross = Completed \cap scope /\ reader'.sold = SoldIn(scope)
        /\ reader'.repaid = RepaidIn(scope)
        /\ reader'.todo = {p \in Payments : payOrder[p] \in scope}
        /\ SummaryTypeOK'
    <3>1. reader' = [s EXCEPT !.pc = "refunds", !.gross = Completed \cap scope,
                              !.todo = {p \in Payments : payOrder[p] \in scope}]
      BY <1>4, <2>1 DEF Summarise
    <3>2. /\ s \in Reading /\ s.pc = "done" /\ s.page = "summary" /\ s.about = scope
          /\ s.gross = {} /\ s.sold = SoldIn(scope)
          /\ s.repaid = RepaidIn(scope)
      BY <2>1, StartsWith
    <3> QED
      BY <1>1, <1>2, <3>1, <3>2 DEF MoneyInv, SummaryTypeOK, Reading
  <2>3. ReaderOK'
    BY <1>1, <2>2 DEF ReaderOK, Repaid, RepaidIn, SoldIn
  <2>4. ReadsCoherent'
    BY <2>2 DEF ReadsCoherent, Read
  <2> QED
    BY <1>1, <2>2, <2>3, <2>4, ReaderMoves
<1> QED
  BY <1>3, <1>4

\* The order's row, then its revenue or its refunds.
LEMMA OpenStep ==
    ASSUME MoneyInv, NEW o \in Orders, GetMySale(o) \/ GetMyPaymentStatus(o)
    PROVE  MoneyInv'
<1>1. ReaderOnly /\ UNCHANGED reopened /\ UNCHANGED <<payOrder, refund>>
  BY DEF GetMySale, GetMyPaymentStatus, ReaderOnly, allVars, vars, refundVars
<1>2. {o} \in SUBSET Orders /\ PaymentsOf(o) \in SUBSET Payments /\ {} \in SUBSET Payments
  BY DEF PaymentsOf
<1>3. PICK page, s :
        /\ page \in {"sale", "payment"} /\ s = Starts(page, {o})
        /\ \/ page = "sale" /\ reader' = [s EXCEPT !.pc = "ledger"]
           \/ /\ page = "payment"
              /\ reader' = [s EXCEPT !.pc = "refunds", !.todo = PaymentsOf(o)]
  BY DEF GetMySale, GetMyPaymentStatus
<1>4. /\ reader'.pc = IF page = "sale" THEN "ledger" ELSE "refunds"
      /\ reader'.page = page /\ reader'.about = {o}
      /\ page = "payment" => reader'.todo = PaymentsOf(o)
      /\ reader'.repaid = RepaidIn({o})
      /\ reader'.released => status[o] = "Refund Released"
      /\ SummaryTypeOK'
  <2>1. /\ s \in Reading /\ s.pc = "done" /\ s.page = page /\ s.about = {o}
        /\ s.repaid = RepaidIn({o})
        /\ s.released <=> ReleasedIn({o})
    BY <1>2, <1>3, StartsWith
  <2>2. /\ reader'.pc = IF page = "sale" THEN "ledger" ELSE "refunds"
        /\ reader'.page = s.page /\ reader'.about = s.about
        /\ page = "payment" => reader'.todo = PaymentsOf(o)
        /\ reader'.repaid = s.repaid /\ reader'.released = s.released
    BY <1>3, <2>1 DEF Reading
  <2>3. reader' \in Reading
    BY <1>2, <1>3, <2>1 DEF Reading
  <2> QED
    BY <1>1, <1>3, <2>1, <2>2, <2>3 DEF MoneyInv, SummaryTypeOK, Reading, ReleasedIn
<1>5. status[o] = "Refund Released" => \E p \in PaymentsOf(o) : p \in Repaid
  BY DEF MoneyInv, RefundInv, ReleasedMeansPaid, PaidBack, Repaid, PaymentsOf
<1>6. ReaderOK'
  BY <1>1, <1>3, <1>4, <1>5 DEF ReaderOK, Repaid, RepaidIn, PaymentsOf
<1>7. ReadsCoherent'
  BY <1>3, <1>4 DEF ReadsCoherent, Read
<1> QED
  BY <1>1, <1>4, <1>6, <1>7, ReaderMoves

\* A reader goes on: the next refund, the last one, the revenue.
LEMMA ReadOnStep ==
    ASSUME MoneyInv, (\E p \in Payments : RefundBucket(p)) \/ LastBucket \/ SaleLedger
    PROVE  MoneyInv'
<1>1. ReaderOnly /\ UNCHANGED <<reopened, payOrder, refund>>
  BY DEF RefundBucket, LastBucket, SaleLedger, ReaderOnly, allVars, vars, refundVars
<1>2. /\ Repaid' = Repaid
      /\ \A o \in Orders : PaymentsOf(o)' = PaymentsOf(o)
  BY <1>1 DEF Repaid, PaymentsOf
<1>3. ASSUME NEW p \in Payments, RefundBucket(p)
      PROVE  MoneyInv'
  <2>1. /\ reader.pc = "refunds" /\ reader'.pc = "refunds" /\ reader'.page = reader.page
        /\ reader'.about = reader.about /\ reader'.released = reader.released
        /\ reader'.gross = reader.gross /\ reader'.sold = reader.sold
        /\ reader'.repaid = reader.repaid /\ reader'.todo = reader.todo \ {p}
        /\ reader'.refunded = IF p \in Repaid THEN reader.refunded \cup {p}
                              ELSE reader.refunded
        /\ SummaryTypeOK'
    BY <1>1, <1>3 DEF RefundBucket, MoneyInv, SummaryTypeOK
  <2>2. ReaderOK'
    BY <1>1, <1>2, <2>1 DEF MoneyInv, ReaderOK, SummaryTypeOK
  <2>3. ReadsCoherent'
    BY <2>1 DEF ReadsCoherent, Read
  <2> QED
    BY <1>1, <2>1, <2>2, <2>3, ReaderMoves
<1>4. CASE LastBucket
  <2>1. /\ reader.pc = "refunds" /\ reader.todo = {}
        /\ reader'.pc = "done" /\ reader'.page = reader.page
        /\ reader'.about = reader.about /\ reader'.released = reader.released
        /\ reader'.gross = reader.gross /\ reader'.sold = reader.sold
        /\ reader'.repaid = reader.repaid /\ reader'.refunded = reader.refunded
        /\ SummaryTypeOK'
    BY <1>1, <1>4 DEF LastBucket, MoneyInv, SummaryTypeOK
  <2>2. ReaderOK'
    BY <1>1, <1>2, <2>1 DEF MoneyInv, ReaderOK, SummaryTypeOK
  <2>3. ReadsCoherent'
    BY <1>1, <1>2, <2>1 DEF MoneyInv, ReaderOK, ReadsCoherent, Read, SummaryTypeOK
  <2> QED
    BY <1>1, <2>1, <2>2, <2>3, ReaderMoves
<1>5. CASE SaleLedger
  <2>1. /\ reader.pc = "ledger" /\ reader.page = "sale"
        /\ reader'.pc = "done" /\ reader'.page = "sale"
        /\ reader'.about = reader.about /\ reader'.released = reader.released
        /\ reader'.gross = Completed \cap reader.about
        /\ reader'.repaid = reader.repaid
        /\ SummaryTypeOK'
    BY <1>1, <1>5 DEF SaleLedger, MoneyInv, SummaryTypeOK, ReaderOK, Completed
  <2>2. ReaderOK'
    BY <1>1, <1>2, <2>1 DEF MoneyInv, ReaderOK
  <2>3. reader.released =>
          \A o \in reader.about \ reopened : o \notin Completed
    BY <2>1, CompletedNotRepaid DEF MoneyInv, ReaderOK, SummaryTypeOK
  <2>4. ReadsCoherent'
    BY <1>1, <2>1, <2>3 DEF ReadsCoherent, Read
  <2> QED
    BY <1>1, <2>1, <2>2, <2>4, ReaderMoves
<1> QED
  BY <1>3, <1>4, <1>5

\* Every step keeps what is told coherent.
LEMMA MoneyStep == MoneyInv /\ [SummaryNext]_<<allVars, summaryVars>> => MoneyInv'
<1> SUFFICES ASSUME MoneyInv, [SummaryNext]_<<allVars, summaryVars>> PROVE MoneyInv'
  OBVIOUS
<1>1. CASE UNCHANGED <<allVars, summaryVars>>
  <2>1. ReaderOnly /\ UNCHANGED <<reader, reopened, payOrder, refund>>
    BY <1>1 DEF ReaderOnly, allVars, vars, refundVars, summaryVars
  <2>2. SummaryTypeOK' /\ ReaderOK' /\ ReadsCoherent'
    BY <2>1 DEF MoneyInv, SummaryTypeOK, ReaderOK, ReadsCoherent, Read, Repaid, PaymentsOf
  <2> QED
    BY <2>1, <2>2, ReaderMoves
<1>2. CASE SummaryStep
  <2>1. ASSUME NEW scope \in SUBSET Orders, Report(scope) \/ Summarise(scope)
        PROVE  MoneyInv'
    BY <2>1, CountStep
  <2> QED
    BY <1>2, <2>1, OpenStep, ReadOnStep
    DEF SummaryStep, GetAdminMonthlyRevenue, GetAdminTotalRevenue, GetPlatformRevenueSummary,
        GetSellerMonthlyRevenue, GetSellerTotalRevenue, GetMyRevenueSummary
<1> QED
  BY <1>1, <1>2, MoneyMoves DEF SummaryNext

\* Whatever is paid, refunded, edited or retried while a seller, a buyer or an
\* admin reads: no summary loses a sale or a refund that was there when it began,
\* no report counts a sale refunded before, and no sale or payment page of a
\* released order contradicts its refund (getMyRevenueSummary, getMySale,
\* getMyPaymentStatus, revenueController), but for orders whose Refund Released
\* a stale write replaced.
THEOREM ReadsStayCoherent == SummarySpec => []ReadsCoherent
<1>1. SummaryInit => MoneyInv
  BY MoneyInitially
<1>2. MoneyInv /\ [SummaryNext]_<<allVars, summaryVars>> => MoneyInv'
  BY MoneyStep
<1>3. MoneyInv => ReadsCoherent
  BY DEF MoneyInv
<1> QED
  BY <1>1, <1>2, <1>3, PTL DEF SummarySpec

\* What readers do is seen by nobody: with them the handlers behave as without,
\* so every theorem about Refunds holds beside the summaries and the pages too
\* (the read-only statements of revenueController and assistantReads).
THEOREM SummariesOnlyRead == SummarySpec => RefundsSpec
<1>1. SummaryInit => RefundInit
  BY DEF SummaryInit
<1>2. [SummaryNext]_<<allVars, summaryVars>> => [RefundsNext]_allVars
  <2>1. SummaryStep => UNCHANGED allVars
    BY DEF SummaryStep, GetAdminMonthlyRevenue, GetAdminTotalRevenue,
           GetPlatformRevenueSummary, GetSellerMonthlyRevenue, GetSellerTotalRevenue,
           GetMyRevenueSummary, Report, Summarise, RefundBucket, LastBucket, SaleLedger,
           GetMySale, GetMyPaymentStatus, ReaderOnly
  <2> QED
    BY <2>1 DEF SummaryNext
<1> QED
  BY <1>1, <1>2, PTL DEF SummarySpec, RefundsSpec

\* Types of the rows, the requests and what a reader has put together.
THEOREM SummariesTypeOK == SummarySpec => []MoneyTypeOK
<1>1. SummarySpec => []MoneyInv
  BY MoneyInitially, MoneyStep, PTL DEF SummarySpec
<1>2. MoneyInv => MoneyTypeOK
  BY DEF MoneyInv, RefundInv, MoneyTypeOK
<1> QED
  BY <1>1, <1>2, PTL
=============================================================================
