--------------------------- MODULE PurchaseProofs ---------------------------
(***************************************************************************)
(* Proofs about Purchase for every set of orders, products and requests:   *)
(* the inductive invariant PaidInv, and with it type correctness and       *)
(* NoFreeConfirm.  The lemmas about one step are stated for any step, so   *)
(* that the modules that extend Purchase can use them for their own.       *)
(***************************************************************************)
EXTENDS Purchase, TLAPS

-----------------------------------------------------------------------------
(* Money, payments and overrides only grow *)

\* No step takes back an override, a payment row or a completed charge.
Grows ==
    /\ forced \subseteq forced'
    /\ \A p \in Payments :
          payStatus[p] # "absent" =>
              /\ payStatus'[p] # "absent"
              /\ payOrder'[p] = payOrder[p]
              /\ gateway[p] = "COMPLETE" => gateway'[p] = "COMPLETE"

LEMMA UnchangedGrows == UNCHANGED <<payVars, forced>> => Grows
BY DEF Grows, payVars

\* The orders of a group have the same group.
LEMMA SameGroup ==
    ASSUME NEW o \in Orders, NEW q \in GroupOf[o]
    PROVE  q \in Orders /\ GroupOf[q] = GroupOf[o]
BY StoreAssumption

\* What entitles an order entitles every order of its group.
LEMMA BackedGroup ==
    ASSUME ForcedOK, NEW o \in Orders, NEW q \in GroupOf[o], Backed(o)
    PROVE  Backed(q)
<1>1. q \in Orders /\ GroupOf[q] = GroupOf[o]
  BY SameGroup
<1> QED
  BY <1>1 DEF Backed, Charged, GroupPayments, ForcedOK

\* An order that is entitled to be confirmed stays so.
LEMMA BackedStays ==
    ASSUME PaymentOK, Grows, NEW o, Backed(o)
    PROVE  Backed(o)'
<1>1. CASE o \in forced
  BY <1>1 DEF Backed, Grows
<1>2. CASE Charged(o)
  <2>1. PICK p \in GroupPayments(o) : gateway[p] = "COMPLETE"
    BY <1>2 DEF Charged
  <2>2. p \in Payments /\ payStatus[p] # "absent"
    BY <2>1 DEF GroupPayments, PaymentOK
  <2>3. payOrder'[p] = payOrder[p] /\ gateway'[p] = "COMPLETE"
    BY <2>1, <2>2 DEF Grows
  <2> QED
    BY <2>1, <2>2, <2>3 DEF Backed, Charged, GroupPayments, Payments
<1> QED
  BY <1>1, <1>2 DEF Backed

\* What a request carries stays true while it carries it.
LEMMA JobStays ==
    ASSUME PaymentOK, Grows, NEW job, JobOK(job)
    PROVE  JobOK(job)'
<1>1. Backed(job.o) => Backed(job.o)'
  BY BackedStays
<1> QED
  BY <1>1 DEF JobOK, Grows, Confirming, Publishing, Rereading, Writing

-----------------------------------------------------------------------------
(* One step of one request *)

\* Only request w moved, to a job that is sound: every request is sound.
LEMMA JobsStay ==
    ASSUME PaidInv, Grows, NEW w \in Workers, NEW job \in Job, JobOK(job)',
           SetJob(w, job)
    PROVE  jobs' \in [Workers -> Job] /\ \A v \in Workers : JobOK(jobs[v])'
<1>1. jobs \in [Workers -> Job] /\ jobs' = [jobs EXCEPT ![w] = job]
  BY DEF PaidInv, TypeOK, SetJob
<1>2. ASSUME NEW v \in Workers
      PROVE  JobOK(jobs[v])'
  <2>1. CASE v = w
    <3>1. jobs'[v] = job
      BY <1>1, <2>1
    <3> QED
      BY <3>1 DEF JobOK, Confirming, Publishing, Rereading, Writing
  <2>2. CASE v # w
    <3>1. PICK j : j = jobs[v]
      OBVIOUS
    <3>2. jobs'[v] = j
      BY <1>1, <2>2, <3>1
    <3>3. JobOK(j)'
      BY <3>1, JobStays DEF PaidInv
    <3> QED
      BY <3>2, <3>3 DEF JobOK, Confirming, Publishing, Rereading, Writing
  <2> QED
    BY <2>1, <2>2
<1> QED
  BY <1>1, <1>2

\* No request moved.
LEMMA JobsUnchanged ==
    ASSUME PaidInv, Grows, UNCHANGED jobs
    PROVE  jobs' \in [Workers -> Job] /\ \A v \in Workers : JobOK(jobs[v])'
<1>1. jobs' \in [Workers -> Job]
  BY DEF PaidInv, TypeOK
<1>2. ASSUME NEW v \in Workers
      PROVE  JobOK(jobs[v])'
  <2>1. PICK j : j = jobs[v]
    OBVIOUS
  <2>2. JobOK(j)'
    BY <2>1, JobStays DEF PaidInv
  <2> QED
    BY <2>1, <2>2 DEF JobOK, Confirming, Publishing, Rereading, Writing
<1> QED
  BY <1>1, <1>2

\* A step that writes neither orders nor payments.
LEMMA ReadStep ==
    ASSUME PaidInv, NEW w \in Workers, NEW job \in Job, JobOK(job),
           SetJob(w, job), UNCHANGED <<orderVars, payVars, forced>>
    PROVE  PaidInv'
<1>1. Grows
  BY UnchangedGrows
<1>2. JobOK(job)'
  BY <1>1, JobStays DEF PaidInv
<1>3. jobs' \in [Workers -> Job] /\ \A v \in Workers : JobOK(jobs[v])'
  BY <1>1, <1>2, JobsStay
<1>4. TypeOK'
  BY <1>3 DEF PaidInv, TypeOK, orderVars, payVars
<1>5. PaymentOK' /\ ForcedOK'
  BY DEF PaidInv, PaymentOK, ForcedOK, payVars
<1>6. NoFreeConfirm'
  BY DEF PaidInv, NoFreeConfirm, Backed, Charged, GroupPayments, orderVars, payVars
<1> QED
  BY <1>3, <1>4, <1>5, <1>6 DEF PaidInv

\* A step that writes orders but neither payments nor overrides: the orders it
\* moves past confirmation, or whose revenue it counts, must be backed.
LEMMA OrderStep ==
    ASSUME PaidInv, UNCHANGED <<payVars, forced>>,
           status' \in [Orders -> Statuses],
           stock' \in [Products -> Nat],
           revenue' \in [Orders -> RevenueStatuses],
           jobs' \in [Workers -> Job] /\ \A v \in Workers : JobOK(jobs[v])',
           \A o \in Orders :
               /\ status'[o] \in PastConfirmation =>
                     status[o] \in PastConfirmation \/ Backed(o)
               /\ revenue'[o] \in {"Completed", "Refunded"} =>
                     revenue[o] \in {"Completed", "Refunded"} \/ Backed(o)
    PROVE  PaidInv'
<1>1. TypeOK'
  BY DEF PaidInv, TypeOK, payVars
<1>2. PaymentOK' /\ ForcedOK'
  BY DEF PaidInv, PaymentOK, ForcedOK, payVars
<1>3. \A o \in Orders : Backed(o) => Backed(o)'
  BY DEF Backed, Charged, GroupPayments, payVars
<1>4. NoFreeConfirm'
  BY <1>3 DEF PaidInv, NoFreeConfirm
<1> QED
  BY <1>1, <1>2, <1>4 DEF PaidInv

-----------------------------------------------------------------------------
(* Every step of Purchase *)

LEMMA PaidInvInit == Init => PaidInv
<1> SUFFICES ASSUME Init PROVE PaidInv
  OBVIOUS
<1>1. TypeOK
  BY StoreAssumption
  DEF Init, TypeOK, Statuses, RevenueStatuses, PaymentStatuses, Job, NoJob, Steps
<1>2. PaymentOK /\ ForcedOK
  BY DEF Init, PaymentOK, ForcedOK
<1>3. \A w \in Workers : JobOK(jobs[w])
  BY DEF Init, NoJob, JobOK, Confirming, Publishing, Rereading, Writing
<1>4. NoFreeConfirm
  BY DEF Init, NoFreeConfirm, PastConfirmation, HoldsStock
<1> QED
  BY <1>1, <1>2, <1>3, <1>4 DEF PaidInv

\* A request that ends has nothing left to rest on.
LEMMA NoJobOK == NoJob \in Job /\ JobOK(NoJob) /\ JobOK(NoJob)'
BY DEF NoJob, Job, Steps, JobOK, Confirming, Publishing, Rereading, Writing

LEMMA GatewayStep ==
    ASSUME PaidInv, NEW p \in Payments, CustomerPays(p) \/ GatewayCloses(p)
    PROVE  PaidInv'
<1>1. Grows
  BY DEF CustomerPays, GatewayCloses, Grows, PaidInv, TypeOK
<1>2. jobs' \in [Workers -> Job] /\ \A v \in Workers : JobOK(jobs[v])'
  BY <1>1, JobsUnchanged DEF CustomerPays, GatewayCloses
<1>3. TypeOK'
  BY <1>2 DEF PaidInv, TypeOK, CustomerPays, GatewayCloses, orderVars, GatewayStatuses
<1>4. PaymentOK' /\ ForcedOK'
  BY DEF PaidInv, TypeOK, PaymentOK, ForcedOK, CustomerPays, GatewayCloses, GatewayStatuses
<1>5. \A o \in Orders : Backed(o) => Backed(o)'
  BY <1>1, BackedStays DEF PaidInv
<1>6. NoFreeConfirm'
  BY <1>5 DEF PaidInv, NoFreeConfirm, CustomerPays, GatewayCloses, orderVars
<1> QED
  BY <1>2, <1>3, <1>4, <1>6 DEF PaidInv

\* checkout
LEMMA CheckoutReadStep ==
    ASSUME PaidInv, NEW w \in Workers, NEW o \in Orders, CheckoutRead(w, o)
    PROVE  PaidInv'
<1> DEFINE job == [NoJob EXCEPT !.pc = "checkout", !.o = o]
<1>1. job \in Job /\ JobOK(job)
  BY DEF NoJob, Job, Steps, JobOK, Confirming, Publishing, Rereading, Writing
<1> QED
  BY <1>1, ReadStep DEF CheckoutRead

LEMMA InsertIntentStep ==
    ASSUME PaidInv, NEW w \in Workers, NEW p \in Payments, InsertIntent(w, p)
    PROVE  PaidInv'
<1>1. jobs[w].o \in Orders
  BY DEF PaidInv, JobOK, InsertIntent
<1>2. Grows
  BY DEF InsertIntent, Grows, PaidInv, TypeOK
<1>3. jobs' \in [Workers -> Job] /\ \A v \in Workers : JobOK(jobs[v])'
  BY <1>2, NoJobOK, JobsStay DEF InsertIntent
<1>4. TypeOK'
  BY <1>1, <1>3
  DEF PaidInv, TypeOK, InsertIntent, orderVars, PaymentStatuses, GatewayStatuses
<1>5. PaymentOK' /\ ForcedOK'
  BY <1>1 DEF PaidInv, TypeOK, PaymentOK, ForcedOK, InsertIntent, GatewayStatuses
<1>6. \A o \in Orders : Backed(o) => Backed(o)'
  BY <1>2, BackedStays DEF PaidInv
<1>7. NoFreeConfirm'
  BY <1>6 DEF PaidInv, NoFreeConfirm, InsertIntent, orderVars
<1> QED
  BY <1>3, <1>4, <1>5, <1>7 DEF PaidInv

\* processEsewaEvent
LEMMA CallbackReadStep ==
    ASSUME PaidInv, NEW w \in Workers, NEW p \in Payments, CallbackRead(w, p)
    PROVE  PaidInv'
<1> DEFINE job == [NoJob EXCEPT !.pc = "check", !.o = payOrder[p], !.p = p]
<1>1. payOrder[p] \in Orders
  BY DEF CallbackRead, PaidInv, PaymentOK
<1>2. job \in Job /\ JobOK(job)
  BY <1>1 DEF CallbackRead, NoJob, Job, Steps, JobOK, Confirming, Publishing,
              Rereading, Writing
<1> QED
  BY <1>2, ReadStep DEF CallbackRead

LEMMA CheckStatusStep ==
    ASSUME PaidInv, NEW w \in Workers, CheckStatus(w)
    PROVE  PaidInv'
<1> DEFINE answer == gateway[jobs[w].p]
           job == [jobs[w] EXCEPT
                     !.pc = IF answer = "COMPLETE" THEN "confirm" ELSE "publish",
                     !.gw = answer, !.cont = "publish"]
<1>1. /\ jobs[w] \in Job /\ jobs[w].o \in Orders /\ jobs[w].p \in Payments
      /\ payStatus[jobs[w].p] # "absent" /\ jobs[w].o = payOrder[jobs[w].p]
  BY DEF CheckStatus, PaidInv, TypeOK, JobOK
<1>2. answer \in GatewayStatuses
  BY <1>1 DEF PaidInv, PaymentOK
<1>3. job \in Job
  BY <1>1, <1>2 DEF Job, Steps
<1>4. answer = "COMPLETE" => Backed(jobs[w].o)
  BY <1>1, StoreAssumption DEF Backed, Charged, GroupPayments
<1>5. JobOK(job)
  <2>1. JobOK(jobs[w]) /\ jobs[w].pc = "check"
    BY DEF PaidInv, CheckStatus
  <2> QED
    BY <1>1, <1>2, <1>4, <2>1
    DEF Job, JobOK, Confirming, Publishing, Rereading, Writing
<1> QED
  BY <1>3, <1>5, ReadStep DEF CheckStatus

LEMMA PublishStep ==
    ASSUME PaidInv, NEW w \in Workers, Publish(w)
    PROVE  PaidInv'
<1> DEFINE p == jobs[w].p
           answer == jobs[w].gw
<1>1. /\ p \in Payments /\ payStatus[p] # "absent" /\ answer \in GatewayStatuses
      /\ answer = "COMPLETE" => gateway[p] = "COMPLETE"
  BY DEF Publish, PaidInv, JobOK, Publishing
<1>2. Grows
  BY <1>1 DEF Publish, Grows, PaidInv, TypeOK
<1>3. jobs' \in [Workers -> Job] /\ \A v \in Workers : JobOK(jobs[v])'
  BY <1>2, NoJobOK, JobsStay DEF Publish
<1>4. TypeOK'
  BY <1>1, <1>3 DEF PaidInv, TypeOK, Publish, orderVars, PaymentStatuses
<1>5. PaymentOK' /\ ForcedOK'
  BY <1>1 DEF PaidInv, TypeOK, PaymentOK, ForcedOK, Publish
<1>6. NoFreeConfirm'
  BY DEF PaidInv, NoFreeConfirm, Publish, orderVars, Backed, Charged, GroupPayments
<1> QED
  BY <1>3, <1>4, <1>5, <1>6 DEF PaidInv

\* confirmOrderCore
LEMMA ReturnOK ==
    ASSUME NEW job \in Job, JobOK(job), Confirming(job)
    PROVE  Return(job) \in Job /\ JobOK(Return(job))
<1>1. CASE job.cont = "idle"
  BY <1>1, NoJobOK DEF Return
<1>2. CASE job.cont # "idle"
  <2>1. Return(job) = [job EXCEPT !.pc = job.cont, !.todo = {}]
    BY <1>2 DEF Return
  <2>2. job.cont \in {"publish", "reread"}
    BY <1>2 DEF Job
  <2> QED
    BY <2>1, <2>2
    DEF Job, Steps, JobOK, Confirming, Publishing, Rereading, Writing
<1> QED
  BY <1>1, <1>2

LEMMA ConfirmReadStep ==
    ASSUME PaidInv, NEW w \in Workers, ConfirmRead(w)
    PROVE  PaidInv'
<1> DEFINE loop == [jobs[w] EXCEPT !.pc = "loop", !.todo = GroupOf[jobs[w].o]]
<1>1. /\ jobs[w] \in Job /\ JobOK(jobs[w]) /\ jobs[w].pc = "confirm"
      /\ jobs[w].o \in Orders
  BY DEF ConfirmRead, PaidInv, TypeOK, JobOK
<1>2. loop \in Job /\ JobOK(loop)
  BY <1>1, StoreAssumption
  DEF Job, Steps, JobOK, Confirming, Publishing, Rereading, Writing
<1>3. Return(jobs[w]) \in Job /\ JobOK(Return(jobs[w]))
  BY <1>1, ReturnOK DEF Confirming
<1>4. \/ SetJob(w, loop) \/ SetJob(w, NoJob) \/ SetJob(w, Return(jobs[w]))
  BY DEF ConfirmRead
<1>5. UNCHANGED <<orderVars, payVars, forced>>
  BY DEF ConfirmRead
<1> HIDE DEF loop
<1> QED
  BY <1>2, <1>3, <1>4, <1>5, NoJobOK, ReadStep

\* The loop has handled one order: the rest of it is still of the group.
LEMMA HandledOK ==
    ASSUME PaidInv, NEW w \in Workers, NEW o, NEW confirmed \in BOOLEAN,
           jobs[w].pc = "loop", Handled(w, o, confirmed)
    PROVE  \E job \in Job : JobOK(job) /\ SetJob(w, job)
<1> DEFINE job == [jobs[w] EXCEPT !.todo = @ \ {o}, !.any = @ \/ confirmed]
<1>1. jobs[w] \in Job /\ JobOK(jobs[w])
  BY DEF PaidInv, TypeOK
<1>2. job \in Job
  BY <1>1 DEF Job
<1>3. JobOK(job)
  BY <1>1 DEF Job, JobOK, Confirming, Publishing, Rereading, Writing
<1> QED
  BY <1>2, <1>3 DEF Handled

\* The conditional decrement of adjustStock never takes stock below zero.
LEMMA DeductOK ==
    ASSUME stock \in [Products -> Nat], NEW o \in Orders, CanDeduct(o), Deduct(o)
    PROVE  stock' \in [Products -> Nat]
<1> DEFINE left == stock[ProductOf[o]] - Quantity[o]
<1>1. ProductOf[o] \in Products /\ Quantity[o] \in Nat
  BY StoreAssumption
<1>2. left \in Nat
  BY <1>1 DEF CanDeduct
<1>3. stock' = [stock EXCEPT ![ProductOf[o]] = left]
  BY DEF Deduct
<1> HIDE DEF left
<1> QED
  BY <1>1, <1>2, <1>3

\* The order in the loop is an order, and backed.
LEMMA LoopBacked ==
    ASSUME PaidInv, NEW w \in Workers, jobs[w].pc = "loop", NEW o \in jobs[w].todo
    PROVE  o \in Orders /\ Backed(o)
<1>1. /\ jobs[w].o \in Orders /\ Backed(jobs[w].o)
      /\ jobs[w].todo \subseteq GroupOf[jobs[w].o]
  BY DEF PaidInv, JobOK, Confirming
<1> QED
  BY <1>1, SameGroup, BackedGroup DEF PaidInv

LEMMA ConfirmOrderStep ==
    ASSUME PaidInv, NEW w \in Workers, NEW o \in Orders,
           ConfirmOrder(w, o) \/ ConfirmOutOfStock(w, o)
    PROVE  PaidInv'
<1>1. jobs[w].pc = "loop" /\ o \in jobs[w].todo /\ UNCHANGED <<payVars, forced>>
  BY DEF ConfirmOrder, ConfirmOutOfStock
<1>2. Backed(o)
  BY <1>1, LoopBacked
<1>3. PICK job \in Job : JobOK(job) /\ SetJob(w, job)
  BY <1>1, HandledOK DEF ConfirmOrder, ConfirmOutOfStock
<1>4. Grows
  BY <1>1, UnchangedGrows
<1>5. JobOK(job)'
  BY <1>3, <1>4, JobStays DEF PaidInv
<1>6. jobs' \in [Workers -> Job] /\ \A v \in Workers : JobOK(jobs[v])'
  BY <1>3, <1>4, <1>5, JobsStay
<1>7. status' \in [Orders -> Statuses] /\ revenue' \in [Orders -> RevenueStatuses]
  BY DEF ConfirmOrder, ConfirmOutOfStock, PaidInv, TypeOK, Statuses, RevenueStatuses
<1>8. stock' \in [Products -> Nat]
  BY DeductOK DEF ConfirmOrder, ConfirmOutOfStock, PaidInv, TypeOK
<1>9. \A q \in Orders :
         /\ status'[q] \in PastConfirmation =>
               status[q] \in PastConfirmation \/ Backed(q)
         /\ revenue'[q] \in {"Completed", "Refunded"} =>
               revenue[q] \in {"Completed", "Refunded"} \/ Backed(q)
  BY <1>2 DEF ConfirmOrder, ConfirmOutOfStock, PaidInv, TypeOK
<1> QED
  BY <1>1, <1>6, <1>7, <1>8, <1>9, OrderStep

LEMMA ConfirmIdleStep ==
    ASSUME PaidInv, NEW w \in Workers, NEW o \in Orders,
           ConfirmSkip(w, o) \/ ConfirmFails(w, o)
    PROVE  PaidInv'
<1>1. /\ jobs[w].pc = "loop" /\ Handled(w, o, FALSE)
      /\ UNCHANGED <<orderVars, payVars, forced>>
  BY DEF ConfirmSkip, ConfirmFails
<1>2. PICK job \in Job : JobOK(job) /\ SetJob(w, job)
  BY <1>1, HandledOK
<1> QED
  BY <1>1, <1>2, ReadStep

LEMMA ConfirmDoneStep ==
    ASSUME PaidInv, NEW w \in Workers, ConfirmDone(w)
    PROVE  PaidInv'
<1>1. jobs[w] \in Job /\ JobOK(jobs[w]) /\ Confirming(jobs[w])
  BY DEF ConfirmDone, PaidInv, TypeOK, Confirming
<1> QED
  BY <1>1, ReturnOK, ReadStep DEF ConfirmDone

\* confirmOrderAndDeductStock
LEMMA ConfirmRouteStep ==
    ASSUME PaidInv, NEW w \in Workers, NEW o \in Orders, ConfirmRoute(w, o)
    PROVE  PaidInv'
<1> DEFINE job == [NoJob EXCEPT !.pc = "confirm", !.o = o]
<1>1. Backed(o)
  BY DEF ConfirmRoute, PaidInv, PaymentOK, Backed, Charged, GroupPayments
<1>2. job \in Job /\ JobOK(job)
  BY <1>1 DEF NoJob, Job, Steps, JobOK, Confirming, Publishing, Rereading, Writing
<1> QED
  BY <1>2, ReadStep DEF ConfirmRoute

LEMMA RestoreOK ==
    ASSUME stock \in [Products -> Nat], NEW o \in Orders, Restore(o)
    PROVE  stock' \in [Products -> Nat]
<1> DEFINE back == stock[ProductOf[o]] + Quantity[o]
<1>1. ProductOf[o] \in Products /\ Quantity[o] \in Nat
  BY StoreAssumption
<1>2. back \in Nat
  BY <1>1
<1>3. stock' = [stock EXCEPT ![ProductOf[o]] = back]
  BY DEF Restore
<1> HIDE DEF back
<1> QED
  BY <1>1, <1>2, <1>3

\* cancelOrderCore
LEMMA CancelStep ==
    ASSUME PaidInv, NEW o \in Orders, Cancel(o)
    PROVE  PaidInv'
<1>1. UNCHANGED <<payVars, forced>> /\ UNCHANGED jobs
  BY DEF Cancel
<1>2. jobs' \in [Workers -> Job] /\ \A v \in Workers : JobOK(jobs[v])'
  BY <1>1, UnchangedGrows, JobsUnchanged
<1>3. status' \in [Orders -> Statuses] /\ revenue' \in [Orders -> RevenueStatuses]
  BY DEF Cancel, PaidInv, TypeOK, Statuses
<1>4. stock' \in [Products -> Nat]
  BY RestoreOK DEF Cancel, PaidInv, TypeOK
<1>5. \A q \in Orders :
         /\ status'[q] \in PastConfirmation => status[q] \in PastConfirmation
         /\ revenue'[q] = revenue[q]
  BY DEF Cancel, PaidInv, TypeOK, PastConfirmation, HoldsStock
<1> QED
  BY <1>1, <1>2, <1>3, <1>4, <1>5, OrderStep

\* A checkout that reuses its payment and a request that dies leave nothing.
LEMMA EndStep ==
    ASSUME PaidInv, NEW w \in Workers, ReuseIntent(w) \/ Abandon(w)
    PROVE  PaidInv'
BY NoJobOK, ReadStep DEF ReuseIntent, Abandon

LEMMA PaidInvUnchanged == PaidInv /\ UNCHANGED vars => PaidInv'
<1> SUFFICES ASSUME PaidInv, UNCHANGED vars PROVE PaidInv'
  OBVIOUS
<1>1. UNCHANGED <<payVars, forced>> /\ UNCHANGED jobs /\ UNCHANGED orderVars
  BY DEF vars, payVars, orderVars
<1>2. jobs' \in [Workers -> Job] /\ \A v \in Workers : JobOK(jobs[v])'
  BY <1>1, UnchangedGrows, JobsUnchanged
<1> QED
  BY <1>1, <1>2, OrderStep DEF orderVars, PaidInv, TypeOK

LEMMA PaidInvStep == PaidInv /\ [PurchaseNext]_vars => PaidInv'
<1> SUFFICES ASSUME PaidInv, [PurchaseNext]_vars PROVE PaidInv'
  OBVIOUS
<1>1. CASE UNCHANGED vars
  BY <1>1, PaidInvUnchanged
<1>2. CASE Environment
  BY <1>2, GatewayStep, CancelStep DEF Environment
<1>3. ASSUME NEW w \in Workers, Begin(w)
      PROVE  PaidInv'
  BY <1>3, CheckoutReadStep, ConfirmRouteStep, CallbackReadStep DEF Begin
<1>4. ASSUME NEW w \in Workers, Confirm(w)
      PROVE  PaidInv'
  BY <1>4, ConfirmReadStep, ConfirmDoneStep, ConfirmOrderStep, ConfirmIdleStep
  DEF Confirm
<1>5. ASSUME NEW w \in Workers, Continue(w)
      PROVE  PaidInv'
  BY <1>4, <1>5, EndStep, InsertIntentStep, CheckStatusStep, PublishStep
  DEF Continue
<1>6. ASSUME NEW w \in Workers, Fault(w)
      PROVE  PaidInv'
  BY <1>6, EndStep, ConfirmIdleStep DEF Fault
<1> QED
  BY <1>1, <1>2, <1>3, <1>5, <1>6 DEF PurchaseNext

-----------------------------------------------------------------------------
(* Theorems *)

\* PaidInv holds in every state of Purchase.
THEOREM PurchasePaidInv == PurchaseSpec => []PaidInv
BY PaidInvInit, PaidInvStep, PTL DEF PurchaseSpec

\* Every variable keeps its type; in particular no stock is ever negative
\* (the conditional decrement of adjustStock).
THEOREM PurchaseTypeOK == PurchaseSpec => []TypeOK
<1>1. PaidInv => TypeOK
  BY DEF PaidInv
<1> QED
  BY <1>1, PurchasePaidInv, PTL

\* No order is confirmed, and no revenue counted, without a charge or an
\* override (confirmOrderAndDeductStock, processEsewaEvent).
THEOREM PurchaseNoFreeConfirm == PurchaseSpec => []NoFreeConfirm
<1>1. PaidInv => NoFreeConfirm
  BY DEF PaidInv
<1> QED
  BY <1>1, PurchasePaidInv, PTL

\* A cancelled order stays cancelled: every claim compares the status
\* (confirmOrderCore, cancelOrderCore).
THEOREM PurchaseCancelledStays == PurchaseSpec => CancelledStays
<1>1. ASSUME TypeOK, [PurchaseNext]_vars, NEW o \in Orders, status[o] = "Cancelled"
      PROVE  status'[o] = "Cancelled"
  <2>1. CASE UNCHANGED vars
    BY <1>1, <2>1 DEF vars
  <2>2. CASE Environment
    BY <1>1, <2>2 DEF Environment, CustomerPays, GatewayCloses, Cancel, TypeOK, orderVars
  <2>3. ASSUME NEW w \in Workers, Begin(w) \/ Fault(w)
        PROVE  UNCHANGED status
    BY <2>3 DEF Begin, CheckoutRead, ConfirmRoute, CallbackRead, Fault, Abandon,
                ConfirmFails, orderVars
  <2>4. ASSUME NEW w \in Workers, Continue(w)
        PROVE  status'[o] = "Cancelled"
    <3>1. CASE \E q \in Orders : ConfirmOrder(w, q) \/ ConfirmOutOfStock(w, q)
      BY <1>1, <3>1 DEF ConfirmOrder, ConfirmOutOfStock, TypeOK
    <3>2. CASE \/ ReuseIntent(w) \/ CheckStatus(w) \/ Publish(w)
               \/ ConfirmRead(w) \/ ConfirmDone(w)
               \/ \E p \in Payments : InsertIntent(w, p)
               \/ \E q \in Orders : ConfirmSkip(w, q)
      BY <1>1, <3>2
      DEF ReuseIntent, CheckStatus, Publish, ConfirmRead, ConfirmDone, InsertIntent,
          ConfirmSkip, orderVars
    <3> QED
      BY <2>4, <3>1, <3>2 DEF Continue, Confirm
  <2> QED
    BY <1>1, <2>1, <2>2, <2>3, <2>4 DEF PurchaseNext
<1>2. TypeOK /\ [PurchaseNext]_vars =>
         [\A o \in Orders : status[o] = "Cancelled" => status'[o] = "Cancelled"]_vars
  BY <1>1
<1> QED
  BY <1>2, PurchaseTypeOK, PTL DEF PurchaseSpec, CancelledStays

-----------------------------------------------------------------------------
(* The ledger of events *)

\* A step that records nothing and settles no payment.
LEMMA LedgerStays ==
    ASSUME PaidInv, LedgerAgrees, Grows, UNCHANGED events,
           \A p \in Payments : payStatus'[p] = payStatus[p]
               \/ (payStatus[p] = "absent" /\ payStatus'[p] = "Initiated")
    PROVE  LedgerAgrees'
BY DEF PaidInv, PaymentOK, LedgerAgrees, Grows

LEMMA LedgerPublishStep ==
    ASSUME PaidInv, LedgerAgrees, NEW w \in Workers, Publish(w)
    PROVE  LedgerAgrees'
<1>1. PICK p, answer : p = jobs[w].p /\ answer = jobs[w].gw
  OBVIOUS
<1>2. /\ p \in Payments /\ payStatus[p] # "absent" /\ answer \in GatewayStatuses
      /\ answer = "COMPLETE" => gateway[p] = "COMPLETE"
  BY <1>1 DEF Publish, PaidInv, JobOK, Publishing
<1>3. CASE <<p, answer>> \in events
  <2>1. UNCHANGED <<events, payStatus, gateway>>
    BY <1>1, <1>3 DEF Publish
  <2> QED
    BY <2>1 DEF LedgerAgrees
<1>4. CASE <<p, answer>> \notin events
  <2>1. /\ events' = events \cup {<<p, answer>>} /\ UNCHANGED gateway
        /\ \A q \in Payments : payStatus'[q] =
              IF q # p THEN payStatus[q]
              ELSE IF answer = "COMPLETE" THEN "Succeeded" ELSE "Failed"
    BY <1>1, <1>4 DEF Publish, PaidInv, TypeOK
  <2>2. ASSUME NEW q \in Payments, q # p, NEW g
        PROVE  <<q, g>> \in events' <=> <<q, g>> \in events
    BY <2>1, <2>2
  <2>3. <<p, answer>> \in events'
    BY <2>1
  <2>4. ASSUME NEW g, g # answer
        PROVE  <<p, g>> \in events' <=> <<p, g>> \in events
    BY <2>1, <2>4
  <2>5. SUFFICES ASSUME NEW q \in Payments
                 PROVE  LET seen == {g \in GatewayStatuses : <<q, g>> \in events'} IN
                        /\ payStatus'[q] \in {"absent", "Initiated"} <=> seen = {}
                        /\ payStatus'[q] = "Succeeded" => "COMPLETE" \in seen
                        /\ payStatus'[q] = "Failed" => seen # {"COMPLETE"}
                        /\ "COMPLETE" \in seen => gateway'[q] = "COMPLETE"
    BY DEF LedgerAgrees
  <2>6. CASE q # p
    <3>1. {g \in GatewayStatuses : <<q, g>> \in events'}
            = {g \in GatewayStatuses : <<q, g>> \in events}
      BY <2>2, <2>6
    <3> QED
      BY <2>1, <2>6, <3>1 DEF LedgerAgrees
  <2>7. CASE q = p
    <3>1. "COMPLETE" \in GatewayStatuses
      BY DEF GatewayStatuses
    <3>2. <<p, "COMPLETE">> \in events' => gateway[p] = "COMPLETE"
      BY <1>2, <2>4, <3>1 DEF LedgerAgrees
    <3> QED
      BY <1>2, <2>1, <2>3, <2>7, <3>1, <3>2
  <2> QED
    BY <2>6, <2>7
<1> QED
  BY <1>3, <1>4

LEMMA LedgerStep == PaidInv /\ LedgerAgrees /\ [PurchaseNext]_vars => LedgerAgrees'
<1> SUFFICES ASSUME PaidInv, LedgerAgrees, [PurchaseNext]_vars PROVE LedgerAgrees'
  OBVIOUS
<1>1. CASE UNCHANGED <<payVars, forced>>
  BY <1>1, UnchangedGrows, LedgerStays DEF payVars
<1>2. CASE UNCHANGED vars
  BY <1>1, <1>2 DEF vars, payVars
<1>3. CASE Environment
  <2>1. CASE \E p \in Payments : CustomerPays(p) \/ GatewayCloses(p)
    <3>1. Grows
      BY <2>1 DEF CustomerPays, GatewayCloses, Grows, PaidInv, TypeOK
    <3> QED
      BY <2>1, <3>1, LedgerStays DEF CustomerPays, GatewayCloses
  <2> QED
    BY <1>1, <1>3, <2>1 DEF Environment, Cancel
<1>4. ASSUME NEW w \in Workers, Begin(w) \/ Fault(w)
      PROVE  LedgerAgrees'
  BY <1>1, <1>4 DEF Begin, CheckoutRead, ConfirmRoute, CallbackRead, Fault, Abandon,
                    ConfirmFails
<1>5. ASSUME NEW w \in Workers, Continue(w)
      PROVE  LedgerAgrees'
  <2>1. ASSUME NEW p \in Payments, InsertIntent(w, p)
        PROVE  LedgerAgrees'
    <3>1. Grows
      BY <2>1 DEF InsertIntent, Grows, PaidInv, TypeOK
    <3> QED
      BY <2>1, <3>1, LedgerStays DEF InsertIntent, PaidInv, TypeOK
  <2>2. CASE Publish(w)
    BY <2>2, LedgerPublishStep
  <2>3. CASE ReuseIntent(w) \/ CheckStatus(w) \/ Confirm(w)
    BY <1>1, <2>3
    DEF ReuseIntent, CheckStatus, Confirm, ConfirmRead, ConfirmDone, ConfirmOrder,
        ConfirmOutOfStock, ConfirmSkip
  <2> QED
    BY <1>5, <2>1, <2>2, <2>3 DEF Continue
<1> QED
  BY <1>2, <1>3, <1>4, <1>5 DEF PurchaseNext

\* payments agrees with payment_events in every state, however callbacks race
\* (the publish transaction of processEsewaEvent and its gatewayEventId).
THEOREM PurchaseLedgerAgrees == PurchaseSpec => []LedgerAgrees
<1>1. Init => LedgerAgrees
  BY DEF Init, LedgerAgrees
<1> QED
  BY <1>1, LedgerStep, PurchasePaidInv, PTL DEF PurchaseSpec
-----------------------------------------------------------------------------
(* Purchase implements Sale *)

\* The sale of one order changes with its status, that of the others does not.
LEMMA SaleMoves ==
    ASSUME TypeOK, NEW o \in Orders, NEW st \in Statuses,
           status' = [status EXCEPT ![o] = st]
    PROVE  [q \in Orders |-> SaleOf(status[q])]'
             = [[q \in Orders |-> SaleOf(status[q])] EXCEPT ![o] = SaleOf(st)]
<1>1. \A q \in Orders : status'[q] = IF q = o THEN st ELSE status[q]
  BY DEF TypeOK
<1>2. \A q \in Orders : SaleOf(status'[q]) = IF q = o THEN SaleOf(st) ELSE SaleOf(status[q])
  BY <1>1
<1> QED
  BY <1>2

LEMMA SaleInitMaps == Init => Ideal!SaleInit
<1> SUFFICES ASSUME Init PROVE Ideal!SaleInit
  OBVIOUS
<1>1. SaleOf("Pending") = "open"
  BY DEF SaleOf, HoldsStock
<1>2. \A o \in Orders : SaleOf(status[o]) = "open"
  BY <1>1 DEF Init
<1> QED
  BY <1>2 DEF Init, Ideal!SaleInit

LEMMA SaleConfirmMaps ==
    ASSUME TypeOK, NEW w \in Workers, NEW o \in Orders, ConfirmOrder(w, o)
    PROVE  Ideal!Sell(o)
<1>1. SaleOf("Pending") = "open" /\ SaleOf("Confirmed") = "sold"
  BY DEF SaleOf, HoldsStock
<1>2. status[o] = "Pending" /\ status' = [status EXCEPT ![o] = "Confirmed"]
  BY DEF ConfirmOrder
<1>3. [q \in Orders |-> SaleOf(status[q])]'
        = [[q \in Orders |-> SaleOf(status[q])] EXCEPT ![o] = "sold"]
  BY <1>1, <1>2, SaleMoves DEF Statuses
<1>4. CanDeduct(o) /\ Deduct(o)
  BY DEF ConfirmOrder
<1> QED
  BY <1>1, <1>2, <1>3, <1>4 DEF Ideal!Sell, CanDeduct, Deduct

LEMMA SaleStrandMaps ==
    ASSUME TypeOK, NEW w \in Workers, NEW o \in Orders, ConfirmOutOfStock(w, o)
    PROVE  Ideal!Strand(o)
<1>1. SaleOf("Pending") = "open" /\ SaleOf("Confirming") = "stranded"
  BY DEF SaleOf, HoldsStock
<1>2. /\ status[o] = "Pending" /\ status' = [status EXCEPT ![o] = "Confirming"]
      /\ stock' = stock
  BY DEF ConfirmOutOfStock
<1>3. [q \in Orders |-> SaleOf(status[q])]'
        = [[q \in Orders |-> SaleOf(status[q])] EXCEPT ![o] = "stranded"]
  BY <1>1, <1>2, SaleMoves DEF Statuses
<1>4. stock[ProductOf[o]] < Quantity[o]
  <2>1. stock[ProductOf[o]] \in Nat /\ Quantity[o] \in Nat
    BY StoreAssumption DEF TypeOK
  <2>2. ~(stock[ProductOf[o]] >= Quantity[o])
    BY DEF ConfirmOutOfStock, CanDeduct
  <2> QED
    BY <2>1, <2>2
<1> QED
  BY <1>1, <1>2, <1>3, <1>4 DEF Ideal!Strand

LEMMA SaleCancelMaps ==
    ASSUME TypeOK, NEW o \in Orders, Cancel(o)
    PROVE  Ideal!VoidOpen(o) \/ Ideal!VoidSold(o)
<1>1. /\ SaleOf("Pending") = "open" /\ SaleOf("Confirmed") = "sold"
      /\ SaleOf("Cancelled") = "void"
  BY DEF SaleOf, HoldsStock
<1>2. [q \in Orders |-> SaleOf(status[q])]'
        = [[q \in Orders |-> SaleOf(status[q])] EXCEPT ![o] = "void"]
  BY <1>1, SaleMoves DEF Cancel, Statuses
<1>3. CASE status[o] = "Pending"
  BY <1>1, <1>2, <1>3 DEF Cancel, Ideal!VoidOpen
<1>4. CASE status[o] = "Confirmed"
  BY <1>1, <1>2, <1>4 DEF Cancel, Restore, Ideal!VoidSold
<1> QED
  BY <1>3, <1>4 DEF Cancel

\* Every other step leaves status and stock alone.
LEMMA SaleStutters ==
    ASSUME UNCHANGED <<status, stock>>
    PROVE  UNCHANGED Ideal!saleVars
BY DEF Ideal!saleVars

LEMMA SaleStepMaps == TypeOK /\ [PurchaseNext]_vars => [Ideal!SaleNext]_(Ideal!saleVars)
<1> SUFFICES ASSUME TypeOK, [PurchaseNext]_vars
             PROVE  [Ideal!SaleNext]_(Ideal!saleVars)
  OBVIOUS
<1>1. CASE UNCHANGED vars
  BY <1>1, SaleStutters DEF vars
<1>2. CASE Environment
  <2>1. CASE \E o \in Orders : Cancel(o)
    BY <2>1, SaleCancelMaps DEF Ideal!SaleNext
  <2>2. CASE \E p \in Payments : CustomerPays(p) \/ GatewayCloses(p)
    BY <2>2, SaleStutters DEF CustomerPays, GatewayCloses, orderVars
  <2> QED
    BY <1>2, <2>1, <2>2 DEF Environment
<1>3. ASSUME NEW w \in Workers, Begin(w)
      PROVE  UNCHANGED <<status, stock>>
  BY <1>3 DEF Begin, CheckoutRead, ConfirmRoute, CallbackRead, orderVars
<1>4. ASSUME NEW w \in Workers, Fault(w)
      PROVE  UNCHANGED <<status, stock>>
  BY <1>4 DEF Fault, Abandon, ConfirmFails, orderVars
<1>5. ASSUME NEW w \in Workers, Continue(w)
      PROVE  [Ideal!SaleNext]_(Ideal!saleVars)
  <2>1. CASE \E o \in Orders : ConfirmOrder(w, o)
    BY <2>1, SaleConfirmMaps DEF Ideal!SaleNext
  <2>2. CASE \E o \in Orders : ConfirmOutOfStock(w, o)
    BY <2>2, SaleStrandMaps DEF Ideal!SaleNext
  <2>3. CASE \/ ReuseIntent(w) \/ CheckStatus(w) \/ Publish(w)
             \/ ConfirmRead(w) \/ ConfirmDone(w)
             \/ \E p \in Payments : InsertIntent(w, p)
             \/ \E o \in Orders : ConfirmSkip(w, o)
    BY <2>3, SaleStutters
    DEF ReuseIntent, CheckStatus, Publish, ConfirmRead, ConfirmDone, InsertIntent,
        ConfirmSkip, orderVars
  <2> QED
    BY <1>5, <2>1, <2>2, <2>3 DEF Continue, Confirm
<1> QED
  BY <1>1, <1>2, <1>3, <1>4, <1>5, SaleStutters DEF PurchaseNext

\* Whatever callbacks, confirmations and cancellations do concurrently, orders
\* are sold and voided as Sale describes.
THEOREM PurchaseImplementsSale == PurchaseSpec => SaleImplemented
BY SaleInitMaps, SaleStepMaps, PurchaseTypeOK, PTL
DEF PurchaseSpec, SaleImplemented, Ideal!SaleSpec
=============================================================================
