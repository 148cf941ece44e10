---------------------------- MODULE CheckoutProofs ---------------------------
(***************************************************************************)
(* What a checkout leaves behind, for any number of orders, quantities,    *)
(* products, keys, requests and payment forms: the books of the shelf are  *)
(* in order in every behaviour of Purchase; on a server without faults no  *)
(* confirmation or callback is given up; and in every behaviour of         *)
(* Idempotency a key has one execution until it is pruned.                 *)
(***************************************************************************)
EXTENDS PurchaseProofs, Idempotency, FiniteSetTheorems

-----------------------------------------------------------------------------
(* The shelf: the steps are counted one order at a time *)

\* The units of one order.
Units(o) == {o} \X (1..Quantity[o])

LEMMA UnitsCounted ==
    ASSUME NEW o \in Orders
    PROVE  IsFiniteSet(Units(o)) /\ Cardinality(Units(o)) = Quantity[o]
<1>1. Quantity[o] \in Nat /\ Quantity[o] > 0
  BY StoreAssumption
<1>2. IsFiniteSet(1..Quantity[o]) /\ Cardinality(1..Quantity[o]) = Quantity[o]
  <2> DEFINE n == Quantity[o]
  <2>1. 1 \in Int /\ n \in Int /\ ~(1 > n) /\ n - 1 + 1 = n
    BY <1>1
  <2> HIDE DEF n
  <2>2. IsFiniteSet(1..n) /\ Cardinality(1..n) = n
    BY <2>1, FS_Interval
  <2> QED
    BY <2>2 DEF n
<1>3. ExistsBijection(1..Quantity[o], Units(o))
  <2> DEFINE f == [i \in 1..Quantity[o] |-> <<o, i>>]
  <2>1. f \in [1..Quantity[o] -> Units(o)]
    BY DEF Units
  <2>2. \A i, j \in 1..Quantity[o] : f[i] = f[j] => i = j
    OBVIOUS
  <2>3. \A u \in Units(o) : \E i \in 1..Quantity[o] : f[i] = u
    BY DEF Units
  <2> HIDE DEF f
  <2>4. f \in Bijection(1..Quantity[o], Units(o))
    BY <2>1, <2>2, <2>3 DEF Bijection, Injection, Surjection, IsInjective
  <2> QED
    BY <2>4 DEF ExistsBijection
<1> QED
  BY <1>2, <1>3, FS_Bijection

LEMMA UnitsApart ==
    ASSUME NEW o, NEW q, NEW u, u \in Units(o), u \in Units(q)
    PROVE  o = q
BY DEF Units

LEMMA HeldByOrders ==
    ASSUME NEW pr, NEW u
    PROVE  u \in HeldUnits(pr) <=>
             \E q \in Orders : ProductOf[q] = pr /\ status[q] \in HoldsStock /\ u \in Units(q)
BY DEF HeldUnits, Units

LEMMA HeldByOrdersNext ==
    ASSUME NEW pr, NEW u
    PROVE  u \in HeldUnits(pr)' <=>
             \E q \in Orders : ProductOf[q] = pr /\ status'[q] \in HoldsStock /\ u \in Units(q)
BY DEF HeldUnits, Units

\* An order that comes to hold its units adds them to its product's and to no other's.
LEMMA HeldGrows ==
    ASSUME TypeOK, NEW o \in Orders, NEW st \in HoldsStock, status[o] \notin HoldsStock,
           status' = [status EXCEPT ![o] = st], NEW pr \in Products
    PROVE  /\ HeldUnits(pr)' = IF pr = ProductOf[o] THEN HeldUnits(pr) \cup Units(o)
                               ELSE HeldUnits(pr)
           /\ HeldUnits(pr) \cap Units(o) = {}
<1>1. \A q \in Orders : status'[q] = IF q = o THEN st ELSE status[q]
  BY DEF TypeOK
<1>2. HeldUnits(pr) \cap Units(o) = {}
  BY HeldByOrders, UnitsApart
<1>3. ASSUME NEW u
      PROVE  u \in HeldUnits(pr)' <=>
               u \in HeldUnits(pr) \/ (pr = ProductOf[o] /\ u \in Units(o))
  <2>1. u \in HeldUnits(pr)' <=>
          \E q \in Orders : ProductOf[q] = pr /\ status'[q] \in HoldsStock /\ u \in Units(q)
    BY HeldByOrdersNext
  <2>2. u \in HeldUnits(pr) <=>
          \E q \in Orders : ProductOf[q] = pr /\ status[q] \in HoldsStock /\ u \in Units(q)
    BY HeldByOrders
  <2> QED
    BY <1>1, <2>1, <2>2
<1>4. CASE pr = ProductOf[o]
  <2>1. HeldUnits(pr)' = HeldUnits(pr) \cup Units(o)
    BY <1>3, <1>4
  <2> QED
    BY <1>2, <1>4, <2>1
<1>5. CASE pr # ProductOf[o]
  <2>1. HeldUnits(pr)' = HeldUnits(pr)
    BY <1>3, <1>5
  <2> QED
    BY <1>2, <1>5, <2>1
<1> QED
  BY <1>4, <1>5

\* An order that gives its units back takes them from its product's.
LEMMA HeldShrinks ==
    ASSUME TypeOK, NEW o \in Orders, NEW st \in Statuses \ HoldsStock,
           status[o] \in HoldsStock,
           status' = [status EXCEPT ![o] = st], NEW pr \in Products
    PROVE  IF pr = ProductOf[o]
           THEN HeldUnits(pr) = HeldUnits(pr)' \cup Units(o) /\ HeldUnits(pr)' \cap Units(o) = {}
           ELSE HeldUnits(pr)' = HeldUnits(pr)
<1>1. \A q \in Orders : status'[q] = IF q = o THEN st ELSE status[q]
  BY DEF TypeOK
<1>2. HeldUnits(pr)' \cap Units(o) = {}
  BY <1>1, HeldByOrdersNext, UnitsApart
<1>3. ASSUME NEW u
      PROVE  u \in HeldUnits(pr) <=>
               u \in HeldUnits(pr)' \/ (pr = ProductOf[o] /\ u \in Units(o))
  <2>1. u \in HeldUnits(pr)' <=>
          \E q \in Orders : ProductOf[q] = pr /\ status'[q] \in HoldsStock /\ u \in Units(q)
    BY HeldByOrdersNext
  <2>2. u \in HeldUnits(pr) <=>
          \E q \in Orders : ProductOf[q] = pr /\ status[q] \in HoldsStock /\ u \in Units(q)
    BY HeldByOrders
  <2> QED
    BY <1>1, <2>1, <2>2
<1>4. CASE pr = ProductOf[o]
  <2>1. HeldUnits(pr) = HeldUnits(pr)' \cup Units(o)
    BY <1>3, <1>4
  <2> QED
    BY <1>2, <1>4, <2>1
<1>5. CASE pr # ProductOf[o]
  <2>1. HeldUnits(pr)' = HeldUnits(pr)
    BY <1>3, <1>5
  <2> QED
    BY <1>5, <2>1
<1> QED
  BY <1>4, <1>5

\* A step that moves no order in or out of the holding statuses, and no stock.
LEMMA HeldStays ==
    ASSUME \A q \in Orders : status'[q] \in HoldsStock <=> status[q] \in HoldsStock, NEW pr
    PROVE  HeldUnits(pr)' = HeldUnits(pr)
<1>1. ASSUME NEW u PROVE u \in HeldUnits(pr)' <=> u \in HeldUnits(pr)
  BY HeldByOrders, HeldByOrdersNext
<1> QED
  BY <1>1

-----------------------------------------------------------------------------

\* The units held are finitely many, and with the shelf they make up what there was.
StockInv ==
    \A pr \in Products :
        /\ IsFiniteSet(HeldUnits(pr))
        /\ stock[pr] + Cardinality(HeldUnits(pr)) = InitialStock[pr]

LEMMA StockInvInit == Init => StockInv
<1> SUFFICES ASSUME Init, NEW pr \in Products
             PROVE  /\ IsFiniteSet(HeldUnits(pr))
                    /\ stock[pr] + Cardinality(HeldUnits(pr)) = InitialStock[pr]
  BY DEF StockInv
<1>1. HeldUnits(pr) = {}
  BY HeldByOrders DEF Init, HoldsStock
<1>2. stock[pr] = InitialStock[pr] /\ InitialStock[pr] \in Nat
  BY StoreAssumption DEF Init
<1> QED
  BY <1>1, <1>2, FS_EmptySet

\* A confirmation puts the order's units from the shelf to the order.
LEMMA ConfirmKeepsStock ==
    ASSUME TypeOK, StockInv, NEW w \in Workers, NEW o \in Orders, ConfirmOrder(w, o)
    PROVE  StockInv'
<1> SUFFICES ASSUME NEW pr \in Products
             PROVE  /\ IsFiniteSet(HeldUnits(pr)')
                    /\ stock'[pr] + Cardinality(HeldUnits(pr)') = InitialStock[pr]
  BY DEF StockInv
<1>1. /\ status' = [status EXCEPT ![o] = "Confirmed"] /\ Deduct(o)
      /\ status[o] \notin HoldsStock /\ "Confirmed" \in HoldsStock
  BY DEF ConfirmOrder, HoldsStock
<1>2. /\ HeldUnits(pr)' = IF pr = ProductOf[o] THEN HeldUnits(pr) \cup Units(o)
                          ELSE HeldUnits(pr)
      /\ HeldUnits(pr) \cap Units(o) = {}
  BY <1>1, HeldGrows
<1>3. /\ IsFiniteSet(HeldUnits(pr)) /\ stock[pr] \in Int /\ Quantity[o] \in Int
      /\ stock[pr] + Cardinality(HeldUnits(pr)) = InitialStock[pr]
      /\ Cardinality(HeldUnits(pr)) \in Nat
  <2>1. IsFiniteSet(HeldUnits(pr))
        /\ stock[pr] + Cardinality(HeldUnits(pr)) = InitialStock[pr]
    BY DEF StockInv
  <2>2. stock[pr] \in Int /\ Quantity[o] \in Int
    <3>1. stock \in [Products -> Nat] /\ Quantity \in [Orders -> Nat \ {0}]
      BY StoreAssumption DEF TypeOK
    <3> QED
      BY <3>1
  <2> QED
    BY <2>1, <2>2, FS_CardinalityType
<1>4. stock'[pr] = IF pr = ProductOf[o] THEN stock[pr] - Quantity[o] ELSE stock[pr]
  BY <1>1 DEF Deduct, TypeOK
<1>5. CASE pr = ProductOf[o]
  <2>1. IsFiniteSet(HeldUnits(pr)')
        /\ Cardinality(HeldUnits(pr)') = Cardinality(HeldUnits(pr)) + Quantity[o]
                                          - Cardinality({})
    BY <1>2, <1>3, <1>5, UnitsCounted, FS_Union
  <2>2. Cardinality({}) = 0
    BY FS_EmptySet
  <2> QED
    BY <1>3, <1>4, <1>5, <2>1, <2>2
<1>6. CASE pr # ProductOf[o]
  BY <1>2, <1>3, <1>4, <1>6
<1> QED
  BY <1>5, <1>6

\* The cancellation of a confirmed order puts its units back.
LEMMA RestoreKeepsStock ==
    ASSUME TypeOK, StockInv, NEW o \in Orders, status[o] \in HoldsStock,
           status' = [status EXCEPT ![o] = "Cancelled"], Restore(o)
    PROVE  StockInv'
<1> SUFFICES ASSUME NEW pr \in Products
             PROVE  /\ IsFiniteSet(HeldUnits(pr)')
                    /\ stock'[pr] + Cardinality(HeldUnits(pr)') = InitialStock[pr]
  BY DEF StockInv
<1>1. "Cancelled" \in Statuses \ HoldsStock
  BY DEF HoldsStock, Statuses
<1>2. /\ IsFiniteSet(HeldUnits(pr)) /\ stock[pr] \in Int /\ Quantity[o] \in Int
      /\ stock[pr] + Cardinality(HeldUnits(pr)) = InitialStock[pr]
      /\ Cardinality(HeldUnits(pr)) \in Nat
  <2>1. IsFiniteSet(HeldUnits(pr))
        /\ stock[pr] + Cardinality(HeldUnits(pr)) = InitialStock[pr]
    BY DEF StockInv
  <2>2. stock[pr] \in Int /\ Quantity[o] \in Int
    <3>1. stock \in [Products -> Nat] /\ Quantity \in [Orders -> Nat \ {0}]
      BY StoreAssumption DEF TypeOK
    <3> QED
      BY <3>1
  <2> QED
    BY <2>1, <2>2, FS_CardinalityType
<1>3. stock'[pr] = IF pr = ProductOf[o] THEN stock[pr] + Quantity[o] ELSE stock[pr]
  BY DEF Restore, TypeOK
<1>4. CASE pr = ProductOf[o]
  <2>1. HeldUnits(pr) = HeldUnits(pr)' \cup Units(o) /\ HeldUnits(pr)' \cap Units(o) = {}
    <3>1. IF pr = ProductOf[o]
          THEN HeldUnits(pr) = HeldUnits(pr)' \cup Units(o) /\ HeldUnits(pr)' \cap Units(o) = {}
          ELSE HeldUnits(pr)' = HeldUnits(pr)
      BY <1>1, HeldShrinks
    <3> QED
      BY <1>4, <3>1
  <2>2. IsFiniteSet(HeldUnits(pr)')
    <3>1. HeldUnits(pr)' \in SUBSET HeldUnits(pr)
      BY <2>1
    <3> QED
      BY <1>2, <3>1, FS_Subset
  <2>3. Cardinality(HeldUnits(pr)) = Cardinality(HeldUnits(pr)') + Quantity[o] - Cardinality({})
    BY <2>1, <2>2, UnitsCounted, FS_Union
  <2>4. Cardinality({}) = 0 /\ Cardinality(HeldUnits(pr)') \in Nat
    BY <2>2, FS_EmptySet, FS_CardinalityType
  <2> QED
    BY <1>2, <1>3, <1>4, <2>2, <2>3, <2>4
<1>5. CASE pr # ProductOf[o]
  <2>1. HeldUnits(pr)' = HeldUnits(pr)
    BY <1>1, <1>5, HeldShrinks
  <2> QED
    BY <1>2, <1>3, <1>5, <2>1
<1> QED
  BY <1>4, <1>5

LEMMA OtherKeepsStock ==
    ASSUME StockInv, stock' = stock,
           \A q \in Orders : status'[q] \in HoldsStock <=> status[q] \in HoldsStock
    PROVE  StockInv'
BY HeldStays DEF StockInv

LEMMA StockInvStep == TypeOK /\ StockInv /\ [PurchaseNext]_vars => StockInv'
<1> SUFFICES ASSUME TypeOK, StockInv, [PurchaseNext]_vars PROVE StockInv'
  OBVIOUS
<1>0. ASSUME UNCHANGED <<status, stock>> PROVE StockInv'
  BY <1>0, OtherKeepsStock
<1>1. ASSUME NEW o \in Orders, Cancel(o) PROVE StockInv'
  <2>1. status' = [status EXCEPT ![o] = "Cancelled"]
    BY <1>1 DEF Cancel
  <2>2. CASE status[o] = "Pending"
    <3>1. \A q \in Orders : status'[q] \in HoldsStock <=> status[q] \in HoldsStock
      BY <2>1, <2>2 DEF TypeOK, HoldsStock
    <3>2. stock' = stock
      BY <1>1, <2>2 DEF Cancel
    <3> QED
      BY <3>1, <3>2, OtherKeepsStock
  <2>3. CASE status[o] = "Confirmed"
    <3>1. status[o] \in HoldsStock /\ Restore(o)
      BY <1>1, <2>3 DEF Cancel, HoldsStock
    <3> QED
      BY <2>1, <3>1, RestoreKeepsStock
  <2> QED
    BY <1>1, <2>2, <2>3 DEF Cancel
<1>2. CASE Environment
  <2>1. ASSUME NEW p \in Payments, CustomerPays(p) \/ GatewayCloses(p) PROVE StockInv'
    BY <1>0, <2>1 DEF CustomerPays, GatewayCloses, orderVars
  <2> QED
    BY <1>1, <1>2, <2>1 DEF Environment
<1>3. ASSUME NEW w \in Workers, Begin(w) \/ Fault(w) PROVE StockInv'
  BY <1>0, <1>3
  DEF Begin, CheckoutRead, ConfirmRoute, CallbackRead, Fault, Abandon, ConfirmFails, orderVars
<1>4. ASSUME NEW w \in Workers, Continue(w) PROVE StockInv'
  <2>1. ASSUME NEW o \in Orders, ConfirmOutOfStock(w, o) PROVE StockInv'
    <3>1. \A q \in Orders : status'[q] \in HoldsStock <=> status[q] \in HoldsStock
      BY <2>1 DEF TypeOK, HoldsStock, ConfirmOutOfStock
    <3>2. stock' = stock
      BY <2>1 DEF ConfirmOutOfStock
    <3> QED
      BY <3>1, <3>2, OtherKeepsStock
  <2>2. CASE \/ ReuseIntent(w) \/ CheckStatus(w) \/ Publish(w)
             \/ ConfirmRead(w) \/ ConfirmDone(w)
             \/ \E p \in Payments : InsertIntent(w, p)
             \/ \E o \in Orders : ConfirmSkip(w, o)
    <3>1. UNCHANGED <<status, stock>>
      BY <2>2
      DEF ReuseIntent, CheckStatus, Publish, ConfirmRead, ConfirmDone, InsertIntent,
          ConfirmSkip, orderVars
    <3> QED
      BY <1>0, <3>1
  <2> QED
    BY <1>4, <2>1, <2>2, ConfirmKeepsStock DEF Continue, Confirm
<1>5. CASE UNCHANGED vars
  BY <1>0, <1>5 DEF vars
<1> QED
  BY <1>2, <1>3, <1>4, <1>5 DEF PurchaseNext

\* No unit is lost and none is sold twice, whichever callbacks, confirm routes
\* and cancellations race (confirmOrderCore, cancelOrderCore, adjustStock).
THEOREM PurchaseStockAccounted == PurchaseSpec => []StockAccounted
<1>1. PurchaseSpec => []StockInv
  BY StockInvInit, StockInvStep, PurchaseTypeOK, PTL DEF PurchaseSpec
<1>2. StockInv => StockAccounted
  BY DEF StockInv, StockAccounted
<1> QED
  BY <1>1, <1>2, PTL

-----------------------------------------------------------------------------
(* What the liveness of a server without faults rests on *)

\* A confirmation under way is to handle the order; a callback under way is to
\* publish the payment.
ToConfirm(o) == \E w \in Workers : jobs[w].pc = "loop" /\ o \in jobs[w].todo
CallsBack(job) == job.pc = "check" \/ Publishing(job)
Calling(p) == \E w \in Workers : jobs[w].p = p /\ CallsBack(jobs[w])

\* How many steps of its own a request has at most before it answers.
StepsLeft(job) ==
    CASE job.pc = "check" -> Cardinality(Orders) + 4
      [] job.pc = "confirm" -> Cardinality(Orders) + 3
      [] job.pc = "loop" -> Cardinality(job.todo) + (IF job.cont = "publish" THEN 2 ELSE 1)
      [] job.pc \in {"checkout", "publish"} -> 1
      [] OTHER -> 0

\* No order becomes Pending again, and one that a confirmation is to handle stays
\* so until it is not; a callback stays under way until its payment is published;
\* and each step of a request leaves it fewer.
NothingGivenUp ==
    /\ \A o \in Orders : /\ status'[o] = "Pending" => status[o] = "Pending"
                         /\ ToConfirm(o) => ToConfirm(o)' \/ status'[o] # "Pending"
    /\ \A p \in Payments : Calling(p) => Calling(p)' \/ payStatus'[p] \in {"Succeeded", "Failed"}
    /\ \A w \in Workers : \/ jobs'[w] = jobs[w] \/ Idle(w)
                          \/ StepsLeft(jobs'[w]) < StepsLeft(jobs[w])

\* A purchase deletes no order.
NoneDeleted == \A o \in Orders : status[o] # "Deleted"

HealthyInv == PaidInv /\ LedgerAgrees /\ NoneDeleted

\* One request moves.
LEMMA RequestMoves ==
    ASSUME TypeOK, NEW w \in Workers, NEW job, SetJob(w, job),
           CallsBack(jobs[w]) =>
              \/ job.p = jobs[w].p /\ CallsBack(job)
              \/ jobs[w].p \in Payments => payStatus'[jobs[w].p] \in {"Succeeded", "Failed"},
           jobs[w].pc = "loop" =>
              \A o \in jobs[w].todo : \/ job.pc = "loop" /\ o \in job.todo
                                      \/ status'[o] # "Pending",
           \A o \in Orders : status'[o] = "Pending" => status[o] = "Pending",
           Idle(w) \/ StepsLeft(job) < StepsLeft(jobs[w])
    PROVE  NothingGivenUp
<1>1. \A v \in Workers : jobs'[v] = IF v = w THEN job ELSE jobs[v]
  BY DEF SetJob, TypeOK
<1>2. ASSUME NEW o \in Orders, ToConfirm(o) PROVE ToConfirm(o)' \/ status'[o] # "Pending"
  <2>1. PICK v \in Workers : jobs[v].pc = "loop" /\ o \in jobs[v].todo
    BY <1>2 DEF ToConfirm
  <2>2. CASE v = w
    BY <1>1, <2>1, <2>2 DEF ToConfirm
  <2>3. CASE v # w
    BY <1>1, <2>1, <2>3 DEF ToConfirm
  <2> QED
    BY <2>2, <2>3
<1>3. ASSUME NEW p \in Payments, Calling(p)
      PROVE  Calling(p)' \/ payStatus'[p] \in {"Succeeded", "Failed"}
  <2>1. PICK v \in Workers : jobs[v].p = p /\ CallsBack(jobs[v])
    BY <1>3 DEF Calling
  <2>2. CASE v = w
    <3>1. CASE job.p = p /\ CallsBack(job)
      <4>1. jobs'[w].p = p /\ CallsBack(jobs[w])'
        BY <1>1, <3>1 DEF CallsBack, Publishing, Confirming
      <4> QED
        BY <4>1 DEF Calling
    <3> QED
      BY <2>1, <2>2, <3>1
  <2>3. CASE v # w
    <3>1. jobs'[v].p = p /\ CallsBack(jobs[v])'
      BY <1>1, <2>1, <2>3 DEF CallsBack, Publishing, Confirming
    <3> QED
      BY <3>1 DEF Calling
  <2> QED
    BY <2>2, <2>3
<1> QED
  BY <1>1, <1>2, <1>3 DEF NothingGivenUp, Idle

\* A request begins.
LEMMA BeginGivesNothingUp ==
    ASSUME TypeOK, NEW w \in Workers, Begin(w)
    PROVE  NothingGivenUp
<1>1. ASSUME NEW job, Idle(w), SetJob(w, job), UNCHANGED status
      PROVE  NothingGivenUp
  <2>1. ~CallsBack(jobs[w]) /\ jobs[w].pc # "loop"
    BY <1>1 DEF Idle, CallsBack, Publishing, Confirming
  <2> QED
    BY <1>1, <2>1, RequestMoves
<1>2. ASSUME NEW o \in Orders, CheckoutRead(w, o)
      PROVE  NothingGivenUp
  BY <1>1, <1>2 DEF CheckoutRead, orderVars
<1>3. ASSUME NEW o \in Orders, ConfirmRoute(w, o)
      PROVE  NothingGivenUp
  BY <1>1, <1>3 DEF ConfirmRoute, orderVars
<1>4. ASSUME NEW p \in Payments, CallbackRead(w, p)
      PROVE  NothingGivenUp
  BY <1>1, <1>4 DEF CallbackRead, orderVars
<1> QED
  BY <1>2, <1>3, <1>4 DEF Begin

\* The numbers that the steps are counted with.
LEMMA TodoCounted ==
    ASSUME TypeOK, NEW w \in Workers
    PROVE  /\ Cardinality(Orders) \in Nat
           /\ IsFiniteSet(jobs[w].todo) /\ Cardinality(jobs[w].todo) \in Nat
           /\ jobs[w].o \in Orders => Cardinality(GroupOf[jobs[w].o]) <= Cardinality(Orders)
                                      /\ Cardinality(GroupOf[jobs[w].o]) \in Nat
<1>1. jobs[w].todo \in SUBSET Orders /\ IsFiniteSet(Orders)
      /\ (jobs[w].o \in Orders => GroupOf[jobs[w].o] \in SUBSET Orders)
  BY StoreAssumption DEF TypeOK, Job
<1> QED
  BY <1>1, FS_Subset, FS_CardinalityType

\* The checkout ends, and the callback asks, publishes and ends.
LEMMA PaymentGivesNothingUp ==
    ASSUME HealthyInv, NEW w \in Workers,
           \/ ReuseIntent(w) \/ (\E p \in Payments : InsertIntent(w, p))
           \/ CheckStatus(w) \/ Publish(w)
    PROVE  NothingGivenUp
<1>0. /\ TypeOK /\ JobOK(jobs[w]) /\ LedgerAgrees /\ Cardinality(Orders) \in Nat
      /\ jobs[w] \in Job
  BY TodoCounted DEF HealthyInv, PaidInv, TypeOK
<1>1. UNCHANGED status
  BY DEF ReuseIntent, InsertIntent, CheckStatus, Publish, orderVars
<1>2. StepsLeft(NoJob) = 0
  BY DEF StepsLeft, NoJob
<1>3. CASE ReuseIntent(w) \/ \E p \in Payments : InsertIntent(w, p)
  <2>1. SetJob(w, NoJob) /\ jobs[w].pc = "checkout"
    BY <1>3 DEF ReuseIntent, InsertIntent
  <2>2. ~CallsBack(jobs[w]) /\ StepsLeft(jobs[w]) = 1
    BY <2>1 DEF CallsBack, Publishing, Confirming, StepsLeft
  <2> QED
    BY <1>0, <1>1, <1>2, <2>1, <2>2, RequestMoves
<1>4. CASE CheckStatus(w)
  <2>1. PICK job : job = [jobs[w] EXCEPT
                            !.pc = IF gateway[jobs[w].p] = "COMPLETE" THEN "confirm" ELSE "publish",
                            !.gw = gateway[jobs[w].p], !.cont = "publish"]
    OBVIOUS
  <2>2. jobs[w].pc = "check" /\ SetJob(w, job)
    BY <1>4, <2>1 DEF CheckStatus
  <2>3. job.p = jobs[w].p /\ job.pc \in {"confirm", "publish"} /\ job.cont = "publish"
    BY <1>0, <2>1 DEF Job
  <2>4. CallsBack(job)
    BY <2>3 DEF CallsBack, Publishing, Confirming
  <2>5. StepsLeft(job) < StepsLeft(jobs[w])
    BY <1>0, <2>2, <2>3 DEF StepsLeft
  <2> QED
    BY <1>0, <1>1, <2>2, <2>3, <2>4, <2>5, RequestMoves
<1>5. CASE Publish(w)
  <2>1. SetJob(w, NoJob) /\ jobs[w].pc = "publish"
    BY <1>5 DEF Publish
  <2>2. StepsLeft(jobs[w]) = 1
    BY <2>1 DEF StepsLeft
  <2>3. /\ jobs[w].p \in Payments /\ jobs[w].gw \in GatewayStatuses
        /\ payStatus \in [Payments -> PaymentStatuses]
    BY <1>0, <2>1 DEF JobOK, Publishing, TypeOK
  <2>4. payStatus'[jobs[w].p] \in {"Succeeded", "Failed"}
    <3>1. CASE <<jobs[w].p, jobs[w].gw>> \in events
      <4>1. payStatus[jobs[w].p] \notin {"absent", "Initiated"}
        BY <1>0, <2>3, <3>1 DEF LedgerAgrees
      <4> QED
        BY <1>5, <2>3, <3>1, <4>1 DEF Publish, PaymentStatuses
    <3>2. CASE <<jobs[w].p, jobs[w].gw>> \notin events
      BY <1>5, <2>3, <3>2 DEF Publish
    <3> QED
      BY <3>1, <3>2
  <2> QED
    BY <1>0, <1>1, <1>2, <2>1, <2>2, <2>4, RequestMoves
<1> QED
  BY <1>3, <1>4, <1>5

\* confirmOrderCore reads, handles an order after the other and returns.
LEMMA ConfirmGivesNothingUp ==
    ASSUME HealthyInv, NEW w \in Workers, Confirm(w)
    PROVE  NothingGivenUp
<1>0. /\ TypeOK /\ JobOK(jobs[w]) /\ jobs[w] \in Job /\ status \in [Orders -> Statuses]
      /\ NoneDeleted
  BY DEF HealthyInv, PaidInv, TypeOK
<1>1. PICK n \in Nat, k \in Nat :
         n = Cardinality(Orders) /\ k = Cardinality(jobs[w].todo) /\ IsFiniteSet(jobs[w].todo)
  BY <1>0, TodoCounted
<1>2. CASE ConfirmRead(w) /\ status[jobs[w].o] = "Pending"
  <2>1. PICK job : job = [jobs[w] EXCEPT !.pc = "loop", !.todo = GroupOf[jobs[w].o]]
    OBVIOUS
  <2>2. jobs[w].pc = "confirm" /\ SetJob(w, job) /\ UNCHANGED status
    BY <1>2, <2>1 DEF ConfirmRead, orderVars
  <2>3. /\ job.pc = "loop" /\ job.p = jobs[w].p /\ job.cont = jobs[w].cont
        /\ job.todo = GroupOf[jobs[w].o] /\ jobs[w].o \in Orders
    BY <1>0, <2>1, <2>2 DEF Job, JobOK
  <2>4. CallsBack(jobs[w]) => CallsBack(job)
    BY <2>2, <2>3 DEF CallsBack, Publishing, Confirming
  <2>5. StepsLeft(job) < StepsLeft(jobs[w])
    <3>1. Cardinality(job.todo) \in Nat /\ Cardinality(job.todo) <= n
      BY <1>0, <1>1, <2>3, TodoCounted
    <3>2. StepsLeft(jobs[w]) = n + 3
      BY <1>1, <2>2 DEF StepsLeft
    <3>3. StepsLeft(job) = Cardinality(job.todo) + (IF job.cont = "publish" THEN 2 ELSE 1)
      BY <2>3 DEF StepsLeft
    <3> QED
      BY <1>1, <3>1, <3>2, <3>3
  <2> QED
    BY <1>0, <2>2, <2>3, <2>4, <2>5, RequestMoves
<1>3. CASE \/ ConfirmRead(w) /\ status[jobs[w].o] # "Pending"
           \/ ConfirmDone(w)
  <2>1. /\ SetJob(w, Return(jobs[w])) /\ UNCHANGED status
        /\ jobs[w].pc = "confirm" \/ (jobs[w].pc = "loop" /\ jobs[w].todo = {})
    <3>1. CASE ConfirmDone(w)
      BY <3>1 DEF ConfirmDone, orderVars
    <3>2. CASE ConfirmRead(w) /\ status[jobs[w].o] # "Pending"
      <4>1. jobs[w].pc = "confirm"
        BY <3>2 DEF ConfirmRead
      <4>2. status[jobs[w].o] # "Deleted"
        BY <1>0, <4>1 DEF NoneDeleted, JobOK
      <4> QED
        BY <3>2, <4>1, <4>2 DEF ConfirmRead, orderVars
    <3> QED
      BY <1>3, <3>1, <3>2
  <2>2. PICK job : job = Return(jobs[w])
    OBVIOUS
  <2>3. CASE jobs[w].cont = "idle"
    <3>1. job = NoJob /\ ~CallsBack(jobs[w])
      BY <2>1, <2>2, <2>3 DEF Return, CallsBack, Publishing, Confirming
    <3>2. StepsLeft(job) = 0 /\ StepsLeft(jobs[w]) \in Nat \ {0}
      BY <1>1, <2>1, <2>3, <3>1 DEF StepsLeft, NoJob
    <3>3. SetJob(w, job) /\ StepsLeft(job) < StepsLeft(jobs[w])
      BY <2>1, <2>2, <3>2
    <3> QED
      BY <1>0, <2>1, <3>1, <3>3, RequestMoves
  <2>4. CASE jobs[w].cont # "idle"
    <3>1. job = [jobs[w] EXCEPT !.pc = jobs[w].cont, !.todo = {}]
      BY <2>2, <2>4 DEF Return
    <3>2. job.pc = jobs[w].cont /\ job.p = jobs[w].p /\ job.cont = jobs[w].cont
          /\ jobs[w].cont \in {"publish", "reread"}
      BY <1>0, <2>4, <3>1 DEF Job
    <3>3. CallsBack(jobs[w]) => CallsBack(job)
      BY <2>1, <3>2 DEF CallsBack, Publishing, Confirming
    <3>4. StepsLeft(job) < StepsLeft(jobs[w])
      <4>1. StepsLeft(job) = IF jobs[w].cont = "publish" THEN 1 ELSE 0
        BY <3>2 DEF StepsLeft
      <4>2. StepsLeft(jobs[w]) >= IF jobs[w].cont = "publish" THEN 2 ELSE 1
        BY <1>1, <2>1 DEF StepsLeft
      <4>3. StepsLeft(jobs[w]) \in Nat
        BY <1>1, <2>1 DEF StepsLeft
      <4> QED
        BY <4>1, <4>2, <4>3
    <3> QED
      BY <1>0, <2>1, <2>2, <3>2, <3>3, <3>4, RequestMoves
  <2> QED
    BY <2>3, <2>4
<1>4. ASSUME NEW o \in Orders, ConfirmOrder(w, o) \/ ConfirmOutOfStock(w, o) \/ ConfirmSkip(w, o)
      PROVE  NothingGivenUp
  <2>1. PICK confirmed \in BOOLEAN : Handled(w, o, confirmed)
    BY <1>4 DEF ConfirmOrder, ConfirmOutOfStock, ConfirmSkip
  <2>2. /\ jobs[w].pc = "loop" /\ o \in jobs[w].todo /\ status'[o] # "Pending"
        /\ \A q \in Orders : status'[q] = "Pending" => status[q] = "Pending"
    BY <1>0, <1>4 DEF ConfirmOrder, ConfirmOutOfStock, ConfirmSkip, orderVars
  <2>3. PICK job : job = [jobs[w] EXCEPT !.todo = @ \ {o}, !.any = @ \/ confirmed]
    OBVIOUS
  <2>4. /\ SetJob(w, job) /\ job.pc = "loop" /\ job.p = jobs[w].p /\ job.cont = jobs[w].cont
        /\ job.todo = jobs[w].todo \ {o}
    BY <1>0, <2>1, <2>2, <2>3 DEF Handled, Job
  <2>5. Cardinality(job.todo) = k - 1
    BY <1>1, <2>2, <2>4, FS_RemoveElement
  <2>6. StepsLeft(job) < StepsLeft(jobs[w])
    BY <1>1, <2>2, <2>4, <2>5 DEF StepsLeft
  <2>7. CallsBack(jobs[w]) => CallsBack(job)
    BY <2>2, <2>4 DEF CallsBack, Publishing, Confirming
  <2> QED
    BY <1>0, <2>2, <2>4, <2>6, <2>7, RequestMoves
<1> QED
  BY <1>2, <1>3, <1>4 DEF Confirm

\* The customer and eSewa.
LEMMA OthersGiveNothingUp ==
    ASSUME TypeOK, Environment \/ UNCHANGED vars
    PROVE  NothingGivenUp
<1>1. /\ UNCHANGED jobs
      /\ \A o \in Orders : status'[o] = "Pending" => status[o] = "Pending"
  BY DEF Environment, CustomerPays, GatewayCloses, Cancel, TypeOK, orderVars, vars
<1> QED
  BY <1>1 DEF NothingGivenUp, ToConfirm, Calling, CallsBack, Publishing, Confirming

LEMMA NoneIsDeleted == TypeOK /\ NoneDeleted /\ [PurchaseNext]_vars => NoneDeleted'
<1> SUFFICES ASSUME TypeOK, NoneDeleted, [PurchaseNext]_vars PROVE NoneDeleted'
  OBVIOUS
<1>1. CASE UNCHANGED status
  BY <1>1 DEF NoneDeleted
<1>2. CASE Environment
  <2>1. CASE \E o \in Orders : Cancel(o)
    BY <2>1 DEF Cancel, NoneDeleted, TypeOK
  <2>2. CASE \E p \in Payments : CustomerPays(p) \/ GatewayCloses(p)
    BY <1>1, <2>2 DEF CustomerPays, GatewayCloses, orderVars
  <2> QED
    BY <1>2, <2>1, <2>2 DEF Environment
<1>3. ASSUME NEW w \in Workers, Begin(w) \/ Fault(w) PROVE NoneDeleted'
  <2>1. CASE Begin(w)
    <3>1. ASSUME NEW o \in Orders, CheckoutRead(w, o) PROVE UNCHANGED status
      BY <3>1 DEF CheckoutRead, orderVars
    <3>2. ASSUME NEW o \in Orders, ConfirmRoute(w, o) PROVE UNCHANGED status
      BY <3>2 DEF ConfirmRoute, orderVars
    <3>3. ASSUME NEW p \in Payments, CallbackRead(w, p) PROVE UNCHANGED status
      BY <3>3 DEF CallbackRead, orderVars
    <3> QED
      BY <1>1, <2>1, <3>1, <3>2, <3>3 DEF Begin
  <2>2. CASE Fault(w)
    <3>1. UNCHANGED <<status, stock>>
      BY <2>2 DEF Fault, Abandon, ConfirmFails, orderVars
    <3> QED
      BY <1>1, <3>1
  <2> QED
    BY <1>3, <2>1, <2>2
<1>4. ASSUME NEW w \in Workers, Continue(w) PROVE NoneDeleted'
  <2>1. CASE \E o \in Orders : ConfirmOrder(w, o) \/ ConfirmOutOfStock(w, o)
    BY <2>1 DEF ConfirmOrder, ConfirmOutOfStock, NoneDeleted, TypeOK
  <2> QED
    BY <1>1, <1>4, <2>1
    DEF Continue, Confirm, ReuseIntent, CheckStatus, Publish, ConfirmRead, ConfirmDone,
        InsertIntent, ConfirmSkip, orderVars
<1> QED
  BY <1>1, <1>2, <1>3, <1>4 DEF PurchaseNext, vars

\* What GroupSettles and CallbackSettles rest on, for any number of orders,
\* payments and requests: on a server without faults no confirmation or callback
\* is given up before its order has left Pending or its payment is published,
\* whatever cancels, confirms or calls back concurrently, and a request that has
\* begun answers after at most four statements and one for each order
\* (processEsewaEvent, confirmOrderCore).
THEOREM HealthyGivesNothingUp == HealthySpec => [][NothingGivenUp]_vars
<1>1. Init => HealthyInv
  <2>1. Init => LedgerAgrees /\ NoneDeleted
    BY DEF Init, LedgerAgrees, NoneDeleted
  <2> QED
    BY <2>1, PaidInvInit DEF HealthyInv
<1>2. HealthyInv /\ [HealthyNext]_vars => HealthyInv'
  <2>1. [HealthyNext]_vars => [PurchaseNext]_vars
    BY DEF HealthyNext, PurchaseNext
  <2>2. HealthyInv => TypeOK
    BY DEF HealthyInv, PaidInv
  <2> QED
    BY <2>1, <2>2, PaidInvStep, LedgerStep, NoneIsDeleted DEF HealthyInv
<1>3. HealthyInv /\ [HealthyNext]_vars => [NothingGivenUp]_vars
  <2> SUFFICES ASSUME HealthyInv, HealthyNext PROVE NothingGivenUp
    OBVIOUS
  <2>1. TypeOK
    BY DEF HealthyInv, PaidInv
  <2> QED
    BY <2>1, BeginGivesNothingUp, PaymentGivesNothingUp, ConfirmGivesNothingUp,
       OthersGiveNothingUp DEF HealthyNext, Continue
<1> QED
  BY <1>1, <1>2, <1>3, PTL DEF HealthySpec

-----------------------------------------------------------------------------
(* The keys *)

LEMMA KeysInitially == KeysInit => KeysInv
BY IdempotencyAssumption
   DEF KeysInit, KeysInv, KeysTypeOK, KeyRowOK, PostOK, AnswersOfThePast, KeyRunsOnce,
       KeyRow, NoKeyRow, Post, NoPost, Form, FormIds

\* A row that does not move stays one of its request if that does not move either.
LEMMA RowKept ==
    ASSUME NEW j \in Keys, KeyRowOK(j), keyRows'[j] = keyRows[j], life'[j] = life[j],
           keyRows[j].status = "processing" =>
               posts'[keyRows[j].by] = posts[keyRows[j].by]
    PROVE  KeyRowOK(j)'
<1>1. CASE keyRows[j].status = "processing"
  BY <1>1 DEF KeyRowOK
<1>2. CASE keyRows[j].status # "processing"
  BY <1>2 DEF KeyRowOK
<1> QED
  BY <1>1, <1>2

\* A commit: the request owns the row of its key, so nobody was told anything in
\* this life of the key, and what is stored is what is told.
LEMMA CommitKeeps ==
    ASSUME KeysInv, NEW r \in Posts, NEW f \in FormIds,
           posts[r].step \in {"read", "create"}, CommitAnswer(r, f),
           forms' \in [FormIds -> Form]
    PROVE  KeysInv'
<1> DEFINE k == posts[r].key
<1>1. /\ k \in Keys /\ posts[r].order \in Purchases /\ k # Absent
      /\ keyRows[k].status = "processing" /\ keyRows[k].by = r
      /\ keyRows[k].order = posts[r].order /\ ~keyRows[k].old
  BY IdempotencyAssumption DEF KeysInv, PostOK, KeyRowOK
<1>2. /\ keyRows' = [keyRows EXCEPT ![k].status = "completed", ![k].by = Absent, ![k].form = f]
      /\ runs' = [runs EXCEPT ![k] = @ + 1]
      /\ answers' = answers \cup {[key |-> k, life |-> life[k],
                                   order |-> posts[r].order, form |-> f]}
      /\ posts' = [posts EXCEPT ![r] = NoPost]
      /\ payable' = payable /\ life' = life
  BY DEF CommitAnswer, Tell, Ends
<1> HIDE DEF k
<1>3. KeysTypeOK
  BY DEF KeysInv
<1>4. /\ keyRows'[k] = [keyRows[k] EXCEPT !.status = "completed", !.by = Absent, !.form = f]
      /\ \A j \in Keys \ {k} : keyRows'[j] = keyRows[j]
  BY <1>1, <1>2, <1>3 DEF KeysTypeOK
<1>5. /\ posts'[r] = NoPost /\ \A q \in Posts \ {r} : posts'[q] = posts[q]
  BY <1>2, <1>3 DEF KeysTypeOK
<1>6. /\ runs[k] = 0 /\ runs'[k] = 1 /\ \A j \in Keys \ {k} : runs'[j] = runs[j]
  BY <1>1, <1>2, <1>3 DEF KeysTypeOK, KeysInv, KeyRunsOnce
<1>7. \A t \in answers : t.key = k => t.life < life[k]
  BY <1>1, <1>3 DEF KeysTypeOK, KeysInv, KeyRunsOnce, AnswersOfThePast, Told
<1>8. KeysTypeOK'
  <2>1. keyRows[k] \in KeyRow
    BY <1>1, <1>3 DEF KeysTypeOK
  <2>2. keyRows' \in [Keys -> KeyRow]
    BY <1>1, <1>2, <1>3, <2>1 DEF KeysTypeOK, KeyRow
  <2>3. posts' \in [Posts -> Post]
    BY <1>2, <1>3 DEF KeysTypeOK, Post, NoPost
  <2>4. runs' \in [Keys -> Nat]
    BY <1>1, <1>2, <1>3 DEF KeysTypeOK
  <2>5. [key |-> k, life |-> life[k], order |-> posts[r].order, form |-> f] \in Told
    BY <1>1, <1>3 DEF KeysTypeOK, Told
  <2> QED
    BY <1>2, <1>3, <2>2, <2>3, <2>4, <2>5 DEF KeysTypeOK
<1>9. \A j \in Keys : KeyRowOK(j)'
  <2> SUFFICES ASSUME NEW j \in Keys PROVE KeyRowOK(j)'
    OBVIOUS
  <2>1. CASE j = k
    <3>1. keyRows[k] \in KeyRow
      BY <1>1, <1>3 DEF KeysTypeOK
    <3>2. keyRows'[k].order \in Purchases /\ keyRows'[k].form \in FormIds
          /\ keyRows'[k].status = "completed" /\ keyRows'[k].by = Absent /\ ~keyRows'[k].old
      BY <1>1, <1>4, <3>1 DEF KeyRow
    <3> QED
      BY <2>1, <3>2 DEF KeyRowOK
  <2>2. CASE j # k
    <3>1. keyRows'[j] = keyRows[j] /\ KeyRowOK(j) /\ life'[j] = life[j]
      BY <1>2, <1>4, <2>2 DEF KeysInv
    <3>2. keyRows[j].status = "processing" => keyRows[j].by \in Posts \ {r}
      BY <2>2, <3>1 DEF KeyRowOK, k
    <3> QED
      BY <1>5, <3>1, <3>2, RowKept
  <2> QED
    BY <2>1, <2>2
<1>10. \A q \in Posts : PostOK(q)'
  <2> SUFFICES ASSUME NEW q \in Posts PROVE PostOK(q)'
    OBVIOUS
  <2>1. CASE q = r
    BY <1>5, <2>1 DEF PostOK, NoPost
  <2>2. CASE q # r
    <3>1. posts'[q] = posts[q] /\ PostOK(q)
      BY <1>5, <2>2 DEF KeysInv
    <3>2. posts[q].step \in {"read", "create"} => posts[q].key \in Keys \ {k}
      BY <1>1, <2>2, <3>1 DEF PostOK
    <3> QED
      BY <1>4, <3>1, <3>2 DEF PostOK
  <2> QED
    BY <2>1, <2>2
<1>11. AnswersOfThePast'
  BY <1>1, <1>2, <1>3 DEF KeysInv, AnswersOfThePast, KeysTypeOK
<1>12. KeyRunsOnce'
  <2>0. keyRows'[k].status = "completed" /\ keyRows'[k].order = posts[r].order
        /\ keyRows'[k].form = f
    <3>1. keyRows[k] \in KeyRow
      BY <1>1, <1>3 DEF KeysTypeOK
    <3> QED
      BY <1>1, <1>4, <3>1 DEF KeyRow
  <2>1. \A j \in Keys : runs'[j] = IF keyRows'[j].status = "completed" THEN 1 ELSE 0
    <3> SUFFICES ASSUME NEW j \in Keys
                 PROVE  runs'[j] = IF keyRows'[j].status = "completed" THEN 1 ELSE 0
      OBVIOUS
    <3>1. CASE j = k
      BY <1>6, <2>0, <3>1
    <3>2. CASE j # k
      <4>1. runs[j] = IF keyRows[j].status = "completed" THEN 1 ELSE 0
        BY DEF KeysInv, KeyRunsOnce
      <4>2. runs'[j] = runs[j] /\ keyRows'[j] = keyRows[j]
        BY <1>4, <1>6, <3>2
      <4> QED
        BY <4>1, <4>2
    <3> QED
      BY <3>1, <3>2
  <2>2. \A t \in answers' : t \in answers \/ t = [key |-> k, life |-> life[k],
                                   order |-> posts[r].order, form |-> f]
    BY <1>2
  <2>3. \A t \in answers : t.key \in Keys
    BY <1>3 DEF KeysTypeOK, Told
  <2> DEFINE new == [key |-> k, life |-> life[k], order |-> posts[r].order, form |-> f]
  <2>6. new.key = k /\ new.life = life[k] /\ new.order = posts[r].order /\ new.form = f
    OBVIOUS
  <2>7. \A t \in answers : t.key = k => t.life # new.life
    BY <1>1, <1>3, <1>7, <2>6 DEF KeysTypeOK, Told
  <2> HIDE DEF new
  <2>4. \A t \in answers' : t.life = life'[t.key] =>
         /\ keyRows'[t.key].status = "completed"
         /\ keyRows'[t.key].order = t.order /\ keyRows'[t.key].form = t.form
    <3> SUFFICES ASSUME NEW t \in answers', t.life = life'[t.key]
                 PROVE  /\ keyRows'[t.key].status = "completed"
                        /\ keyRows'[t.key].order = t.order /\ keyRows'[t.key].form = t.form
      OBVIOUS
    <3>1. CASE t = new
      BY <2>0, <2>6, <3>1
    <3>2. CASE t \in answers
      <4>1. t.key # k
        BY <1>2, <2>6, <2>7, <3>2
      <4>2. t.key \in Keys /\ keyRows'[t.key] = keyRows[t.key] /\ t.life = life[t.key]
        BY <1>2, <1>4, <2>3, <3>2, <4>1
      <4> QED
        BY <3>2, <4>2 DEF KeysInv, KeyRunsOnce
    <3> QED
      BY <2>2, <3>1, <3>2 DEF new
  <2>5. \A t, u \in answers' : t.key = u.key /\ t.life = u.life =>
         t.order = u.order /\ t.form = u.form
    <3> SUFFICES ASSUME NEW t \in answers', NEW u \in answers',
                        t.key = u.key, t.life = u.life
                 PROVE  t.order = u.order /\ t.form = u.form
      OBVIOUS
    <3>1. CASE t \in answers /\ u \in answers
      BY <3>1 DEF KeysInv, KeyRunsOnce
    <3>2. CASE t = new \/ u = new
      <4>1. t = new /\ u = new
        BY <2>2, <2>6, <2>7, <3>2 DEF new
      <4> QED
        BY <4>1
    <3> QED
      BY <2>2, <3>1, <3>2 DEF new
  <2> QED
    BY <2>1, <2>4, <2>5 DEF KeyRunsOnce
<1> QED
  BY <1>8, <1>9, <1>10, <1>11, <1>12 DEF KeysInv

\* A request that ends, and whose row, if it has one, is undone.  No committed
\* row moves, so the answers given stay what is stored.
LEMMA UndoKeeps ==
    ASSUME KeysInv, NEW r \in Posts, RollsBack(r), NEW step \in {"free", "lookup"},
           posts' = [posts EXCEPT ![r] = IF step = "free" THEN NoPost
                                         ELSE [posts[r] EXCEPT !.step = "lookup"]],
           step = "lookup" => posts[r].step # "free",
           UNCHANGED <<forms, payable, life, runs, answers>>
    PROVE  KeysInv'
<1>1. KeysTypeOK /\ r # Absent
  BY IdempotencyAssumption DEF KeysInv
<1>2. \A k \in Keys : keyRows'[k] = IF keyRows[k].by = r THEN NoKeyRow ELSE keyRows[k]
  BY DEF RollsBack
<1>3. /\ posts'[r].step \in {"free", "lookup"}
      /\ posts'[r].step # "free" => posts'[r].key \in Keys /\ posts'[r].order \in Purchases
      /\ \A q \in Posts \ {r} : posts'[q] = posts[q]
  <2>1. posts[r] \in Post
    BY <1>1 DEF KeysTypeOK
  <2>2. PostOK(r)
    BY DEF KeysInv
  <2> QED
    BY <1>1, <2>1, <2>2 DEF KeysTypeOK, NoPost, Post, PostOK
<1>4. KeysTypeOK'
  <2>1. keyRows' \in [Keys -> KeyRow]
    <3>1. NoKeyRow \in KeyRow
      BY DEF NoKeyRow, KeyRow
    <3>2. keyRows \in [Keys -> KeyRow]
      BY <1>1 DEF KeysTypeOK
    <3> QED
      BY <3>1, <3>2 DEF RollsBack
  <2>2. posts' \in [Posts -> Post]
    BY <1>1 DEF KeysTypeOK, Post, NoPost
  <2> QED
    BY <1>1, <2>1, <2>2 DEF KeysTypeOK
<1>5. \A k \in Keys : KeyRowOK(k)'
  <2> SUFFICES ASSUME NEW k \in Keys PROVE KeyRowOK(k)'
    OBVIOUS
  <2>1. KeyRowOK(k) /\ life'[k] = life[k]
    BY DEF KeysInv
  <2>2. CASE keyRows[k].by = r
    <3>1. keyRows'[k] = NoKeyRow
      BY <1>2, <2>2
    <3>2. NoKeyRow.status = "absent" /\ ~NoKeyRow.old
      BY DEF NoKeyRow
    <3> QED
      BY <3>1, <3>2 DEF KeyRowOK
  <2>3. CASE keyRows[k].by # r
    <3>1. keyRows'[k] = keyRows[k]
      BY <1>2, <2>3
    <3>2. keyRows[k].status = "processing" => posts'[keyRows[k].by] = posts[keyRows[k].by]
      BY <1>3, <2>1, <2>3 DEF KeyRowOK
    <3> QED
      BY <2>1, <3>1, <3>2, RowKept
  <2> QED
    BY <2>2, <2>3
<1>6. \A q \in Posts : PostOK(q)'
  <2> SUFFICES ASSUME NEW q \in Posts PROVE PostOK(q)'
    OBVIOUS
  <2>1. CASE q = r
    BY <1>3, <2>1 DEF PostOK
  <2>2. CASE q # r
    <3>1. posts'[q] = posts[q] /\ PostOK(q)
      BY <1>3, <2>2 DEF KeysInv
    <3> QED
      BY <1>2, <2>2, <3>1 DEF PostOK
  <2> QED
    BY <2>1, <2>2
<1>7. \A k \in Keys :
         /\ keyRows'[k].status = "completed" <=> keyRows[k].status = "completed"
         /\ keyRows[k].status = "completed" => keyRows'[k] = keyRows[k]
  <2> SUFFICES ASSUME NEW k \in Keys
               PROVE  /\ keyRows'[k].status = "completed" <=> keyRows[k].status = "completed"
                      /\ keyRows[k].status = "completed" => keyRows'[k] = keyRows[k]
    OBVIOUS
  <2>1. KeyRowOK(k)
    BY DEF KeysInv
  <2> QED
    BY <1>1, <1>2, <2>1 DEF KeyRowOK, NoKeyRow
<1>8. AnswersOfThePast' /\ KeyRunsOnce'
  <2>1. \A t \in answers : t.key \in Keys
    BY <1>1 DEF KeysTypeOK, Told
  <2> QED
    BY <1>7, <2>1 DEF KeysInv, AnswersOfThePast, KeyRunsOnce
<1> QED
  BY <1>4, <1>5, <1>6, <1>8 DEF KeysInv

\* A request begins: the rows that may go are all committed, so no request runs
\* under them, and their keys begin a life in which nobody was told anything.
LEMMA BeginKeeps ==
    ASSUME KeysInv, NEW r \in Posts, NEW k \in Keys, NEW o \in Purchases, PostBegins(r, k, o)
    PROVE  KeysInv'
<1> DEFINE old == {j \in Keys : keyRows[j].old}
<1>1. KeysTypeOK /\ posts[r].step = "free" /\ forms' = forms /\ payable' = payable
      /\ answers' = answers
  BY DEF KeysInv, PostBegins
<1>2. /\ keyRows' = [j \in Keys |-> IF j \in old THEN NoKeyRow ELSE keyRows[j]]
      /\ life' = [j \in Keys |-> IF j \in old THEN life[j] + 1 ELSE life[j]]
      /\ runs' = [j \in Keys |-> IF j \in old THEN 0 ELSE runs[j]]
      /\ posts' = [posts EXCEPT ![r] = [step |-> "insert", key |-> k, order |-> o]]
  BY DEF PostBegins
<1>3. \A j \in old : keyRows[j].status = "completed" /\ life[j] < MaxLives
  BY DEF KeysInv, KeyRowOK
<1> HIDE DEF old
<1>4. /\ NoKeyRow \in KeyRow /\ NoKeyRow.status = "absent" /\ ~NoKeyRow.old
  BY DEF NoKeyRow, KeyRow
<1>5. \A j \in Keys :
         /\ j \in old => keyRows'[j] = NoKeyRow /\ life'[j] = life[j] + 1 /\ runs'[j] = 0
         /\ j \notin old => keyRows'[j] = keyRows[j] /\ life'[j] = life[j] /\ runs'[j] = runs[j]
  BY <1>2
<1>6. /\ posts'[r] = [step |-> "insert", key |-> k, order |-> o]
      /\ \A q \in Posts \ {r} : posts'[q] = posts[q]
  BY <1>1, <1>2 DEF KeysTypeOK
<1>7. KeysTypeOK'
  <2>1. keyRows' \in [Keys -> KeyRow]
    BY <1>1, <1>2, <1>4 DEF KeysTypeOK
  <2>2. posts' \in [Posts -> Post]
    BY <1>1, <1>2 DEF KeysTypeOK, Post
  <2>3. life' \in [Keys -> 0..MaxLives]
    <3>1. \A j \in Keys : life[j] \in 0..MaxLives /\ (j \in old => life[j] + 1 \in 0..MaxLives)
      BY <1>1, <1>3, IdempotencyAssumption DEF KeysTypeOK
    <3> QED
      BY <1>2, <3>1
  <2>4. runs' \in [Keys -> Nat]
    BY <1>1, <1>2 DEF KeysTypeOK
  <2> QED
    BY <1>1, <2>1, <2>2, <2>3, <2>4 DEF KeysTypeOK
<1>8. \A j \in Keys : KeyRowOK(j)'
  <2> SUFFICES ASSUME NEW j \in Keys PROVE KeyRowOK(j)'
    OBVIOUS
  <2>1. CASE j \in old
    BY <1>4, <1>5, <2>1 DEF KeyRowOK
  <2>2. CASE j \notin old
    <3>1. keyRows'[j] = keyRows[j] /\ life'[j] = life[j] /\ KeyRowOK(j)
      BY <1>5, <2>2 DEF KeysInv
    <3>2. keyRows[j].status = "processing" => keyRows[j].by \in Posts \ {r}
      BY <1>1, <3>1 DEF KeyRowOK
    <3> QED
      BY <1>6, <3>1, <3>2, RowKept
  <2> QED
    BY <2>1, <2>2
<1>9. \A q \in Posts : PostOK(q)'
  <2> SUFFICES ASSUME NEW q \in Posts PROVE PostOK(q)'
    OBVIOUS
  <2>1. CASE q = r
    BY <1>6, <2>1 DEF PostOK
  <2>2. CASE q # r
    <3>1. posts'[q] = posts[q] /\ PostOK(q)
      BY <1>6, <2>2 DEF KeysInv
    <3>2. posts[q].step \in {"read", "create"} => posts[q].key \in Keys \ old
      BY <1>3, <3>1 DEF PostOK
    <3> QED
      BY <1>5, <3>1, <3>2 DEF PostOK
  <2> QED
    BY <2>1, <2>2
<1>10. \A t \in answers : /\ t.key \in Keys /\ t.life \in Nat /\ life[t.key] \in Nat
                           /\ t.life <= life[t.key]
  BY <1>1, IdempotencyAssumption DEF KeysTypeOK, Told, KeysInv, AnswersOfThePast
<1>11. AnswersOfThePast'
  BY <1>1, <1>5, <1>10 DEF AnswersOfThePast
<1>12. KeyRunsOnce'
  <2>1. \A j \in Keys : runs'[j] = IF keyRows'[j].status = "completed" THEN 1 ELSE 0
    BY <1>4, <1>5 DEF KeysInv, KeyRunsOnce
  <2>2. \A t \in answers : t.life = life'[t.key] =>
          t.key \notin old /\ t.life = life[t.key] /\ keyRows'[t.key] = keyRows[t.key]
    BY <1>5, <1>10
  <2> QED
    BY <1>1, <2>1, <2>2 DEF KeysInv, KeyRunsOnce
<1> QED
  BY <1>7, <1>8, <1>9, <1>11, <1>12 DEF KeysInv

\* A request takes its key: there is no row of it, so nobody was told anything
\* in this life of the key.
LEMMA InsertKeeps ==
    ASSUME KeysInv, NEW r \in Posts, posts[r].step = "insert", Unclaimed(posts[r].key),
           keyRows' = [keyRows EXCEPT ![posts[r].key] =
                [NoKeyRow EXCEPT !.status = "processing", !.by = r, !.order = posts[r].order]],
           Moves(r, "read"),
           UNCHANGED <<forms, payable, life, runs, answers>>
    PROVE  KeysInv'
<1> DEFINE k == posts[r].key
           row == [NoKeyRow EXCEPT !.status = "processing", !.by = r, !.order = posts[r].order]
<1>1. KeysTypeOK /\ k \in Keys /\ posts[r].order \in Purchases
      /\ keyRows[k].status = "absent" /\ keyRows[k] = NoKeyRow
  BY DEF KeysInv, PostOK, KeyRowOK, Unclaimed
<1>2. /\ row.status = "processing" /\ row.by = r /\ row.order = posts[r].order
      /\ ~row.old /\ row \in KeyRow
  BY <1>1 DEF NoKeyRow, KeyRow
<1>3. keyRows' = [keyRows EXCEPT ![k] = row]
  OBVIOUS
<1> HIDE DEF k, row
<1>4. /\ posts'[r].step = "read" /\ posts'[r].key = k /\ posts'[r].order = posts[r].order
      /\ \A q \in Posts \ {r} : posts'[q] = posts[q]
      /\ posts' \in [Posts -> Post]
  BY <1>1 DEF KeysTypeOK, Moves, Post, k
<1>5. /\ keyRows'[k] = row /\ keyRows' \in [Keys -> KeyRow]
      /\ \A j \in Keys \ {k} : keyRows'[j] = keyRows[j]
  BY <1>1, <1>2, <1>3 DEF KeysTypeOK
<1>6. KeysTypeOK'
  BY <1>1, <1>4, <1>5 DEF KeysTypeOK
<1>7. \A j \in Keys : KeyRowOK(j)'
  <2> SUFFICES ASSUME NEW j \in Keys PROVE KeyRowOK(j)'
    OBVIOUS
  <2>1. CASE j = k
    <3>1. /\ keyRows'[j].status = "processing" /\ keyRows'[j].by = r
          /\ keyRows'[j].order = posts[r].order /\ ~keyRows'[j].old
      BY <1>2, <1>5, <2>1
    <3>2. /\ posts'[r].step \in {"read", "create"} /\ posts'[r].key = j
          /\ posts'[r].order = posts[r].order
      BY <1>4, <2>1
    <3> QED
      BY <3>1, <3>2 DEF KeyRowOK
  <2>2. CASE j # k
    <3>1. keyRows'[j] = keyRows[j] /\ life'[j] = life[j] /\ KeyRowOK(j)
      BY <1>5, <2>2 DEF KeysInv
    <3>2. keyRows[j].status = "processing" => keyRows[j].by \in Posts \ {r}
      BY <3>1 DEF KeyRowOK
    <3> QED
      BY <1>4, <3>1, <3>2, RowKept
  <2> QED
    BY <2>1, <2>2
<1>8. \A q \in Posts : PostOK(q)'
  <2> SUFFICES ASSUME NEW q \in Posts PROVE PostOK(q)'
    OBVIOUS
  <2>1. CASE q = r
    BY <1>1, <1>2, <1>4, <1>5, <2>1 DEF PostOK
  <2>2. CASE q # r
    <3>1. posts'[q] = posts[q] /\ PostOK(q)
      BY <1>4, <2>2 DEF KeysInv
    <3>2. posts[q].step \in {"read", "create"} => posts[q].key \in Keys \ {k}
      BY <1>1, <3>1 DEF PostOK
    <3> QED
      BY <1>5, <3>1, <3>2 DEF PostOK
  <2> QED
    BY <2>1, <2>2
<1>9. AnswersOfThePast'
  BY DEF KeysInv, AnswersOfThePast
<1>10. KeyRunsOnce'
  <2>1. \A j \in Keys :
          /\ keyRows'[j].status = "completed" <=> keyRows[j].status = "completed"
          /\ keyRows[j].status = "completed" => keyRows'[j] = keyRows[j]
    BY <1>1, <1>2, <1>5
  <2>2. \A t \in answers : t.key \in Keys
    BY <1>1 DEF KeysTypeOK, Told
  <2> QED
    BY <2>1, <2>2 DEF KeysInv, KeyRunsOnce
<1> QED
  BY <1>6, <1>7, <1>8, <1>9, <1>10 DEF KeysInv

\* The steps that store nothing under a key: a request only moves between the
\* steps it takes without a row of its own, or something beside the keys changes.
LEMMA ForwardKeeps ==
    ASSUME KeysInv, NEW r \in Posts,
           \/ posts[r].step = "insert" /\ Moves(r, "lookup")
           \/ posts[r].step = "read" /\ Moves(r, "create"),
           UNCHANGED <<keyRows, forms, payable, life, runs, answers>>
    PROVE  KeysInv'
<1>1. KeysTypeOK
  BY DEF KeysInv
<1>2. /\ posts'[r].key = posts[r].key /\ posts'[r].order = posts[r].order
      /\ \/ posts[r].step = "insert" /\ posts'[r].step = "lookup"
         \/ posts[r].step = "read" /\ posts'[r].step = "create"
      /\ \A q \in Posts \ {r} : posts'[q] = posts[q]
      /\ posts' \in [Posts -> Post]
  BY <1>1 DEF KeysTypeOK, Moves, Post
<1>3. KeysTypeOK'
  BY <1>1, <1>2 DEF KeysTypeOK
<1>4. \A k \in Keys : KeyRowOK(k)'
  <2> SUFFICES ASSUME NEW k \in Keys PROVE KeyRowOK(k)'
    OBVIOUS
  <2>1. keyRows'[k] = keyRows[k] /\ life'[k] = life[k] /\ KeyRowOK(k)
    BY DEF KeysInv
  <2>2. CASE keyRows[k].status = "processing"
    <3>1. keyRows[k].by \in Posts /\ posts[keyRows[k].by].step \in {"read", "create"}
          /\ posts[keyRows[k].by].key = k /\ posts[keyRows[k].by].order = keyRows[k].order
          /\ ~keyRows[k].old
      BY <2>1, <2>2 DEF KeyRowOK
    <3>2. posts'[keyRows[k].by].step \in {"read", "create"}
          /\ posts'[keyRows[k].by].key = k /\ posts'[keyRows[k].by].order = keyRows[k].order
      BY <1>2, <3>1
    <3> QED
      BY <2>1, <2>2, <3>1, <3>2 DEF KeyRowOK
  <2>3. CASE keyRows[k].status # "processing"
    BY <2>1, <2>3 DEF KeyRowOK
  <2> QED
    BY <2>2, <2>3
<1>5. \A q \in Posts : PostOK(q)'
  BY <1>2 DEF KeysInv, PostOK
<1>6. AnswersOfThePast' /\ KeyRunsOnce'
  BY DEF KeysInv, AnswersOfThePast, KeyRunsOnce
<1> QED
  BY <1>3, <1>4, <1>5, <1>6 DEF KeysInv

\* The last look at a key: what is told is what its committed row says.
LEMMA LookUpKeeps ==
    ASSUME KeysInv, NEW r \in Posts, LookUpKey(r)
    PROVE  KeysInv'
<1> DEFINE k == posts[r].key
           new == [key |-> k, life |-> life[k], order |-> posts[r].order,
                   form |-> keyRows[k].form]
<1>1. KeysTypeOK /\ posts[r].step = "lookup" /\ k \in Keys /\ posts[r].order \in Purchases
      /\ KeyRowOK(k)
  BY DEF KeysInv, PostOK, LookUpKey
<1>2. /\ \/ answers' = answers
         \/ /\ answers' = answers \cup {new}
            /\ keyRows[k].status = "completed" /\ keyRows[k].order = posts[r].order
      /\ posts' = [posts EXCEPT ![r] = NoPost]
      /\ UNCHANGED <<keyRows, forms, payable, life, runs>>
  BY DEF LookUpKey, Tell, Ends, SamePayload
<1>3. new.key = k /\ new.life = life[k] /\ new.order = posts[r].order
      /\ new.form = keyRows[k].form
  OBVIOUS
<1>4. keyRows[k].status = "completed" => new \in Told
  BY <1>1 DEF KeysTypeOK, Told, KeyRowOK
<1> HIDE DEF k, new
<1>5. /\ posts'[r] = NoPost /\ \A q \in Posts \ {r} : posts'[q] = posts[q]
      /\ posts' \in [Posts -> Post]
  BY <1>1, <1>2 DEF KeysTypeOK, Post, NoPost
<1>6. KeysTypeOK'
  BY <1>1, <1>2, <1>4, <1>5 DEF KeysTypeOK
<1>7. \A j \in Keys : KeyRowOK(j)'
  <2> SUFFICES ASSUME NEW j \in Keys PROVE KeyRowOK(j)'
    OBVIOUS
  <2>1. keyRows'[j] = keyRows[j] /\ life'[j] = life[j] /\ KeyRowOK(j)
    BY <1>2 DEF KeysInv
  <2>2. keyRows[j].status = "processing" => keyRows[j].by \in Posts \ {r}
    BY <1>1, <2>1 DEF KeyRowOK
  <2> QED
    BY <1>5, <2>1, <2>2, RowKept
<1>8. \A q \in Posts : PostOK(q)'
  BY <1>2, <1>5 DEF KeysInv, PostOK, NoPost
<1>9. AnswersOfThePast'
  <2>1. life[k] <= life[k]
    BY <1>1, IdempotencyAssumption DEF KeysTypeOK
  <2> QED
    BY <1>2, <1>3, <2>1 DEF KeysInv, AnswersOfThePast
<1>10. KeyRunsOnce'
  <2>1. \A t \in answers' : t \in answers \/ (t = new /\ keyRows[k].status = "completed"
                                              /\ keyRows[k].order = posts[r].order)
    BY <1>2
  <2>2. \A t \in answers' : t.life = life[t.key] =>
         /\ keyRows[t.key].status = "completed"
         /\ keyRows[t.key].order = t.order /\ keyRows[t.key].form = t.form
    BY <1>3, <2>1 DEF KeysInv, KeyRunsOnce
  <2>3. \A t, u \in answers' : t.key = u.key /\ t.life = u.life =>
         t.order = u.order /\ t.form = u.form
    <3> SUFFICES ASSUME NEW t \in answers', NEW u \in answers',
                        t.key = u.key, t.life = u.life
                 PROVE  t.order = u.order /\ t.form = u.form
      OBVIOUS
    <3>1. CASE t \in answers /\ u \in answers
      BY <3>1 DEF KeysInv, KeyRunsOnce
    <3>2. CASE t = new \/ u = new
      <4>1. t.key = k /\ u.key = k /\ t.life = life[k] /\ u.life = life[k]
        BY <1>3, <3>2
      <4> QED
        BY <2>2, <4>1
    <3> QED
      BY <2>1, <3>1, <3>2
  <2> QED
    BY <1>2, <2>2, <2>3 DEF KeysInv, KeyRunsOnce
<1> QED
  BY <1>6, <1>7, <1>8, <1>9, <1>10 DEF KeysInv

\* A committed row grows old; nothing that was told or stored moves.
LEMMA AgeKeeps ==
    ASSUME KeysInv, NEW k \in Keys, KeyAges(k)
    PROVE  KeysInv'
<1>1. KeysTypeOK /\ keyRows[k] \in KeyRow /\ keyRows[k].status = "completed" /\ KeyRowOK(k)
      /\ life[k] < MaxLives
  BY DEF KeysInv, KeysTypeOK, KeyAges
<1>2. /\ keyRows' = [keyRows EXCEPT ![k] = [keyRows[k] EXCEPT !.old = TRUE]]
      /\ UNCHANGED <<forms, payable, posts, life, runs, answers>>
  BY DEF KeyAges
<1>3. /\ keyRows'[k].status = "completed" /\ keyRows'[k].by = keyRows[k].by
      /\ keyRows'[k].order = keyRows[k].order /\ keyRows'[k].form = keyRows[k].form
      /\ \A j \in Keys \ {k} : keyRows'[j] = keyRows[j]
      /\ keyRows' \in [Keys -> KeyRow]
  BY <1>1, <1>2 DEF KeysTypeOK, KeyRow
<1>4. KeysTypeOK'
  BY <1>1, <1>2, <1>3 DEF KeysTypeOK
<1>5. \A j \in Keys : KeyRowOK(j)'
  <2> SUFFICES ASSUME NEW j \in Keys PROVE KeyRowOK(j)'
    OBVIOUS
  <2>1. CASE j = k
    BY <1>1, <1>2, <1>3, <2>1 DEF KeyRowOK
  <2>2. CASE j # k
    <3>1. keyRows'[j] = keyRows[j] /\ life' = life /\ posts' = posts /\ KeyRowOK(j)
      BY <1>2, <1>3, <2>2 DEF KeysInv
    <3> QED
      BY <3>1, RowKept
  <2> QED
    BY <2>1, <2>2
<1>6. \A q \in Posts : PostOK(q)'
  <2> SUFFICES ASSUME NEW q \in Posts PROVE PostOK(q)'
    OBVIOUS
  <2>1. PostOK(q) /\ posts'[q] = posts[q]
    BY <1>2 DEF KeysInv
  <2> QED
    BY <1>1, <1>3, <2>1 DEF PostOK
<1>7. AnswersOfThePast'
  BY <1>2 DEF KeysInv, AnswersOfThePast
<1>8. KeyRunsOnce'
  <2>1. \A j \in Keys :
          /\ keyRows'[j].status = "completed" <=> keyRows[j].status = "completed"
          /\ keyRows'[j].order = keyRows[j].order /\ keyRows'[j].form = keyRows[j].form
    BY <1>1, <1>3
  <2>2. \A t \in answers : t.key \in Keys
    BY <1>1 DEF KeysTypeOK, Told
  <2> QED
    BY <1>2, <2>1, <2>2 DEF KeysInv, KeyRunsOnce
<1> QED
  BY <1>4, <1>5, <1>6, <1>7, <1>8 DEF KeysInv

\* The forms and the orders are none of the keys' business.
LEMMA OutsideKeeps ==
    ASSUME KeysInv, UNCHANGED <<keyRows, posts, life, runs, answers>>,
           forms' \in [FormIds -> Form], payable' \subseteq Purchases
    PROVE  KeysInv'
<1>1. KeysTypeOK'
  BY DEF KeysInv, KeysTypeOK
<1>2. \A k \in Keys : KeyRowOK(k)'
  BY DEF KeysInv, KeyRowOK
<1>3. \A r \in Posts : PostOK(r)'
  BY DEF KeysInv, PostOK
<1>4. AnswersOfThePast' /\ KeyRunsOnce'
  BY DEF KeysInv, AnswersOfThePast, KeyRunsOnce
<1> QED
  BY <1>1, <1>2, <1>3, <1>4 DEF KeysInv

\* KeysInv is inductive: a row that is not committed is the one of the request
\* that runs under it, and what was told in this life of a key is what its
\* committed row says.
THEOREM KeysInductive == KeysSpec => []KeysInv
<1>1. KeysInv /\ [KeysNext]_keyVars => KeysInv'
  <2> SUFFICES ASSUME KeysInv, [KeysNext]_keyVars PROVE KeysInv'
    OBVIOUS
  <2>0. KeysTypeOK
    BY DEF KeysInv
  <2>1. ASSUME NEW r \in Posts, NEW a \in Asked, PostBegins(r, a[1], a[2]) PROVE KeysInv'
    <3>1. a[1] \in Keys /\ a[2] \in Purchases
      BY IdempotencyAssumption
    <3> QED
      BY <2>1, <3>1, BeginKeeps
  <2>2. ASSUME NEW r \in Posts, InsertKey(r) PROVE KeysInv'
    <3>1. \/ /\ Unclaimed(posts[r].key) /\ Moves(r, "read")
             /\ keyRows' = [keyRows EXCEPT ![posts[r].key] =
                  [NoKeyRow EXCEPT !.status = "processing", !.by = r, !.order = posts[r].order]]
          \/ Moves(r, "lookup") /\ UNCHANGED keyRows
      BY <2>2 DEF InsertKey
    <3>2. posts[r].step = "insert" /\ UNCHANGED <<forms, payable, life, runs, answers>>
      BY <2>2 DEF InsertKey
    <3> QED
      BY <3>1, <3>2, InsertKeeps, ForwardKeeps
  <2>3. ASSUME NEW r \in Posts, ReadForm(r) PROVE KeysInv'
    <3>1. CASE \E f \in OpenForms(posts[r].order) : CommitAnswer(r, f) /\ UNCHANGED forms
      <4>1. PICK f \in FormIds : CommitAnswer(r, f) /\ UNCHANGED forms
        BY <3>1 DEF OpenForms
      <4>2. forms' \in [FormIds -> Form] /\ posts[r].step \in {"read", "create"}
        BY <2>0, <2>3, <4>1 DEF KeysTypeOK, ReadForm
      <4> QED
        BY <4>1, <4>2, CommitKeeps
    <3>2. CASE Moves(r, "create") /\ UNCHANGED <<keyRows, forms, payable, life, runs, answers>>
      <4>1. posts[r].step = "read"
        BY <2>3 DEF ReadForm
      <4> QED
        BY <3>2, <4>1, ForwardKeeps
    <3>3. CASE RollsBack(r) /\ Ends(r) /\ UNCHANGED <<forms, payable, life, runs, answers>>
      BY <3>3, UndoKeeps DEF Ends
    <3> QED
      BY <2>3, <3>1, <3>2, <3>3 DEF ReadForm
  <2>4. ASSUME NEW r \in Posts, NEW f \in FormIds, CreateForm(r, f) PROVE KeysInv'
    <3>1. posts[r].step = "create" /\ CommitAnswer(r, f)
          /\ forms' = [forms EXCEPT ![f] = [order |-> posts[r].order, open |-> TRUE]]
      BY <2>4 DEF CreateForm
    <3>2. posts[r].order \in Purchases
      BY <3>1 DEF KeysInv, PostOK
    <3>3. forms' \in [FormIds -> Form]
      BY <2>0, <3>1, <3>2 DEF KeysTypeOK, Form
    <3> QED
      BY <3>1, <3>3, CommitKeeps
  <2>5. ASSUME NEW r \in Posts, FormTaken(r) PROVE KeysInv'
    BY <2>5, UndoKeeps DEF FormTaken, Moves
  <2>6. ASSUME NEW r \in Posts, LookUpKey(r) PROVE KeysInv'
    BY <2>6, LookUpKeeps
  <2>7. ASSUME NEW r \in Posts, PostFails(r) PROVE KeysInv'
    BY <2>7, UndoKeeps DEF PostFails, Ends
  <2>8. ASSUME NEW k \in Keys, KeyAges(k) PROVE KeysInv'
    BY <2>8, AgeKeeps
  <2>9. ASSUME NEW f \in FormIds, FormCloses(f) PROVE KeysInv'
    <3>1. forms' \in [FormIds -> Form] /\ payable' \subseteq Purchases
      BY <2>0, <2>9 DEF KeysTypeOK, FormCloses, Form
    <3> QED
      BY <2>9, <3>1, OutsideKeeps DEF FormCloses
  <2>10. ASSUME NEW o \in Purchases, OrderLeavesPending(o) PROVE KeysInv'
    <3>1. forms' \in [FormIds -> Form] /\ payable' \subseteq Purchases
      BY <2>0, <2>10 DEF KeysTypeOK, OrderLeavesPending
    <3> QED
      BY <2>10, <3>1, OutsideKeeps DEF OrderLeavesPending
  <2>11. CASE UNCHANGED keyVars
    BY <2>0, <2>11, OutsideKeeps DEF keyVars, KeysTypeOK
  <2> QED
    BY <2>1, <2>2, <2>3, <2>4, <2>5, <2>6, <2>7, <2>8, <2>9, <2>10, <2>11 DEF KeysNext
<1> QED
  BY KeysInitially, <1>1, PTL DEF KeysSpec

\* Types, for every number of keys, orders, requests and forms.
THEOREM IdempotencyTypeOK == KeysSpec => []KeysTypeOK
<1>1. KeysInv => KeysTypeOK
  BY DEF KeysInv
<1> QED
  BY <1>1, KeysInductive, PTL

\* Until its row is pruned a key has one execution that commits, and everyone
\* who is answered under it is told of the order and the form that it stored.
THEOREM IdempotencyKeyRunsOnce == KeysSpec => []KeyRunsOnce
<1>1. KeysInv => KeyRunsOnce
  BY DEF KeysInv
<1> QED
  BY <1>1, KeysInductive, PTL
=============================================================================
