---------------------------- MODULE IntakeProofs ----------------------------
(***************************************************************************)
(* A promo code discounts no more orders than it may, for any limit, any   *)
(* number of customers, requests, orders and resets, and what its counter  *)
(* and its usage rows say is accounted for; and no order is created around *)
(* the guard of deleteAccount. Of the services beside the intake of        *)
(* orders: reviews and discounts of a catalogue with any number of         *)
(* shoppers, the recommendation cache for any horizon, lifetime and number *)
(* of visits, and the four computations of one price.                      *)
(***************************************************************************)
EXTENDS Shop, FiniteSetTheorems, TLAPS

-----------------------------------------------------------------------------
(* The inductive invariant *)

\* What a request carries from one statement to the next.
JobShape(job) ==
    /\ job.promo => job.pc \in {"insert", "tag"}
    /\ job.pc \notin {"idle", "decrement"} => job.user \in Users
    /\ job.pc = "tag" => job.promo
    /\ job.pc = "tag" \/ (job.pc = "redeem" /\ job.bulk) => job.first # 0
FirstOK(job) == job.first # 0 => job.first <= created /\ orders[job.first].user = job.user
JobsOK == \A w \in Workers : JobShape(jobs[w]) /\ FirstOK(jobs[w])

\* A row that is not there has no discount.
OrdersOK == \A o \in OrderIds : o > created => ~orders[o].promo

\* A use is there as long as its customer and its code are.
UsesOK == \A u \in Users : usage[u] # "none" => u \in accounts /\ promo # "deleted"

\* An order or a request has the discount of customer u.
Has(o, u) == orders[o].promo /\ orders[o].user = u
Takes(w, u) == jobs[w].promo /\ jobs[w].user = u

\* The customer can still make a use, or made it by /promo/apply.
Alive(u) == u \in accounts /\ promo # "deleted"
Usable(u) == Alive(u) /\ usage[u] \in {"none", "applied"}

\* A customer has one discount at most, and none while the code is usable.
OneEach(u) ==
    /\ \A d, e \in OrderIds : Has(d, u) /\ Has(e, u) => d = e
    /\ \A v, w \in Workers : Takes(v, u) /\ Takes(w, u) => v = w
    /\ \A o \in OrderIds, w \in Workers : ~(Has(o, u) /\ Takes(w, u))
    /\ Usable(u) => /\ \A o \in OrderIds : ~Has(o, u)
                    /\ \A w \in Workers : ~Takes(w, u)

\* A request of /promo/apply that has made its use is alone, and finds it again.
Applies(w) == jobs[w].pc \in {"count", "undo"}
AppliesFor(w, u) == Applies(w) /\ jobs[w].user = u
OneApplies(u) ==
    Alive(u) =>
      /\ \A w \in Workers : AppliesFor(w, u) => usage[u] = "applied"
      /\ \A v, w \in Workers : AppliesFor(v, u) /\ AppliesFor(w, u) => v = w

CustomersOK == \A u \in Users \ freed : OneEach(u) /\ OneApplies(u)

\* The first part of UsesAccounted.
Discount(u) == (\E o \in OrderIds : Has(o, u)) \/ (\E w \in Workers : Takes(w, u))
RedeemedOK == \A u \in Users : usage[u] = "redeemed" => Discount(u)

\* The uses that count, and the requests that stand between one of them and the
\* counter.
Taken == {u \in Users : usage[u] \in {"redeemed", "applied"}}
Applicants == {w \in Workers : Applies(w) /\ usage[jobs[w].user] = "applied"}

CounterOK == Cardinality(Discounted) + Cardinality(Pending) <= used + resets
CountOK ==
    resets = 0 /\ freed = {} =>
       used >= 0 /\ Cardinality(Taken) <= used + Cardinality(Applicants)

UseInv == UsesOK /\ CustomersOK /\ RedeemedOK /\ CounterOK /\ CountOK
IntakeInv == TypeOK /\ JobsOK /\ OrdersOK /\ UseInv /\ DeletedHasNoOpenOrder

-----------------------------------------------------------------------------
(* Types *)

LEMMA NoJobType ==
    /\ NoJob \in Job
    /\ NoJob.pc = "idle" /\ ~NoJob.promo /\ NoJob.first = 0 /\ ~NoJob.bulk
<1>1. 0 \in 0..MaxItems
  BY IntakeAssumption
<1> QED
  BY <1>1 DEF NoJob, Job

\* The jobs that a request becomes are jobs.
JobPcs == {"redeem", "insert", "tag", "mark", "count", "undo", "unuse", "decrement"}

LEMMA NewJobTypes ==
    /\ \A pc \in JobPcs : [NoJob EXCEPT !.pc = pc] \in Job
    /\ \A pc \in JobPcs, u \in Users : [NoJob EXCEPT !.pc = pc, !.user = u] \in Job
    /\ \A u \in Users, n \in 1..MaxItems :
          [NoJob EXCEPT !.pc = "loop", !.user = u, !.bulk = TRUE, !.left = n] \in Job
<1>1. \A n \in 1..MaxItems : n \in 0..MaxItems
  BY IntakeAssumption
<1>2. 0 \in 0..MaxItems
  BY IntakeAssumption
<1> QED
  BY <1>1, <1>2 DEF NoJob, Job, JobPcs

LEMMA NextJobTypes ==
    ASSUME NEW job \in Job
    PROVE  /\ \A pc \in JobPcs : [job EXCEPT !.pc = pc] \in Job
           /\ \A pc \in JobPcs : [job EXCEPT !.pc = pc, !.promo = TRUE] \in Job
           /\ job.left > 0 => [job EXCEPT !.left = @ - 1] \in Job
           /\ job.left > 0 => \A o \in OrderIds :
                [job EXCEPT !.left = @ - 1, !.first = IF @ = 0 THEN o ELSE @] \in Job
<1>1. job.left > 0 => job.left - 1 \in 0..MaxItems
  BY IntakeAssumption DEF Job
<1>2. \A pc \in JobPcs : [job EXCEPT !.pc = pc] \in Job
  BY DEF Job, JobPcs
<1>3. \A pc \in JobPcs : [job EXCEPT !.pc = pc, !.promo = TRUE] \in Job
  BY DEF Job, JobPcs
<1>4. job.left > 0 => [job EXCEPT !.left = @ - 1] \in Job
  BY <1>1 DEF Job
<1>5. job.left > 0 => \A o \in OrderIds :
         [job EXCEPT !.left = @ - 1, !.first = IF @ = 0 THEN o ELSE @] \in Job
  BY <1>1 DEF Job
<1> QED
  BY <1>2, <1>3, <1>4, <1>5

LEMMA JobSet ==
    ASSUME jobs \in [Workers -> Job], NEW w \in Workers, NEW job \in Job, SetJob(w, job)
    PROVE  jobs' \in [Workers -> Job]
BY DEF SetJob

\* An order that is inserted is the next one.
LEMMA InsertTypes ==
    ASSUME TypeOK, NEW u \in Users, NEW b \in BOOLEAN, CanOrder(u), Insert(u, b)
    PROVE  /\ created + 1 \in OrderIds
           /\ created' = created + 1 /\ created' \in 0..MaxOrders
           /\ orders' \in [OrderIds -> Order]
           /\ orders'[created + 1] = [st |-> "open", user |-> u, promo |-> b]
           /\ \A o \in OrderIds \ {created + 1} : orders'[o] = orders[o]
           /\ \A o \in OrderIds : orders'[o].st = "absent" <=> o > created'
<1>1. /\ created \in 0..MaxOrders /\ created < MaxOrders
      /\ created' = created + 1
      /\ orders \in [OrderIds -> Order]
      /\ orders' = [orders EXCEPT ![created + 1] = [st |-> "open", user |-> u, promo |-> b]]
      /\ \A o \in OrderIds : orders[o].st = "absent" <=> o > created
  BY DEF TypeOK, CanOrder, Insert
<1>2. created + 1 \in OrderIds /\ created' \in 0..MaxOrders
  BY <1>1, IntakeAssumption DEF OrderIds
<1>3. [st |-> "open", user |-> u, promo |-> b] \in Order
  BY DEF Order
<1>4. /\ orders'[created + 1] = [st |-> "open", user |-> u, promo |-> b]
      /\ \A o \in OrderIds \ {created + 1} : orders'[o] = orders[o]
  BY <1>1, <1>2
<1>5. ASSUME NEW o \in OrderIds PROVE orders'[o].st = "absent" <=> o > created'
  BY <1>1, <1>2, <1>4 DEF OrderIds
<1> QED
  BY <1>1, <1>2, <1>3, <1>4, <1>5

\* Whose the order is that a request inserts.
LEMMA JobUser ==
    ASSUME TypeOK, NEW w \in Workers, CanOrder(jobs[w].user)
    PROVE  jobs[w] \in Job /\ jobs[w].user \in Users /\ jobs[w].promo \in BOOLEAN
BY DEF TypeOK, CanOrder, Job

\* The types of all that is stored.
StoredTypes ==
    /\ accounts \in SUBSET Users
    /\ promo \in PromoCode
    /\ used \in Int /\ (Limit > 0 => used <= Limit)
    /\ resets \in 0..MaxResets
    /\ usage \in [Users -> {"none", "redeemed", "applied", "cut"}]
    /\ orders \in [OrderIds -> Order]
    /\ created \in 0..MaxOrders
    /\ \A o \in OrderIds : orders[o].st = "absent" <=> o > created
    /\ freed \in SUBSET Users

LEMMA TypesHold == Init => TypeOK
<1> SUFFICES ASSUME Init PROVE TypeOK
  OBVIOUS
<1>1. NoOrder \in Order /\ NoOrder.st = "absent"
  BY DEF NoOrder, Order
<1>2. \A o \in OrderIds : o > 0
  BY DEF OrderIds
<1> QED
  BY <1>1, <1>2, IntakeAssumption, NoJobType DEF Init, TypeOK, PromoCode

LEMMA TypesStay ==
    ASSUME TypeOK, JobsOK, [Next]_vars
    PROVE  TypeOK'
<1>0. StoredTypes /\ jobs \in [Workers -> Job]
  BY DEF TypeOK, StoredTypes
<1> SUFFICES StoredTypes' /\ jobs' \in [Workers -> Job]
  BY DEF TypeOK, StoredTypes
<1> USE <1>0, IntakeAssumption
<1>1. ASSUME NEW w \in Workers, NEW u \in Users,
             OrderBegin(w, u) \/ ApplyBegin(w, u) \/ ResetBegin(w, u)
      PROVE  StoredTypes' /\ jobs' \in [Workers -> Job]
  <2>1. \E job \in Job : SetJob(w, job)
    BY <1>1, NewJobTypes DEF OrderBegin, ApplyBegin, ResetBegin, JobPcs
  <2> QED
    BY <1>1, <2>1, JobSet
       DEF OrderBegin, ApplyBegin, ResetBegin, StoredTypes, promoVars, orderVars, historyVars
<1>2. ASSUME NEW w \in Workers, NEW u \in Users, NEW n \in 1..MaxItems, BulkBegin(w, u, n)
      PROVE  StoredTypes' /\ jobs' \in [Workers -> Job]
  BY <1>2, NewJobTypes, JobSet DEF BulkBegin, StoredTypes, promoVars, orderVars, historyVars
<1>3. ASSUME NEW w \in Workers, BulkItem(w)
      PROVE  StoredTypes' /\ jobs' \in [Workers -> Job]
  <2>1. jobs[w] \in Job /\ jobs[w].user \in Users /\ jobs[w].left > 0
    BY <1>3, JobUser DEF BulkItem
  <2>2. /\ created + 1 \in OrderIds /\ created' \in 0..MaxOrders
        /\ orders' \in [OrderIds -> Order]
        /\ \A o \in OrderIds : orders'[o].st = "absent" <=> o > created'
    BY <1>3, <2>1, InsertTypes DEF BulkItem
  <2> QED
    BY <1>3, <2>1, <2>2, NextJobTypes, JobSet DEF BulkItem, StoredTypes, promoVars, historyVars
<1>4. ASSUME NEW w \in Workers, BulkSkip(w) \/ BulkReject(w) \/ BulkDone(w)
      PROVE  StoredTypes' /\ jobs' \in [Workers -> Job]
  <2>1. \E job \in Job : SetJob(w, job)
    BY <1>4, NextJobTypes, NoJobType DEF BulkSkip, BulkReject, BulkDone, JobPcs
  <2> QED
    BY <1>4, <2>1, JobSet
       DEF BulkSkip, BulkReject, BulkDone, StoredTypes, promoVars, orderVars, historyVars
<1>5. ASSUME NEW w \in Workers, Redeem(w) \/ RedeemNothing(w)
      PROVE  StoredTypes' /\ jobs' \in [Workers -> Job]
  <2>1. \E job \in Job : SetJob(w, job)
    BY <1>5, NextJobTypes, NoJobType DEF Redeem, RedeemNothing, JobPcs
  <2> QED
    BY <1>5, <2>1, JobSet DEF Redeem, RedeemNothing, CanUse, SetUse, InLimit, StoredTypes,
       promoVars, orderVars, historyVars
<1>6. ASSUME NEW w \in Workers, InsertOrder(w)
      PROVE  StoredTypes' /\ jobs' \in [Workers -> Job]
  <2>1. jobs[w] \in Job /\ jobs[w].user \in Users /\ jobs[w].promo \in BOOLEAN
    BY <1>6, JobUser DEF InsertOrder
  <2>2. /\ created' \in 0..MaxOrders
        /\ orders' \in [OrderIds -> Order]
        /\ \A o \in OrderIds : orders'[o].st = "absent" <=> o > created'
    BY <1>6, <2>1, InsertTypes DEF InsertOrder
  <2> QED
    BY <1>6, <2>1, <2>2, NoJobType, JobSet DEF InsertOrder, StoredTypes, promoVars, historyVars
<1>7. ASSUME NEW w \in Workers, TagFirst(w)
      PROVE  StoredTypes' /\ jobs' \in [Workers -> Job]
  <2> DEFINE f == jobs[w].first
  <2>0. orders' = [orders EXCEPT ![f] = [orders[f] EXCEPT !.promo = TRUE]]
    BY <1>7 DEF TagFirst
  <2> HIDE DEF f
  <2>1. ASSUME NEW o \in OrderIds
        PROVE  orders'[o] \in Order /\ orders'[o].st = orders[o].st
    <3>1. orders[o] \in Order
      BY DEF StoredTypes
    <3>2. [orders[o] EXCEPT !.promo = TRUE] \in Order
          /\ [orders[o] EXCEPT !.promo = TRUE].st = orders[o].st
      BY <3>1 DEF Order
    <3>3. orders'[o] = IF o = f THEN [orders[o] EXCEPT !.promo = TRUE] ELSE orders[o]
      BY <2>0 DEF StoredTypes
    <3> QED
      BY <3>1, <3>2, <3>3
  <2>2. orders' \in [OrderIds -> Order]
    BY <2>0, <2>1 DEF StoredTypes
  <2>3. SetJob(w, NoJob) /\ UNCHANGED <<accounts, promoVars, created, historyVars>>
    BY <1>7 DEF TagFirst
  <2>4. jobs' \in [Workers -> Job]
    BY <2>3, NoJobType, JobSet
  <2> QED
    BY <2>1, <2>2, <2>3, <2>4 DEF StoredTypes, promoVars, historyVars
<1>8. ASSUME NEW w \in Workers,
             ApplyMark(w) \/ ApplyCount(w) \/ ApplyRefused(w) \/ ApplyUndo(w)
      PROVE  StoredTypes' /\ jobs' \in [Workers -> Job]
  <2>1. \E job \in Job : SetJob(w, job)
    BY <1>8, NextJobTypes, NoJobType
       DEF ApplyMark, ApplyCount, ApplyRefused, ApplyUndo, JobPcs
  <2> QED
    BY <1>8, <2>1, JobSet DEF ApplyMark, ApplyCount, ApplyRefused, ApplyUndo, SetUse,
       InLimit, StoredTypes, promoVars, orderVars, historyVars
<1>9. ASSUME NEW w \in Workers, ResetUse(w) \/ ResetCount(w)
      PROVE  StoredTypes' /\ jobs' \in [Workers -> Job]
  <2>1. \E job \in Job : SetJob(w, job)
    BY <1>9, NewJobTypes, NoJobType DEF ResetUse, ResetCount, JobPcs
  <2>2. ResetUse(w) => jobs[w].user \in Users
    BY <1>9 DEF ResetUse, At, JobsOK, JobShape
  <2> QED
    BY <1>9, <2>1, <2>2, JobSet
       DEF ResetUse, ResetCount, SetUse, StoredTypes, orderVars, historyVars
<1>10. ASSUME NEW w \in Workers, Cut(w)
       PROVE  StoredTypes' /\ jobs' \in [Workers -> Job]
  BY <1>10, NoJobType, JobSet DEF Cut, StoredTypes, orderVars, historyVars
<1>11. ASSUME NEW o \in OrderIds, Settle(o)
       PROVE  StoredTypes' /\ jobs' \in [Workers -> Job]
  <2>1. orders' \in [OrderIds -> Order]
    BY <1>11 DEF Settle, StoredTypes, Order
  <2>2. \A i \in OrderIds : orders'[i].st = "absent" <=> orders[i].st = "absent"
    BY <1>11 DEF Settle, StoredTypes, Order
  <2> QED
    BY <1>11, <2>1, <2>2 DEF Settle, StoredTypes, promoVars, historyVars
<1>12. ASSUME NEW u \in Users, DeleteAccount(u)
       PROVE  StoredTypes' /\ jobs' \in [Workers -> Job]
  BY <1>12 DEF DeleteAccount, SetUse, StoredTypes, orderVars, historyVars
<1>13. CASE TogglePromo \/ DeletePromo
  BY <1>13 DEF TogglePromo, DeletePromo, PromoCode, StoredTypes, orderVars, historyVars
<1>14. CASE UNCHANGED vars
  BY <1>14 DEF vars, StoredTypes
<1> QED
  BY <1>1, <1>2, <1>3, <1>4, <1>5, <1>6, <1>7, <1>8, <1>9, <1>10, <1>11, <1>12, <1>13,
     <1>14 DEF Next, Requests

-----------------------------------------------------------------------------
(* Requests *)

\* One request takes its step; the orders there are stay with their customers.
LEMMA JobStays ==
    ASSUME TypeOK, JobsOK, created' >= created, created' \in Nat,
           \A o \in OrderIds : o <= created => orders'[o].user = orders[o].user,
           NEW w \in Workers, NEW job \in Job, SetJob(w, job), JobShape(job),
           job.first # 0 => job.first <= created' /\ orders'[job.first].user = job.user
    PROVE  JobsOK'
<1>0. jobs \in [Workers -> Job] /\ created \in Nat
  BY IntakeAssumption DEF TypeOK
<1>1. ASSUME NEW v \in Workers, v # w PROVE JobShape(jobs'[v]) /\ FirstOK(jobs[v])'
  <2>1. jobs'[v] = jobs[v] /\ jobs[v] \in Job
    BY <1>0, <1>1 DEF SetJob
  <2>2. jobs[v].first \in OrderIds \cup {0} /\ JobShape(jobs[v]) /\ FirstOK(jobs[v])
    BY <2>1 DEF JobsOK, Job
  <2> QED
    BY <1>0, <2>1, <2>2 DEF FirstOK, OrderIds
<1>2. jobs'[w] = job
  BY <1>0 DEF SetJob
<1>3. JobShape(jobs'[w]) /\ FirstOK(jobs[w])'
  BY <1>2 DEF FirstOK
<1>4. ASSUME NEW v \in Workers PROVE JobShape(jobs'[v]) /\ FirstOK(jobs[v])'
  BY <1>1, <1>3
<1> QED
  BY <1>4 DEF JobsOK

\* The same when the step writes no order, and leaves the request's own alone.
Resumes(w) ==
    \E job \in Job :
       /\ SetJob(w, job) /\ JobShape(job)
       /\ job.first # 0 => job.first = jobs[w].first /\ job.user = jobs[w].user

LEMMA JobResumes ==
    ASSUME TypeOK, JobsOK, UNCHANGED <<orders, created>>, NEW w \in Workers, Resumes(w)
    PROVE  JobsOK'
<1>1. PICK job \in Job :
         /\ SetJob(w, job) /\ JobShape(job)
         /\ job.first # 0 => job.first = jobs[w].first /\ job.user = jobs[w].user
  BY DEF Resumes
<1>2. created \in Nat /\ FirstOK(jobs[w])
  BY IntakeAssumption DEF TypeOK, JobsOK
<1>3. job.first # 0 => job.first <= created' /\ orders'[job.first].user = job.user
  BY <1>1, <1>2 DEF FirstOK
<1>4. created' >= created /\ created' \in Nat
      /\ \A o \in OrderIds : o <= created => orders'[o].user = orders[o].user
  BY <1>2
<1> QED
  BY <1>1, <1>3, <1>4, JobStays

\* The shapes of the jobs that a request becomes.
LEMMA NoJobShape == JobShape(NoJob) /\ NoJob.first = 0
BY DEF JobShape, NoJob

LEMMA NewJobShapes ==
    ASSUME NEW u \in Users
    PROVE  /\ \A pc \in {"redeem", "insert", "mark", "unuse"} :
                 /\ JobShape([NoJob EXCEPT !.pc = pc, !.user = u])
                 /\ [NoJob EXCEPT !.pc = pc, !.user = u].first = 0
           /\ JobShape([NoJob EXCEPT !.pc = "decrement"])
           /\ [NoJob EXCEPT !.pc = "decrement"].first = 0
           /\ \A n \in 1..MaxItems :
                 LET job == [NoJob EXCEPT !.pc = "loop", !.user = u, !.bulk = TRUE, !.left = n]
                 IN  JobShape(job) /\ job.first = 0
<1>1. ASSUME NEW pc \in {"redeem", "insert", "mark", "unuse"}
      PROVE  /\ JobShape([NoJob EXCEPT !.pc = pc, !.user = u])
             /\ [NoJob EXCEPT !.pc = pc, !.user = u].first = 0
  BY <1>1 DEF JobShape, NoJob
<1>2. /\ JobShape([NoJob EXCEPT !.pc = "decrement"])
      /\ [NoJob EXCEPT !.pc = "decrement"].first = 0
  BY DEF JobShape, NoJob
<1>3. ASSUME NEW n \in 1..MaxItems
      PROVE  LET job == [NoJob EXCEPT !.pc = "loop", !.user = u, !.bulk = TRUE, !.left = n]
             IN  JobShape(job) /\ job.first = 0
  BY DEF JobShape, NoJob
<1> QED
  BY <1>1, <1>2, <1>3

\* What a step changes of a job, field by field.
LEMMA Moved ==
    ASSUME NEW job \in Job, NEW pc \in JobPcs
    PROVE  LET j == [job EXCEPT !.pc = pc]
               k == [job EXCEPT !.pc = pc, !.promo = TRUE]
               l == [job EXCEPT !.left = @ - 1]
           IN  /\ j.pc = pc /\ j.user = job.user /\ j.bulk = job.bulk
               /\ j.promo = job.promo /\ j.first = job.first
               /\ k.pc = pc /\ k.user = job.user /\ k.bulk = job.bulk
               /\ k.promo = TRUE /\ k.first = job.first
               /\ l.pc = job.pc /\ l.user = job.user /\ l.bulk = job.bulk
               /\ l.promo = job.promo /\ l.first = job.first
BY DEF Job

LEMMA JobsStay ==
    ASSUME TypeOK, JobsOK, [Next]_vars
    PROVE  JobsOK'
<1>0. /\ created \in Nat /\ jobs \in [Workers -> Job]
      /\ \A w \in Workers : jobs[w] \in Job /\ JobShape(jobs[w]) /\ FirstOK(jobs[w])
  BY IntakeAssumption DEF TypeOK, JobsOK
<1> USE <1>0
<1>1. ASSUME NEW w \in Workers, NEW u \in Users,
             OrderBegin(w, u) \/ ApplyBegin(w, u) \/ ResetBegin(w, u)
      PROVE  JobsOK'
  <2>1. Resumes(w)
    BY <1>1, NewJobTypes, NewJobShapes
       DEF OrderBegin, ApplyBegin, ResetBegin, JobPcs, Resumes
  <2>2. UNCHANGED <<orders, created>>
    BY <1>1 DEF OrderBegin, ApplyBegin, ResetBegin, orderVars
  <2> QED
    BY <2>1, <2>2, JobResumes
<1>2. ASSUME NEW w \in Workers, NEW u \in Users, NEW n \in 1..MaxItems, BulkBegin(w, u, n)
      PROVE  JobsOK'
  <2>1. Resumes(w)
    BY <1>2, NewJobTypes, NewJobShapes DEF BulkBegin, Resumes
  <2>2. UNCHANGED <<orders, created>>
    BY <1>2 DEF BulkBegin, orderVars
  <2> QED
    BY <2>1, <2>2, JobResumes
<1>3. ASSUME NEW w \in Workers, BulkItem(w) PROVE JobsOK'
  <2> DEFINE job == [jobs[w] EXCEPT !.left = @ - 1,
                                    !.first = IF @ = 0 THEN created + 1 ELSE @]
  <2>0. jobs[w].user \in Users /\ CanOrder(jobs[w].user) /\ Insert(jobs[w].user, FALSE)
    BY <1>3, JobUser DEF BulkItem
  <2>1. jobs[w].user \in Users /\ jobs[w].left > 0 /\ SetJob(w, job)
    BY <1>3, <2>0 DEF BulkItem
  <2>2. /\ created + 1 \in OrderIds /\ created' = created + 1
        /\ orders'[created + 1].user = jobs[w].user
        /\ \A o \in OrderIds \ {created + 1} : orders'[o] = orders[o]
    <3> HIDE <1>0 DEF job
    <3>1. /\ created + 1 \in OrderIds /\ created' = created + 1
          /\ orders'[created + 1] = [st |-> "open", user |-> jobs[w].user, promo |-> FALSE]
          /\ \A o \in OrderIds \ {created + 1} : orders'[o] = orders[o]
      BY <2>0, InsertTypes
    <3> QED
      BY <3>1
  <2>3. job \in Job
    BY <2>1, <2>2, NextJobTypes
  <2>4. /\ job.promo = jobs[w].promo /\ job.pc = jobs[w].pc /\ job.user = jobs[w].user
        /\ job.bulk = jobs[w].bulk /\ jobs[w].pc = "loop"
        /\ job.first = IF jobs[w].first = 0 THEN created + 1 ELSE jobs[w].first
    BY <1>3 DEF BulkItem, At, Job
  <2>5. jobs[w].first # 0 => /\ jobs[w].first \in OrderIds /\ jobs[w].first <= created
                             /\ orders'[jobs[w].first].user = jobs[w].user
    BY <2>2 DEF FirstOK, Job, OrderIds
  <2> HIDE DEF job
  <2>6. JobShape(job)
    BY <2>1, <2>4 DEF JobShape
  <2>7. job.first # 0 => job.first <= created' /\ orders'[job.first].user = job.user
    BY <2>2, <2>4, <2>5 DEF OrderIds
  <2> QED
    BY <2>1, <2>2, <2>3, <2>6, <2>7, JobStays DEF OrderIds
<1>4. ASSUME NEW w \in Workers, BulkSkip(w) \/ BulkReject(w) \/ BulkDone(w)
      PROVE  JobsOK'
  <2>1. ASSUME BulkSkip(w) PROVE Resumes(w)
    <3>1. [jobs[w] EXCEPT !.left = @ - 1] \in Job
      BY <2>1, NextJobTypes DEF BulkSkip
    <3>2. JobShape([jobs[w] EXCEPT !.left = @ - 1])
      BY Moved DEF JobShape, JobPcs
    <3>3. /\ [jobs[w] EXCEPT !.left = @ - 1].first = jobs[w].first
          /\ [jobs[w] EXCEPT !.left = @ - 1].user = jobs[w].user
      BY Moved DEF JobPcs
    <3>4. SetJob(w, [jobs[w] EXCEPT !.left = @ - 1])
      BY <2>1 DEF BulkSkip
    <3> QED
      BY <3>1, <3>2, <3>3, <3>4 DEF Resumes
  <2>2. ASSUME BulkDone(w), SetJob(w, [jobs[w] EXCEPT !.pc = "redeem"]), jobs[w].first # 0
        PROVE  Resumes(w)
    <3>1. [jobs[w] EXCEPT !.pc = "redeem"] \in Job
      BY NextJobTypes DEF JobPcs
    <3>2. JobShape([jobs[w] EXCEPT !.pc = "redeem"])
      BY <2>2, Moved DEF JobShape, JobPcs, BulkDone, At
    <3>3. /\ [jobs[w] EXCEPT !.pc = "redeem"].first = jobs[w].first
          /\ [jobs[w] EXCEPT !.pc = "redeem"].user = jobs[w].user
      BY Moved DEF JobPcs
    <3>4. SetJob(w, [jobs[w] EXCEPT !.pc = "redeem"])
      BY <2>2
    <3> QED
      BY <3>1, <3>2, <3>3, <3>4 DEF Resumes
  <2>3. ASSUME SetJob(w, NoJob) PROVE Resumes(w)
    BY <2>3, NoJobType, NoJobShape DEF Resumes
  <2>4. UNCHANGED <<orders, created>>
    BY <1>4 DEF BulkSkip, BulkReject, BulkDone, orderVars
  <2>5. Resumes(w)
    BY <1>4, <2>1, <2>2, <2>3 DEF BulkReject, BulkDone
  <2> QED
    BY <2>4, <2>5, JobResumes
<1>5. ASSUME NEW w \in Workers, Redeem(w) \/ RedeemNothing(w)
      PROVE  JobsOK'
  <2>1. ASSUME Redeem(w) PROVE Resumes(w)
    <3> DEFINE pc == IF jobs[w].bulk THEN "tag" ELSE "insert"
               job == [jobs[w] EXCEPT !.pc = pc, !.promo = TRUE]
    <3>0. pc \in JobPcs /\ jobs[w].pc = "redeem"
      BY <2>1 DEF JobPcs, Redeem, At
    <3>1. SetJob(w, job)
      BY <2>1 DEF Redeem
    <3>2. job \in Job
      BY <3>0, NextJobTypes
    <3>3. /\ job.pc = pc /\ job.user = jobs[w].user /\ job.bulk = jobs[w].bulk
          /\ job.promo = TRUE /\ job.first = jobs[w].first
      BY <3>0, Moved
    <3>4. JobShape(job)
      BY <3>0, <3>3 DEF JobShape
    <3> QED
      BY <3>1, <3>2, <3>3, <3>4 DEF Resumes
  <2>2. ASSUME SetJob(w, [jobs[w] EXCEPT !.pc = "insert"]), RedeemNothing(w)
        PROVE  Resumes(w)
    <3>1. [jobs[w] EXCEPT !.pc = "insert"] \in Job
      BY NextJobTypes DEF JobPcs
    <3>2. JobShape([jobs[w] EXCEPT !.pc = "insert"])
      BY <2>2, Moved DEF JobShape, JobPcs, RedeemNothing, At
    <3>3. /\ [jobs[w] EXCEPT !.pc = "insert"].first = jobs[w].first
          /\ [jobs[w] EXCEPT !.pc = "insert"].user = jobs[w].user
      BY Moved DEF JobPcs
    <3>4. SetJob(w, [jobs[w] EXCEPT !.pc = "insert"])
      BY <2>2
    <3> QED
      BY <3>1, <3>2, <3>3, <3>4 DEF Resumes
  <2>3. ASSUME SetJob(w, NoJob) PROVE Resumes(w)
    BY <2>3, NoJobType, NoJobShape DEF Resumes
  <2>4. UNCHANGED <<orders, created>>
    BY <1>5 DEF Redeem, RedeemNothing, orderVars
  <2>5. Resumes(w)
    BY <1>5, <2>1, <2>2, <2>3 DEF RedeemNothing
  <2> QED
    BY <2>4, <2>5, JobResumes
<1>7. ASSUME NEW w \in Workers, InsertOrder(w) PROVE JobsOK'
  <2>1. jobs[w].user \in Users /\ jobs[w].promo \in BOOLEAN
    BY <1>7, JobUser DEF InsertOrder
  <2>2. /\ created' = created + 1
        /\ \A o \in OrderIds \ {created + 1} : orders'[o] = orders[o]
    BY <1>7, <2>1, InsertTypes DEF InsertOrder
  <2> QED
    BY <1>7, <2>2, JobStays, NoJobType, NoJobShape DEF InsertOrder, OrderIds
<1>8. ASSUME NEW w \in Workers, TagFirst(w) PROVE JobsOK'
  <2>1. \A o \in OrderIds : orders'[o].user = orders[o].user
    BY <1>8 DEF TagFirst, TypeOK, Order
  <2> QED
    BY <1>8, <2>1, JobStays, NoJobType, NoJobShape DEF TagFirst
<1>9. ASSUME NEW w \in Workers,
             ApplyMark(w) \/ ApplyCount(w) \/ ApplyRefused(w) \/ ApplyUndo(w)
      PROVE  JobsOK'
  <2>1. ASSUME NEW pc \in {"count", "undo"}, SetJob(w, [jobs[w] EXCEPT !.pc = pc]),
               jobs[w].pc \in {"mark", "count"}
        PROVE  Resumes(w)
    <3>1. [jobs[w] EXCEPT !.pc = pc] \in Job
      BY NextJobTypes DEF JobPcs
    <3>2. JobShape([jobs[w] EXCEPT !.pc = pc])
      BY <2>1, Moved DEF JobShape, JobPcs
    <3>3. /\ [jobs[w] EXCEPT !.pc = pc].first = jobs[w].first
          /\ [jobs[w] EXCEPT !.pc = pc].user = jobs[w].user
      BY Moved DEF JobPcs
    <3>4. SetJob(w, [jobs[w] EXCEPT !.pc = pc])
      BY <2>1
    <3> QED
      BY <3>1, <3>2, <3>3, <3>4 DEF Resumes
  <2>2. ASSUME SetJob(w, NoJob) PROVE Resumes(w)
    BY <2>2, NoJobType, NoJobShape DEF Resumes
  <2>3. UNCHANGED <<orders, created>>
    BY <1>9 DEF ApplyMark, ApplyCount, ApplyRefused, ApplyUndo, orderVars
  <2>4. Resumes(w)
    BY <1>9, <2>1, <2>2 DEF ApplyMark, ApplyCount, ApplyRefused, ApplyUndo, At
  <2> QED
    BY <2>3, <2>4, JobResumes
<1>10. ASSUME NEW w \in Workers, ResetUse(w) \/ ResetCount(w) \/ Cut(w)
       PROVE  JobsOK'
  <2>1. ASSUME SetJob(w, NoJob) PROVE Resumes(w)
    BY <2>1, NoJobType, NoJobShape DEF Resumes
  <2>2. ASSUME ResetUse(w) PROVE Resumes(w)
    <3>1. /\ JobShape([NoJob EXCEPT !.pc = "decrement"])
          /\ [NoJob EXCEPT !.pc = "decrement"].first = 0
      BY DEF JobShape, NoJob
    <3> QED
      BY <2>2, <3>1, NewJobTypes DEF Resumes, ResetUse, JobPcs
  <2>3. UNCHANGED <<orders, created>>
    BY <1>10 DEF ResetUse, ResetCount, Cut, orderVars
  <2>4. Resumes(w)
    BY <1>10, <2>1, <2>2 DEF ResetCount, Cut
  <2> QED
    BY <2>3, <2>4, JobResumes
<1>11. ASSUME NEW o \in OrderIds, Settle(o) PROVE JobsOK'
  <2>1. \A i \in OrderIds : orders'[i].user = orders[i].user
    BY <1>11 DEF Settle, TypeOK, Order
  <2>2. UNCHANGED <<jobs, created>>
    BY <1>11 DEF Settle
  <2>3. \A w \in Workers : jobs[w].first \in OrderIds \cup {0}
    BY DEF Job
  <2> QED
    BY <2>1, <2>2, <2>3 DEF JobsOK, FirstOK
<1>12. ASSUME UNCHANGED <<orders, created, jobs>> PROVE JobsOK'
  BY <1>12 DEF JobsOK, FirstOK
<1>13. ASSUME (\E u \in Users : DeleteAccount(u)) \/ TogglePromo \/ DeletePromo \/ UNCHANGED vars
       PROVE  JobsOK'
  BY <1>12, <1>13 DEF DeleteAccount, TogglePromo, DeletePromo, vars, orderVars
<1> QED
  BY <1>1, <1>2, <1>3, <1>4, <1>5, <1>7, <1>8, <1>9, <1>10, <1>11, <1>13 DEF Next, Requests
-----------------------------------------------------------------------------
(* Orders and accounts *)

LEMMA OrdersStay ==
    ASSUME TypeOK, JobsOK, OrdersOK, [Next]_vars
    PROVE  OrdersOK'
<1>0. created \in Nat /\ orders \in [OrderIds -> Order]
  BY IntakeAssumption DEF TypeOK
<1>1. ASSUME UNCHANGED <<orders, created>> PROVE OrdersOK'
  BY <1>1 DEF OrdersOK
<1>2. ASSUME NEW u \in Users, NEW b \in BOOLEAN, CanOrder(u), Insert(u, b) PROVE OrdersOK'
  <2>1. /\ created' = created + 1
        /\ \A o \in OrderIds \ {created + 1} : orders'[o] = orders[o]
    BY <1>2, InsertTypes
  <2> QED
    BY <1>0, <2>1 DEF OrdersOK, OrderIds
<1>3. ASSUME NEW w \in Workers, BulkItem(w) \/ InsertOrder(w) PROVE OrdersOK'
  <2>1. CanOrder(jobs[w].user) /\ jobs[w].user \in Users /\ jobs[w].promo \in BOOLEAN
    BY <1>3, JobUser DEF BulkItem, InsertOrder
  <2>2. Insert(jobs[w].user, FALSE) \/ Insert(jobs[w].user, jobs[w].promo)
    BY <1>3 DEF BulkItem, InsertOrder
  <2> QED
    BY <1>2, <2>1, <2>2
<1>4. ASSUME NEW w \in Workers, TagFirst(w) PROVE OrdersOK'
  <2>1. jobs[w].first # 0 /\ jobs[w].first <= created
    BY <1>4 DEF TagFirst, At, JobsOK, JobShape, FirstOK
  <2>2. \A o \in OrderIds : o # jobs[w].first => orders'[o] = orders[o]
    BY <1>0, <1>4 DEF TagFirst
  <2> QED
    BY <1>0, <1>4, <2>1, <2>2 DEF TagFirst, OrdersOK, OrderIds
<1>5. ASSUME NEW o \in OrderIds, Settle(o) PROVE OrdersOK'
  <2>1. \A i \in OrderIds : orders'[i].promo = orders[i].promo
    BY <1>0, <1>5 DEF Settle, Order
  <2> QED
    BY <1>5, <2>1 DEF Settle, OrdersOK
<1> QED
  BY <1>1, <1>3, <1>4, <1>5
     DEF Next, Requests, OrderBegin, ApplyBegin, ResetBegin, BulkBegin, BulkSkip, BulkReject,
         BulkDone, Redeem, RedeemNothing, ApplyMark, ApplyCount, ApplyRefused, ApplyUndo,
         ResetUse, ResetCount, Cut, DeleteAccount, TogglePromo, DeletePromo, orderVars, vars

LEMMA OpenOrdersStay ==
    ASSUME TypeOK, DeletedHasNoOpenOrder, [Next]_vars
    PROVE  DeletedHasNoOpenOrder'
<1>0. created \in Nat /\ orders \in [OrderIds -> Order]
  BY IntakeAssumption DEF TypeOK
<1>1. ASSUME UNCHANGED <<orders, accounts>> PROVE DeletedHasNoOpenOrder'
  BY <1>1 DEF DeletedHasNoOpenOrder
<1>2. ASSUME NEW u \in Users, NEW b \in BOOLEAN, CanOrder(u), Insert(u, b),
             UNCHANGED accounts
      PROVE  DeletedHasNoOpenOrder'
  <2>1. /\ orders'[created + 1] = [st |-> "open", user |-> u, promo |-> b]
        /\ \A o \in OrderIds \ {created + 1} : orders'[o] = orders[o]
    BY <1>2, InsertTypes
  <2> QED
    BY <1>2, <2>1 DEF DeletedHasNoOpenOrder, CanOrder
<1>3. ASSUME NEW w \in Workers, BulkItem(w) \/ InsertOrder(w) PROVE DeletedHasNoOpenOrder'
  <2>1. CanOrder(jobs[w].user) /\ jobs[w].user \in Users /\ jobs[w].promo \in BOOLEAN
    BY <1>3, JobUser DEF BulkItem, InsertOrder
  <2>2. /\ Insert(jobs[w].user, FALSE) \/ Insert(jobs[w].user, jobs[w].promo)
        /\ UNCHANGED accounts
    BY <1>3 DEF BulkItem, InsertOrder
  <2> QED
    BY <1>2, <2>1, <2>2
<1>4. ASSUME UNCHANGED accounts,
             \A o \in OrderIds : /\ orders'[o].user = orders[o].user
                                 /\ orders'[o].st = "open" => orders[o].st = "open"
      PROVE  DeletedHasNoOpenOrder'
  BY <1>4 DEF DeletedHasNoOpenOrder
<1>5. ASSUME NEW w \in Workers, TagFirst(w) PROVE DeletedHasNoOpenOrder'
  <2>1. \A o \in OrderIds : /\ orders'[o].user = orders[o].user
                            /\ orders'[o].st = "open" => orders[o].st = "open"
    BY <1>0, <1>5 DEF TagFirst, Order
  <2> QED
    BY <1>4, <1>5, <2>1 DEF TagFirst
<1>6. ASSUME NEW i \in OrderIds, Settle(i) PROVE DeletedHasNoOpenOrder'
  <2>1. \A o \in OrderIds : /\ orders'[o].user = orders[o].user
                            /\ orders'[o].st = "open" => orders[o].st = "open"
    BY <1>0, <1>6 DEF Settle, Order
  <2> QED
    BY <1>4, <1>6, <2>1 DEF Settle
<1>7. ASSUME NEW u \in Users, DeleteAccount(u) PROVE DeletedHasNoOpenOrder'
  BY <1>7 DEF DeleteAccount, DeletedHasNoOpenOrder, orderVars
<1> QED
  BY <1>1, <1>3, <1>5, <1>6, <1>7
     DEF Next, Requests, OrderBegin, ApplyBegin, ResetBegin, BulkBegin, BulkSkip, BulkReject,
         BulkDone, Redeem, RedeemNothing, ApplyMark, ApplyCount, ApplyRefused, ApplyUndo,
         ResetUse, ResetCount, Cut, TogglePromo, DeletePromo, orderVars, vars

-----------------------------------------------------------------------------
(* Steps that touch no discount, no use and no account *)

\* Orders and requests keep their discounts, and the requests of /promo/apply go on.
SameOrders ==
    \A o \in OrderIds : /\ orders'[o].promo = orders[o].promo
                        /\ orders[o].promo => orders'[o].user = orders[o].user
SameDiscounts(v) ==
    /\ jobs'[v].promo = jobs[v].promo
    /\ jobs[v].promo => jobs'[v].user = jobs[v].user
SameApplies(v) ==
    /\ jobs'[v].pc \in {"count", "undo"} <=> Applies(v)
    /\ Applies(v) => jobs'[v].user = jobs[v].user
SameJobs == \A v \in Workers : SameDiscounts(v) /\ SameApplies(v)

Quiet ==
    /\ SameOrders /\ SameJobs
    /\ UNCHANGED <<accounts, usage, freed>>
    /\ promo' = "deleted" <=> promo = "deleted"
    /\ \/ UNCHANGED <<used, resets>>
       \/ used' = used - 1 /\ resets' = resets + 1

\* A request that has no discount and has made no use goes on without either.
Plainly(w) ==
    /\ ~jobs[w].promo /\ ~Applies(w)
    /\ \E job \in Job : SetJob(w, job) /\ ~job.promo /\ job.pc \notin {"count", "undo"}

LEMMA PlainJobs ==
    ASSUME TypeOK, NEW w \in Workers, Plainly(w)
    PROVE  SameJobs
<1>1. PICK job \in Job : SetJob(w, job) /\ ~job.promo /\ job.pc \notin {"count", "undo"}
  BY DEF Plainly
<1>2. jobs'[w] = job /\ \A v \in Workers \ {w} : jobs'[v] = jobs[v]
  BY <1>1 DEF SetJob, TypeOK
<1>3. job.promo = FALSE /\ jobs[w].promo = FALSE
  BY <1>1 DEF Job, Plainly, TypeOK
<1>4. ASSUME NEW v \in Workers PROVE SameDiscounts(v) /\ SameApplies(v)
  <2>1. CASE v = w
    BY <1>1, <1>2, <1>3, <2>1 DEF SameDiscounts, SameApplies, Applies, Plainly
  <2>2. CASE v # w
    BY <1>2, <2>2 DEF SameDiscounts, SameApplies, Applies
  <2> QED
    BY <2>1, <2>2
<1> QED
  BY <1>4 DEF SameJobs

\* An order without a discount.
LEMMA PlainOrder ==
    ASSUME TypeOK, OrdersOK, NEW u \in Users, CanOrder(u), Insert(u, FALSE)
    PROVE  SameOrders
<1>1. /\ created + 1 \in OrderIds
      /\ orders'[created + 1] = [st |-> "open", user |-> u, promo |-> FALSE]
      /\ \A o \in OrderIds \ {created + 1} : orders'[o] = orders[o]
  <2>1. FALSE \in BOOLEAN
    OBVIOUS
  <2> QED
    BY <2>1, InsertTypes
<1>2. orders[created + 1].promo = FALSE
  <2>1. created + 1 > created
    BY IntakeAssumption DEF TypeOK
  <2>2. ~orders[created + 1].promo
    BY <1>1, <2>1 DEF OrdersOK
  <2>3. orders[created + 1].promo \in BOOLEAN
    BY <1>1 DEF TypeOK, Order
  <2> QED
    BY <2>2, <2>3
<1>3. orders'[created + 1].promo = FALSE
  BY <1>1
<1>4. ASSUME NEW o \in OrderIds
      PROVE  /\ orders'[o].promo = orders[o].promo
             /\ orders[o].promo => orders'[o].user = orders[o].user
  <2>1. CASE o = created + 1
    BY <1>2, <1>3, <2>1
  <2>2. CASE o # created + 1
    BY <1>1, <2>2
  <2> QED
    BY <2>1, <2>2
<1> QED
  BY <1>4 DEF SameOrders

\* The steps of that kind.
LEMMA QuietSteps ==
    ASSUME TypeOK, JobsOK, OrdersOK, [Next]_vars
    PROVE  \/ Quiet
           \/ \E w \in Workers :
                \/ Redeem(w) \/ TagFirst(w) \/ Cut(w) \/ ResetUse(w)
                \/ InsertOrder(w) /\ jobs[w].promo
                \/ ApplyMark(w) \/ ApplyCount(w) \/ ApplyUndo(w)
           \/ \E u \in Users : DeleteAccount(u)
           \/ DeletePromo
<1>0. /\ jobs \in [Workers -> Job] /\ orders \in [OrderIds -> Order]
      /\ \A w \in Workers : jobs[w] \in Job /\ JobShape(jobs[w])
  BY DEF TypeOK, JobsOK
<1> DEFINE Kept == /\ SameOrders /\ UNCHANGED <<accounts, usage, freed>>
                   /\ promo' = "deleted" <=> promo = "deleted"
                   /\ \/ UNCHANGED <<used, resets>>
                      \/ used' = used - 1 /\ resets' = resets + 1
<1>k. ASSUME Kept, SameJobs PROVE Quiet
  BY <1>k DEF Quiet
<1>o. ASSUME UNCHANGED <<orders, accounts, usage, freed, used, resets>>,
             promo' = "deleted" <=> promo = "deleted"
      PROVE  Kept
  BY <1>o DEF SameOrders
<1> HIDE DEF Kept
<1>p. ASSUME NEW w \in Workers, Kept, Plainly(w) PROVE Quiet
  BY <1>p, <1>k, PlainJobs
<1>n. /\ ~NoJob.promo /\ NoJob.pc = "idle" /\ NoJob \in Job
  BY NoJobType
<1>1. ASSUME NEW w \in Workers, NEW u \in Users,
             OrderBegin(w, u) \/ ApplyBegin(w, u) \/ ResetBegin(w, u)
      PROVE  Quiet
  <2>1. ~jobs[w].promo /\ ~Applies(w)
    BY <1>0, <1>1 DEF OrderBegin, ApplyBegin, ResetBegin, Idle, Applies, JobShape
  <2>2. \E pc \in {"redeem", "insert", "mark", "unuse", "decrement"} :
          \/ SetJob(w, [NoJob EXCEPT !.pc = pc, !.user = u])
          \/ SetJob(w, [NoJob EXCEPT !.pc = pc])
    BY <1>1 DEF OrderBegin, ApplyBegin, ResetBegin
  <2>3. \A pc \in {"redeem", "insert", "mark", "unuse", "decrement"} :
          /\ [NoJob EXCEPT !.pc = pc, !.user = u] \in Job
          /\ [NoJob EXCEPT !.pc = pc] \in Job
          /\ [NoJob EXCEPT !.pc = pc, !.user = u].pc = pc
          /\ [NoJob EXCEPT !.pc = pc].pc = pc
          /\ ~[NoJob EXCEPT !.pc = pc, !.user = u].promo
          /\ ~[NoJob EXCEPT !.pc = pc].promo
    BY NewJobTypes DEF NoJob, JobPcs
  <2>4. Plainly(w)
    BY <2>1, <2>2, <2>3 DEF Plainly
  <2>5. Kept
    BY <1>1, <1>o DEF OrderBegin, ApplyBegin, ResetBegin, promoVars, orderVars, historyVars
  <2> QED
    BY <2>4, <2>5, <1>p
<1>2. ASSUME NEW w \in Workers, NEW u \in Users, NEW n \in 1..MaxItems, BulkBegin(w, u, n)
      PROVE  Quiet
  <2> DEFINE job == [NoJob EXCEPT !.pc = "loop", !.user = u, !.bulk = TRUE, !.left = n]
  <2>1. ~jobs[w].promo /\ ~Applies(w) /\ SetJob(w, job)
    BY <1>0, <1>2 DEF BulkBegin, Idle, Applies, JobShape
  <2>2. job \in Job
    BY NewJobTypes
  <2>3. ~job.promo /\ job.pc = "loop"
    BY DEF NoJob
  <2>4. Plainly(w)
    BY <2>1, <2>2, <2>3 DEF Plainly
  <2>5. Kept
    BY <1>2, <1>o DEF BulkBegin, promoVars, orderVars, historyVars
  <2> QED
    BY <2>4, <2>5, <1>p
<1>3. ASSUME NEW w \in Workers, BulkItem(w) PROVE Quiet
  <2> DEFINE job == [jobs[w] EXCEPT !.left = @ - 1,
                                    !.first = IF @ = 0 THEN created + 1 ELSE @]
  <2>0. /\ jobs[w].user \in Users /\ CanOrder(jobs[w].user) /\ Insert(jobs[w].user, FALSE)
        /\ jobs[w].left > 0 /\ SetJob(w, job) /\ jobs[w].pc = "loop"
    BY <1>3, JobUser DEF BulkItem, At
  <2>1. ~jobs[w].promo /\ ~Applies(w)
    BY <1>0, <2>0 DEF Applies, JobShape
  <2>2. job.promo = jobs[w].promo /\ job.pc = jobs[w].pc
    BY <1>0 DEF Job
  <2>3. job \in Job
    <3>1. created + 1 \in OrderIds
      BY <2>0, JobUser, IntakeAssumption DEF CanOrder, TypeOK, OrderIds
    <3> QED
      BY <1>0, <2>0, <3>1, NextJobTypes
  <2> HIDE DEF job
  <2>4. Plainly(w)
    BY <2>0, <2>1, <2>2, <2>3 DEF Plainly
  <2>5. SameOrders
    BY <2>0, PlainOrder
  <2>6. Kept
    BY <1>3, <2>5 DEF BulkItem, Kept, promoVars, historyVars
  <2> QED
    BY <2>4, <2>6, <1>p
<1>4. ASSUME NEW w \in Workers,
             BulkSkip(w) \/ BulkReject(w) \/ BulkDone(w) \/ RedeemNothing(w)
      PROVE  Quiet
  <2>1. ~jobs[w].promo /\ ~Applies(w)
    BY <1>0, <1>4
       DEF BulkSkip, BulkReject, BulkDone, RedeemNothing, At, Applies, JobShape
  <2>2. \/ SetJob(w, NoJob)
        \/ \E pc \in {"redeem", "insert"} : SetJob(w, [jobs[w] EXCEPT !.pc = pc])
        \/ SetJob(w, [jobs[w] EXCEPT !.left = @ - 1]) /\ jobs[w].left > 0
    BY <1>4 DEF BulkSkip, BulkReject, BulkDone, RedeemNothing
  <2>3. ASSUME NEW pc \in {"redeem", "insert"}, SetJob(w, [jobs[w] EXCEPT !.pc = pc])
        PROVE  Plainly(w)
    <3>1. [jobs[w] EXCEPT !.pc = pc] \in Job
      BY <1>0, NextJobTypes DEF JobPcs
    <3>2. ~[jobs[w] EXCEPT !.pc = pc].promo /\ [jobs[w] EXCEPT !.pc = pc].pc = pc
      BY <1>0, <2>1, Moved DEF JobPcs
    <3> QED
      BY <2>1, <2>3, <3>1, <3>2 DEF Plainly
  <2>4. ASSUME jobs[w].left > 0, SetJob(w, [jobs[w] EXCEPT !.left = @ - 1])
        PROVE  Plainly(w)
    <3>1. [jobs[w] EXCEPT !.left = @ - 1] \in Job
      BY <1>0, <2>4, NextJobTypes
    <3>2. /\ ~[jobs[w] EXCEPT !.left = @ - 1].promo
          /\ [jobs[w] EXCEPT !.left = @ - 1].pc = jobs[w].pc
      BY <1>0, <2>1, Moved DEF JobPcs
    <3> QED
      BY <2>1, <2>4, <3>1, <3>2 DEF Plainly, Applies
  <2>5. ASSUME SetJob(w, NoJob) PROVE Plainly(w)
    BY <1>n, <2>1, <2>5 DEF Plainly
  <2>6. Plainly(w)
    BY <2>2, <2>3, <2>4, <2>5
  <2>7. Kept
    BY <1>4, <1>o DEF BulkSkip, BulkReject, BulkDone, RedeemNothing, promoVars, orderVars,
       historyVars
  <2> QED
    BY <2>6, <2>7, <1>p
<1>5. ASSUME NEW w \in Workers, InsertOrder(w), ~jobs[w].promo PROVE Quiet
  <2>0. /\ jobs[w].user \in Users /\ jobs[w].promo = FALSE
        /\ CanOrder(jobs[w].user) /\ Insert(jobs[w].user, jobs[w].promo)
    BY <1>5, JobUser DEF InsertOrder
  <2>1. Plainly(w)
    BY <1>0, <1>5, <1>n DEF InsertOrder, At, Plainly, Applies
  <2>2. SameOrders
    BY <2>0, PlainOrder
  <2>3. Kept
    BY <1>5, <2>2 DEF InsertOrder, Kept, promoVars, historyVars
  <2> QED
    BY <2>1, <2>3, <1>p
<1>6. ASSUME NEW w \in Workers, ApplyRefused(w) PROVE Quiet
  <2> DEFINE job == [jobs[w] EXCEPT !.pc = "undo"]
  <2>1. job.pc = "undo" /\ job.user = jobs[w].user /\ job.promo = jobs[w].promo
    BY <1>0 DEF Job
  <2>2. jobs[w].pc = "count" /\ jobs' = [jobs EXCEPT ![w] = job]
    BY <1>6 DEF ApplyRefused, At, SetJob
  <2> HIDE DEF job
  <2>3. ASSUME NEW v \in Workers PROVE SameDiscounts(v) /\ SameApplies(v)
    BY <1>0, <2>1, <2>2 DEF SameDiscounts, SameApplies, Applies
  <2>4. Kept
    BY <1>6, <1>o DEF ApplyRefused, promoVars, orderVars, historyVars
  <2> QED
    BY <2>3, <2>4, <1>k DEF SameJobs
<1>7. ASSUME NEW w \in Workers, ResetCount(w) PROVE Quiet
  <2>1. Plainly(w)
    BY <1>0, <1>7, <1>n DEF ResetCount, At, Plainly, Applies, JobShape
  <2>2. Kept
    BY <1>7 DEF ResetCount, Kept, SameOrders, orderVars
  <2> QED
    BY <2>1, <2>2, <1>p
<1>8. ASSUME UNCHANGED jobs PROVE SameJobs
  BY <1>8 DEF SameJobs, SameDiscounts, SameApplies, Applies
<1>9. ASSUME NEW o \in OrderIds, Settle(o) PROVE Quiet
  <2>1. \A i \in OrderIds : orders'[i].promo = orders[i].promo /\ orders'[i].user = orders[i].user
    BY <1>0, <1>9 DEF Settle, Order
  <2>2. Kept
    BY <1>9, <2>1 DEF Settle, Kept, SameOrders, promoVars, historyVars
  <2> QED
    BY <1>8, <1>9, <2>2, <1>k DEF Settle
<1>10. CASE TogglePromo
  BY <1>8, <1>10, <1>k, <1>o DEF TogglePromo, orderVars, historyVars
<1>11. CASE UNCHANGED vars
  BY <1>8, <1>11, <1>k, <1>o DEF vars
<1> QED
  BY <1>1, <1>2, <1>3, <1>4, <1>5, <1>6, <1>7, <1>9, <1>10, <1>11 DEF Next, Requests

-----------------------------------------------------------------------------
(* How many discounts there are *)

LEMMA CardGrows ==
    ASSUME NEW S, NEW T, NEW x, IsFiniteSet(S), T \subseteq S \cup {x}
    PROVE  Cardinality(T) <= Cardinality(S) + 1
<1>1. IsFiniteSet(S \cup {x}) /\ Cardinality(S \cup {x}) <= Cardinality(S) + 1
  <2>1. /\ IsFiniteSet(S \cup {x})
        /\ Cardinality(S \cup {x}) = IF x \in S THEN Cardinality(S) ELSE Cardinality(S) + 1
    BY FS_AddElement
  <2>2. Cardinality(S) \in Nat
    BY FS_CardinalityType
  <2> QED
    BY <2>1, <2>2
<1>2. Cardinality(T) <= Cardinality(S \cup {x})
  BY <1>1, FS_Subset
<1>3. Cardinality(T) \in Nat /\ Cardinality(S \cup {x}) \in Nat /\ Cardinality(S) \in Nat
  BY <1>1, FS_Subset, FS_CardinalityType
<1> QED
  BY <1>1, <1>2, <1>3

LEMMA CardDrops ==
    ASSUME NEW S, NEW T, NEW x \in S, IsFiniteSet(S), T \subseteq S \ {x}
    PROVE  Cardinality(T) <= Cardinality(S) - 1
<1>1. IsFiniteSet(S \ {x}) /\ Cardinality(S \ {x}) = Cardinality(S) - 1
  BY FS_RemoveElement
<1> QED
  BY <1>1, FS_Subset

\* The sets that are counted are finite.
LEMMA Counted ==
    ASSUME TypeOK
    PROVE  /\ IsFiniteSet(OrderIds)
           /\ IsFiniteSet(Discounted) /\ Cardinality(Discounted) \in Nat
           /\ IsFiniteSet(Pending) /\ Cardinality(Pending) \in Nat
           /\ IsFiniteSet(Taken) /\ Cardinality(Taken) \in Nat
           /\ IsFiniteSet(Applicants) /\ Cardinality(Applicants) \in Nat
           /\ used \in Int /\ resets \in Nat
<1>1. IsFiniteSet(OrderIds) /\ IsFiniteSet(Workers) /\ IsFiniteSet(Users)
  BY FS_Interval, IntakeAssumption DEF OrderIds
<1>2. /\ Discounted \subseteq OrderIds /\ Pending \subseteq Workers
      /\ Taken \subseteq Users /\ Applicants \subseteq Workers
  BY DEF Discounted, Pending, Taken, Applicants
<1>3. /\ IsFiniteSet(Discounted) /\ IsFiniteSet(Pending)
      /\ IsFiniteSet(Taken) /\ IsFiniteSet(Applicants)
  BY <1>1, <1>2, FS_Subset
<1>4. used \in Int /\ resets \in Nat
  BY IntakeAssumption DEF TypeOK
<1> QED
  BY <1>1, <1>3, <1>4, FS_CardinalityType

\* What a step may do to the discounts and to the counter.
NoMore ==
    /\ Discounted' \subseteq Discounted /\ Pending' \subseteq Pending
    /\ used' + resets' >= used + resets
OneRedeemed(w) ==
    /\ Discounted' \subseteq Discounted /\ Pending' \subseteq Pending \cup {w}
    /\ used' + resets' >= used + resets + 1
OneWritten(o, w) ==
    /\ w \in Pending /\ Pending' \subseteq Pending \ {w}
    /\ Discounted' \subseteq Discounted \cup {o}
    /\ used' + resets' >= used + resets

LEMMA CounterStays ==
    ASSUME TypeOK, TypeOK', CounterOK,
           \/ NoMore
           \/ \E w \in Workers : OneRedeemed(w)
           \/ \E o \in OrderIds, w \in Workers : OneWritten(o, w)
    PROVE  CounterOK'
<1> DEFINE d == Cardinality(Discounted)
           p == Cardinality(Pending)
<1>1. /\ IsFiniteSet(Discounted) /\ IsFiniteSet(Pending)
      /\ d \in Nat /\ p \in Nat /\ used \in Int /\ resets \in Nat
  BY Counted
<1>2. /\ d' \in Nat /\ p' \in Nat /\ used' \in Int /\ resets' \in Nat
  <2>1. TypeOK => d \in Nat /\ p \in Nat /\ used \in Int /\ resets \in Nat
    BY Counted
  <2>2. TypeOK' => (d \in Nat /\ p \in Nat /\ used \in Int /\ resets \in Nat)'
    BY Counted, PTL
  <2> QED
    BY <2>2
<1>3. PICK i \in Int, j \in Int, m \in Int, n \in Int :
         d = i /\ p = j /\ used = m /\ resets = n
  BY <1>1
<1>4. PICK k \in Int, l \in Int, r \in Int, s \in Int :
         d' = k /\ p' = l /\ used' = r /\ resets' = s
  BY <1>2
<1>5. i + j <= m + n
  BY <1>3 DEF CounterOK
<1> SUFFICES k + l <= r + s
  BY <1>4 DEF CounterOK
<1>6. CASE NoMore
  <2>1. k <= i /\ l <= j
    BY <1>1, <1>3, <1>4, <1>6, FS_Subset DEF NoMore
  <2>2. r + s >= m + n
    BY <1>3, <1>4, <1>6 DEF NoMore
  <2> QED
    BY <1>5, <2>1, <2>2
<1>7. ASSUME NEW w \in Workers, OneRedeemed(w) PROVE k + l <= r + s
  <2>1. k <= i
    BY <1>1, <1>3, <1>4, <1>7, FS_Subset DEF OneRedeemed
  <2>2. l <= j + 1
    BY <1>1, <1>3, <1>4, <1>7, CardGrows DEF OneRedeemed
  <2>3. r + s >= m + n + 1
    BY <1>3, <1>4, <1>7 DEF OneRedeemed
  <2> QED
    BY <1>5, <2>1, <2>2, <2>3
<1>8. ASSUME NEW o \in OrderIds, NEW w \in Workers, OneWritten(o, w)
      PROVE  k + l <= r + s
  <2>1. k <= i + 1
    BY <1>1, <1>3, <1>4, <1>8, CardGrows DEF OneWritten
  <2>2. l <= j - 1
    BY <1>1, <1>3, <1>4, <1>8, CardDrops DEF OneWritten
  <2>3. r + s >= m + n
    BY <1>3, <1>4, <1>8 DEF OneWritten
  <2> QED
    BY <1>5, <2>1, <2>2, <2>3
<1> QED
  BY <1>6, <1>7, <1>8

\* What a step may do to the uses, and to the requests that stand between a use
\* and the counter.
UsesKept == Taken' \subseteq Taken /\ Applicants \subseteq Applicants' /\ used' = used
UseCounted(u) ==
    Taken' \subseteq Taken \cup {u} /\ Applicants \subseteq Applicants' /\ used' = used + 1
UseMade(u, w) ==
    /\ Taken' \subseteq Taken \cup {u} /\ used' = used
    /\ w \in Applicants' /\ Applicants \subseteq Applicants' \ {w}
UseSeen(w) ==
    Taken' \subseteq Taken /\ Applicants \subseteq Applicants' \cup {w} /\ used' = used + 1
UseGone(u, w) ==
    /\ u \in Taken /\ Taken' \subseteq Taken \ {u} /\ used' = used
    /\ Applicants \subseteq Applicants' \cup {w}
NoUses == Taken' = {} /\ used' = used

LEMMA CountStays ==
    ASSUME TypeOK, TypeOK', CountOK, resets = 0, freed = {},
           \/ UsesKept
           \/ \E u \in Users : UseCounted(u)
           \/ \E u \in Users, w \in Workers : UseMade(u, w) \/ UseGone(u, w)
           \/ \E w \in Workers : UseSeen(w)
           \/ NoUses
    PROVE  CountOK'
<1> DEFINE t == Cardinality(Taken)
           a == Cardinality(Applicants)
<1>1. /\ IsFiniteSet(Taken) /\ IsFiniteSet(Applicants)
      /\ t \in Nat /\ a \in Nat /\ used \in Int
  BY Counted
<1>2. IsFiniteSet(Applicants') /\ t' \in Nat /\ a' \in Nat /\ used' \in Int
  <2>1. TypeOK' => (IsFiniteSet(Applicants) /\ t \in Nat /\ a \in Nat /\ used \in Int)'
    BY Counted, PTL
  <2> QED
    BY <2>1
<1>3. t <= used + a /\ used >= 0
  BY DEF CountOK
<1> SUFFICES t' <= used' + a' /\ used' >= 0
  BY DEF CountOK
<1>4. CASE UsesKept
  <2>1. t' <= t /\ a <= a'
    BY <1>1, <1>2, <1>4, FS_Subset DEF UsesKept
  <2> QED
    BY <1>1, <1>2, <1>3, <1>4, <2>1 DEF UsesKept
<1>5. ASSUME NEW u \in Users, UseCounted(u) PROVE t' <= used' + a' /\ used' >= 0
  <2>1. t' <= t + 1 /\ a <= a'
    BY <1>1, <1>2, <1>5, FS_Subset, CardGrows DEF UseCounted
  <2> QED
    BY <1>1, <1>2, <1>3, <1>5, <2>1 DEF UseCounted
<1>6. ASSUME NEW u \in Users, NEW w \in Workers, UseMade(u, w)
      PROVE  t' <= used' + a' /\ used' >= 0
  <2>1. t' <= t + 1 /\ a <= a' - 1
    BY <1>1, <1>2, <1>6, CardGrows, CardDrops DEF UseMade
  <2> QED
    BY <1>1, <1>2, <1>3, <1>6, <2>1 DEF UseMade
<1>7. ASSUME NEW u \in Users, NEW w \in Workers, UseGone(u, w)
      PROVE  t' <= used' + a' /\ used' >= 0
  <2>1. t' <= t - 1 /\ a <= a' + 1
    BY <1>1, <1>2, <1>7, CardGrows, CardDrops DEF UseGone
  <2> QED
    BY <1>1, <1>2, <1>3, <1>7, <2>1 DEF UseGone
<1>8. ASSUME NEW w \in Workers, UseSeen(w) PROVE t' <= used' + a' /\ used' >= 0
  <2>1. t' <= t /\ a <= a' + 1
    BY <1>1, <1>2, <1>8, FS_Subset, CardGrows DEF UseSeen
  <2> QED
    BY <1>1, <1>2, <1>3, <1>8, <2>1 DEF UseSeen
<1>9. CASE NoUses
  <2>1. t' = 0
    BY <1>9, FS_EmptySet DEF NoUses
  <2> QED
    BY <1>2, <1>3, <1>9, <2>1 DEF NoUses
<1> QED
  BY <1>4, <1>5, <1>6, <1>7, <1>8, <1>9

-----------------------------------------------------------------------------
(* What customers have *)

\* The step gives customer u no discount and no request of /promo/apply.
NoNewDiscount(u) ==
    /\ \A o \in OrderIds : Has(o, u)' => Has(o, u)
    /\ \A w \in Workers : Takes(w, u)' => Takes(w, u)
NoNewApplies(u) == \A w \in Workers : AppliesFor(w, u)' => AppliesFor(w, u)

LEMMA OneEachStays ==
    ASSUME NEW u \in Users, OneEach(u), NoNewDiscount(u), Usable(u)' => Usable(u)
    PROVE  OneEach(u)'
BY DEF OneEach, NoNewDiscount

LEMMA OneAppliesStays ==
    ASSUME NEW u \in Users, OneApplies(u), NoNewApplies(u), Alive(u)' => Alive(u),
           \/ usage'[u] = usage[u]
           \/ \A w \in Workers : ~AppliesFor(w, u)'
    PROVE  OneApplies(u)'
BY DEF OneApplies, NoNewApplies

\* A step that keeps customer u's discounts, use and account as they are.
LEMMA CustomerStays ==
    ASSUME NEW u \in Users, OneEach(u), OneApplies(u), NoNewDiscount(u), NoNewApplies(u),
           usage'[u] = usage[u], Alive(u)' => Alive(u)
    PROVE  OneEach(u)' /\ OneApplies(u)'
<1>1. Usable(u)' => Usable(u)
  BY DEF Usable
<1> QED
  BY <1>1, OneEachStays, OneAppliesStays

LEMMA OthersStay ==
    ASSUME TypeOK, NEW w \in Workers, NEW job, SetJob(w, job)
    PROVE  jobs'[w] = job /\ \A v \in Workers \ {w} : jobs'[v] = jobs[v]
BY DEF TypeOK, SetJob

\* A request ends its part in the discounts and the uses.
Leaves(w) ==
    /\ ~jobs'[w].promo /\ jobs'[w].pc \notin {"count", "undo"}
    /\ \A v \in Workers \ {w} : jobs'[v] = jobs[v]

LEMMA Left ==
    ASSUME NEW w \in Workers, Leaves(w)
    PROVE  /\ Pending' = Pending \ {w}
           /\ \A u \in Users : NoNewApplies(u) /\ ~AppliesFor(w, u)'
           /\ \A u \in Users, v \in Workers : Takes(v, u)' <=> Takes(v, u) /\ v # w
           /\ \A v \in Workers : Applies(v)' <=> Applies(v) /\ v # w
<1>1. \A v \in Workers : jobs'[v].promo <=> jobs[v].promo /\ v # w
  BY DEF Leaves
<1>2. \A v \in Workers : Applies(v)' <=> Applies(v) /\ v # w
  BY DEF Leaves, Applies
<1>3. \A u \in Users, v \in Workers : Takes(v, u)' <=> Takes(v, u) /\ v # w
  BY DEF Leaves, Takes
<1>4. \A u \in Users : NoNewApplies(u) /\ ~AppliesFor(w, u)'
  BY <1>2 DEF Leaves, NoNewApplies, AppliesFor
<1> QED
  BY <1>1, <1>2, <1>3, <1>4 DEF Pending

LEMMA QuietKeeps ==
    ASSUME TypeOK, TypeOK', UseInv, Quiet
    PROVE  UseInv'
<1>1. \A u \in Users, o \in OrderIds : Has(o, u)' <=> Has(o, u)
  BY DEF Quiet, SameOrders, Has
<1>2. \A u \in Users, w \in Workers : Takes(w, u)' <=> Takes(w, u)
  BY DEF Quiet, SameJobs, SameDiscounts, Takes
<1>3. \A w \in Workers : /\ Applies(w)' <=> Applies(w)
                         /\ Applies(w) => jobs'[w].user = jobs[w].user
  BY DEF Quiet, SameJobs, SameApplies, Applies
<1>4. \A u \in Users : /\ NoNewDiscount(u) /\ NoNewApplies(u)
                       /\ Alive(u)' => Alive(u)
  BY <1>1, <1>2, <1>3 DEF NoNewDiscount, NoNewApplies, AppliesFor, Alive, Quiet
<1>5. CustomersOK'
  <2>1. ASSUME NEW u \in Users \ freed PROVE OneEach(u)' /\ OneApplies(u)'
    <3>1. OneEach(u) /\ OneApplies(u) /\ usage'[u] = usage[u]
      BY DEF UseInv, CustomersOK, Quiet
    <3> QED
      BY <1>4, <3>1, CustomerStays
  <2>2. freed' = freed
    BY DEF Quiet
  <2> QED
    BY <2>1, <2>2 DEF CustomersOK
<1>6. UsesOK'
  BY DEF Quiet, UseInv, UsesOK
<1>7. RedeemedOK'
  <2>1. \A u \in Users : Discount(u) => Discount(u)'
    BY <1>1, <1>2 DEF Discount
  <2> QED
    BY <2>1 DEF Quiet, UseInv, RedeemedOK
<1>8. Discounted' = Discounted /\ Pending' = Pending
  BY DEF Quiet, SameOrders, SameJobs, SameDiscounts, Discounted, Pending
<1>9. Taken' = Taken /\ Applicants' = Applicants
  BY <1>3 DEF Quiet, Taken, Applicants
<1>10. used \in Int /\ resets \in Nat
  BY Counted
<1>11. CounterOK'
  <2>1. used' + resets' >= used + resets
    BY <1>10 DEF Quiet
  <2> QED
    BY <1>8, <2>1, CounterStays DEF NoMore, UseInv
<1>12. CountOK'
  <2>1. ASSUME resets' = 0, freed' = {} PROVE CountOK'
    <3>1. used' = used /\ resets = 0 /\ freed = {}
      BY <1>10, <2>1 DEF Quiet
    <3> QED
      BY <1>9, <3>1, CountStays DEF UsesKept, UseInv
  <2> QED
    BY <2>1 DEF CountOK
<1> QED
  BY <1>5, <1>6, <1>7, <1>11, <1>12 DEF UseInv

-----------------------------------------------------------------------------
(* The steps that touch them *)

\* Where nothing was reset, the requests of /promo/apply that count are one for
\* each customer.
LEMMA OneApplicant ==
    ASSUME UseInv, freed = {}, NEW v \in Applicants, NEW w \in Workers,
           jobs[v].user \in Users, AppliesFor(w, jobs[v].user)
    PROVE  v = w
<1>1. v \in Workers /\ AppliesFor(v, jobs[v].user) /\ usage[jobs[v].user] # "none"
  BY DEF Applicants, AppliesFor
<1>2. Alive(jobs[v].user) /\ OneApplies(jobs[v].user)
  BY <1>1 DEF UseInv, UsesOK, CustomersOK, Alive
<1> QED
  BY <1>1, <1>2 DEF OneApplies

LEMMA ApplicantUser ==
    ASSUME JobsOK, NEW w \in Workers, Applies(w)
    PROVE  jobs[w].user \in Users
BY DEF JobsOK, JobShape, Applies

LEMMA RedeemKeeps ==
    ASSUME TypeOK, TypeOK', JobsOK, UseInv,
           NEW w \in Workers, NEW u \in Users, jobs[w].user = u, Redeem(w)
    PROVE  UseInv'
<1> DEFINE job == [jobs[w] EXCEPT !.pc = IF jobs[w].bulk THEN "tag" ELSE "insert",
                                  !.promo = TRUE]
<1>0. /\ jobs[w].pc = "redeem" /\ jobs[w] \in Job /\ ~jobs[w].promo
      /\ u \in Users /\ usage \in [Users -> {"none", "redeemed", "applied", "cut"}]
  BY DEF Redeem, At, TypeOK, JobsOK, JobShape
<1>1. /\ promo = "open" /\ CanUse(u) /\ usage' = [usage EXCEPT ![u] = "redeemed"]
      /\ used' = used + 1 /\ SetJob(w, job)
      /\ UNCHANGED <<accounts, promo, orders, created, resets, freed>>
  BY DEF Redeem, SetUse, orderVars, historyVars
<1>2. job.promo /\ job.user = u /\ job.pc \in {"insert", "tag"}
  BY <1>0 DEF Job
<1>3. jobs'[w] = job /\ \A v \in Workers \ {w} : jobs'[v] = jobs[v]
  BY <1>1, OthersStay
<1> HIDE DEF job
<1>4. \A x \in Users, v \in Workers : Takes(v, x)' <=> Takes(v, x) \/ (v = w /\ x = u)
  BY <1>0, <1>2, <1>3 DEF Takes
<1>5. \A x \in Users, o \in OrderIds : Has(o, x)' <=> Has(o, x)
  BY <1>1 DEF Has
<1>6. \A v \in Workers : /\ Applies(v)' <=> Applies(v)
                         /\ Applies(v) => jobs'[v].user = jobs[v].user
  BY <1>0, <1>2, <1>3 DEF Applies
<1>7. /\ usage'[u] = "redeemed" /\ usage[u] = "none" /\ Alive(u)
      /\ \A x \in Users \ {u} : usage'[x] = usage[x]
  BY <1>0, <1>1 DEF CanUse, Alive
<1>8. CustomersOK'
  <2>1. ASSUME NEW x \in Users \ freed PROVE OneEach(x)' /\ OneApplies(x)'
    <3>0. OneEach(x) /\ OneApplies(x) /\ NoNewApplies(x) /\ (Alive(x)' <=> Alive(x))
      BY <1>1, <1>6 DEF UseInv, CustomersOK, NoNewApplies, AppliesFor, Alive
    <3>1. CASE x # u
      <4>1. NoNewDiscount(x)
        BY <1>4, <1>5, <3>1 DEF NoNewDiscount
      <4> QED
        BY <1>7, <3>0, <3>1, <4>1, CustomerStays
    <3>2. CASE x = u
      <4>1. Usable(u) /\ ~Usable(u)'
        BY <1>7 DEF Usable
      <4>2. /\ \A o \in OrderIds : ~Has(o, u)
            /\ \A v \in Workers : ~Takes(v, u)
        BY <3>0, <3>2, <4>1 DEF OneEach
      <4>3. OneEach(u)'
        BY <1>0, <1>4, <1>5, <4>1, <4>2 DEF OneEach
      <4>4. \A v \in Workers : ~AppliesFor(v, u)
        BY <1>7, <3>0, <3>2 DEF OneApplies
      <4>5. \A v \in Workers : ~AppliesFor(v, u)'
        BY <1>6, <4>4 DEF AppliesFor
      <4>6. OneApplies(u)'
        BY <4>5 DEF OneApplies
      <4> QED
        BY <3>2, <4>3, <4>6
    <3> QED
      BY <3>1, <3>2
  <2> QED
    BY <1>1, <2>1 DEF CustomersOK
<1>9. UsesOK'
  BY <1>1, <1>7 DEF UseInv, UsesOK, Alive
<1>10. RedeemedOK'
  <2>1. Discount(u)'
    BY <1>0, <1>4 DEF Discount
  <2>2. \A x \in Users : Discount(x) => Discount(x)'
    BY <1>4, <1>5 DEF Discount
  <2> QED
    BY <1>7, <2>1, <2>2 DEF UseInv, RedeemedOK
<1>11. used \in Int /\ resets \in Nat
  BY Counted
<1>12. CounterOK'
  <2>1. Discounted' = Discounted /\ Pending' \subseteq Pending \cup {w}
    BY <1>1, <1>3 DEF Discounted, Pending
  <2>2. used' + resets' >= used + resets + 1
    BY <1>1, <1>11
  <2> QED
    BY <2>1, <2>2, CounterStays DEF OneRedeemed, UseInv
<1>13. CountOK'
  <2>1. Taken' \subseteq Taken \cup {u}
    BY <1>7 DEF Taken
  <2>2. Applicants \subseteq Applicants'
    <3>1. ASSUME NEW v \in Applicants PROVE v \in Applicants'
      <4>1. /\ v \in Workers /\ Applies(v) /\ usage[jobs[v].user] = "applied"
        BY DEF Applicants
      <4>2. jobs[v].user \in Users
        BY <4>1, ApplicantUser
      <4>3. usage'[jobs'[v].user] = "applied"
        BY <1>6, <1>7, <4>1, <4>2
      <4> QED
        BY <1>6, <4>1, <4>3 DEF Applicants
    <3> QED
      BY <3>1
  <2>3. ASSUME resets' = 0, freed' = {} PROVE CountOK'
    BY <1>0, <1>1, <2>1, <2>2, <2>3, CountStays DEF UseCounted, UseInv
  <2> QED
    BY <2>3 DEF CountOK
<1> QED
  BY <1>8, <1>9, <1>10, <1>12, <1>13 DEF UseInv

\* InsertOrder and TagFirst: a request's discount becomes its order's.
Written(w, o, u) ==
    /\ jobs[w].promo /\ jobs[w].user = u /\ Leaves(w)
    /\ orders'[o].promo /\ orders'[o].user = u
    /\ \A i \in OrderIds \ {o} : orders'[i] = orders[i]
    /\ UNCHANGED <<accounts, promo, used, usage, resets, freed>>

LEMMA WrittenKeeps ==
    ASSUME TypeOK, TypeOK', JobsOK, UseInv,
           NEW w \in Workers, NEW o \in OrderIds, NEW u \in Users, Written(w, o, u),
           ~orders[o].promo \/ orders[o].user = u
    PROVE  UseInv'
<1>1. \A x \in Users, v \in Workers : Takes(v, x)' <=> Takes(v, x) /\ v # w
  BY Left DEF Written
<1>2. \A x \in Users, i \in OrderIds : Has(i, x)' <=> Has(i, x) \/ (i = o /\ x = u)
  BY DEF Written, Has
<1>3. Takes(w, u) /\ jobs[w].pc \in {"insert", "tag"}
  BY DEF Written, Takes, JobsOK, JobShape
<1>4. CustomersOK'
  <2>1. ASSUME NEW x \in Users \ freed PROVE OneEach(x)' /\ OneApplies(x)'
    <3>0. /\ OneEach(x) /\ OneApplies(x) /\ NoNewApplies(x)
          /\ Alive(x)' <=> Alive(x)
          /\ usage'[x] = usage[x]
      BY Left DEF Written, UseInv, CustomersOK, Alive
    <3>1. CASE x # u
      <4>1. NoNewDiscount(x)
        BY <1>1, <1>2, <3>1 DEF NoNewDiscount
      <4> QED
        BY <3>0, <4>1, CustomerStays
    <3>2. CASE x = u
      <4>1. ~Usable(u) /\ ~Usable(u)'
        BY <1>3, <3>0, <3>2 DEF OneEach, Usable
      <4>2. /\ \A i \in OrderIds : ~Has(i, u)
            /\ \A v \in Workers : Takes(v, u) => v = w
        BY <1>3, <3>0, <3>2 DEF OneEach
      <4>3. OneEach(u)'
        BY <1>1, <1>2, <4>1, <4>2 DEF OneEach
      <4>4. OneApplies(u)'
        BY <3>0, <3>2, OneAppliesStays
      <4> QED
        BY <3>2, <4>3, <4>4
    <3> QED
      BY <3>1, <3>2
  <2> QED
    BY <2>1 DEF CustomersOK, Written
<1>5. UsesOK'
  BY DEF Written, UseInv, UsesOK
<1>6. RedeemedOK'
  <2>1. Discount(u)'
    BY <1>2 DEF Discount
  <2>2. \A x \in Users \ {u} : Discount(x) => Discount(x)'
    BY <1>1, <1>2, <1>3 DEF Discount, Takes
  <2> QED
    BY <2>1, <2>2 DEF UseInv, RedeemedOK, Written
<1>7. CounterOK'
  <2>1. Discounted' \subseteq Discounted \cup {o}
    BY DEF Discounted, Written
  <2>2. w \in Pending /\ Pending' \subseteq Pending \ {w}
    BY Left DEF Written, Pending
  <2>3. used' + resets' >= used + resets
    BY Counted DEF Written
  <2> QED
    BY <2>1, <2>2, <2>3, CounterStays DEF OneWritten, UseInv
<1>8. CountOK'
  <2>1. Taken' = Taken
    BY DEF Taken, Written
  <2>2. Applicants \subseteq Applicants'
    BY <1>3, Left DEF Applicants, Applies, Leaves, Written
  <2>3. ASSUME resets' = 0, freed' = {} PROVE CountOK'
    BY <2>1, <2>2, <2>3, CountStays DEF UsesKept, UseInv, Written
  <2> QED
    BY <2>3 DEF CountOK
<1> QED
  BY <1>4, <1>5, <1>6, <1>7, <1>8 DEF UseInv

LEMMA InsertKeeps ==
    ASSUME TypeOK, TypeOK', JobsOK, OrdersOK, UseInv,
           NEW w \in Workers, InsertOrder(w), jobs[w].promo
    PROVE  UseInv'
<1> DEFINE u == jobs[w].user
<1>1. u \in Users /\ CanOrder(u) /\ Insert(u, jobs[w].promo) /\ jobs[w].promo \in BOOLEAN
  BY JobUser DEF InsertOrder
<1>2. /\ created + 1 \in OrderIds
      /\ orders'[created + 1] = [st |-> "open", user |-> u, promo |-> jobs[w].promo]
      /\ \A i \in OrderIds \ {created + 1} : orders'[i] = orders[i]
  BY <1>1, InsertTypes
<1>3. Leaves(w)
  BY OthersStay, NoJobType DEF InsertOrder, Leaves
<1>4. UNCHANGED <<accounts, promo, used, usage, resets, freed>>
  BY DEF InsertOrder, promoVars, historyVars
<1>5. Written(w, created + 1, u)
  BY <1>2, <1>3, <1>4 DEF Written
<1>6. ~orders[created + 1].promo
  <2>1. created + 1 > created
    BY IntakeAssumption DEF TypeOK
  <2> QED
    BY <1>2, <2>1 DEF OrdersOK
<1> QED
  BY <1>1, <1>2, <1>5, <1>6, WrittenKeeps

LEMMA TagKeeps ==
    ASSUME TypeOK, TypeOK', JobsOK, UseInv, NEW w \in Workers, TagFirst(w)
    PROVE  UseInv'
<1> DEFINE u == jobs[w].user
           o == jobs[w].first
<1>1. /\ jobs[w].promo /\ u \in Users /\ o \in OrderIds /\ orders[o].user = u
  BY DEF TagFirst, At, JobsOK, JobShape, FirstOK, TypeOK, Job
<1>2. /\ orders'[o].promo /\ orders'[o].user = u
      /\ \A i \in OrderIds \ {o} : orders'[i] = orders[i]
  BY <1>1 DEF TagFirst, TypeOK, Order
<1>3. Leaves(w)
  BY OthersStay, NoJobType DEF TagFirst, Leaves
<1>4. UNCHANGED <<accounts, promo, used, usage, resets, freed>>
  BY DEF TagFirst, promoVars, historyVars
<1>5. Written(w, o, u)
  BY <1>1, <1>2, <1>3, <1>4 DEF Written
<1> QED
  BY <1>1, <1>5, WrittenKeeps

\* Customer u's use goes or stops counting, and with it the request that stands
\* between the use and the counter.
LEMMA UseGoes ==
    ASSUME JobsOK, UseInv, freed = {}, NEW u \in Users, used' = used,
           usage'[u] \notin {"redeemed", "applied"},
           \A x \in Users \ {u} : usage'[x] = usage[x],
           \A v \in Applicants : jobs[v].user # u => Applies(v)' /\ jobs'[v].user = jobs[v].user
    PROVE  UsesKept \/ \E w \in Workers : UseGone(u, w)
<1>1. Taken' \subseteq Taken \ {u}
  BY DEF Taken
<1>2. ASSUME NEW v \in Applicants, jobs[v].user # u PROVE v \in Applicants'
  <2>1. v \in Workers /\ Applies(v) /\ usage[jobs[v].user] = "applied"
    BY DEF Applicants
  <2>2. jobs[v].user \in Users \ {u}
    BY <1>2, <2>1, ApplicantUser
  <2>3. usage'[jobs'[v].user] = "applied" /\ Applies(v)'
    BY <1>2, <2>1, <2>2
  <2> QED
    BY <2>1, <2>3 DEF Applicants
<1>3. CASE \E w \in Applicants : jobs[w].user = u
  <2>1. PICK w \in Applicants : jobs[w].user = u
    BY <1>3
  <2>2. w \in Workers /\ Applies(w) /\ usage[u] = "applied"
    BY <2>1 DEF Applicants
  <2>3. u \in Taken
    BY <2>2 DEF Taken
  <2>4. ASSUME NEW v \in Applicants, jobs[v].user = u PROVE v = w
    BY <2>1, <2>2, <2>4, OneApplicant DEF AppliesFor
  <2>5. Applicants \subseteq Applicants' \cup {w}
    BY <1>2, <2>4
  <2> QED
    BY <1>1, <2>2, <2>3, <2>5 DEF UseGone
<1>4. CASE ~\E w \in Applicants : jobs[w].user = u
  BY <1>1, <1>2, <1>4 DEF UsesKept
<1> QED
  BY <1>3, <1>4

LEMMA CutKeeps ==
    ASSUME TypeOK, TypeOK', JobsOK, UseInv, NEW w \in Workers, Cut(w)
    PROVE  UseInv'
<1> DEFINE Marked(x) == /\ x = jobs[w].user /\ usage[x] # "none"
                        /\ jobs[w].promo \/ Applies(w)
<1>1. /\ Leaves(w)
      /\ UNCHANGED <<accounts, promo, used, orders, resets, freed>>
  BY OthersStay, NoJobType DEF Cut, Leaves, orderVars, historyVars
<1>2. \A x \in Users : usage'[x] = IF Marked(x) THEN "cut" ELSE usage[x]
  BY DEF Cut, Applies
<1>3. \A x \in Users, v \in Workers : Takes(v, x)' <=> Takes(v, x) /\ v # w
  BY <1>1, Left
<1>4. \A x \in Users, o \in OrderIds : Has(o, x)' <=> Has(o, x)
  BY <1>1 DEF Has
<1>5. CustomersOK'
  <2>1. ASSUME NEW x \in Users \ freed PROVE OneEach(x)' /\ OneApplies(x)'
    <3>1. OneEach(x) /\ OneApplies(x) /\ NoNewDiscount(x) /\ NoNewApplies(x)
      BY <1>1, <1>3, <1>4, Left DEF UseInv, CustomersOK, NoNewDiscount
    <3>2. Alive(x)' <=> Alive(x)
      BY <1>1 DEF Alive
    <3>3. Usable(x)' => Usable(x)
      BY <1>2, <3>2 DEF Usable
    <3>4. OneEach(x)'
      BY <3>1, <3>3, OneEachStays
    <3>5. CASE ~Marked(x)
      <4>1. usage'[x] = usage[x]
        BY <1>2, <3>5
      <4> QED
        BY <3>1, <3>2, <3>4, <4>1, OneAppliesStays
    <3>6. CASE Marked(x) /\ Alive(x)
      <4>1. ASSUME NEW v \in Workers, AppliesFor(v, x)' PROVE FALSE
        <5>1. AppliesFor(v, x) /\ v # w
          BY <1>1, <3>1, <4>1, Left DEF NoNewApplies
        <5>2. usage[x] = "applied"
          BY <3>1, <3>6, <5>1 DEF OneApplies
        <5>3. ~Takes(w, x)
          BY <3>1, <3>6, <5>2 DEF OneEach, Usable
        <5>4. AppliesFor(w, x)
          BY <3>6, <5>3 DEF Takes, AppliesFor
        <5> QED
          BY <3>1, <3>6, <5>1, <5>4 DEF OneApplies
      <4>2. OneApplies(x)'
        BY <4>1 DEF OneApplies
      <4> QED
        BY <3>4, <4>2
    <3>7. CASE ~Alive(x)
      <4>1. OneApplies(x)'
        BY <3>2, <3>7 DEF OneApplies
      <4> QED
        BY <3>4, <4>1
    <3> QED
      BY <3>4, <3>5, <3>6, <3>7
  <2> QED
    BY <1>1, <2>1 DEF CustomersOK
<1>6. UsesOK'
  BY <1>1, <1>2 DEF UseInv, UsesOK
<1>7. RedeemedOK'
  <2>1. ASSUME NEW x \in Users, usage'[x] = "redeemed" PROVE Discount(x)'
    <3>1. usage[x] = "redeemed" /\ ~Marked(x)
      BY <1>2, <2>1
    <3>2. ~Takes(w, x)
      BY <3>1 DEF Takes
    <3>3. Discount(x)
      BY <3>1 DEF UseInv, RedeemedOK
    <3> QED
      BY <1>3, <1>4, <3>2, <3>3 DEF Discount
  <2> QED
    BY <2>1 DEF RedeemedOK
<1>8. CounterOK'
  <2>1. Discounted' = Discounted /\ Pending' \subseteq Pending
    BY <1>1, Left DEF Discounted
  <2>2. used' + resets' >= used + resets
    BY <1>1, Counted
  <2> QED
    BY <2>1, <2>2, CounterStays DEF NoMore, UseInv
<1>9. CountOK'
  <2>1. ASSUME resets' = 0, freed' = {} PROVE CountOK'
    <3>0. resets = 0 /\ freed = {}
      BY <1>1, <2>1
    <3>1. \A v \in Workers \ {w} : Applies(v) => Applies(v)' /\ jobs'[v].user = jobs[v].user
      BY <1>1 DEF Leaves, Applies
    <3>2. CASE jobs[w].user \in Users /\ Marked(jobs[w].user)
      <4>1. PICK u \in Users : u = jobs[w].user
        BY <3>2
      <4>2. usage'[u] = "cut" /\ \A x \in Users \ {u} : usage'[x] = usage[x]
        BY <1>2, <3>2, <4>1
      <4>3. \A v \in Applicants : jobs[v].user # u => Applies(v)' /\ jobs'[v].user = jobs[v].user
        BY <3>1, <4>1 DEF Applicants
      <4>4. UsesKept \/ \E v \in Workers : UseGone(u, v)
        BY <1>1, <3>0, <4>2, <4>3, UseGoes
      <4> QED
        BY <3>0, <4>4, CountStays DEF UseInv
    <3>3. CASE ~(jobs[w].user \in Users /\ Marked(jobs[w].user))
      <4>1. \A x \in Users : usage'[x] = usage[x]
        BY <1>2, <3>3
      <4>2. w \notin Applicants
        BY <3>3, ApplicantUser DEF Applicants
      <4>3. ASSUME NEW v \in Applicants PROVE v \in Applicants'
        <5>1. v \in Workers \ {w} /\ Applies(v) /\ usage[jobs[v].user] = "applied"
          BY <4>2 DEF Applicants
        <5>2. jobs[v].user \in Users
          BY <5>1, ApplicantUser
        <5>3. Applies(v)' /\ jobs'[v].user = jobs[v].user
          BY <3>1, <5>1
        <5>4. usage'[jobs'[v].user] = "applied"
          BY <4>1, <5>1, <5>2, <5>3
        <5> QED
          BY <5>1, <5>3, <5>4 DEF Applicants
      <4>4. Taken' = Taken
        BY <4>1 DEF Taken
      <4>5. UsesKept
        BY <1>1, <4>3, <4>4 DEF UsesKept
      <4> QED
        BY <3>0, <4>5, CountStays DEF UseInv
    <3> QED
      BY <3>2, <3>3
  <2> QED
    BY <2>1 DEF CountOK
<1> QED
  BY <1>5, <1>6, <1>7, <1>8, <1>9 DEF UseInv

LEMMA MarkKeeps ==
    ASSUME TypeOK, TypeOK', JobsOK, UseInv,
           NEW w \in Workers, NEW u \in Users, jobs[w].user = u, ApplyMark(w)
    PROVE  UseInv'
<1> DEFINE job == [jobs[w] EXCEPT !.pc = "count"]
<1>0. /\ jobs[w].pc = "mark" /\ jobs[w] \in Job /\ ~jobs[w].promo
      /\ usage \in [Users -> {"none", "redeemed", "applied", "cut"}]
  BY DEF ApplyMark, At, TypeOK, JobsOK, JobShape
<1>1. /\ CanUse(u) /\ usage' = [usage EXCEPT ![u] = "applied"] /\ SetJob(w, job)
      /\ UNCHANGED <<accounts, promo, used, orders, resets, freed>>
  BY DEF ApplyMark, SetUse, orderVars, historyVars
<1>2. job.promo = jobs[w].promo /\ job.user = u /\ job.pc = "count"
  BY <1>0 DEF Job
<1>3. jobs'[w] = job /\ \A v \in Workers \ {w} : jobs'[v] = jobs[v]
  BY <1>1, OthersStay
<1> HIDE DEF job
<1>4. \A x \in Users, v \in Workers : Takes(v, x)' <=> Takes(v, x)
  BY <1>0, <1>2, <1>3 DEF Takes
<1>5. \A x \in Users, o \in OrderIds : Has(o, x)' <=> Has(o, x)
  BY <1>1 DEF Has
<1>6. \A x \in Users, v \in Workers :
        AppliesFor(v, x)' <=> AppliesFor(v, x) \/ (v = w /\ x = u)
  BY <1>0, <1>2, <1>3 DEF AppliesFor, Applies
<1>7. /\ usage'[u] = "applied" /\ usage[u] = "none" /\ Alive(u)
      /\ \A x \in Users \ {u} : usage'[x] = usage[x]
  BY <1>0, <1>1 DEF CanUse, Alive
<1>8. CustomersOK'
  <2>1. ASSUME NEW x \in Users \ freed PROVE OneEach(x)' /\ OneApplies(x)'
    <3>0. OneEach(x) /\ OneApplies(x) /\ NoNewDiscount(x) /\ (Alive(x)' <=> Alive(x))
      BY <1>1, <1>4, <1>5 DEF UseInv, CustomersOK, NoNewDiscount, Alive
    <3>1. CASE x # u
      <4>1. NoNewApplies(x)
        BY <1>6, <3>1 DEF NoNewApplies
      <4> QED
        BY <1>7, <3>0, <3>1, <4>1, CustomerStays
    <3>2. CASE x = u
      <4>1. OneEach(u)'
        BY <1>7, <3>0, <3>2, OneEachStays DEF Usable
      <4>2. \A v \in Workers : ~AppliesFor(v, u)
        BY <1>7, <3>0, <3>2 DEF OneApplies
      <4>3. OneApplies(u)'
        BY <1>6, <1>7, <4>2 DEF OneApplies
      <4> QED
        BY <3>2, <4>1, <4>3
    <3> QED
      BY <3>1, <3>2
  <2> QED
    BY <1>1, <2>1 DEF CustomersOK
<1>9. UsesOK'
  BY <1>1, <1>7 DEF UseInv, UsesOK, Alive
<1>10. RedeemedOK'
  BY <1>4, <1>5, <1>7 DEF UseInv, RedeemedOK, Discount
<1>11. CounterOK'
  <2>1. Discounted' = Discounted /\ Pending' \subseteq Pending
    BY <1>0, <1>1, <1>2, <1>3 DEF Discounted, Pending
  <2>2. used' + resets' >= used + resets
    BY <1>1, Counted
  <2> QED
    BY <2>1, <2>2, CounterStays DEF NoMore, UseInv
<1>12. CountOK'
  <2>1. Taken' \subseteq Taken \cup {u}
    BY <1>7 DEF Taken
  <2>2. w \in Applicants'
    BY <1>2, <1>3, <1>7 DEF Applicants, Applies
  <2>3. ASSUME NEW v \in Applicants PROVE v \in Applicants' \ {w}
    <3>1. v \in Workers /\ Applies(v) /\ usage[jobs[v].user] = "applied"
      BY DEF Applicants
    <3>2. v # w /\ jobs[v].user \in Users \ {u}
      BY <1>0, <1>7, <3>1, ApplicantUser DEF Applies
    <3>3. jobs'[v] = jobs[v] /\ usage'[jobs'[v].user] = "applied"
      BY <1>3, <1>7, <3>1, <3>2
    <3> QED
      BY <3>1, <3>2, <3>3 DEF Applicants, Applies
  <2>4. ASSUME resets' = 0, freed' = {} PROVE CountOK'
    <3>1. UseMade(u, w)
      BY <1>1, <2>1, <2>2, <2>3 DEF UseMade
    <3> QED
      BY <1>1, <2>4, <3>1, CountStays DEF UseInv
  <2> QED
    BY <2>4 DEF CountOK
<1> QED
  BY <1>8, <1>9, <1>10, <1>11, <1>12 DEF UseInv

LEMMA CountKeeps ==
    ASSUME TypeOK, TypeOK', JobsOK, UseInv, NEW w \in Workers, ApplyCount(w)
    PROVE  UseInv'
<1>1. /\ Leaves(w) /\ ~jobs[w].promo
      /\ used' = used + 1 /\ UNCHANGED <<accounts, promo, usage, orders, resets, freed>>
  BY OthersStay, NoJobType
     DEF ApplyCount, At, Leaves, JobsOK, JobShape, orderVars, historyVars
<1>2. \A x \in Users, v \in Workers : Takes(v, x)' <=> Takes(v, x)
  BY <1>1, Left DEF Takes
<1>3. \A x \in Users, o \in OrderIds : Has(o, x)' <=> Has(o, x)
  BY <1>1 DEF Has
<1>4. CustomersOK'
  <2>1. ASSUME NEW x \in Users \ freed PROVE OneEach(x)' /\ OneApplies(x)'
    <3>1. /\ OneEach(x) /\ OneApplies(x) /\ NoNewDiscount(x) /\ NoNewApplies(x)
          /\ Alive(x)' <=> Alive(x)
          /\ usage'[x] = usage[x]
      BY <1>1, <1>2, <1>3, Left DEF UseInv, CustomersOK, NoNewDiscount, Alive
    <3> QED
      BY <3>1, CustomerStays
  <2> QED
    BY <1>1, <2>1 DEF CustomersOK
<1>5. UsesOK' /\ RedeemedOK'
  BY <1>1, <1>2, <1>3 DEF UseInv, UsesOK, RedeemedOK, Discount
<1>6. CounterOK'
  <2>1. Discounted' = Discounted /\ Pending' \subseteq Pending
    BY <1>1, Left DEF Discounted
  <2>2. used' + resets' >= used + resets
    BY <1>1, Counted
  <2> QED
    BY <2>1, <2>2, CounterStays DEF NoMore, UseInv
<1>7. CountOK'
  <2>1. Taken' = Taken
    BY <1>1 DEF Taken
  <2>2. Applicants \subseteq Applicants' \cup {w}
    BY <1>1 DEF Applicants, Applies, Leaves
  <2>3. UseSeen(w)
    BY <1>1, <2>1, <2>2 DEF UseSeen
  <2>4. ASSUME resets' = 0, freed' = {} PROVE CountOK'
    BY <1>1, <2>3, <2>4, CountStays DEF UseInv
  <2> QED
    BY <2>4 DEF CountOK
<1> QED
  BY <1>4, <1>5, <1>6, <1>7 DEF UseInv

\* ApplyUndo and ResetUse: customer u's use is taken back by a request.
LEMMA UndoKeeps ==
    ASSUME TypeOK, TypeOK', JobsOK, UseInv,
           NEW w \in Workers, NEW u \in Users, jobs[w].user = u,
           ApplyUndo(w) \/ ResetUse(w)
    PROVE  UseInv'
<1>1. /\ Leaves(w) /\ ~jobs[w].promo
      /\ usage' = [usage EXCEPT ![u] = "none"]
      /\ UNCHANGED <<accounts, promo, used, orders, resets>>
      /\ \/ jobs[w].pc = "undo" /\ freed' = freed
         \/ freed' = freed \cup {u}
  <2>1. [NoJob EXCEPT !.pc = "decrement"].pc = "decrement" /\ ~[NoJob EXCEPT !.pc = "decrement"].promo
    BY DEF NoJob
  <2>2. Leaves(w)
    BY <2>1, OthersStay, NoJobType DEF ApplyUndo, ResetUse, Leaves
  <2> QED
    BY <2>2 DEF ApplyUndo, ResetUse, SetUse, At, JobsOK, JobShape, orderVars, historyVars
<1>2. usage'[u] = "none" /\ \A x \in Users \ {u} : usage'[x] = usage[x]
  BY <1>1 DEF TypeOK
<1>3. \A x \in Users, v \in Workers : Takes(v, x)' <=> Takes(v, x)
  BY <1>1, Left DEF Takes
<1>4. \A x \in Users, o \in OrderIds : Has(o, x)' <=> Has(o, x)
  BY <1>1 DEF Has
<1>5. CustomersOK'
  <2>1. ASSUME NEW x \in Users \ freed' PROVE OneEach(x)' /\ OneApplies(x)'
    <3>1. /\ OneEach(x) /\ OneApplies(x) /\ NoNewDiscount(x) /\ NoNewApplies(x)
          /\ Alive(x)' <=> Alive(x)
      BY <1>1, <1>3, <1>4, Left DEF UseInv, CustomersOK, NoNewDiscount, Alive
    <3>2. CASE x # u
      BY <1>2, <3>1, <3>2, CustomerStays
    <3>3. CASE x = u
      <4>1. AppliesFor(w, u)
        BY <1>1, <3>3 DEF AppliesFor, Applies
      <4>2. Alive(u) => Usable(u)
        BY <3>1, <3>3, <4>1 DEF OneApplies, Usable
      <4>3. OneEach(u)'
        BY <3>1, <3>3, <4>2, OneEachStays DEF Usable
      <4>4. Alive(u) => \A v \in Workers : ~AppliesFor(v, u)'
        <5>1. ASSUME Alive(u), NEW v \in Workers, AppliesFor(v, u)' PROVE FALSE
          <6>1. AppliesFor(v, u)
            BY <3>1, <3>3, <5>1 DEF NoNewApplies
          <6>2. v = w
            BY <3>1, <3>3, <4>1, <5>1, <6>1 DEF OneApplies
          <6> QED
            BY <1>1, <5>1, <6>2, Left
        <5> QED
          BY <5>1
      <4>5. OneApplies(u)'
        BY <3>1, <3>3, <4>4 DEF OneApplies
      <4> QED
        BY <3>3, <4>3, <4>5
    <3> QED
      BY <3>2, <3>3
  <2> QED
    BY <2>1 DEF CustomersOK
<1>6. UsesOK' /\ RedeemedOK'
  BY <1>1, <1>2, <1>3, <1>4 DEF UseInv, UsesOK, RedeemedOK, Discount
<1>7. CounterOK'
  <2>1. Discounted' = Discounted /\ Pending' \subseteq Pending
    BY <1>1, Left DEF Discounted
  <2>2. used' + resets' >= used + resets
    BY <1>1, Counted
  <2> QED
    BY <2>1, <2>2, CounterStays DEF NoMore, UseInv
<1>8. CountOK'
  <2>1. ASSUME resets' = 0, freed' = {} PROVE CountOK'
    <3>1. resets = 0 /\ freed = {}
      BY <1>1, <2>1
    <3>2. \A v \in Applicants : jobs[v].user # u => Applies(v)' /\ jobs'[v].user = jobs[v].user
      BY <1>1 DEF Applicants, Applies, Leaves
    <3>3. UsesKept \/ \E v \in Workers : UseGone(u, v)
      BY <1>1, <1>2, <3>1, <3>2, UseGoes
    <3> QED
      BY <3>1, <3>3, CountStays DEF UseInv
  <2> QED
    BY <2>1 DEF CountOK
<1> QED
  BY <1>5, <1>6, <1>7, <1>8 DEF UseInv

LEMMA DeletePromoKeeps ==
    ASSUME TypeOK, TypeOK', UseInv, DeletePromo
    PROVE  UseInv'
<1>1. /\ UNCHANGED <<accounts, used, orders, jobs, resets, freed>>
      /\ promo' = "deleted" /\ \A x \in Users : usage'[x] = "none"
  BY DEF DeletePromo, orderVars, historyVars
<1>2. CustomersOK'
  <2>1. ASSUME NEW x \in Users \ freed PROVE OneEach(x)' /\ OneApplies(x)'
    <3>1. OneEach(x) /\ NoNewDiscount(x) /\ ~Alive(x)'
      BY <1>1 DEF UseInv, CustomersOK, NoNewDiscount, Has, Takes, Alive
    <3>2. OneEach(x)'
      BY <3>1, OneEachStays DEF Usable
    <3>3. OneApplies(x)'
      BY <3>1 DEF OneApplies
    <3> QED
      BY <3>2, <3>3
  <2> QED
    BY <1>1, <2>1 DEF CustomersOK
<1>3. UsesOK' /\ RedeemedOK'
  BY <1>1 DEF UsesOK, RedeemedOK
<1>4. CounterOK'
  <2>1. Discounted' = Discounted /\ Pending' = Pending
    BY <1>1 DEF Discounted, Pending
  <2>2. used' + resets' >= used + resets
    BY <1>1, Counted
  <2> QED
    BY <2>1, <2>2, CounterStays DEF NoMore, UseInv
<1>5. CountOK'
  <2>1. NoUses
    BY <1>1 DEF NoUses, Taken
  <2>2. ASSUME resets' = 0, freed' = {} PROVE CountOK'
    BY <1>1, <2>1, <2>2, CountStays DEF UseInv
  <2> QED
    BY <2>2 DEF CountOK
<1> QED
  BY <1>2, <1>3, <1>4, <1>5 DEF UseInv

LEMMA DeleteAccountKeeps ==
    ASSUME TypeOK, TypeOK', JobsOK, UseInv, NEW u \in Users, DeleteAccount(u)
    PROVE  UseInv'
<1>1. /\ UNCHANGED <<promo, used, orders, jobs, resets, freed>>
      /\ accounts' = accounts \ {u} /\ usage' = [usage EXCEPT ![u] = "none"]
  BY DEF DeleteAccount, SetUse, orderVars, historyVars
<1>2. usage'[u] = "none" /\ \A x \in Users \ {u} : usage'[x] = usage[x]
  BY <1>1 DEF TypeOK
<1>3. CustomersOK'
  <2>1. ASSUME NEW x \in Users \ freed PROVE OneEach(x)' /\ OneApplies(x)'
    <3>1. /\ OneEach(x) /\ OneApplies(x) /\ NoNewDiscount(x) /\ NoNewApplies(x)
          /\ Alive(x)' <=> Alive(x) /\ x # u
      BY <1>1 DEF UseInv, CustomersOK, NoNewDiscount, NoNewApplies, AppliesFor, Applies, Has,
         Takes, Alive
    <3>2. CASE x # u
      BY <1>2, <3>1, <3>2, CustomerStays
    <3>3. CASE x = u
      <4>1. OneEach(x)'
        BY <3>1, <3>3, OneEachStays DEF Usable
      <4>2. OneApplies(x)'
        BY <3>1, <3>3 DEF OneApplies
      <4> QED
        BY <4>1, <4>2
    <3> QED
      BY <3>2, <3>3
  <2> QED
    BY <1>1, <2>1 DEF CustomersOK
<1>4. UsesOK'
  BY <1>1, <1>2 DEF UseInv, UsesOK
<1>5. RedeemedOK'
  BY <1>1, <1>2 DEF UseInv, RedeemedOK, Discount, Has, Takes
<1>6. CounterOK'
  <2>1. Discounted' = Discounted /\ Pending' = Pending
    BY <1>1 DEF Discounted, Pending
  <2>2. used' + resets' >= used + resets
    BY <1>1, Counted
  <2> QED
    BY <2>1, <2>2, CounterStays DEF NoMore, UseInv
<1>7. CountOK'
  <2>1. ASSUME resets' = 0, freed' = {} PROVE CountOK'
    <3>1. \A v \in Applicants : jobs[v].user # u => Applies(v)' /\ jobs'[v].user = jobs[v].user
      BY <1>1 DEF Applicants, Applies
    <3>2. UsesKept \/ \E v \in Workers : UseGone(u, v)
      BY <1>1, <1>2, <2>1, <3>1, UseGoes
    <3> QED
      BY <1>1, <2>1, <3>2, CountStays DEF UseInv
  <2> QED
    BY <2>1 DEF CountOK
<1> QED
  BY <1>3, <1>4, <1>5, <1>6, <1>7 DEF UseInv

-----------------------------------------------------------------------------
(* The theorems *)

LEMMA IntakeHolds == Init => IntakeInv
<1> SUFFICES ASSUME Init PROVE IntakeInv
  OBVIOUS
<1>1. TypeOK
  BY TypesHold
<1>2. /\ created = 0 /\ used = 0 /\ resets = 0 /\ freed = {}
      /\ \A w \in Workers : jobs[w] = NoJob
      /\ \A o \in OrderIds : orders[o] = NoOrder
      /\ \A u \in Users : usage[u] = "none"
  BY DEF Init
<1>3. ~NoOrder.promo /\ NoOrder.st = "absent"
  BY DEF NoOrder
<1>4. JobsOK
  BY <1>2, NoJobShape DEF JobsOK, FirstOK
<1>5. OrdersOK /\ DeletedHasNoOpenOrder
  BY <1>2, <1>3 DEF OrdersOK, DeletedHasNoOpenOrder
<1>6. UsesOK /\ RedeemedOK
  BY <1>2 DEF UsesOK, RedeemedOK
<1>7. /\ \A u \in Users, o \in OrderIds : ~Has(o, u)
      /\ \A u \in Users, w \in Workers : ~Takes(w, u) /\ ~AppliesFor(w, u)
  BY <1>2, <1>3, NoJobType DEF Has, Takes, AppliesFor, Applies
<1>8. CustomersOK
  <2>1. ASSUME NEW u \in Users PROVE OneEach(u) /\ OneApplies(u)
    <3>1. OneEach(u)
      BY <1>7 DEF OneEach
    <3>2. OneApplies(u)
      BY <1>7 DEF OneApplies
    <3> QED
      BY <3>1, <3>2
  <2> QED
    BY <2>1 DEF CustomersOK
<1>9. Discounted = {} /\ Pending = {} /\ Taken = {} /\ Applicants = {}
  BY <1>2, <1>3, NoJobType DEF Discounted, Pending, Taken, Applicants, Applies
<1>10. CounterOK /\ CountOK
  BY <1>2, <1>9, FS_EmptySet DEF CounterOK, CountOK
<1> QED
  BY <1>1, <1>4, <1>5, <1>6, <1>8, <1>10 DEF IntakeInv, UseInv

LEMMA IntakeStays == IntakeInv /\ [Next]_vars => IntakeInv'
<1> SUFFICES ASSUME IntakeInv, [Next]_vars PROVE IntakeInv'
  OBVIOUS
<1>0. TypeOK /\ JobsOK /\ OrdersOK /\ UseInv /\ DeletedHasNoOpenOrder
  BY DEF IntakeInv
<1>1. TypeOK' /\ JobsOK' /\ OrdersOK' /\ DeletedHasNoOpenOrder'
  BY <1>0, TypesStay, JobsStay, OrdersStay, OpenOrdersStay
<1>2. ASSUME Quiet PROVE UseInv'
  BY <1>0, <1>1, <1>2, QuietKeeps
<1>3. ASSUME NEW w \in Workers, Redeem(w) PROVE UseInv'
  <2>1. jobs[w].user \in Users
    BY <1>0, <1>3 DEF Redeem, At, JobsOK, JobShape
  <2> QED
    BY <1>0, <1>1, <1>3, <2>1, RedeemKeeps
<1>4. ASSUME NEW w \in Workers, ApplyMark(w) PROVE UseInv'
  <2>1. jobs[w].user \in Users
    BY <1>0, <1>4 DEF ApplyMark, At, JobsOK, JobShape
  <2> QED
    BY <1>0, <1>1, <1>4, <2>1, MarkKeeps
<1>5. ASSUME NEW w \in Workers, ApplyUndo(w) \/ ResetUse(w) PROVE UseInv'
  <2>1. jobs[w].user \in Users
    BY <1>0, <1>5 DEF ApplyUndo, ResetUse, At, JobsOK, JobShape
  <2> QED
    BY <1>0, <1>1, <1>5, <2>1, UndoKeeps
<1>6. ASSUME NEW w \in Workers,
             TagFirst(w) \/ Cut(w) \/ ApplyCount(w) \/ (InsertOrder(w) /\ jobs[w].promo)
      PROVE  UseInv'
  BY <1>0, <1>1, <1>6, TagKeeps, CutKeeps, CountKeeps, InsertKeeps
<1>7. ASSUME DeletePromo \/ \E u \in Users : DeleteAccount(u) PROVE UseInv'
  BY <1>0, <1>1, <1>7, DeletePromoKeeps, DeleteAccountKeeps
<1>8. UseInv'
  <2>1. \/ Quiet
        \/ \E w \in Workers :
             \/ Redeem(w) \/ TagFirst(w) \/ Cut(w) \/ ResetUse(w)
             \/ InsertOrder(w) /\ jobs[w].promo
             \/ ApplyMark(w) \/ ApplyCount(w) \/ ApplyUndo(w)
        \/ \E u \in Users : DeleteAccount(u)
        \/ DeletePromo
    BY <1>0, QuietSteps
  <2> QED
    BY <1>2, <1>3, <1>4, <1>5, <1>6, <1>7, <2>1
<1> QED
  BY <1>1, <1>8 DEF IntakeInv

\* The invariant that carries the rest holds of every run.
THEOREM IntakeInductive == Spec => []IntakeInv
BY IntakeHolds, IntakeStays, PTL DEF Spec

\* Every variable has its type, and the counter never exceeds the limit.
THEOREM IntakeTypeOK == Spec => []TypeOK
<1>1. IntakeInv => TypeOK
  BY DEF IntakeInv
<1> QED
  BY <1>1, IntakeInductive, PTL

\* A set of at most one element.
LEMMA AtMostOne ==
    ASSUME NEW S, IsFiniteSet(S), \A x, y \in S : x = y
    PROVE  Cardinality(S) \in Nat /\ Cardinality(S) <= 1
<1>1. CASE S = {}
  BY <1>1, FS_EmptySet
<1>2. CASE S # {}
  <2>1. PICK x : S = {x}
    BY <1>2
  <2> QED
    BY <2>1, FS_Singleton
<1> QED
  BY <1>1, <1>2

\* However orders, applications, resets and deletions overlap, the orders that
\* have the code's discount or are about to are no more than its limit, but for
\* one with each reset of the counter; and a customer whose use no admin took
\* back has one at most.
THEOREM PromoBounded == Spec => []DiscountsBounded
<1>1. IntakeInv => DiscountsBounded
  <2> SUFFICES ASSUME IntakeInv PROVE DiscountsBounded
    OBVIOUS
  <2>0. TypeOK /\ CounterOK /\ CustomersOK
    BY DEF IntakeInv, UseInv
  <2>1. ASSUME Limit > 0
        PROVE  Cardinality(Discounted) + Cardinality(Pending) <= Limit + resets
    <3>1. PICK i \in Int, j \in Int, m \in Int, n \in Int :
             /\ Cardinality(Discounted) = i /\ Cardinality(Pending) = j
             /\ used = m /\ resets = n
      BY <2>0, Counted
    <3>2. i + j <= m + n
      BY <2>0, <3>1 DEF CounterOK
    <3>3. m <= Limit /\ Limit \in Int
      BY <2>0, <2>1, <3>1, IntakeAssumption DEF TypeOK
    <3> SUFFICES i + j <= Limit + n
      BY <3>1
    <3> QED
      BY <3>2, <3>3
  <2>2. ASSUME NEW u \in Users \ freed
        PROVE  Cardinality({o \in Discounted : orders[o].user = u})
                 + Cardinality({w \in Pending : jobs[w].user = u}) <= 1
    <3> DEFINE D == {o \in Discounted : orders[o].user = u}
               P == {w \in Pending : jobs[w].user = u}
    <3>1. IsFiniteSet(D) /\ IsFiniteSet(P)
      BY <2>0, Counted, FS_Subset
    <3>2. OneEach(u)
      BY <2>0 DEF CustomersOK
    <3>3. /\ \A o \in D : o \in OrderIds /\ Has(o, u)
          /\ \A w \in P : w \in Workers /\ Takes(w, u)
      BY DEF Discounted, Pending, Has, Takes
    <3> SUFFICES Cardinality(D) + Cardinality(P) <= 1
      OBVIOUS
    <3> HIDE DEF D, P
    <3>4. \A x, y \in D : x = y
      BY <3>2, <3>3 DEF OneEach
    <3>5. \A x, y \in P : x = y
      BY <3>2, <3>3 DEF OneEach
    <3>6. D = {} \/ P = {}
      BY <3>2, <3>3 DEF OneEach
    <3>7. /\ Cardinality(D) \in Nat /\ Cardinality(D) <= 1
          /\ Cardinality(P) \in Nat /\ Cardinality(P) <= 1
      BY <3>1, <3>4, <3>5, AtMostOne
    <3>8. PICK i \in Int, j \in Int : Cardinality(D) = i /\ Cardinality(P) = j
      BY <3>7
    <3>9. i <= 1 /\ j <= 1 /\ (i = 0 \/ j = 0)
      BY <3>6, <3>7, <3>8, FS_EmptySet
    <3>10. i + j <= 1
      BY <3>9
    <3> QED
      BY <3>8, <3>10
  <2> QED
    BY <2>1, <2>2 DEF DiscountsBounded
<1> QED
  BY <1>1, IntakeInductive, PTL

\* A customer's redeemed use has given a discount or is about to; and, as long as
\* nothing was reset, the counter has seen every use but those it is about to
\* see or that are about to be withdrawn.
THEOREM PromoAccounted == Spec => []UsesAccounted
<1>1. IntakeInv => UsesAccounted
  <2> SUFFICES ASSUME IntakeInv PROVE UsesAccounted
    OBVIOUS
  <2>0. TypeOK /\ RedeemedOK /\ CountOK
    BY DEF IntakeInv, UseInv
  <2>1. ASSUME NEW u \in Users, usage[u] = "redeemed"
        PROVE  \/ \E o \in Discounted : orders[o].user = u
               \/ \E w \in Pending : jobs[w].user = u
    BY <2>0, <2>1 DEF RedeemedOK, Discount, Has, Takes, Discounted, Pending
  <2>2. ASSUME resets = 0, freed = {}
        PROVE  Cardinality(Taken)
                 <= used + Cardinality({w \in Workers : jobs[w].pc \in {"count", "undo"}})
    <3> DEFINE A == {w \in Workers : jobs[w].pc \in {"count", "undo"}}
    <3>1. IsFiniteSet(A) /\ Applicants \subseteq A
      BY IntakeAssumption, FS_Subset DEF Applicants, Applies
    <3>2. /\ Cardinality(A) \in Nat /\ Cardinality(Applicants) \in Nat
          /\ Cardinality(Applicants) <= Cardinality(A)
      BY <3>1, FS_Subset, FS_CardinalityType
    <3>3. Cardinality(Taken) \in Nat /\ used \in Int
      BY <2>0, Counted
    <3>4. Cardinality(Taken) <= used + Cardinality(Applicants)
      BY <2>0, <2>2 DEF CountOK
    <3> QED
      BY <3>2, <3>3, <3>4
  <2> QED
    BY <2>1, <2>2 DEF UsesAccounted, Taken
<1> QED
  BY <1>1, IntakeInductive, PTL

\* The customer of an order that was never settled has an account, whatever
\* overlaps the deletion of accounts.
THEOREM OpenOrdersHaveAccounts == Spec => []DeletedHasNoOpenOrder
<1>1. IntakeInv => DeletedHasNoOpenOrder
  BY DEF IntakeInv
<1> QED
  BY <1>1, IntakeInductive, PTL

-----------------------------------------------------------------------------
(* Reviews and discounts *)

Task == [pc : {"free", "create", "recipients", "notify", "update",
               "delete", "discount", "carts", "review", "save"},
         user : Shoppers \cup {Nobody}, pct : Discounts \cup {0},
         to : SUBSET Shoppers, known : Nat]

\* Numbers of reviews are not bounded here.
CatTypes ==
    /\ people \subseteq Shoppers
    /\ reviews \in [Shoppers -> Nat]
    /\ notices \subseteq Notification
    /\ tasks \in [Clerks -> Task]

\* A shopper whose submissions did not overlap has one at a time, and one that
\* found no review is still right.
OneSubmission ==
    \A u \in Shoppers \ overlaps :
        /\ \A c, d \in Clerks : tasks[c].user = u /\ tasks[d].user = u => c = d
        /\ \A c \in Clerks : tasks[c].user = u /\ tasks[c].known = 0 => reviews[u] = 0

\* A discount about to be told was written.
TellsWritten == \A c \in Clerks : Doing(c, "carts") => tasks[c].pct \in carried

CatInv == CatTypes /\ OneSubmission /\ TellsWritten /\ CatalogueKept

\* An idle clerk has no user.
LEMMA NoTaskOK ==
    /\ NoTask \in Task /\ NoTask.user = Nobody /\ NoTask.pc = "free"
    /\ Nobody \notin Shoppers
BY CatalogueAssumption DEF NoTask, Task

\* Nobody has submitted, saved or been told anything.
LEMMA CatInitially == CatInit => CatInv
<1> SUFFICES ASSUME CatInit PROVE CatInv
  OBVIOUS
<1>1. CatTypes
  BY NoTaskOK DEF CatInit, CatTypes
<1>2. OneSubmission
  BY NoTaskOK DEF CatInit, OneSubmission
<1>3. TellsWritten
  BY NoTaskOK DEF CatInit, TellsWritten, Doing
<1>4. CatalogueKept
  BY DEF CatInit, CatalogueKept, ReviewPerPurchase, DiscountsTold
<1> QED
  BY <1>1, <1>2, <1>3, <1>4 DEF CatInv

\* A request goes on, is dropped or begins without a review.
LEMMA TaskGoesOn ==
    ASSUME CatInv, NEW c \in Clerks, NEW task \in Task, SetTask(c, task),
           \/ task.user = Nobody
           \/ task.user = tasks[c].user /\ task.known = tasks[c].known,
           task.pc = "carts" => task.pct \in carried',
           carried \subseteq carried',
           UNCHANGED <<people, reviews, overlaps>>,
           notices' \subseteq Notification, DiscountsTold'
    PROVE  CatInv'
<1>1. /\ tasks \in [Clerks -> Task] /\ tasks' = [tasks EXCEPT ![c] = task]
  BY DEF CatInv, CatTypes, SetTask
<1>2. /\ tasks' \in [Clerks -> Task]
      /\ \A d \in Clerks : tasks'[d] = IF d = c THEN task ELSE tasks[d]
  BY <1>1
<1>3. CatTypes'
  BY <1>2 DEF CatInv, CatTypes
<1>4. OneSubmission'
  <2>1. \A d \in Clerks : \A u \in Shoppers : tasks'[d].user = u =>
            tasks[d].user = u /\ tasks'[d].known = tasks[d].known
    BY <1>2, NoTaskOK
  <2> QED
    BY <2>1 DEF CatInv, OneSubmission
<1>5. TellsWritten'
  BY <1>2 DEF CatInv, TellsWritten, Doing
<1>6. CatalogueKept'
  BY DEF CatInv, CatalogueKept, ReviewPerPurchase
<1> QED
  BY <1>3, <1>4, <1>5, <1>6 DEF CatInv

\* No request moves, and of the rows only what the others do to them.
LEMMA OthersMove ==
    ASSUME CatInv, UNCHANGED <<tasks, overlaps>>, carried \subseteq carried',
           people' \subseteq people,
           notices' \subseteq Notification, DiscountsTold',
           reviews' \in [Shoppers -> Nat],
           \A u \in Shoppers : reviews'[u] \in {0, reviews[u]}
    PROVE  CatInv'
<1>1. CatTypes'
  BY DEF CatInv, CatTypes
<1>2. OneSubmission'
  BY DEF CatInv, OneSubmission
<1>3. TellsWritten'
  BY DEF CatInv, TellsWritten, Doing
<1>4. ReviewPerPurchase'
  <2> SUFFICES ASSUME NEW u \in Shoppers, reviews'[u] > 1 PROVE u \in overlaps'
    BY DEF ReviewPerPurchase
  <2>1. reviews'[u] = reviews[u]
    OBVIOUS
  <2> QED
    BY <2>1 DEF CatInv, CatalogueKept, ReviewPerPurchase
<1> QED
  BY <1>1, <1>2, <1>3, <1>4 DEF CatInv, CatalogueKept

\* What was told was once written.
LEMMA StillTold ==
    ASSUME CatInv, notices' = notices, carried \subseteq carried'
    PROVE  notices' \subseteq Notification /\ DiscountsTold'
BY DEF CatInv, CatTypes, CatalogueKept, DiscountsTold

\* The recipients of a notification are read, and it is written for them.
LEMMA CatNotifies ==
    ASSUME CatInv, NEW c \in Clerks, NEW users, NEW type \in {"new_product", "discount"},
           NEW pct \in Discounts \cup {0}, type = "discount" => pct \in carried,
           Notify(c, users, type, pct)
    PROVE  CatInv'
<1>1. SetTask(c, NoTask) /\ UNCHANGED <<people, reviews, carried, overlaps>>
  BY DEF Notify
<1>2. people \subseteq Shoppers /\ notices \subseteq Notification /\ DiscountsTold
  BY DEF CatInv, CatTypes, CatalogueKept
<1>3. notices' \subseteq Notification /\ DiscountsTold'
  <2>1. CASE notices' = notices
    BY <1>1, <2>1, StillTold
  <2>2. CASE /\ users \subseteq people
             /\ notices' = notices \cup [to : users, type : {type}, pct : {pct}, read : {FALSE}]
    <3>1. PICK new : new = [to : users, type : {type}, pct : {pct}, read : {FALSE}]
      OBVIOUS
    <3>2. \A n \in new : n \in Notification /\ n.type = type /\ n.pct = pct
      BY <1>2, <2>2, <3>1 DEF Notification
    <3>3. notices' = notices \cup new
      BY <2>2, <3>1
    <3>4. \A n \in notices' : n.type = "discount" => n.pct \in carried
      BY <1>2, <3>2, <3>3 DEF DiscountsTold
    <3> QED
      BY <1>1, <1>2, <3>2, <3>3, <3>4 DEF DiscountsTold
  <2> QED
    BY <2>1, <2>2 DEF Notify
<1> QED
  BY <1>1, <1>3, NoTaskOK, TaskGoesOn

\* A task of a kind that carries neither a discount nor a review.
LEMMA CatPlainTask ==
    ASSUME NEW pc \in {"create", "recipients", "delete"}
    PROVE  [NoTask EXCEPT !.pc = pc] \in Task /\ [NoTask EXCEPT !.pc = pc].user = Nobody
           /\ [NoTask EXCEPT !.pc = pc].pc = pc
BY CatalogueAssumption DEF NoTask, Task

\* Products are created, updated and deleted, and reported to those concerned.
LEMMA CatProducts ==
    ASSUME CatInv, NEW c \in Clerks,
           \/ CreateProduct(c) \/ CreateAdminSellerProduct(c)
           \/ NewProductRecipients(c) \/ NewProductNotify(c)
           \/ DeleteProduct(c) \/ DeleteSellerProduct(c)
    PROVE  CatInv'
<1>1. ASSUME NEW pc \in {"create", "recipients", "delete"},
             SetTask(c, [NoTask EXCEPT !.pc = pc]),
             UNCHANGED <<people, reviews, notices, carried, overlaps>>
      PROVE  CatInv'
  <2>1. notices' \subseteq Notification /\ DiscountsTold'
    BY <1>1, StillTold
  <2>2. PICK task \in Task : /\ task = [NoTask EXCEPT !.pc = pc]
                             /\ task.user = Nobody /\ task.pc = pc
    BY <1>1, CatPlainTask
  <2>3. SetTask(c, task) /\ task.pc # "carts"
    BY <1>1, <2>2
  <2> QED
    BY <1>1, <2>1, <2>2, <2>3, TaskGoesOn
<1>2. ASSUME SetTask(c, NoTask), UNCHANGED <<people, reviews, notices, carried, overlaps>>
      PROVE  CatInv'
  <2>1. notices' \subseteq Notification /\ DiscountsTold'
    BY <1>2, StillTold
  <2> QED
    BY <1>2, <2>1, NoTaskOK, TaskGoesOn
<1>3. CASE CreateProduct(c)
  BY <1>1, <1>3 DEF CreateProduct, ShelfOnly
<1>4. CASE CreateAdminSellerProduct(c)
  <2>1. UNCHANGED <<people, reviews, notices, carried, overlaps>>
    BY <1>4 DEF CreateAdminSellerProduct, ShelfOnly, TaskOnly
  <2>2. \/ SetTask(c, [NoTask EXCEPT !.pc = "create"])
        \/ SetTask(c, [NoTask EXCEPT !.pc = "recipients"])
        \/ SetTask(c, NoTask)
    BY <1>4 DEF CreateAdminSellerProduct
  <2> QED
    BY <1>1, <1>2, <2>1, <2>2
<1>5. CASE NewProductRecipients(c)
  <2>1. PICK task : task = [tasks[c] EXCEPT !.pc = "notify", !.to = people]
    OBVIOUS
  <2>2. /\ task \in Task /\ task.user = tasks[c].user /\ task.known = tasks[c].known
        /\ task.pc = "notify"
    BY <2>1 DEF CatInv, CatTypes, Task
  <2>3. SetTask(c, task) /\ UNCHANGED <<people, reviews, notices, carried, overlaps>>
    BY <1>5, <2>1 DEF NewProductRecipients, TaskOnly
  <2>4. notices' \subseteq Notification /\ DiscountsTold'
    BY <2>3, StillTold
  <2> QED
    BY <2>2, <2>3, <2>4, TaskGoesOn
<1>6. CASE NewProductNotify(c)
  <2>1. Notify(c, tasks[c].to, "new_product", 0)
    BY <1>6 DEF NewProductNotify
  <2>2. PICK users, type, pct : users = tasks[c].to /\ type = "new_product" /\ pct = 0
    OBVIOUS
  <2>3. Notify(c, users, type, pct) /\ type \in {"new_product", "discount"}
        /\ pct \in Discounts \cup {0} /\ type # "discount"
    BY <2>1, <2>2
  <2> QED
    BY <2>3, CatNotifies
<1>7. CASE DeleteProduct(c)
  <2>1. UNCHANGED <<tasks, people, reviews, notices, carried, overlaps>>
    BY <1>7 DEF DeleteProduct, RemoveRow, ShelfOnly
  <2>2. notices' \subseteq Notification /\ DiscountsTold'
    BY <2>1, StillTold
  <2>3. reviews \in [Shoppers -> Nat]
    BY DEF CatInv, CatTypes
  <2> QED
    BY <2>1, <2>2, <2>3, OthersMove
<1>8. CASE DeleteSellerProduct(c)
  <2>1. UNCHANGED <<people, reviews, notices, carried, overlaps>>
    BY <1>8 DEF DeleteSellerProduct, RemoveRow, ShelfOnly, TaskOnly
  <2>2. SetTask(c, [NoTask EXCEPT !.pc = "delete"]) \/ SetTask(c, NoTask)
    BY <1>8 DEF DeleteSellerProduct
  <2> QED
    BY <1>1, <1>2, <2>1, <2>2
<1> QED
  BY <1>3, <1>4, <1>5, <1>6, <1>7, <1>8

\* Discounts: what is told to the carts has been written.
LEMMA CatDiscounts ==
    ASSUME CatInv, NEW c \in Clerks,
           \/ \E pct \in Discounts :
                UpdateProduct(c, pct) \/ UpdateSellerProduct(c, pct) \/ DiscountRead(c, pct)
           \/ DiscountWrite(c) \/ DiscountNotify(c)
    PROVE  CatInv'
<1>0. tasks[c] \in Task /\ reviews \in [Shoppers -> Nat] /\ people \subseteq Shoppers
  BY DEF CatInv, CatTypes
<1>1. ASSUME UNCHANGED <<people, reviews, notices, overlaps>>, carried \subseteq carried',
             SetTask(c, NoTask)
      PROVE  CatInv'
  <2>1. notices' \subseteq Notification /\ DiscountsTold'
    BY <1>1, StillTold
  <2> QED
    BY <1>1, <2>1, NoTaskOK, TaskGoesOn
<1>2. ASSUME NEW pc \in {"update", "discount"}, NEW pct \in Discounts,
             UNCHANGED <<people, reviews, notices, overlaps, carried>>,
             SetTask(c, [NoTask EXCEPT !.pc = pc, !.pct = pct])
      PROVE  CatInv'
  <2>1. notices' \subseteq Notification /\ DiscountsTold'
    BY <1>2, StillTold
  <2>2. PICK task : task = [NoTask EXCEPT !.pc = pc, !.pct = pct]
    OBVIOUS
  <2>3. task \in Task /\ task.user = Nobody /\ task.pc = pc
    BY <2>2 DEF NoTask, Task
  <2>4. SetTask(c, task) /\ task.pc # "carts"
    BY <1>2, <2>2, <2>3
  <2> QED
    BY <1>2, <2>1, <2>3, <2>4, TaskGoesOn
<1>3. ASSUME NEW pct \in Discounts, UpdateProduct(c, pct) PROVE CatInv'
  <2>1. /\ UNCHANGED <<tasks, people, reviews, notices, overlaps>>
        /\ carried \subseteq carried'
    BY <1>3 DEF UpdateProduct, WriteDiscount, ShelfOnly
  <2>2. notices' \subseteq Notification /\ DiscountsTold'
    BY <2>1, StillTold
  <2> QED
    BY <1>0, <2>1, <2>2, OthersMove
<1>4. ASSUME NEW pct \in Discounts, UpdateSellerProduct(c, pct) PROVE CatInv'
  <2>1. \/ /\ SetTask(c, [NoTask EXCEPT !.pc = "update", !.pct = pct])
           /\ UNCHANGED <<people, reviews, notices, overlaps, carried>>
        \/ /\ SetTask(c, NoTask) /\ carried \subseteq carried'
           /\ UNCHANGED <<people, reviews, notices, overlaps>>
    BY <1>4 DEF UpdateSellerProduct, WriteDiscount, ShelfOnly, TaskOnly
  <2> QED
    BY <1>1, <1>2, <2>1
<1>5. ASSUME NEW pct \in Discounts, DiscountRead(c, pct) PROVE CatInv'
  BY <1>2, <1>5 DEF DiscountRead, TaskOnly
<1>6. CASE DiscountWrite(c)
  <2>1. UNCHANGED <<people, reviews, notices, overlaps>> /\ carried \subseteq carried'
    BY <1>6 DEF DiscountWrite, WriteDiscount, ShelfOnly
  <2>2. CASE SetTask(c, NoTask)
    BY <1>1, <2>1, <2>2
  <2>3. CASE /\ SetTask(c, [tasks[c] EXCEPT !.pc = "carts"])
             /\ carried' = carried \cup {tasks[c].pct}
    <3>1. PICK task : task = [tasks[c] EXCEPT !.pc = "carts"]
      OBVIOUS
    <3>2. /\ task \in Task /\ task.user = tasks[c].user /\ task.known = tasks[c].known
          /\ task.pct = tasks[c].pct
      BY <1>0, <3>1 DEF Task
    <3>3. SetTask(c, task) /\ task.pct \in carried'
      BY <2>3, <3>1, <3>2
    <3>4. notices' \subseteq Notification /\ DiscountsTold'
      BY <2>1, StillTold
    <3> QED
      BY <2>1, <3>2, <3>3, <3>4, TaskGoesOn
  <2> QED
    BY <1>6, <2>2, <2>3 DEF DiscountWrite, WriteDiscount
<1>7. CASE DiscountNotify(c)
  <2>1. PICK users, type, pct : users = carts /\ type = "discount" /\ pct = tasks[c].pct
    OBVIOUS
  <2>2. /\ Notify(c, users, type, pct) /\ type \in {"new_product", "discount"}
        /\ pct \in Discounts \cup {0} /\ pct \in carried
    BY <1>0, <1>7, <2>1 DEF DiscountNotify, CatInv, TellsWritten, Task
  <2> QED
    BY <2>2, CatNotifies
<1> QED
  BY <1>3, <1>4, <1>5, <1>6, <1>7

\* Submissions of reviews.
LEMMA CatReviewReads ==
    ASSUME CatInv, NEW c \in Clerks,
           (\E u \in Shoppers : ReviewRead(c, u)) \/ ReviewCheck(c)
    PROVE  CatInv'
<1>0. tasks \in [Clerks -> Task] /\ reviews \in [Shoppers -> Nat]
  BY DEF CatInv, CatTypes
<1>1. CASE ReviewCheck(c)
  <2>1. UNCHANGED <<people, reviews, notices, carried, overlaps>>
    BY <1>1 DEF ReviewCheck, TaskOnly
  <2>2. notices' \subseteq Notification /\ DiscountsTold'
    BY <2>1, StillTold
  <2>3. CASE SetTask(c, NoTask)
    BY <2>1, <2>2, <2>3, NoTaskOK, TaskGoesOn
  <2>4. CASE SetTask(c, [tasks[c] EXCEPT !.pc = "save"])
    <3>1. PICK task : task = [tasks[c] EXCEPT !.pc = "save"]
      OBVIOUS
    <3>2. /\ task \in Task /\ task.user = tasks[c].user /\ task.known = tasks[c].known
          /\ task.pc = "save" /\ SetTask(c, task)
      BY <1>0, <2>4, <3>1 DEF Task
    <3> QED
      BY <2>1, <2>2, <3>2, TaskGoesOn
  <2> QED
    BY <1>1, <2>3, <2>4 DEF ReviewCheck
<1>2. ASSUME NEW u \in Shoppers, ReviewRead(c, u) PROVE CatInv'
  <2>1. PICK task : task = [NoTask EXCEPT !.pc = "review", !.user = u, !.known = reviews[u]]
    OBVIOUS
  <2>2. /\ task \in Task /\ task.user = u /\ task.known = reviews[u] /\ task.pc = "review"
    <3>1. reviews[u] \in Nat
      BY <1>0
    <3> QED
      BY <2>1, <3>1 DEF NoTask, Task
  <2>3. /\ tasks' = [tasks EXCEPT ![c] = task]
        /\ UNCHANGED <<people, reviews, notices, carried>>
        /\ overlaps' = IF \E d \in Clerks : tasks[d].user = u THEN overlaps \cup {u}
                       ELSE overlaps
    BY <1>2, <2>1 DEF ReviewRead, SetTask
  <2>4. /\ tasks' \in [Clerks -> Task]
        /\ \A d \in Clerks : tasks'[d] = IF d = c THEN task ELSE tasks[d]
    BY <1>0, <2>2, <2>3
  <2>5. overlaps \subseteq overlaps' /\ (u \notin overlaps' => \A d \in Clerks : tasks[d].user # u)
    BY <2>3
  <2>6. CatTypes'
    BY <2>3, <2>4 DEF CatInv, CatTypes
  <2>7. OneSubmission'
    <3> SUFFICES ASSUME NEW x \in Shoppers, x \notin overlaps'
                 PROVE  /\ \A d, e \in Clerks : tasks'[d].user = x /\ tasks'[e].user = x => d = e
                        /\ \A d \in Clerks : tasks'[d].user = x /\ tasks'[d].known = 0
                                             => reviews[x] = 0
      BY <2>3 DEF OneSubmission
    <3>1. CASE x = u
      BY <2>2, <2>4, <2>5, <3>1
    <3>2. CASE x # u
      <4>1. \A d \in Clerks : tasks'[d].user = x => tasks'[d] = tasks[d]
        BY <2>2, <2>4, <3>2
      <4> QED
        BY <2>5, <4>1 DEF CatInv, OneSubmission
    <3> QED
      BY <3>1, <3>2
  <2>8. TellsWritten'
    BY <2>2, <2>3, <2>4 DEF CatInv, TellsWritten, Doing
  <2>9. CatalogueKept'
    BY <2>3, <2>5 DEF CatInv, CatalogueKept, ReviewPerPurchase, DiscountsTold
  <2> QED
    BY <2>6, <2>7, <2>8, <2>9 DEF CatInv
<1> QED
  BY <1>1, <1>2

\* A review is written, updated or refused.
LEMMA CatReviewSaves ==
    ASSUME CatInv, NEW c \in Clerks, ReviewSave(c)
    PROVE  CatInv'
<1>0. tasks \in [Clerks -> Task] /\ reviews \in [Shoppers -> Nat]
  BY DEF CatInv, CatTypes
<1>1. /\ SetTask(c, NoTask) /\ UNCHANGED <<people, notices, carried, overlaps>>
  BY DEF ReviewSave
<1>2. notices' \subseteq Notification /\ DiscountsTold'
  BY <1>1, StillTold
<1>3. PICK u : u = tasks[c].user
  OBVIOUS
<1>4. CASE reviews' = reviews
  BY <1>1, <1>2, <1>4, NoTaskOK, TaskGoesOn
<1>5. CASE tasks[c].known = 0 /\ u \in people /\ reviews' = [reviews EXCEPT ![u] = @ + 1]
  <2>1. u \in Shoppers
    BY <1>5 DEF CatInv, CatTypes
  <2>2. /\ reviews' \in [Shoppers -> Nat]
        /\ \A x \in Shoppers : reviews'[x] = IF x = u THEN reviews[u] + 1 ELSE reviews[x]
    BY <1>0, <1>5, <2>1
  <2>3. /\ tasks' \in [Clerks -> Task]
        /\ \A d \in Clerks : tasks'[d] = IF d = c THEN NoTask ELSE tasks[d]
    BY <1>0, <1>1, NoTaskOK DEF SetTask
  <2>4. u \notin overlaps => reviews[u] = 0 /\ \A d \in Clerks \ {c} : tasks[d].user # u
    BY <1>3, <1>5, <2>1 DEF CatInv, OneSubmission
  <2>5. CatTypes'
    BY <1>1, <2>2, <2>3 DEF CatInv, CatTypes
  <2>6. OneSubmission'
    <3> SUFFICES ASSUME NEW x \in Shoppers, x \notin overlaps
                 PROVE  /\ \A d, e \in Clerks : tasks'[d].user = x /\ tasks'[e].user = x => d = e
                        /\ \A d \in Clerks : tasks'[d].user = x /\ tasks'[d].known = 0
                                             => reviews'[x] = 0
      BY <1>1 DEF OneSubmission
    <3>1. \A d \in Clerks : tasks'[d].user = x => d # c /\ tasks'[d] = tasks[d]
      BY <2>3, NoTaskOK
    <3>2. CASE x = u
      BY <2>4, <3>1, <3>2
    <3>3. CASE x # u
      BY <2>2, <3>1, <3>3 DEF CatInv, OneSubmission
    <3> QED
      BY <3>2, <3>3
  <2>7. TellsWritten'
    BY <1>1, <2>3, NoTaskOK DEF CatInv, TellsWritten, Doing
  <2>8. ReviewPerPurchase'
    <3> SUFFICES ASSUME NEW x \in Shoppers, reviews'[x] > 1, x \notin overlaps PROVE FALSE
      BY <1>1 DEF ReviewPerPurchase
    <3>1. CASE x = u
      BY <2>2, <2>4, <3>1
    <3>2. CASE x # u
      BY <2>2, <3>2 DEF CatInv, CatalogueKept, ReviewPerPurchase
    <3> QED
      BY <3>1, <3>2
  <2> QED
    BY <1>2, <2>5, <2>6, <2>7, <2>8 DEF CatInv, CatalogueKept
<1> QED
  BY <1>3, <1>4, <1>5 DEF ReviewSave, AddReview

\* Notifications are read and deleted.
LEMMA CatNotices ==
    ASSUME CatInv, NEW u \in Shoppers,
           MarkAsRead(u) \/ MarkAllRead(u) \/ DeleteNotification(u) \/ DeleteAllNotifications(u)
    PROVE  CatInv'
<1>1. UNCHANGED <<people, reviews, tasks, carried, overlaps>>
  BY DEF MarkAsRead, MarkAllRead, DeleteNotification, DeleteAllNotifications, Keep
<1>2. notices \subseteq Notification /\ DiscountsTold
  BY DEF CatInv, CatTypes, CatalogueKept
<1>3. ASSUME NEW S, S \subseteq notices
      PROVE  \A m \in Mark(S) : m \in Notification /\ (m.type = "discount" => m.pct \in carried)
  <2> SUFFICES ASSUME NEW n \in S, NEW m, m = [n EXCEPT !.read = TRUE]
               PROVE  m \in Notification /\ (m.type = "discount" => m.pct \in carried)
    BY DEF Mark
  <2>1. n \in Notification /\ (n.type = "discount" => n.pct \in carried)
    BY <1>2, <1>3 DEF DiscountsTold
  <2> QED
    BY <2>1 DEF Notification
<1>4. \E S \in SUBSET notices : notices' \subseteq notices \cup Mark(S)
  <2>1. CASE MarkAsRead(u)
    <3>1. PICK n \in notices : notices' = (notices \ {n}) \cup Mark({n})
      BY <2>1 DEF MarkAsRead, Keep
    <3>2. {n} \in SUBSET notices /\ notices' \subseteq notices \cup Mark({n})
      BY <3>1
    <3> QED
      BY <3>2
  <2>2. CASE MarkAllRead(u)
    <3>1. PICK mine : /\ mine = {n \in notices : n.to = u}
                      /\ notices' = (notices \ mine) \cup Mark(mine)
      BY <2>2 DEF MarkAllRead, Keep
    <3>2. mine \in SUBSET notices /\ notices' \subseteq notices \cup Mark(mine)
      BY <3>1
    <3> QED
      BY <3>2
  <2>3. CASE DeleteNotification(u) \/ DeleteAllNotifications(u)
    <3>1. notices' \subseteq notices
      BY <2>3 DEF DeleteNotification, DeleteAllNotifications, Keep
    <3> QED
      BY <3>1
  <2> QED
    BY <2>1, <2>2, <2>3
<1>5. notices' \subseteq Notification /\ \A n \in notices' : n.type = "discount" => n.pct \in carried
  BY <1>2, <1>3, <1>4 DEF DiscountsTold
<1>6. DiscountsTold'
  BY <1>1, <1>5 DEF DiscountsTold
<1>7. reviews \in [Shoppers -> Nat]
  BY DEF CatInv, CatTypes
<1> QED
  BY <1>1, <1>5, <1>6, <1>7, OthersMove

\* Carts, orders and accounts.
LEMMA CatOthers ==
    ASSUME CatInv,
           \/ \E u \in Shoppers : CartHolds(u) \/ OrderMoves(u) \/ ShopperLeaves(u)
           \/ SellerLeaves
    PROVE  CatInv'
<1>0. /\ reviews \in [Shoppers -> Nat] /\ notices \subseteq Notification
      /\ \A n \in notices : n.type = "discount" => n.pct \in carried
  BY DEF CatInv, CatTypes, CatalogueKept, DiscountsTold
<1>1. UNCHANGED <<tasks, carried, overlaps>> /\ people' \subseteq people /\ notices' \subseteq notices
  BY DEF CartHolds, OrderMoves, ShopperLeaves, SellerLeaves
<1>2. reviews' \in [Shoppers -> Nat] /\ \A u \in Shoppers : reviews'[u] \in {0, reviews[u]}
  <2>1. CASE reviews' = reviews
    BY <1>0, <2>1
  <2>2. ASSUME NEW u \in Shoppers, ShopperLeaves(u)
        PROVE  reviews' \in [Shoppers -> Nat] /\ \A x \in Shoppers : reviews'[x] \in {0, reviews[x]}
    BY <1>0, <2>2 DEF ShopperLeaves
  <2> QED
    BY <2>1, <2>2 DEF CartHolds, OrderMoves, SellerLeaves
<1>3. notices' \subseteq Notification /\ DiscountsTold'
  BY <1>0, <1>1 DEF DiscountsTold
<1> QED
  BY <1>1, <1>2, <1>3, OthersMove

\* Every step of the catalogue keeps its invariant.
LEMMA CatStep ==
    ASSUME CatInv, [CatNext]_catVars
    PROVE  CatInv'
<1>1. CASE CatNext
  BY <1>1, CatProducts, CatDiscounts, CatReviewReads, CatReviewSaves, CatNotices, CatOthers
     DEF CatNext
<1>2. CASE UNCHANGED catVars
  <2>1. UNCHANGED <<shelf, people, carts, bought, reviews, notices, tasks, carried, overlaps>>
    BY <1>2 DEF catVars
  <2> QED
    BY <2>1 DEF CatInv, CatTypes, OneSubmission, TellsWritten, Doing, CatalogueKept,
                ReviewPerPurchase, DiscountsTold
<1> QED
  BY <1>1, <1>2

\* However many submissions, discounts, failures and deletions cross: a purchase
\* has a second review only if two of its customer's submissions overlapped, and
\* nobody is told of a discount that the product never had (addReview,
\* setProductDiscount, deleteAccount).
THEOREM CatalogueIsKept == CatSpec => []CatalogueKept
<1>1. CatInit => CatInv
  BY CatInitially
<1>2. CatInv /\ [CatNext]_catVars => CatInv'
  BY CatStep
<1>3. CatInv => CatalogueKept
  BY DEF CatInv
<1> QED
  BY <1>1, <1>2, <1>3, PTL DEF CatSpec

\* Submissions of u that found no review.
Submitting(u) == {c \in Clerks : tasks[c].user = u /\ tasks[c].known = 0}

\* Each of them can still add one to the reviews there are.
ReviewsCounted == \A u \in Shoppers : reviews[u] + Cardinality(Submitting(u)) <= Cardinality(Clerks)

CatBound == CatTypeOK /\ ReviewsCounted

LEMMA ClerksFinite ==
    /\ Cardinality(Clerks) \in Nat
    /\ \A S \in SUBSET Clerks : /\ IsFiniteSet(S) /\ Cardinality(S) \in Nat
                                /\ Cardinality(S) <= Cardinality(Clerks)
<1>1. IsFiniteSet(Clerks)
  BY CatalogueAssumption
<1>2. ASSUME NEW S \in SUBSET Clerks
      PROVE  IsFiniteSet(S) /\ Cardinality(S) \in Nat /\ Cardinality(S) <= Cardinality(Clerks)
  BY <1>1, FS_Subset, FS_CardinalityType
<1> QED
  BY <1>1, <1>2, FS_CardinalityType

\* A step after which nobody has more reviews or submissions than before.
LEMMA CountedLess ==
    ASSUME CatBound, CatTypes',
           \A u \in Shoppers : reviews'[u] <= reviews[u],
           \A u \in Shoppers : Submitting(u)' \subseteq Submitting(u)
    PROVE  ReviewsCounted'
<1> SUFFICES ASSUME NEW u \in Shoppers
             PROVE  reviews'[u] + Cardinality(Submitting(u)') <= Cardinality(Clerks)
  BY DEF ReviewsCounted
<1>1. PICK S, T : S = Submitting(u) /\ T = Submitting(u)'
  OBVIOUS
<1>2. S \in SUBSET Clerks /\ T \in SUBSET S /\ T \in SUBSET Clerks
  BY <1>1 DEF Submitting
<1>3. IsFiniteSet(S) /\ Cardinality(S) \in Nat /\ Cardinality(T) \in Nat
      /\ Cardinality(T) <= Cardinality(S)
  BY <1>2, ClerksFinite, FS_Subset
<1>4. reviews[u] \in Nat /\ reviews'[u] \in Nat /\ reviews'[u] <= reviews[u]
      /\ Cardinality(Clerks) \in Nat
      /\ reviews[u] + Cardinality(S) <= Cardinality(Clerks)
  BY <1>1, ClerksFinite DEF CatBound, CatTypeOK, ReviewsCounted, CatTypes
<1> QED
  BY <1>1, <1>3, <1>4

\* A request that is free, or keeps what it submits, submits no more.
LEMMA SubmitsLess ==
    ASSUME CatTypes, NEW c \in Clerks, NEW task, SetTask(c, task),
           \/ task.user = Nobody
           \/ task.user = tasks[c].user /\ task.known = tasks[c].known
    PROVE  \A u \in Shoppers : Submitting(u)' \subseteq Submitting(u)
BY NoTaskOK DEF CatTypes, SetTask, Submitting

\* A submission begins with what it finds.
LEMMA CountedRead ==
    ASSUME CatInv, CatInv', CatBound, NEW c \in Clerks, NEW u \in Shoppers, ReviewRead(c, u)
    PROVE  ReviewsCounted'
<1>0. /\ CatTypes /\ CatTypes' /\ tasks \in [Clerks -> Task]
      /\ reviews \in [Shoppers -> 0 .. Cardinality(Clerks)] /\ Cardinality(Clerks) \in Nat
  BY ClerksFinite DEF CatInv, CatTypes, CatBound, CatTypeOK
<1> SUFFICES ASSUME NEW x \in Shoppers
             PROVE  reviews'[x] + Cardinality(Submitting(x)') <= Cardinality(Clerks)
  BY DEF ReviewsCounted
<1>1. PICK task : task = [NoTask EXCEPT !.pc = "review", !.user = u, !.known = reviews[u]]
  OBVIOUS
<1>2. task.user = u /\ task.known = reviews[u]
  BY <1>1 DEF NoTask
<1>3. UNCHANGED reviews /\ \A d \in Clerks : tasks'[d] = IF d = c THEN task ELSE tasks[d]
  <2>1. SetTask(c, task)
    BY <1>1 DEF ReviewRead
  <2>2. UNCHANGED reviews
    BY DEF ReviewRead
  <2> QED
    BY <1>0, <2>1, <2>2 DEF SetTask
<1>4. PICK S, T : S = Submitting(x) /\ T = Submitting(x)'
  OBVIOUS
<1>5. S \in SUBSET Clerks /\ T \in SUBSET Clerks
  BY <1>4 DEF Submitting
<1>6. Cardinality(S) \in Nat /\ Cardinality(T) \in Nat /\ Cardinality(T) <= Cardinality(Clerks)
      /\ IsFiniteSet(S) /\ reviews[x] + Cardinality(S) <= Cardinality(Clerks)
  BY <1>4, <1>5, ClerksFinite DEF CatBound, ReviewsCounted
<1>7. CASE reviews[x] = 0
  BY <1>0, <1>3, <1>4, <1>6, <1>7
<1>8. CASE reviews[x] # 0
  <2>1. T \in SUBSET S
    BY <1>2, <1>3, <1>4, <1>8 DEF Submitting
  <2>2. Cardinality(T) <= Cardinality(S)
    BY <1>6, <2>1, FS_Subset
  <2> QED
    BY <1>0, <1>3, <1>4, <1>6, <2>2
<1> QED
  BY <1>7, <1>8

\* What was found decides whether a review is added.
LEMMA CountedSave ==
    ASSUME CatInv, CatInv', CatBound, NEW c \in Clerks, ReviewSave(c)
    PROVE  ReviewsCounted'
<1>0. /\ CatTypes /\ CatTypes' /\ tasks \in [Clerks -> Task]
      /\ reviews \in [Shoppers -> 0 .. Cardinality(Clerks)] /\ Cardinality(Clerks) \in Nat
  BY ClerksFinite DEF CatInv, CatTypes, CatBound, CatTypeOK
<1>1. SetTask(c, NoTask)
  BY DEF ReviewSave
<1>2. \A d \in Clerks : tasks'[d] = IF d = c THEN NoTask ELSE tasks[d]
  BY <1>0, <1>1 DEF SetTask
<1>3. \A x \in Shoppers : Submitting(x)' \subseteq Submitting(x)
  BY <1>0, <1>1, NoTaskOK, SubmitsLess
<1>4. PICK u : u = tasks[c].user
  OBVIOUS
<1>5. CASE reviews' = reviews
  BY <1>0, <1>3, <1>5, CountedLess
<1>6. CASE tasks[c].known = 0 /\ u \in people /\ reviews' = [reviews EXCEPT ![u] = @ + 1]
  <2> SUFFICES ASSUME NEW x \in Shoppers
               PROVE  reviews'[x] + Cardinality(Submitting(x)') <= Cardinality(Clerks)
    BY DEF ReviewsCounted
  <2>1. PICK S, T : S = Submitting(x) /\ T = Submitting(x)'
    OBVIOUS
  <2>2. S \in SUBSET Clerks /\ T \in SUBSET S /\ T \in SUBSET Clerks
    BY <1>3, <2>1 DEF Submitting
  <2>3. Cardinality(S) \in Nat /\ Cardinality(T) \in Nat /\ Cardinality(T) <= Cardinality(S)
        /\ IsFiniteSet(S) /\ reviews[x] + Cardinality(S) <= Cardinality(Clerks)
    BY <2>1, <2>2, ClerksFinite, FS_Subset DEF CatBound, ReviewsCounted
  <2>4. CASE x = u
    <3>1. c \in S /\ T = S \ {c}
      BY <1>2, <1>4, <1>6, <2>1, <2>4, NoTaskOK DEF Submitting
    <3>2. Cardinality(T) = Cardinality(S) - 1
      BY <2>3, <3>1, FS_RemoveElement
    <3>3. reviews'[x] = reviews[x] + 1
      BY <1>0, <1>6, <2>4
    <3> QED
      BY <1>0, <2>1, <2>3, <3>2, <3>3
  <2>5. CASE x # u
    BY <1>0, <1>6, <2>1, <2>3, <2>5
  <2> QED
    BY <2>4, <2>5
<1> QED
  BY <1>4, <1>5, <1>6 DEF ReviewSave, AddReview

\* What every other handler leaves of the reviews.
LEMMA CountedOthers ==
    ASSUME CatInv, CatInv', CatBound, CatNext,
           ~\E c \in Clerks : (\E u \in Shoppers : ReviewRead(c, u)) \/ ReviewSave(c)
    PROVE  ReviewsCounted'
<1>1. CatTypes /\ CatTypes' /\ tasks \in [Clerks -> Task] /\ reviews \in [Shoppers -> Nat]
  BY DEF CatInv, CatTypes
<1>2. ASSUME UNCHANGED <<tasks, reviews>> PROVE ReviewsCounted'
  BY <1>1, <1>2, CountedLess DEF Submitting
<1>3. ASSUME NEW c \in Clerks, NEW task, UNCHANGED reviews, SetTask(c, task),
             \/ task.user = Nobody
             \/ task.user = tasks[c].user /\ task.known = tasks[c].known
      PROVE  ReviewsCounted'
  BY <1>1, <1>3, SubmitsLess, CountedLess
<1>4. NoTask.user = Nobody
  BY NoTaskOK
<1>5. \A pc, pct : [NoTask EXCEPT !.pc = pc].user = Nobody
                   /\ [NoTask EXCEPT !.pc = pc, !.pct = pct].user = Nobody
  BY DEF NoTask
<1>6. \A c \in Clerks : \A pc, to :
        /\ [tasks[c] EXCEPT !.pc = pc].user = tasks[c].user
        /\ [tasks[c] EXCEPT !.pc = pc].known = tasks[c].known
        /\ [tasks[c] EXCEPT !.pc = pc, !.to = to].user = tasks[c].user
        /\ [tasks[c] EXCEPT !.pc = pc, !.to = to].known = tasks[c].known
  BY <1>1 DEF Task
<1>7. ASSUME NEW c \in Clerks,
             CreateProduct(c) \/ CreateAdminSellerProduct(c) \/ NewProductNotify(c)
      PROVE  ReviewsCounted'
  BY <1>3, <1>4, <1>5, <1>7
  DEF CreateProduct, CreateAdminSellerProduct, NewProductNotify, Notify, ShelfOnly, TaskOnly
<1>13. ASSUME NEW c \in Clerks, NewProductRecipients(c) PROVE ReviewsCounted'
  <2>1. PICK task : task = [tasks[c] EXCEPT !.pc = "notify", !.to = people]
    OBVIOUS
  <2>2. task.user = tasks[c].user /\ task.known = tasks[c].known
    BY <1>1, <2>1 DEF Task
  <2>3. SetTask(c, task) /\ UNCHANGED reviews
    BY <1>13, <2>1 DEF NewProductRecipients, TaskOnly
  <2> QED
    BY <1>3, <2>2, <2>3
<1>8. ASSUME NEW c \in Clerks,
             \/ DeleteProduct(c) \/ DeleteSellerProduct(c)
             \/ DiscountWrite(c) \/ DiscountNotify(c) \/ ReviewCheck(c)
      PROVE  ReviewsCounted'
  BY <1>2, <1>3, <1>4, <1>5, <1>6, <1>8
  DEF DeleteProduct, DeleteSellerProduct, DiscountWrite, DiscountNotify, ReviewCheck,
      Notify, ShelfOnly, TaskOnly
<1>9. ASSUME NEW c \in Clerks, NEW pct \in Discounts,
             UpdateProduct(c, pct) \/ UpdateSellerProduct(c, pct) \/ DiscountRead(c, pct)
      PROVE  ReviewsCounted'
  BY <1>2, <1>3, <1>4, <1>5, <1>9
  DEF UpdateProduct, UpdateSellerProduct, DiscountRead, ShelfOnly, TaskOnly
<1>10. ASSUME NEW u \in Shoppers,
              \/ MarkAsRead(u) \/ MarkAllRead(u)
              \/ DeleteNotification(u) \/ DeleteAllNotifications(u)
              \/ CartHolds(u) \/ OrderMoves(u)
       PROVE  ReviewsCounted'
  BY <1>2, <1>10 DEF MarkAsRead, MarkAllRead, DeleteNotification, DeleteAllNotifications,
                     Keep, CartHolds, OrderMoves
<1>11. ASSUME NEW u \in Shoppers, ShopperLeaves(u) PROVE ReviewsCounted'
  <2>1. \A x \in Shoppers : reviews'[x] <= reviews[x]
    BY <1>1, <1>11 DEF ShopperLeaves
  <2>2. \A x \in Shoppers : Submitting(x)' \subseteq Submitting(x)
    BY <1>11 DEF ShopperLeaves, Submitting
  <2> QED
    BY <1>1, <2>1, <2>2, CountedLess
<1>12. CASE SellerLeaves
  BY <1>2, <1>12 DEF SellerLeaves
<1> QED
  BY <1>7, <1>8, <1>9, <1>10, <1>11, <1>12, <1>13 DEF CatNext

\* What the steps do to the product, the carts, the orders and the notices.
LEMMA CatShapes ==
    ASSUME CatInv, CatInv', CatBound, CatNext
    PROVE  /\ shelf' \in [st : {"none", "listed", "archived", "deleted"}, owned : BOOLEAN,
                          discount : Discounts \cup {0}]
           /\ carts' \subseteq people'
           /\ bought' \in [Shoppers -> {"none", "open", "Delivered", "returned"}]
           /\ \A n \in notices' : n.to \in people'
<1>1. /\ shelf \in [st : {"none", "listed", "archived", "deleted"}, owned : BOOLEAN,
                    discount : Discounts \cup {0}]
      /\ carts \subseteq people /\ \A n \in notices : n.to \in people
      /\ bought \in [Shoppers -> {"none", "open", "Delivered", "returned"}]
      /\ \A c \in Clerks : tasks[c].pct \in Discounts \cup {0}
  BY DEF CatInv, CatTypes, CatBound, CatTypeOK, Task
<1>2. ASSUME NEW pct \in Discounts \cup {0}, WriteDiscount(pct)
      PROVE  shelf' \in [st : {"none", "listed", "archived", "deleted"}, owned : BOOLEAN,
                         discount : Discounts \cup {0}]
  BY <1>1, <1>2 DEF WriteDiscount
<1>3. ASSUME NEW c \in Clerks, NEW users, NEW type, NEW pct, Notify(c, users, type, pct)
      PROVE  UNCHANGED <<shelf, people, carts, bought>> /\ \A n \in notices' : n.to \in people
  BY <1>1, <1>3 DEF Notify
<1>4. ASSUME NEW c \in Clerks,
             CreateProduct(c) \/ CreateAdminSellerProduct(c) \/ NewProductRecipients(c)
      PROVE  /\ UNCHANGED <<people, carts, bought, notices>>
             /\ shelf' \in {shelf, [shelf EXCEPT !.st = "listed"]}
  BY <1>4 DEF CreateProduct, CreateAdminSellerProduct, NewProductRecipients, ShelfOnly,
              TaskOnly
<1>5. ASSUME NEW c \in Clerks, DeleteProduct(c) \/ DeleteSellerProduct(c)
      PROVE  /\ UNCHANGED <<people, carts, bought, notices>>
             /\ shelf' \in {shelf, [shelf EXCEPT !.st = "deleted"]}
  BY <1>5 DEF DeleteProduct, DeleteSellerProduct, RemoveRow, ShelfOnly, TaskOnly
<1>6. ASSUME NEW c \in Clerks, NEW pct \in Discounts,
             UpdateProduct(c, pct) \/ UpdateSellerProduct(c, pct) \/ DiscountRead(c, pct)
      PROVE  /\ UNCHANGED <<people, carts, bought, notices>>
             /\ UNCHANGED shelf \/ WriteDiscount(pct)
  BY <1>6 DEF UpdateProduct, UpdateSellerProduct, DiscountRead, ShelfOnly, TaskOnly
<1>7. ASSUME NEW c \in Clerks, DiscountWrite(c)
      PROVE  /\ UNCHANGED <<people, carts, bought, notices>>
             /\ UNCHANGED shelf \/ WriteDiscount(tasks[c].pct)
  BY <1>7 DEF DiscountWrite, ShelfOnly
<1>8. ASSUME NEW c \in Clerks,
             (\E u \in Shoppers : ReviewRead(c, u)) \/ ReviewCheck(c) \/ ReviewSave(c)
      PROVE  UNCHANGED <<shelf, people, carts, bought, notices>>
  <2>1. CASE \E u \in Shoppers : ReviewRead(c, u)
    <3>1. PICK u \in Shoppers : ReviewRead(c, u)
      BY <2>1
    <3> QED
      BY <3>1 DEF ReviewRead
  <2>2. CASE ReviewCheck(c)
    BY <2>2 DEF ReviewCheck, TaskOnly
  <2>3. CASE ReviewSave(c)
    BY <2>3 DEF ReviewSave
  <2> QED
    BY <1>8, <2>1, <2>2, <2>3
<1>9. ASSUME NEW u \in Shoppers,
             MarkAsRead(u) \/ MarkAllRead(u) \/ DeleteNotification(u) \/ DeleteAllNotifications(u)
      PROVE  UNCHANGED <<shelf, people, carts, bought>> /\ \A n \in notices' : n.to \in people
  <2>1. UNCHANGED <<shelf, people, carts, bought>>
    BY <1>9 DEF MarkAsRead, MarkAllRead, DeleteNotification, DeleteAllNotifications, Keep
  <2>2. ASSUME NEW S, S \subseteq notices PROVE \A m \in Mark(S) : m.to \in people
    <3> SUFFICES ASSUME NEW n \in S, NEW m, m = [n EXCEPT !.read = TRUE] PROVE m.to \in people
      BY DEF Mark
    <3>1. n \in Notification /\ n.to \in people
      BY <1>1, <2>2 DEF CatInv, CatTypes
    <3> QED
      BY <3>1 DEF Notification
  <2>3. CASE MarkAsRead(u)
    <3>1. PICK n \in notices : notices' = (notices \ {n}) \cup Mark({n})
      BY <2>3 DEF MarkAsRead, Keep
    <3>2. \A m \in Mark({n}) : m.to \in people
      BY <2>2
    <3> QED
      BY <1>1, <2>1, <3>1, <3>2
  <2>4. CASE MarkAllRead(u)
    <3>1. PICK mine : /\ mine \subseteq notices
                      /\ notices' = (notices \ mine) \cup Mark(mine)
      <4>1. PICK mine : mine = {n \in notices : n.to = u}
        OBVIOUS
      <4>2. mine \subseteq notices /\ notices' = (notices \ mine) \cup Mark(mine)
        BY <2>4, <4>1 DEF MarkAllRead, Keep
      <4> QED
        BY <4>2
    <3>2. \A m \in Mark(mine) : m.to \in people
      BY <2>2, <3>1
    <3> QED
      BY <1>1, <2>1, <3>1, <3>2
  <2>5. CASE DeleteNotification(u) \/ DeleteAllNotifications(u)
    BY <1>1, <2>1, <2>5 DEF DeleteNotification, DeleteAllNotifications, Keep
  <2> QED
    BY <1>9, <2>3, <2>4, <2>5
<1>10. ASSUME NEW u \in Shoppers, CartHolds(u) \/ OrderMoves(u)
       PROVE  /\ UNCHANGED <<shelf, people, notices>> /\ carts' \subseteq people
              /\ bought' \in [Shoppers -> {"none", "open", "Delivered", "returned"}]
  BY <1>1, <1>10 DEF CartHolds, OrderMoves
<1>11. ASSUME NEW u \in Shoppers, ShopperLeaves(u)
       PROVE  /\ UNCHANGED <<shelf, bought>> /\ carts' \subseteq people'
              /\ \A n \in notices' : n.to \in people'
  BY <1>1, <1>11 DEF ShopperLeaves
<1>12. CASE SellerLeaves
  BY <1>1, <1>12 DEF SellerLeaves
<1>13. ASSUME NEW c \in Clerks, NewProductNotify(c) \/ DiscountNotify(c)
       PROVE  UNCHANGED <<shelf, people, carts, bought>> /\ \A n \in notices' : n.to \in people
  BY <1>3, <1>13 DEF NewProductNotify, DiscountNotify
<1>14. CASE \E c \in Clerks : \/ CreateProduct(c) \/ CreateAdminSellerProduct(c)
                              \/ NewProductRecipients(c) \/ DeleteProduct(c)
                              \/ DeleteSellerProduct(c)
  BY <1>1, <1>4, <1>5, <1>14
<1>15. CASE \E c \in Clerks : \/ DiscountWrite(c)
                              \/ \E pct \in Discounts :
                                   UpdateProduct(c, pct) \/ UpdateSellerProduct(c, pct)
                                   \/ DiscountRead(c, pct)
  BY <1>1, <1>2, <1>6, <1>7, <1>15
<1>16. CASE \E c \in Clerks : \/ NewProductNotify(c) \/ DiscountNotify(c)
                              \/ \E u \in Shoppers : ReviewRead(c, u)
                              \/ ReviewCheck(c) \/ ReviewSave(c)
  BY <1>1, <1>8, <1>13, <1>16
<1>17. CASE \E u \in Shoppers : \/ MarkAsRead(u) \/ MarkAllRead(u)
                                \/ DeleteNotification(u) \/ DeleteAllNotifications(u)
                                \/ CartHolds(u) \/ OrderMoves(u) \/ ShopperLeaves(u)
  BY <1>1, <1>9, <1>10, <1>11, <1>17
<1> QED
  BY <1>12, <1>14, <1>15, <1>16, <1>17 DEF CatNext

\* What a request knows of the reviews it has read, or knew before.
LEMMA KnowsReviews ==
    ASSUME CatInv, CatBound, CatNext, NEW d \in Clerks
    PROVE  tasks'[d].known \in {0, tasks[d].known} \cup {reviews[u] : u \in Shoppers}
<1>1. tasks \in [Clerks -> Task]
  BY DEF CatInv, CatTypes
<1>2. ASSUME UNCHANGED tasks
      PROVE  tasks'[d].known \in {0, tasks[d].known}
  BY <1>2
<1>3. ASSUME NEW c \in Clerks, NEW task, SetTask(c, task), task.known \in {0, tasks[c].known}
      PROVE  tasks'[d].known \in {0, tasks[d].known}
  BY <1>1, <1>3 DEF SetTask
<1>4. NoTask.known = 0
  BY DEF NoTask
<1>5. \A pc, pct : [NoTask EXCEPT !.pc = pc].known = 0
                   /\ [NoTask EXCEPT !.pc = pc, !.pct = pct].known = 0
  BY DEF NoTask
<1>6. \A c \in Clerks : \A pc : [tasks[c] EXCEPT !.pc = pc].known = tasks[c].known
  BY <1>1 DEF Task
<1>7. ASSUME NEW c \in Clerks,
             CreateProduct(c) \/ CreateAdminSellerProduct(c) \/ NewProductNotify(c)
      PROVE  tasks'[d].known \in {0, tasks[d].known}
  BY <1>3, <1>4, <1>5, <1>7
  DEF CreateProduct, CreateAdminSellerProduct, NewProductNotify, Notify
<1>8. ASSUME NEW c \in Clerks, NewProductRecipients(c)
      PROVE  tasks'[d].known \in {0, tasks[d].known}
  <2>1. PICK task : task = [tasks[c] EXCEPT !.pc = "notify", !.to = people]
    OBVIOUS
  <2>2. task.known = tasks[c].known
    BY <1>1, <2>1 DEF Task
  <2>3. SetTask(c, task)
    BY <1>8, <2>1 DEF NewProductRecipients
  <2> QED
    BY <1>3, <2>2, <2>3
<1>9. ASSUME NEW c \in Clerks,
             \/ DeleteProduct(c) \/ DeleteSellerProduct(c)
             \/ DiscountWrite(c) \/ DiscountNotify(c) \/ ReviewCheck(c)
      PROVE  tasks'[d].known \in {0, tasks[d].known}
  BY <1>2, <1>3, <1>4, <1>5, <1>6, <1>9
  DEF DeleteProduct, DeleteSellerProduct, DiscountWrite, DiscountNotify, ReviewCheck, Notify
<1>10. ASSUME NEW c \in Clerks, NEW pct \in Discounts,
              UpdateProduct(c, pct) \/ UpdateSellerProduct(c, pct) \/ DiscountRead(c, pct)
       PROVE  tasks'[d].known \in {0, tasks[d].known}
  BY <1>2, <1>3, <1>4, <1>5, <1>10 DEF UpdateProduct, UpdateSellerProduct, DiscountRead
<1>11. ASSUME NEW c \in Clerks, ReviewSave(c)
       PROVE  tasks'[d].known \in {0, tasks[d].known}
  BY <1>3, <1>4, <1>11 DEF ReviewSave
<1>12. ASSUME NEW c \in Clerks, NEW u \in Shoppers, ReviewRead(c, u)
       PROVE  tasks'[d].known \in {tasks[d].known, reviews[u]}
  <2>1. PICK task : task = [NoTask EXCEPT !.pc = "review", !.user = u, !.known = reviews[u]]
    OBVIOUS
  <2>2. task.known = reviews[u]
    BY <2>1 DEF NoTask
  <2>3. SetTask(c, task)
    BY <1>12, <2>1 DEF ReviewRead
  <2> QED
    BY <1>1, <2>2, <2>3 DEF SetTask
<1>13. ASSUME NEW u \in Shoppers,
              \/ MarkAsRead(u) \/ MarkAllRead(u)
              \/ DeleteNotification(u) \/ DeleteAllNotifications(u)
              \/ CartHolds(u) \/ OrderMoves(u) \/ ShopperLeaves(u)
       PROVE  UNCHANGED tasks
  BY <1>13 DEF MarkAsRead, MarkAllRead, DeleteNotification, DeleteAllNotifications,
               Keep, CartHolds, OrderMoves, ShopperLeaves
<1>14. CASE SellerLeaves
  BY <1>14 DEF SellerLeaves
<1> QED
  BY <1>7, <1>8, <1>9, <1>10, <1>11, <1>12, <1>13, <1>14 DEF CatNext

\* The bound on the reviews is kept with the count behind it.
LEMMA CatBoundStep ==
    ASSUME CatInv, CatInv', CatBound, [CatNext]_catVars
    PROVE  CatBound'
<1>1. CASE CatNext
  <2>1. ReviewsCounted'
    BY <1>1, CountedRead, CountedSave, CountedOthers
  <2>2. /\ reviews \in [Shoppers -> 0 .. Cardinality(Clerks)]
        /\ \A c \in Clerks : tasks[c].known \in 0 .. Cardinality(Clerks)
    BY DEF CatBound, CatTypeOK
  <2>3. /\ people' \subseteq Shoppers /\ notices' \subseteq Notification
        /\ reviews' \in [Shoppers -> Nat] /\ tasks' \in [Clerks -> Task]
    BY DEF CatInv, CatTypes
  <2>4. reviews' \in [Shoppers -> 0 .. Cardinality(Clerks)]
    <3> SUFFICES ASSUME NEW u \in Shoppers PROVE reviews'[u] \in 0 .. Cardinality(Clerks)
      BY <2>3
    <3>1. PICK S : S = Submitting(u)'
      OBVIOUS
    <3>2. S \in SUBSET Clerks
      BY <3>1 DEF Submitting
    <3>3. reviews'[u] + Cardinality(S) <= Cardinality(Clerks)
      BY <2>1, <3>1 DEF ReviewsCounted
    <3> QED
      BY <2>3, <3>2, <3>3, ClerksFinite
  <2>5. \A c \in Clerks : tasks'[c].known \in 0 .. Cardinality(Clerks)
    BY <1>1, <2>2, ClerksFinite, KnowsReviews
  <2>6. tasks' \in [Clerks -> [pc : {"free", "create", "recipients", "notify", "update",
                                    "delete", "discount", "carts", "review", "save"},
                              user : Shoppers \cup {Nobody}, pct : Discounts \cup {0},
                              to : SUBSET Shoppers, known : 0 .. Cardinality(Clerks)]]
    BY <2>3, <2>5 DEF Task
  <2>7. CatTypeOK'
    BY <1>1, <2>3, <2>4, <2>6, CatShapes DEF CatTypeOK
  <2> QED
    BY <2>1, <2>7 DEF CatBound
<1>2. CASE UNCHANGED catVars
  BY <1>2 DEF catVars, CatBound, CatTypeOK, ReviewsCounted, Submitting
<1> QED
  BY <1>1, <1>2

\* Every value of the catalogue is of its type; an order never has more reviews
\* than there are requests at a time, however its submissions overlap (addReview).
THEOREM CatalogueTypeOK == CatSpec => []CatTypeOK
<1>1. CatInit => CatBound
  <2> SUFFICES ASSUME CatInit PROVE CatBound
    OBVIOUS
  <2>1. CatTypeOK
    <3>1. NoTask \in [pc : {"free", "create", "recipients", "notify", "update",
                            "delete", "discount", "carts", "review", "save"},
                      user : Shoppers \cup {Nobody}, pct : Discounts \cup {0},
                      to : SUBSET Shoppers, known : 0 .. Cardinality(Clerks)]
      BY ClerksFinite DEF NoTask
    <3> QED
      BY <3>1, ClerksFinite DEF CatInit, CatTypeOK
  <2>2. \A u \in Shoppers : Submitting(u) \in SUBSET Clerks
    BY DEF Submitting
  <2>3. ReviewsCounted
    BY <2>2, ClerksFinite DEF CatInit, ReviewsCounted
  <2> QED
    BY <2>1, <2>3 DEF CatBound
<1>2. CatInit => CatInv
  BY CatInitially
<1>3. CatInv /\ [CatNext]_catVars => CatInv'
  BY CatStep
<1>4. CatInv /\ CatInv' /\ CatBound /\ [CatNext]_catVars => CatBound'
  BY CatBoundStep
<1>5. CatBound => CatTypeOK
  BY DEF CatBound
<1> QED
  BY <1>1, <1>2, <1>3, <1>4, <1>5, PTL DEF CatSpec

-----------------------------------------------------------------------------
(* The age of a recommendation map *)

\* A map in the cache, or read and about to be, was in the file when its time
\* says, and no time is later than the clock.
DatesOK ==
    /\ cache.loadedAt <= clock
    /\ cache.map # Nothing => cache.loadedAt <= HeldAt(cache.map)
    /\ \A t \in Trainings : held[t] <= clock
    /\ \A v \in Visits : /\ visits[v].since <= clock
                         /\ In(v, "read") => visits[v].since <= HeldAt(visits[v].map)

\* Once no training runs, cache and readers have the map of the file.
MapsOK ==
    ~raced /\ ~Training =>
        /\ cache.map \in {Nothing, file}
        /\ \A v \in Visits : In(v, "read") => visits[v].map = file

RecInv == RecTypeOK /\ DatesOK /\ MapsOK /\ CacheFresh

\* At first no map is in cache and none has been read.
LEMMA RecInitially == RecInit => RecInv
<1> SUFFICES ASSUME RecInit PROVE RecInv
  OBVIOUS
<1>1. 0 \in Trainings /\ 0 \in 0 .. MaxClock
  BY RecommendationAssumption DEF Trainings
<1>2. cache.map = Nothing /\ cache.loadedAt = 0
  BY DEF RecInit, NoCache
<1>3. RecTypeOK
  BY <1>1 DEF RecInit, RecTypeOK, NoCache
<1>4. DatesOK
  BY <1>2 DEF RecInit, DatesOK, In
<1>5. MapsOK
  BY <1>2 DEF RecInit, MapsOK, In
<1>6. CacheFresh
  BY RecommendationAssumption DEF RecInit, CacheFresh, NoAnswer
<1> QED
  BY <1>3, <1>4, <1>5, <1>6 DEF RecInv

\* The numbers are numbers.
LEMMA RecTyped ==
    ASSUME RecTypeOK
    PROVE  /\ clock \in Int /\ cache.loadedAt \in Int /\ cache.map \in Trainings \cup {Nothing}
           /\ \A t \in Trainings : held[t] \in Int /\ HeldAt(t) \in Int
           /\ \A v \in Visits : /\ visits[v].since \in 0 .. MaxClock /\ visits[v].since \in Int
                                /\ visits[v].map \in Trainings
           /\ Torn \notin Trainings /\ Nothing \notin Trainings
<1>1. /\ clock \in Int /\ cache.loadedAt \in Int /\ cache.map \in Trainings \cup {Nothing}
      /\ \A t \in Trainings : held[t] \in Int
  BY RecommendationAssumption DEF RecTypeOK
<1>2. \A t \in Trainings : HeldAt(t) \in Int
  BY <1>1 DEF HeldAt
<1>3. \A v \in Visits : /\ visits[v].since \in 0 .. MaxClock /\ visits[v].map \in Trainings
  BY DEF RecTypeOK
<1>4. \A v \in Visits : visits[v].since \in Int
  <2>1. \A x \in 0 .. MaxClock : x \in Int
    OBVIOUS
  <2> QED
    BY <1>3, <2>1
<1>5. Torn \notin Trainings /\ Nothing \notin Trainings
  BY DEF Trainings, Torn, Nothing
<1> QED
  BY <1>1, <1>2, <1>3, <1>4, <1>5

\* A visit that takes its next step on its own: nothing of a map is read,
\* written or begun.
LEMMA VisitMoves ==
    ASSUME RecInv, NEW v \in Visits, NEW visit,
           visit \in [pc : {"none", "map", "reading"}, since : 0 .. MaxClock, map : Trainings],
           visit.since <= clock,
           visits[v].pc \in {"none", "map", "reading", "read"},
           SetVisit(v, visit), UNCHANGED <<file, clock, trained, held, raced>>
    PROVE  /\ visits' \in [Visits -> [pc : {"none", "map", "reading", "read",
                                            "training", "writing", "trained"},
                                      since : 0 .. MaxClock, map : Trainings]]
           /\ Training' <=> Training
           /\ \A w \in Visits : In(w, "read")' => In(w, "read") /\ visits'[w] = visits[w]
           /\ \A w \in Visits : visits'[w].since <= clock
<1>1. visits \in [Visits -> [pc : {"none", "map", "reading", "read",
                                   "training", "writing", "trained"},
                             since : 0 .. MaxClock, map : Trainings]]
  BY DEF RecInv, RecTypeOK
<1>2. visits' = [visits EXCEPT ![v] = visit]
  BY DEF SetVisit
<1>3. visit.pc \in {"none", "map", "reading"}
  OBVIOUS
<1>4. \A w \in Visits : visits'[w] = IF w = v THEN visit ELSE visits[w]
  BY <1>1, <1>2
<1>5. visits' \in [Visits -> [pc : {"none", "map", "reading", "read",
                                    "training", "writing", "trained"},
                              since : 0 .. MaxClock, map : Trainings]]
  BY <1>1, <1>2
<1>6. Training' <=> Training
  BY <1>3, <1>4 DEF Training
<1>7. \A w \in Visits : In(w, "read")' => In(w, "read") /\ visits'[w] = visits[w]
  BY <1>3, <1>4 DEF In
<1>8. \A w \in Visits : visits'[w].since <= clock
  BY <1>4 DEF RecInv, DatesOK
<1> QED
  BY <1>5, <1>6, <1>7, <1>8

\* A request that reads the product, misses the cache or falls back.
LEMMA RecQuiet ==
    ASSUME RecInv, NEW v \in Visits, NEW visit,
           visit \in [pc : {"none", "map", "reading"}, since : 0 .. MaxClock, map : Trainings],
           visit.since <= clock,
           visits[v].pc \in {"none", "map", "reading", "read"},
           SetVisit(v, visit), UNCHANGED <<file, cache, clock, trained, held, raced>>,
           CacheFresh'
    PROVE  RecInv'
<1>1. /\ visits' \in [Visits -> [pc : {"none", "map", "reading", "read",
                                            "training", "writing", "trained"},
                                      since : 0 .. MaxClock, map : Trainings]]
      /\ Training' <=> Training
      /\ \A w \in Visits : In(w, "read")' => In(w, "read") /\ visits'[w] = visits[w]
      /\ \A w \in Visits : visits'[w].since <= clock
  BY VisitMoves
<1>2. \A t : HeldAt(t)' = HeldAt(t)
  BY DEF HeldAt
<1>3. RecTypeOK'
  BY <1>1 DEF RecInv, RecTypeOK
<1>4. DatesOK'
  <2>1. \A w \in Visits : In(w, "read")' => visits'[w].since <= HeldAt(visits[w].map)'
    BY <1>1, <1>2 DEF RecInv, DatesOK
  <2> QED
    BY <1>1, <1>2, <2>1 DEF RecInv, DatesOK
<1>5. MapsOK'
  BY <1>1 DEF RecInv, MapsOK
<1> QED
  BY <1>3, <1>4, <1>5 DEF RecInv

\* A visit that has ended is at the origin of time and holds no map.
LEMMA NoVisitOK ==
    /\ NoVisit \in [pc : {"none", "map", "reading"}, since : 0 .. MaxClock, map : Trainings]
    /\ NoVisit.since = 0 /\ NoVisit.pc = "none" /\ NoVisit.map = 0
<1>1. 0 \in Trainings /\ 0 \in 0 .. MaxClock
  BY RecommendationAssumption DEF Trainings
<1> QED
  BY <1>1 DEF NoVisit

\* A request reads the product, and finds a live map in the cache or not.
LEMMA RecReads ==
    ASSUME RecInv, NEW v \in Visits, ProductRead(v) \/ CacheHit(v) \/ CacheMiss(v)
    PROVE  RecInv'
<1>0. clock \in 0 .. MaxClock /\ clock \in Int /\ 0 <= clock
  BY RecTyped DEF RecInv, RecTypeOK
<1>1. CASE ProductRead(v)
  <2>1. PICK visit : visit = [NoVisit EXCEPT !.pc = "map"]
    OBVIOUS
  <2>2. /\ visit \in [pc : {"none", "map", "reading"}, since : 0 .. MaxClock, map : Trainings]
        /\ visit.since <= clock
    BY <1>0, <2>1, NoVisitOK DEF NoVisit
  <2>3. CacheFresh'
    BY <1>1 DEF ProductRead, CacheFresh, RecInv
  <2> QED
    BY <1>1, <2>1, <2>2, <2>3, RecQuiet DEF ProductRead, In
<1>2. CASE CacheMiss(v)
  <2>1. PICK visit : visit = [NoVisit EXCEPT !.pc = "reading", !.since = clock]
    OBVIOUS
  <2>2. /\ visit \in [pc : {"none", "map", "reading"}, since : 0 .. MaxClock, map : Trainings]
        /\ visit.since <= clock
    <3>1. visit = [pc |-> "reading", since |-> clock, map |-> 0]
      BY <2>1 DEF NoVisit
    <3>2. 0 \in Trainings
      BY RecommendationAssumption DEF Trainings
    <3>3. visit.since = clock
      BY <3>1
    <3> QED
      BY <1>0, <3>1, <3>2, <3>3
  <2>3. CacheFresh'
    BY <1>2 DEF CacheMiss, CacheFresh, RecInv
  <2> QED
    BY <1>2, <2>1, <2>2, <2>3, RecQuiet DEF CacheMiss, In
<1>3. CASE CacheHit(v)
  <2>1. /\ cache.map # Nothing /\ clock - cache.loadedAt < TTL
        /\ answer' = [age |-> clock - HeldAt(cache.map), old |-> cache.map # file /\ ~Training]
    BY <1>3 DEF CacheHit, CacheValid, Serve
  <2>2. PICK h \in Int : h = HeldAt(cache.map) /\ cache.loadedAt <= h
    BY <2>1, RecTyped DEF RecInv, DatesOK
  <2>3. answer'.age < TTL
    <3>1. answer'.age = clock - h
      BY <2>1, <2>2
    <3>2. cache.loadedAt \in Int /\ TTL \in Int
      BY RecTyped, RecommendationAssumption DEF RecInv
    <3> QED
      BY <1>0, <2>1, <2>2, <3>1, <3>2
  <2>4. answer'.old => raced
    <3>1. answer'.old => cache.map # file /\ ~Training
      BY <2>1
    <3> QED
      BY <2>1, <3>1 DEF RecInv, MapsOK
  <2>5. CacheFresh'
    BY <1>3, <2>3, <2>4 DEF CacheHit, CacheFresh
  <2>6. NoVisit.since <= clock
    BY <1>0, NoVisitOK
  <2> QED
    BY <1>3, <2>5, <2>6, NoVisitOK, RecQuiet DEF CacheHit, In
<1> QED
  BY <1>1, <1>2, <1>3

\* A request reads the bytes of the file; torn ones are nothing to it.
LEMMA RecFile ==
    ASSUME RecInv, NEW v \in Visits, FileBytes(v)
    PROVE  RecInv'
<1>0. clock \in 0 .. MaxClock /\ clock \in Int /\ 0 <= clock
  BY RecTyped DEF RecInv, RecTypeOK
<1>1. /\ In(v, "reading") /\ CacheFresh'
      /\ UNCHANGED <<file, cache, clock, trained, held, raced>>
  BY DEF FileBytes, CacheFresh, RecInv
<1>2. CASE file = Torn
  <2>1. SetVisit(v, NoVisit) /\ NoVisit.since <= clock
    BY <1>0, <1>2, NoVisitOK DEF FileBytes
  <2> QED
    BY <1>1, <2>1, NoVisitOK, RecQuiet DEF In
<1>3. CASE file # Torn
  <2>1. file \in Trainings
    BY <1>3 DEF RecInv, RecTypeOK
  <2>2. visits' = [visits EXCEPT ![v] = [visits[v] EXCEPT !.pc = "read", !.map = file]]
    BY <1>3 DEF FileBytes, SetVisit
  <2>3. /\ visits \in [Visits -> [pc : {"none", "map", "reading", "read",
                                        "training", "writing", "trained"},
                                  since : 0 .. MaxClock, map : Trainings]]
        /\ visits[v].since \in 0 .. MaxClock /\ visits[v].since <= clock
    BY DEF RecInv, RecTypeOK, DatesOK
  <2>4. PICK visit : visit = [visits[v] EXCEPT !.pc = "read", !.map = file]
    OBVIOUS
  <2>5. /\ visit \in [pc : {"none", "map", "reading", "read",
                                        "training", "writing", "trained"},
                                  since : 0 .. MaxClock, map : Trainings]
        /\ visit.pc = "read" /\ visit.map = file /\ visit.since = visits[v].since
    BY <2>1, <2>3, <2>4
  <2>6. /\ visits' \in [Visits -> [pc : {"none", "map", "reading", "read",
                                        "training", "writing", "trained"},
                                  since : 0 .. MaxClock, map : Trainings]]
        /\ \A w \in Visits : visits'[w] = IF w = v THEN visit ELSE visits[w]
    BY <2>2, <2>3, <2>4, <2>5
  <2>7. Training' <=> Training
    BY <1>1, <2>5, <2>6 DEF Training, In
  <2>8. \A t : HeldAt(t)' = HeldAt(t)
    BY <1>1 DEF HeldAt
  <2>9. RecTypeOK'
    BY <1>1, <2>6 DEF RecInv, RecTypeOK
  <2>10. DatesOK'
    <3>1. HeldAt(visit.map) = clock
      BY <2>5 DEF HeldAt
    <3>2. \A w \in Visits : In(w, "read")' => visits'[w].since <= HeldAt(visits'[w].map)
      BY <2>3, <2>5, <2>6, <3>1 DEF RecInv, DatesOK, In
    <3>3. \A w \in Visits : visits'[w].since <= clock
      BY <2>3, <2>5, <2>6 DEF RecInv, DatesOK
    <3>4. \A w \in Visits : In(w, "read")' => visits'[w].since <= HeldAt(visits[w].map)'
      BY <2>8, <3>2
    <3> QED
      BY <1>1, <2>8, <3>3, <3>4 DEF RecInv, DatesOK
  <2>11. MapsOK'
    BY <1>1, <2>5, <2>6, <2>7 DEF RecInv, MapsOK, In
  <2> QED
    BY <1>1, <2>9, <2>10, <2>11 DEF RecInv
<1> QED
  BY <1>2, <1>3

\* What a request read is put into the cache and answered from.
LEMMA RecArrives ==
    ASSUME RecInv, NEW v \in Visits, FileArrives(v)
    PROVE  RecInv'
<1>0. clock \in 0 .. MaxClock /\ clock \in Int /\ 0 <= clock
  BY RecTyped DEF RecInv, RecTypeOK
<1>1. /\ In(v, "read") /\ cache' = [map |-> visits[v].map, loadedAt |-> visits[v].since]
      /\ answer' = [age |-> 0, old |-> visits[v].map # file /\ ~Training]
      /\ SetVisit(v, NoVisit) /\ UNCHANGED <<file, clock, trained, held, raced>>
  BY DEF FileArrives, LoadedAt, Serve
<1>2. /\ visits' \in [Visits -> [pc : {"none", "map", "reading", "read",
                                            "training", "writing", "trained"},
                                      since : 0 .. MaxClock, map : Trainings]]
      /\ Training' <=> Training
      /\ \A w \in Visits : In(w, "read")' => In(w, "read") /\ visits'[w] = visits[w]
      /\ \A w \in Visits : visits'[w].since <= clock
  <2>1. NoVisit.since <= clock /\ visits[v].pc = "read"
    BY <1>0, <1>1, NoVisitOK DEF In
  <2> QED
    BY <1>1, <2>1, NoVisitOK, VisitMoves
<1>3. \A t : HeldAt(t)' = HeldAt(t)
  BY <1>1 DEF HeldAt
<1>4. PICK m, s : m = visits[v].map /\ s = visits[v].since
  OBVIOUS
<1>5. /\ m \in Trainings /\ s \in 0 .. MaxClock /\ s <= clock /\ s <= HeldAt(m)
      /\ cache'.map = m /\ cache'.loadedAt = s
      /\ cache' \in [map : Trainings \cup {Nothing}, loadedAt : 0 .. MaxClock]
  <2>1. m \in Trainings /\ s \in 0 .. MaxClock /\ s <= clock /\ s <= HeldAt(m)
    BY <1>1, <1>4, RecTyped DEF RecInv, DatesOK
  <2> QED
    BY <1>1, <1>4, <2>1
<1>6. RecTypeOK'
  BY <1>1, <1>2, <1>5 DEF RecInv, RecTypeOK
<1>7. DatesOK'
  <2>1. \A w \in Visits : In(w, "read")' => visits'[w].since <= HeldAt(visits[w].map)'
    BY <1>2, <1>3 DEF RecInv, DatesOK
  <2>2. cache'.loadedAt <= HeldAt(cache.map)'
    BY <1>3, <1>5
  <2> QED
    BY <1>1, <1>2, <1>5, <2>1, <2>2 DEF RecInv, DatesOK
<1>8. MapsOK'
  <2>1. ~raced /\ ~Training => m = file
    BY <1>1, <1>4 DEF RecInv, MapsOK
  <2> QED
    BY <1>1, <1>2, <1>5, <2>1 DEF RecInv, MapsOK
<1>9. CacheFresh'
  <2>1. answer'.old => raced
    BY <1>1 DEF RecInv, MapsOK
  <2> QED
    BY <1>1, <2>1, RecommendationAssumption DEF CacheFresh
<1> QED
  BY <1>6, <1>7, <1>8, <1>9 DEF RecInv

\* A visit of a training that goes on: another training that runs, no reader.
LEMMA TrainingMoves ==
    ASSUME RecInv, NEW v \in Visits, NEW visit,
           visit \in [pc : {"none", "training", "writing", "trained"},
                      since : 0 .. MaxClock, map : Trainings],
           visit.since <= clock, SetVisit(v, visit)
    PROVE  /\ visits' \in [Visits -> [pc : {"none", "map", "reading", "read",
                                            "training", "writing", "trained"},
                                      since : 0 .. MaxClock, map : Trainings]]
           /\ visit.pc # "none" => Training'
           /\ \A w \in Visits : In(w, "read")' => In(w, "read") /\ visits'[w] = visits[w]
           /\ \A w \in Visits : visits'[w].since <= clock
<1>1. visits \in [Visits -> [pc : {"none", "map", "reading", "read",
                                   "training", "writing", "trained"},
                             since : 0 .. MaxClock, map : Trainings]]
  BY DEF RecInv, RecTypeOK
<1>2. visits' = [visits EXCEPT ![v] = visit]
  BY DEF SetVisit
<1>3. visit.pc \in {"none", "training", "writing", "trained"}
  OBVIOUS
<1>4. \A w \in Visits : visits'[w] = IF w = v THEN visit ELSE visits[w]
  BY <1>1, <1>2
<1>5. visits' \in [Visits -> [pc : {"none", "map", "reading", "read",
                                    "training", "writing", "trained"},
                              since : 0 .. MaxClock, map : Trainings]]
  BY <1>1, <1>2
<1>6. visit.pc # "none" => Training'
  BY <1>3, <1>4 DEF Training
<1>7. \A w \in Visits : In(w, "read")' => In(w, "read") /\ visits'[w] = visits[w]
  BY <1>3, <1>4 DEF In
<1>8. \A w \in Visits : visits'[w].since <= clock
  BY <1>4 DEF RecInv, DatesOK
<1> QED
  BY <1>5, <1>6, <1>7, <1>8

\* The file is emptied, or filled: what it held is dated now.
LEMMA FileChanges ==
    ASSUME RecInv, NEW v \in Visits, NEW visit, visit.pc # "none",
           visit \in [pc : {"none", "training", "writing", "trained"},
                      since : 0 .. MaxClock, map : Trainings],
           visit.since <= clock, SetVisit(v, visit),
           file' \in Trainings \cup {Torn},
           held' = IF file = Torn THEN held ELSE [held EXCEPT ![file] = clock],
           UNCHANGED <<cache, clock, trained, answer, raced>>
    PROVE  RecInv'
<1>0. clock \in 0 .. MaxClock /\ clock \in Int /\ 0 <= clock
  BY RecTyped DEF RecInv, RecTypeOK
<1>1. /\ visits' \in [Visits -> [pc : {"none", "map", "reading", "read",
                                            "training", "writing", "trained"},
                                      since : 0 .. MaxClock, map : Trainings]]
      /\ Training'
      /\ \A w \in Visits : In(w, "read")' => In(w, "read") /\ visits'[w] = visits[w]
      /\ \A w \in Visits : visits'[w].since <= clock
  BY TrainingMoves
<1>2. /\ file \in Trainings \cup {Torn} /\ held \in [Trainings -> 0 .. MaxClock]
      /\ cache \in [map : Trainings \cup {Nothing}, loadedAt : 0 .. MaxClock]
  BY DEF RecInv, RecTypeOK
<1>3. /\ held' \in [Trainings -> 0 .. MaxClock]
      /\ \A t \in Trainings : held'[t] = IF t = file THEN clock ELSE held[t]
  <2>1. CASE file = Torn
    BY <1>2, <2>1, RecTyped DEF RecInv
  <2>2. CASE file # Torn
    BY <1>0, <1>2, <2>2
  <2> QED
    BY <2>1, <2>2
<1>4. \A t \in Trainings : held'[t] <= clock
  BY <1>0, <1>3 DEF RecInv, DatesOK
<1>5. \A t \in Trainings : \A x : x \in Int /\ x <= clock /\ x <= HeldAt(t)
                                    => x <= (IF file' = t THEN clock ELSE held'[t])
  BY <1>0, <1>3 DEF HeldAt
<1>6. RecTypeOK'
  BY <1>1, <1>3 DEF RecInv, RecTypeOK
<1>7. DatesOK'
  <2>1. ASSUME NEW w \in Visits, In(w, "read")'
        PROVE  visits'[w].since <= (IF file' = visits'[w].map THEN clock ELSE held'[visits'[w].map])
    <3>1. PICK m, x : m = visits[w].map /\ x = visits[w].since
      OBVIOUS
    <3>2. m \in Trainings /\ x \in Int /\ x <= clock /\ x <= HeldAt(m)
      BY <1>1, <2>1, <3>1, RecTyped DEF RecInv, DatesOK
    <3>3. x <= (IF file' = m THEN clock ELSE held'[m])
      BY <1>5, <3>2
    <3> QED
      BY <1>1, <2>1, <3>1, <3>3
  <2>2. ASSUME cache.map # Nothing
        PROVE  cache.loadedAt <= (IF file' = cache.map THEN clock ELSE held'[cache.map])
    <3>1. cache.map \in Trainings /\ cache.loadedAt \in Int
          /\ cache.loadedAt <= clock /\ cache.loadedAt <= HeldAt(cache.map)
      BY <1>2, <2>2, RecTyped DEF RecInv, DatesOK
    <3> QED
      BY <1>5, <3>1
  <2>3. cache.loadedAt <= clock
    BY DEF RecInv, DatesOK
  <2> QED
    BY <1>1, <1>4, <2>1, <2>2, <2>3 DEF DatesOK, HeldAt
<1>8. MapsOK'
  BY <1>1 DEF MapsOK
<1>9. CacheFresh'
  BY DEF RecInv, CacheFresh
<1> QED
  BY <1>6, <1>7, <1>8, <1>9 DEF RecInv

\* A training begins, empties the file and fills it.
LEMMA RecTrains ==
    ASSUME RecInv, NEW v \in Visits, RetrainBegin(v) \/ ScriptOpens(v) \/ ScriptWrites(v)
    PROVE  RecInv'
<1>0. /\ clock \in 0 .. MaxClock /\ clock \in Int /\ 0 <= clock /\ trained \in Trainings
      /\ file \in Trainings \cup {Torn}
  BY RecTyped DEF RecInv, RecTypeOK
<1>1. /\ visits[v] \in [pc : {"none", "map", "reading", "read", "training", "writing", "trained"},
                        since : 0 .. MaxClock, map : Trainings]
      /\ visits[v].since <= clock
  BY DEF RecInv, RecTypeOK, DatesOK
<1>2. CASE RetrainBegin(v)
  <2>1. PICK visit : visit = [NoVisit EXCEPT !.pc = "training", !.map = trained + 1]
    OBVIOUS
  <2>2. trained' = trained + 1 /\ trained' \in Trainings
    BY <1>0, <1>2, RecommendationAssumption DEF RetrainBegin, Trainings
  <2>3. /\ visit \in [pc : {"none", "training", "writing", "trained"},
                      since : 0 .. MaxClock, map : Trainings]
        /\ visit.since <= clock /\ visit.pc = "training"
    <3>1. PICK t \in Trainings : t = trained + 1
      BY <2>2
    <3>2. visit = [pc |-> "training", since |-> 0, map |-> t]
      BY <2>1, <3>1 DEF NoVisit
    <3>3. 0 \in 0 .. MaxClock
      BY RecommendationAssumption
    <3> QED
      BY <1>0, <3>2, <3>3
  <2>4. SetVisit(v, visit) /\ UNCHANGED <<file, cache, clock, held, answer, raced>>
    BY <1>2, <2>1 DEF RetrainBegin
  <2>5. /\ visits' \in [Visits -> [pc : {"none", "map", "reading", "read",
                                              "training", "writing", "trained"},
                                        since : 0 .. MaxClock, map : Trainings]]
        /\ Training'
        /\ \A w \in Visits : In(w, "read")' => In(w, "read") /\ visits'[w] = visits[w]
        /\ \A w \in Visits : visits'[w].since <= clock
    BY <2>3, <2>4, TrainingMoves
  <2>6. RecTypeOK'
    BY <2>2, <2>4, <2>5 DEF RecInv, RecTypeOK
  <2>7. DatesOK'
    <3>1. \A t : HeldAt(t)' = HeldAt(t)
      BY <2>4 DEF HeldAt
    <3>2. \A w \in Visits : In(w, "read")' => visits'[w].since <= HeldAt(visits[w].map)'
      BY <2>5, <3>1 DEF RecInv, DatesOK
    <3> QED
      BY <2>4, <2>5, <3>1, <3>2 DEF RecInv, DatesOK
  <2>8. MapsOK' /\ CacheFresh'
    BY <2>4, <2>5 DEF MapsOK, RecInv, CacheFresh
  <2> QED
    BY <2>6, <2>7, <2>8 DEF RecInv
<1>3. CASE ScriptOpens(v)
  <2>1. PICK visit : visit = [visits[v] EXCEPT !.pc = "writing"]
    OBVIOUS
  <2>2. /\ visit \in [pc : {"none", "training", "writing", "trained"},
                      since : 0 .. MaxClock, map : Trainings]
        /\ visit.since <= clock /\ visit.pc # "none"
    BY <1>1, <2>1
  <2> QED
    BY <1>3, <2>1, <2>2, FileChanges DEF ScriptOpens
<1>4. CASE ScriptWrites(v)
  <2>1. PICK visit : visit = [visits[v] EXCEPT !.pc = "trained"]
    OBVIOUS
  <2>2. /\ visit \in [pc : {"none", "training", "writing", "trained"},
                      since : 0 .. MaxClock, map : Trainings]
        /\ visit.since <= clock /\ visit.pc # "none"
    BY <1>1, <2>1
  <2>3. file' \in Trainings
    BY <1>1, <1>4 DEF ScriptWrites
  <2> QED
    BY <1>4, <2>1, <2>2, <2>3, FileChanges DEF ScriptWrites
<1> QED
  BY <1>2, <1>3, <1>4

\* A training ends: with success it drops the cache, and readers may be behind;
\* when it fails nothing more is claimed.
LEMMA RecEnds ==
    ASSUME RecInv, NEW v \in Visits, RetrainDone(v) \/ RetrainFails(v)
    PROVE  RecInv'
<1>0. clock \in 0 .. MaxClock /\ clock \in Int /\ 0 <= clock
  BY RecTyped DEF RecInv, RecTypeOK
<1>1. SetVisit(v, NoVisit) /\ UNCHANGED <<file, clock, trained, held, answer>>
  BY DEF RetrainDone, RetrainFails
<1>2. /\ visits' \in [Visits -> [pc : {"none", "map", "reading", "read",
                                            "training", "writing", "trained"},
                                      since : 0 .. MaxClock, map : Trainings]]
      /\ \A w \in Visits : In(w, "read")' => In(w, "read") /\ visits'[w] = visits[w]
      /\ \A w \in Visits : visits'[w].since <= clock
  <2>1. PICK visit : visit = NoVisit
    OBVIOUS
  <2>2. /\ visit \in [pc : {"none", "training", "writing", "trained"},
                      since : 0 .. MaxClock, map : Trainings]
        /\ visit.since <= clock
    <3>1. 0 \in 0 .. MaxClock /\ 0 \in Trainings
      BY RecommendationAssumption DEF Trainings
    <3>2. visit = [pc |-> "none", since |-> 0, map |-> 0]
      BY <2>1 DEF NoVisit
    <3> QED
      BY <1>0, <3>1, <3>2
  <2>3. SetVisit(v, visit)
    BY <1>1, <2>1
  <2> QED
    BY <2>2, <2>3, TrainingMoves
<1>3. cache' = NoCache \/ cache' = cache
  BY DEF RetrainDone, RetrainFails
<1>4. NoCache.map = Nothing /\ NoCache.loadedAt = 0
      /\ NoCache \in [map : Trainings \cup {Nothing}, loadedAt : 0 .. MaxClock]
  BY RecommendationAssumption DEF NoCache
<1>5. RecTypeOK'
  BY <1>1, <1>2, <1>3, <1>4 DEF RecInv, RecTypeOK
<1>6. DatesOK'
  <2>1. \A t : HeldAt(t)' = HeldAt(t)
    BY <1>1 DEF HeldAt
  <2>2. \A w \in Visits : In(w, "read")' => visits'[w].since <= HeldAt(visits[w].map)'
    BY <1>2, <2>1 DEF RecInv, DatesOK
  <2>3. cache'.loadedAt <= clock
    BY <1>0, <1>3, <1>4 DEF RecInv, DatesOK
  <2>4. cache'.map # Nothing => cache'.loadedAt <= HeldAt(cache.map)'
    <3>1. CASE cache' = NoCache
      BY <1>4, <3>1
    <3>2. CASE cache' = cache
      BY <2>1, <3>2 DEF RecInv, DatesOK
    <3> QED
      BY <1>3, <3>1, <3>2
  <2> QED
    BY <1>1, <1>2, <2>2, <2>3, <2>4 DEF RecInv, DatesOK
<1>7. MapsOK'
  <2>1. CASE RetrainFails(v)
    BY <2>1 DEF RetrainFails, MapsOK
  <2>2. CASE RetrainDone(v)
    <3>1. cache' = NoCache /\ (~raced' => \A w \in Visits : ~In(w, "read"))
      BY <2>2 DEF RetrainDone, In
    <3> QED
      BY <1>2, <1>4, <3>1 DEF MapsOK
  <2> QED
    BY <2>1, <2>2
<1>8. CacheFresh'
  <2>1. raced => raced'
    BY DEF RetrainDone, RetrainFails
  <2> QED
    BY <1>1, <2>1 DEF RecInv, CacheFresh
<1> QED
  BY <1>5, <1>6, <1>7, <1>8 DEF RecInv

\* Time passes.
LEMMA RecTicks ==
    ASSUME RecInv, ClockTicks
    PROVE  RecInv'
<1>0. clock \in 0 .. MaxClock /\ clock \in Int /\ clock' = clock + 1 /\ clock' \in 0 .. MaxClock
  BY RecTyped, RecommendationAssumption DEF RecInv, RecTypeOK, ClockTicks
<1>1. /\ answer' = NoAnswer /\ (Training' <=> Training)
      /\ UNCHANGED <<file, cache, visits, trained, held, raced>>
  BY DEF ClockTicks, Training
<1>2. RecTypeOK'
  BY <1>0, <1>1 DEF RecInv, RecTypeOK
<1>3. \A x \in Int : x <= clock => x <= clock'
  BY <1>0
<1>4. \A t \in Trainings : \A x \in Int : x <= clock /\ x <= HeldAt(t)
                                    => x <= (IF file = t THEN clock' ELSE held[t])
  BY <1>3 DEF HeldAt
<1>5. DatesOK'
  <2>1. /\ cache.loadedAt <= clock /\ (cache.map # Nothing => cache.loadedAt <= HeldAt(cache.map))
        /\ cache.loadedAt \in Int /\ cache.map \in Trainings \cup {Nothing}
    BY RecTyped DEF RecInv, DatesOK
  <2>2. \A t \in Trainings : held[t] <= clock /\ held[t] \in Int
    BY RecTyped DEF RecInv, DatesOK
  <2>3. \A v \in Visits : /\ visits[v].since <= clock /\ visits[v].since \in Int
                          /\ visits[v].map \in Trainings
                          /\ In(v, "read") => visits[v].since <= HeldAt(visits[v].map)
    BY RecTyped DEF RecInv, DatesOK
  <2>4. cache.loadedAt <= clock' /\ \A t \in Trainings : held[t] <= clock'
    BY <1>3, <2>1, <2>2
  <2>5. cache.map # Nothing => cache.loadedAt <= (IF file = cache.map THEN clock' ELSE held[cache.map])
    BY <1>4, <2>1
  <2>6. \A v \in Visits : visits[v].since <= clock'
    BY <1>3, <2>3
  <2>7. \A v \in Visits : In(v, "read") =>
          visits[v].since <= (IF file = visits[v].map THEN clock' ELSE held[visits[v].map])
    BY <1>4, <2>3
  <2> QED
    BY <1>1, <2>4, <2>5, <2>6, <2>7 DEF DatesOK, HeldAt, In
<1>6. MapsOK'
  BY <1>1 DEF RecInv, MapsOK, In
<1>7. CacheFresh'
  BY <1>1, RecommendationAssumption DEF NoAnswer, CacheFresh
<1> QED
  BY <1>2, <1>5, <1>6, <1>7 DEF RecInv

\* Every step of the recommendation service keeps its invariant.
LEMMA RecStep ==
    ASSUME RecInv, [RecNext]_recVars
    PROVE  RecInv'
<1>1. CASE RecNext
  BY <1>1, RecReads, RecFile, RecArrives, RecTrains, RecEnds, RecTicks DEF RecNext
<1>2. CASE UNCHANGED recVars
  <2>1. UNCHANGED <<file, cache, clock, visits, trained, held, answer, raced>>
    BY <1>2 DEF recVars
  <2> QED
    BY <2>1 DEF RecInv, RecTypeOK, DatesOK, MapsOK, CacheFresh, HeldAt, In, Training
<1> QED
  BY <1>1, <1>2

\* However many requests and trainings there are, and however slow each is: the
\* cache serves no map for as long as its lifetime after the file last held it,
\* and once no training runs it serves an earlier one's map only if a training
\* failed or ended while a request had read the file and not yet written the
\* cache (getProductRecommendations, retrainProductRecommendations).
THEOREM CacheIsFresh == RecSpec => []CacheFresh
<1>1. RecInit => RecInv
  BY RecInitially
<1>2. RecInv /\ [RecNext]_recVars => RecInv'
  BY RecStep
<1>3. RecInv => CacheFresh
  BY DEF RecInv
<1> QED
  BY <1>1, <1>2, <1>3, PTL DEF RecSpec
-----------------------------------------------------------------------------
(* Rounding *)

\* A rounded fraction is at most a half away.
LEMMA NearestIsNear ==
    ASSUME NEW n \in Nat, NEW d \in {100, 10000}, NEW k \in Nearest(n, d)
    PROVE  k \in Nat /\ 2 * d * k <= 2 * n + d /\ 2 * n <= 2 * d * k + d
<1>1. CASE d = 100
  BY <1>1 DEF Nearest, HalfUp
<1>2. CASE d = 10000
  BY <1>2 DEF Nearest, HalfUp
<1> QED
  BY <1>1, <1>2

\* A sum of cents in rupees, given in hundredths of a cent.
LEMMA RupeesAreNear ==
    ASSUME NEW n \in Nat, NEW off \in Rupees(n, 100)
    PROVE  off \in Nat /\ 2 * off * 100 <= 2 * n + 10000 /\ 2 * n <= 2 * off * 100 + 10000
<1>1. PICK k \in Nearest(n, 10000) : off = 100 * k
  BY DEF Rupees
<1> QED
  BY <1>1, NearestIsNear

\* A sum of cents in rupees.
LEMMA WholeRupees ==
    ASSUME NEW n \in Nat, NEW off \in Rupees(n, 1)
    PROVE  off \in Nat /\ off <= n + 50 /\ n <= off + 50
<1>1. PICK k \in Nearest(n, 100) : off = 100 * k
  BY DEF Rupees
<1> QED
  BY <1>1, NearestIsNear

\* percentageOfCents rounds too, and leaves something of the amount.
PercentOf(n, pct, o) == /\ o \in Nat /\ o <= n
                        /\ 200 * o <= 2 * (n * pct) + 100
                        /\ 2 * (n * pct) <= 200 * o + 100

LEMMA PercentageIsNear ==
    ASSUME NEW n \in Nat, NEW pct \in 0..100
    PROVE  PercentOf(n, pct, PercentageOfCents(n, pct))
<1>1. PICK x \in Nat : x = n * pct /\ x <= 100 * n
  OBVIOUS
<1>2. n * 100 * pct = 100 * x
  BY <1>1
<1>3. PercentageOfCents(n, pct) = (200 * x + 10000) \div 20000
  BY <1>2 DEF PercentageOfCents, HalfUp
<1> QED
  BY <1>1, <1>3 DEF PercentOf

\* A part and the rest.
LEMMA Distributed ==
    ASSUME NEW a \in Nat, NEW b \in Nat, NEW c \in Nat
    PROVE  (a + b) * c = a * c + b * c
OBVIOUS

\* Quantities keep an order, and percentages of them.
LEMMA Products ==
    ASSUME NEW a \in Nat, NEW b \in Nat, a <= b, NEW c \in Nat
    PROVE  c * a \in Nat /\ c * b \in Nat /\ c * a <= c * b
<1>1. PICK e \in Nat : b = a + e
  BY SMT
<1>2. c * b = c * a + c * e /\ c * a \in Nat /\ c * e \in Nat
  BY <1>1
<1> QED
  BY <1>2

-----------------------------------------------------------------------------
(* The price of a unit *)

\* A product and a code that the store can have.
VoucherOK(v) == /\ v.kind \in {"percentage", "fixed"} /\ v.value \in Nat /\ v.min \in Nat
                /\ v.cap \in Nat \cup {Missing}
                /\ v.kind = "percentage" => v.value <= 100

\* A unit costs no more than its list price, and the assistant says so too.
LEMMA ListingPrices ==
    ASSUME NEW l \in Listing
    PROVE  /\ ListPriceWithOptions(l) \in Nat /\ l.rate \in 0..100
           /\ ListUnitCents(l) = ListPriceWithOptions(l)
           /\ UnitCents(l) \in Nat
           /\ \A u \in EffectivePrices(l) :
                 u \in Nat /\ u <= ListPriceWithOptions(l) /\ Near(u, UnitCents(l), 1)
<1> DEFINE L == ListPriceWithOptions(l)
<1>1. L \in Nat /\ l.rate \in 0..100 /\ l.rate \in Int
  <2>1. /\ l.price \in Prices /\ l.rate \in Rates /\ l.delta \in Deltas
        /\ L = l.price + l.delta
    BY DEF Listing, ListPriceWithOptions
  <2>2. l.price \in Nat /\ l.rate \in 0..100 /\ l.delta \in Int /\ l.price + l.delta >= 0
    BY <2>1, QuotesAssumption
  <2> QED
    BY <2>1, <2>2
<1>2. ListUnitCents(l) = L
  BY <1>1 DEF ListUnitCents, ZeroOrMore, ListPriceWithOptions
<1> HIDE DEF L
<1>3. PICK x \in Nat : x = L * l.rate /\ x <= 100 * L /\ L * (100 - l.rate) = 100 * L - x
  BY <1>1
<1> DEFINE off == PercentageOfCents(L, l.rate)
<1>4. off \in Nat /\ 200 * off <= 2 * x + 100 /\ 2 * x <= 200 * off + 100 /\ off <= L
  <2>1. PercentOf(L, l.rate, off)
    BY <1>1, PercentageIsNear
  <2> HIDE DEF off
  <2> QED
    BY <1>3, <2>1 DEF PercentOf
<1>5. UnitCents(l) = L - off
  BY <1>2 DEF UnitCents, PercentOffCents
<1> HIDE DEF off
<1>6. ASSUME NEW u \in EffectivePrices(l)
      PROVE  u \in Nat /\ u <= L /\ Near(u, UnitCents(l), 1)
  <2>1. u \in Nearest(100 * L - x, 100) /\ 100 * L - x \in Nat
    BY <1>1, <1>3 DEF EffectivePrices, L
  <2>2. u \in Nat /\ 200 * u <= 2 * (100 * L - x) + 100 /\ 2 * (100 * L - x) <= 200 * u + 100
    BY <2>1, NearestIsNear
  <2>3. x <= 100 * L /\ L \in Nat
    BY <1>1, <1>3
  <2> QED
    BY <1>4, <1>5, <2>2, <2>3 DEF Near
<1> QED
  BY <1>1, <1>2, <1>4, <1>5, <1>6 DEF L

-----------------------------------------------------------------------------
(* The assistant's preview *)

\* What the server and the assistant take off for a code, on the same amount.
LEMMA DiscountsAgree ==
    ASSUME NEW v, VoucherOK(v), NEW isOpen \in BOOLEAN, NEW sum \in Nat
    PROVE  /\ EvaluatePromo(v, isOpen, sum) \in Nat
           /\ EvaluatePromo(v, isOpen, sum) <= sum
           /\ \A off \in ServerDiscounts(v, isOpen, sum) :
                 /\ off \in Nat
                 /\ ~(v.kind = "fixed" /\ v.cap # Missing) =>
                       Near(off, EvaluatePromo(v, isOpen, sum), 50)
<1> DEFINE told == EvaluatePromo(v, isOpen, sum)
<1>1. CASE ~isOpen \/ sum < v.min
  BY <1>1 DEF EvaluatePromo, ServerDiscounts, Near
<1>2. CASE ~(~isOpen \/ sum < v.min) /\ v.kind = "percentage"
  <2>1. v.value \in 0..100
    BY <1>2 DEF VoucherOK
  <2>2. PICK y \in Nat : y = sum * v.value /\ y <= 100 * sum
    BY <2>1
  <2>3. PICK h \in Nat : /\ h = PercentageOfCents(sum, v.value) /\ h <= sum
                         /\ 200 * h <= 2 * y + 100 /\ 2 * y <= 200 * h + 100
    <3> DEFINE raw == PercentageOfCents(sum, v.value)
    <3>1. PercentOf(sum, v.value, raw)
      BY <2>1, PercentageIsNear
    <3> HIDE DEF raw
    <3>2. raw \in Nat /\ raw <= sum /\ 200 * raw <= 2 * y + 100 /\ 2 * y <= 200 * raw + 100
      BY <2>2, <3>1 DEF PercentOf
    <3> QED
      BY <3>2 DEF raw
  <2>4. told = Capped(h, v.cap)
    BY <1>2, <2>3 DEF EvaluatePromo
  <2>5. CASE v.cap = Missing
    <3>1. told = h
      BY <2>4, <2>5 DEF Capped
    <3>2. Lower(y, 100 * sum) = y
      BY <2>2 DEF Lower
    <3>3. ServerDiscounts(v, isOpen, sum) = Rupees(y, 100)
      BY <1>2, <2>2, <2>5, <3>2 DEF ServerDiscounts, Capped
    <3>4. ASSUME NEW off \in Rupees(y, 100)
          PROVE  off \in Nat /\ Near(off, h, 50)
      BY <2>3, RupeesAreNear DEF Near
    <3> QED
      BY <2>3, <3>1, <3>3, <3>4
  <2>6. CASE v.cap # Missing
    <3>1. v.cap \in Nat /\ 100 * v.cap # Missing
      BY <2>6, QuotesAssumption DEF VoucherOK
    <3>2. told = Lower(h, v.cap)
      BY <2>4, <2>6 DEF Capped
    <3>3. PICK m \in Nat : m = Lower(y, 100 * v.cap)
      BY <3>1 DEF Lower
    <3>4. Lower(m, 100 * sum) = m
      BY <2>2, <3>1, <3>3 DEF Lower
    <3>5. ServerDiscounts(v, isOpen, sum) = Rupees(m, 100)
      BY <1>2, <2>2, <2>6, <3>1, <3>3, <3>4 DEF ServerDiscounts, Capped
    <3>6. told \in Nat /\ told <= sum /\ 200 * told <= 2 * m + 100 /\ 2 * m <= 200 * told + 100
      BY <2>2, <2>3, <3>1, <3>2, <3>3 DEF Lower
    <3>7. ASSUME NEW off \in Rupees(m, 100)
          PROVE  off \in Nat /\ Near(off, told, 50)
      BY <3>6, RupeesAreNear DEF Near
    <3> QED
      BY <3>5, <3>6, <3>7
  <2> QED
    BY <2>5, <2>6
<1>3. CASE ~(~isOpen \/ sum < v.min) /\ v.kind = "fixed"
  <2>1. v.value \in Nat
    BY DEF VoucherOK
  <2>2. told = Lower(v.value, sum) /\ told \in Nat /\ told <= sum
    BY <1>3, <2>1 DEF EvaluatePromo, Lower
  <2>3. CASE v.cap = Missing
    <3>1. Lower(100 * v.value, 100 * sum) = 100 * told
      BY <2>1, <2>2 DEF Lower
    <3>2. ServerDiscounts(v, isOpen, sum) = Rupees(100 * told, 100)
      BY <1>3, <2>3, <3>1 DEF ServerDiscounts, Capped
    <3>3. ASSUME NEW off \in Rupees(100 * told, 100)
          PROVE  off \in Nat /\ Near(off, told, 50)
      BY <2>2, RupeesAreNear DEF Near
    <3> QED
      BY <2>2, <3>2, <3>3
  <2>4. CASE v.cap # Missing
    <3>1. v.cap \in Nat /\ 100 * v.cap # Missing
      BY <2>4, QuotesAssumption DEF VoucherOK
    <3>2. PICK m \in Nat : m = Lower(Lower(100 * v.value, 100 * v.cap), 100 * sum)
      BY <2>1, <3>1 DEF Lower
    <3>3. ServerDiscounts(v, isOpen, sum) = Rupees(m, 100)
      BY <1>3, <2>4, <3>1, <3>2 DEF ServerDiscounts, Capped
    <3> QED
      BY <1>3, <2>2, <2>4, <3>3, RupeesAreNear
  <2> QED
    BY <2>3, <2>4
<1> QED
  BY <1>1, <1>2, <1>3 DEF VoucherOK

\* So the preview is what would be charged.
LEMMA PreviewTells == QuotesTypeOK => PreviewIsCharge
<1> SUFFICES ASSUME QuotesTypeOK, line # Missing
             PROVE  LET preview == PreviewCheckout(listing, voucher, open, line.qty)
                    IN /\ preview >= 0
                       /\ \A u \in EffectivePrices(listing) : Near(u, UnitCents(listing), 1)
                       /\ EffectivePrices(listing) = {UnitCents(listing)}
                            /\ ~(voucher.kind = "fixed" /\ voucher.cap # Missing)
                          => \A c \in Charges(listing, voucher, open, line.qty) :
                                Near(c, preview, 50)
  BY DEF PreviewIsCharge
<1> DEFINE unit == UnitCents(listing)
           sum == line.qty * unit
           told == EvaluatePromo(voucher, open, sum)
<1>1. line.qty \in Nat /\ unit \in Nat
  BY ListingPrices, QuotesAssumption DEF QuotesTypeOK, Line
<1>2. sum \in Nat
  BY <1>1
<1>3. VoucherOK(voucher) /\ open \in BOOLEAN
  BY QuotesAssumption DEF QuotesTypeOK, VoucherOK
<1>4. PreviewCheckout(listing, voucher, open, line.qty) = sum - told
  BY DEF PreviewCheckout
<1> HIDE DEF sum
<1>5. told \in Nat /\ told <= sum
  BY <1>2, <1>3, DiscountsAgree
<1>6. ASSUME EffectivePrices(listing) = {unit},
             ~(voucher.kind = "fixed" /\ voucher.cap # Missing),
             NEW c \in Charges(listing, voucher, open, line.qty)
      PROVE  Near(c, sum - told, 50)
  <2>1. PICK off \in ServerDiscounts(voucher, open, sum) : c = ZeroOrMore(sum - off)
    BY <1>6 DEF Charges, sum
  <2>2. off \in Nat /\ Near(off, told, 50)
    BY <1>2, <1>3, <1>6, DiscountsAgree
  <2> HIDE DEF told
  <2> QED
    BY <1>2, <1>5, <2>1, <2>2 DEF Near, ZeroOrMore
<1>7. \A u \in EffectivePrices(listing) : Near(u, unit, 1)
  BY ListingPrices DEF QuotesTypeOK
<1>8. sum - told >= 0
  BY <1>2, <1>5
<1> QED
  BY <1>4, <1>6, <1>7, <1>8

-----------------------------------------------------------------------------
(* What the button says *)

\* The discount that was shown, on an amount that is no less, leaves no less to
\* pay, but for the rounding.
LEMMA DiscountsCarry ==
    ASSUME NEW v, VoucherOK(v), ~(v.kind = "fixed" /\ v.cap # Missing),
           NEW sum \in Nat, NEW shown \in Nat, sum <= shown, v.min <= sum,
           NEW off \in ServerDiscounts(v, TRUE, sum), NEW told \in ShownDiscounts(v, shown)
    PROVE  off \in Nat /\ told \in Nat /\ sum - off <= shown - told + 100
<1>1. CASE v.kind = "percentage"
  <2>1. v.value \in 0..100
    BY <1>1 DEF VoucherOK
  <2>2. PICK y \in Nat, z \in Nat :
          /\ y = sum * v.value /\ y <= 100 * sum
          /\ z = shown * v.value /\ y <= z /\ 100 * sum - y <= 100 * shown - z
    <3>1. PICK e \in Nat : shown = sum + e
      BY SMT
    <3>2. PICK y \in Nat : y = sum * v.value /\ y <= 100 * sum
      BY <2>1
    <3>3. PICK w \in Nat : w = e * v.value /\ w <= 100 * e
      BY <2>1
    <3>4. shown * v.value = y + w
      <4>1. v.value \in Nat
        BY <2>1
      <4>2. (sum + e) * v.value = sum * v.value + e * v.value
        BY <4>1, Distributed
      <4> QED
        BY <3>1, <3>2, <3>3, <4>2
    <3> QED
      BY <3>1, <3>2, <3>3, <3>4
  <2>3. CASE v.cap = Missing
    <3>1. ServerDiscounts(v, TRUE, sum) = Rupees(y, 100)
      <4>1. Lower(y, 100 * sum) = y
        BY <2>2 DEF Lower
      <4> QED
        BY <1>1, <2>2, <2>3, <4>1 DEF ServerDiscounts, Capped, VoucherOK
    <3>2. ShownDiscounts(v, shown) = Rupees(z, 100)
      BY <1>1, <2>2, <2>3 DEF ShownDiscounts, Capped
    <3>3. /\ off \in Nat /\ 2 * y <= 2 * off * 100 + 10000
          /\ told \in Nat /\ 2 * told * 100 <= 2 * z + 10000
      <4>1. off \in Rupees(y, 100) /\ told \in Rupees(z, 100)
        BY <3>1, <3>2
      <4> QED
        BY <4>1, RupeesAreNear
    <3> QED
      BY <2>2, <3>3
  <2>4. CASE v.cap # Missing
    <3>1. v.cap \in Nat /\ 100 * v.cap # Missing
      BY <2>4, QuotesAssumption DEF VoucherOK
    <3>2. PICK m \in Nat, k \in Nat : m = Lower(y, 100 * v.cap) /\ k = Lower(z, 100 * v.cap)
      BY <3>1 DEF Lower
    <3>3. Lower(m, 100 * sum) = m /\ 100 * sum - m <= 100 * shown - k
      BY <2>2, <3>1, <3>2 DEF Lower
    <3>4. ServerDiscounts(v, TRUE, sum) = Rupees(m, 100)
      BY <1>1, <2>2, <2>4, <3>1, <3>2, <3>3 DEF ServerDiscounts, Capped, VoucherOK
    <3>5. ShownDiscounts(v, shown) = Rupees(k, 100)
      BY <1>1, <2>2, <2>4, <3>1, <3>2 DEF ShownDiscounts, Capped
    <3>6. /\ off \in Nat /\ 2 * m <= 2 * off * 100 + 10000
          /\ told \in Nat /\ 2 * told * 100 <= 2 * k + 10000
      <4>1. off \in Rupees(m, 100) /\ told \in Rupees(k, 100)
        BY <3>4, <3>5
      <4> QED
        BY <4>1, RupeesAreNear
    <3> QED
      BY <3>3, <3>6
  <2> QED
    BY <2>3, <2>4
<1>2. CASE v.kind = "fixed"
  <2>1. v.value \in Nat /\ v.cap = Missing
    BY <1>2 DEF VoucherOK
  <2>2. PICK m \in Nat, k \in Nat : m = Lower(v.value, sum) /\ k = Lower(v.value, shown)
    BY <2>1 DEF Lower
  <2>3. sum - m <= shown - k /\ Lower(100 * v.value, 100 * sum) = 100 * m
    BY <2>1, <2>2 DEF Lower
  <2>4. ServerDiscounts(v, TRUE, sum) = Rupees(100 * m, 100)
    BY <1>2, <2>1, <2>3 DEF ServerDiscounts, Capped, VoucherOK
  <2>5. ShownDiscounts(v, shown) = Rupees(k, 1)
    BY <1>2, <2>2 DEF ShownDiscounts
  <2>6. /\ off \in Nat /\ 2 * (100 * m) <= 2 * off * 100 + 10000
        /\ told \in Nat /\ told <= k + 50
    <3>1. off \in Rupees(100 * m, 100) /\ told \in Rupees(k, 1)
      BY <2>4, <2>5
    <3>2. off \in Nat /\ 2 * (100 * m) <= 2 * off * 100 + 10000
      <4>1. 100 * m \in Nat
        OBVIOUS
      <4> QED
        BY <3>1, <4>1, RupeesAreNear
    <3>3. told \in Nat /\ told <= k + 50
      BY <3>1, WholeRupees
    <3> QED
      BY <3>2, <3>3
  <2> QED
    BY <2>3, <2>6
<1> QED
  BY <1>1, <1>2 DEF VoucherOK

\* What is on the page, and on a bill, if nothing has changed since the line was
\* added.
PriceInv ==
    /\ QuotesTypeOK
    /\ "line" \in stale => "page" \in stale
    /\ line # Missing /\ "line" \notin stale => line.price = ListPriceWithOptions(listing)
    /\ page # Missing =>
          page = [qty |-> page.qty, price |-> page.price, off |-> page.off]
    /\ page # Missing /\ "page" \notin stale =>
          /\ page.price = ListPriceWithOptions(listing)
          /\ page.off # Missing => open /\ page.off \in ShownDiscounts(voucher, CartTotal(page))
    /\ bill # Missing /\ "page" \notin stale =>
          /\ page # Missing
          /\ bill.charged \in Charges(listing, voucher, open /\ page.off # Missing, page.qty)
          /\ bill.shown = ShownTotal(page)

\* So the button did not say too little.
LEMMA ButtonTells == PriceInv => NeverChargedMore
<1> SUFFICES ASSUME PriceInv, bill # Missing, "page" \notin stale,
                    page.off # Missing => CodeCarries(page.qty)
             PROVE  bill.charged <= bill.shown + 100
  BY DEF NeverChargedMore
<1> DEFINE L == ListPriceWithOptions(listing)
           shown == CartTotal(page)
           applied == page.off # Missing
<1>1. /\ page # Missing /\ page.price = L /\ page.qty \in Nat /\ L \in Nat
      /\ VoucherOK(voucher) /\ open \in BOOLEAN /\ listing \in Listing
  BY QuotesAssumption, ListingPrices DEF PriceInv, QuotesTypeOK, Line, VoucherOK
<1>2. PICK u \in EffectivePrices(listing) :
        \E off \in ServerDiscounts(voucher, open /\ applied, page.qty * u) :
           bill.charged = ZeroOrMore(page.qty * u - off)
  BY DEF PriceInv, Charges
<1> DEFINE sum == page.qty * u
<1>3. u \in Nat /\ u <= L
  BY <1>1, ListingPrices
<1>4. sum \in Nat /\ shown \in Nat /\ sum <= shown
  BY <1>1, <1>3, Products DEF CartTotal
<1>5. PICK off \in ServerDiscounts(voucher, open /\ applied, sum) :
        bill.charged = ZeroOrMore(sum - off)
  BY <1>2
<1>6. bill.shown = ZeroOrMore(shown - IF page.off = Missing THEN 0 ELSE page.off)
  BY DEF PriceInv, ShownTotal
<1>7. CASE page.off = Missing
  <2>1. off = 0
    BY <1>5, <1>7 DEF ServerDiscounts
  <2> HIDE DEF sum, shown
  <2> QED
    BY <1>4, <1>5, <1>6, <1>7, <2>1 DEF ZeroOrMore
<1>8. CASE page.off # Missing
  <2>1. open /\ page.off \in ShownDiscounts(voucher, shown)
    BY <1>1, <1>8 DEF PriceInv
  <2>2. /\ ~(voucher.kind = "fixed" /\ voucher.cap # Missing) /\ voucher.min <= sum
    BY <1>8 DEF CodeCarries
  <2>3. off \in ServerDiscounts(voucher, TRUE, sum)
    BY <1>5, <1>8, <2>1
  <2> HIDE DEF sum, shown
  <2>4. off \in Nat /\ page.off \in Nat /\ sum - off <= shown - page.off + 100
    BY <1>1, <1>4, <2>1, <2>2, <2>3, DiscountsCarry
  <2> QED
    BY <1>4, <1>5, <1>6, <1>8, <2>4 DEF ZeroOrMore
<1> QED
  BY <1>7, <1>8

-----------------------------------------------------------------------------
(* The steps *)

\* The cart is empty and no page is open.
LEMMA PricesInitially == QuotesInit => PriceInv
BY QuotesAssumption DEF QuotesInit, PriceInv, QuotesTypeOK

\* Someone changes the product or closes the code.
LEMMA ChangeKeeps ==
    ASSUME PriceInv, ChangeListing \/ CloseCode
    PROVE  PriceInv'
<1>1. /\ UNCHANGED <<line, page, bill, voucher>> /\ stale' = {"line", "page"}
      /\ listing' \in Listing /\ open' \in BOOLEAN /\ changes' \in 0..MaxChanges
  <2>1. changes \in 0..MaxChanges /\ changes < MaxChanges /\ changes' = changes + 1
        /\ MaxChanges \in Nat
    BY QuotesAssumption DEF ChangeListing, CloseCode, PriceInv, QuotesTypeOK
  <2>2. /\ UNCHANGED <<line, page, bill, voucher>> /\ stale' = {"line", "page"}
        /\ listing' \in Listing /\ open' \in BOOLEAN
    BY DEF ChangeListing, CloseCode, PriceInv, QuotesTypeOK
  <2> QED
    BY <2>1, <2>2
<1> QED
  BY <1>1 DEF PriceInv, QuotesTypeOK

\* The customer fills the cart.
LEMMA CartKeeps ==
    ASSUME PriceInv, AddLine \/ (\E n \in 1..MaxQty : SetQuantity(n)) \/ RemoveLine
    PROVE  PriceInv'
<1>1. /\ UNCHANGED <<listing, voucher, open, page, bill, changes>> /\ bill = Missing
      /\ stale' \in {stale, stale \ {"line"}}
  BY DEF AddLine, SetQuantity, RemoveLine, Here, history
<1>2. CASE AddLine
  <2>1. ListPriceWithOptions(listing) \in LinePrices
    BY DEF PriceInv, QuotesTypeOK, Listing, LinePrices, ListPriceWithOptions
  <2>2. line' \in Line /\ line'.price = ListPriceWithOptions(listing)
    BY <1>2, <2>1, QuotesAssumption DEF AddLine, Line
  <2> QED
    BY <1>1, <2>2 DEF PriceInv, QuotesTypeOK, ListPriceWithOptions
<1>3. CASE \E n \in 1..MaxQty : SetQuantity(n)
  <2>1. line # Missing /\ line' \in Line /\ line'.price = line.price /\ stale' = stale
    BY <1>3 DEF SetQuantity, PriceInv, QuotesTypeOK, Line, history
  <2> QED
    BY <1>1, <2>1 DEF PriceInv, QuotesTypeOK, ListPriceWithOptions
<1>4. CASE RemoveLine
  BY <1>1, <1>4 DEF RemoveLine, PriceInv, QuotesTypeOK, history
<1> QED
  BY <1>2, <1>3, <1>4

\* The checkout page is opened and shows a discount.
LEMMA PageKeeps ==
    ASSUME PriceInv, OpenCheckout \/ ApplyPromo
    PROVE  PriceInv'
<1>1. UNCHANGED <<listing, voucher, open, line, bill, changes>> /\ bill = Missing
  BY DEF OpenCheckout, ApplyPromo, Here, history
<1>2. CASE OpenCheckout
  <2>1. /\ page'.qty = line.qty /\ page'.price = line.price /\ page'.off = Missing
        /\ line \in Line /\ line # Missing
        /\ stale' = IF "line" \in stale THEN stale ELSE {}
    BY <1>2 DEF OpenCheckout, PriceInv, QuotesTypeOK
  <2>2. [qty |-> page'.qty, price |-> page'.price] \in Line
    BY <2>1 DEF Line
  <2>3. page' = [qty |-> page'.qty, price |-> page'.price, off |-> page'.off]
    BY <1>2 DEF OpenCheckout
  <2>4. "page" \notin stale' => "line" \notin stale
    BY <2>1 DEF PriceInv
  <2>5. stale' \subseteq {"line", "page"} /\ ("line" \in stale' => "page" \in stale')
    BY <2>1 DEF PriceInv, QuotesTypeOK
  <2>6. "page" \notin stale' => page'.price = ListPriceWithOptions(listing)
    BY <2>1, <2>4 DEF PriceInv
  <2>7. "line" \notin stale' => "line" \notin stale
    BY <2>1
  <2> QED
    BY <1>1, <2>1, <2>2, <2>3, <2>5, <2>6, <2>7
    DEF PriceInv, QuotesTypeOK, ListPriceWithOptions
<1>3. CASE ApplyPromo
  <2>1. PICK off \in ShownDiscounts(voucher, CartTotal(page)) : page' = [page EXCEPT !.off = off]
    BY <1>3 DEF ApplyPromo
  <2>2. /\ page # Missing /\ open /\ stale' = stale
        /\ page' = [qty |-> page.qty, price |-> page.price, off |-> off]
    BY <1>3, <2>1 DEF ApplyPromo, PriceInv, history
  <2>3. /\ page'.qty = page.qty /\ page'.price = page.price /\ page'.off = off
        /\ CartTotal(page)' = CartTotal(page)
    BY <2>2 DEF CartTotal
  <2> QED
    BY <1>1, <2>1, <2>2, <2>3
    DEF PriceInv, QuotesTypeOK, ListPriceWithOptions, ShownDiscounts
<1> QED
  BY <1>2, <1>3

\* The customer pays, and comes back.
LEMMA SubmitKeeps ==
    ASSUME PriceInv, Submit \/ Return2Shop
    PROVE  PriceInv'
<1>1. UNCHANGED <<listing, voucher, open, stale, changes>>
  BY DEF Submit, Return2Shop, history
<1>2. CASE Submit
  <2>1. PICK c \in Charges(listing, voucher, open /\ page.off # Missing, page.qty) :
          bill' = [charged |-> c, shown |-> ShownTotal(page)]
    BY <1>2 DEF Submit
  <2>2. UNCHANGED <<line, page>> /\ page # Missing
        /\ bill'.charged = c /\ bill'.shown = ShownTotal(page)
    BY <1>2, <2>1 DEF Submit
  <2> QED
    BY <1>1, <2>1, <2>2
    DEF PriceInv, QuotesTypeOK, ListPriceWithOptions, ShownDiscounts, CartTotal, Charges,
        ShownTotal
<1>3. CASE Return2Shop
  BY <1>1, <1>3 DEF Return2Shop, PriceInv, QuotesTypeOK, ListPriceWithOptions
<1> QED
  BY <1>2, <1>3

LEMMA PricesStep ==
    ASSUME PriceInv, [QuotesNext]_quoteVars
    PROVE  PriceInv'
<1>1. CASE QuotesNext
  BY <1>1, ChangeKeeps, CartKeeps, PageKeeps, SubmitKeeps DEF QuotesNext
<1>2. CASE UNCHANGED quoteVars
  BY <1>2
  DEF quoteVars, history, PriceInv, QuotesTypeOK, ListPriceWithOptions, ShownDiscounts,
      CartTotal, Charges, ShownTotal
<1> QED
  BY <1>1, <1>2

\* For any prices, rates, options, codes and quantities, and whatever way the
\* customer takes through cart and pages: the assistant's preview is what the
\* order would cost, and the order costs what the button said or less, to the
\* rounding of each (order.js, promoController.js, assistantPricing.js and the
\* storefront's CartCheckout.tsx).
THEOREM PricesAreKept == QuotesSpec => []PricesKept
<1>1. QuotesInit => PriceInv
  BY PricesInitially
<1>2. PriceInv /\ [QuotesNext]_quoteVars => PriceInv'
  BY PricesStep
<1>3. PriceInv => PricesKept
  BY PreviewTells, ButtonTells DEF PriceInv, PricesKept
<1> QED
  BY <1>1, <1>2, <1>3, PTL DEF QuotesSpec

-----------------------------------------------------------------------------
(* From the catalogue to an order *)

\* Every order, code, product, review, notification, map and price is of its
\* type, for any number of customers, requests and changes; an order never has
\* more reviews than there are requests at a time, and a code's counter never
\* exceeds its limit.
THEOREM ShopTyped == ShopSpec => []ShopTypeOK
<1>1. RecInit => RecInv
  BY RecInitially
<1>2. RecInv /\ [RecNext]_recVars => RecInv'
  BY RecStep
<1>3. RecInv => RecTypeOK
  BY DEF RecInv
<1>4. RecSpec => []RecTypeOK
  BY <1>1, <1>2, <1>3, PTL DEF RecSpec
<1>5. QuotesInit => PriceInv
  BY PricesInitially
<1>6. PriceInv /\ [QuotesNext]_quoteVars => PriceInv'
  BY PricesStep
<1>7. PriceInv => QuotesTypeOK
  BY DEF PriceInv
<1>8. QuotesSpec => []QuotesTypeOK
  BY <1>5, <1>6, <1>7, PTL DEF QuotesSpec
<1>9. TypeOK /\ CatTypeOK /\ RecTypeOK /\ QuotesTypeOK => ShopTypeOK
  BY DEF ShopTypeOK
<1> QED
  BY <1>4, <1>8, <1>9, IntakeTypeOK, CatalogueTypeOK, PTL DEF ShopSpec
=============================================================================
