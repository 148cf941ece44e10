--------------------------- MODULE ProposalsProofs --------------------------
(***************************************************************************)
(* Proofs about Proposals for every set of proposals and requests and all  *)
(* bounds: the inductive invariant PlatformInv, the refinement of Decision *)
(* and the properties of what a confirmation makes.                        *)
(***************************************************************************)
EXTENDS Proposals, FiniteSetTheorems, SequenceTheorems, TLAPS

-----------------------------------------------------------------------------
(* Types *)

LEMMA NoJobType == NoJob \in Job
BY DEF NoJob, Job, Refusals

LEMMA StampedOrder ==
    ASSUME NEW o \in Order, NEW sec \in Nat, NEW n \in Nat
    PROVE  [o EXCEPT !.sec = sec, !.n = n] \in Order
BY DEF Order

LEMMA StampedProduct ==
    ASSUME NEW q \in Product, NEW sec \in Nat, NEW n \in Nat
    PROVE  [q EXCEPT !.sec = sec, !.n = n] \in Product
BY DEF Product

LEMMA TouchedOrder ==
    ASSUME NEW o \in Order, NEW t \in Ticks
    PROVE  /\ Touched(o, t) \in Order
           /\ Touched(o, t).n = o.n + 1 /\ Touched(o, t).st = o.st
           /\ \A st \in OrderStatuses : [Touched(o, t) EXCEPT !.st = st] \in Order
<1>1. o.sec + t \in Nat /\ o.n + 1 \in Nat
  BY DEF Order, Ticks
<1>2. Touched(o, t) \in Order
  BY <1>1, StampedOrder DEF Touched
<1>3. \A x \in Order, st \in OrderStatuses : [x EXCEPT !.st = st] \in Order
  BY DEF Order
<1>4. Touched(o, t).n = o.n + 1 /\ Touched(o, t).st = o.st
  BY DEF Touched, Order
<1> QED
  BY <1>2, <1>3, <1>4

LEMMA TouchedProduct ==
    ASSUME NEW q \in Product, NEW t \in Ticks
    PROVE  /\ Touched(q, t) \in Product
           /\ Touched(q, t).n = q.n + 1 /\ Touched(q, t).stock = q.stock
           /\ \A s \in Nat : /\ [Touched(q, t) EXCEPT !.stock = s] \in Product
                             /\ [Touched(q, t) EXCEPT !.stock = s].n = q.n + 1
                             /\ [Touched(q, t) EXCEPT !.stock = s].stock = s
<1>1. q.sec + t \in Nat /\ q.n + 1 \in Nat
  BY DEF Product, Ticks
<1>2. Touched(q, t) \in Product
  BY <1>1, StampedProduct DEF Touched
<1>3. \A x \in Product, s \in Nat :
         /\ [x EXCEPT !.stock = s] \in Product
         /\ [x EXCEPT !.stock = s].n = x.n
         /\ [x EXCEPT !.stock = s].stock = s
  BY DEF Product
<1>4. Touched(q, t).n = q.n + 1 /\ Touched(q, t).stock = q.stock
  BY DEF Touched, Product
<1> QED
  BY <1>2, <1>3, <1>4

LEMMA NextStageType == \A st \in Stages : NextStage(st) \in OrderStatuses
BY DEF Stages, NextStage, OrderStatuses

\* The moves lead to statuses.
LEMMA MovesType == \A st \in OrderStatuses : Moves[st] \subseteq OrderStatuses
<1> SUFFICES ASSUME NEW st \in OrderStatuses PROVE Moves[st] \subseteq OrderStatuses
  OBVIOUS
<1>1. CASE st \in {"Pending", "Confirmed"}
  BY <1>1 DEF Moves, OrderStatuses
<1>2. CASE st \in {"Processing", "Shipped", "Delivered"}
  BY <1>2 DEF Moves, OrderStatuses
<1>3. CASE st \in {"Cancelled", "Return Requested", "Deleted"}
  BY <1>3 DEF Moves, OrderStatuses
<1> QED
  BY <1>1, <1>2, <1>3 DEF OrderStatuses

LEMMA UnitsBackType == \A st : UnitsBack(st) \in {0, 1}
BY DEF UnitsBack

-----------------------------------------------------------------------------
(* What a request carries stays true *)

\* No step takes a proposal row back, a storefront request back, or a product
\* to a state it had before.
Grows ==
    /\ \A p \in Ids : phase[p] # "absent" =>
          phase'[p] # "absent" /\ kind'[p] = kind[p] /\ pinned'[p] = pinned[p]
    /\ changes <= changes'
    /\ product.n <= product'.n
    /\ product'.n = product.n => product'.sec = product.sec

LEMMA JobStays ==
    ASSUME TypeOK, TypeOK', Grows, NEW job \in Job, JobOK(job)
    PROVE  JobOK(job)'
<1>1. CASE job.pc \in {"idle", "propose", "bump"}
  BY <1>1 DEF JobOK
<1>2. CASE job.pc = "refuse"
  BY <1>2 DEF JobOK, Grows
<1>3. CASE job.pc = "recheck"
  <2>1. job.p \in Ids /\ phase[job.p] # "absent"
    BY <1>3 DEF JobOK
  <2>2. /\ phase'[job.p] # "absent" /\ kind'[job.p] = kind[job.p]
        /\ pinned'[job.p] = pinned[job.p]
    BY <2>1 DEF Grows
  <2>3. changes \in Nat /\ changes' \in Nat /\ changes <= changes' /\ job.chg \in Nat
    BY DEF TypeOK, Grows, Job
  <2> QED
    BY <1>3, <2>1, <2>2, <2>3 DEF JobOK
<1>4. CASE job.pc = "apply"
  <2>1. job.p \in Ids /\ phase[job.p] # "absent" /\ Ready(job)
    BY <1>4 DEF JobOK
  <2>2. /\ phase'[job.p] # "absent" /\ kind'[job.p] = kind[job.p]
        /\ pinned'[job.p] = pinned[job.p]
    BY <2>1 DEF Grows
  <2>3. StillRead(job.q) => StillRead(job.q)'
    BY DEF StillRead, Grows, TypeOK, Product
  <2>4. Ready(job)'
    BY <2>1, <2>2, <2>3 DEF Ready
  <2> QED
    BY <1>4, <2>1, <2>2, <2>4 DEF JobOK
<1> QED
  BY <1>1, <1>2, <1>3, <1>4 DEF Job

\* Only request w moved, to a job that is sound: every request is sound.
LEMMA JobsStay ==
    ASSUME PlatformInv, TypeOK', Grows, NEW w \in Workers, NEW job, JobOK(job)',
           SetJob(w, job)
    PROVE  \A v \in Workers : JobOK(jobs[v])'
<1>1. jobs \in [Workers -> Job] /\ jobs' = [jobs EXCEPT ![w] = job]
  BY DEF PlatformInv, TypeOK, SetJob
<1>2. ASSUME NEW v \in Workers
      PROVE  JobOK(jobs[v])'
  <2>1. CASE v = w
    <3>1. jobs'[v] = job
      BY <1>1, <2>1
    <3> QED
      BY <3>1
  <2>2. CASE v # w
    <3>1. jobs'[v] = jobs[v] /\ jobs[v] \in Job /\ JobOK(jobs[v])
      BY <1>1, <2>2 DEF PlatformInv
    <3>2. PICK old \in Job : old = jobs[v]
      BY <3>1
    <3>3. JobOK(old)'
      BY <3>1, <3>2, JobStays DEF PlatformInv
    <3> QED
      BY <3>1, <3>2, <3>3
  <2> QED
    BY <2>1, <2>2
<1> QED
  BY <1>2

\* No request moved.
LEMMA JobsRest ==
    ASSUME PlatformInv, TypeOK', Grows, UNCHANGED jobs
    PROVE  \A v \in Workers : JobOK(jobs[v])'
<1>1. ASSUME NEW v \in Workers
      PROVE  JobOK(jobs[v])'
  <2>1. PICK old \in Job : old = jobs[v]
    BY DEF PlatformInv, TypeOK
  <2>2. JobOK(old)'
    BY <2>1, JobStays DEF PlatformInv
  <2> QED
    BY <2>1, <2>2
<1> QED
  BY <1>1

LEMMA NoJobOK == JobOK(NoJob)'
BY DEF JobOK, NoJob

-----------------------------------------------------------------------------
(* The rows stay in step *)

\* The cart's version keeps up with the requests.
CartGrows ==
    /\ changes <= changes'
    /\ changes' - changes <= cart'.ver - cart.ver

LEMMA BehindStays ==
    ASSUME TypeOK, TypeOK', CartGrows, NEW p \in Ids, CartBehind(p), pinned'[p] = pinned[p]
    PROVE  CartBehind(p)'
<1>1. /\ changes \in Nat /\ changes' \in Nat /\ cart.ver \in Nat /\ cart'.ver \in Nat
      /\ pinned[p].chg \in Nat /\ pinned[p].ver \in Nat
  BY DEF TypeOK, Pin
<1> QED
  BY <1>1 DEF CartBehind, CartGrows

LEMMA RowStays ==
    ASSUME TypeOK, TypeOK', CartGrows, NEW p \in Ids, RowOK(p),
           phase'[p] = phase[p], kind'[p] = kind[p], pinned'[p] = pinned[p],
           outbox'[p] = outbox[p], applied'[p] = applied[p]
    PROVE  RowOK(p)'
<1>1. CartBehind(p) => CartBehind(p)'
  BY BehindStays
<1> QED
  BY <1>1 DEF RowOK

LEMMA RowsRest ==
    ASSUME PlatformInv, TypeOK', CartGrows, UNCHANGED proposalVars
    PROVE  \A p \in Ids : RowOK(p)'
BY RowStays DEF PlatformInv, proposalVars

-----------------------------------------------------------------------------
(* The shapes of a step *)

\* The parts of TypeOK.
RowTypes ==
    /\ phase \in [Ids -> Phases]
    /\ kind \in [Ids -> Kinds \cup {None}]
    /\ pinned \in [Ids -> Pin]
    /\ outbox \in [Ids -> Seq({"created", "executed"} \cup Refusals)]
    /\ applied \in [Ids -> Nat]

TargetTypes ==
    /\ past \in SUBSET Ids
    /\ cart \in [ver : Nat, line : BOOLEAN]
    /\ order \in Order
    /\ product \in Product
    /\ draftOpen \in BOOLEAN
    /\ account \in [role : {"same", "changed", "gone"}, verified : BOOLEAN]
    /\ changes \in Nat
    /\ edits \in 0..MaxEdits

LEMMA TypeParts == TypeOK <=> RowTypes /\ TargetTypes /\ jobs \in [Workers -> Job]
BY DEF TypeOK, RowTypes, TargetTypes

LEMMA TypePartsNext == TypeOK' <=> RowTypes' /\ TargetTypes' /\ jobs' \in [Workers -> Job]
BY DEF TypeOK, RowTypes, TargetTypes

LEMMA RowTypesRest == ASSUME RowTypes, UNCHANGED proposalVars PROVE RowTypes'
BY DEF RowTypes, proposalVars

LEMMA TargetTypesRest == ASSUME TargetTypes, UNCHANGED <<targetVars, otherVars>> PROVE TargetTypes'
BY DEF TargetTypes, targetVars, otherVars

LEMMA JobsType ==
    ASSUME TypeOK, NEW w \in Workers, NEW job \in Job, SetJob(w, job)
    PROVE  jobs' \in [Workers -> Job]
BY DEF TypeOK, SetJob

\* What a step does to the product: nothing, or a write with a new updatedAt.
ProductGrows ==
    product.n <= product'.n /\ (product'.n = product.n => product'.sec = product.sec)

LEMMA ProductRests == ASSUME TypeOK, UNCHANGED product PROVE ProductGrows
BY DEF TypeOK, Product, ProductGrows

LEMMA ProductWritten == ASSUME TypeOK, product'.n = product.n + 1 PROVE ProductGrows
BY DEF TypeOK, Product, ProductGrows

LEMMA RestGrows == ASSUME TypeOK, UNCHANGED <<targetVars, otherVars>>
                   PROVE  ProductGrows /\ CartGrows
BY ProductRests DEF TypeOK, CartGrows, targetVars, otherVars

\* A step of a request that writes no proposal.
LEMMA QuietStep ==
    ASSUME PlatformInv, NEW w \in Workers, NEW job \in Job, JobOK(job),
           SetJob(w, job), UNCHANGED proposalVars, TargetTypes', ProductGrows, CartGrows
    PROVE  PlatformInv'
<1>1. TypeOK'
  BY TypeParts, TypePartsNext, RowTypesRest, JobsType DEF PlatformInv
<1>2. Grows
  BY DEF Grows, proposalVars, ProductGrows, CartGrows
<1>3. \A p \in Ids : RowOK(p)'
  BY <1>1, RowsRest
<1>4. JobOK(job)'
  BY <1>1, <1>2, JobStays DEF PlatformInv
<1>5. \A v \in Workers : JobOK(jobs[v])'
  BY <1>1, <1>2, <1>4, JobsStay
<1> QED
  BY <1>1, <1>3, <1>5 DEF PlatformInv

\* A step of a request that writes nothing.
LEMMA ReadStep ==
    ASSUME PlatformInv, NEW w \in Workers, NEW job \in Job, JobOK(job),
           SetJob(w, job), UNCHANGED <<proposalVars, targetVars, otherVars>>
    PROVE  PlatformInv'
<1>1. TargetTypes' /\ ProductGrows /\ CartGrows
  BY TypeParts, TargetTypesRest, RestGrows DEF PlatformInv
<1> QED
  BY <1>1, QuietStep

\* A step of the storefront.
LEMMA OtherStep ==
    ASSUME PlatformInv, UNCHANGED <<proposalVars, jobs>>, TargetTypes', ProductGrows, CartGrows
    PROVE  PlatformInv'
<1>1. TypeOK'
  BY TypeParts, TypePartsNext, RowTypesRest DEF PlatformInv
<1>2. Grows
  BY DEF Grows, proposalVars, ProductGrows, CartGrows
<1>3. \A p \in Ids : RowOK(p)'
  BY <1>1, RowsRest
<1>4. \A v \in Workers : JobOK(jobs[v])'
  BY <1>1, <1>2, JobsRest
<1> QED
  BY <1>1, <1>3, <1>4 DEF PlatformInv

\* A decision, with an effect exactly if it is an execution.
LEMMA DecideStep ==
    ASSUME PlatformInv, NEW w \in Workers, Target(w) \in Ids,
           NEW how \in {"executed"} \cup Refusals, Decide(w, how),
           applied' \in [Ids -> Nat],
           \A p \in Ids : p # Target(w) => applied'[p] = applied[p],
           kind[Target(w)] # "listing.update_content" =>
             applied'[Target(w)] = applied[Target(w)] + (IF how = "executed" THEN 1 ELSE 0),
           TargetTypes', ProductGrows, CartGrows
    PROVE  PlatformInv'
<1> DEFINE t == Target(w)
<1>1. /\ phase[t] = "pending" /\ phase' = [phase EXCEPT ![t] = how]
      /\ outbox' = [outbox EXCEPT ![t] = Append(@, how)]
      /\ SetJob(w, NoJob) /\ kind' = kind /\ pinned' = pinned
  BY DEF Decide
<1>2. RowTypes /\ TargetTypes /\ TypeOK
  BY TypeParts DEF PlatformInv
<1>3. how \in Phases /\ how \in {"created", "executed"} \cup Refusals /\ how \notin {"absent", "pending"}
  BY DEF Phases, Refusals
<1>4. RowTypes'
  <2>1. phase' \in [Ids -> Phases]
    BY <1>1, <1>2, <1>3 DEF RowTypes
  <2>2. outbox' \in [Ids -> Seq({"created", "executed"} \cup Refusals)]
    BY <1>1, <1>2, <1>3 DEF RowTypes
  <2> QED
    BY <1>1, <1>2, <2>1, <2>2 DEF RowTypes
<1>5. TypeOK'
  BY <1>1, <1>2, <1>4, TypePartsNext, JobsType, NoJobType
<1>6. Grows
  BY <1>1, <1>2, <1>3 DEF Grows, ProductGrows, CartGrows, RowTypes
<1>7. ASSUME NEW p \in Ids PROVE RowOK(p)'
  <2>1. RowOK(p)
    BY DEF PlatformInv
  <2>2. CASE p # t
    <3>1. phase'[p] = phase[p] /\ outbox'[p] = outbox[p] /\ applied'[p] = applied[p]
      BY <1>1, <1>2, <2>2 DEF RowTypes
    <3> QED
      BY <1>1, <1>2, <1>5, <2>1, <3>1, RowStays
  <2>3. CASE p = t
    <3>1. phase'[p] = how
      BY <1>1, <1>2, <2>3 DEF RowTypes
    <3>2. CartBehind(p) => CartBehind(p)'
      BY <1>1, <1>2, <1>5, BehindStays
    <3>3. kind[p] # "listing.update_content" =>
            applied'[p] = IF phase'[p] = "executed" THEN 1 ELSE 0
      <4>1. phase[p] = "pending"
        BY <1>1, <2>3
      <4>2. kind[p] # "listing.update_content" => applied[p] = 0
        BY <2>1, <4>1 DEF RowOK
      <4> QED
        BY <2>3, <3>1, <4>2
    <3> QED
      BY <1>1, <1>3, <2>1, <2>3, <3>1, <3>2, <3>3 DEF RowOK
  <2> QED
    BY <2>2, <2>3
<1>8. \A v \in Workers : JobOK(jobs[v])'
  BY <1>1, <1>5, <1>6, NoJobOK, JobsStay
<1> QED
  BY <1>5, <1>7, <1>8 DEF PlatformInv

-----------------------------------------------------------------------------
(* Init and the requests that write nothing *)

LEMMA InitPlatform == Init => PlatformInv
<1> SUFFICES ASSUME Init PROVE PlatformInv
  OBVIOUS
<1>1. NoPin \in Pin
  BY DEF NoPin, Pin, OrderStatuses
<1>2. order \in Order /\ product \in Product
  <2>1. PICK st \in {"Pending", "Confirmed", "Delivered"} : order = [st |-> st, sec |-> 0, n |-> 0]
    BY DEF Init
  <2>2. st \in OrderStatuses
    BY DEF OrderStatuses
  <2> QED
    BY <2>1, <2>2, ProposalAssumption DEF Init, Order, Product
<1>3. TypeOK
  BY <1>1, <1>2, NoJobType, ProposalAssumption DEF Init, TypeOK, Phases
<1>4. \A p \in Ids : RowOK(p)
  BY DEF Init, RowOK
<1>5. \A w \in Workers : JobOK(jobs[w])
  BY DEF Init, JobOK, NoJob
<1> QED
  BY <1>3, <1>4, <1>5 DEF PlatformInv

LEMMA CountPendingStep ==
    ASSUME PlatformInv, NEW w \in Workers, CountPending(w)
    PROVE  PlatformInv'
<1>1. PICK job \in Job : job = [NoJob EXCEPT !.pc = "propose", !.ok = account.verified]
  BY NoJobType DEF Job, NoJob, PlatformInv, TypeOK
<1>2. JobOK(job)
  BY <1>1 DEF JobOK, NoJob
<1> QED
  BY <1>1, <1>2, ReadStep DEF CountPending

\* A request ends without a write.
LEMMA EndStep ==
    ASSUME PlatformInv, NEW w \in Workers, SetJob(w, NoJob),
           UNCHANGED <<proposalVars, targetVars, otherVars>>
    PROVE  PlatformInv'
<1>1. JobOK(NoJob)
  BY DEF JobOK, NoJob
<1> QED
  BY <1>1, NoJobType, ReadStep

LEMMA LoadStep ==
    ASSUME PlatformInv, NEW w \in Workers, NEW p \in Ids, Load(w, p)
    PROVE  PlatformInv'
<1>1. PICK chg \in Nat : chg = IF kind[p] \in CartKinds THEN changes ELSE 0
  BY DEF PlatformInv, TypeOK
<1> DEFINE loaded == [NoJob EXCEPT !.p = p, !.chg = chg]
<1>2. PICK job \in Job :
         /\ SetJob(w, job) /\ job.p = p /\ job.chg = chg
         /\ job.pc \in {"refuse", "recheck"}
         /\ job.pc = "refuse" => job.why \in Refusals
  <2>1. loaded \in Job /\ loaded.p = p /\ loaded.chg = chg
    BY NoJobType DEF Job, NoJob
  <2>2. \A why \in Refusals : LET job == [loaded EXCEPT !.pc = "refuse", !.why = why] IN
           job \in Job /\ job.p = p /\ job.chg = chg /\ job.pc = "refuse" /\ job.why = why
    BY <2>1 DEF Job
  <2>3. LET job == [loaded EXCEPT !.pc = "recheck"] IN
           job \in Job /\ job.p = p /\ job.chg = chg /\ job.pc = "recheck"
    BY <2>1 DEF Job
  <2>4. CASE p \in past
    <3>1. SetJob(w, [loaded EXCEPT !.pc = "refuse", !.why = "expired"])
      BY <1>1, <2>4 DEF Load
    <3> QED
      BY <2>2, <3>1 DEF Refusals
  <2>5. CASE p \notin past /\ account.role = "changed"
    <3>1. SetJob(w, [loaded EXCEPT !.pc = "refuse", !.why = "rejected"])
      BY <1>1, <2>5 DEF Load
    <3> QED
      BY <2>2, <3>1 DEF Refusals
  <2>6. CASE p \notin past /\ account.role # "changed"
    <3>1. SetJob(w, [loaded EXCEPT !.pc = "recheck"])
      BY <1>1, <2>6 DEF Load
    <3> QED
      BY <2>3, <3>1
  <2> QED
    BY <2>4, <2>5, <2>6
<1>5. phase[p] # "absent"
  BY DEF Load
<1>6. kind[p] \in CartKinds => pinned[p].chg <= chg /\ chg <= changes
  BY <1>1, <1>5 DEF PlatformInv, RowOK, CartBehind, TypeOK
<1>7. JobOK(job)
  BY <1>2, <1>5, <1>6 DEF JobOK
<1> QED
  BY <1>2, <1>7, ReadStep DEF Load

LEMMA VersionForKinds ==
    /\ \A k \in CartKinds : VersionFor(k) = cart.ver
    /\ \A k \in OrderKinds : VersionFor(k) = order.sec
    /\ \A k \in ProductKinds : VersionFor(k) = product.sec
<1>1. \A k \in CartKinds : VersionFor(k) = cart.ver
  BY DEF VersionFor, CartKinds, OrderKinds, ProductKinds
<1>2. \A k \in OrderKinds : VersionFor(k) = order.sec
  BY DEF VersionFor, CartKinds, OrderKinds, ProductKinds
<1>3. \A k \in ProductKinds : VersionFor(k) = product.sec
  BY DEF VersionFor, CartKinds, OrderKinds, ProductKinds
<1> QED
  BY <1>1, <1>2, <1>3

LEMMA VerdictsType ==
    ASSUME NEW p \in Ids, kind[p] \in Kinds
    PROVE  Verdicts(p) \subseteq {None} \cup Refusals
<1>1. /\ CartVerdicts(p) \subseteq {None} \cup Refusals
      /\ CancelVerdicts(p) \subseteq {None} \cup Refusals
      /\ ReturnVerdicts(p) \subseteq {None} \cup Refusals
      /\ FulfilmentVerdicts(p) \subseteq {None} \cup Refusals
  BY DEF CartVerdicts, CancelVerdicts, ReturnVerdicts, FulfilmentVerdicts, Refusals
<1>2. /\ PriceVerdicts(p) \subseteq {None} \cup Refusals
      /\ InventoryVerdicts(p) \subseteq {None} \cup Refusals
      /\ PublishVerdicts(p) \subseteq {None} \cup Refusals
      /\ ContentVerdicts(p) \subseteq {None} \cup Refusals
  BY DEF PriceVerdicts, InventoryVerdicts, PublishVerdicts, ContentVerdicts, MaybeUnfit,
    TargetLost, Refusals
<1> QED
  BY <1>1, <1>2 DEF Verdicts, Kinds, CartKinds, OrderKinds, ProductKinds

\* What a recheck that lets the request go on has seen, per kind.
LEMMA GoAhead ==
    ASSUME NEW p \in Ids, None \in Verdicts(p)
    PROVE  /\ kind[p] \in CartKinds => pinned[p].ver = cart.ver
           /\ kind[p] = "order.cancel" => CancelEligible
           /\ kind[p] = "sale.advance_fulfillment" =>
                order.st = pinned[p].st /\ pinned[p].ver = order.sec
           /\ kind[p] \in {"product.set_price", "listing.update_content"} =>
                pinned[p].ver = product.sec
           /\ kind[p] = "inventory.adjust" => pinned[p].count = product.stock
<1>1. None \notin {"stale", "rejected"}
  BY ProposalAssumption
<1>2. ASSUME kind[p] \in CartKinds PROVE pinned[p].ver = cart.ver
  BY <1>1, <1>2 DEF Verdicts, CartVerdicts, CartKinds
<1>3. ASSUME kind[p] = "order.cancel" PROVE CancelEligible
  BY <1>1, <1>3 DEF Verdicts, CancelVerdicts, CartKinds
<1>4. ASSUME kind[p] = "sale.advance_fulfillment"
      PROVE  order.st = pinned[p].st /\ pinned[p].ver = order.sec
  BY <1>1, <1>4 DEF Verdicts, FulfilmentVerdicts, CartKinds
<1>5. ASSUME kind[p] = "product.set_price" PROVE pinned[p].ver = product.sec
  BY <1>1, <1>5 DEF Verdicts, PriceVerdicts, CartKinds
<1>6. ASSUME kind[p] = "listing.update_content" PROVE pinned[p].ver = product.sec
  BY <1>1, <1>6 DEF Verdicts, ContentVerdicts, CartKinds
<1>7. ASSUME kind[p] = "inventory.adjust" PROVE pinned[p].count = product.stock
  BY <1>1, <1>7 DEF Verdicts, InventoryVerdicts, TargetLost, CartKinds
<1> QED
  BY <1>2, <1>3, <1>4, <1>5, <1>6, <1>7

LEMMA RefuseNext ==
    ASSUME PlatformInv, NEW w \in Workers, Target(w) \in Ids, phase[Target(w)] # "absent",
           NEW why \in Refusals,
           SetJob(w, [jobs[w] EXCEPT !.pc = "refuse", !.why = why]),
           UNCHANGED <<proposalVars, targetVars, otherVars>>
    PROVE  PlatformInv'
<1>1. PICK old \in Job : old = jobs[w]
  BY DEF PlatformInv, TypeOK
<1>2. PICK job \in Job : job = [old EXCEPT !.pc = "refuse", !.why = why]
  BY DEF Job
<1>3. job.p = old.p /\ job.pc = "refuse" /\ job.why = why
  BY <1>2 DEF Job
<1>4. JobOK(job)
  BY <1>1, <1>3 DEF JobOK, Target
<1> QED
  BY <1>1, <1>2, <1>4, ReadStep

\* The rechecks establish what the writes rely on.
LEMMA RecheckStep ==
    ASSUME PlatformInv, NEW w \in Workers, Recheck(w)
    PROVE  PlatformInv'
<1> DEFINE p == Target(w)
<1>1. PICK old \in Job : old = jobs[w]
  BY DEF PlatformInv, TypeOK
<1>2. JobOK(old) /\ old.pc = "recheck" /\ old.p = p
  BY <1>1 DEF PlatformInv, Recheck, At, Target
<1>3. p \in Ids /\ phase[p] # "absent" /\ RowOK(p)
  BY <1>2 DEF JobOK, PlatformInv
<1>4. PICK v \in Verdicts(p) :
         SetJob(w, IF v = None
                   THEN [old EXCEPT !.pc = "apply", !.o = OrderRead(p), !.q = ProductRead(p)]
                   ELSE [old EXCEPT !.pc = "refuse", !.why = v])
  BY <1>1 DEF Recheck
<1>5. CASE v # None
  <2>1. v \in Refusals
    BY <1>3, <1>4, <1>5, VerdictsType DEF RowOK
  <2> QED
    BY <1>1, <1>3, <1>4, <1>5, <2>1, RefuseNext DEF Recheck
<1>6. CASE v = None
  <2>1. OrderRead(p) \in Order \cup {None} /\ ProductRead(p) \in Product \cup {None}
    BY DEF OrderRead, ProductRead, PlatformInv, TypeOK
  <2>2. PICK job \in Job : job = [old EXCEPT !.pc = "apply", !.o = OrderRead(p), !.q = ProductRead(p)]
    BY <2>1 DEF Job
  <2>3. /\ job.p = p /\ job.pc = "apply" /\ job.chg = old.chg
        /\ job.o = OrderRead(p) /\ job.q = ProductRead(p)
    BY <1>2, <2>2 DEF Job
  <2>4. None \in Verdicts(p)
    BY <1>4, <1>6
  <2>5. Ready(job)
    <3>2. ASSUME kind[p] = "order.cancel"
          PROVE  job.o \in Order /\ job.o.st \in {"Pending", "Confirmed"}
      <4>1. CancelEligible
        BY <1>3, <2>4, <3>2, GoAhead
      <4> QED
        BY <2>3, <3>2, <4>1 DEF OrderRead, CancelEligible, PlatformInv, TypeOK
    <3>3. ASSUME kind[p] = "sale.advance_fulfillment"
          PROVE  job.o \in Order /\ job.o.st = pinned[p].st /\ job.o.sec = pinned[p].ver
      <4>1. order.st = pinned[p].st /\ pinned[p].ver = order.sec
        BY <1>3, <2>4, <3>3, GoAhead
      <4> QED
        BY <2>3, <3>3, <4>1 DEF OrderRead, PlatformInv, TypeOK
    <3>4. ASSUME kind[p] \in {"product.set_price", "listing.update_content"}
          PROVE  StillRead(job.q) /\ job.q.sec = pinned[p].ver
      <4>1. pinned[p].ver = product.sec
        BY <1>3, <2>4, <3>4, GoAhead
      <4>2. job.q = product
        BY <2>3, <3>4 DEF ProductRead, ProductKinds
      <4> QED
        BY <4>1, <4>2 DEF StillRead, Product, PlatformInv, TypeOK
    <3>5. ASSUME kind[p] = "inventory.adjust"
          PROVE  job.q \in Product /\ job.q.stock = pinned[p].count
      <4>1. pinned[p].count = product.stock
        BY <1>3, <2>4, <3>5, GoAhead
      <4> QED
        BY <2>3, <3>5, <4>1 DEF ProductRead, ProductKinds, PlatformInv, TypeOK
    <3>6. ASSUME kind[p] \in CartKinds
          PROVE  job.chg = pinned[p].chg
      <4>1. pinned[p].ver = cart.ver
        BY <1>3, <2>4, <3>6, GoAhead
      <4>2. CartBehind(p)
        BY <1>3, <3>6 DEF RowOK
      <4>3. pinned[p].chg <= old.chg /\ old.chg <= changes
        BY <1>2, <3>6 DEF JobOK
      <4>4. /\ changes \in Nat /\ cart.ver \in Nat /\ old.chg \in Nat
            /\ pinned[p].ver \in Nat /\ pinned[p].chg \in Nat
        BY <1>3 DEF PlatformInv, TypeOK, Job, Pin
      <4> QED
        BY <2>3, <4>1, <4>2, <4>3, <4>4 DEF CartBehind
    <3> QED
      BY <2>3, <3>2, <3>3, <3>4, <3>5, <3>6 DEF Ready
  <2>6. JobOK(job)
    BY <1>3, <2>3, <2>5 DEF JobOK
  <2> QED
    BY <1>4, <1>6, <2>2, <2>6, ReadStep DEF Recheck
<1> QED
  BY <1>5, <1>6

-----------------------------------------------------------------------------
(* A new proposal *)

\* What a new row keeps.
NewPin(k, pin) ==
    /\ k = "sale.advance_fulfillment" => pin.st \in Stages
    /\ k \in CartKinds => pin.chg = changes /\ pin.ver = cart.ver

LEMMA PinTypes ==
    ASSUME TypeOK
    PROVE  /\ NoPin \in Pin /\ NoPin.ver = 0
           /\ cart.ver \in Nat /\ order.sec \in Nat /\ product.sec \in Nat
           /\ product.n \in Nat /\ product.stock \in Nat /\ order.st \in OrderStatuses
           /\ changes \in Nat
<1>1. cart.ver \in Nat /\ order.sec \in Nat /\ product.sec \in Nat
  BY DEF TypeOK, Order, Product
<1>2. /\ product.n \in Nat /\ product.stock \in Nat /\ order.st \in OrderStatuses
      /\ changes \in Nat
  BY DEF TypeOK, Order, Product
<1>3. NoPin \in Pin /\ NoPin.ver = 0
  BY DEF NoPin, Pin, OrderStatuses
<1> QED
  BY <1>1, <1>2, <1>3

LEMMA ProposeCreates ==
    ASSUME TypeOK, NEW w \in Workers, NEW p \in Ids, Propose(w, p)
    PROVE  \E k \in Kinds, pin \in Pin : Create(w, p, k, pin) /\ NewPin(k, pin)
<1> DEFINE Goal == \E k \in Kinds, pin \in Pin : Create(w, p, k, pin) /\ NewPin(k, pin)
<1>1. /\ NoPin \in Pin
      /\ cart.ver \in Nat /\ order.sec \in Nat /\ product.sec \in Nat
      /\ product.n \in Nat /\ product.stock \in Nat /\ order.st \in OrderStatuses
      /\ changes \in Nat
  BY PinTypes
<1>2. ASSUME NEW k \in CartKinds, ProposeCart(w, p, k) PROVE Goal
  <2>1. PICK pin : pin = [NoPin EXCEPT !.ver = cart.ver, !.chg = changes]
    OBVIOUS
  <2>2. pin \in Pin /\ pin.ver = cart.ver /\ pin.chg = changes
    BY <1>1, <2>1 DEF Pin
  <2>3. Create(w, p, k, pin)
    BY <1>2, <2>1 DEF ProposeCart
  <2>4. k # "sale.advance_fulfillment" /\ k \in Kinds
    BY DEF CartKinds, Kinds
  <2> QED
    BY <2>2, <2>3, <2>4 DEF NewPin
<1>3. ASSUME NEW k \in Kinds, k \notin CartKinds, NEW pin \in Pin, Create(w, p, k, pin),
             k = "sale.advance_fulfillment" => pin.st \in Stages
      PROVE  Goal
  BY <1>3 DEF NewPin
<1>4. CASE ProposeCancel(w, p) \/ ProposeReturn(w, p)
  <2>1. PICK pin : pin = [NoPin EXCEPT !.ver = order.sec]
    OBVIOUS
  <2>2. pin \in Pin
    BY <1>1, <2>1 DEF Pin
  <2>3. Create(w, p, "order.cancel", pin) \/ Create(w, p, "order.return_request", pin)
    BY <1>4, <2>1 DEF ProposeCancel, ProposeReturn
  <2>4. "order.cancel" \in Kinds \ CartKinds /\ "order.return_request" \in Kinds \ CartKinds
    BY DEF Kinds, CartKinds, OrderKinds
  <2> QED
    BY <1>3, <2>2, <2>3, <2>4
<1>5. CASE ProposeFulfilment(w, p)
  <2>1. PICK pin : pin = [NoPin EXCEPT !.ver = order.sec, !.st = order.st]
    OBVIOUS
  <2>2. pin \in Pin /\ pin.st = order.st
    BY <1>1, <2>1 DEF Pin
  <2>3. Create(w, p, "sale.advance_fulfillment", pin) /\ order.st \in Stages
    BY <1>5, <2>1 DEF ProposeFulfilment
  <2>4. "sale.advance_fulfillment" \in Kinds \ CartKinds
    BY DEF Kinds, CartKinds, OrderKinds
  <2> QED
    BY <1>3, <2>2, <2>3, <2>4
<1>6. CASE ProposePrice(w, p)
  <2>1. PICK pin : pin = [NoPin EXCEPT !.ver = product.sec, !.n = product.n]
    OBVIOUS
  <2>2. pin \in Pin
    BY <1>1, <2>1 DEF Pin
  <2>3. Create(w, p, "product.set_price", pin)
    BY <1>6, <2>1 DEF ProposePrice
  <2>4. "product.set_price" \in Kinds \ CartKinds
    BY DEF Kinds, CartKinds, ProductKinds
  <2> QED
    BY <1>3, <2>2, <2>3, <2>4
<1>7. ASSUME NEW to \in 0..MaxStock, ProposeInventory(w, p, to) PROVE Goal
  <2>1. PICK pin : pin = [NoPin EXCEPT !.ver = product.sec, !.n = product.n,
                                       !.count = product.stock, !.to = to]
    OBVIOUS
  <2>2. pin \in Pin
    <3>1. to \in Nat
      BY ProposalAssumption
    <3>2. [NoPin EXCEPT !.ver = product.sec, !.n = product.n, !.count = product.stock] \in Pin
      BY <1>1 DEF Pin
    <3> QED
      BY <2>1, <3>1, <3>2 DEF Pin
  <2>3. Create(w, p, "inventory.adjust", pin)
    BY <1>7, <2>1 DEF ProposeInventory
  <2>4. "inventory.adjust" \in Kinds \ CartKinds
    BY DEF Kinds, CartKinds, ProductKinds
  <2> QED
    BY <1>3, <2>2, <2>3, <2>4
<1>8. CASE ProposePublish(w, p)
  <2>1. Create(w, p, "listing.publish", NoPin)
    BY <1>8 DEF ProposePublish
  <2>2. "listing.publish" \in Kinds \ CartKinds
    BY DEF Kinds, CartKinds
  <2> QED
    BY <1>1, <1>3, <2>1, <2>2
<1>9. CASE ProposeContent(w, p)
  <2>1. PICK pin : pin = [NoPin EXCEPT !.ver = product.sec]
    OBVIOUS
  <2>2. pin \in Pin
    BY <1>1, <2>1 DEF Pin
  <2>3. Create(w, p, "listing.update_content", pin)
    BY <1>9, <2>1 DEF ProposeContent
  <2>4. "listing.update_content" \in Kinds \ CartKinds
    BY DEF Kinds, CartKinds, ProductKinds
  <2> QED
    BY <1>3, <2>2, <2>3, <2>4
<1> QED
  BY <1>2, <1>4, <1>5, <1>6, <1>7, <1>8, <1>9 DEF Propose

LEMMA ProposeStep ==
    ASSUME PlatformInv, NEW w \in Workers, NEW p \in Ids, NEW k \in Kinds,
           NEW pin \in Pin, Create(w, p, k, pin), NewPin(k, pin)
    PROVE  PlatformInv'
<1>1. RowTypes /\ TargetTypes /\ TypeOK
  BY TypeParts DEF PlatformInv
<1>2. /\ phase[p] = "absent" /\ phase' = [phase EXCEPT ![p] = "pending"]
      /\ kind' = [kind EXCEPT ![p] = k] /\ pinned' = [pinned EXCEPT ![p] = pin]
      /\ outbox' = [outbox EXCEPT ![p] = <<"created">>] /\ applied' = applied
      /\ SetJob(w, NoJob) /\ UNCHANGED <<targetVars, otherVars>>
  BY DEF Create
<1>3. RowTypes'
  <2>1. phase' \in [Ids -> Phases] /\ kind' \in [Ids -> Kinds \cup {None}]
    BY <1>1, <1>2 DEF RowTypes, Phases
  <2>2. pinned' \in [Ids -> Pin]
    BY <1>1, <1>2 DEF RowTypes
  <2>3. outbox' \in [Ids -> Seq({"created", "executed"} \cup Refusals)]
    BY <1>1, <1>2 DEF RowTypes
  <2> QED
    BY <1>1, <1>2, <2>1, <2>2, <2>3 DEF RowTypes
<1>4. TypeOK'
  BY <1>1, <1>2, <1>3, TypePartsNext, TargetTypesRest, JobsType, NoJobType
<1>5. ProductGrows /\ CartGrows
  BY <1>1, <1>2, RestGrows
<1>6. Grows
  BY <1>1, <1>2, <1>5 DEF Grows, RowTypes, ProductGrows, CartGrows
<1>7. ASSUME NEW r \in Ids PROVE RowOK(r)'
  <2>1. CASE r # p
    <3>1. /\ phase'[r] = phase[r] /\ kind'[r] = kind[r] /\ pinned'[r] = pinned[r]
          /\ outbox'[r] = outbox[r] /\ applied'[r] = applied[r]
      BY <1>1, <1>2, <2>1 DEF RowTypes
    <3> QED
      BY <1>1, <1>4, <1>5, <3>1, RowStays DEF PlatformInv
  <2>2. CASE r = p
    <3>1. /\ phase'[p] = "pending" /\ kind'[p] = k /\ pinned'[p] = pin
          /\ outbox'[p] = <<"created">> /\ applied'[p] = 0
      BY <1>1, <1>2 DEF RowTypes, PlatformInv, RowOK
    <3>2. ASSUME k = "sale.advance_fulfillment" PROVE pinned'[p].st \in Stages
      BY <3>1, <3>2 DEF NewPin
    <3>3. ASSUME k \in CartKinds PROVE CartBehind(p)'
      <4>1. pinned'[p].chg = changes /\ pinned'[p].ver = cart.ver
        BY <3>1, <3>3 DEF NewPin
      <4>2. changes' = changes /\ cart' = cart /\ changes \in Nat /\ cart.ver \in Nat
        BY <1>1, <1>2 DEF targetVars, otherVars, TypeOK
      <4> QED
        BY <4>1, <4>2 DEF CartBehind
    <3> QED
      BY <2>2, <3>1, <3>2, <3>3 DEF RowOK
  <2> QED
    BY <2>1, <2>2
<1>8. \A v \in Workers : JobOK(jobs[v])'
  BY <1>2, <1>4, <1>6, NoJobOK, JobsStay
<1> QED
  BY <1>4, <1>7, <1>8 DEF PlatformInv

-----------------------------------------------------------------------------
(* The decisions *)

\* What a request that is to write carries.
LEMMA Applying ==
    ASSUME PlatformInv, NEW w \in Workers, At(w, "apply")
    PROVE  Target(w) \in Ids /\ phase[Target(w)] # "absent" /\ Ready(jobs[w]) /\ jobs[w] \in Job
BY DEF PlatformInv, TypeOK, JobOK, At, Target

\* An execution of a kind whose claim comes with its change.
LEMMA ExecuteStep ==
    ASSUME PlatformInv, NEW w \in Workers, NEW ks, Execute(w, ks),
           TargetTypes', ProductGrows, CartGrows
    PROVE  PlatformInv'
<1>1. Target(w) \in Ids /\ Decide(w, "executed") /\ applied' = [applied EXCEPT ![Target(w)] = @ + 1]
  BY Applying DEF Execute
<1>2. applied \in [Ids -> Nat]
  BY DEF PlatformInv, TypeOK
<1>3. /\ applied' \in [Ids -> Nat] /\ applied'[Target(w)] = applied[Target(w)] + 1
      /\ \A p \in Ids : p # Target(w) => applied'[p] = applied[p]
  BY <1>1, <1>2
<1> QED
  BY <1>1, <1>3, DecideStep

LEMMA ExecuteCartStep ==
    ASSUME PlatformInv, NEW w \in Workers, ExecuteCart(w)
    PROVE  PlatformInv'
<1>1. TypeOK /\ Execute(w, CartKinds) /\ UNCHANGED <<order, product, draftOpen, otherVars>>
  BY DEF ExecuteCart, PlatformInv
<1>2. cart' \in [ver : Nat, line : BOOLEAN] /\ cart'.ver = cart.ver + 1 /\ cart.ver \in Nat
  BY <1>1 DEF ExecuteCart, TypeOK
<1>3. TargetTypes' /\ ProductGrows /\ CartGrows
  BY <1>1, <1>2, ProductRests DEF TypeOK, TargetTypes, CartGrows, otherVars
<1> QED
  BY <1>1, <1>3, ExecuteStep

\* A write of the order, perhaps with units given back or taken.
LEMMA OrderWrite ==
    ASSUME TypeOK, NEW st \in OrderStatuses, NEW t \in Ticks,
           order' = [Touched(order, t) EXCEPT !.st = st]
    PROVE  order' \in Order
BY TouchedOrder DEF TypeOK

LEMMA ProductWrite ==
    ASSUME TypeOK, NEW s \in Nat, NEW t \in Ticks,
           product' = [Touched(product, t) EXCEPT !.stock = s]
    PROVE  product' \in Product /\ ProductGrows /\ product'.stock = s
BY TouchedProduct, ProductWritten DEF TypeOK

\* A cancellation gives back what it names.
LEMMA UnitsGivenBack ==
    ASSUME TypeOK, NEW st, NEW u \in Ticks,
           product' = IF UnitsBack(st) = 0 THEN product
                      ELSE [Touched(product, u) EXCEPT !.stock = @ + UnitsBack(st)]
    PROVE  product' \in Product /\ ProductGrows /\ product'.stock = product.stock + UnitsBack(st)
<1>1. product \in Product /\ product.stock \in Nat
  BY DEF TypeOK, Product
<1>2. CASE UnitsBack(st) = 0
  BY <1>1, <1>2, ProductRests
<1>3. CASE UnitsBack(st) # 0
  <2>1. UnitsBack(st) = 1
    BY <1>3, UnitsBackType
  <2>2. product' = [Touched(product, u) EXCEPT !.stock = product.stock + 1]
    BY <1>1, <2>1, TouchedProduct
  <2>3. product.stock + 1 \in Nat
    BY <1>1
  <2> QED
    BY <2>1, <2>2, <2>3, ProductWrite
<1> QED
  BY <1>2, <1>3

LEMMA ExecuteCancelStep ==
    ASSUME PlatformInv, NEW w \in Workers, ExecuteCancel(w)
    PROVE  PlatformInv'
<1>1. TypeOK /\ Execute(w, {"order.cancel"}) /\ UNCHANGED <<cart, draftOpen, otherVars>>
  BY DEF ExecuteCancel, PlatformInv
<1>2. order' \in Order
  BY <1>1, OrderWrite DEF ExecuteCancel, OrderStatuses
<1>3. product' \in Product /\ ProductGrows
  BY <1>1, UnitsGivenBack DEF ExecuteCancel
<1>4. TargetTypes' /\ CartGrows
  BY <1>1, <1>2, <1>3 DEF TypeOK, TargetTypes, CartGrows, otherVars
<1> QED
  BY <1>1, <1>3, <1>4, ExecuteStep

LEMMA ExecuteReturnStep ==
    ASSUME PlatformInv, NEW w \in Workers, ExecuteReturn(w)
    PROVE  PlatformInv'
<1>1. /\ TypeOK /\ Execute(w, {"order.return_request"})
      /\ UNCHANGED <<cart, product, draftOpen, otherVars>>
  BY DEF ExecuteReturn, PlatformInv
<1>2. order' \in Order
  BY <1>1, OrderWrite DEF ExecuteReturn, ApplyReturn, OrderStatuses
<1>3. TargetTypes' /\ ProductGrows /\ CartGrows
  BY <1>1, <1>2, ProductRests DEF TypeOK, TargetTypes, CartGrows, otherVars
<1> QED
  BY <1>1, <1>3, ExecuteStep

LEMMA ExecuteFulfilmentStep ==
    ASSUME PlatformInv, NEW w \in Workers, ExecuteFulfilment(w)
    PROVE  PlatformInv'
<1>1. /\ TypeOK /\ Execute(w, {"sale.advance_fulfillment"}) /\ order = jobs[w].o
      /\ UNCHANGED <<cart, product, draftOpen, otherVars>>
  BY DEF ExecuteFulfilment, ApplyFulfilment, PlatformInv
<1>2. order.st \in Stages
  <2>1. Target(w) \in Ids /\ phase[Target(w)] # "absent" /\ Ready(jobs[w])
    BY <1>1, Applying DEF Execute
  <2>2. kind[Target(w)] = "sale.advance_fulfillment"
    BY <1>1 DEF Execute
  <2>3. pinned[Target(w)].st \in Stages
    BY <2>1, <2>2 DEF PlatformInv, RowOK
  <2> QED
    BY <1>1, <2>1, <2>2, <2>3 DEF Ready, Target
<1>3. order' \in Order
  <2>1. PICK t \in Ticks : order' = [Touched(order, t) EXCEPT !.st = NextStage(@)]
    BY DEF ExecuteFulfilment, ApplyFulfilment
  <2>2. order' = [Touched(order, t) EXCEPT !.st = NextStage(order.st)]
    BY <1>1, <2>1, TouchedOrder DEF TypeOK
  <2> QED
    BY <1>1, <1>2, <2>2, NextStageType, OrderWrite
<1>4. TargetTypes' /\ ProductGrows /\ CartGrows
  BY <1>1, <1>3, ProductRests DEF TypeOK, TargetTypes, CartGrows, otherVars
<1> QED
  BY <1>1, <1>4, ExecuteStep

LEMMA ExecutePriceStep ==
    ASSUME PlatformInv, NEW w \in Workers, ExecutePrice(w)
    PROVE  PlatformInv'
<1>1. /\ TypeOK /\ Execute(w, {"product.set_price"})
      /\ UNCHANGED <<cart, order, draftOpen, otherVars>>
  BY DEF ExecutePrice, PlatformInv
<1>2. product' \in Product /\ ProductGrows
  BY <1>1, TouchedProduct, ProductWritten DEF ExecutePrice, ApplyPrice, TypeOK
<1>3. TargetTypes' /\ CartGrows
  BY <1>1, <1>2 DEF TypeOK, TargetTypes, CartGrows, otherVars
<1> QED
  BY <1>1, <1>2, <1>3, ExecuteStep

LEMMA ExecuteInventoryStep ==
    ASSUME PlatformInv, NEW w \in Workers, ExecuteInventory(w)
    PROVE  PlatformInv'
<1>1. /\ TypeOK /\ Execute(w, {"inventory.adjust"})
      /\ UNCHANGED <<cart, order, draftOpen, otherVars>>
  BY DEF ExecuteInventory, PlatformInv
<1>2. pinned[Target(w)].to \in Nat
  BY <1>1, Applying DEF Execute, TypeOK, Pin
<1>3. product' \in Product /\ ProductGrows
  BY <1>1, <1>2, ProductWrite DEF ExecuteInventory
<1>4. TargetTypes' /\ CartGrows
  BY <1>1, <1>3 DEF TypeOK, TargetTypes, CartGrows, otherVars
<1> QED
  BY <1>1, <1>3, <1>4, ExecuteStep

LEMMA ExecutePublishStep ==
    ASSUME PlatformInv, NEW w \in Workers, ExecutePublish(w)
    PROVE  PlatformInv'
<1>1. /\ TypeOK /\ Execute(w, {"listing.publish"}) /\ UNCHANGED <<targetVars, otherVars>>
  BY DEF ExecutePublish, PlatformInv
<1> QED
  BY <1>1, TypeParts, TargetTypesRest, RestGrows, ExecuteStep

\* The effect of a content change that was decided by another is made all the same.
LEMMA ContentAnyway ==
    ASSUME PlatformInv, NEW w \in Workers, Target(w) \in Ids, phase[Target(w)] # "absent",
           kind[Target(w)] = "listing.update_content",
           applied' = [applied EXCEPT ![Target(w)] = @ + 1],
           SetJob(w, NoJob), UNCHANGED <<phase, kind, pinned, outbox>>,
           TargetTypes', ProductGrows, CartGrows
    PROVE  PlatformInv'
<1>1. RowTypes /\ TypeOK
  BY TypeParts DEF PlatformInv
<1>2. RowTypes'
  BY <1>1 DEF RowTypes
<1>3. TypeOK'
  BY <1>1, <1>2, TypePartsNext, JobsType, NoJobType
<1>4. Grows
  BY DEF Grows, ProductGrows, CartGrows
<1>5. ASSUME NEW p \in Ids PROVE RowOK(p)'
  <2>1. CASE p # Target(w)
    <3>1. applied'[p] = applied[p]
      BY <1>1, <2>1 DEF RowTypes
    <3> QED
      BY <1>1, <1>3, <3>1, RowStays DEF PlatformInv
  <2>2. CASE p = Target(w)
    BY <2>2 DEF RowOK, PlatformInv, CartKinds
  <2> QED
    BY <2>1, <2>2
<1>6. \A v \in Workers : JobOK(jobs[v])'
  BY <1>3, <1>4, NoJobOK, JobsStay
<1> QED
  BY <1>3, <1>5, <1>6 DEF PlatformInv

LEMMA ExecuteContentStep ==
    ASSUME PlatformInv, NEW w \in Workers, ExecuteContent(w)
    PROVE  PlatformInv'
<1>1. /\ TypeOK /\ At(w, "apply") /\ kind[Target(w)] = "listing.update_content"
      /\ applied' = [applied EXCEPT ![Target(w)] = @ + 1]
      /\ UNCHANGED <<cart, order, draftOpen, otherVars>>
  BY DEF ExecuteContent, PlatformInv
<1>2. product' \in Product /\ ProductGrows
  BY <1>1, TouchedProduct, ProductWritten DEF ExecuteContent, TypeOK
<1>3. TargetTypes' /\ CartGrows
  BY <1>1, <1>2 DEF TypeOK, TargetTypes, CartGrows, otherVars
<1>4. CASE Decide(w, "executed")
  <2>1. Execute(w, {"listing.update_content"})
    BY <1>1, <1>4 DEF Execute
  <2> QED
    BY <1>2, <1>3, <2>1, ExecuteStep
<1>5. CASE SetJob(w, NoJob) /\ UNCHANGED <<phase, kind, pinned, outbox>>
  BY <1>1, <1>2, <1>3, <1>5, Applying, ContentAnyway
<1> QED
  BY <1>4, <1>5 DEF ExecuteContent

LEMMA ContentMovedStep ==
    ASSUME PlatformInv, NEW w \in Workers, ContentMoved(w)
    PROVE  PlatformInv'
<1>1. Target(w) \in Ids /\ phase[Target(w)] # "absent"
  BY Applying DEF ContentMoved
<1> QED
  BY <1>1, RefuseNext DEF ContentMoved, Refusals

LEMMA ExecutingStep ==
    ASSUME PlatformInv, NEW w \in Workers, Executing(w)
    PROVE  PlatformInv'
BY ExecuteCartStep, ExecuteCancelStep, ExecuteReturnStep, ExecuteFulfilmentStep,
   ExecutePriceStep, ExecuteInventoryStep, ExecutePublishStep, ExecuteContentStep
   DEF Executing

LEMMA Refusing ==
    ASSUME PlatformInv, NEW w \in Workers, At(w, "refuse")
    PROVE  Target(w) \in Ids /\ phase[Target(w)] # "absent" /\ jobs[w].why \in Refusals
BY DEF PlatformInv, TypeOK, JobOK, At, Target

LEMMA RefuseStep ==
    ASSUME PlatformInv, NEW w \in Workers, Refuse(w)
    PROVE  PlatformInv'
<1>1. PICK how \in Refusals : how = jobs[w].why /\ Target(w) \in Ids
  BY Refusing DEF Refuse
<1>2. /\ Decide(w, how) /\ how # "executed" /\ applied' = applied
      /\ UNCHANGED <<targetVars, otherVars>>
  BY <1>1 DEF Refuse, Refusals
<1>3. TargetTypes' /\ ProductGrows /\ CartGrows
  BY <1>2, TypeParts, TargetTypesRest, RestGrows DEF PlatformInv
<1>4. applied \in [Ids -> Nat] /\ applied[Target(w)] \in Nat
  BY <1>1 DEF PlatformInv, TypeOK
<1>5. applied' \in [Ids -> Nat] /\ \A p \in Ids : p # Target(w) => applied'[p] = applied[p]
  BY <1>2, <1>4
<1>6. applied'[Target(w)] = applied[Target(w)] + (IF how = "executed" THEN 1 ELSE 0)
  BY <1>2, <1>4
<1>7. how \in {"executed"} \cup Refusals
  BY <1>1
<1> QED
  BY <1>1, <1>2, <1>3, <1>5, <1>6, <1>7, DecideStep

-----------------------------------------------------------------------------
(* The storefront *)

\* What the first half of a cart request does, whichever request it is.
LEMMA WriteLineDoes ==
    ASSUME NEW w \in Workers, WriteLine(w)
    PROVE  /\ SetJob(w, [NoJob EXCEPT !.pc = "bump"])
           /\ edits < MaxEdits /\ edits' = edits + 1
           /\ \E line \in BOOLEAN : cart' = [cart EXCEPT !.line = line]
           /\ UNCHANGED <<proposalVars, order, product, draftOpen, past, account, changes>>
<1>1. PICK line \in BOOLEAN : LineWritten(w, line)
  BY DEF WriteLine, AddToCart, UpdateCartItem, RemoveFromCart, ClearCart
<1> QED
  BY <1>1 DEF LineWritten

LEMMA WriteLineStep ==
    ASSUME PlatformInv, NEW w \in Workers, WriteLine(w)
    PROVE  PlatformInv'
<1>1. PICK job \in Job : job = [NoJob EXCEPT !.pc = "bump"]
  BY NoJobType DEF Job, NoJob
<1>2. JobOK(job)
  BY <1>1 DEF JobOK, NoJob
<1>3. /\ TypeOK /\ UNCHANGED <<order, product, draftOpen, past, account, changes>>
      /\ edits < MaxEdits /\ edits' = edits + 1
  BY WriteLineDoes DEF PlatformInv
<1>4. cart' \in [ver : Nat, line : BOOLEAN] /\ cart'.ver = cart.ver
  BY <1>3, WriteLineDoes DEF TypeOK
<1>5. edits' \in 0..MaxEdits
  BY <1>3, ProposalAssumption DEF TypeOK
<1>6. TargetTypes' /\ ProductGrows /\ CartGrows
  BY <1>3, <1>4, <1>5, ProductRests DEF TypeOK, TargetTypes, CartGrows
<1> QED
  BY <1>1, <1>2, <1>6, WriteLineDoes, QuietStep

LEMMA BumpVersionStep ==
    ASSUME PlatformInv, NEW w \in Workers, BumpVersion(w)
    PROVE  PlatformInv'
<1>1. JobOK(NoJob)
  BY DEF JobOK, NoJob
<1>2. /\ TypeOK /\ UNCHANGED <<order, product, draftOpen, past, account, edits>>
      /\ changes' = changes + 1
  BY DEF BumpVersion, PlatformInv
<1>3. cart' \in [ver : Nat, line : BOOLEAN] /\ cart'.ver = cart.ver + 1 /\ cart.ver \in Nat
  <2>1. cart \in [ver : Nat, line : BOOLEAN] /\ cart' = [cart EXCEPT !.ver = @ + 1]
    BY <1>2 DEF BumpVersion, TypeOK
  <2>2. cart.ver \in Nat /\ cart.ver + 1 \in Nat
    BY <2>1
  <2> QED
    BY <2>1, <2>2
<1>4. TargetTypes' /\ ProductGrows /\ CartGrows
  BY <1>2, <1>3, ProductRests DEF TypeOK, TargetTypes, CartGrows
<1>5. SetJob(w, NoJob) /\ UNCHANGED proposalVars
  BY DEF BumpVersion
<1> QED
  BY <1>1, <1>4, <1>5, NoJobType, QuietStep

LEMMA EditType == ASSUME TypeOK, NEW ks, Edit(ks) PROVE edits' \in 0..MaxEdits
BY ProposalAssumption DEF TypeOK, Edit

LEMMA OrderConfirmedStep == ASSUME PlatformInv, OrderConfirmed PROVE PlatformInv'
<1>1. /\ TypeOK /\ UNCHANGED <<proposalVars, draftOpen, past, account, changes, jobs>>
      /\ cart' = [cart EXCEPT !.line = FALSE] /\ product.stock > 0
  BY DEF OrderConfirmed, PlatformInv
<1>2. edits' \in 0..MaxEdits
  BY <1>1, EditType DEF OrderConfirmed
<1>3. PICK t \in Ticks, u \in Ticks :
         /\ order' = [Touched(order, t) EXCEPT !.st = "Confirmed"]
         /\ product' = [Touched(product, u) EXCEPT !.stock = @ - 1]
  BY DEF OrderConfirmed
<1>4. order' \in Order
  BY <1>1, <1>3, OrderWrite DEF OrderStatuses
<1>5. product' \in Product /\ ProductGrows
  <2>1. product.stock - 1 \in Nat /\ product \in Product
    BY <1>1 DEF TypeOK, Product
  <2>2. product' = [Touched(product, u) EXCEPT !.stock = product.stock - 1]
    BY <1>3, <2>1, TouchedProduct
  <2> QED
    BY <1>1, <2>1, <2>2, ProductWrite
<1>6. cart' \in [ver : Nat, line : BOOLEAN] /\ cart'.ver = cart.ver
  <2>1. cart \in [ver : Nat, line : BOOLEAN]
    BY <1>1 DEF TypeOK
  <2> QED
    BY <1>1, <2>1
<1>7. TargetTypes' /\ CartGrows
  BY <1>1, <1>2, <1>4, <1>5, <1>6 DEF TypeOK, TargetTypes, CartGrows
<1> QED
  BY <1>1, <1>5, <1>7, OtherStep

LEMMA OrderMovesStep == ASSUME PlatformInv, OrderMoves PROVE PlatformInv'
<1>1. TypeOK /\ UNCHANGED <<proposalVars, cart, draftOpen, past, account, changes, jobs>>
  BY DEF OrderMoves, PlatformInv
<1>2. edits' \in 0..MaxEdits
  BY <1>1, EditType DEF OrderMoves
<1>3. PICK st \in Moves[order.st] :
         /\ \E t \in Ticks : order' = [Touched(order, t) EXCEPT !.st = st]
         /\ IF order.st = "Confirmed" /\ st \in {"Cancelled", "Deleted"}
            THEN \E u \in Ticks : product' = [Touched(product, u) EXCEPT !.stock = @ + 1]
            ELSE product' = product
  BY DEF OrderMoves
<1>4. st \in OrderStatuses
  BY <1>1, <1>3, MovesType DEF TypeOK, Order
<1>5. order' \in Order
  BY <1>1, <1>3, <1>4, OrderWrite
<1>6. product' \in Product /\ ProductGrows
  <2>1. CASE product' = product
    BY <1>1, <2>1, ProductRests DEF TypeOK
  <2>2. CASE \E u \in Ticks : product' = [Touched(product, u) EXCEPT !.stock = @ + 1]
    <3>1. PICK u \in Ticks : product' = [Touched(product, u) EXCEPT !.stock = @ + 1]
      BY <2>2
    <3>2. product.stock + 1 \in Nat /\ product \in Product
      BY <1>1 DEF TypeOK, Product
    <3>3. product' = [Touched(product, u) EXCEPT !.stock = product.stock + 1]
      BY <3>1, <3>2, TouchedProduct
    <3> QED
      BY <1>1, <3>2, <3>3, ProductWrite
  <2> QED
    BY <1>3, <2>1, <2>2
<1>7. TargetTypes' /\ CartGrows
  BY <1>1, <1>2, <1>5, <1>6 DEF TypeOK, TargetTypes, CartGrows
<1> QED
  BY <1>1, <1>6, <1>7, OtherStep

LEMMA ProductEditedStep == ASSUME PlatformInv, ProductEdited PROVE PlatformInv'
<1>1. TypeOK /\ UNCHANGED <<proposalVars, cart, order, draftOpen, past, account, changes, jobs>>
  BY DEF ProductEdited, PlatformInv
<1>2. edits' \in 0..MaxEdits
  BY <1>1, EditType DEF ProductEdited
<1>3. product' \in Product /\ ProductGrows
  <2>1. PICK t \in Ticks, n \in 0..MaxStock : product' = [Touched(product, t) EXCEPT !.stock = n]
    BY DEF ProductEdited
  <2>2. n \in Nat
    BY ProposalAssumption
  <2> QED
    BY <1>1, <2>1, <2>2, ProductWrite
<1>4. TargetTypes' /\ CartGrows
  BY <1>1, <1>2, <1>3 DEF TypeOK, TargetTypes, CartGrows
<1> QED
  BY <1>1, <1>3, <1>4, OtherStep

LEMMA ProductGoneStep == ASSUME PlatformInv, ProductGone PROVE PlatformInv'
<1>1. TypeOK /\ UNCHANGED <<proposalVars, cart, order, draftOpen, past, account, changes, jobs>>
  BY DEF ProductGone, PlatformInv
<1>2. edits' \in 0..MaxEdits
  BY <1>1, EditType DEF ProductGone
<1>3. product' \in Product /\ ProductGrows
  <2>1. product' = [product EXCEPT !.live = FALSE, !.n = @ + 1, !.sec = @ + 1]
    BY DEF ProductGone
  <2>2. product.n + 1 \in Nat /\ product.sec + 1 \in Nat
    BY <1>1 DEF TypeOK, Product
  <2>3. product' \in Product /\ product'.n = product.n + 1
    BY <1>1, <2>1, <2>2 DEF TypeOK, Product
  <2> QED
    BY <1>1, <2>3, ProductWritten
<1>4. TargetTypes' /\ CartGrows
  BY <1>1, <1>2, <1>3 DEF TypeOK, TargetTypes, CartGrows
<1> QED
  BY <1>1, <1>3, <1>4, OtherStep

LEMMA DraftSavedStep == ASSUME PlatformInv, DraftSaved PROVE PlatformInv'
<1>1. TypeOK /\ UNCHANGED <<proposalVars, cart, order, product, past, account, changes, jobs>>
  BY DEF DraftSaved, PlatformInv
<1>2. edits' \in 0..MaxEdits /\ draftOpen' \in BOOLEAN
  BY <1>1, EditType DEF DraftSaved
<1>3. TargetTypes' /\ CartGrows /\ ProductGrows
  BY <1>1, <1>2, ProductRests DEF TypeOK, TargetTypes, CartGrows
<1> QED
  BY <1>1, <1>3, OtherStep

LEMMA AccountChangesStep == ASSUME PlatformInv, AccountChanges PROVE PlatformInv'
<1>1. TypeOK /\ UNCHANGED <<proposalVars, targetVars, past, changes, jobs>>
  BY DEF AccountChanges, PlatformInv
<1>2. edits' \in 0..MaxEdits
  BY <1>1, EditType DEF AccountChanges
<1>3. account' \in [role : {"same", "changed", "gone"}, verified : BOOLEAN]
  BY <1>1 DEF AccountChanges, TypeOK
<1>4. TargetTypes' /\ CartGrows /\ ProductGrows
  BY <1>1, <1>2, <1>3, ProductRests DEF TypeOK, TargetTypes, CartGrows, targetVars
<1> QED
  BY <1>1, <1>4, OtherStep

LEMMA ExpireStep == ASSUME PlatformInv, NEW p \in Ids, Expire(p) PROVE PlatformInv'
<1>1. TypeOK /\ UNCHANGED <<proposalVars, targetVars, account, changes, edits, jobs>>
  BY DEF Expire, PlatformInv
<1>2. past' \in SUBSET Ids
  BY <1>1 DEF Expire, TypeOK
<1>3. TargetTypes' /\ CartGrows /\ ProductGrows
  BY <1>1, <1>2, ProductRests DEF TypeOK, TargetTypes, CartGrows, targetVars
<1> QED
  BY <1>1, <1>3, OtherStep

-----------------------------------------------------------------------------
(* The inductive invariant *)

LEMMA PlatformStutters == ASSUME PlatformInv, UNCHANGED vars PROVE PlatformInv'
<1>1. UNCHANGED <<proposalVars, jobs, targetVars, otherVars>>
  BY DEF vars, proposalVars, targetVars, otherVars
<1>2. TargetTypes' /\ ProductGrows /\ CartGrows
  BY <1>1, TypeParts, TargetTypesRest, RestGrows DEF PlatformInv
<1> QED
  BY <1>1, <1>2, OtherStep

LEMMA PlatformStep == PlatformInv /\ [Next]_vars => PlatformInv'
<1> SUFFICES ASSUME PlatformInv, [Next]_vars PROVE PlatformInv'
  OBVIOUS
<1>1. ASSUME NEW w \in Workers, Requests(w) PROVE PlatformInv'
  <2>1. ASSUME NEW p \in Ids, Propose(w, p) PROVE PlatformInv'
    BY <2>1, ProposeCreates, ProposeStep DEF PlatformInv
  <2>2. CASE \E p \in Ids : Load(w, p)
    BY <2>2, LoadStep
  <2>3. CASE CountPending(w) \/ Recheck(w) \/ Executing(w) \/ ContentMoved(w)
    BY <2>3, CountPendingStep, RecheckStep, ExecutingStep, ContentMovedStep
  <2>4. CASE Refuse(w) \/ WriteLine(w) \/ BumpVersion(w)
    BY <2>4, RefuseStep, WriteLineStep, BumpVersionStep
  <2>5. CASE Replay(w) \/ Rollback(w)
    BY <2>5, EndStep DEF Replay, Rollback
  <2> QED
    BY <1>1, <2>1, <2>2, <2>3, <2>4, <2>5 DEF Requests
<1>2. CASE Others
  BY <1>2, OrderConfirmedStep, OrderMovesStep, ProductEditedStep, ProductGoneStep,
     DraftSavedStep, AccountChangesStep, ExpireStep DEF Others
<1>3. CASE UNCHANGED vars
  BY <1>3, PlatformStutters
<1> QED
  BY <1>1, <1>2, <1>3 DEF Next

\* The inductive invariant holds: rows, outbox and effects are in step, and what
\* the requests read is what their writes rely on.
THEOREM ProposalsPlatformInv == Spec => []PlatformInv
BY InitPlatform, PlatformStep, PTL DEF Spec

\* The state of the proposal platform has its type.
THEOREM ProposalsTypeOK == Spec => []TypeOK
<1>1. PlatformInv => TypeOK
  BY DEF PlatformInv
<1> QED
  BY <1>1, ProposalsPlatformInv, PTL

-----------------------------------------------------------------------------
(* Confirmations against the storefront *)

\* The step of request w decides its proposal, or no proposal is decided.
LEMMA WhoTakes ==
    ASSUME PlatformInv, Next, NEW p \in Ids, Takes(p)
    PROVE  \E w \in Workers : Executing(w) /\ Target(w) = p /\ phase[p] = "pending"
<1>1. phase \in [Ids -> Phases] /\ phase[p] = "pending" /\ phase'[p] = "executed"
  BY DEF PlatformInv, TypeOK, Takes
<1>2. phase' # phase
  BY <1>1
<1>3. ~Others
  BY <1>2 DEF Others, OrderConfirmed, OrderMoves, ProductEdited, ProductGone,
     DraftSaved, AccountChanges, Expire, proposalVars
<1>4. PICK w \in Workers : Requests(w)
  BY <1>3 DEF Next
<1>5. ASSUME NEW q \in Ids, Propose(w, q)
      PROVE  FALSE
  <2>1. phase' = [phase EXCEPT ![q] = "pending"]
    BY <1>5, ProposeCreates DEF Create, PlatformInv
  <2> QED
    BY <1>1, <2>1
<1>6. ~Refuse(w)
  <2> SUFFICES ASSUME Refuse(w) PROVE FALSE
    OBVIOUS
  <2>1. Target(w) \in Ids /\ jobs[w].why \in Refusals /\ phase' = [phase EXCEPT ![Target(w)] = jobs[w].why]
    BY Refusing DEF Refuse, Decide
  <2> QED
    BY <1>1, <2>1 DEF Refusals
<1>7. Executing(w)
  <2>1. ~(CountPending(w) \/ Recheck(w) \/ ContentMoved(w))
    BY <1>2 DEF CountPending, Recheck, ContentMoved, proposalVars
  <2>2. ~(Replay(w) \/ Rollback(w) \/ WriteLine(w) \/ BumpVersion(w))
    BY <1>2, WriteLineDoes DEF Replay, Rollback, BumpVersion, proposalVars
  <2>3. \A q \in Ids : ~Load(w, q)
    BY <1>2 DEF Load, proposalVars
  <2> QED
    BY <1>4, <1>5, <1>6, <2>1, <2>2, <2>3 DEF Requests
<1>8. phase' = [phase EXCEPT ![Target(w)] = "executed"]
  BY <1>2, <1>7 DEF Executing, ExecuteCart, ExecuteCancel, ExecuteReturn, ExecuteFulfilment,
     ExecutePrice, ExecuteInventory, ExecutePublish, ExecuteContent, Execute, Decide
<1>9. Target(w) = p
  BY <1>1, <1>8
<1> QED
  BY <1>1, <1>7, <1>9

\* A confirmed cart change was proposed with no storefront request completed in
\* between: the version check of the rechecks says so for the request itself.
THEOREM ProposalsNoLateCart == Spec => NoLateCart
<1>1. ASSUME PlatformInv, NEW p \in Ids, NEW w \in Workers,
             Takes(p), kind[p] \in CartKinds, At(w, "apply"), Target(w) = p
      PROVE  jobs[w].chg = pinned[p].chg
  BY <1>1, Applying DEF Ready, Target
<1>2. PlatformInv => [\A p \in Ids, w \in Workers :
         Takes(p) /\ kind[p] \in CartKinds /\ At(w, "apply") /\ Target(w) = p
           /\ jobs'[w] = NoJob
           => jobs[w].chg = pinned[p].chg]_vars
  BY <1>1
<1> QED
  BY <1>2, ProposalsPlatformInv, PTL DEF NoLateCart

\* One kind at a time: what the write of the kind was conditional on is what the
\* proposal recorded.
Reviewed(p) ==
    CASE kind[p] = "order.cancel" ->
           /\ CancelEligible
           /\ product'.stock = product.stock + UnitsBack(order.st)
      [] kind[p] = "sale.advance_fulfillment" ->
           order.st = pinned[p].st /\ order.sec = pinned[p].ver
      [] kind[p] \in {"product.set_price", "listing.update_content"} ->
           product.sec = pinned[p].ver
      [] kind[p] = "inventory.adjust" -> product.stock = pinned[p].count
      [] OTHER -> TRUE

LEMMA ExecutedReviewed ==
    ASSUME PlatformInv, NEW w \in Workers, Executing(w), Target(w) \in Ids
    PROVE  Reviewed(Target(w))
<1> DEFINE p == Target(w)
<1>1. At(w, "apply") /\ Ready(jobs[w]) /\ TypeOK /\ jobs[w].p = p
  <2>1. At(w, "apply")
    BY DEF Executing, ExecuteCart, ExecuteCancel, ExecuteReturn, ExecuteFulfilment,
       ExecutePrice, ExecuteInventory, ExecutePublish, ExecuteContent, Execute
  <2> QED
    BY <2>1, Applying DEF PlatformInv, Target
<1>2. CASE ExecuteCancel(w)
  <2>1. kind[p] = "order.cancel" /\ order.st = jobs[w].o.st
    BY <1>2 DEF ExecuteCancel, Execute
  <2>2. CancelEligible
    BY <1>1, <2>1 DEF Ready, CancelEligible
  <2>3. product'.stock = product.stock + UnitsBack(order.st)
    BY <1>1, <1>2, UnitsGivenBack DEF ExecuteCancel
  <2> QED
    BY <2>1, <2>2, <2>3 DEF Reviewed
<1>3. CASE ExecuteFulfilment(w)
  BY <1>1, <1>3 DEF ExecuteFulfilment, ApplyFulfilment, Execute, Ready, Reviewed
<1>4. CASE ExecutePrice(w) \/ ExecuteContent(w)
  <2>1. /\ kind[p] \in {"product.set_price", "listing.update_content"}
        /\ product.n = jobs[w].q.n
    BY <1>4 DEF ExecutePrice, ApplyPrice, ExecuteContent, Execute
  <2>2. product.sec = pinned[p].ver
    BY <1>1, <2>1 DEF Ready, StillRead
  <2> QED
    BY <2>1, <2>2 DEF Reviewed
<1>5. CASE ExecuteInventory(w)
  <2>1. kind[p] = "inventory.adjust" /\ product.stock = jobs[w].q.stock
    BY <1>5 DEF ExecuteInventory, Execute
  <2>2. product.stock = pinned[p].count
    BY <1>1, <2>1 DEF Ready
  <2> QED
    BY <2>1, <2>2 DEF Reviewed
<1>6. CASE ExecuteCart(w) \/ ExecuteReturn(w) \/ ExecutePublish(w)
  BY <1>6 DEF ExecuteCart, ExecuteReturn, ExecutePublish, Execute, Reviewed, CartKinds
<1> QED
  BY <1>2, <1>3, <1>4, <1>5, <1>6 DEF Executing

\* What a confirmation writes, it writes on the state its subject reviewed.
THEOREM ProposalsLandsOnReviewed == Spec => LandsOnReviewed
<1>1. ASSUME PlatformInv, Next, NEW p \in Ids, Takes(p)
      PROVE  Reviewed(p)
  BY <1>1, WhoTakes, ExecutedReviewed
<1>2. ASSUME PlatformInv, UNCHANGED vars, NEW p \in Ids
      PROVE  ~Takes(p)
  BY <1>2 DEF Takes, vars
<1>3. PlatformInv /\ [Next]_vars => [\A p \in Ids : Takes(p) => Reviewed(p)]_vars
  BY <1>1, <1>2
<1>4. PlatformInv /\ [Next]_vars =>
        [\A p \in Ids : Takes(p) =>
         CASE kind[p] = "order.cancel" ->
                /\ CancelEligible
                /\ product'.stock = product.stock + UnitsBack(order.st)
           [] kind[p] = "sale.advance_fulfillment" ->
                order.st = pinned[p].st /\ order.sec = pinned[p].ver
           [] kind[p] \in {"product.set_price", "listing.update_content"} ->
                product.sec = pinned[p].ver
           [] kind[p] = "inventory.adjust" -> product.stock = pinned[p].count
           [] OTHER -> TRUE]_vars
  BY <1>3 DEF Reviewed
<1> QED
  BY <1>4, ProposalsPlatformInv, PTL DEF Spec, LandsOnReviewed

-----------------------------------------------------------------------------
(* The platform implements Decision *)

LEMMA EffectZero ==
    ASSUME NEW p \in Ids, RowOK(p), phase[p] \in {"absent", "pending"}
    PROVE  EffectOf(p) = 0
BY DEF EffectOf, RowOK

LEMMA DecisionInitMaps == Init => Platform!Init
BY DEF Init, EffectOf, Platform!Init

\* A step that moves at most the row of p moves the abstract effect of p alone.
LEMMA EffectMoves ==
    ASSUME NEW p \in Ids,
           \A r \in Ids : r # p =>
              phase'[r] = phase[r] /\ kind'[r] = kind[r] /\ applied'[r] = applied[r]
    PROVE  [r \in Ids |-> EffectOf(r)]'
             = [[r \in Ids |-> EffectOf(r)] EXCEPT ![p] = EffectOf(p)']
<1>1. \A r \in Ids : r # p => EffectOf(r)' = EffectOf(r)
  BY DEF EffectOf
<1> QED
  BY <1>1

\* An effect that stays where it was.
LEMMA EffectRests ==
    ASSUME NEW f, NEW p \in Ids, f = [r \in Ids |-> EffectOf(r)]
    PROVE  [f EXCEPT ![p] = f[p]] = f
OBVIOUS

LEMMA ProposeMaps ==
    ASSUME PlatformInv, NEW w \in Workers, NEW p \in Ids, NEW k \in Kinds,
           NEW pin \in Pin, Create(w, p, k, pin), NewPin(k, pin)
    PROVE  Platform!Create(p)
<1>1. /\ phase[p] = "absent" /\ phase' = [phase EXCEPT ![p] = "pending"]
      /\ kind' = [kind EXCEPT ![p] = k] /\ applied' = applied
      /\ outbox' = [outbox EXCEPT ![p] = <<"created">>]
  BY DEF Create
<1>2. RowOK(p) /\ RowTypes /\ PlatformInv'
  BY TypeParts, ProposeStep DEF PlatformInv
<1>3. EffectOf(p) = 0
  BY <1>1, <1>2, EffectZero
<1>4. phase'[p] = "pending" /\ RowOK(p)'
  BY <1>1, <1>2 DEF RowTypes, PlatformInv
<1>5. EffectOf(p)' = 0
  BY <1>4 DEF EffectOf, RowOK
<1>6. [r \in Ids |-> EffectOf(r)]' = [[r \in Ids |-> EffectOf(r)] EXCEPT ![p] = EffectOf(p)']
  BY <1>1, <1>2, EffectMoves DEF RowTypes
<1>7. [r \in Ids |-> EffectOf(r)]' = [r \in Ids |-> EffectOf(r)]
  BY <1>3, <1>5, <1>6
<1> QED
  BY <1>1, <1>7 DEF Platform!Create

LEMMA AppendToOne ==
    ASSUME NEW S, NEW a \in S, NEW b \in S
    PROVE  Append(<<a>>, b) = <<a, b>>
<1>1. <<a, b>> \in Seq(S) /\ Append(<<a>>, b) \in Seq(S)
  OBVIOUS
<1>2. /\ Len(Append(<<a>>, b)) = 2 /\ Append(<<a>>, b)[1] = a /\ Append(<<a>>, b)[2] = b
      /\ Len(<<a, b>>) = 2 /\ <<a, b>>[1] = a /\ <<a, b>>[2] = b
  OBVIOUS
<1>3. \A i \in 1..2 : i = 1 \/ i = 2
  OBVIOUS
<1> QED
  BY <1>1, <1>2, <1>3, SeqEqual

\* A decision appends its event to the one of the creation.
LEMMA DecideTells ==
    ASSUME PlatformInv, NEW w \in Workers, NEW how \in {"executed"} \cup Refusals,
           Decide(w, how), Target(w) \in Ids
    PROVE  /\ phase[Target(w)] = "pending"
           /\ phase' = [phase EXCEPT ![Target(w)] = how]
           /\ outbox' = [outbox EXCEPT ![Target(w)] = <<"created", how>>]
           /\ RowOK(Target(w)) /\ RowTypes /\ kind' = kind
<1>1. /\ phase[Target(w)] = "pending" /\ phase' = [phase EXCEPT ![Target(w)] = how]
      /\ outbox' = [outbox EXCEPT ![Target(w)] = Append(@, how)]
      /\ RowOK(Target(w)) /\ RowTypes /\ kind' = kind
  BY TypeParts DEF Decide, PlatformInv
<1>2. outbox[Target(w)] = <<"created">>
  BY <1>1 DEF RowOK
<1>3. Append(<<"created">>, how) = <<"created", how>>
  <2>1. "created" \in {"created", "executed"} \cup Refusals /\ how \in {"created", "executed"} \cup Refusals
    OBVIOUS
  <2> QED
    BY <2>1, AppendToOne
<1> QED
  BY <1>1, <1>2, <1>3

LEMMA ExecutedMaps ==
    ASSUME PlatformInv, NEW w \in Workers, NEW p \in Ids, p = Target(w), Decide(w, "executed"),
           applied' = [applied EXCEPT ![p] = @ + 1]
    PROVE  Platform!Execute(p)
<1>1. /\ phase[p] = "pending" /\ phase' = [phase EXCEPT ![p] = "executed"]
      /\ outbox' = [outbox EXCEPT ![p] = <<"created", "executed">>]
      /\ RowOK(p) /\ RowTypes /\ kind' = kind
  BY DecideTells
<1>2. [r \in Ids |-> EffectOf(r)]' = [[r \in Ids |-> EffectOf(r)] EXCEPT ![p] = EffectOf(p)']
  BY <1>1, EffectMoves DEF RowTypes
<1>3. phase'[p] = "executed" /\ applied'[p] = applied[p] + 1
  BY <1>1 DEF RowTypes
<1>4. kind[p] # "listing.update_content" => applied[p] = 0
  BY <1>1 DEF RowOK
<1>5. EffectOf(p)' = 1
  BY <1>1, <1>3, <1>4 DEF EffectOf
<1> QED
  BY <1>1, <1>2, <1>5 DEF Platform!Execute

LEMMA RefuseMaps ==
    ASSUME PlatformInv, NEW w \in Workers, Refuse(w)
    PROVE  \E p \in Ids, why \in Refusals : Platform!Refuse(p, why)
<1>1. PICK why \in Refusals, p \in Ids : why = jobs[w].why /\ p = Target(w)
  BY Refusing DEF Refuse
<1>2. Decide(w, why) /\ applied' = applied
  BY <1>1 DEF Refuse
<1>3. /\ phase[p] = "pending" /\ phase' = [phase EXCEPT ![p] = why]
      /\ outbox' = [outbox EXCEPT ![p] = <<"created", why>>]
      /\ RowOK(p) /\ RowTypes /\ kind' = kind
  BY <1>1, <1>2, DecideTells
<1>4. [r \in Ids |-> EffectOf(r)]' = [[r \in Ids |-> EffectOf(r)] EXCEPT ![p] = EffectOf(p)']
  BY <1>1, <1>2, <1>3, EffectMoves DEF RowTypes
<1>5. EffectOf(p) = 0
  BY <1>1, <1>3, EffectZero
<1>6. phase'[p] = why /\ why # "executed"
  BY <1>1, <1>3 DEF RowTypes, Refusals
<1>7. EffectOf(p)' = 0
  BY <1>2, <1>3, <1>5, <1>6 DEF EffectOf
<1>8. [r \in Ids |-> EffectOf(r)]' = [r \in Ids |-> EffectOf(r)]
  BY <1>4, <1>5, <1>7
<1>9. Platform!Refuse(p, why)
  BY <1>3, <1>8 DEF Platform!Refuse
<1> QED
  BY <1>1, <1>9

LEMMA ExecutingMaps ==
    ASSUME PlatformInv, NEW w \in Workers, Executing(w)
    PROVE  \/ \E p \in Ids : Platform!Execute(p)
           \/ UNCHANGED Platform!decisionVars
<1>1. At(w, "apply") /\ applied' = [applied EXCEPT ![Target(w)] = @ + 1]
  BY DEF Executing, ExecuteCart, ExecuteCancel, ExecuteReturn, ExecuteFulfilment,
     ExecutePrice, ExecuteInventory, ExecutePublish, ExecuteContent, Execute
<1>2. PICK p \in Ids : p = Target(w)
  BY <1>1, Applying
<1>3. CASE Decide(w, "executed")
  BY <1>1, <1>2, <1>3, ExecutedMaps
<1>4. CASE /\ kind[p] = "listing.update_content"
           /\ UNCHANGED <<phase, kind, outbox>>
  <2>1. RowTypes
    BY TypeParts DEF PlatformInv
  <2>2. [r \in Ids |-> EffectOf(r)]'
          = [[r \in Ids |-> EffectOf(r)] EXCEPT ![p] = EffectOf(p)']
    BY <1>1, <1>2, <1>4, <2>1, EffectMoves DEF RowTypes
  <2>3. EffectOf(p)' = EffectOf(p)
    BY <1>4 DEF EffectOf
  <2>4. [r \in Ids |-> EffectOf(r)]' = [r \in Ids |-> EffectOf(r)]
    BY <1>2, <2>2, <2>3
  <2> QED
    BY <1>4, <2>4 DEF Platform!decisionVars
<1>5. \/ Decide(w, "executed")
      \/ kind[Target(w)] = "listing.update_content" /\ UNCHANGED <<phase, kind, outbox>>
  BY DEF Executing, ExecuteCart, ExecuteCancel, ExecuteReturn, ExecuteFulfilment,
     ExecutePrice, ExecuteInventory, ExecutePublish, ExecuteContent, Execute
<1> QED
  BY <1>2, <1>3, <1>4, <1>5

\* Every other step leaves the proposals alone.
LEMMA DecisionStutters ==
    ASSUME UNCHANGED proposalVars
    PROVE  UNCHANGED Platform!decisionVars
BY DEF proposalVars, Platform!decisionVars, EffectOf

LEMMA DecisionStepMaps ==
    PlatformInv /\ [Next]_vars => [Platform!Next]_(Platform!decisionVars)
<1> SUFFICES ASSUME PlatformInv, [Next]_vars
             PROVE  [Platform!Next]_(Platform!decisionVars)
  OBVIOUS
<1>1. ASSUME NEW w \in Workers, Requests(w)
      PROVE  [Platform!Next]_(Platform!decisionVars)
  <2>1. ASSUME NEW p \in Ids, Propose(w, p) PROVE [Platform!Next]_(Platform!decisionVars)
    BY <2>1, ProposeCreates, ProposeMaps DEF Platform!Next, PlatformInv
  <2>2. CASE Refuse(w)
    BY <2>2, RefuseMaps DEF Platform!Next, Refusals, Platform!Refusals
  <2>3. CASE Executing(w)
    BY <2>3, ExecutingMaps DEF Platform!Next
  <2>4. CASE \/ CountPending(w) \/ Recheck(w) \/ ContentMoved(w) \/ Replay(w) \/ Rollback(w)
             \/ WriteLine(w) \/ BumpVersion(w) \/ \E p \in Ids : Load(w, p)
    BY <2>4, WriteLineDoes, DecisionStutters
    DEF CountPending, Recheck, ContentMoved, Replay, Rollback, BumpVersion, Load
  <2> QED
    BY <1>1, <2>1, <2>2, <2>3, <2>4 DEF Requests
<1>2. CASE Others
  BY <1>2, DecisionStutters
  DEF Others, OrderConfirmed, OrderMoves, ProductEdited, ProductGone, DraftSaved,
      AccountChanges, Expire
<1>3. CASE UNCHANGED vars
  BY <1>3, DecisionStutters DEF vars, proposalVars
<1> QED
  BY <1>1, <1>2, <1>3 DEF Next

\* However requests race, each proposal is decided as Decision describes.
THEOREM ProposalsImplementDecision == Spec => DecidedOnce
BY DecisionInitMaps, DecisionStepMaps, ProposalsPlatformInv, PTL
DEF Spec, DecidedOnce, Platform!Spec

-----------------------------------------------------------------------------
(* The limit of pending proposals *)

LEMMA Counts ==
    /\ IsFiniteSet(Open) /\ IsFiniteSet(Proposing) /\ IsFiniteSet(Workers)
    /\ Cardinality(Open) \in Nat /\ Cardinality(Proposing) \in Nat
    /\ Cardinality(Workers) \in Nat /\ Cardinality(Proposing) <= Cardinality(Workers)
<1>1. Open \subseteq Ids /\ Proposing \subseteq Workers
  BY DEF Open, Proposing
<1> QED
  BY <1>1, ProposalAssumption, FS_Subset, FS_CardinalityType

LEMMA CountsNext ==
    /\ IsFiniteSet(Open') /\ IsFiniteSet(Proposing')
    /\ Cardinality(Open') \in Nat /\ Cardinality(Proposing') \in Nat
    /\ Cardinality(Proposing') <= Cardinality(Workers)
<1>1. Open' \subseteq Ids /\ Proposing' \subseteq Workers
  BY DEF Open, Proposing
<1> QED
  BY <1>1, ProposalAssumption, FS_Subset, FS_CardinalityType

\* Fewer open proposals and fewer requests that are to add one.
LEMMA HeadroomShrinks ==
    ASSUME HeadroomKept, Open' \subseteq Open, Proposing' \subseteq Proposing
    PROVE  HeadroomKept'
<1>1. /\ Cardinality(Open') <= Cardinality(Open)
      /\ Cardinality(Proposing') <= Cardinality(Proposing)
  BY Counts, FS_Subset
<1> QED
  BY <1>1, Counts, CountsNext, ProposalAssumption DEF HeadroomKept

LEMMA HeadroomCounted ==
    ASSUME PlatformInv, NEW w \in Workers, CountPending(w)
    PROVE  HeadroomKept'
<1>1. Open' = Open /\ Cardinality(Open) < MaxPending
  BY DEF CountPending, proposalVars, otherVars, Open
<1> QED
  BY <1>1, Counts, CountsNext, ProposalAssumption DEF HeadroomKept

LEMMA AddOne ==
    ASSUME NEW S, NEW x, IsFiniteSet(S)
    PROVE  IsFiniteSet(S \cup {x}) /\ Cardinality(S \cup {x}) <= Cardinality(S) + 1
<1> DEFINE n == Cardinality(S)
<1> DEFINE more == Cardinality(S \cup {x})
<1>1. n \in Nat
  BY FS_CardinalityType
<1>2. IsFiniteSet(S \cup {x}) /\ more = IF x \in S THEN n ELSE n + 1
  BY FS_AddElement
<1>3. more <= n + 1
  <2> HIDE DEF n, more
  <2> QED
    BY <1>1, <1>2
<1> QED
  BY <1>2, <1>3

LEMMA HeadroomProposed ==
    ASSUME PlatformInv, HeadroomKept, NEW w \in Workers, NEW p \in Ids, Propose(w, p)
    PROVE  HeadroomKept'
<1>1. phase \in [Ids -> Phases] /\ jobs \in [Workers -> Job]
  BY DEF PlatformInv, TypeOK
<1>2. /\ phase' = [phase EXCEPT ![p] = "pending"] /\ past' = past
      /\ jobs' = [jobs EXCEPT ![w] = NoJob] /\ jobs[w].pc = "propose"
  BY ProposeCreates DEF Create, SetJob, At, otherVars, PlatformInv
<1>3. Open' \subseteq Open \cup {p}
  BY <1>1, <1>2 DEF Open
<1>4. Cardinality(Open') <= Cardinality(Open) + 1
  <2>1. IsFiniteSet(Open \cup {p}) /\ Cardinality(Open \cup {p}) <= Cardinality(Open) + 1
    BY Counts, AddOne
  <2>2. Cardinality(Open') <= Cardinality(Open \cup {p}) /\ Cardinality(Open \cup {p}) \in Nat
    BY <1>3, <2>1, FS_Subset, FS_CardinalityType
  <2> QED
    BY <2>1, <2>2, Counts, CountsNext
<1>5. w \in Proposing /\ Proposing' \subseteq Proposing \ {w}
  BY <1>1, <1>2 DEF Proposing, At, NoJob
<1>6. Cardinality(Proposing') <= Cardinality(Proposing) - 1
  <2>1. IsFiniteSet(Proposing \ {w}) /\ Cardinality(Proposing \ {w}) = Cardinality(Proposing) - 1
    BY <1>5, Counts, FS_RemoveElement
  <2> QED
    BY <1>5, <2>1, FS_Subset
<1> QED
  BY <1>4, <1>6, Counts, CountsNext, ProposalAssumption DEF HeadroomKept

\* A request that moves on to anything but the write of a proposal.
LEMMA ProposingShrinks ==
    ASSUME PlatformInv, NEW w \in Workers, NEW job, job.pc # "propose", SetJob(w, job)
    PROVE  Proposing' \subseteq Proposing
BY DEF PlatformInv, TypeOK, SetJob, Proposing, At

LEMMA OpenRests ==
    ASSUME UNCHANGED <<phase, past>>
    PROVE  Open' \subseteq Open
BY DEF Open

LEMMA HeadroomDecided ==
    ASSUME PlatformInv, HeadroomKept, NEW w \in Workers, NEW how, how # "pending",
           Decide(w, how), past' = past
    PROVE  HeadroomKept'
<1>1. phase \in [Ids -> Phases] /\ phase' = [phase EXCEPT ![Target(w)] = how] /\ SetJob(w, NoJob)
  BY DEF PlatformInv, TypeOK, Decide
<1>2. Open' \subseteq Open
  BY <1>1 DEF Open
<1>3. Proposing' \subseteq Proposing
  BY <1>1, ProposingShrinks DEF NoJob
<1> QED
  BY <1>2, <1>3, HeadroomShrinks

\* A request ends and no proposal is written.
LEMMA HeadroomEnds ==
    ASSUME PlatformInv, HeadroomKept, NEW w \in Workers, NEW job, job.pc # "propose",
           SetJob(w, job), UNCHANGED <<phase, past>>
    PROVE  HeadroomKept'
BY OpenRests, ProposingShrinks, HeadroomShrinks

LEMMA HeadroomExecuting ==
    ASSUME PlatformInv, HeadroomKept, NEW w \in Workers, Executing(w)
    PROVE  HeadroomKept'
<1>1. past' = past
  BY DEF Executing, ExecuteCart, ExecuteCancel, ExecuteReturn, ExecuteFulfilment,
     ExecutePrice, ExecuteInventory, ExecutePublish, ExecuteContent, otherVars
<1>2. Decide(w, "executed") \/ (SetJob(w, NoJob) /\ UNCHANGED phase)
  BY DEF Executing, ExecuteCart, ExecuteCancel, ExecuteReturn, ExecuteFulfilment,
     ExecutePrice, ExecuteInventory, ExecutePublish, ExecuteContent, Execute
<1>3. NoJob.pc # "propose"
  BY DEF NoJob
<1> QED
  BY <1>1, <1>2, <1>3, HeadroomDecided, HeadroomEnds

LEMMA HeadroomReads ==
    ASSUME PlatformInv, HeadroomKept, NEW w \in Workers,
           Recheck(w) \/ ContentMoved(w) \/ \E p \in Ids : Load(w, p)
    PROVE  HeadroomKept'
<1>1. UNCHANGED <<phase, past>>
  BY DEF Recheck, ContentMoved, Load, proposalVars, otherVars
<1>2. jobs[w] \in Job
  BY DEF PlatformInv, TypeOK
<1>3. \E job : SetJob(w, job) /\ job.pc # "propose"
  <2>1. CASE Recheck(w)
    <3>1. \A x, y : [jobs[w] EXCEPT !.pc = "apply", !.o = x, !.q = y].pc # "propose"
      BY <1>2 DEF Job
    <3>2. \A x : [jobs[w] EXCEPT !.pc = "refuse", !.why = x].pc # "propose"
      BY <1>2 DEF Job
    <3> QED
      BY <2>1, <3>1, <3>2 DEF Recheck
  <2>2. CASE ContentMoved(w)
    <3>1. [jobs[w] EXCEPT !.pc = "refuse", !.why = "stale"].pc # "propose"
      BY <1>2 DEF Job
    <3> QED
      BY <2>2, <3>1 DEF ContentMoved
  <2>3. ASSUME NEW p \in Ids, Load(w, p)
        PROVE  \E job : SetJob(w, job) /\ job.pc # "propose"
    <3> DEFINE job == [NoJob EXCEPT !.p = p, !.chg = IF kind[p] \in CartKinds THEN changes ELSE 0]
    <3>1. /\ \A x : [job EXCEPT !.pc = "refuse", !.why = x].pc # "propose"
          /\ [job EXCEPT !.pc = "recheck"].pc # "propose"
      BY DEF NoJob
    <3>2. CASE p \in past
      BY <2>3, <3>1, <3>2 DEF Load
    <3>3. CASE p \notin past /\ account.role = "changed"
      BY <2>3, <3>1, <3>3 DEF Load
    <3>4. CASE p \notin past /\ account.role # "changed"
      BY <2>3, <3>1, <3>4 DEF Load
    <3> QED
      BY <3>2, <3>3, <3>4
  <2> QED
    BY <2>1, <2>2, <2>3
<1> QED
  BY <1>1, <1>3, HeadroomEnds

LEMMA HeadroomStep == PlatformInv /\ HeadroomKept /\ [Next]_vars => HeadroomKept'
<1> SUFFICES ASSUME PlatformInv, HeadroomKept, [Next]_vars PROVE HeadroomKept'
  OBVIOUS
<1>1. ASSUME NEW w \in Workers, Requests(w) PROVE HeadroomKept'
  <2>1. CASE CountPending(w)
    BY <2>1, HeadroomCounted
  <2>2. CASE \E p \in Ids : Propose(w, p)
    BY <2>2, HeadroomProposed
  <2>3. CASE Recheck(w) \/ ContentMoved(w) \/ \E p \in Ids : Load(w, p)
    BY <2>3, HeadroomReads
  <2>4. CASE Executing(w)
    BY <2>4, HeadroomExecuting
  <2>5. CASE Refuse(w)
    <3>1. Decide(w, jobs[w].why) /\ jobs[w].why # "pending" /\ past' = past
      BY <2>5, Refusing DEF Refuse, Refusals, otherVars
    <3> QED
      BY <3>1, HeadroomDecided
  <2>6. CASE Replay(w) \/ Rollback(w) \/ BumpVersion(w)
    <3>1. SetJob(w, NoJob) /\ UNCHANGED <<phase, past>> /\ NoJob.pc # "propose"
      BY <2>6 DEF Replay, Rollback, BumpVersion, proposalVars, otherVars, NoJob
    <3> QED
      BY <3>1, HeadroomEnds
  <2>7. CASE WriteLine(w)
    <3>1. /\ SetJob(w, [NoJob EXCEPT !.pc = "bump"]) /\ UNCHANGED <<phase, past>>
          /\ [NoJob EXCEPT !.pc = "bump"].pc # "propose"
      BY <2>7, WriteLineDoes DEF proposalVars, NoJob
    <3> QED
      BY <3>1, HeadroomEnds
  <2> QED
    BY <1>1, <2>1, <2>2, <2>3, <2>4, <2>5, <2>6, <2>7 DEF Requests
<1>2. ASSUME UNCHANGED <<phase, jobs>>, past \subseteq past' PROVE HeadroomKept'
  BY <1>2, HeadroomShrinks DEF Open, Proposing, At
<1>3. CASE Others
  BY <1>2, <1>3 DEF Others, OrderConfirmed, OrderMoves, ProductEdited, ProductGone,
     DraftSaved, AccountChanges, Expire, proposalVars
<1>4. CASE UNCHANGED vars
  BY <1>2, <1>4 DEF vars
<1> QED
  BY <1>1, <1>3, <1>4 DEF Next

LEMMA HeadroomInit == Init => HeadroomKept
<1> SUFFICES ASSUME Init PROVE HeadroomKept
  OBVIOUS
<1>1. Open = {} /\ Proposing = {}
  BY DEF Init, Open, Proposing, At, NoJob
<1> QED
  BY <1>1, Counts, FS_EmptySet, ProposalAssumption DEF HeadroomKept

\* Requests that count and then write exceed the limit by less than their number.
THEOREM ProposalsHeadroomKept == Spec => []HeadroomKept
BY HeadroomInit, HeadroomStep, ProposalsPlatformInv, PTL DEF Spec
=============================================================================
