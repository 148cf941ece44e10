------------------------------ MODULE Proposals -----------------------------
(***************************************************************************)
(* Assistant proposals: an MCP client may only propose a change; the       *)
(* customer or seller confirms it in the browser and executeProposal makes *)
(* it.  Proposing, confirming and the storefront's own writes to the same  *)
(* cart, order, product and draft run concurrently.                        *)
(*                                                                         *)
(* executeProposal is one READ COMMITTED transaction.  It loads, checks,   *)
(* and then writes; what it writes is seen by others only at its commit    *)
(* and the rows it wrote are locked until then, so its writes are one      *)
(* action and its reads are the actions before.                            *)
(***************************************************************************)
EXTENDS Integers, Sequences, FiniteSets

CONSTANTS
    Ids,         \* bound: proposal rows that may be created
    Workers,     \* concurrent requests
    MaxPending,  \* MAX_PENDING_PROPOSALS
    MaxStock,    \* bound: a product's quantity
    MaxEdits,    \* bound: writes of others to cart, order, product, draft, account
    Bundles,     \* bound: the kinds of action proposed in one behaviour
    None

ASSUME ProposalAssumption ==
    /\ IsFiniteSet(Ids) /\ IsFiniteSet(Workers)
    /\ None \notin {"expired", "stale", "rejected"}
    /\ MaxPending \in Nat \ {0} /\ MaxStock \in Nat /\ MaxEdits \in Nat

VARIABLES
    phase,     \* proposals.status
    kind,      \* proposals.actionKind
    pinned,    \* what the proposal recorded of its target
    outbox,    \* proposal_outbox_events of the proposal
    applied,   \* history: how often its change was made
    past,      \* the proposals whose expiresAt has passed
    cart,      \* the subject's cart: its version, whether the line is in it
    order,     \* an order of the subject: its status and updatedAt
    product,   \* a product of the subject: quantity, availability, updatedAt
    draftOpen, \* the listing draft is still "Draft"
    account,   \* the subject: role as recorded, changed, or gone; verified
    changes,   \* history: completed cart requests of the storefront
    edits,     \* bound: writes of others so far
    jobs       \* the requests in flight

proposalVars == <<phase, kind, pinned, outbox, applied>>
targetVars == <<cart, order, product, draftOpen>>
otherVars == <<past, account, changes, edits>>
vars == <<phase, kind, pinned, outbox, applied, past, cart, order, product,
          draftOpen, account, changes, edits, jobs>>

-----------------------------------------------------------------------------
(* Types *)

CartKinds == {"cart.add_item", "cart.update_quantity", "cart.remove_item"}
OrderKinds == {"order.cancel", "order.return_request", "sale.advance_fulfillment"}
ProductKinds == {"product.set_price", "inventory.adjust", "listing.update_content"}
Kinds == CartKinds \cup OrderKinds \cup ProductKinds \cup {"listing.publish"}

\* Kinds that only a verified seller may execute; the others look at the role.
VerifiedKinds == {"sale.advance_fulfillment", "inventory.adjust",
                  "listing.publish", "listing.update_content"}

Refusals == {"expired", "stale", "rejected"}
Phases == {"absent", "pending", "executed"} \cup Refusals

OrderStatuses == {"Pending", "Confirmed", "Processing", "Shipped", "Delivered",
                  "Cancelled", "Return Requested", "Deleted"}

\* updatedAt is the pair sec, n: the proxies compare whole seconds, the
\* compare-and-swaps the exact value, which every write replaces.
Order == [st : OrderStatuses, sec : Nat, n : Nat]
Product == [stock : Nat, live : BOOLEAN, sec : Nat, n : Nat]

\* expectedVersion, and what the payload repeats of the target: the count of an
\* inventory change and what it is to become, the status a fulfilment step
\* leaves, the exact row a price or a count was shown of.  chg is history: the cart
\* requests completed when it was proposed.  What a kind does not use is as in
\* NoPin.
Pin == [ver : Nat, n : Nat, st : OrderStatuses, count : Nat, to : Nat, chg : Nat]
NoPin == [ver |-> 0, n |-> 0, st |-> "Pending", count |-> 0, to |-> 0, chg |-> 0]

Job == [pc   : {"idle", "propose", "refuse", "recheck", "apply", "bump"},
        p    : Ids \cup {None},
        why  : Refusals \cup {None},           \* the refusal decided on
        o    : Order \cup {None},              \* the order read by the recheck
        q    : Product \cup {None},            \* the product read by the recheck
        chg  : Nat,                            \* history: changes when it began
        ok   : BOOLEAN]                        \* the seller was verified
NoJob == [pc |-> "idle", p |-> None, why |-> None, o |-> None, q |-> None, chg |-> 0,
          ok |-> FALSE]

TypeOK ==
    /\ phase \in [Ids -> Phases]
    /\ kind \in [Ids -> Kinds \cup {None}]
    /\ pinned \in [Ids -> Pin]
    /\ outbox \in [Ids -> Seq({"created", "executed"} \cup Refusals)]
    /\ applied \in [Ids -> Nat]
    /\ past \in SUBSET Ids
    /\ cart \in [ver : Nat, line : BOOLEAN]
    /\ order \in Order
    /\ product \in Product
    /\ draftOpen \in BOOLEAN
    /\ account \in [role : {"same", "changed", "gone"}, verified : BOOLEAN]
    /\ changes \in Nat
    /\ edits \in 0..MaxEdits
    /\ jobs \in [Workers -> Job]

\* A cart with a line, an order at the start, middle or end of its life, a
\* product in stock; no proposal yet.
Init ==
    /\ phase = [p \in Ids |-> "absent"]
    /\ kind = [p \in Ids |-> None]
    /\ pinned = [p \in Ids |-> NoPin]
    /\ outbox = [p \in Ids |-> <<>>]
    /\ applied = [p \in Ids |-> 0]
    /\ past = {}
    /\ cart = [ver |-> 0, line |-> TRUE]
    /\ order \in [st : {"Pending", "Confirmed", "Delivered"}, sec : {0}, n : {0}]
    /\ product = [stock |-> MaxStock, live |-> TRUE, sec |-> 0, n |-> 0]
    /\ draftOpen = TRUE
    /\ account = [role |-> "same", verified |-> TRUE]
    /\ changes = 0
    /\ edits = 0
    /\ jobs = [w \in Workers |-> NoJob]

-----------------------------------------------------------------------------
(* Shared state formulae *)

SetJob(w, job) == jobs' = [jobs EXCEPT ![w] = job]
Idle(w) == jobs[w].pc = "idle"
At(w, pc) == jobs[w].pc = pc
Target(w) == jobs[w].p

\* A written row gets a new updatedAt, in the same second or in a later one.
Touched(row, tick) == [row EXCEPT !.sec = @ + tick, !.n = @ + 1]
Ticks == {0, 1}

\* What a pending-count of the subject sees.
Open == {p \in Ids : phase[p] = "pending"} \ past

\* SELLER_FULFILLMENT_TRANSITIONS: the next stage of a sale line.
Stages == {"Confirmed", "Processing", "Shipped"}
NextStage(st) == CASE st = "Confirmed" -> "Processing"
                   [] st = "Processing" -> "Shipped"
                   [] st = "Shipped" -> "Delivered"

CancelEligible == order.st \in {"Pending", "Confirmed"}
UnitsBack(st) == IF st = "Confirmed" THEN 1 ELSE 0

-----------------------------------------------------------------------------
(* Proposing, over MCP *)

\* Mutant of CountPending: the pending proposals are not counted.
CountPendingSkipped(w) ==
    /\ Idle(w) /\ account.role = "same"
    /\ SetJob(w, [NoJob EXCEPT !.pc = "propose", !.ok = account.verified])
    /\ UNCHANGED <<proposalVars, targetVars, otherVars>>

\* authorizeAssistantOperation reads the account, enforceProposalCreationLimits
\* counts, each in a transaction of its own.  What changes the account between
\* the two could as well come after them.
CountPending(w) ==
    /\ Idle(w) /\ account.role = "same"
    /\ Cardinality(Open) < MaxPending
    /\ SetJob(w, [NoJob EXCEPT !.pc = "propose", !.ok = account.verified])
    /\ UNCHANGED <<proposalVars, targetVars, otherVars>>

\* expectedVersion: the cart's counter, or a row's updatedAt in seconds.  A
\* draft's version never changes, a new one is a new row.
VersionFor(k) ==
    CASE k \in CartKinds -> cart.ver
      [] k \in OrderKinds -> order.sec
      [] k \in ProductKinds -> product.sec
      [] k = "listing.publish" -> 0

\* Proposal row and outbox event, in one transaction with the read of the target.
Create(w, p, k, pin) ==
    /\ At(w, "propose") /\ phase[p] = "absent"
    /\ \E B \in Bundles : {k} \cup {kind[q] : q \in {r \in Ids : phase[r] # "absent"}} \subseteq B
    /\ phase' = [phase EXCEPT ![p] = "pending"]
    /\ kind' = [kind EXCEPT ![p] = k]
    /\ pinned' = [pinned EXCEPT ![p] = pin]
    /\ outbox' = [outbox EXCEPT ![p] = <<"created">>]
    /\ SetJob(w, NoJob)
    /\ UNCHANGED <<applied, targetVars, otherVars>>

ProposeCart(w, p, k) ==
    /\ k \in CartKinds
    /\ k = "cart.add_item" \/ cart.line
    /\ Create(w, p, k, [NoPin EXCEPT !.ver = cart.ver, !.chg = changes])

ProposeCancel(w, p) ==
    /\ CancelEligible
    /\ Create(w, p, "order.cancel", [NoPin EXCEPT !.ver = order.sec])

ProposeReturn(w, p) ==
    /\ order.st = "Delivered"
    /\ Create(w, p, "order.return_request", [NoPin EXCEPT !.ver = order.sec])

\* The stage is stored with the sale line.
ProposeFulfilment(w, p) ==
    /\ jobs[w].ok /\ order.st \in Stages
    /\ Create(w, p, "sale.advance_fulfillment", [NoPin EXCEPT !.ver = order.sec, !.st = order.st])

ProposePrice(w, p) ==
    /\ jobs[w].ok /\ product.live
    /\ Create(w, p, "product.set_price", [NoPin EXCEPT !.ver = product.sec, !.n = product.n])

\* The count shown is stored, and what it is to become.
ProposeInventory(w, p, to) ==
    /\ jobs[w].ok /\ product.live
    /\ Create(w, p, "inventory.adjust",
              [NoPin EXCEPT !.ver = product.sec, !.n = product.n,
                            !.count = product.stock, !.to = to])

ProposePublish(w, p) ==
    /\ jobs[w].ok /\ draftOpen
    /\ Create(w, p, "listing.publish", NoPin)

ProposeContent(w, p) ==
    /\ jobs[w].ok /\ product.live
    /\ Create(w, p, "listing.update_content", [NoPin EXCEPT !.ver = product.sec])

Propose(w, p) ==
    \/ \E k \in CartKinds : ProposeCart(w, p, k)
    \/ ProposeCancel(w, p) \/ ProposeReturn(w, p) \/ ProposeFulfilment(w, p)
    \/ ProposePrice(w, p) \/ \E to \in 0..MaxStock : ProposeInventory(w, p, to)
    \/ ProposePublish(w, p) \/ ProposeContent(w, p)

-----------------------------------------------------------------------------
(* Confirming: executeProposal *)

\* Load and reauthorization.  A proposal that is decided is replayed, and an
\* unverified seller, a missing account or a wrong password is turned away:
\* none of these changes anything.
Load(w, p) ==
    /\ Idle(w)
    /\ phase[p] = "pending"
    /\ p \notin past => /\ account.role # "gone"
                        /\ kind[p] = "product.set_price" => account.verified
                        /\ kind[p] \in VerifiedKinds =>
                             account.verified \/ account.role = "changed"
    /\ LET job == [NoJob EXCEPT !.p = p, !.chg = IF kind[p] \in CartKinds THEN changes ELSE 0] IN
       SetJob(w, CASE p \in past -> [job EXCEPT !.pc = "refuse", !.why = "expired"]
                   [] p \notin past /\ account.role = "changed"
                        -> [job EXCEPT !.pc = "refuse", !.why = "rejected"]
                   [] OTHER -> [job EXCEPT !.pc = "recheck"])
    /\ UNCHANGED <<proposalVars, targetVars, otherVars>>

(* What the rereads of each kind can come to: a refusal, or None for go ahead.
   The kinds differ in which of version and business state is looked at first. *)

\* The cart's version, then the line or the product.
CartVerdicts(p) ==
    LET fit == IF kind[p] = "cart.add_item" THEN product.live /\ product.stock > 0
               ELSE cart.line
    IN  IF pinned[p].ver # cart.ver THEN {"stale"}
        ELSE IF fit THEN {None} ELSE {"rejected"}

CancelVerdicts(p) ==
    IF order.st = "Deleted" THEN {"rejected"}
    ELSE IF pinned[p].ver # order.sec THEN {"stale"}
    ELSE IF CancelEligible THEN {None} ELSE {"rejected"}

\* revalidateReturnForExecution: a changed state is rejected before the version
\* is compared.
ReturnVerdicts(p) ==
    IF order.st # "Delivered" THEN {"rejected"}
    ELSE IF pinned[p].ver # order.sec THEN {"stale"} ELSE {None}

\* The stored stage is the next one only of the stage that was shown.
FulfilmentVerdicts(p) ==
    IF order.st # pinned[p].st THEN {"rejected"}
    ELSE IF pinned[p].ver # order.sec THEN {"stale"} ELSE {None}

\* A write in the second of the preview may have made the price the proposed one.
MaybeUnfit(p) == IF product.n # pinned[p].n THEN {"rejected"} ELSE {}

PriceVerdicts(p) ==
    IF ~product.live THEN {"rejected"}
    ELSE IF pinned[p].ver # product.sec THEN {"stale"}
    ELSE {None} \cup MaybeUnfit(p)

\* Such a write may have taken the option away whose stock was to change, or have
\* begun or ended to track an option's stock.
TargetLost(p) == IF product.n # pinned[p].n THEN {"rejected"} ELSE {}

\* The exact count that was shown is compared after the version.
InventoryVerdicts(p) ==
    IF ~product.live THEN {"rejected"}
    ELSE IF pinned[p].ver # product.sec THEN {"stale"}
    ELSE TargetLost(p) \cup (IF pinned[p].count # product.stock THEN {"stale"} ELSE {None})

\* A missing draft, like a superseded one, is stale.
PublishVerdicts(p) == IF draftOpen THEN {None} ELSE {"stale"}

\* A missing product, unlike with the other kinds, is stale.
ContentVerdicts(p) ==
    IF ~product.live \/ pinned[p].ver # product.sec THEN {"stale"} ELSE {None}

Verdicts(p) ==
    CASE kind[p] \in CartKinds -> CartVerdicts(p)
      [] kind[p] = "order.cancel" -> CancelVerdicts(p)
      [] kind[p] = "order.return_request" -> ReturnVerdicts(p)
      [] kind[p] = "sale.advance_fulfillment" -> FulfilmentVerdicts(p)
      [] kind[p] = "product.set_price" -> PriceVerdicts(p)
      [] kind[p] = "inventory.adjust" -> InventoryVerdicts(p)
      [] kind[p] = "listing.publish" -> PublishVerdicts(p)
      [] kind[p] = "listing.update_content" -> ContentVerdicts(p)

OrderRead(p) ==
    IF kind[p] \in {"order.cancel", "sale.advance_fulfillment"} THEN order ELSE None
ProductRead(p) ==
    IF kind[p] \in ProductKinds THEN product ELSE None

\* The rereads of the target.  What they saw is what the write is conditional on.
Recheck(w) ==
    /\ At(w, "recheck")
    /\ \E v \in Verdicts(Target(w)) :
         SetJob(w, IF v = None
                   THEN [jobs[w] EXCEPT !.pc = "apply", !.o = OrderRead(Target(w)),
                                        !.q = ProductRead(Target(w))]
                   ELSE [jobs[w] EXCEPT !.pc = "refuse", !.why = v])
    /\ UNCHANGED <<proposalVars, targetVars, otherVars>>

\* Mutant of Decide: the update is not conditional on the status.
DecideAgain(w, how) ==
    LET p == Target(w) IN
    /\ phase' = [phase EXCEPT ![p] = how]
    /\ outbox' = [outbox EXCEPT ![p] = Append(@, how)]
    /\ SetJob(w, NoJob)
    /\ UNCHANGED <<kind, pinned>>

\* transitionPending counted 1, and the outbox event of the same transaction.
Decide(w, how) ==
    LET p == Target(w) IN
    /\ phase[p] = "pending"
    /\ phase' = [phase EXCEPT ![p] = how]
    /\ outbox' = [outbox EXCEPT ![p] = Append(@, how)]
    /\ SetJob(w, NoJob)
    /\ UNCHANGED <<kind, pinned>>

\* expired, stale or rejected, with no change of the target.
Refuse(w) ==
    /\ At(w, "refuse")
    /\ Decide(w, jobs[w].why)
    /\ UNCHANGED <<applied, targetVars, otherVars>>

\* transitionPending counted 0: another request decided, its outcome is replayed.
Replay(w) ==
    /\ \/ At(w, "refuse")
       \/ At(w, "apply") /\ kind[Target(w)] # "listing.update_content"
    /\ phase[Target(w)] # "pending"
    /\ SetJob(w, NoJob)
    /\ UNCHANGED <<proposalVars, targetVars, otherVars>>

\* The request is cut off, or a write finds the row changed and throws: the
\* transaction is rolled back and the proposal stays as it was.
Rollback(w) ==
    /\ ~Idle(w)
    /\ SetJob(w, NoJob)
    /\ UNCHANGED <<proposalVars, targetVars, otherVars>>

\* The claim of the proposal, of one of the kinds ks, with its change.
Execute(w, ks) ==
    /\ At(w, "apply") /\ kind[Target(w)] \in ks
    /\ Decide(w, "executed")
    /\ applied' = [applied EXCEPT ![Target(w)] = @ + 1]

\* applyStoredAction: an update of a line that is gone throws.
ExecuteCart(w) ==
    LET k == kind[Target(w)] IN
    /\ Execute(w, CartKinds)
    /\ k = "cart.add_item" \/ cart.line
    /\ cart' = [ver |-> cart.ver + 1, line |-> k # "cart.remove_item"]
    /\ UNCHANGED <<order, product, draftOpen, otherVars>>

\* Mutant of ExecuteCancel: the order is cancelled by primary key.
ExecuteCancelBlind(w) ==
    /\ Execute(w, {"order.cancel"})
    /\ \E t, u \in Ticks :
         /\ order' = [Touched(order, t) EXCEPT !.st = "Cancelled"]
         /\ product' = IF UnitsBack(jobs[w].o.st) = 0 THEN product
                       ELSE [Touched(product, u) EXCEPT !.stock = @ + UnitsBack(jobs[w].o.st)]
    /\ UNCHANGED <<cart, draftOpen, otherVars>>

\* applyOrderCancel: conditional on the status that was read, which also says
\* whether units come back.
ExecuteCancel(w) ==
    /\ Execute(w, {"order.cancel"})
    /\ order.st = jobs[w].o.st
    /\ \E t, u \in Ticks :
         /\ order' = [Touched(order, t) EXCEPT !.st = "Cancelled"]
         /\ product' = IF UnitsBack(order.st) = 0 THEN product
                       ELSE [Touched(product, u) EXCEPT !.stock = @ + UnitsBack(order.st)]
    /\ UNCHANGED <<cart, draftOpen, otherVars>>

\* By primary key, whatever the order has become.
ApplyReturn ==
    /\ order.st # "Deleted"
    /\ \E t \in Ticks : order' = [Touched(order, t) EXCEPT !.st = "Return Requested"]

ExecuteReturn(w) ==
    /\ Execute(w, {"order.return_request"})
    /\ ApplyReturn
    /\ UNCHANGED <<cart, product, draftOpen, otherVars>>

\* Conditional on the status and updatedAt read.
ApplyFulfilment(w) ==
    /\ order = jobs[w].o
    /\ \E t \in Ticks : order' = [Touched(order, t) EXCEPT !.st = NextStage(@)]

ExecuteFulfilment(w) ==
    /\ Execute(w, {"sale.advance_fulfillment"})
    /\ ApplyFulfilment(w)
    /\ UNCHANGED <<cart, product, draftOpen, otherVars>>

\* Conditional on the updatedAt read.
ApplyPrice(w) ==
    /\ product.live /\ product.n = jobs[w].q.n
    /\ \E t \in Ticks : product' = Touched(product, t)

ExecutePrice(w) ==
    /\ Execute(w, {"product.set_price"})
    /\ ApplyPrice(w)
    /\ UNCHANGED <<cart, order, draftOpen, otherVars>>

\* executeInventoryProposal: conditional on the count read.
ExecuteInventory(w) ==
    /\ Execute(w, {"inventory.adjust"})
    /\ product.live /\ product.stock = jobs[w].q.stock
    /\ \E t \in Ticks :
         product' = [Touched(product, t) EXCEPT !.stock = pinned[Target(w)].to]
    /\ UNCHANGED <<cart, order, draftOpen, otherVars>>

\* executeListingProposal, publish: the draft is not looked at again.  The new
\* product is no row of this module.
ExecutePublish(w) ==
    /\ Execute(w, {"listing.publish"})
    /\ UNCHANGED <<targetVars, otherVars>>

\* executeListingProposal, update_content: the conditional write of the product
\* comes before the claim, and a claim that counts 0 returns without undoing it.
ExecuteContent(w) ==
    LET p == Target(w) IN
    /\ At(w, "apply") /\ kind[p] = "listing.update_content"
    /\ product.live /\ product.n = jobs[w].q.n
    /\ \E t \in Ticks : product' = Touched(product, t)
    /\ applied' = [applied EXCEPT ![p] = @ + 1]
    /\ \/ Decide(w, "executed")
       \/ phase[p] # "pending" /\ SetJob(w, NoJob)
            /\ UNCHANGED <<phase, kind, pinned, outbox>>
    /\ UNCHANGED <<cart, order, draftOpen, otherVars>>

\* The conditional write of update_content counted 0.
ContentMoved(w) ==
    /\ At(w, "apply") /\ kind[Target(w)] = "listing.update_content"
    /\ ~product.live \/ product.n # jobs[w].q.n
    /\ SetJob(w, [jobs[w] EXCEPT !.pc = "refuse", !.why = "stale"])
    /\ UNCHANGED <<proposalVars, targetVars, otherVars>>

-----------------------------------------------------------------------------
(* The storefront *)

\* Bound: others write only what a pending proposal is about.  An earlier write
\* changes what the proposal then reads, not what may happen to it.
Watched(ks) == \E p \in Ids : phase[p] = "pending" /\ kind[p] \in ks
Edit(ks) == edits < MaxEdits /\ edits' = edits + 1 /\ Watched(ks)

\* The cart handlers write the items first ...
LineWritten(w, line) ==
    /\ Idle(w)
    /\ edits < MaxEdits /\ edits' = edits + 1
    /\ Watched(CartKinds) \/ \A p \in Ids : phase[p] = "absent"
    /\ cart' = [cart EXCEPT !.line = line]
    /\ SetJob(w, [NoJob EXCEPT !.pc = "bump"])
    /\ UNCHANGED <<proposalVars, order, product, draftOpen, past, account, changes>>

\* Stock is not looked at here, unlike in the proposal.
AddToCart(w) == product.live /\ LineWritten(w, TRUE)

\* A quantity of zero or less deletes the line.
UpdateCartItem(w) == cart.line /\ \E line \in BOOLEAN : LineWritten(w, line)

\* Without a line there is nothing to delete, and the version is written all the same.
RemoveFromCart(w) == LineWritten(w, FALSE)

\* Every line, by one deleteMany.
ClearCart(w) == LineWritten(w, FALSE)

WriteLine(w) == AddToCart(w) \/ UpdateCartItem(w) \/ RemoveFromCart(w) \/ ClearCart(w)

\* Mutant of BumpVersion: the handler stores the total alone.
BumpVersionForgotten(w) ==
    /\ At(w, "bump")
    /\ changes' = changes + 1
    /\ SetJob(w, NoJob)
    /\ UNCHANGED <<proposalVars, targetVars, past, account, edits>>

\* ... and total and version in a statement of their own.
BumpVersion(w) ==
    /\ At(w, "bump")
    /\ cart' = [cart EXCEPT !.ver = @ + 1]
    /\ changes' = changes + 1
    /\ SetJob(w, NoJob)
    /\ UNCHANGED <<proposalVars, order, product, draftOpen, past, account, edits>>

\* The moves of other handlers on an order.
Moves ==
    [st \in OrderStatuses |->
       CASE st = "Pending" -> {"Confirmed", "Cancelled", "Deleted", "Pending"}
         [] st = "Confirmed" -> {"Processing", "Cancelled", "Deleted", "Confirmed"}
         [] st = "Processing" -> {"Shipped", "Processing"}
         [] st = "Shipped" -> {"Delivered", "Shipped"}
         [] st = "Delivered" -> {"Return Requested", "Delivered"}
         [] OTHER -> {st}]

\* A confirmation, with the units and the emptied cart, whose version stays.
OrderConfirmed ==
    /\ Edit(OrderKinds \cup CartKinds)
    /\ order.st = "Pending" /\ product.stock > 0
    /\ \E t, u \in Ticks :
         /\ order' = [Touched(order, t) EXCEPT !.st = "Confirmed"]
         /\ product' = [Touched(product, u) EXCEPT !.stock = @ - 1]
    /\ cart' = [cart EXCEPT !.line = FALSE]
    /\ UNCHANGED <<proposalVars, draftOpen, past, account, changes, jobs>>

\* A cancellation or a delete brings the units of a Confirmed order back; a
\* fulfilment step, a return or an edit of other columns moves the row alone.
OrderMoves ==
    /\ Edit(OrderKinds)
    /\ order.st # "Deleted"
    /\ \E st \in Moves[order.st] \ (IF order.st = "Pending" THEN {"Confirmed"} ELSE {}) :
         /\ \E t \in Ticks : order' = [Touched(order, t) EXCEPT !.st = st]
         /\ IF order.st = "Confirmed" /\ st \in {"Cancelled", "Deleted"}
            THEN \E u \in Ticks : product' = [Touched(product, u) EXCEPT !.stock = @ + 1]
            ELSE product' = product
    /\ UNCHANGED <<proposalVars, cart, draftOpen, past, account, changes, jobs>>

\* updateProduct and setProductDiscount: any columns, the quantity with them.
ProductEdited ==
    /\ Edit(ProductKinds \cup {"cart.add_item", "order.cancel"})
    /\ \E t \in Ticks, n \in 0..MaxStock :
         product' = [Touched(product, t) EXCEPT !.stock = n]
    /\ UNCHANGED <<proposalVars, cart, order, draftOpen, past, account, changes, jobs>>

\* deleteSellerProduct, or the product is no longer the seller's.
ProductGone ==
    /\ Edit(ProductKinds \cup {"cart.add_item", "order.cancel"})
    /\ product.live
    /\ product' = [product EXCEPT !.live = FALSE, !.n = @ + 1, !.sec = @ + 1]
    /\ UNCHANGED <<proposalVars, cart, order, draftOpen, past, account, changes, jobs>>

\* saveListingDraft: a new version supersedes the draft.
DraftSaved ==
    /\ Edit({"listing.publish"})
    /\ draftOpen /\ draftOpen' = FALSE
    /\ UNCHANGED <<proposalVars, cart, order, product, past, account, changes, jobs>>

\* verifySeller and the deletion of the account.  No route takes the verification
\* back or changes a role: that is done by hand in the database, and the
\* confirmation allows for it.
AccountChanges ==
    /\ Edit(Kinds)
    /\ account.role # "gone"
    /\ \/ account' = [account EXCEPT !.verified = ~@]
       \/ account' = [account EXCEPT !.role = IF @ = "same" THEN "changed" ELSE "same"]
       \/ account' = [account EXCEPT !.role = "gone"]
    /\ UNCHANGED <<proposalVars, targetVars, past, changes, jobs>>

\* Ten minutes have gone by.
Expire(p) ==
    /\ phase[p] = "pending" /\ p \notin past
    /\ past' = past \cup {p}
    /\ UNCHANGED <<proposalVars, targetVars, account, changes, edits, jobs>>

-----------------------------------------------------------------------------
(* Specification *)

Executing(w) ==
    \/ ExecuteCart(w) \/ ExecuteCancel(w) \/ ExecuteReturn(w) \/ ExecuteFulfilment(w)
    \/ ExecutePrice(w) \/ ExecuteInventory(w) \/ ExecutePublish(w) \/ ExecuteContent(w)

Requests(w) ==
    \/ CountPending(w)
    \/ \E p \in Ids : Propose(w, p) \/ Load(w, p)
    \/ Recheck(w) \/ Executing(w) \/ ContentMoved(w)
    \/ Refuse(w) \/ Replay(w) \/ Rollback(w)
    \/ WriteLine(w) \/ BumpVersion(w)

Others ==
    \/ OrderConfirmed \/ OrderMoves \/ ProductEdited \/ ProductGone
    \/ DraftSaved \/ AccountChanges
    \/ \E p \in Ids : Expire(p)

Next == (\E w \in Workers : Requests(w)) \/ Others

Spec == Init /\ [][Next]_vars

-----------------------------------------------------------------------------
(* Properties *)

\* The change of an update_content proposal can be made although it was decided
\* otherwise (ExecuteContent); for every other kind it is made exactly if the
\* proposal is executed.
EffectOf(p) ==
    IF kind[p] = "listing.update_content" /\ phase[p] = "executed" THEN 1
    ELSE IF kind[p] = "listing.update_content" THEN 0
    ELSE applied[p]

Platform == INSTANCE Decision WITH
    Proposals <- Ids,
    decision <- phase,
    effect <- [p \in Ids |-> EffectOf(p)],
    told <- outbox

\* However confirmations race with each other, with the expiry and with changes
\* of the account, each proposal is decided once, has its effect exactly if it
\* was executed, and has one outbox event for each.
DecidedOnce == Platform!Spec

\* The step makes the change of proposal p.
Takes(p) == phase[p] = "pending" /\ phase'[p] = "executed"

\* What lands on a row that others write lands on what the subject reviewed:
\* a cancellation on an order not yet handed on, giving back the units it held
\* then; a fulfilment step on the stage shown; a price on a product not written
\* in a later second; an inventory change on the count shown.
LandsOnReviewed ==
    [][\A p \in Ids : Takes(p) =>
         CASE kind[p] = "order.cancel" ->
                /\ CancelEligible
                /\ product'.stock = product.stock + UnitsBack(order.st)
           [] kind[p] = "sale.advance_fulfillment" ->
                order.st = pinned[p].st /\ order.sec = pinned[p].ver
           [] kind[p] \in {"product.set_price", "listing.update_content"} ->
                product.sec = pinned[p].ver
           [] kind[p] = "inventory.adjust" -> product.stock = pinned[p].count
           [] OTHER -> TRUE]_vars

\* A confirmation of a cart proposal that begins after a storefront cart request
\* was completed never makes a change proposed before it.
NoLateCart ==
    [][\A p \in Ids, w \in Workers :
         Takes(p) /\ kind[p] \in CartKinds /\ At(w, "apply") /\ Target(w) = p
           /\ jobs'[w] = NoJob
           => jobs[w].chg = pinned[p].chg]_vars

Proposing == {w \in Workers : At(w, "propose")}

\* Concurrent requests can pass the limit of pending proposals, by less than
\* their number.
HeadroomKept ==
    Cardinality(Open) + Cardinality(Proposing) < MaxPending + Cardinality(Workers)
-----------------------------------------------------------------------------
(* The inductive invariant behind these properties *)

\* The cart was written at least as often as storefront requests completed since
\* the proposal p.
CartBehind(p) ==
    /\ pinned[p].chg <= changes
    /\ changes - pinned[p].chg <= cart.ver - pinned[p].ver

\* A proposal row is in step with its outbox and its effect.
RowOK(p) ==
    /\ phase[p] = "absent" => outbox[p] = <<>> /\ applied[p] = 0
    /\ phase[p] = "pending" => outbox[p] = <<"created">>
    /\ phase[p] # "absent" =>
         /\ kind[p] \in Kinds
         /\ kind[p] = "sale.advance_fulfillment" => pinned[p].st \in Stages
         /\ kind[p] \in CartKinds => CartBehind(p)
         /\ kind[p] # "listing.update_content" =>
              applied[p] = IF phase[p] = "executed" THEN 1 ELSE 0

\* The product that was read is the product, unless it was written since.
StillRead(q) ==
    /\ q \in Product
    /\ q.n <= product.n
    /\ q.n = product.n => q.sec = product.sec

\* What the rechecks have established when the writes begin.
Ready(job) ==
    LET pin == pinned[job.p]
        k == kind[job.p]
    IN  /\ k = "order.cancel" => job.o \in Order /\ job.o.st \in {"Pending", "Confirmed"}
        /\ k = "sale.advance_fulfillment" =>
             job.o \in Order /\ job.o.st = pin.st /\ job.o.sec = pin.ver
        /\ k \in {"product.set_price", "listing.update_content"} =>
             StillRead(job.q) /\ job.q.sec = pin.ver
        /\ k = "inventory.adjust" => job.q \in Product /\ job.q.stock = pin.count
        /\ k \in CartKinds => job.chg = pin.chg

JobOK(job) ==
    /\ job.pc \in {"refuse", "recheck", "apply"} => job.p \in Ids /\ phase[job.p] # "absent"
    /\ job.pc = "refuse" => job.why \in Refusals
    /\ job.pc = "recheck" /\ kind[job.p] \in CartKinds =>
         pinned[job.p].chg <= job.chg /\ job.chg <= changes
    /\ job.pc = "apply" => Ready(job)

PlatformInv ==
    /\ TypeOK
    /\ \A p \in Ids : RowOK(p)
    /\ \A w \in Workers : JobOK(jobs[w])
=============================================================================
