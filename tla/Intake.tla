------------------------------- MODULE Intake -------------------------------
(***************************************************************************)
(* How orders come into being: createOrder and createBulkOrderFromCart,    *)
(* the promo code they redeem, the other routes that use, reset, disable   *)
(* and delete the code, and the deletion of the customer's account.        *)
(*                                                                         *)
(* One promo code; a code created anew is another row.  Stock and prices   *)
(* are choices: a request may find too little of a product, or an amount   *)
(* below the code's minimum.  An order's life after its creation is the    *)
(* matter of Purchase and Fulfilment, here it only becomes settled.        *)
(***************************************************************************)
EXTENDS Integers, FiniteSets

CONSTANTS
    Users,      \* customers
    Workers,    \* requests in flight
    Limit,      \* promo_codes.usageLimit, 0 for none
    MaxOrders,  \* bound: order rows that may be created
    MaxItems,   \* bound: items of a bulk order
    MaxResets,  \* bound: times the counter may be decremented
    None

ASSUME IntakeAssumption ==
    /\ Limit \in Nat
    /\ MaxOrders \in Nat \ {0} /\ MaxItems \in Nat \ {0} /\ MaxResets \in Nat
    /\ None \notin Users
    /\ IsFiniteSet(Users) /\ IsFiniteSet(Workers)

VARIABLES
    accounts,  \* the customers whose users row is there
    promo,     \* the promo_codes row: "open", "closed" (inactive or out of its
               \* dates) or "deleted"
    used,      \* promo_codes.usedCount
    usage,     \* promo_code_usages: the customer's use, none or one row; how it
               \* came about is history
    orders,    \* order rows, by the order of their creation
    created,   \* how many there are
    jobs,      \* the requests in flight
    resets,    \* history: how often the counter was decremented
    freed      \* history: customers whose use an admin took back

promoVars == <<promo, used, usage>>
orderVars == <<orders, created>>
historyVars == <<resets, freed>>
vars == <<accounts, promo, used, usage, orders, created, jobs,
          resets, freed>>

-----------------------------------------------------------------------------
(* Types *)

OrderIds == 1..MaxOrders

\* isActive and the dates in one: "closed" is switched off or out of its dates.
PromoCode == {"open", "closed", "deleted"}

\* promo is orders.promoCode; user is kept when orders.userId becomes null.
Order == [st : {"absent", "open", "settled"}, user : Users \cup {None}, promo : BOOLEAN]
NoOrder == [st |-> "absent", user |-> None, promo |-> FALSE]

Job == [pc    : {"idle", "redeem", "insert", "loop", "tag",
                 "mark", "count", "undo", "unuse", "decrement"},
        user  : Users \cup {None},
        bulk  : BOOLEAN,               \* createBulkOrderFromCart
        promo : BOOLEAN,               \* the code was redeemed
        first : OrderIds \cup {0},     \* the primary order of the group
        left  : 0..MaxItems]           \* items of the cart still to do
NoJob == [pc |-> "idle", user |-> None, bulk |-> FALSE, promo |-> FALSE,
          first |-> 0, left |-> 0]

TypeOK ==
    /\ accounts \in SUBSET Users
    /\ promo \in PromoCode
    /\ used \in Int /\ (Limit > 0 => used <= Limit)
    /\ resets \in 0..MaxResets
    /\ usage \in [Users -> {"none", "redeemed", "applied", "cut"}]
    /\ orders \in [OrderIds -> Order]
    /\ created \in 0..MaxOrders
    /\ \A o \in OrderIds : orders[o].st = "absent" <=> o > created
    /\ jobs \in [Workers -> Job]
    /\ freed \in SUBSET Users

\* createPromoCode has made the code.
Init ==
    /\ accounts = Users
    /\ promo = "open" /\ used = 0 /\ usage = [u \in Users |-> "none"]
    /\ orders = [o \in OrderIds |-> NoOrder]
    /\ created = 0
    /\ jobs = [w \in Workers |-> NoJob]
    /\ resets = 0 /\ freed = {}

-----------------------------------------------------------------------------
(* Shared state formulae *)

SetJob(w, job) == jobs' = [jobs EXCEPT ![w] = job]
Idle(w) == jobs[w].pc = "idle"
At(w, pc) == jobs[w].pc = pc

\* Mutant of InLimit: one use too many.
InLimitOff == Limit = 0 \/ used <= Limit

\* Mutant of InLimit: the counter is not compared.
InLimitUnchecked == TRUE

\* The condition of the increments; without a limit it holds.
InLimit == Limit = 0 \/ used < Limit

\* What the primary and foreign keys of promo_code_usages ask of a new row.
CanUse(u) == usage[u] = "none" /\ u \in accounts /\ promo # "deleted"

SetUse(u, use) == usage' = [usage EXCEPT ![u] = use]

\* Mutant of CanOrder: orders.userId is no foreign key.
CanOrderAnyone(u) == created < MaxOrders

\* The foreign key asks for the customer's row.  MaxOrders is a bound.
CanOrder(u) == u \in accounts /\ created < MaxOrders

Insert(u, withPromo) ==
    /\ created' = created + 1
    /\ orders' = [orders EXCEPT ![created + 1] =
                    [st |-> "open", user |-> u, promo |-> withPromo]]

-----------------------------------------------------------------------------
(* Creating orders *)

\* createOrder found the product and enough of it.
OrderBegin(w, u) ==
    /\ Idle(w) /\ u \in accounts
    /\ \E pc \in {"redeem", "insert"} : SetJob(w, [NoJob EXCEPT !.pc = pc, !.user = u])
    /\ UNCHANGED <<accounts, promoVars, orderVars, historyVars>>

\* createBulkOrderFromCart, with n items.
BulkBegin(w, u, n) ==
    /\ Idle(w) /\ u \in accounts
    /\ SetJob(w, [NoJob EXCEPT !.pc = "loop", !.user = u, !.bulk = TRUE, !.left = n])
    /\ UNCHANGED <<accounts, promoVars, orderVars, historyVars>>

\* The next item's order, at its full price.
BulkItem(w) ==
    /\ At(w, "loop") /\ jobs[w].left > 0
    /\ CanOrder(jobs[w].user)
    /\ Insert(jobs[w].user, FALSE)
    /\ SetJob(w, [jobs[w] EXCEPT !.left = @ - 1,
                                 !.first = IF @ = 0 THEN created + 1 ELSE @])
    /\ UNCHANGED <<accounts, promoVars, historyVars>>

\* An item whose product is gone is passed over.
BulkSkip(w) ==
    /\ At(w, "loop") /\ jobs[w].left > 0
    /\ SetJob(w, [jobs[w] EXCEPT !.left = @ - 1])
    /\ UNCHANGED <<accounts, promoVars, orderVars, historyVars>>

\* Too little stock for the next item: the request is refused, and the orders of
\* the items before stay.
BulkReject(w) ==
    /\ At(w, "loop") /\ jobs[w].left > 0
    /\ SetJob(w, NoJob)
    /\ UNCHANGED <<accounts, promoVars, orderVars, historyVars>>

\* The promo code comes last, if there is one and any order was created.
BulkDone(w) ==
    /\ At(w, "loop") /\ jobs[w].left = 0
    /\ \/ jobs[w].first # 0 /\ SetJob(w, [jobs[w] EXCEPT !.pc = "redeem"])
       \/ SetJob(w, NoJob)
    /\ UNCHANGED <<accounts, promoVars, orderVars, historyVars>>

\* redeemServerPromoDiscount, one transaction: the use and the counter.
Redeem(w) ==
    /\ At(w, "redeem") /\ promo = "open" /\ CanUse(jobs[w].user) /\ InLimit
    /\ SetUse(jobs[w].user, "redeemed")
    /\ used' = used + 1
    /\ SetJob(w, [jobs[w] EXCEPT !.pc = IF jobs[w].bulk THEN "tag" ELSE "insert",
                                 !.promo = TRUE])
    /\ UNCHANGED <<accounts, promo, orderVars, historyVars>>

\* No discount: one of those conditions fails, or the amount is below the
\* minimum.  The order is created at its full price.
RedeemNothing(w) ==
    /\ At(w, "redeem")
    /\ SetJob(w, IF jobs[w].bulk THEN NoJob ELSE [jobs[w] EXCEPT !.pc = "insert"])
    /\ UNCHANGED <<accounts, promoVars, orderVars, historyVars>>

\* The order of createOrder.  Its revenue row and number follow in statements
\* whose failure is logged.
InsertOrder(w) ==
    /\ At(w, "insert") /\ CanOrder(jobs[w].user)
    /\ Insert(jobs[w].user, jobs[w].promo)
    /\ SetJob(w, NoJob)
    /\ UNCHANGED <<accounts, promoVars, historyVars>>

\* The discount is written to the first order of the bulk.
TagFirst(w) ==
    /\ At(w, "tag")
    /\ orders' = [orders EXCEPT ![jobs[w].first].promo = TRUE]
    /\ SetJob(w, NoJob)
    /\ UNCHANGED <<accounts, promoVars, created, historyVars>>

\* A request ends between two statements: a crash, or an error such as an order
\* of an account that is gone.
Cut(w) ==
    /\ ~Idle(w)
    /\ usage' = [u \in Users |->
                   IF u = jobs[w].user /\ usage[u] # "none"
                        /\ (jobs[w].promo \/ jobs[w].pc \in {"count", "undo"})
                   THEN "cut" ELSE usage[u]]
    /\ SetJob(w, NoJob)
    /\ UNCHANGED <<accounts, promo, used, orderVars, historyVars>>

-----------------------------------------------------------------------------
(* POST /promo/apply *)

ApplyBegin(w, u) ==
    /\ Idle(w) /\ u \in accounts /\ promo # "deleted" /\ usage[u] = "none"
    /\ SetJob(w, [NoJob EXCEPT !.pc = "mark", !.user = u])
    /\ UNCHANGED <<accounts, promoVars, orderVars, historyVars>>

\* The use.
ApplyMark(w) ==
    /\ At(w, "mark") /\ CanUse(jobs[w].user)
    /\ SetUse(jobs[w].user, "applied")
    /\ SetJob(w, [jobs[w] EXCEPT !.pc = "count"])
    /\ UNCHANGED <<accounts, promo, used, orderVars, historyVars>>

\* The counter: neither isActive nor the dates are asked for.
ApplyCount(w) ==
    /\ At(w, "count") /\ promo # "deleted" /\ InLimit
    /\ used' = used + 1
    /\ SetJob(w, NoJob)
    /\ UNCHANGED <<accounts, promo, usage, orderVars, historyVars>>

ApplyRefused(w) ==
    /\ At(w, "count") /\ (promo = "deleted" \/ ~InLimit)
    /\ SetJob(w, [jobs[w] EXCEPT !.pc = "undo"])
    /\ UNCHANGED <<accounts, promoVars, orderVars, historyVars>>

\* Mutant of ApplyUndo: the use stays.
ApplyUndoForgotten(w) ==
    /\ At(w, "undo")
    /\ SetJob(w, NoJob)
    /\ UNCHANGED <<accounts, promoVars, orderVars, historyVars>>

\* The compensation: whatever use of the customer is there.
ApplyUndo(w) ==
    /\ At(w, "undo")
    /\ SetUse(jobs[w].user, "none")
    /\ SetJob(w, NoJob)
    /\ UNCHANGED <<accounts, promo, used, orderVars, historyVars>>

-----------------------------------------------------------------------------
(* Administration of the code *)

\* resetPromoForUser read the use: it is taken back, or, without one, a code for
\* one use is made available again.
ResetBegin(w, u) ==
    /\ Idle(w) /\ u \in accounts /\ promo # "deleted"
    /\ \/ usage[u] # "none" /\ SetJob(w, [NoJob EXCEPT !.pc = "unuse", !.user = u])
       \/ /\ usage[u] = "none" /\ Limit = 1 /\ used > 0
          /\ SetJob(w, [NoJob EXCEPT !.pc = "decrement"])
    /\ UNCHANGED <<accounts, promoVars, orderVars, historyVars>>

ResetUse(w) ==
    /\ At(w, "unuse") /\ usage[jobs[w].user] # "none"
    /\ SetUse(jobs[w].user, "none")
    /\ freed' = freed \cup {jobs[w].user}
    /\ SetJob(w, [NoJob EXCEPT !.pc = "decrement"])
    /\ UNCHANGED <<accounts, promo, used, orderVars, resets>>

\* The decrement asks for nothing.  MaxResets is a bound.
ResetCount(w) ==
    /\ At(w, "decrement") /\ promo # "deleted" /\ resets < MaxResets
    /\ used' = used - 1
    /\ resets' = resets + 1
    /\ SetJob(w, NoJob)
    /\ UNCHANGED <<accounts, promo, usage, orderVars, freed>>

\* togglePromoCodeStatus writes the negation of what it read, and dates pass.
TogglePromo ==
    /\ promo # "deleted"
    /\ promo' \in {"open", "closed"} \ {promo}
    /\ UNCHANGED <<accounts, used, usage, orderVars, jobs, historyVars>>

\* deletePromoCode; the uses go with the row.
DeletePromo ==
    /\ promo # "deleted"
    /\ promo' = "deleted" /\ usage' = [u \in Users |-> "none"]
    /\ UNCHANGED <<accounts, used, orderVars, jobs, historyVars>>

-----------------------------------------------------------------------------
(* The customer's account *)

\* The order is delivered, cancelled or refunded.
Settle(o) ==
    /\ orders[o].st = "open"
    /\ orders' = [orders EXCEPT ![o].st = "settled"]
    /\ UNCHANGED <<accounts, promoVars, created, jobs, historyVars>>

\* deleteAccount is a serializable transaction: an order or a use inserted since
\* its snapshot makes the delete of the user fail, so it takes effect in one
\* step or not at all.  The counter keeps the use.
DeleteAccount(u) ==
    /\ u \in accounts
    /\ \A o \in OrderIds : orders[o].user = u => orders[o].st # "open"
    /\ accounts' = accounts \ {u}
    /\ SetUse(u, "none")
    /\ UNCHANGED <<promo, used, orderVars, jobs, historyVars>>

-----------------------------------------------------------------------------
(* Specification *)

Requests(w) ==
    \/ \E u \in Users : OrderBegin(w, u) \/ ApplyBegin(w, u) \/ ResetBegin(w, u)
    \/ \E u \in Users, n \in 1..MaxItems : BulkBegin(w, u, n)
    \/ BulkItem(w) \/ BulkSkip(w) \/ BulkReject(w) \/ BulkDone(w)
    \/ Redeem(w) \/ RedeemNothing(w) \/ InsertOrder(w) \/ TagFirst(w)
    \/ ApplyMark(w) \/ ApplyCount(w) \/ ApplyRefused(w) \/ ApplyUndo(w)
    \/ ResetUse(w) \/ ResetCount(w)
    \/ Cut(w)

Next ==
    \/ \E w \in Workers : Requests(w)
    \/ \E o \in OrderIds : Settle(o)
    \/ \E u \in Users : DeleteAccount(u)
    \/ TogglePromo \/ DeletePromo

Spec == Init /\ [][Next]_vars

-----------------------------------------------------------------------------
(* Properties *)

Discounted == {o \in OrderIds : orders[o].promo}

\* Discounts that are redeemed and not yet written to their order.
Pending == {w \in Workers : jobs[w].promo}

\* However orders, applications and resets overlap, no more orders than the
\* code's limit have its discount or are about to, but for one with each reset
\* of the counter; and a customer has no more than one, unless an admin took a
\* use back.
DiscountsBounded ==
    /\ Limit > 0 => Cardinality(Discounted) + Cardinality(Pending) <= Limit + resets
    /\ \A u \in Users \ freed :
          Cardinality({o \in Discounted : orders[o].user = u})
            + Cardinality({w \in Pending : jobs[w].user = u}) <= 1

\* A code that a customer has used up, and not through /promo/apply, has given
\* a discount, unless a request of that customer was cut off.  And the counter
\* has seen every use, but for those it is about to see or that are about to be
\* withdrawn, and those of a request that was cut off, as long as nothing was
\* reset.
UsesAccounted ==
    /\ \A u \in Users : usage[u] = "redeemed" =>
          \/ \E o \in Discounted : orders[o].user = u
          \/ \E w \in Pending : jobs[w].user = u
    /\ resets = 0 /\ freed = {} =>
          Cardinality({u \in Users : usage[u] \in {"redeemed", "applied"}})
            <= used + Cardinality({w \in Workers : jobs[w].pc \in {"count", "undo"}})

\* No order comes into being around the guard of deleteAccount: the customer of
\* an order that has never been settled has an account.
DeletedHasNoOpenOrder ==
    \A o \in OrderIds : orders[o].st = "open" => orders[o].user \in accounts
=============================================================================
