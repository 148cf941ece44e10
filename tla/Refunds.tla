------------------------------ MODULE Refunds -------------------------------
(***************************************************************************)
(* Fulfilment together with releaseRefund: processRefundCore claims the    *)
(* refund of a payment in one transaction, calls the provider, and settles *)
(* refund, order and revenue in a second transaction.                      *)
(***************************************************************************)
EXTENDS Fulfilment

VARIABLES
    refund,  \* refunds.status of the payment's refund row, "none" without one
    payouts  \* how often the provider paid the payment back

refundVars == <<refund, payouts>>
allVars == <<vars, refundVars>>

RefundStatuses == {"none", "Processing", "Succeeded", "Failed"}

RefundTypeOK ==
    /\ TypeOK
    /\ refund \in [Payments -> RefundStatuses]
    /\ payouts \in [Payments -> Nat]

RefundInit ==
    /\ Init
    /\ refund = [p \in Payments |-> "none"]
    /\ payouts = [p \in Payments |-> 0]

-----------------------------------------------------------------------------
(* processRefundCore *)

\* The payment a refund of order o is about: its latest Succeeded one.
IsRefundable(p, o) ==
    /\ p \in PaymentsOf(o) /\ payStatus[p] = "Succeeded"
    /\ \A q \in PaymentsOf(o) : payStatus[q] = "Succeeded" => q <= p

\* Mutant of ClaimRefund: a refund left Processing is taken over by a retry.
ClaimRefundAgain(w, o, p) ==
    /\ Idle(w)
    /\ IsRefundable(p, o)
    /\ status[o] \in {"Return Approved", "Cancelled"}
    /\ refund[p] # "Succeeded"
    /\ refund' = [refund EXCEPT ![p] = "Processing"]
    /\ SetJob(w, [NoJob EXCEPT !.pc = "refund", !.o = o, !.p = p, !.st = status[o]])
    /\ UNCHANGED <<orderVars, payVars, forced, payouts>>

\* The claim: a new refund row (paymentId is unique), or a Failed one taken up
\* again.  A row that is Processing or Succeeded ends the request.
ClaimRefund(w, o, p) ==
    /\ Idle(w)
    /\ IsRefundable(p, o)
    /\ status[o] \in {"Return Approved", "Cancelled"}
    /\ refund[p] \in {"none", "Failed"}
    /\ refund' = [refund EXCEPT ![p] = "Processing"]
    /\ SetJob(w, [NoJob EXCEPT !.pc = "refund", !.o = o, !.p = p, !.st = status[o]])
    /\ UNCHANGED <<orderVars, payVars, forced, payouts>>

\* The provider pays and says so.
ProviderPays(w) ==
    LET p == jobs[w].p IN
    /\ jobs[w].pc = "refund"
    /\ payouts' = [payouts EXCEPT ![p] = @ + 1]
    /\ SetJob(w, [jobs[w] EXCEPT !.pc = "settle", !.gw = "COMPLETE"])
    /\ UNCHANGED <<orderVars, payVars, forced, refund>>

\* The provider rejects the refund: nothing is paid.
ProviderRefuses(w) ==
    /\ jobs[w].pc = "refund"
    /\ SetJob(w, [jobs[w] EXCEPT !.pc = "settle", !.gw = "CANCELED"])
    /\ UNCHANGED <<orderVars, payVars, forced, refundVars>>

\* Mutant of SettlePaid: the settlement does not touch the refund row.
SettlePaidBlind(w) ==
    LET o == jobs[w].o IN
    /\ jobs[w].pc = "settle" /\ jobs[w].gw = "COMPLETE"
    /\ status[o] = jobs[w].st
    /\ status' = [status EXCEPT ![o] = "Refund Released"]
    /\ revenue' = IF revenue[o] = "none" THEN revenue
                  ELSE [revenue EXCEPT ![o] = "Refunded"]
    /\ SetJob(w, NoJob)
    /\ UNCHANGED <<stock, payVars, forced, refundVars>>

\* Refund, order and revenue together, if neither refund nor order has changed
\* since the claim.
SettlePaid(w) ==
    LET o == jobs[w].o
        p == jobs[w].p
    IN
    /\ jobs[w].pc = "settle" /\ jobs[w].gw = "COMPLETE"
    /\ refund[p] = "Processing" /\ status[o] = jobs[w].st
    /\ refund' = [refund EXCEPT ![p] = "Succeeded"]
    /\ status' = [status EXCEPT ![o] = "Refund Released"]
    /\ revenue' = IF revenue[o] = "none" THEN revenue
                  ELSE [revenue EXCEPT ![o] = "Refunded"]
    /\ SetJob(w, NoJob)
    /\ UNCHANGED <<stock, payVars, forced, payouts>>

\* The order was overwritten meanwhile: the settlement is rolled back, the
\* refund stays Processing although the provider has paid.
SettleConflict(w) ==
    /\ jobs[w].pc = "settle" /\ jobs[w].gw = "COMPLETE"
    /\ refund[jobs[w].p] # "Processing" \/ status[jobs[w].o] # jobs[w].st
    /\ SetJob(w, NoJob)
    /\ UNCHANGED <<orderVars, payVars, forced, refundVars>>

\* A refused refund may be claimed again.
SettleRefused(w) ==
    LET p == jobs[w].p IN
    /\ jobs[w].pc = "settle" /\ jobs[w].gw = "CANCELED"
    /\ refund' = IF refund[p] = "Processing"
                 THEN [refund EXCEPT ![p] = "Failed"] ELSE refund
    /\ SetJob(w, NoJob)
    /\ UNCHANGED <<orderVars, payVars, forced, payouts>>

-----------------------------------------------------------------------------
(* Specification *)

Refunding(w) ==
    \/ \E o \in Orders, p \in Payments : ClaimRefund(w, o, p)
    \/ ProviderPays(w) \/ ProviderRefuses(w)
    \/ SettlePaid(w) \/ SettleConflict(w) \/ SettleRefused(w)

RefundsNext ==
    \/ FulfilmentNext /\ UNCHANGED refundVars
    \/ \E w \in Workers : Refunding(w)

RefundsSpec == RefundInit /\ [][RefundsNext]_allVars

-----------------------------------------------------------------------------
(* Properties *)

\* The provider pays a payment back at most once, and only a payment whose
\* money eSewa took, whatever is retried, raced or cut off by a crash.
PaidBackOnce ==
    \A p \in Payments :
        /\ payouts[p] <= 1
        /\ payouts[p] = 1 => /\ gateway[p] = "COMPLETE"
                             /\ refund[p] \in {"Processing", "Succeeded"}

\* A payment of order o was paid back and its refund row says so.
PaidBack(o) == \E p \in PaymentsOf(o) : refund[p] = "Succeeded" /\ payouts[p] = 1

\* An order reads Refund Released only if a payment of its was paid back and
\* the refund row says so.
ReleasedMeansPaid ==
    \A o \in Orders : status[o] = "Refund Released" => PaidBack(o)

-----------------------------------------------------------------------------
(* Why PaidBackOnce and ReleasedMeansPaid hold: the inductive invariant *)

\* Between the claim of a refund and its settlement.
Repaying(job) == job.pc \in {"refund", "settle"}

\* Such a request holds the Processing row of a charged payment of its order,
\* paid back exactly if the provider has said so.
RepayOK(job) ==
    Repaying(job) =>
        /\ job.p \in Payments /\ job.o = payOrder[job.p]
        /\ gateway[job.p] = "COMPLETE"
        /\ refund[job.p] = "Processing"
        /\ payouts[job.p] = IF job.pc = "settle" /\ job.gw = "COMPLETE" THEN 1 ELSE 0

\* A stale write puts Refund Released only where it already stood.
ReleaseOK(job) ==
    Rereading(job) \/ Writing(job) =>
        (job.st = "Refund Released" => PaidBack(job.o))

\* No two requests hold the same refund.
OneRepays ==
    \A v, w \in Workers :
        Repaying(jobs[v]) /\ Repaying(jobs[w]) /\ jobs[v].p = jobs[w].p => v = w

RefundInv ==
    /\ RefundTypeOK
    /\ PaidInv
    /\ PaidBackOnce
    /\ ReleasedMeansPaid
    /\ \A w \in Workers : RepayOK(jobs[w]) /\ ReleaseOK(jobs[w])
    /\ OneRepays
=============================================================================
