----------------------------- MODULE Summaries ------------------------------
(***************************************************************************)
(* What sellers, buyers and admins are told of the money, while payments   *)
(* and refunds go on: the revenue summaries, the sale and the payment page *)
(* of the assistant, and the revenue reports of the dashboards.            *)
(*                                                                         *)
(* An assistant read runs in one transaction, in which every statement     *)
(* sees what is committed when it starts.  All of it happens within one    *)
(* year, sums are kept as the orders and payments they are made of, and no *)
(* admin adds revenue rows through /revenue/create.                        *)
(***************************************************************************)
EXTENDS Refunds

VARIABLES
    reopened,  \* history: orders whose Refund Released a stale write replaced
    reader     \* a reader, and what it has read so far

summaryVars == <<reopened, reader>>

NoReader == [pc |-> "done", page |-> "none", about |-> {}, released |-> FALSE,
             gross |-> {}, todo |-> {}, refunded |-> {}, sold |-> {}, repaid |-> {}]

SummaryTypeOK ==
    /\ reopened \in SUBSET Orders
    /\ reader \in [pc       : {"refunds", "ledger", "done"},
                   page     : {"none", "summary", "report", "sale", "payment"},
                   about    : SUBSET Orders,     \* the orders in its scope
                   released : BOOLEAN,           \* the order reads Refund Released
                   gross    : SUBSET Orders,     \* sales seen as Completed
                   todo     : SUBSET Payments,   \* refunds not looked at yet
                   refunded : SUBSET Payments,   \* refunds seen as Succeeded
                   sold     : SUBSET Orders,     \* history: Completed and
                   repaid   : SUBSET Payments]   \* Succeeded at the start

MoneyTypeOK == RefundTypeOK /\ SummaryTypeOK

SummaryInit ==
    /\ RefundInit
    /\ reopened = {}
    /\ reader = NoReader

-----------------------------------------------------------------------------
(* The rows *)

Completed == {o \in Orders : revenue[o] = "Completed"}
Repaid == {p \in Payments : refund[p] = "Succeeded"}

ReaderOnly == UNCHANGED <<allVars, reopened>>

-----------------------------------------------------------------------------
(* The readers *)

Starts(page, scope) == [NoReader EXCEPT !.page = page, !.about = scope,
                        !.sold = Completed \cap scope,
                        !.repaid = {p \in Repaid : payOrder[p] \in scope},
                        !.released = \E o \in scope : status[o] = "Refund Released"]

\* The dashboards' reports: one statement.
Report(scope) ==
    /\ reader.pc = "done"
    /\ reader' = [Starts("report", scope) EXCEPT !.gross = Completed \cap scope]
    /\ ReaderOnly

GetAdminMonthlyRevenue == Report(Orders)
GetAdminTotalRevenue == Report(Orders)
GetSellerMonthlyRevenue(sellers) == Report(sellers)
GetSellerTotalRevenue(sellers) == Report(sellers)

\* Mutant of Summarise: the refunds first, the ledger once they are read.
SummariseRefundsFirst(scope) ==
    \/ /\ reader.pc = "done"
       /\ reader' = [Starts("summary", scope) EXCEPT !.pc = "refunds", !.gross = scope,
                     !.todo = {p \in Payments : payOrder[p] \in scope}]
       /\ ReaderOnly
    \/ /\ reader.pc = "refunds" /\ reader.page = "summary" /\ reader.todo = {}
       /\ reader' = [reader EXCEPT !.pc = "done", !.gross = Completed \cap @]
       /\ ReaderOnly

\* The ledger's groups, then the refunds month by month.
Summarise(scope) ==
    /\ reader.pc = "done"
    /\ reader' = [Starts("summary", scope) EXCEPT !.pc = "refunds", !.gross = Completed \cap scope,
                  !.todo = {p \in Payments : payOrder[p] \in scope}]
    /\ ReaderOnly

GetPlatformRevenueSummary == Summarise(Orders)
GetMyRevenueSummary(sellers) == Summarise(sellers)

\* The refund of a payment is in the month of its completion.
RefundBucket(p) ==
    /\ reader.pc = "refunds" /\ p \in reader.todo
    /\ reader' = [reader EXCEPT !.todo = @ \ {p},
                  !.refunded = IF p \in Repaid THEN @ \cup {p} ELSE @]
    /\ ReaderOnly

LastBucket ==
    /\ reader.pc = "refunds" /\ reader.todo = {}
    /\ reader' = [reader EXCEPT !.pc = "done"]
    /\ ReaderOnly

\* getMySale: the order's row, then its revenue row.
GetMySale(o) ==
    /\ reader.pc = "done" /\ status[o] # "Deleted"
    /\ reader' = [Starts("sale", {o}) EXCEPT !.pc = "ledger"]
    /\ ReaderOnly

SaleLedger ==
    /\ reader.pc = "ledger"
    /\ reader' = [reader EXCEPT !.pc = "done", !.gross = Completed \cap reader.about]
    /\ ReaderOnly

\* getMyPaymentStatus: the order's row, then its payments and its refunds.
GetMyPaymentStatus(o) ==
    /\ reader.pc = "done" /\ status[o] # "Deleted"
    /\ reader' = [Starts("payment", {o}) EXCEPT !.pc = "refunds", !.todo = PaymentsOf(o)]
    /\ ReaderOnly

SummaryStep ==
    \/ GetAdminMonthlyRevenue \/ GetAdminTotalRevenue \/ GetPlatformRevenueSummary
    \/ \E sellers \in SUBSET Orders \ {{}} :
         \/ GetSellerMonthlyRevenue(sellers) \/ GetSellerTotalRevenue(sellers)
         \/ GetMyRevenueSummary(sellers)
    \/ \E p \in Payments : RefundBucket(p)
    \/ LastBucket \/ SaleLedger
    \/ \E o \in Orders : GetMySale(o) \/ GetMyPaymentStatus(o)

\* An answer is looked at when it is given, and then forgotten.
SummaryNext ==
    \/ /\ RefundsNext
       /\ reopened' = reopened \cup
            {o \in Orders : status[o] = "Refund Released" /\ status'[o] # status[o]}
       /\ reader' = IF reader.pc = "done" THEN NoReader ELSE reader
    \/ SummaryStep

SummarySpec == SummaryInit /\ [][SummaryNext]_<<allVars, summaryVars>>

-----------------------------------------------------------------------------
(* Properties *)

Read(page) == reader.page = page /\ reader.pc = "done"

\* What a reader puts together from rows read one after the other was true of
\* the money, whatever is settled in between.
\* A summary loses no money: it counts every sale that was completed when it
\* began, in the gross or, if it was refunded meanwhile, in the refunds, and it
\* counts every refund that had been paid by then.  Nothing is said of the gross
\* of sales refunded before.
\* A dashboard's report, which shows no refunds, counts no sale that had been
\* refunded before.
\* A page that says Refund Released shows the refund's success, and does not
\* show the sale as completed.
\* Left out are orders whose Refund Released was overwritten by a status decided
\* on an earlier read: they can be confirmed and counted again.
ReadsCoherent ==
    \A o \in reader.about \ reopened :
        LET back == PaymentsOf(o) \cap reader.refunded IN
        /\ Read("summary") =>
             /\ o \in reader.sold => o \in reader.gross \/ back # {}
             /\ PaymentsOf(o) \cap reader.repaid \subseteq back
        /\ Read("report") => (o \in reader.gross => PaymentsOf(o) \cap reader.repaid = {})
        /\ Read("payment") => (reader.released => back # {})
        /\ Read("sale") => (reader.released => o \notin reader.gross)
=============================================================================
