----------------------------- MODULE OrderPages -----------------------------
(***************************************************************************)
(* The pages that list orders: the customer's MyOrders, the seller's       *)
(* SellerOrders and the admin's AdminOrders.  A page shows what its last   *)
(* load read, offers actions by it, and writes the status it expects into  *)
(* the row once the server has answered; the row may move meanwhile.       *)
(*                                                                         *)
(* One page is open on one order.  What anyone else does, in another tab,  *)
(* on another page or through the assistant, moves the row under it.  A    *)
(* handler of the server is one step here: its own races are Fulfilment's  *)
(* and Refunds' subject.  Search, sorting and paging are left out.         *)
(***************************************************************************)
EXTENDS Integers, FiniteSets

VARIABLES
    screen,    \* whose page it is
    order,     \* the row: status, a succeeded payment, past the return window,
               \* a refund left Processing
    page,      \* what the page shows of it, "none" while it hides its rows
    load,      \* the read of the list under way, at most one (bound)
    request,   \* the action under way
    undone,    \* history: an older read went over the page's own action
    refused    \* history: actions refused though the page was up to date

pageVars == <<screen, order, page, load, request, undone, refused>>

-----------------------------------------------------------------------------
(* Types *)

Screens == {"customer", "seller", "admin"}
DeliverySteps == {"Confirmed", "Processing", "Shipped", "Delivered"}
ReturnSteps == {"Return Requested", "Return Approved", "Return Rejected"}
RowStatuses == DeliverySteps \cup ReturnSteps
               \cup {"Pending", "Confirming", "Cancelled", "Refund Released"}
Acts == DeliverySteps \cup {"cancel", "return", "approve", "reject", "refund"}

OrderFacts == [st : RowStatuses, paid : BOOLEAN, over : BOOLEAN, held : BOOLEAN]
Shown == [st : RowStatuses \cup {"none"}, paid : BOOLEAN, over : BOOLEAN,
          fresh : BOOLEAN]
Hidden == [st |-> "none", paid |-> FALSE, over |-> FALSE, fresh |-> FALSE]
NoLoad == [pc |-> "none", got |-> Hidden, behind |-> FALSE]
NoRequest == [pc |-> "none", act |-> "none", took |-> "none", fresh |-> FALSE]

PageTypeOK ==
    /\ screen \in Screens
    /\ order \in OrderFacts
    /\ page \in Shown
    /\ load \in [pc : {"none", "sent", "read"}, got : Shown, behind : BOOLEAN]
    /\ request \in [pc : {"none", "sent", "answered"}, act : Acts \cup {"none"},
                    took : {"none", "taken", "refused", "failed"}, fresh : BOOLEAN]
    /\ undone \in BOOLEAN
    /\ refused \in SUBSET (Acts \X BOOLEAN \X BOOLEAN)

\* Just placed and unpaid; the page's first load is on its way.
PageInit ==
    /\ screen \in Screens
    /\ order = [st |-> "Pending", paid |-> FALSE, over |-> FALSE, held |-> FALSE]
    /\ page = Hidden
    /\ load = [NoLoad EXCEPT !.pc = "sent"]
    /\ request = NoRequest
    /\ undone = FALSE /\ refused = {}

-----------------------------------------------------------------------------
(* What a page offers for a row it shows *)

IsReturnEligible(p) == p.st = "Delivered" /\ ~p.over

MyOrdersOffers(p) ==
    {a \in {"cancel", "return"} :
        \/ a = "cancel" /\ p.st \in {"Pending", "Confirmed"}
        \/ a = "return" /\ IsReturnEligible(p)}

NextDeliveryStage == {<<"Confirmed", "Processing">>, <<"Processing", "Shipped">>,
                      <<"Shipped", "Delivered">>}

SellerOrdersOffers(p) ==
    {a \in Acts : \/ <<p.st, a>> \in NextDeliveryStage
                  \/ a \in {"approve", "reject"} /\ p.st = "Return Requested"}

AdminOrdersOffers(p) ==
    {a \in Acts : \/ /\ a \in DeliverySteps \ {p.st}
                     /\ p.st \in DeliverySteps \cup {"Pending"}
                  \/ a = "cancel" /\ p.st \in {"Pending", "Confirmed"}
                  \/ a \in {"approve", "reject"} /\ p.st = "Return Requested"
                  \/ /\ a = "refund"
                     /\ p.st = "Cancelled" => p.paid
                     /\ p.st \in {"Return Approved", "Cancelled"}}

Offered(s, p) ==
    CASE s = "customer" -> MyOrdersOffers(p)
      [] s = "seller"   -> SellerOrdersOffers(p)
      [] s = "admin"    -> AdminOrdersOffers(p)

\* The status a page writes into its row when the server took the action.
Told(a) ==
    CASE a \in DeliverySteps -> a
      [] a = "cancel"  -> "Cancelled"
      [] a = "return"  -> "Return Requested"
      [] a = "approve" -> "Return Approved"
      [] a = "reject"  -> "Return Rejected"
      [] a = "refund"  -> "Refund Released"

\* The tabs of a page next to "All".
MyOrdersTabs == {{"Pending", "Confirmed", "Processing"}, {"Shipped"}, {"Delivered"},
                 {"Cancelled"}, ReturnSteps \cup {"Refund Released"}}
SellerTabs == {{"Pending", "Confirmed", "Processing"}, {"Shipped"}, {"Delivered"},
               {"Cancelled"}, ReturnSteps \cup {"Refund Released"}}
AdminTabs == {{"Pending", "Confirmed", "Processing", "Shipped"}, {"Delivered"},
              {"Cancelled"}, ReturnSteps \cup {"Refund Released"}}
TabsOf == [customer |-> MyOrdersTabs, seller |-> SellerTabs, admin |-> AdminTabs]

-----------------------------------------------------------------------------
(* What the server makes of an action: the outcomes, each with the row it    *)
(* leaves.  A failure is no refusal: out of stock, a provider that declines. *)

Taken(r) == <<"taken", r>>
Refused(r) == <<"refused", r>>
Failed(r) == <<"failed", r>>

CancelServed(r) ==
    {IF r.st \in {"Pending", "Confirmed"} THEN Taken([r EXCEPT !.st = "Cancelled"])
                                          ELSE Refused(r)}

ReturnServed(r) ==
    {IF IsReturnEligible(r) THEN Taken([r EXCEPT !.st = "Return Requested"])
                            ELSE Refused(r)}

\* The return window starts with the date that Delivered records.
Staged(r, st) == [r EXCEPT !.st = st, !.over = (@ /\ r.st = st)]

\* An admin may force an unpaid order, whose confirmation may find no stock, and
\* jump between stages; a seller moves one stage on.
StageServed(s, st, r) ==
    IF s = "admin" /\ r.st = "Pending"
    THEN {Taken(Staged(r, st)), Failed([r EXCEPT !.st = "Confirming"])}
    ELSE IF <<r.st, st>> \in NextDeliveryStage \/ (s = "admin" /\ r.st \in DeliverySteps)
    THEN {Taken(Staged(r, st))} ELSE {Refused(r)}

ReviewServed(a, r) ==
    IF r.st # "Return Requested" THEN {Refused(r)}
    ELSE {Taken([r EXCEPT !.st = Told(a)])}
         \cup (IF a = "approve" THEN {Failed(r)} ELSE {})

\* The provider pays or declines, or the server stops between the claim and the
\* settlement; a refund that was made is answered again.
RefundServed(r) ==
    IF r.paid /\ r.st = "Refund Released" THEN {Taken(r)}
    ELSE IF r.paid /\ ~r.held /\ r.st \in {"Return Approved", "Cancelled"}
    THEN {Taken([r EXCEPT !.st = "Refund Released"]), Failed(r),
          Failed([r EXCEPT !.held = TRUE])}
    ELSE {Refused(r)}

Outcomes(s, a, r) ==
    CASE a = "cancel" -> CancelServed(r)
      [] a = "return" -> ReturnServed(r)
      [] a \in DeliverySteps -> StageServed(s, a, r)
      [] a \in {"approve", "reject"} -> ReviewServed(a, r)
      [] a = "refund" -> RefundServed(r)

\* The routes that the three roles have.
MayAsk == {<<"customer", "cancel">>, <<"customer", "return">>, <<"admin", "cancel">>,
           <<"admin", "refund">>} \cup {"seller", "admin"} \X {"approve", "reject"}
          \cup {"seller", "admin"} \X DeliverySteps

-----------------------------------------------------------------------------
(* The page *)

\* Mutant of Refresh: the button is not disabled while an action runs.
RefreshWhileBusy ==
    /\ load.pc = "none"
    /\ load' = [NoLoad EXCEPT !.pc = "sent"]
    /\ UNCHANGED <<screen, order, page, request, undone, refused>>

\* MyOrders fetches behind the rows it shows and beside an action; the others
\* hide their rows while they load and do not load while they are busy.
Refresh ==
    /\ load.pc = "none"
    /\ screen # "customer" => request.pc = "none"
    /\ load' = [NoLoad EXCEPT !.pc = "sent"]
    /\ page' = IF screen = "customer" THEN page ELSE Hidden
    /\ UNCHANGED <<screen, order, request, undone, refused>>

\* The server reads the list; only the admin's has the payments.
ReadOrders ==
    /\ load.pc = "sent"
    /\ load' = [load EXCEPT !.pc = "read",
                            !.got = [st |-> order.st, over |-> order.over, fresh |-> TRUE,
                                     paid |-> screen = "admin" /\ order.paid]]
    /\ UNCHANGED <<screen, order, page, request, undone, refused>>

ShowOrders ==
    /\ load.pc = "read"
    /\ page' = load.got
    /\ load' = NoLoad
    /\ undone' = (undone \/ (load.behind /\ request.pc = "none"))
    /\ UNCHANGED <<screen, order, request, refused>>

\* An error: MyOrders keeps its rows, the others stay without.
LoadFails ==
    /\ load.pc # "none"
    /\ load' = NoLoad
    /\ UNCHANGED <<screen, order, page, request, undone, refused>>

\* One action at a time: pending.current, cancellingId and submittingReturn.  The
\* prompt, or the dialog of a return, is part of the click.
Click(a) ==
    /\ request.pc = "none"
    /\ a \in Offered(screen, page)
    /\ request' = [NoRequest EXCEPT !.pc = "sent", !.act = a, !.fresh = page.fresh]
    /\ UNCHANGED <<screen, order, page, load, undone, refused>>

\* The row changes: what was read of it before is out of date.
Overtaken(r) ==
    /\ order' = r
    /\ page' = [page EXCEPT !.fresh = (@ /\ r = order)]

Serve ==
    /\ request.pc = "sent"
    /\ \E o \in Outcomes(screen, request.act, order) :
          /\ Overtaken(o[2])
          /\ request' = [request EXCEPT !.pc = "answered", !.took = o[1], !.fresh = TRUE]
          /\ load' = [load EXCEPT !.got.fresh = (@ /\ o[2] = order),
                                  !.behind = (@ \/ (load.pc = "read" /\ o[1] = "taken"))]
          /\ refused' = IF o[1] = "refused" /\ request.fresh
                        THEN refused \cup {<<request.act, order.paid, order.held>>}
                        ELSE refused
    /\ UNCHANGED <<screen, undone>>

\* The expected status goes into the row shown; an error is a toast and no more.
ShowAnswer ==
    /\ request.pc = "answered"
    /\ page' = IF request.took = "taken" /\ page.st # "none"
               THEN [page EXCEPT !.st = Told(request.act), !.fresh = request.fresh]
               ELSE page
    /\ request' = NoRequest
    /\ UNCHANGED <<screen, order, load, undone, refused>>

\* The request or its answer is lost: the page says that it failed.
Lose ==
    /\ request.pc # "none"
    /\ request' = NoRequest
    /\ load' = [load EXCEPT !.behind = FALSE]
    /\ UNCHANGED <<screen, order, page, undone, refused>>

-----------------------------------------------------------------------------
(* Everyone else *)

OvertakenByOthers(r) ==
    /\ r # order
    /\ Overtaken(r)
    /\ load' = [load EXCEPT !.got.fresh = FALSE]
    /\ request' = [request EXCEPT !.fresh = FALSE]
    /\ UNCHANGED <<screen, undone, refused>>

Elsewhere == \E x \in MayAsk : \E o \in Outcomes(x[1], x[2], order) : OvertakenByOthers(o[2])

\* A payment is verified; it confirms an order that waits for it.
Pay ==
    /\ ~order.paid
    /\ \E st \in RowStatuses :
          /\ IF order.st = "Pending" THEN st \in {"Confirmed", "Confirming"} ELSE st = order.st
          /\ OvertakenByOthers([order EXCEPT !.paid = TRUE, !.st = st])

WindowEnds ==
    /\ order.st = "Delivered"
    /\ OvertakenByOthers([order EXCEPT !.over = TRUE])

PageNext ==
    \/ Refresh \/ ReadOrders \/ ShowOrders \/ LoadFails
    \/ (\E a \in Acts : Click(a)) \/ Serve \/ ShowAnswer \/ Lose
    \/ Elsewhere \/ Pay \/ WindowEnds

PageSpec == PageInit /\ [][PageNext]_pageVars

-----------------------------------------------------------------------------
(* Properties *)

\* A page that nobody overtook shows the row's status, after its own actions too.
\* The seller's and the admin's never go back behind their own user's action;
\* MyOrders may, for it refreshes while it cancels.  What an up-to-date page
\* offers the server does not refuse, but for the refund of a return that was
\* never paid or whose refund was left Processing.  And a status is in one tab,
\* but for "Confirming", which is in none.
PagesKeepUp ==
    /\ page.fresh => page.st = order.st
    /\ undone => screen = "customer"
    /\ \A x \in refused : x[1] = "refund" /\ (~x[2] \/ x[3])
    /\ page.st \notin {"none", "Confirming"} =>
          \E t \in TabsOf[screen] : \A u \in TabsOf[screen] : page.st \in u <=> u = t
=============================================================================
