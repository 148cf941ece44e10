------------------------------- MODULE Quotes -------------------------------
(***************************************************************************)
(* What a purchase costs, by each of the four computations that say so:    *)
(* the storefront's cart and checkout pages, the promo endpoint, the       *)
(* assistant's previews, and createBulkOrderFromCart, which charges.       *)
(*                                                                         *)
(* Amounts are in paisa.  One customer, one product with one option, one   *)
(* promo code: the sums over lines and options add nothing to it.  Whether *)
(* the customer may use the code is the matter of Intake; here it is open  *)
(* or closed.                                                              *)
(***************************************************************************)
EXTENDS Integers

CONSTANTS
    Prices,     \* products.price
    Rates,      \* products.discount, in percent
    Deltas,     \* priceDelta of the chosen option, 0 when it is gone
    Vouchers,   \* promo codes: kind, value, cap and min
    MaxQty,     \* bound: units in the cart
    MaxChanges, \* bound: changes of the product and of the code
    Missing

\* The storefront does not stop at zero where an option takes more than the
\* price, the assistant does: such a product is left out.
ASSUME QuotesAssumption ==
    /\ Prices \subseteq Nat /\ Rates \subseteq 0..100 /\ Deltas \subseteq Int
    /\ \A p \in Prices, d \in Deltas : p + d >= 0
    /\ \A v \in Vouchers : /\ v.kind \in {"percentage", "fixed"}
                           /\ v.value \in Nat /\ v.min \in Nat
                           /\ v.cap \in Nat \cup {Missing}
                           /\ v.kind = "percentage" => v.value <= 100
    /\ MaxQty \in Nat \ {0} /\ MaxChanges \in Nat
    /\ Missing \notin Int

VARIABLES
    listing,  \* the products row and its option
    voucher,  \* the promo_codes row
    open,     \* it is active, in its dates and below its limit
    line,     \* the cart's line: its quantity and the price it was added at
    page,     \* the open checkout page: the line as it was read, and the
              \* discount that was shown for the code, if it was applied
    bill,     \* the order just created: what it costs and what the page said
    stale,    \* history: which of line and page the product or the code have
              \* changed under
    changes   \* history: how often they changed

history == <<stale, changes>>
quoteVars == <<listing, voucher, open, line, page, bill, history>>

-----------------------------------------------------------------------------
(* Rounding *)

HalfUp(n, d) == (2 * n + d) \div (2 * d)

\* Math.round of a binary fraction close to n/d: at a half it can fall to either
\* side.
Nearest(n, d) ==
    IF (2 * n + d) % (2 * d) = 0 THEN {HalfUp(n, d) - 1, HalfUp(n, d)} ELSE {HalfUp(n, d)}

Lower(a, b) == IF a <= b THEN a ELSE b

Capped(amount, cap) == IF cap = Missing THEN amount ELSE Lower(amount, cap)

\* Whole rupees.
Rupees(n, d) == {100 * r : r \in Nearest(n, 100 * d)}

-----------------------------------------------------------------------------
(* The backend's prices, as the cart and the orders compute them *)

ListPriceWithOptions(l) == l.price + l.delta

EffectivePrices(l) == Nearest(ListPriceWithOptions(l) * (100 - l.rate), 100)

\* resolveServerPromoDiscount: the cap holds for both kinds of code.  Amounts of
\* a percentage are hundredths of a paisa until they are rounded.
ServerDiscounts(v, isOpen, purchase) ==
    IF ~isOpen \/ purchase < v.min THEN {0}
    ELSE LET raw == IF v.kind = "percentage" THEN purchase * v.value ELSE 100 * v.value
             cap == IF v.cap = Missing THEN Missing ELSE 100 * v.cap
         IN Rupees(Lower(Capped(raw, cap), 100 * purchase), 100)

ZeroOrMore(n) == IF n > 0 THEN n ELSE 0

\* What createBulkOrderFromCart charges for so many units now.
Charges(l, v, isOpen, qty) ==
    UNION {{ZeroOrMore(qty * u - off) : off \in ServerDiscounts(v, isOpen, qty * u)} :
              u \in EffectivePrices(l)}

-----------------------------------------------------------------------------
(* The assistant's prices *)

\* Mutant of ListUnitCents: the option costs nothing.
ListUnitCentsBase(l) == ZeroOrMore(l.price)

ListUnitCents(l) == ZeroOrMore(l.price + l.delta)

\* percentageOfCents: basis points.
PercentageOfCents(cents, pct) == HalfUp(cents * 100 * pct, 10000)

PercentOffCents(cents, pct) == cents - PercentageOfCents(cents, pct)

UnitCents(l) == PercentOffCents(ListUnitCents(l), l.rate)

\* evaluatePromo: only a percentage has a cap.
EvaluatePromo(v, isOpen, purchase) ==
    IF ~isOpen \/ purchase < v.min THEN 0
    ELSE IF v.kind = "percentage" THEN Capped(PercentageOfCents(purchase, v.value), v.cap)
    ELSE Lower(v.value, purchase)

\* previewCheckout.
PreviewCheckout(l, v, isOpen, qty) ==
    qty * UnitCents(l) - EvaluatePromo(v, isOpen, qty * UnitCents(l))

-----------------------------------------------------------------------------
(* The storefront's pages *)

\* Cart.totalPrice, as withDiscount sums it: the line's own price, undiscounted.
CartTotal(ln) == ln.qty * ln.price

\* validatePromoCode of the promo controller: a percentage is capped, a fixed
\* code ends at the purchase.
ShownDiscounts(v, purchase) ==
    IF v.kind = "percentage"
    THEN Rupees(Capped(purchase * v.value, IF v.cap = Missing THEN Missing ELSE 100 * v.cap), 100)
    ELSE Rupees(Lower(v.value, purchase), 1)

\* The amount on the button.
ShownTotal(p) == ZeroOrMore(CartTotal(p) - IF p.off = Missing THEN 0 ELSE p.off)

-----------------------------------------------------------------------------
(* Types *)

Listing == [price : Prices, rate : Rates, delta : Deltas]
LinePrices == {p + d : p \in Prices, d \in Deltas}
Line == [qty : 1..MaxQty, price : LinePrices]

QuotesTypeOK ==
    /\ listing \in Listing /\ voucher \in Vouchers /\ open \in BOOLEAN
    /\ line \in Line \cup {Missing}
    /\ page = Missing \/ [qty |-> page.qty, price |-> page.price] \in Line
    /\ stale \subseteq {"line", "page"} /\ changes \in 0..MaxChanges

QuotesInit ==
    /\ listing \in Listing /\ voucher \in Vouchers /\ open = TRUE
    /\ line = Missing /\ page = Missing /\ bill = Missing /\ stale = {} /\ changes = 0

-----------------------------------------------------------------------------
(* Actions *)

Here == bill = Missing   \* the customer is not at the payment gateway

\* A product form, the discount page or a proposal.  MaxChanges is a bound.
ChangeListing ==
    /\ changes < MaxChanges
    /\ listing' \in Listing \ {listing}
    /\ changes' = changes + 1 /\ stale' = {"line", "page"}
    /\ UNCHANGED <<voucher, open, line, page, bill>>

CloseCode ==
    /\ open /\ changes < MaxChanges
    /\ open' = FALSE
    /\ changes' = changes + 1 /\ stale' = {"line", "page"}
    /\ UNCHANGED <<listing, voucher, line, page, bill>>

\* Mutant of AddLine: the line's price is the product's.
AddLineBase ==
    /\ Here /\ line = Missing
    /\ line' = [qty |-> 1, price |-> listing.price]
    /\ stale' = stale \ {"line"}
    /\ UNCHANGED <<listing, voucher, open, page, bill, changes>>

\* handleAddToCart and addToCart: a new line.
AddLine ==
    /\ Here /\ line = Missing
    /\ line' = [qty |-> 1, price |-> ListPriceWithOptions(listing)]
    /\ stale' = stale \ {"line"}
    /\ UNCHANGED <<listing, voucher, open, page, bill, changes>>

\* addToCart of what is in the cart keeps the line's price, and so does the cart
\* page's updateQuantity.
SetQuantity(n) ==
    /\ Here /\ line # Missing
    /\ line' = [line EXCEPT !.qty = n]
    /\ UNCHANGED <<listing, voucher, open, page, bill, history>>

\* removeItem of the cart page.
RemoveLine ==
    /\ Here /\ line # Missing
    /\ line' = Missing
    /\ UNCHANGED <<listing, voucher, open, page, bill, history>>

\* The checkout page loads the cart.
OpenCheckout ==
    /\ Here /\ line # Missing
    /\ page' = [qty |-> line.qty, price |-> line.price, off |-> Missing]
    /\ stale' = IF "line" \in stale THEN stale ELSE {}
    /\ UNCHANGED <<listing, voucher, open, line, bill, changes>>

\* The page's applyPromo, with the total it shows.
ApplyPromo ==
    /\ Here /\ page # Missing /\ page.off = Missing
    /\ open /\ CartTotal(page) > 0 /\ CartTotal(page) >= voucher.min
    /\ \E off \in ShownDiscounts(voucher, CartTotal(page)) : page' = [page EXCEPT !.off = off]
    /\ UNCHANGED <<listing, voucher, open, line, bill, history>>

\* The page's submit: the items it has read, at the prices of now; a code that
\* can no longer be used is no error.
Submit ==
    /\ Here /\ page # Missing
    /\ \E c \in Charges(listing, voucher, open /\ page.off # Missing, page.qty) :
          bill' = [charged |-> c, shown |-> ShownTotal(page)]
    /\ UNCHANGED <<listing, voucher, open, line, page, history>>

\* Back from the gateway: a confirmed order empties the cart.
Return2Shop ==
    /\ bill # Missing
    /\ bill' = Missing /\ page' = Missing /\ line' \in {line, Missing}
    /\ UNCHANGED <<listing, voucher, open, history>>

QuotesNext ==
    \/ ChangeListing \/ CloseCode
    \/ AddLine \/ (\E n \in 1..MaxQty : SetQuantity(n)) \/ RemoveLine
    \/ OpenCheckout \/ ApplyPromo \/ Submit \/ Return2Shop

QuotesSpec == QuotesInit /\ [][QuotesNext]_quoteVars

-----------------------------------------------------------------------------
(* Properties *)

Near(a, b, n) == a - b <= n /\ b - a <= n

\* The assistant's preview is what the order would cost at that moment: a unit's
\* price differs by a paisa, at a half, and where it does not, the total differs
\* by the rounding of the discount to rupees, but for a fixed code with a cap,
\* which only the server minds.  It is never negative.
PreviewIsCharge ==
    line # Missing =>
       LET preview == PreviewCheckout(listing, voucher, open, line.qty)
       IN /\ preview >= 0
          /\ \A u \in EffectivePrices(listing) : Near(u, UnitCents(listing), 1)
          /\ EffectivePrices(listing) = {UnitCents(listing)}
               /\ ~(voucher.kind = "fixed" /\ voucher.cap # Missing)
             => \A c \in Charges(listing, voucher, open, line.qty) : Near(c, preview, 50)

\* The code counts for the discounted amount as it did for the page's.
CodeCarries(qty) ==
    /\ ~(voucher.kind = "fixed" /\ voucher.cap # Missing)
    /\ \A u \in EffectivePrices(listing) : qty * u >= voucher.min

\* Whatever way the customer took to the button, if the product and the code are
\* what they were when the line was added, the order costs no more than the
\* button said, but for the rounding to rupees; provided an applied code carries
\* over to the discounted amount.
NeverChargedMore ==
    bill # Missing /\ "page" \notin stale /\ (page.off # Missing => CodeCarries(page.qty))
    => bill.charged <= bill.shown + 100

\* The price on its way through cart, code, preview, page and order.
PricesKept == PreviewIsCharge /\ NeverChargedMore
=============================================================================
