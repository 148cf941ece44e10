----------------------------- MODULE Ownership ------------------------------
(***************************************************************************)
(* What people own: accounts, carts and orders under ids and emails, and   *)
(* the bill and the mail of an order.  The two share no variable.          *)
(***************************************************************************)
EXTENDS Accounts, Receipts

OwnershipSpec == IdSpec /\ ReceiptsSpec

\* Everybody's carts, orders and bills are their own.
WhoseIsWhose == EachTheirOwn /\ ReceiptsAgree
=============================================================================
