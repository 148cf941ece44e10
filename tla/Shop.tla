-------------------------------- MODULE Shop --------------------------------
(***************************************************************************)
(* From the catalogue to an order: the products with their reviews and     *)
(* notifications, what is recommended, what a line costs, and the orders   *)
(* with their promo code.  The four share no variable.                     *)
(***************************************************************************)
EXTENDS Intake, Catalogue, Recommendations, Quotes

ShopSpec == Spec /\ CatSpec /\ RecSpec /\ QuotesSpec

\* Every row is of its type: among others, an order never has more reviews than
\* there are requests at a time.
ShopTypeOK == TypeOK /\ CatTypeOK /\ RecTypeOK /\ QuotesTypeOK
=============================================================================
