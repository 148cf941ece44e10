-------------------------------- MODULE Sale --------------------------------
(***************************************************************************)
(* What the shop promises about a sale, without requests, transactions or  *)
(* payments: the units of an order leave the shelf in the same instant in  *)
(* which it is sold, never more than the shelf holds, and come back in the *)
(* same instant in which a sold order is voided, once.  A void order stays *)
(* void; an order the shelf could not serve stays stranded.                *)
(***************************************************************************)
EXTENDS Integers

CONSTANTS Orders, Products, ProductOf, Quantity, InitialStock

VARIABLES
    sale,  \* "open", "sold", "void" or "stranded" for every order
    shelf  \* units of every product on the shelf

saleVars == <<sale, shelf>>

SaleInit ==
    /\ sale = [o \in Orders |-> "open"]
    /\ shelf = InitialStock

Sell(o) ==
    /\ sale[o] = "open"
    /\ shelf[ProductOf[o]] >= Quantity[o]
    /\ sale' = [sale EXCEPT ![o] = "sold"]
    /\ shelf' = [shelf EXCEPT ![ProductOf[o]] = @ - Quantity[o]]

Strand(o) ==
    /\ sale[o] = "open"
    /\ shelf[ProductOf[o]] < Quantity[o]
    /\ sale' = [sale EXCEPT ![o] = "stranded"]
    /\ UNCHANGED shelf

VoidOpen(o) ==
    /\ sale[o] = "open"
    /\ sale' = [sale EXCEPT ![o] = "void"]
    /\ UNCHANGED shelf

VoidSold(o) ==
    /\ sale[o] = "sold"
    /\ sale' = [sale EXCEPT ![o] = "void"]
    /\ shelf' = [shelf EXCEPT ![ProductOf[o]] = @ + Quantity[o]]

SaleNext == \E o \in Orders : Sell(o) \/ Strand(o) \/ VoidOpen(o) \/ VoidSold(o)

SaleSpec == SaleInit /\ [][SaleNext]_saleVars
=============================================================================
