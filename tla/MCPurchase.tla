----------------------------- MODULE MCPurchase -----------------------------
(***************************************************************************)
(* Purchase on a cart checkout of two orders that compete for two units of *)
(* one product: o1 wants one of them, o2 both.                             *)
(***************************************************************************)
EXTENDS Purchase, TLC

CONSTANTS o1, o2, item

MCProductOf == [o \in Orders |-> item]
MCGroupOf == [o \in Orders |-> Orders]
MCQuantity == [o \in Orders |-> IF o = o1 THEN 1 ELSE 2]
MCInitialStock == [q \in Products |-> 2]

\* Requests are interchangeable.
Symmetry == Permutations(Workers)
=============================================================================
