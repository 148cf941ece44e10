---------------------------- MODULE MCFulfilment ----------------------------
(***************************************************************************)
(* Fulfilment on one order of one unit, the last of its product.           *)
(***************************************************************************)
EXTENDS Fulfilment, TLC

CONSTANTS item

MCProductOf == [o \in Orders |-> item]
MCGroupOf == [o \in Orders |-> Orders]
MCQuantity == [o \in Orders |-> 1]
MCInitialStock == [q \in Products |-> 1]

\* Requests are interchangeable.
Symmetry == Permutations(Workers)
=============================================================================
