---------------------------- MODULE MCCheckout -----------------------------
(***************************************************************************)
(* The purchase, and beside it the idempotency keys of its checkout.  The  *)
(* two share no variable, so a behaviour moves one of them.                *)
(*                                                                         *)
(* Bound: no order is cancelled in a behaviour that has a second payment.  *)
(***************************************************************************)
EXTENDS MCPurchase, Idempotency

VARIABLE focus   \* what moves in this behaviour

\* One key is sent with two orders, and one order with two keys.
MCAsked == {<<"key1", o1>>, <<"key1", o2>>, <<"key2", o1>>}

MCInit == focus \in {"purchase", "keys"} /\ Init /\ KeysInit
MCNext ==
    \/ /\ focus = "purchase" /\ PurchaseNext /\ UNCHANGED <<keyVars, focus>>
       /\ payStatus'[2] # "absent" => \A o \in Orders : status'[o] # "Cancelled"
    \/ focus = "keys" /\ KeysNext /\ UNCHANGED <<vars, focus>>
MCSpec == MCInit /\ [][MCNext]_<<vars, keyVars, focus>>
=============================================================================
