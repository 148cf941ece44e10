------------------------------ MODULE MCIntake ------------------------------
(***************************************************************************)
(* Two customers and two requests at a time compete for a code that may be *)
(* used once, and create up to two orders.  Bounds: an admin gives uses    *)
(* back only in behaviours without carts of several items, in which no     *)
(* account is deleted.                                                     *)
(*                                                                         *)
(* The catalogue's requests, the recommendation map and the quoted prices  *)
(* are checked beside them.  The four share no variable, so a behaviour    *)
(* moves one of them: interleaving them would only multiply the states.    *)
(***************************************************************************)
EXTENDS Shop, TLC

VARIABLE focus   \* what moves in this behaviour

\* A percentage, one with a cap and a minimum, and a fixed code without and with
\* a cap.
MCVouchers ==
    {[kind |-> "percentage", value |-> 15, cap |-> Missing, min |-> 0],
     [kind |-> "percentage", value |-> 50, cap |-> 3000, min |-> 900],
     [kind |-> "fixed", value |-> 1000, cap |-> Missing, min |-> 1000],
     [kind |-> "fixed", value |-> 1000, cap |-> 500, min |-> 0]}

MCInit ==
    /\ focus \in {"orders", "resets", "catalogue", "map", "quotes"}
    /\ Init /\ CatInit /\ RecInit /\ QuotesInit
    /\ focus # "quotes" => /\ voucher = (CHOOSE v \in Vouchers : TRUE)
                           /\ listing = (CHOOSE l \in Listing : TRUE)
MCNext ==
    \/ /\ focus = "orders" /\ Next
       /\ \A w \in Workers : jobs'[w].pc \notin {"unuse", "decrement"}
       /\ UNCHANGED <<catVars, recVars, quoteVars, focus>>
    \/ /\ focus = "resets" /\ Next
       /\ \A w \in Workers : ~jobs'[w].bulk
       /\ accounts' = Users
       /\ UNCHANGED <<catVars, recVars, quoteVars, focus>>
    \/ focus = "catalogue" /\ CatNext
       /\ UNCHANGED <<vars, recVars, quoteVars, focus>>
    \/ focus = "map" /\ RecNext
       /\ UNCHANGED <<vars, catVars, quoteVars, focus>>
    \/ focus = "quotes" /\ QuotesNext
       /\ UNCHANGED <<vars, catVars, recVars, focus>>
MCSpec == MCInit /\ [][MCNext]_<<vars, catVars, recVars, quoteVars, focus>>

\* Requests are interchangeable, and so are customers.
Symmetry == Permutations(Workers) \cup Permutations(Users)
=============================================================================
