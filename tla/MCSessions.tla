----------------------------- MODULE MCSessions -----------------------------
(***************************************************************************)
(* Two requests and two tabs: families of up to three tokens, and up to    *)
(* two with links that reset the password and with a hash of the older     *)
(* kind.                                                                   *)
(*                                                                         *)
(* Beside them, what two people own under two emails, and the bill and     *)
(* mail of an order.  The three modules share no variable, so a behaviour  *)
(* moves one of them.  That the order is the first buyer's is no bound:    *)
(* the buyers differ in nothing but their names.                           *)
(***************************************************************************)
EXTENDS Customers, TLC

CONSTANTS buyer1, buyer2, mail1, mail2

VARIABLE focus   \* what moves in this behaviour

MCAddressOf == [u \in Buyers |-> IF u = buyer1 THEN mail1 ELSE mail2]

MCInit ==
    /\ focus \in {"families", "passwords", "accounts", "receipts"}
    /\ Init /\ IdInit /\ ReceiptsInit
    /\ focus # "passwords" => ~legacy
    /\ sold.whose.user = buyer1
    /\ focus # "receipts" => sold.whose.email = mail1
MCNext ==
    \/ /\ focus = "families" /\ Next /\ ~link'
       /\ UNCHANGED <<idVars, receiptVars, focus>>
    \/ /\ focus = "passwords" /\ Next /\ issued' <= 2
       /\ UNCHANGED <<idVars, receiptVars, focus>>
    \/ focus = "accounts" /\ IdNext /\ UNCHANGED <<vars, receiptVars, focus>>
    \/ focus = "receipts" /\ ReceiptsNext /\ UNCHANGED <<vars, idVars, focus>>
MCSpec == MCInit /\ [][MCNext]_<<vars, idVars, receiptVars, focus>>

\* Requests are interchangeable, and so are tabs, people and their emails; those
\* of Receipts are not, as AddressOf tells them apart.
Symmetry == Permutations(Workers) \cup Permutations(Tabs)
            \cup Permutations(Persons) \cup Permutations(Emails)
=============================================================================
