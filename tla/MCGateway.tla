----------------------------- MODULE MCGateway -----------------------------
(***************************************************************************)
(* Two sellers, one verified and one not, make a call each where a counter *)
(* holds two leases, one of which may be lost.  A buyer and an admin make  *)
(* none: they are there for what they would be shown.                      *)
(*                                                                         *)
(* Three bounds of this module: a counter expires or a lease is lost, not  *)
(* both; the review page stops where an answer about another proposal came *)
(* in, which is where its promise ends; and what does not move stays as it *)
(* begins.                                                                 *)
(*                                                                         *)
(* The lists that the calls carry are checked beside them, page by page,   *)
(* and so are the storefront's own pages of orders and of proposals.  The  *)
(* four share no variable, so a behaviour moves one of them: interleaving  *)
(* them would only multiply the states.                                    *)
(***************************************************************************)
EXTENDS Assistant

CONSTANTS c1, c2, p1, p2, buyer, admin, r1, r2

VARIABLE focus   \* what moves in this behaviour

MCClaims ==
    [p \in {p1, p2, buyer, admin} |->
        LET role == IF p = buyer THEN "user" ELSE IF p = admin THEN "admin" ELSE "seller"
        IN  [role |-> role, verified |-> p = p1, scopes |-> RoleScopes[role]]]
MCCaller == [c \in {c1, c2} |-> IF c = c1 THEN p1 ELSE p2]
MCToolsOf ==
    [c \in {c1, c2} |-> IF c = c1 THEN {"save_listing_draft", "propose_price_change"}
                        ELSE {"propose_price_change", "list_my_products",
                              "search_products", "get_capabilities"}]

MCInit == /\ focus \in {"calls", "list", "orders page", "review page"}
          /\ Init /\ ScanInit /\ PageInit /\ ReviewInit
          /\ focus # "list" => list = "orders"
          /\ focus # "orders page" => screen = "seller"
          /\ focus # "review page" => settled = [r \in Reviews |-> "pending"]
MCNext ==
    \/ /\ focus = "calls" /\ Next /\ expiries' + losses' <= 1
       /\ UNCHANGED <<scanVars, pageVars, reviewVars, focus>>
    \/ /\ focus = "list" /\ ScanNext
       /\ UNCHANGED <<vars, pageVars, reviewVars, focus>>
    \/ /\ focus = "orders page" /\ PageNext
       /\ UNCHANGED <<vars, scanVars, reviewVars, focus>>
    \/ /\ focus = "review page" /\ ~crossed /\ ReviewNext
       /\ UNCHANGED <<vars, scanVars, pageVars, focus>>
MCSpec == MCInit /\ [][MCNext]_<<vars, scanVars, pageVars, reviewVars, focus>>
=============================================================================
