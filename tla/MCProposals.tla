---------------------------- MODULE MCProposals ----------------------------
(***************************************************************************)
(* Two proposals of any kinds, two concurrent requests.                    *)
(*                                                                         *)
(* Beside them, the dates of one order under two late writers, and the     *)
(* versions of listing drafts.  The three modules share no variable, so a  *)
(* behaviour moves one of them.                                            *)
(*                                                                         *)
(* Bounds: an order that starts at a later status is there for proposals   *)
(* about orders, and an edit of an order in flight is its only late write. *)
(***************************************************************************)
EXTENDS Proposals, Tracking, Drafts, TLC

VARIABLE focus   \* what moves in this behaviour

\* updateOrder and userUpdateOrder set no date of a stage and record no return.
Edits(late) == late # Never /\ late.sets = {} /\ ~late.asks

MCInit ==
    /\ focus \in {"proposals", "dates", "drafts"}
    /\ Init /\ TrackInit /\ DraftsInit
    /\ focus # "proposals" => order.st = "Pending"
    /\ focus # "dates" => due = 0
MCNext ==
    \/ /\ focus = "proposals" /\ Next /\ UNCHANGED <<trackVars, draftVars, focus>>
       /\ \A p \in Ids : kind'[p] \in OrderKinds \cup {None}
                        \/ order'.n > 0 \/ order'.st = "Pending"
    \/ /\ focus = "dates" /\ TrackNext /\ UNCHANGED <<vars, draftVars, focus>>
       /\ \A k \in Clerks : Edits(pending'[k]) => \A j \in Clerks \ {k} : pending'[j] = Never
    \/ focus = "drafts" /\ DraftsNext /\ UNCHANGED <<vars, trackVars, focus>>
MCSpec == MCInit /\ [][MCNext]_<<vars, trackVars, draftVars, focus>>

\* The kinds that share a target.
MCBundles ==
    {CartKinds, OrderKinds, {"product.set_price", "listing.update_content"},
     {"inventory.adjust"}, {"listing.publish"}}

\* Proposals and requests are interchangeable.
Symmetry == Permutations(Ids) \cup Permutations(Workers)
=============================================================================
