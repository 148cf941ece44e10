------------------------------- MODULE Drafts -------------------------------
(***************************************************************************)
(* Listing drafts: a seller's assistant saves versions of a draft, and     *)
(* proposes to publish one as a product.                                   *)
(*                                                                         *)
(* A save, a proposal and a confirmation are transactions at READ          *)
(* COMMITTED: each reads, and a later statement claims what the read       *)
(* found; anything may commit in between.  All drafts are of one seller,   *)
(* under several grants; one product is the source that drafts may name.   *)
(***************************************************************************)
EXTENDS Integers

CONSTANTS Grants,     \* delegated grants (assistant sessions) of the seller
          DraftIds,   \* ids of listing_drafts rows
          Papers,     \* publish proposals
          Scribes,    \* transactions that are open at a time
          Void        \* no draft, no grant, no proposal

ASSUME DraftsAssumption == Void \notin Grants \cup DraftIds \cup Papers

VARIABLES
    rows,      \* draft -> its listing_drafts row
    papers,    \* proposal -> its row, and what its execution made
    scribes,   \* scribe -> what its transaction has read
    sourced,   \* whether the source product is still the seller's
    raced      \* history: proposals whose draft was superseded while a
               \* confirmation stood between its read and its claim
draftVars == <<rows, papers, scribes, sourced, raced>>

NoRow == [status |-> "none", by |-> Void, from |-> FALSE, version |-> 0, parent |-> Void]
NoPaper == [status |-> "none", by |-> Void, draft |-> Void, pinned |-> 0,
            goods |-> 0, onto |-> "none"]
Resting == [step |-> "free", by |-> Void, draft |-> Void, paper |-> Void,
            version |-> 0, from |-> FALSE, fresh |-> FALSE]

Row == [status : {"none", "Draft", "Superseded"}, by : Grants \cup {Void},
        from : BOOLEAN, version : Nat, parent : DraftIds \cup {Void}]
Paper == [status : {"none", "pending", "executed", "stale", "closed"},
          by : Grants \cup {Void}, draft : DraftIds \cup {Void}, pinned : Nat,
          goods : Nat, onto : {"none", "Draft", "Superseded"}]
Scribe == [step : {"free", "save", "propose", "publish"}, by : Grants \cup {Void},
           draft : DraftIds \cup {Void}, paper : Papers \cup {Void},
           version : Nat, from : BOOLEAN, fresh : BOOLEAN]

DraftsTypeOK ==
    /\ rows \in [DraftIds -> Row]
    /\ papers \in [Papers -> Paper]
    /\ scribes \in [Scribes -> Scribe]
    /\ sourced \in BOOLEAN
    /\ raced \subseteq Papers

DraftsInit ==
    /\ rows = [d \in DraftIds |-> NoRow]
    /\ papers = [p \in Papers |-> NoPaper]
    /\ scribes = [w \in Scribes |-> Resting]
    /\ sourced = TRUE /\ raced = {}

Rests(w) == scribes[w].step = "free"
Holds(w, work) == scribes' = [scribes EXCEPT ![w] = work]
Puts(w) == Holds(w, Resting)

\* What a grant may read: its own rows, superseded ones only on request.
MyListingDraft(g, d) == rows[d].status # "none" /\ rows[d].by = g
MyListingDrafts(g, superseded) ==
    {d \in DraftIds : MyListingDraft(g, d)
                        /\ (superseded \/ rows[d].status = "Draft")}

\* A source product that the request or the parent names must be owned.
OwnedProduct(named) == named => sourced

\* Ids are random; which unused one a row gets makes no difference.
IdLeft == \E d \in DraftIds : rows[d].status = "none"
NewDraftId == CHOOSE d \in DraftIds : rows[d].status = "none"

-----------------------------------------------------------------------------
(* Saving.                                                                  *)

CreateDraft(g, named) ==
    /\ IdLeft /\ OwnedProduct(named)
    /\ rows' = [rows EXCEPT ![NewDraftId] =
                    [status |-> "Draft", by |-> g, from |-> named,
                     version |-> 1, parent |-> Void]]
    /\ UNCHANGED <<papers, scribes, sourced, raced>>

ReadParent(w, g, d, named) ==
    /\ Rests(w) /\ d \in MyListingDrafts(g, FALSE)
    /\ OwnedProduct(named \/ rows[d].from)
    /\ Holds(w, [Resting EXCEPT !.step = "save", !.by = g, !.draft = d,
                    !.version = rows[d].version, !.from = named \/ rows[d].from])
    /\ UNCHANGED <<rows, papers, sourced, raced>>

\* Two saves of one row wait for each other at the claim.
Claimable(d) == rows[d].status = "Draft"

Confirming(d) == {p \in Papers : papers[p].draft = d
                    /\ \E w \in Scribes : scribes[w].step = "publish" /\ scribes[w].paper = p}

\* The child is created in the transaction that claimed its parent: a stop in
\* between takes both back.
SaveChild(w) ==
    LET s == scribes[w] IN
    /\ s.step = "save" /\ Claimable(s.draft) /\ IdLeft
    /\ rows' = [rows EXCEPT ![s.draft].status = "Superseded",
                            ![NewDraftId] =
                    [status |-> "Draft", by |-> s.by, from |-> s.from,
                     version |-> s.version + 1, parent |-> s.draft]]
    /\ raced' = raced \cup Confirming(s.draft)
    /\ Puts(w)
    /\ UNCHANGED <<papers, sourced>>

\* The claim found no draft row, or a statement or the audit failed.
SaveFails(w) ==
    /\ scribes[w].step = "save" /\ Puts(w)
    /\ UNCHANGED <<rows, papers, sourced, raced>>

LoseSource ==
    /\ sourced /\ sourced' = FALSE
    /\ UNCHANGED <<rows, papers, scribes, raced>>

-----------------------------------------------------------------------------
(* Publishing.                                                              *)

ReadToPropose(w, g, d) ==
    /\ Rests(w) /\ MyListingDraft(g, d) /\ rows[d].status = "Draft"
    /\ Holds(w, [Resting EXCEPT !.step = "propose", !.by = g, !.draft = d,
                    !.version = rows[d].version])
    /\ UNCHANGED <<rows, papers, sourced, raced>>

ProposeListingPublish(w, p) ==
    LET s == scribes[w] IN
    /\ s.step = "propose" /\ papers[p].status = "none"
    /\ papers' = [papers EXCEPT ![p] = [NoPaper EXCEPT !.status = "pending",
                    !.by = s.by, !.draft = s.draft, !.pinned = s.version]]
    /\ Puts(w)
    /\ UNCHANGED <<rows, sourced, raced>>

\* The seller rejects it, or it expires.
ClosePaper(p) ==
    /\ papers[p].status = "pending"
    /\ papers' = [papers EXCEPT ![p].status = "closed"]
    /\ UNCHANGED <<rows, scribes, sourced, raced>>

UnmovedByVersion(p) == LET r == rows[papers[p].draft] IN
    r.by = papers[p].by /\ r.version = papers[p].pinned
\* The recheck.  A row keeps its version for ever, so what tells that a later
\* save happened is its status.
Unmoved(p) == LET r == rows[papers[p].draft] IN
    r.by = papers[p].by /\ r.status = "Draft" /\ r.version = papers[p].pinned

ReadToPublish(w, p) ==
    /\ Rests(w) /\ papers[p].status = "pending"
    /\ Holds(w, [Resting EXCEPT !.step = "publish", !.paper = p, !.fresh = Unmoved(p)])
    /\ UNCHANGED <<rows, papers, sourced, raced>>

\* The claim of the pending row, then the product: both commit or none.  A
\* confirmation that claims nothing answers with what the other one did.
PublishDraft(w) ==
    LET s == scribes[w]  p == s.paper IN
    /\ s.step = "publish"
    /\ papers' = IF papers[p].status # "pending" THEN papers
                 ELSE IF s.fresh
                 THEN [papers EXCEPT ![p].status = "executed", ![p].goods = @ + 1,
                                     ![p].onto = rows[papers[p].draft].status]
                 ELSE [papers EXCEPT ![p].status = "stale"]
    /\ Puts(w)
    /\ UNCHANGED <<rows, sourced, raced>>

\* The proposal or the confirmation is rolled back.
PaperFails(w) ==
    /\ scribes[w].step \in {"propose", "publish"} /\ Puts(w)
    /\ UNCHANGED <<rows, papers, sourced, raced>>

DraftsNext ==
    \/ \E g \in Grants, named \in BOOLEAN : CreateDraft(g, named)
    \/ \E w \in Scribes, g \in Grants, d \in DraftIds, named \in BOOLEAN :
         ReadParent(w, g, d, named)
    \/ \E w \in Scribes : SaveChild(w)
    \/ \E w \in Scribes : SaveFails(w)
    \/ LoseSource
    \/ \E w \in Scribes, g \in Grants, d \in DraftIds : ReadToPropose(w, g, d)
    \/ \E w \in Scribes, p \in Papers : ProposeListingPublish(w, p)
    \/ \E p \in Papers : ClosePaper(p)
    \/ \E w \in Scribes, p \in Papers : ReadToPublish(w, p)
    \/ \E w \in Scribes : PublishDraft(w)
    \/ \E w \in Scribes : PaperFails(w)
DraftsSpec == DraftsInit /\ [][DraftsNext]_draftVars

-----------------------------------------------------------------------------
(* Properties.                                                              *)

\* A version has one successor at most, written by its own grant, numbered one
\* up and keeping its source; a version is superseded only together with its
\* successor, so what listMyListingDrafts leaves out has a later version.
VersionsInLine ==
    \A d, e \in DraftIds :
        /\ rows[d].parent # Void /\ rows[d].parent = rows[e].parent => d = e
        /\ rows[e].parent = d =>
             /\ rows[d].status = "Superseded" /\ rows[d].by = rows[e].by
             /\ rows[e].version = rows[d].version + 1
             /\ rows[d].from => rows[e].from
NothingUnlisted ==
    \A g \in Grants : \A d \in MyListingDrafts(g, TRUE) \ MyListingDrafts(g, FALSE) :
        \E e \in MyListingDrafts(g, TRUE) : rows[e].parent = d

\* A proposal makes one product at most, and only when executed; what it
\* publishes is the latest version unless a save committed while the
\* confirmation stood between its recheck and its claim; and it is told stale
\* only when a save did supersede its draft.
PublishedOnce ==
    \A p \in Papers :
        /\ papers[p].goods = IF papers[p].status = "executed" THEN 1 ELSE 0
        /\ papers[p].onto = "Superseded" => p \in raced
        /\ papers[p].status = "stale" => rows[papers[p].draft].status = "Superseded"

\* What the saves and the confirmations of drafts keep, whatever their order.
DraftsKept == VersionsInLine /\ NothingUnlisted /\ PublishedOnce
=============================================================================
