----------------------------- MODULE ReviewPages -----------------------------
(***************************************************************************)
(* The pages on which proposals are confirmed: Proposals lists them and    *)
(* ProposalReview shows one and confirms it.  The review page loads by its *)
(* address, shows the answer that came last and confirms by its address    *)
(* again; a link pasted over the address keeps the page and its state.     *)
(*                                                                         *)
(* One tab.  How the server decides is Proposals' subject: here it settles *)
(* a proposal in one step, and so may another tab.                         *)
(***************************************************************************)
EXTENDS Integers, FiniteSets

CONSTANTS
    Reviews,   \* the proposals that the tab opens
    Stepped,   \* those that change a price and ask for the password
    Touched,   \* bound: those that another tab or their expiry reaches
    None

ASSUME ReviewAssumption ==
    Stepped \subseteq Reviews /\ Touched \subseteq Reviews /\ None \notin Reviews

VARIABLES
    settled,   \* the status of a proposal, "missing" for one of another account
    late,      \* proposals past expiresAt
    url,       \* the proposal in the address, None on the list
    loads,     \* the reads of the review page under way, at most one each (bound)
    flags,     \* the review page's loading, notFound and loadError
    seen,      \* the proposal in the page's state and the status it has there
    confirming,  \* the confirmation under way
    crossed,   \* history: an answer about another proposal than the page's came in
    raced,     \* history: proposals whose confirmation lost a race and was undone
    unread     \* history: proposals confirmed here and not shown as pending

reviewVars == <<settled, late, url, loads, flags, seen, confirming, crossed, raced,
                unread>>

-----------------------------------------------------------------------------
(* Types *)

Ends == {"executed", "expired", "stale", "rejected"}
ToldStatuses == Ends \cup {"pending"}
NoProposal == [of |-> None, st |-> "pending"]
NotConfirming == [pc |-> "none", of |-> None, password |-> FALSE, reviewed |-> FALSE,
         answer |-> "none"]

\* What execute answers: done, a machine reason, or none of both.
Answers == Ends \cup {"none", "state_changed", "reauthorize", "missing", "failed"}

ReviewTypeOK ==
    /\ settled \in [Reviews -> ToldStatuses \cup {"missing"}]
    /\ late \in SUBSET Reviews
    /\ url \in Reviews \cup {None}
    /\ loads \in [Reviews -> ToldStatuses \cup {"none", "sent", "missing", "failed"}]
    /\ flags \in SUBSET {"loading", "notFound", "error"}
    /\ seen \in [of : Reviews \cup {None}, st : ToldStatuses]
    /\ confirming \in [pc : {"none", "sent", "answered"}, of : Reviews \cup {None},
                       password : BOOLEAN, reviewed : BOOLEAN, answer : Answers]
    /\ crossed \in BOOLEAN
    /\ raced \in SUBSET Reviews /\ unread \in SUBSET Reviews

ReviewInit ==
    /\ settled \in [Reviews -> {"pending", "missing"}]
    /\ late = {}
    /\ url = None /\ flags = {} /\ seen = NoProposal
    /\ loads = [p \in Reviews |-> "none"]
    /\ confirming = NotConfirming
    /\ crossed = FALSE /\ raced = {} /\ unread = {}

-----------------------------------------------------------------------------
(* The server *)

\* A pending proposal past its time is told as expired, and stays pending.
EffectiveStatus(p) ==
    IF settled[p] = "pending" /\ p \in late THEN "expired" ELSE settled[p]

\* What execute makes of a proposal: the answer and the status it leaves.  A
\* settled one gets its first outcome again; an actor who may not confirm, a race
\* that is lost and a failure leave it pending.
ExecuteProposal(p, password) ==
    IF settled[p] # "pending" THEN {<<settled[p], settled[p]>>}
    ELSE IF p \in late THEN {<<"expired", "expired">>, <<"failed", "pending">>}
    ELSE IF p \in Stepped /\ ~password THEN {<<"reauthorize", "pending">>}
    ELSE {<<"executed", "executed">>, <<"stale", "stale">>, <<"rejected", "rejected">>,
          <<"state_changed", "pending">>, <<"failed", "pending">>}
         \cup (IF p \in Stepped THEN {<<"reauthorize", "pending">>} ELSE {})

\* Confirmed in another tab, or by a confirmation the page no longer waits for.
SettledElsewhere(p) ==
    /\ p \in Touched
    /\ \E o \in ExecuteProposal(p, TRUE) : settled' = [settled EXCEPT ![p] = o[2]]
    /\ UNCHANGED <<late, url, loads, flags, seen, confirming, crossed, raced, unread>>

PassExpiry(p) ==
    /\ p \in Touched \ late
    /\ late' = late \cup {p}
    /\ UNCHANGED <<settled, url, loads, flags, seen, confirming, crossed, raced, unread>>

-----------------------------------------------------------------------------
(* Opening a proposal *)

\* A proposal is on the screen, and not a spinner or an error in its place.
Rendered == url # None /\ flags = {} /\ seen.of # None

\* From the list: a new page, which hears of nothing that an earlier one asked.
OpenFromList(p) ==
    /\ url = None
    /\ url' = p /\ flags' = {"loading"} /\ seen' = NoProposal
    /\ loads' = [loads EXCEPT ![p] = "sent"]
    /\ UNCHANGED <<settled, late, confirming, crossed, raced, unread>>

\* A link pasted over the address: the same page loads again.
PasteLink(p) ==
    /\ url \notin {None, p} /\ loads[p] = "none"
    /\ url' = p /\ flags' = {"loading"}
    /\ loads' = [loads EXCEPT ![p] = "sent"]
    /\ UNCHANGED <<settled, late, seen, confirming, crossed, raced, unread>>

\* Not now, Back: the page goes, and with it what it waited for.
BackToList ==
    /\ url # None
    /\ url' = None /\ flags' = {} /\ seen' = NoProposal
    /\ loads' = [p \in Reviews |-> "none"]
    /\ confirming' = NotConfirming
    /\ UNCHANGED <<settled, late, crossed, raced, unread>>

TryAgain ==
    /\ url # None /\ flags \cap {"loading", "notFound"} = {} /\ ~Rendered
    /\ loads[url] = "none"
    /\ flags' = {"loading"}
    /\ loads' = [loads EXCEPT ![url] = "sent"]
    /\ UNCHANGED <<settled, late, url, seen, confirming, crossed, raced, unread>>

\* getProposalReview, which may also fail.
GetProposalReview(p) ==
    /\ loads[p] = "sent"
    /\ \E found \in {EffectiveStatus(p), "failed"} : loads' = [loads EXCEPT ![p] = found]
    /\ UNCHANGED <<settled, late, url, flags, seen, confirming, crossed, raced, unread>>

\* The answer goes into the page whatever its address is by now.
ShowProposal(p) ==
    /\ loads[p] \notin {"none", "sent"}
    /\ loads' = [loads EXCEPT ![p] = "none"]
    /\ seen' = IF loads[p] \in ToldStatuses THEN [of |-> p, st |-> loads[p]] ELSE seen
    /\ flags' = (flags \ {"loading"})
                \cup (CASE loads[p] \in ToldStatuses -> {} [] loads[p] = "missing" -> {"notFound"}
                        [] loads[p] = "failed" -> {"error"})
    /\ crossed' = (crossed \/ p # url)
    /\ UNCHANGED <<settled, late, url, confirming, raced, unread>>

-----------------------------------------------------------------------------
(* Confirming *)

\* By the address, and with the password if what is shown asks for one; the
\* button is there while what is shown is pending.
Confirm ==
    /\ Rendered /\ seen.st = "pending"
    /\ confirming.pc = "none"
    /\ confirming' = [NotConfirming EXCEPT !.pc = "sent", !.of = url,
                                  !.password = seen.of \in Stepped,
                                  !.reviewed = seen.of = url]
    /\ UNCHANGED <<settled, late, url, loads, flags, seen, crossed, raced, unread>>

Execute ==
    LET p == confirming.of IN
    /\ confirming.pc = "sent"
    /\ \E o \in ExecuteProposal(p, confirming.password) :
          /\ settled' = [settled EXCEPT ![p] = o[2]]
          /\ confirming' = [confirming EXCEPT !.pc = "answered", !.answer = o[1]]
          /\ unread' = IF settled[p] = "pending" /\ o[2] = "executed" /\ ~confirming.reviewed
                       THEN unread \cup {p} ELSE unread
          /\ raced' = IF o[1] = "state_changed" THEN raced \cup {p} ELSE raced
    /\ UNCHANGED <<late, url, loads, flags, seen, crossed>>

\* The status that an answer puts on the page: a conflict without a reason is
\* taken for a rejection.
StatusToldBy(answer) == IF answer = "state_changed" THEN "rejected" ELSE answer

\* A refused password and a failure change nothing on the page; that it says
\* "Nothing was changed" is true of both.
Settle ==
    /\ confirming.pc = "answered"
    /\ confirming' = NotConfirming
    /\ IF confirming.answer = "missing"
       THEN flags' = flags \cup {"notFound"} /\ seen' = NoProposal
       ELSE /\ UNCHANGED flags
            /\ seen' = IF confirming.answer \in {"reauthorize", "failed"} \/ seen.of = None
                       THEN seen ELSE [seen EXCEPT !.st = StatusToldBy(confirming.answer)]
    /\ crossed' = (crossed \/ seen.of # confirming.of)
    /\ UNCHANGED <<settled, late, url, loads, raced, unread>>

\* The request or its answer is lost: the page says "Nothing was changed", of a
\* proposal that may be executed, and goes on showing it as pending.
LoseAnswer ==
    /\ confirming.pc # "none"
    /\ confirming' = NotConfirming
    /\ UNCHANGED <<settled, late, url, loads, flags, seen, crossed, raced, unread>>

ReviewNext ==
    \/ \E p \in Reviews :
          \/ SettledElsewhere(p) \/ PassExpiry(p) \/ OpenFromList(p) \/ PasteLink(p)
          \/ GetProposalReview(p) \/ ShowProposal(p)
    \/ BackToList \/ TryAgain \/ Confirm \/ Execute \/ Settle \/ LoseAnswer

ReviewSpec == ReviewInit /\ [][ReviewNext]_reviewVars

-----------------------------------------------------------------------------
(* Properties *)

\* "These changes were reviewed on this screen before they were applied."  As long
\* as no answer about another proposal comes in: what the page renders is the
\* proposal of its address, it says "Applied" only of one that is, an end it shows
\* is the one the proposal came to, or will once somebody confirms it too late,
\* and nothing is executed from the page that it did not show as pending.  The
\* exception is a race: a confirmation that lost one is called "Not applicable"
\* though the proposal waits on.
ReviewTold ==
    ~crossed =>
        /\ Rendered => seen.of = url
        /\ seen.of # None => LET p == seen.of IN
              /\ seen.st = "executed" => settled[p] = "executed"
              /\ seen.st \in Ends /\ p \notin raced =>
                    \/ settled[p] = seen.st
                    \/ seen.st = "expired" /\ EffectiveStatus(p) = "expired"
        /\ unread = {}
=============================================================================
