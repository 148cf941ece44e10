------------------------------ MODULE Sessions ------------------------------
(***************************************************************************)
(* The browser sessions of one account: rotating refresh tokens grouped in *)
(* families, the requests that open, rotate and end them, and the tabs of  *)
(* a browser that share the refresh cookie.  Accounts share no rows.       *)
(*                                                                         *)
(* No handler here but updatePassword and deleteAccount uses a             *)
(* transaction: a request is a job that goes from statement to statement.  *)
(* Expiry is left out: it only turns tokens away, and a token that is      *)
(* never presented again is among the behaviours.                          *)
(***************************************************************************)
EXTENDS Integers, FiniteSets

CONSTANTS
    Workers,       \* requests in flight, on the network or in the server
    Tabs,          \* tabs of the browser, each with session.ts in memory
    MaxTokens,     \* bound: refresh_tokens rows that may be created
    MaxPasswords,  \* bound: passwords that may be set, the first included
    None

ASSUME SessionAssumption ==
    /\ MaxTokens \in Nat \ {0} /\ MaxPasswords \in Nat \ {0}
    /\ IsFiniteSet(Workers) /\ None \notin Tabs

VARIABLES
    row,      \* refresh_tokens, by the order of their creation
    issued,   \* how many were created
    exists,   \* the users row is there
    pw,       \* users.password, as the number of the password it is a hash of
    newest,   \* the password set last
    legacy,   \* the hash is one that login replaces
    link,     \* users.resetTokenHash is set, to a link that is not expired
    cookie,   \* the browser's refresh cookie
    jobs,     \* the requests in flight
    escaped,  \* history: families revoked during a rotation in them
    raced,    \* history: families with a token read by two rotations at once
    noted     \* history: what else has happened that a property excepts

rowVars == <<row, issued>>
userVars == <<exists, pw, newest, legacy, link>>
historyVars == <<escaped, raced, noted>>
vars == <<row, issued, exists, pw, newest, legacy, link, cookie, jobs,
          escaped, raced, noted>>

-----------------------------------------------------------------------------
(* Types *)

Tokens == 1..MaxTokens
Passwords == 1..MaxPasswords

\* usedAt and revokedAt, which is looked at first, as one status; familyId is
\* the first token of the family.  born is history: the password the family was
\* opened with, forgotten when the token is revoked.
Row == [st   : {"absent", "fresh", "used", "revoked"},
        fam  : Tokens \cup {0},
        born : Passwords \cup {0}]
NoRow == [st |-> "absent", fam |-> 0, born |-> 0]

Job == [pc   : {"idle", "arrive", "mark", "insert", "kill", "answer",
                "upgrade", "issue", "change", "reset", "revokeAll"},
        tab  : Tabs \cup {None},          \* the tab that waits for the answer
        t    : Tokens \cup {0},           \* the token presented, then the one to answer
        pw   : Passwords \cup {0}]        \* the password verified
NoJob == [pc |-> "idle", tab |-> None, t |-> 0, pw |-> 0]

\* "shared": the cookie's token was in two hands, or an answer was lost.
\* "outdated": a login that had verified an older password opened a session or
\* wrote its hash back, or a reset stopped before it revoked.
Notes == {"shared", "outdated"}

TypeOK ==
    /\ row \in [Tokens -> Row]
    /\ \A t \in Tokens : row[t].fam = 0 <=> row[t].st = "absent"
    /\ issued \in 0..MaxTokens
    /\ exists \in BOOLEAN
    /\ pw \in Passwords /\ newest \in Passwords
    /\ legacy \in BOOLEAN
    /\ link \in BOOLEAN
    /\ cookie \in Tokens \cup {0}
    /\ jobs \in [Workers -> Job]
    /\ escaped \in SUBSET Tokens /\ raced \in SUBSET Tokens
    /\ noted \in SUBSET Notes

\* A registered account, its hash of the present or of the older kind.
Init ==
    /\ row = [t \in Tokens |-> NoRow]
    /\ issued = 0
    /\ exists = TRUE
    /\ pw = 1 /\ newest = 1
    /\ legacy \in BOOLEAN
    /\ link = FALSE
    /\ cookie = 0
    /\ jobs = [w \in Workers |-> NoJob]
    /\ escaped = {} /\ raced = {} /\ noted = {}

-----------------------------------------------------------------------------
(* Shared state formulae *)

SetJob(w, job) == jobs' = [jobs EXCEPT ![w] = job]
Idle(w) == jobs[w].pc = "idle"
At(w, pc) == jobs[w].pc = pc

Rows == {t \in Tokens : row[t].st # "absent"}
Family(f) == {t \in Rows : row[t].fam = f}
Live(t) == row[t].st = "fresh"
LiveIn(f) == {t \in Tokens : row[t].fam = f /\ Live(t)}

\* Rotations that have read a token of family f and not yet inserted another.
Rotating(f) == {w \in Workers : jobs[w].pc \in {"mark", "insert"} /\ row[jobs[w].t].fam = f}

\* Mutant of Revoke: the presented token alone.
RevokeNewestOnly(fs) ==
    /\ row' = [t \in Tokens |->
                 IF row[t].fam \in fs /\ row[t].st = "used"
                 THEN [row[t] EXCEPT !.st = "revoked", !.born = 0] ELSE row[t]]
    /\ escaped' = escaped \cup {f \in fs : Rotating(f) # {}}

\* revokeFamily and revokeAllFamiliesForUser: the rows that are there now.
Revoke(fs) ==
    /\ row' = [t \in Tokens |->
                 IF row[t].fam \in fs THEN [row[t] EXCEPT !.st = "revoked", !.born = 0] ELSE row[t]]
    /\ escaped' = escaped \cup {f \in fs : Rotating(f) # {}}

Families == {row[t].fam : t \in Rows}

\* createInFamily: the foreign key wants the user's row.  MaxTokens is a bound.
Insertable == exists /\ issued < MaxTokens

Insert(fam, born) ==
    /\ issued' = issued + 1
    /\ row' = [row EXCEPT ![issued + 1] =
                 [st |-> "fresh", fam |-> fam, born |-> born]]

-----------------------------------------------------------------------------
(* Opening a session: login, googleSignIn, register *)

\* The credentials are right.  googleSignIn has no password to upgrade.
LoginRead(w) ==
    /\ Idle(w) /\ exists
    /\ \E pc \in {"issue"} \cup (IF legacy THEN {"upgrade"} ELSE {}) :
          SetJob(w, [NoJob EXCEPT !.pc = pc, !.pw = pw])
    /\ UNCHANGED <<rowVars, userVars, cookie, historyVars>>

\* The new hash of the password that was verified, written by primary key.
Upgrade(w) ==
    /\ At(w, "upgrade") /\ exists
    /\ pw' = jobs[w].pw /\ legacy' = FALSE
    /\ noted' = noted \cup (IF pw = jobs[w].pw THEN {} ELSE {"outdated"})
    /\ SetJob(w, [jobs[w] EXCEPT !.pc = "issue"])
    /\ UNCHANGED <<rowVars, exists, newest, link, cookie, escaped, raced>>

\* issueSession: a new family, for this browser or another.
Issue(w) ==
    /\ At(w, "issue") /\ Insertable
    /\ Insert(issued + 1, jobs[w].pw)
    /\ cookie' \in {cookie, issued + 1}
    /\ noted' = noted \cup (IF pw = jobs[w].pw THEN {} ELSE {"outdated"})
    /\ SetJob(w, NoJob)
    /\ UNCHANGED <<userVars, escaped, raced>>

-----------------------------------------------------------------------------
(* Refreshing *)

\* The answer to a tab: a token, or none.
Answering(tab, t) ==
    IF tab = None THEN NoJob ELSE [NoJob EXCEPT !.pc = "answer", !.tab = tab, !.t = t]

Waiting(tab) == \E w \in Workers : jobs[w].tab = tab

\* Mutant of SendRefresh: every caller of the tab sends a request of its own.
SendRefreshAgain(w, tab) ==
    /\ Idle(w) /\ cookie # 0
    /\ noted' = noted \cup (IF \E x \in Tabs \ {tab} : Waiting(x) THEN {"shared"} ELSE {})
    /\ SetJob(w, [NoJob EXCEPT !.pc = "arrive", !.tab = tab, !.t = cookie])
    /\ UNCHANGED <<rowVars, userVars, cookie, escaped, raced>>

\* refreshSession: the callers in one tab share a promise, tabs share nothing
\* but the cookie.
SendRefresh(w, tab) ==
    /\ Idle(w) /\ ~Waiting(tab) /\ cookie # 0
    /\ noted' = noted \cup (IF \E x \in Tabs \ {tab} : Waiting(x) THEN {"shared"} ELSE {})
    /\ SetJob(w, [NoJob EXCEPT !.pc = "arrive", !.tab = tab, !.t = cookie])
    /\ UNCHANGED <<rowVars, userVars, cookie, escaped, raced>>

\* rotateRefreshToken reads the token and knows what to do with it.
Read(w, tab, t) ==
    /\ SetJob(w, CASE row[t].st \in {"absent", "revoked"} -> Answering(tab, 0)
                   [] row[t].st = "used" -> [NoJob EXCEPT !.pc = "kill", !.tab = tab, !.t = t]
                   [] Live(t) -> [NoJob EXCEPT !.pc = "mark", !.tab = tab, !.t = t])
    /\ raced' = raced \cup
         (IF Live(t) /\ \E v \in Workers : At(v, "mark") /\ jobs[v].t = t
          THEN {row[t].fam} ELSE {})
    /\ UNCHANGED <<rowVars, userVars, cookie, escaped>>

RotateRead(w) ==
    /\ At(w, "arrive")
    /\ Read(w, jobs[w].tab, jobs[w].t)
    /\ UNCHANGED noted

\* A token that was once handed out is presented for no waiting tab: by somebody
\* else, or by a request whose tab has given up on it and sent another.
RotateOrphan(w, t) ==
    /\ Idle(w) /\ t <= issued
    /\ Read(w, None, t)
    /\ noted' = noted \cup {"shared"}

\* Reuse detected: the family is revoked.
Kill(w) ==
    /\ At(w, "kill")
    /\ Revoke({row[jobs[w].t].fam} \ {0})
    /\ SetJob(w, Answering(jobs[w].tab, 0))
    /\ UNCHANGED <<issued, userVars, cookie, raced, noted>>

\* Mutant of Mark: usedAt is not written.
MarkForgotten(w) ==
    /\ At(w, "mark") /\ jobs[w].t \in Rows
    /\ SetJob(w, [jobs[w] EXCEPT !.pc = "insert"])
    /\ UNCHANGED <<rowVars, userVars, cookie, historyVars>>

\* Mutant of Mark: an upsert.
MarkUpsert(w) ==
    /\ At(w, "mark")
    /\ row' = [row EXCEPT ![jobs[w].t].st = IF @ = "revoked" THEN @ ELSE "used"]
    /\ SetJob(w, [jobs[w] EXCEPT !.pc = "insert"])
    /\ UNCHANGED <<issued, userVars, cookie, historyVars>>

\* usedAt, by primary key: whatever has happened to the token since it was read.
Mark(w) ==
    /\ At(w, "mark") /\ jobs[w].t \in Rows
    /\ row' = [row EXCEPT ![jobs[w].t].st = IF @ = "revoked" THEN @ ELSE "used"]
    /\ SetJob(w, [jobs[w] EXCEPT !.pc = "insert"])
    /\ UNCHANGED <<issued, userVars, cookie, historyVars>>

\* The successor.
Succeed(w) ==
    LET t == jobs[w].t IN
    /\ At(w, "insert") /\ Insertable /\ t \in Rows
    /\ Insert(row[t].fam, row[t].born)
    /\ SetJob(w, Answering(jobs[w].tab, issued + 1))
    /\ UNCHANGED <<userVars, cookie, historyVars>>

\* The answer reaches the tab: the cookie is replaced, or cleared on a 401.
Answer(w) ==
    /\ At(w, "answer")
    /\ cookie' = IF exists THEN jobs[w].t ELSE 0
    /\ SetJob(w, NoJob)
    /\ UNCHANGED <<rowVars, userVars, historyVars>>

\* A request or its answer is lost, or ends in an error or a crash.
Lose(w) ==
    /\ ~Idle(w)
    /\ noted' = noted \cup (IF jobs[w].tab # None THEN {"shared"} ELSE {})
                      \cup (IF At(w, "revokeAll") THEN {"outdated"} ELSE {})
    /\ SetJob(w, NoJob)
    /\ UNCHANGED <<rowVars, userVars, cookie, escaped, raced>>

-----------------------------------------------------------------------------
(* Ending sessions *)

\* logout revokes the family of the cookie.
Logout(w) ==
    /\ Idle(w) /\ cookie # 0
    /\ Revoke({row[cookie].fam} \ {0})
    /\ cookie' = 0
    /\ UNCHANGED <<issued, userVars, raced, noted, jobs>>

\* updatePassword verified the current password ...
ChangeRead(w) ==
    /\ Idle(w) /\ exists /\ issued > 0
    /\ SetJob(w, [NoJob EXCEPT !.pc = "change"])
    /\ UNCHANGED <<rowVars, userVars, cookie, historyVars>>

\* Mutant of ChangePassword: the sessions stay.
ChangePasswordAlone(w) ==
    /\ At(w, "change") /\ exists /\ newest < MaxPasswords
    /\ pw' = newest + 1 /\ newest' = newest + 1 /\ legacy' = FALSE
    /\ cookie' = 0
    /\ SetJob(w, NoJob)
    /\ UNCHANGED <<rowVars, exists, link, historyVars>>

\* ... and sets the new one and revokes every family in one transaction.
ChangePassword(w) ==
    /\ At(w, "change") /\ exists /\ newest < MaxPasswords
    /\ pw' = newest + 1 /\ newest' = newest + 1 /\ legacy' = FALSE
    /\ Revoke(Families)
    /\ cookie' = 0
    /\ SetJob(w, NoJob)
    /\ UNCHANGED <<issued, exists, link, raced, noted>>

\* forgotPassword: a new link replaces the one before.
Forgot ==
    /\ exists /\ ~link /\ newest < MaxPasswords
    /\ link' = TRUE
    /\ UNCHANGED <<rowVars, exists, pw, newest, legacy, cookie, jobs, historyVars>>

\* resetPassword found the account of the link ...
ResetRead(w) ==
    /\ Idle(w) /\ exists /\ link
    /\ SetJob(w, [NoJob EXCEPT !.pc = "reset"])
    /\ UNCHANGED <<rowVars, userVars, cookie, historyVars>>

\* ... sets the password by primary key, which uses the link up ...
ResetSet(w) ==
    /\ At(w, "reset") /\ exists /\ newest < MaxPasswords
    /\ pw' = newest + 1 /\ newest' = newest + 1 /\ legacy' = FALSE /\ link' = FALSE
    /\ SetJob(w, [jobs[w] EXCEPT !.pc = "revokeAll"])
    /\ UNCHANGED <<rowVars, exists, cookie, historyVars>>

\* ... and revokes every family in another statement.
ResetRevoke(w) ==
    /\ At(w, "revokeAll")
    /\ Revoke(Families)
    /\ SetJob(w, NoJob)
    /\ UNCHANGED <<issued, userVars, cookie, raced, noted>>

\* deleteAccount is a serializable transaction: a token inserted since its
\* snapshot keeps the user, by the foreign key, and a row changed since is a
\* serialization failure, so it takes effect in one step or not at all.
DeleteAccount ==
    /\ exists
    /\ row' = [t \in Tokens |-> NoRow]
    /\ exists' = FALSE
    /\ legacy' = FALSE /\ link' = FALSE
    /\ UNCHANGED <<issued, pw, newest, cookie, jobs, historyVars>>

-----------------------------------------------------------------------------
(* Specification *)

Requests(w) ==
    \/ LoginRead(w) \/ Upgrade(w) \/ Issue(w)
    \/ \E tab \in Tabs : SendRefresh(w, tab)
    \/ RotateRead(w) \/ (\E t \in Tokens : RotateOrphan(w, t))
    \/ Kill(w) \/ Mark(w) \/ Succeed(w) \/ Answer(w) \/ Lose(w)
    \/ Logout(w)
    \/ ChangeRead(w) \/ ChangePassword(w)
    \/ ResetRead(w) \/ ResetSet(w) \/ ResetRevoke(w)

Next == (\E w \in Workers : Requests(w)) \/ Forgot \/ DeleteAccount

Spec == Init /\ [][Next]_vars

-----------------------------------------------------------------------------
(* Properties *)

\* A family has two usable tokens only if two rotations read one token before
\* either marked it: whatever else overlaps, is retried or is stolen, a family
\* is one chain.
ForkNeedsRace ==
    \A f \in Tokens : Cardinality(LiveIn(f)) > 1 => f \in raced

\* A family that was revoked, by logout, reuse, a new password or a reset, has
\* no usable token, unless a rotation in it was under way at that moment.
EndedStaysEnded ==
    \A t \in Rows : row[t].st = "revoked" /\ row[t].fam \notin escaped => LiveIn(row[t].fam) = {}

\* The ways a session opened with an older password can outlast a new one: a
\* login that had verified the older one, a reset cut off before it revoked, a
\* login that wrote the older hash back, and a rotation under way.  A deleted
\* account leaves no session, and no request that was under way brings one back.
SessionsFollowAccount ==
    /\ "outdated" \notin noted /\ (\A w \in Workers : ~At(w, "revokeAll"))
       => \A t \in Tokens : Live(t) /\ row[t].fam \notin escaped => row[t].born = pw
    /\ ~exists => Rows = {}

\* Reuse detection never comes to revoke the session of a browser that works in
\* one tab at a time and gets its answers.
AlarmNeedsCause ==
    "shared" \notin noted => \A w \in Workers : ~At(w, "kill")
=============================================================================
