--------------------------- MODULE SessionsProofs ---------------------------
(***************************************************************************)
(* A session that was ended stays ended, and sessions follow the password  *)
(* and the account; a family of tokens is one chain, and reuse detection   *)
(* has a cause; and what people own is their own.  All of it for any       *)
(* number of tokens, passwords, tabs, people, orders and requests, with    *)
(* the exceptions that the properties name.                                *)
(***************************************************************************)
EXTENDS Customers, FiniteSetTheorems, TLAPS

-----------------------------------------------------------------------------
(* The inductive invariant *)

\* Some token of the family was revoked.
Ended(f) == \E t \in Tokens : row[t].fam = f /\ row[t].st = "revoked"

\* None of the ways in which an older password outlasts a new one was taken.
InDate == "outdated" \notin noted /\ \A w \in Workers : ~At(w, "revokeAll")

\* What a usable token may rest on: its family goes on, under the present password.
Current(t) ==
    row[t].fam \notin escaped => ~Ended(row[t].fam) /\ (InDate => row[t].born = pw)

RowsOK ==
    /\ \A t \in Tokens : t > issued => row[t] = NoRow
    /\ \A t \in Tokens : row[t].fam <= issued
    /\ ~exists => \A t \in Tokens : row[t] = NoRow

\* A rotation rests on the token it has read, as long as that is there.
JobOK(job) ==
    /\ job.pc = "upgrade" => job.pw \in Passwords
    /\ job.pc \in {"arrive", "kill"} => job.t \in Tokens
    /\ job.pc \in {"mark", "insert"} =>
         job.t \in Tokens /\ (row[job.t].st # "absent" => Current(job.t))

SessionInv ==
    /\ TypeOK
    /\ RowsOK
    /\ \A t \in Tokens : Live(t) => Current(t)
    /\ \A w \in Workers : JobOK(jobs[w])

LEMMA SessionInitially == Init => SessionInv
<1> SUFFICES ASSUME Init PROVE SessionInv
  OBVIOUS
<1>1. TypeOK
  <2>1. NoRow \in Row /\ NoJob \in Job /\ NoRow.fam = 0 /\ NoRow.st = "absent"
    BY DEF NoRow, Row, NoJob, Job
  <2>2. 1 \in Passwords /\ 0 \in 0..MaxTokens
    BY SessionAssumption DEF Passwords
  <2> QED
    BY <2>1, <2>2 DEF Init, TypeOK
<1>2. RowsOK /\ \A t \in Tokens : ~Live(t)
  BY SessionAssumption DEF Init, RowsOK, Live, NoRow, Tokens
<1>3. \A w \in Workers : JobOK(jobs[w])
  BY DEF Init, JobOK, NoJob
<1> QED
  BY <1>1, <1>2, <1>3 DEF SessionInv

\* What the invariant says is what the run checks.
LEMMA SessionInvEnds == SessionInv => EndedStaysEnded
<1> SUFFICES ASSUME SessionInv, NEW t \in Tokens, row[t].st = "revoked",
                    row[t].fam \notin escaped, NEW u \in Tokens,
                    row[u].fam = row[t].fam, Live(u)
             PROVE  FALSE
  BY DEF EndedStaysEnded, Rows, LiveIn
<1>1. Current(u)
  BY DEF SessionInv
<1> QED
  BY <1>1 DEF Current, Ended

LEMMA SessionInvFollows == SessionInv => SessionsFollowAccount
BY DEF SessionInv, SessionsFollowAccount, Current, InDate, RowsOK, Rows, NoRow

-----------------------------------------------------------------------------
(* Steps by what they do to the tokens *)

\* Nothing that a token rests on changes.
LEMMA CurrentStays ==
    ASSUME UNCHANGED row, escaped \subseteq escaped', InDate' => InDate /\ pw' = pw,
           NEW t \in Tokens, Current(t)
    PROVE  Current(t)'
BY DEF Current, Ended

\* A step that writes no token.
LEMMA ReadStep ==
    ASSUME SessionInv, TypeOK', UNCHANGED <<row, issued, exists, escaped>>,
           NEW w \in Workers, NEW job, SetJob(w, job),
           InDate' => InDate /\ pw' = pw,
           job.pc = "upgrade" => job.pw \in Passwords,
           job.pc \in {"arrive", "kill", "mark"} => job.t \in Tokens,
           job.pc = "mark" => Live(job.t),
           job.pc # "insert"
    PROVE  SessionInv'
<1>1. \A v \in Workers : jobs'[v] = IF v = w THEN job ELSE jobs[v]
  BY DEF SetJob, SessionInv, TypeOK
<1>2. \A t \in Tokens : Current(t) => Current(t)'
  BY CurrentStays
<1>3. RowsOK' /\ \A t \in Tokens : Live(t)' => Current(t)'
  BY <1>2 DEF SessionInv, RowsOK, Live
<1>4. \A v \in Workers : JobOK(jobs[v])'
  <2> SUFFICES ASSUME NEW v \in Workers PROVE JobOK(jobs[v])'
    OBVIOUS
  <2>1. CASE v = w
    <3>1. jobs'[v] = job
      BY <1>1, <2>1
    <3>2. job.pc = "mark" => Current(job.t)'
      BY <1>2 DEF SessionInv
    <3> QED
      BY <3>1, <3>2 DEF JobOK
  <2>2. CASE v # w
    <3>1. jobs'[v] = jobs[v] /\ JobOK(jobs[v])
      BY <1>1, <2>2 DEF SessionInv
    <3> QED
      BY <1>2, <3>1 DEF JobOK
  <2> QED
    BY <2>1, <2>2
<1> QED
  BY <1>3, <1>4 DEF SessionInv

\* Families are revoked: those with a rotation under way are noted as escaped,
\* and no token of the others changes.
LEMMA RevokeStep ==
    ASSUME SessionInv, TypeOK', NEW fs, 0 \notin fs, Revoke(fs), UNCHANGED <<issued, exists>>,
           (InDate' => InDate /\ pw' = pw) \/ Families \subseteq fs,
           NEW w \in Workers, NEW job, jobs' = jobs \/ SetJob(w, job),
           job.pc \notin {"upgrade", "arrive", "kill", "mark", "insert"}
    PROVE  SessionInv'
<1>1. \A v \in Workers : jobs'[v] = jobs[v] \/ jobs'[v] = job
  BY DEF SetJob, SessionInv, TypeOK
<1>2. \A t \in Tokens :
         row'[t] = IF row[t].fam \in fs THEN [row[t] EXCEPT !.st = "revoked", !.born = 0]
                   ELSE row[t]
  BY DEF Revoke
<1>10. escaped' = escaped \cup {f \in fs : Rotating(f) # {}}
  BY DEF Revoke
<1>3. \A t \in Tokens : row[t] \in Row /\ (row[t].fam = 0 <=> row[t].st = "absent")
  BY DEF SessionInv, TypeOK
<1>4. \A t \in Tokens : /\ row'[t].fam = row[t].fam
                        /\ row[t].fam \in fs => row'[t].st = "revoked"
                        /\ row[t].fam \notin fs => row'[t] = row[t]
  BY <1>2, <1>3 DEF Row
<1>5. \A t \in Tokens : row[t].st # "absent" => row[t].fam \in Families
  BY DEF Families, Rows
<1>6. \A t \in Tokens : row[t].fam \notin fs /\ row[t].st # "absent" /\ Current(t) => Current(t)'
  <2> SUFFICES ASSUME NEW t \in Tokens, row[t].fam \notin fs, row[t].st # "absent", Current(t),
                      row'[t].fam \notin escaped'
               PROVE  ~Ended(row[t].fam)' /\ (InDate' => row'[t].born = pw')
    BY <1>4 DEF Current
  <2>1. row[t].fam \notin escaped
    BY <1>4 DEF Revoke
  <2>2. ~Ended(row[t].fam) /\ (InDate => row[t].born = pw)
    BY <2>1 DEF Current
  <2>3. ~Ended(row[t].fam)'
    BY <1>4, <2>2 DEF Ended
  <2>4. InDate' => row'[t].born = pw'
    BY <1>4, <1>5, <2>2
  <2> QED
    BY <2>3, <2>4
<1>7. RowsOK'
  BY <1>3, <1>4 DEF SessionInv, RowsOK, NoRow, Row
<1>8. \A t \in Tokens : Live(t)' => Current(t)'
  BY <1>4, <1>6 DEF SessionInv, Live
<1>9. \A v \in Workers : JobOK(jobs[v])'
  <2> SUFFICES ASSUME NEW v \in Workers PROVE JobOK(jobs[v])'
    OBVIOUS
  <2>1. CASE jobs'[v] = job
    BY <2>1 DEF JobOK
  <2>2. CASE jobs'[v] = jobs[v]
    <3>1. JobOK(jobs[v])
      BY DEF SessionInv
    <3>2. ASSUME NEW t \in Tokens, t = jobs[v].t, jobs[v].pc \in {"mark", "insert"},
                 row'[t].st # "absent"
          PROVE  Current(t)'
      <4>1. CASE row[t].fam \in fs
        <5>1. v \in Rotating(row[t].fam)
          BY <3>2 DEF Rotating
        <5>2. row[t].fam \in escaped'
          BY <1>10, <4>1, <5>1
        <5> QED
          BY <1>4, <5>2 DEF Current
      <4>2. CASE row[t].fam \notin fs
        <5>1. row[t].st # "absent" /\ Current(t)
          BY <1>4, <3>1, <3>2, <4>2 DEF JobOK
        <5> QED
          BY <1>6, <4>2, <5>1
      <4> QED
        BY <4>1, <4>2
    <3> QED
      BY <2>2, <3>1, <3>2 DEF JobOK
  <2> QED
    BY <1>1, <2>1, <2>2
<1> QED
  BY <1>7, <1>8, <1>9 DEF SessionInv

\* A token is inserted that rests on what its family rests on.
LEMMA InsertStep ==
    ASSUME SessionInv, TypeOK', NEW n \in Tokens, n = issued + 1, NEW fam \in Tokens,
           NEW born, Insertable, Insert(fam, born),
           fam <= issued + 1,
           fam \notin escaped => ~Ended(fam) /\ (InDate' => born = pw),
           UNCHANGED <<exists, pw, escaped>>, InDate' => InDate,
           NEW w \in Workers, NEW job, SetJob(w, job),
           job.pc \notin {"upgrade", "arrive", "kill", "mark", "insert"}
    PROVE  SessionInv'
<1>1. n \in Tokens /\ row[n] = NoRow /\ exists /\ issued \in Nat /\ issued' = n
  BY DEF SessionInv, TypeOK, RowsOK, Insertable, Insert, Tokens
<1>2. row' = [row EXCEPT ![n] = [st |-> "fresh", fam |-> fam, born |-> born]]
  BY DEF Insert
<1>4. /\ row'[n].st = "fresh" /\ row'[n].fam = fam /\ row'[n].born = born
      /\ \A t \in Tokens \ {n} : row'[t] = row[t]
  BY <1>1, <1>2 DEF SessionInv, TypeOK
<1>5. \A f : Ended(f)' <=> Ended(f)
  <2>1. row[n].st # "revoked" /\ row'[n].st # "revoked"
    BY <1>1, <1>4 DEF NoRow
  <2> QED
    BY <1>4, <2>1 DEF Ended
<1>6. \A t \in Tokens \ {n} : Current(t) => Current(t)'
  BY <1>4, <1>5 DEF Current
<1>7. Current(n)'
  BY <1>1, <1>4, <1>5 DEF Current
<1>8. RowsOK'
  <2>1. \A t \in Tokens : t > n => t > issued /\ t # n
    BY <1>1 DEF Tokens
  <2>2. \A t \in Tokens : row'[t].fam <= n
    <3>1. \A t \in Tokens : row[t].fam <= issued /\ row[t].fam \in Nat
      BY DEF SessionInv, RowsOK, TypeOK, Row, Tokens
    <3>2. ASSUME NEW t \in Tokens PROVE row[t].fam <= n
      <4>1. PICK f \in Nat, i \in Nat : f = row[t].fam /\ i = issued /\ f <= i
        BY <1>1, <3>1
      <4> QED
        BY <4>1
    <3>3. fam <= n
      OBVIOUS
    <3> QED
      BY <1>4, <3>2, <3>3
  <2> QED
    BY <1>1, <1>4, <2>1, <2>2 DEF SessionInv, RowsOK
<1>9. \A t \in Tokens : Live(t)' => Current(t)'
  <2> SUFFICES ASSUME NEW t \in Tokens, Live(t)' PROVE Current(t)'
    OBVIOUS
  <2>1. CASE t = n
    BY <1>7, <2>1
  <2>2. CASE t # n
    BY <1>4, <1>6, <2>2 DEF SessionInv, Live
  <2> QED
    BY <2>1, <2>2
<1>10. \A v \in Workers : JobOK(jobs[v])'
  <2> SUFFICES ASSUME NEW v \in Workers PROVE JobOK(jobs[v])'
    OBVIOUS
  <2>1. CASE v = w
    <3>1. jobs'[v] = job
      BY <2>1 DEF SetJob, SessionInv, TypeOK
    <3> QED
      BY <3>1 DEF JobOK
  <2>2. CASE v # w
    <3>1. jobs'[v] = jobs[v] /\ JobOK(jobs[v])
      BY <2>2 DEF SetJob, SessionInv, TypeOK
    <3>2. ASSUME NEW t \in Tokens, t = jobs[v].t, jobs[v].pc \in {"mark", "insert"},
                 row'[t].st # "absent"
          PROVE  Current(t)'
      BY <1>4, <1>6, <1>7, <3>1, <3>2 DEF JobOK
    <3> QED
      BY <3>1, <3>2 DEF JobOK
  <2> QED
    BY <2>1, <2>2
<1> QED
  BY <1>8, <1>9, <1>10 DEF SessionInv

\* InDate in terms of what the steps write.
LEMMA InDateWritten ==
    /\ InDate <=> "outdated" \notin noted /\ \A v \in Workers : jobs[v].pc # "revokeAll"
    /\ InDate' <=> "outdated" \notin noted' /\ \A v \in Workers : jobs'[v].pc # "revokeAll"
BY DEF InDate, At

\* A worker that was not about to revoke, and whose step forgets nothing.
LEMMA InDateStays ==
    ASSUME TypeOK, NEW w \in Workers, NEW job, jobs[w].pc # "revokeAll", SetJob(w, job),
           noted \subseteq noted', InDate'
    PROVE  InDate
<1>1. \A v \in Workers \ {w} : jobs'[v] = jobs[v]
  BY DEF TypeOK, SetJob
<1> QED
  BY <1>1, InDateWritten

\* The token that was read is used up; a revoked one stays revoked.
LEMMA MarkStep ==
    ASSUME SessionInv, TypeOK', NEW w \in Workers, Mark(w)
    PROVE  SessionInv'
<1> DEFINE m == jobs[w].t
           job == [jobs[w] EXCEPT !.pc = "insert"]
<1>1. m \in Tokens /\ row[m].st # "absent" /\ jobs[w].pc = "mark" /\ jobs[w] \in Job
  BY DEF Mark, At, Rows, SessionInv, TypeOK
<1>2. job.pc = "insert" /\ job.t = m
  BY <1>1 DEF Job
<1>3. \A v \in Workers : jobs'[v] = IF v = w THEN job ELSE jobs[v]
  BY DEF Mark, SetJob, SessionInv, TypeOK
<1>4. \A v \in Workers : jobs'[v].pc = "revokeAll" => jobs[v].pc = "revokeAll"
  BY <1>2, <1>3
<1>5. /\ row' = [row EXCEPT ![m].st = IF @ = "revoked" THEN @ ELSE "used"]
      /\ UNCHANGED <<issued, exists, pw, escaped, noted>>
  BY DEF Mark, userVars, historyVars
<1> HIDE DEF m, job
<1>6. InDate' => InDate
  <2>1. SetJob(w, job) /\ noted \subseteq noted' /\ jobs[w].pc # "revokeAll" /\ TypeOK
    BY <1>1, <1>5 DEF Mark, SessionInv, job
  <2> QED
    BY <2>1, InDateStays
<1>7. row[m] \in Row
  BY <1>1 DEF SessionInv, TypeOK
<1>8. /\ row'[m].fam = row[m].fam /\ row'[m].born = row[m].born
      /\ row'[m].st = IF row[m].st = "revoked" THEN "revoked" ELSE "used"
      /\ \A t \in Tokens \ {m} : row'[t] = row[t]
  BY <1>1, <1>5, <1>7 DEF SessionInv, TypeOK, Row
<1>9. \A t \in Tokens : /\ row'[t].fam = row[t].fam /\ row'[t].born = row[t].born
                        /\ row'[t].st = "revoked" <=> row[t].st = "revoked"
                        /\ row'[t].st = "absent" <=> row[t].st = "absent"
                        /\ row'[t].st = "fresh" => row[t].st = "fresh"
  BY <1>1, <1>8
<1>10. \A t \in Tokens : Current(t) => Current(t)'
  BY <1>5, <1>6, <1>9 DEF Current, Ended
<1>11. RowsOK'
  <2>1. \A t \in Tokens : row[t] = NoRow => row'[t] = NoRow
    BY <1>1, <1>8 DEF NoRow
  <2> QED
    BY <1>5, <1>9, <2>1 DEF SessionInv, RowsOK
<1>12. \A t \in Tokens : Live(t)' => Current(t)'
  BY <1>9, <1>10 DEF SessionInv, Live
<1>13. \A v \in Workers : JobOK(jobs[v])'
  <2> SUFFICES ASSUME NEW v \in Workers PROVE JobOK(jobs[v])'
    OBVIOUS
  <2>1. CASE v = w
    <3>1. jobs'[v] = job /\ JobOK(jobs[w])
      BY <1>3, <2>1 DEF SessionInv
    <3>2. Current(m)
      BY <1>1, <3>1 DEF JobOK, m
    <3> QED
      BY <1>1, <1>2, <1>10, <3>1, <3>2 DEF JobOK
  <2>2. CASE v # w
    <3>1. jobs'[v] = jobs[v] /\ JobOK(jobs[v])
      BY <1>3, <2>2 DEF SessionInv
    <3>2. ASSUME NEW t \in Tokens, t = jobs[v].t, jobs[v].pc \in {"mark", "insert"},
                 row'[t].st # "absent"
          PROVE  Current(t)'
      BY <1>9, <1>10, <3>1, <3>2 DEF JobOK
    <3> QED
      BY <3>1, <3>2 DEF JobOK
  <2> QED
    BY <2>1, <2>2
<1> QED
  BY <1>11, <1>12, <1>13 DEF SessionInv

\* The account goes, and every token with it.
LEMMA DeleteStep ==
    ASSUME SessionInv, TypeOK', DeleteAccount
    PROVE  SessionInv'
<1>1. /\ row' = [t \in Tokens |-> NoRow] /\ UNCHANGED <<issued, jobs>> /\ exists' = FALSE
      /\ NoRow.st = "absent" /\ NoRow.fam = 0
  BY DEF DeleteAccount, NoRow
<1>2. RowsOK'
  BY <1>1 DEF SessionInv, TypeOK, RowsOK
<1>3. \A t \in Tokens : row'[t].st = "absent"
  BY <1>1
<1>4. \A t \in Tokens : ~Live(t)'
  BY <1>3 DEF Live
<1>5. \A v \in Workers : JobOK(jobs[v])'
  BY <1>1, <1>3 DEF SessionInv, JobOK
<1> QED
  BY <1>2, <1>4, <1>5 DEF SessionInv

-----------------------------------------------------------------------------
(* The actions *)

\* The records that jobs are set to.
LEMMA NoJobType == NoJob \in Job /\ NoJob.pc = "idle"
BY DEF NoJob, Job

LEMMA PresentedType ==
    ASSUME NEW tab \in Tabs \cup {None}, NEW t \in Tokens \cup {0},
           NEW pc \in {"arrive", "kill", "mark", "answer"}
    PROVE  LET job == [NoJob EXCEPT !.pc = pc, !.tab = tab, !.t = t] IN
           job \in Job /\ job.pc = pc /\ job.t = t
BY DEF NoJob, Job

LEMMA AnsweringType ==
    ASSUME NEW tab \in Tabs \cup {None}, NEW t \in Tokens \cup {0}
    PROVE  Answering(tab, t) \in Job /\ Answering(tab, t).pc \in {"idle", "answer"}
BY NoJobType, PresentedType DEF Answering

LEMMA BegunType ==
    ASSUME NEW pc \in {"change", "reset"}
    PROVE  LET job == [NoJob EXCEPT !.pc = pc] IN job \in Job /\ job.pc = pc
BY DEF NoJob, Job

LEMMA LoginType ==
    ASSUME NEW pc \in {"issue", "upgrade"}, NEW n \in Passwords
    PROVE  LET job == [NoJob EXCEPT !.pc = pc, !.pw = n] IN
           job \in Job /\ job.pc = pc /\ job.pw = n
BY DEF NoJob, Job

LEMMA OnType ==
    ASSUME NEW j \in Job, NEW pc \in {"issue", "insert", "revokeAll"}
    PROVE  LET job == [j EXCEPT !.pc = pc] IN
           job \in Job /\ job.pc = pc /\ job.t = j.t /\ job.pw = j.pw
BY DEF Job

\* Types of a step that writes no token.
LEMMA TypesRead ==
    ASSUME TypeOK, UNCHANGED <<row, issued, exists, escaped>>, NEW w \in Workers,
           NEW job \in Job, SetJob(w, job),
           pw' \in Passwords /\ newest' \in Passwords /\ legacy' \in BOOLEAN
             /\ link' \in BOOLEAN,
           cookie' \in Tokens \cup {0}, raced' \subseteq Tokens, noted' \subseteq Notes
    PROVE  TypeOK'
<1>1. jobs' \in [Workers -> Job]
  BY DEF TypeOK, SetJob
<1> QED
  BY <1>1 DEF TypeOK

\* Types of a revocation.
LEMMA TypesRevoke ==
    ASSUME TypeOK, NEW fs, 0 \notin fs, fs \subseteq Tokens, Revoke(fs), jobs' \in [Workers -> Job],
           UNCHANGED <<issued, exists, link, raced, noted>>,
           pw' \in Passwords /\ newest' \in Passwords /\ legacy' \in BOOLEAN,
           cookie' \in Tokens \cup {0}
    PROVE  TypeOK'
<1>1. \A t \in Tokens : row[t] \in Row /\ (row[t].fam = 0 <=> row[t].st = "absent")
  BY DEF TypeOK
<1>2. \A t \in Tokens :
        LET r == [row[t] EXCEPT !.st = "revoked", !.born = 0] IN
        r \in Row /\ r.st = "revoked" /\ r.fam = row[t].fam
  <2> SUFFICES ASSUME NEW t \in Tokens
               PROVE  LET r == [row[t] EXCEPT !.st = "revoked", !.born = 0] IN
                      r \in Row /\ r.st = "revoked" /\ r.fam = row[t].fam
    OBVIOUS
  <2>1. row[t] \in Row
    BY <1>1
  <2> QED
    BY <2>1 DEF Row
<1>3. row' \in [Tokens -> Row]
  BY <1>1, <1>2 DEF Revoke
<1>4. \A t \in Tokens : row'[t].fam = 0 <=> row'[t].st = "absent"
  <2> SUFFICES ASSUME NEW t \in Tokens PROVE row'[t].fam = 0 <=> row'[t].st = "absent"
    OBVIOUS
  <2>1. CASE row[t].fam \in fs
    <3>1. row'[t] = [row[t] EXCEPT !.st = "revoked", !.born = 0]
      BY <2>1 DEF Revoke
    <3> QED
      BY <1>2, <2>1, <3>1
  <2>2. CASE row[t].fam \notin fs
    <3>1. row'[t] = row[t]
      BY <2>2 DEF Revoke
    <3> QED
      BY <1>1, <3>1
  <2> QED
    BY <2>1, <2>2
<1>5. escaped' \subseteq Tokens
  BY DEF Revoke, TypeOK
<1> QED
  BY <1>3, <1>4, <1>5 DEF TypeOK

\* Types of an insertion.
LEMMA TypesInsert ==
    ASSUME TypeOK, RowsOK, NEW fam \in Tokens, NEW born \in Passwords \cup {0}, Insertable,
           Insert(fam, born), jobs' \in [Workers -> Job],
           UNCHANGED <<userVars, escaped, raced>>,
           cookie' \in Tokens \cup {0}, noted' \subseteq Notes
    PROVE  TypeOK' /\ issued + 1 \in Tokens
<1>1. issued + 1 \in Tokens /\ issued' \in 0..MaxTokens
  BY SessionAssumption DEF TypeOK, Insertable, Insert, Tokens
<1>2. LET r == [st |-> "fresh", fam |-> fam, born |-> born] IN r \in Row /\ r.fam # 0
  <2>1. fam # 0
    BY DEF Tokens
  <2> QED
    BY <2>1 DEF Row
<1>3. row' \in [Tokens -> Row]
  BY <1>1, <1>2 DEF TypeOK, Insert
<1>4. \A t \in Tokens : row'[t].fam = 0 <=> row'[t].st = "absent"
  <2> SUFFICES ASSUME NEW t \in Tokens PROVE row'[t].fam = 0 <=> row'[t].st = "absent"
    OBVIOUS
  <2>1. CASE t = issued + 1
    <3>1. row'[t] = [st |-> "fresh", fam |-> fam, born |-> born]
      BY <1>1, <2>1 DEF TypeOK, Insert
    <3> QED
      BY <1>2, <3>1
  <2>2. CASE t # issued + 1
    <3>1. row'[t] = row[t]
      BY <2>2 DEF TypeOK, Insert
    <3> QED
      BY <3>1 DEF TypeOK
  <2> QED
    BY <2>1, <2>2
<1> QED
  BY <1>1, <1>3, <1>4 DEF TypeOK, userVars

\* A step that writes no token, with its types.
LEMMA ReadingStep ==
    ASSUME SessionInv, UNCHANGED <<row, issued, exists, escaped>>, NEW w \in Workers,
           NEW job \in Job, SetJob(w, job),
           pw' \in Passwords /\ newest' \in Passwords /\ legacy' \in BOOLEAN
             /\ link' \in BOOLEAN,
           cookie' \in Tokens \cup {0}, raced' \subseteq Tokens, noted' \subseteq Notes,
           InDate' => InDate /\ pw' = pw,
           job.pc = "upgrade" => job.pw \in Passwords,
           job.pc \in {"arrive", "kill", "mark"} => job.t \in Tokens,
           job.pc = "mark" => Live(job.t),
           job.pc # "insert"
    PROVE  SessionInv'
<1>1. TypeOK
  BY DEF SessionInv
<1>2. TypeOK'
  BY <1>1, TypesRead
<1> QED
  BY <1>2, ReadStep

\* One that changes no row of the user and nothing of the browser but the cookie.
LEMMA PlainStep ==
    ASSUME SessionInv, UNCHANGED <<rowVars, userVars, escaped, raced>>, NEW w \in Workers,
           NEW job \in Job, SetJob(w, job), jobs[w].pc # "revokeAll",
           cookie' \in Tokens \cup {0}, noted \subseteq noted', noted' \subseteq Notes,
           job.pc \notin {"upgrade", "mark", "insert"},
           job.pc \in {"arrive", "kill"} => job.t \in Tokens
    PROVE  SessionInv'
<1>1. TypeOK
  BY DEF SessionInv
<1>2. /\ UNCHANGED <<row, issued, exists, escaped>>
      /\ pw' = pw /\ newest' = newest /\ legacy' = legacy /\ link' = link /\ raced' = raced
  BY DEF rowVars, userVars
<1>3. /\ pw' \in Passwords /\ newest' \in Passwords /\ legacy' \in BOOLEAN
      /\ link' \in BOOLEAN /\ raced' \subseteq Tokens
  BY <1>1, <1>2 DEF TypeOK
<1>4. InDate' => InDate /\ pw' = pw
  BY <1>1, <1>2, InDateStays
<1> QED
  BY <1>2, <1>3, <1>4, ReadingStep

LEMMA LoginReadKeeps ==
    ASSUME SessionInv, NEW w \in Workers, LoginRead(w)
    PROVE  SessionInv'
<1>1. TypeOK /\ jobs[w].pc # "revokeAll"
  BY DEF SessionInv, LoginRead, Idle
<1>2. PICK pc \in {"issue", "upgrade"} : SetJob(w, [NoJob EXCEPT !.pc = pc, !.pw = pw])
  BY DEF LoginRead
<1>3. /\ UNCHANGED <<row, issued, exists, escaped>>
      /\ pw' = pw /\ newest' = newest /\ legacy' = legacy /\ link' = link
      /\ cookie' = cookie /\ raced' = raced /\ noted' = noted
  BY DEF LoginRead, rowVars, userVars, historyVars
<1>4. pw \in Passwords
  BY <1>1 DEF TypeOK
<1> DEFINE job == [NoJob EXCEPT !.pc = pc, !.pw = pw]
<1>5. job \in Job /\ job.pc = pc /\ job.pw = pw
  BY <1>4, LoginType
<1>6. SetJob(w, job)
  BY <1>2
<1> HIDE DEF job
<1>7. InDate' => InDate /\ pw' = pw
  BY <1>1, <1>3, <1>6, InDateStays
<1>8. /\ pw' \in Passwords /\ newest' \in Passwords /\ legacy' \in BOOLEAN
      /\ link' \in BOOLEAN /\ cookie' \in Tokens \cup {0} /\ raced' \subseteq Tokens
      /\ noted' \subseteq Notes
  BY <1>1, <1>3 DEF TypeOK
<1> QED
  BY <1>3, <1>4, <1>5, <1>6, <1>7, <1>8, ReadingStep

\* The older hash is written back only with a note of it.
LEMMA UpgradeKeeps ==
    ASSUME SessionInv, NEW w \in Workers, Upgrade(w)
    PROVE  SessionInv'
<1>1. TypeOK /\ jobs[w].pc = "upgrade" /\ jobs[w] \in Job /\ jobs[w].pw \in Passwords
  BY DEF SessionInv, TypeOK, Upgrade, At, JobOK
<1> DEFINE job == [jobs[w] EXCEPT !.pc = "issue"]
<1>2. job \in Job /\ job.pc = "issue"
  BY <1>1, OnType
<1>3. /\ UNCHANGED <<row, issued, exists, escaped>> /\ SetJob(w, job)
      /\ pw' = jobs[w].pw /\ newest' = newest /\ legacy' = FALSE /\ link' = link
      /\ cookie' = cookie /\ raced' = raced
      /\ noted' = noted \cup (IF pw = jobs[w].pw THEN {} ELSE {"outdated"})
  BY DEF Upgrade, rowVars
<1> HIDE DEF job
<1>4. InDate' => InDate
  BY <1>1, <1>3, InDateStays
<1>5. InDate' => pw' = pw
  BY <1>3, InDateWritten
<1>6. /\ pw' \in Passwords /\ newest' \in Passwords /\ legacy' \in BOOLEAN
      /\ link' \in BOOLEAN /\ cookie' \in Tokens \cup {0} /\ raced' \subseteq Tokens
      /\ noted' \subseteq Notes
  BY <1>1, <1>3 DEF TypeOK, Notes
<1> QED
  BY <1>2, <1>3, <1>4, <1>5, <1>6, ReadingStep

\* A new family has no revoked token, and is opened with the password verified.
LEMMA IssueKeeps ==
    ASSUME SessionInv, NEW w \in Workers, Issue(w)
    PROVE  SessionInv'
<1> DEFINE n == issued + 1
<1>1. TypeOK /\ RowsOK /\ jobs[w].pc # "revokeAll" /\ jobs[w].pw \in Passwords \cup {0}
  BY DEF SessionInv, TypeOK, Issue, At, Job
<1>2. n \in Tokens
  BY <1>1, SessionAssumption DEF TypeOK, Issue, Insertable, Tokens
<1>3. /\ Insertable /\ Insert(n, jobs[w].pw) /\ SetJob(w, NoJob)
      /\ UNCHANGED <<userVars, escaped, raced>> /\ UNCHANGED <<exists, pw, escaped>>
      /\ cookie' \in {cookie, n}
      /\ noted' = noted \cup (IF pw = jobs[w].pw THEN {} ELSE {"outdated"})
  BY DEF Issue, userVars
<1>4. InDate' => InDate
  BY <1>1, <1>3, InDateStays
<1>5. InDate' => jobs[w].pw = pw
  BY <1>3, InDateWritten
<1>6. ~Ended(n)
  <2>1. \A t \in Tokens : row[t].fam <= issued /\ row[t].fam \in Nat /\ issued \in Nat
    BY <1>1 DEF RowsOK, TypeOK, Row, Tokens
  <2>2. \A t \in Tokens : row[t].fam # n
    BY <2>1
  <2> QED
    BY <2>2 DEF Ended
<1>7. /\ cookie' \in Tokens \cup {0} /\ noted' \subseteq Notes /\ jobs' \in [Workers -> Job]
  BY <1>1, <1>2, <1>3, NoJobType DEF TypeOK, Notes, SetJob
<1>8. n \in Int /\ n <= issued + 1
  BY <1>1 DEF TypeOK
<1>9. n = issued + 1
  OBVIOUS
<1> HIDE DEF n
<1>10. TypeOK'
  BY <1>1, <1>2, <1>3, <1>7, TypesInsert
<1> QED
  BY <1>2, <1>3, <1>4, <1>5, <1>6, <1>8, <1>9, <1>10, NoJobType, InsertStep

\* What a presented token is read as.
LEMMA PresentKeeps ==
    ASSUME SessionInv, NEW w \in Workers, NEW tab \in Tabs \cup {None}, NEW t \in Tokens,
           Read(w, tab, t), jobs[w].pc # "revokeAll", noted \subseteq noted', noted' \subseteq Notes
    PROVE  SessionInv'
<1>1. TypeOK /\ row[t] \in Row
  BY DEF SessionInv, TypeOK
<1>2. /\ UNCHANGED <<row, issued, exists, escaped>>
      /\ pw' = pw /\ newest' = newest /\ legacy' = legacy /\ link' = link /\ cookie' = cookie
  BY DEF Read, rowVars, userVars
<1>3. raced' \subseteq Tokens
  <2>1. Live(t) => row[t].fam \in Tokens
    BY <1>1 DEF Live, TypeOK, Row
  <2> QED
    BY <1>1, <2>1 DEF Read, TypeOK
<1>4. PICK job \in Job :
        /\ SetJob(w, job) /\ job.pc \in {"idle", "answer", "kill", "mark"}
        /\ job.pc \in {"kill", "mark"} => job.t = t
        /\ job.pc = "mark" => Live(t)
  <2>1. CASE row[t].st \in {"absent", "revoked"}
    <3>1. SetJob(w, Answering(tab, 0))
      BY <2>1 DEF Read, Live
    <3> QED
      BY <3>1, AnsweringType
  <2>2. CASE row[t].st = "used"
    <3> DEFINE job == [NoJob EXCEPT !.pc = "kill", !.tab = tab, !.t = t]
    <3>1. SetJob(w, job)
      BY <2>2 DEF Read, Live
    <3>2. job \in Job /\ job.pc = "kill" /\ job.t = t
      BY PresentedType
    <3> QED
      BY <3>1, <3>2
  <2>3. CASE row[t].st = "fresh"
    <3> DEFINE job == [NoJob EXCEPT !.pc = "mark", !.tab = tab, !.t = t]
    <3>1. SetJob(w, job)
      BY <2>3 DEF Read, Live
    <3>2. job \in Job /\ job.pc = "mark" /\ job.t = t
      BY PresentedType
    <3> QED
      BY <2>3, <3>1, <3>2 DEF Live
  <2> QED
    BY <1>1, <2>1, <2>2, <2>3 DEF Row
<1>5. InDate' => InDate /\ pw' = pw
  BY <1>1, <1>2, <1>4, InDateStays
<1>6. /\ pw' \in Passwords /\ newest' \in Passwords /\ legacy' \in BOOLEAN
      /\ link' \in BOOLEAN /\ cookie' \in Tokens \cup {0}
  BY <1>1, <1>2 DEF TypeOK
<1> QED
  BY <1>2, <1>3, <1>4, <1>5, <1>6, ReadingStep

LEMMA RotateReadKeeps ==
    ASSUME SessionInv, NEW w \in Workers, RotateRead(w)
    PROVE  SessionInv'
<1>1. TypeOK /\ JobOK(jobs[w]) /\ jobs[w] \in Job /\ jobs[w].pc = "arrive"
  BY DEF SessionInv, TypeOK, RotateRead, At
<1>2. jobs[w].tab \in Tabs \cup {None} /\ jobs[w].t \in Tokens
  BY <1>1 DEF JobOK, Job
<1>3. noted \subseteq noted' /\ noted' \subseteq Notes
  BY <1>1 DEF RotateRead, TypeOK
<1>4. Read(w, jobs[w].tab, jobs[w].t)
  BY DEF RotateRead
<1> QED
  BY <1>1, <1>2, <1>3, <1>4, PresentKeeps

LEMMA RotateOrphanKeeps ==
    ASSUME SessionInv, NEW w \in Workers, NEW t \in Tokens, RotateOrphan(w, t)
    PROVE  SessionInv'
<1>1. TypeOK /\ jobs[w].pc # "revokeAll" /\ Read(w, None, t)
  BY DEF SessionInv, RotateOrphan, Idle
<1>2. noted \subseteq noted' /\ noted' \subseteq Notes
  BY <1>1 DEF RotateOrphan, TypeOK, Notes
<1> QED
  BY <1>1, <1>2, PresentKeeps

LEMMA SendRefreshKeeps ==
    ASSUME SessionInv, NEW w \in Workers, NEW tab \in Tabs, SendRefresh(w, tab)
    PROVE  SessionInv'
<1> DEFINE job == [NoJob EXCEPT !.pc = "arrive", !.tab = tab, !.t = cookie]
<1>1. TypeOK /\ jobs[w].pc # "revokeAll" /\ cookie \in Tokens
  BY DEF SessionInv, TypeOK, SendRefresh, Idle
<1>2. job \in Job /\ job.pc = "arrive" /\ job.t = cookie
  <2>1. tab \in Tabs \cup {None} /\ cookie \in Tokens \cup {0}
    BY <1>1
  <2>2. "arrive" \in {"arrive", "kill", "mark", "answer"}
    OBVIOUS
  <2> QED
    BY <2>1, <2>2, PresentedType
<1>3. SetJob(w, job) /\ UNCHANGED <<rowVars, userVars, escaped, raced>> /\ cookie' = cookie
  BY DEF SendRefresh
<1>4. noted \subseteq noted' /\ noted' \subseteq Notes
  BY <1>1 DEF SendRefresh, TypeOK, Notes
<1> HIDE DEF job
<1> QED
  BY <1>1, <1>2, <1>3, <1>4, PlainStep

LEMMA AnswerKeeps ==
    ASSUME SessionInv, NEW w \in Workers, Answer(w)
    PROVE  SessionInv'
<1>1. TypeOK /\ jobs[w].pc # "revokeAll" /\ jobs[w] \in Job
  BY DEF SessionInv, TypeOK, Answer, At
<1>2. /\ SetJob(w, NoJob) /\ UNCHANGED <<rowVars, userVars, escaped, raced>>
      /\ cookie' \in {jobs[w].t, 0} /\ noted' = noted
  BY DEF Answer, historyVars
<1>3. cookie' \in Tokens \cup {0} /\ noted' \subseteq Notes /\ noted \subseteq noted'
  BY <1>1, <1>2 DEF Job, TypeOK
<1> QED
  BY <1>1, <1>2, <1>3, NoJobType, PlainStep

\* A reset that is lost before it revoked is noted.
LEMMA LoseKeeps ==
    ASSUME SessionInv, NEW w \in Workers, Lose(w)
    PROVE  SessionInv'
<1>1. TypeOK
  BY DEF SessionInv
<1>2. /\ SetJob(w, NoJob) /\ UNCHANGED <<row, issued, exists, escaped>>
      /\ pw' = pw /\ newest' = newest /\ legacy' = legacy /\ link' = link
      /\ cookie' = cookie /\ raced' = raced
      /\ noted \subseteq noted' /\ noted' \subseteq noted \cup Notes
      /\ jobs[w].pc = "revokeAll" => "outdated" \in noted'
  BY DEF Lose, rowVars, userVars, Notes, At
<1>3. InDate' => InDate
  <2>1. CASE jobs[w].pc = "revokeAll"
    BY <1>2, <2>1, InDateWritten
  <2>2. CASE jobs[w].pc # "revokeAll"
    BY <1>1, <1>2, <2>2, InDateStays
  <2> QED
    BY <2>1, <2>2
<1>4. /\ pw' \in Passwords /\ newest' \in Passwords /\ legacy' \in BOOLEAN
      /\ link' \in BOOLEAN /\ cookie' \in Tokens \cup {0} /\ raced' \subseteq Tokens
      /\ noted' \subseteq Notes
  BY <1>1, <1>2 DEF TypeOK
<1> QED
  BY <1>2, <1>3, <1>4, NoJobType, ReadingStep

LEMMA ChangeReadKeeps ==
    ASSUME SessionInv, NEW w \in Workers, ChangeRead(w)
    PROVE  SessionInv'
<1> DEFINE job == [NoJob EXCEPT !.pc = "change"]
<1>1. TypeOK /\ jobs[w].pc # "revokeAll"
  BY DEF SessionInv, ChangeRead, Idle
<1>2. job \in Job /\ job.pc = "change"
  BY BegunType
<1>3. /\ SetJob(w, job) /\ UNCHANGED <<rowVars, userVars, escaped, raced>>
      /\ cookie' = cookie /\ noted' = noted
  BY DEF ChangeRead, historyVars
<1>4. cookie' \in Tokens \cup {0} /\ noted \subseteq noted' /\ noted' \subseteq Notes
  BY <1>1, <1>3 DEF TypeOK
<1> HIDE DEF job
<1> QED
  BY <1>1, <1>2, <1>3, <1>4, PlainStep

LEMMA ResetReadKeeps ==
    ASSUME SessionInv, NEW w \in Workers, ResetRead(w)
    PROVE  SessionInv'
<1> DEFINE job == [NoJob EXCEPT !.pc = "reset"]
<1>1. TypeOK /\ jobs[w].pc # "revokeAll"
  BY DEF SessionInv, ResetRead, Idle
<1>2. job \in Job /\ job.pc = "reset"
  BY BegunType
<1>3. /\ SetJob(w, job) /\ UNCHANGED <<rowVars, userVars, escaped, raced>>
      /\ cookie' = cookie /\ noted' = noted
  BY DEF ResetRead, historyVars
<1>4. cookie' \in Tokens \cup {0} /\ noted \subseteq noted' /\ noted' \subseteq Notes
  BY <1>1, <1>3 DEF TypeOK
<1> HIDE DEF job
<1> QED
  BY <1>1, <1>2, <1>3, <1>4, PlainStep

\* Until a reset has revoked, nothing is said of the sessions.
LEMMA ResetSetKeeps ==
    ASSUME SessionInv, NEW w \in Workers, ResetSet(w)
    PROVE  SessionInv'
<1> DEFINE job == [jobs[w] EXCEPT !.pc = "revokeAll"]
<1>1. TypeOK /\ jobs[w] \in Job
  BY DEF SessionInv, TypeOK
<1>2. job \in Job /\ job.pc = "revokeAll"
  BY <1>1, OnType
<1>3. /\ SetJob(w, job) /\ UNCHANGED <<row, issued, exists, escaped>>
      /\ pw' = newest + 1 /\ newest' = newest + 1 /\ legacy' = FALSE /\ link' = FALSE
      /\ cookie' = cookie /\ raced' = raced /\ noted' = noted /\ newest < MaxPasswords
  BY DEF ResetSet, rowVars, historyVars
<1> HIDE DEF job
<1>4. newest + 1 \in Passwords
  BY <1>1, <1>3, SessionAssumption DEF TypeOK, Passwords
<1>5. jobs'[w] = job
  BY <1>1, <1>3 DEF SetJob, TypeOK
<1>6. ~InDate'
  BY <1>2, <1>5, InDateWritten
<1>7. /\ pw' \in Passwords /\ newest' \in Passwords /\ legacy' \in BOOLEAN
      /\ link' \in BOOLEAN /\ cookie' \in Tokens \cup {0} /\ raced' \subseteq Tokens
      /\ noted' \subseteq Notes
  BY <1>1, <1>3, <1>4 DEF TypeOK
<1> QED
  BY <1>2, <1>3, <1>6, <1>7, ReadingStep

LEMMA FamiliesType == TypeOK => 0 \notin Families /\ Families \subseteq Tokens
BY DEF TypeOK, Families, Rows, Row

LEMMA KillKeeps ==
    ASSUME SessionInv, NEW w \in Workers, Kill(w)
    PROVE  SessionInv'
<1> DEFINE fs == {row[jobs[w].t].fam} \ {0}
           job == Answering(jobs[w].tab, 0)
<1>1. /\ TypeOK /\ JobOK(jobs[w]) /\ jobs[w] \in Job /\ jobs[w].pc = "kill"
  BY DEF SessionInv, TypeOK, Kill, At
<1>2. jobs[w].t \in Tokens /\ jobs[w].tab \in Tabs \cup {None}
  BY <1>1 DEF JobOK, Job
<1>3. 0 \notin fs /\ fs \subseteq Tokens
  BY <1>1, <1>2 DEF TypeOK, Row
<1>4. job \in Job /\ job.pc \in {"idle", "answer"}
  BY <1>2, AnsweringType
<1>5. /\ Revoke(fs) /\ SetJob(w, job) /\ UNCHANGED <<issued, exists, link, raced, noted>>
      /\ pw' = pw /\ newest' = newest /\ legacy' = legacy /\ cookie' = cookie
  BY DEF Kill, userVars
<1> HIDE DEF fs, job
<1>6. InDate' => InDate /\ pw' = pw
  BY <1>1, <1>5, InDateStays
<1>7. jobs' \in [Workers -> Job]
  BY <1>1, <1>4, <1>5 DEF TypeOK, SetJob
<1>8. TypeOK'
  <2>1. /\ pw' \in Passwords /\ newest' \in Passwords /\ legacy' \in BOOLEAN
        /\ cookie' \in Tokens \cup {0}
    BY <1>1, <1>5 DEF TypeOK
  <2> QED
    BY <1>1, <1>3, <1>5, <1>7, <2>1, TypesRevoke
<1> QED
  BY <1>3, <1>4, <1>5, <1>6, <1>8, RevokeStep

LEMMA LogoutKeeps ==
    ASSUME SessionInv, NEW w \in Workers, Logout(w)
    PROVE  SessionInv'
<1> DEFINE fs == {row[cookie].fam} \ {0}
<1>1. TypeOK /\ cookie \in Tokens
  BY DEF SessionInv, TypeOK, Logout
<1>2. 0 \notin fs /\ fs \subseteq Tokens
  BY <1>1 DEF TypeOK, Row
<1>3. /\ Revoke(fs) /\ jobs' = jobs /\ UNCHANGED <<issued, exists, link, raced, noted>>
      /\ pw' = pw /\ newest' = newest /\ legacy' = legacy /\ cookie' = 0
  BY DEF Logout, userVars
<1> HIDE DEF fs
<1>4. InDate' => InDate /\ pw' = pw
  BY <1>3, InDateWritten
<1>5. TypeOK'
  <2>1. /\ pw' \in Passwords /\ newest' \in Passwords /\ legacy' \in BOOLEAN
        /\ cookie' \in Tokens \cup {0} /\ jobs' \in [Workers -> Job]
    BY <1>1, <1>3 DEF TypeOK
  <2> QED
    BY <1>1, <1>2, <1>3, <2>1, TypesRevoke
<1> QED
  BY <1>2, <1>3, <1>4, <1>5, NoJobType, RevokeStep

\* The password and every family go together.
LEMMA ChangePasswordKeeps ==
    ASSUME SessionInv, NEW w \in Workers, ChangePassword(w)
    PROVE  SessionInv'
<1>1. TypeOK /\ 0 \notin Families /\ Families \subseteq Tokens
  BY FamiliesType DEF SessionInv
<1>2. /\ Revoke(Families) /\ SetJob(w, NoJob) /\ UNCHANGED <<issued, exists, link, raced, noted>>
      /\ pw' = newest + 1 /\ newest' = newest + 1 /\ legacy' = FALSE /\ cookie' = 0
      /\ newest < MaxPasswords
  BY DEF ChangePassword
<1>3. newest + 1 \in Passwords
  BY <1>1, <1>2, SessionAssumption DEF TypeOK, Passwords
<1>4. jobs' \in [Workers -> Job]
  BY <1>1, <1>2, NoJobType DEF TypeOK, SetJob
<1>5. TypeOK'
  <2>1. /\ pw' \in Passwords /\ newest' \in Passwords /\ legacy' \in BOOLEAN
        /\ cookie' \in Tokens \cup {0}
    BY <1>2, <1>3
  <2> QED
    BY <1>1, <1>2, <1>4, <2>1, TypesRevoke
<1> QED
  BY <1>1, <1>2, <1>5, NoJobType, RevokeStep

LEMMA ResetRevokeKeeps ==
    ASSUME SessionInv, NEW w \in Workers, ResetRevoke(w)
    PROVE  SessionInv'
<1>1. TypeOK /\ 0 \notin Families /\ Families \subseteq Tokens
  BY FamiliesType DEF SessionInv
<1>2. /\ Revoke(Families) /\ SetJob(w, NoJob) /\ UNCHANGED <<issued, exists, link, raced, noted>>
      /\ pw' = pw /\ newest' = newest /\ legacy' = legacy /\ cookie' = cookie
  BY DEF ResetRevoke, userVars
<1>3. jobs' \in [Workers -> Job]
  BY <1>1, <1>2, NoJobType DEF TypeOK, SetJob
<1>4. TypeOK'
  <2>1. /\ pw' \in Passwords /\ newest' \in Passwords /\ legacy' \in BOOLEAN
        /\ cookie' \in Tokens \cup {0}
    BY <1>1, <1>2 DEF TypeOK
  <2> QED
    BY <1>1, <1>2, <1>3, <2>1, TypesRevoke
<1> QED
  BY <1>1, <1>2, <1>4, NoJobType, RevokeStep

LEMMA MarkKeeps ==
    ASSUME SessionInv, NEW w \in Workers, Mark(w)
    PROVE  SessionInv'
<1> DEFINE m == jobs[w].t
           st == IF row[m].st = "revoked" THEN "revoked" ELSE "used"
<1>1. /\ TypeOK /\ m \in Tokens /\ row[m].st # "absent" /\ jobs[w] \in Job
  BY DEF Mark, At, Rows, SessionInv, TypeOK
<1>2. [jobs[w] EXCEPT !.pc = "insert"] \in Job
  BY <1>1, OnType
<1>3. jobs' \in [Workers -> Job]
  BY <1>1, <1>2 DEF Mark, SetJob, TypeOK
<1>4. row[m] \in Row /\ row[m].fam # 0
  BY <1>1 DEF TypeOK
<1>5. row' = [row EXCEPT ![m] = [row[m] EXCEPT !.st = st]]
  BY <1>1 DEF Mark, TypeOK
<1>6. LET r == [row[m] EXCEPT !.st = st] IN r \in Row /\ r.fam = row[m].fam /\ r.st = st
  BY <1>4 DEF Row
<1>7. st # "absent"
  OBVIOUS
<1> HIDE DEF m, st
<1>8. row' \in [Tokens -> Row]
  BY <1>1, <1>5, <1>6 DEF TypeOK
<1>9. \A t \in Tokens : row'[t].fam = 0 <=> row'[t].st = "absent"
  <2> SUFFICES ASSUME NEW t \in Tokens PROVE row'[t].fam = 0 <=> row'[t].st = "absent"
    OBVIOUS
  <2>1. CASE t = m
    <3>1. row'[t] = [row[m] EXCEPT !.st = st]
      BY <1>1, <1>5, <2>1 DEF TypeOK
    <3> QED
      BY <1>4, <1>6, <1>7, <3>1
  <2>2. CASE t # m
    <3>1. row'[t] = row[t]
      BY <1>1, <1>5, <2>2 DEF TypeOK
    <3> QED
      BY <1>1, <3>1 DEF TypeOK
  <2> QED
    BY <2>1, <2>2
<1>10. TypeOK'
  <2>1. UNCHANGED <<issued, exists, pw, newest, legacy, link, cookie, escaped, raced, noted>>
    BY DEF Mark, userVars, historyVars
  <2> QED
    BY <1>1, <1>3, <1>8, <1>9, <2>1 DEF TypeOK
<1> QED
  BY <1>10, MarkStep

\* The successor rests on what the token that was read rests on.
LEMMA SucceedKeeps ==
    ASSUME SessionInv, NEW w \in Workers, Succeed(w)
    PROVE  SessionInv'
<1> DEFINE n == issued + 1
           m == jobs[w].t
           job == Answering(jobs[w].tab, n)
<1>1. /\ TypeOK /\ RowsOK /\ JobOK(jobs[w]) /\ jobs[w] \in Job /\ jobs[w].pc = "insert"
      /\ Insertable
  BY DEF SessionInv, TypeOK, Succeed, At
<1>2. n \in Tokens
  BY <1>1, SessionAssumption DEF TypeOK, Insertable, Tokens
<1>3. m \in Tokens /\ row[m].st # "absent"
  BY <1>1 DEF Succeed, Rows
<1>4. Current(m)
  BY <1>1, <1>3 DEF JobOK
<1>5. row[m].fam \in Tokens /\ row[m].born \in Passwords \cup {0} /\ row[m].fam <= issued + 1
  BY <1>1, <1>3 DEF TypeOK, RowsOK, Row, Tokens
<1>6. jobs[w].tab \in Tabs \cup {None}
  BY <1>1 DEF Job
<1>7. job \in Job /\ job.pc \in {"idle", "answer"}
  BY <1>2, <1>6, AnsweringType
<1>8. /\ Insert(row[m].fam, row[m].born) /\ SetJob(w, job)
      /\ UNCHANGED <<userVars, escaped, raced>> /\ UNCHANGED <<exists, pw, escaped>>
      /\ cookie' = cookie /\ noted' = noted
  BY DEF Succeed, userVars, historyVars
<1>9. n = issued + 1
  OBVIOUS
<1> HIDE DEF n, m, job
<1>10. InDate' => InDate
  BY <1>1, <1>8, InDateStays
<1>11. row[m].fam \notin escaped => ~Ended(row[m].fam) /\ (InDate' => row[m].born = pw)
  BY <1>4, <1>10 DEF Current
<1>12. /\ cookie' \in Tokens \cup {0} /\ noted' \subseteq Notes /\ jobs' \in [Workers -> Job]
  BY <1>1, <1>7, <1>8 DEF TypeOK, SetJob
<1>13. TypeOK'
  BY <1>1, <1>5, <1>8, <1>12, TypesInsert
<1> QED
  BY <1>1, <1>2, <1>5, <1>7, <1>8, <1>9, <1>10, <1>11, <1>13, InsertStep

\* A link is sent, or nothing happens.
LEMMA StillKeeps ==
    ASSUME SessionInv, UNCHANGED <<rowVars, exists, pw, newest, legacy, cookie, jobs, historyVars>>,
           link' \in BOOLEAN
    PROVE  SessionInv'
<1>1. UNCHANGED <<row, issued, exists, pw, newest, legacy, cookie, jobs, escaped, raced, noted>>
  BY DEF rowVars, historyVars
<1>2. TypeOK'
  BY <1>1 DEF SessionInv, TypeOK
<1>3. InDate' => InDate /\ pw' = pw
  BY <1>1, InDateWritten
<1>4. \A t \in Tokens : Current(t) => Current(t)'
  BY <1>1, <1>3, CurrentStays
<1>5. RowsOK' /\ \A t \in Tokens : Live(t)' => Current(t)'
  BY <1>1, <1>4 DEF SessionInv, RowsOK, Live
<1>6. \A v \in Workers : JobOK(jobs[v])'
  BY <1>1, <1>4 DEF SessionInv, JobOK
<1> QED
  BY <1>2, <1>5, <1>6 DEF SessionInv

LEMMA DeleteAccountKeeps ==
    ASSUME SessionInv, DeleteAccount
    PROVE  SessionInv'
<1>1. TypeOK /\ NoRow \in Row /\ NoRow.fam = 0 /\ NoRow.st = "absent"
  BY DEF SessionInv, NoRow, Row
<1>2. row' \in [Tokens -> Row] /\ \A t \in Tokens : row'[t].fam = 0 <=> row'[t].st = "absent"
  BY <1>1 DEF DeleteAccount
<1>3. /\ UNCHANGED <<issued, pw, newest, cookie, jobs, escaped, raced, noted>>
      /\ exists' = FALSE /\ legacy' = FALSE /\ link' = FALSE
  BY DEF DeleteAccount, historyVars
<1>4. TypeOK'
  BY <1>1, <1>2, <1>3 DEF TypeOK
<1> QED
  BY <1>4, DeleteStep

LEMMA SessionNext == SessionInv /\ [Next]_vars => SessionInv'
<1> SUFFICES ASSUME SessionInv, [Next]_vars PROVE SessionInv'
  OBVIOUS
<1>1. ASSUME NEW w \in Workers, Requests(w) PROVE SessionInv'
  BY <1>1, LoginReadKeeps, UpgradeKeeps, IssueKeeps, SendRefreshKeeps, RotateReadKeeps,
     RotateOrphanKeeps, KillKeeps, MarkKeeps, SucceedKeeps, AnswerKeeps, LoseKeeps,
     LogoutKeeps, ChangeReadKeeps, ChangePasswordKeeps, ResetReadKeeps, ResetSetKeeps,
     ResetRevokeKeeps DEF Requests
<1>2. CASE Forgot
  BY <1>2, StillKeeps DEF Forgot
<1>3. CASE DeleteAccount
  BY <1>3, DeleteAccountKeeps
<1>4. CASE UNCHANGED vars
  <2>1. link \in BOOLEAN
    BY DEF SessionInv, TypeOK
  <2> QED
    BY <1>4, <2>1, StillKeeps DEF vars, rowVars, historyVars
<1> QED
  BY <1>1, <1>2, <1>3, <1>4 DEF Next

-----------------------------------------------------------------------------
(* One chain of tokens for each family *)

\* Rotations whose successor is the next token of the family: theirs is used up,
\* or was revoked before they could mark it.
Pending(f) ==
    {w \in Workers : /\ jobs[w].pc \in {"mark", "insert"} /\ row[jobs[w].t].fam = f
                     /\ At(w, "mark") => ~Live(jobs[w].t)}

Marking(t) == {w \in Workers : At(w, "mark") /\ jobs[w].t = t}

\* A usable token, or one rotation to bring it, and one to use it up.
OneChain(f) ==
    /\ \A t, u \in LiveIn(f) : t = u
    /\ \A v, w \in Pending(f) : v = w
    /\ LiveIn(f) = {} \/ Pending(f) = {}
    /\ \A t \in LiveIn(f) : \A v, w \in Marking(t) : v = w

Issued == \A w \in Workers : jobs[w].pc \in {"mark", "insert"} => jobs[w].t <= issued

ChainsInv == Issued /\ \A f \in Tokens \ raced : OneChain(f)

\* Chains in terms of what the steps write.
LEMMA ChainParts ==
    ASSUME NEW f
    PROVE  /\ \A t : t \in LiveIn(f) <=> t \in Tokens /\ row[t].fam = f /\ row[t].st = "fresh"
           /\ \A w : w \in Pending(f) <=>
                /\ w \in Workers /\ jobs[w].pc \in {"mark", "insert"} /\ row[jobs[w].t].fam = f
                /\ jobs[w].pc = "mark" => row[jobs[w].t].st # "fresh"
           /\ \A t : t \in LiveIn(f)' <=> t \in Tokens /\ row'[t].fam = f /\ row'[t].st = "fresh"
           /\ \A w : w \in Pending(f)' <=>
                /\ w \in Workers /\ jobs'[w].pc \in {"mark", "insert"} /\ row'[jobs'[w].t].fam = f
                /\ jobs'[w].pc = "mark" => row'[jobs'[w].t].st # "fresh"
BY DEF LiveIn, Pending, Live, At

LEMMA MarkingParts ==
    ASSUME NEW t
    PROVE  /\ \A w : w \in Marking(t) <=> w \in Workers /\ jobs[w].pc = "mark" /\ jobs[w].t = t
           /\ \A w : w \in Marking(t)' <=>
                w \in Workers /\ jobs'[w].pc = "mark" /\ jobs'[w].t = t
BY DEF Marking, At

\* Fewer usable tokens and fewer rotations keep a chain.
LEMMA ChainShrinks ==
    ASSUME NEW f, OneChain(f), LiveIn(f)' \subseteq LiveIn(f), Pending(f)' \subseteq Pending(f),
           \A t \in LiveIn(f)' : Marking(t)' \subseteq Marking(t)
    PROVE  OneChain(f)'
BY DEF OneChain

\* A step that writes no token and begins no rotation.
LEMMA ChainsQuiet ==
    ASSUME SessionInv, ChainsInv, UNCHANGED <<row, issued>>, raced \subseteq raced',
           NEW w \in Workers, NEW job, jobs' = jobs \/ SetJob(w, job),
           job.pc \notin {"mark", "insert"}
    PROVE  ChainsInv'
<1>1. \A v \in Workers : jobs'[v] = jobs[v] \/ jobs'[v] = job
  BY DEF SetJob, SessionInv, TypeOK
<1>2. Issued'
  BY <1>1 DEF ChainsInv, Issued
<1>3. ASSUME NEW f \in Tokens \ raced' PROVE OneChain(f)'
  <2>1. OneChain(f)
    BY DEF ChainsInv
  <2>2. LiveIn(f)' \subseteq LiveIn(f) /\ Pending(f)' \subseteq Pending(f)
    BY <1>1, ChainParts
  <2>3. \A t \in LiveIn(f)' : Marking(t)' \subseteq Marking(t)
    BY <1>1, MarkingParts
  <2> QED
    BY <2>1, <2>2, <2>3, ChainShrinks
<1> QED
  BY <1>2, <1>3 DEF ChainsInv

\* A rotation begins.
LEMMA ChainsRead ==
    ASSUME SessionInv, ChainsInv, UNCHANGED <<row, issued>>, NEW w \in Workers, NEW job,
           SetJob(w, job), jobs[w].pc \notin {"mark", "insert"}, NEW t \in Tokens, Live(t),
           job.pc = "mark", job.t = t,
           raced' = raced \cup (IF \E v \in Workers : At(v, "mark") /\ jobs[v].t = t
                                THEN {row[t].fam} ELSE {})
    PROVE  ChainsInv'
<1>1. /\ \A v \in Workers \ {w} : jobs'[v] = jobs[v]
      /\ jobs'[w] = job
  BY DEF SetJob, SessionInv, TypeOK
<1>2. Issued'
  <2>1. t <= issued
    <3>1. issued \in Nat /\ t \in Nat /\ (t > issued => row[t] = NoRow)
      BY DEF SessionInv, TypeOK, RowsOK, Tokens
    <3> QED
      BY <3>1 DEF Live, NoRow
  <2> QED
    BY <1>1, <2>1 DEF ChainsInv, Issued
<1>3. ASSUME NEW f \in Tokens \ raced' PROVE OneChain(f)'
  <2>1. OneChain(f) /\ f \notin raced
    BY DEF ChainsInv
  <2>2. LiveIn(f)' = LiveIn(f)
    BY DEF LiveIn, Live
  <2>3. Pending(f)' \subseteq Pending(f)
    BY <1>1, ChainParts DEF Live
  <2>4. ASSUME NEW u \in LiveIn(f), NEW v \in Marking(u)', NEW x \in Marking(u)' PROVE v = x
    <3>1. CASE u # t
      <4>1. v \in Marking(u) /\ x \in Marking(u)
        BY <1>1, <2>4, <3>1, MarkingParts
      <4> QED
        BY <2>1, <4>1 DEF OneChain
    <3>2. CASE u = t
      <4>1. row[t].fam = f
        BY <2>4, <3>2, ChainParts
      <4>2. \A y \in Workers : ~(jobs[y].pc = "mark" /\ jobs[y].t = t)
        BY <2>1, <4>1 DEF At
      <4> QED
        BY <1>1, <2>4, <3>2, <4>2, MarkingParts
    <3> QED
      BY <3>1, <3>2
  <2> QED
    BY <2>1, <2>2, <2>3, <2>4 DEF OneChain
<1> QED
  BY <1>2, <1>3 DEF ChainsInv

\* Families are revoked: a rotation under way may still bring one token.
LEMMA ChainsRevoke ==
    ASSUME SessionInv, ChainsInv, NEW fs, Revoke(fs), 0 \notin fs, UNCHANGED <<issued, raced>>,
           NEW w \in Workers, NEW job, jobs' = jobs \/ SetJob(w, job),
           job.pc \notin {"mark", "insert"}
    PROVE  ChainsInv'
<1>1. \A v \in Workers : jobs'[v] = jobs[v] \/ jobs'[v] = job
  BY DEF SetJob, SessionInv, TypeOK
<1>2. Issued'
  BY <1>1 DEF ChainsInv, Issued
<1>3. \A t \in Tokens : /\ row'[t].fam = row[t].fam
                        /\ row[t].fam \in fs => row'[t].st = "revoked"
                        /\ row[t].fam \notin fs => row'[t] = row[t]
  <2>1. \A t \in Tokens : row[t] \in Row
    BY DEF SessionInv, TypeOK
  <2>2. \A t \in Tokens :
          row'[t] = IF row[t].fam \in fs THEN [row[t] EXCEPT !.st = "revoked", !.born = 0]
                    ELSE row[t]
    BY DEF Revoke
  <2> QED
    BY <2>1, <2>2 DEF Row
<1>4. \A v \in Workers : jobs[v].pc \in {"mark", "insert"} => jobs[v].t \in Tokens
  BY DEF SessionInv, JobOK
<1>5. ASSUME NEW f \in Tokens \ raced' PROVE OneChain(f)'
  <2>1. OneChain(f)
    BY DEF ChainsInv
  <2>2. CASE f \notin fs
    <3>1. LiveIn(f)' \subseteq LiveIn(f)
      BY <1>3, <2>2, ChainParts
    <3>2. Pending(f)' \subseteq Pending(f)
      BY <1>1, <1>3, <1>4, <2>2, ChainParts
    <3>3. \A t \in LiveIn(f)' : Marking(t)' \subseteq Marking(t)
      BY <1>1, MarkingParts
    <3> QED
      BY <2>1, <3>1, <3>2, <3>3, ChainShrinks
  <2>3. CASE f \in fs
    <3>1. LiveIn(f)' = {}
      BY <1>3, <2>3, ChainParts
    <3>2. ASSUME NEW v \in Pending(f)'
          PROVE  /\ v \in Workers /\ jobs[v].t \in Tokens
                 /\ v \in Pending(f) \/ (jobs[v].t \in LiveIn(f) /\ v \in Marking(jobs[v].t))
      <4>1. v \in Workers /\ jobs'[v] = jobs[v] /\ jobs[v].pc \in {"mark", "insert"}
        BY <1>1, <3>2, ChainParts
      <4>2. jobs[v].t \in Tokens /\ row[jobs[v].t].fam = f
        BY <1>3, <1>4, <3>2, <4>1, ChainParts
      <4> QED
        BY <4>1, <4>2, ChainParts, MarkingParts
    <3>3. ASSUME NEW v \in Pending(f)', NEW x \in Pending(f)' PROVE v = x
      <4>1. CASE v \in Pending(f) /\ x \in Pending(f)
        BY <2>1, <4>1 DEF OneChain
      <4>2. CASE LiveIn(f) # {}
        <5>1. /\ jobs[v].t \in LiveIn(f) /\ v \in Marking(jobs[v].t)
              /\ jobs[x].t \in LiveIn(f) /\ x \in Marking(jobs[x].t)
          BY <2>1, <3>2, <3>3, <4>2 DEF OneChain
        <5>2. jobs[v].t = jobs[x].t
          BY <2>1, <5>1 DEF OneChain
        <5> QED
          BY <2>1, <5>1, <5>2 DEF OneChain
      <4> QED
        BY <3>2, <3>3, <4>1, <4>2
    <3> QED
      BY <3>1, <3>3 DEF OneChain
  <2> QED
    BY <2>2, <2>3
<1> QED
  BY <1>2, <1>5 DEF ChainsInv

\* A usable token becomes a rotation that is to bring the next.
LEMMA ChainsMark ==
    ASSUME SessionInv, ChainsInv, NEW w \in Workers, Mark(w)
    PROVE  ChainsInv'
<1> DEFINE m == jobs[w].t
           job == [jobs[w] EXCEPT !.pc = "insert"]
<1>1. m \in Tokens /\ row[m] \in Row /\ jobs[w].pc = "mark" /\ jobs[w] \in Job
  BY DEF Mark, At, Rows, SessionInv, TypeOK
<1>2. job.pc = "insert" /\ job.t = m
  BY <1>1 DEF Job
<1>3. /\ \A v \in Workers \ {w} : jobs'[v] = jobs[v]
      /\ jobs'[w] = job
  BY DEF Mark, SetJob, SessionInv, TypeOK
<1>4. /\ row' = [row EXCEPT ![m].st = IF @ = "revoked" THEN @ ELSE "used"]
      /\ UNCHANGED <<issued, raced>>
  BY DEF Mark, historyVars
<1>5. m = jobs[w].t
  OBVIOUS
<1> HIDE DEF m, job
<1>6. /\ row'[m].fam = row[m].fam /\ row'[m].st # "fresh"
      /\ \A t \in Tokens \ {m} : row'[t] = row[t]
  BY <1>1, <1>4 DEF SessionInv, TypeOK, Row
<1>7. Issued'
  BY <1>1, <1>2, <1>3, <1>4, <1>5 DEF ChainsInv, Issued
<1>8. \A v \in Workers : jobs[v].pc \in {"mark", "insert"} => jobs[v].t \in Tokens
  BY DEF SessionInv, JobOK
<1>9. ASSUME NEW f \in Tokens \ raced' PROVE OneChain(f)'
  <2>1. OneChain(f)
    BY <1>4 DEF ChainsInv
  <2>2. LiveIn(f)' = LiveIn(f) \ {m}
    BY <1>6, ChainParts
  <2>3. ASSUME NEW t \in LiveIn(f)' PROVE Marking(t)' \subseteq Marking(t)
    BY <1>2, <1>3, MarkingParts
  <2>4. CASE row[m].fam # f
    <3>1. Pending(f)' \subseteq Pending(f)
      BY <1>1, <1>2, <1>3, <1>6, <1>8, <2>4, ChainParts
    <3> QED
      BY <2>1, <2>2, <2>3, <3>1, ChainShrinks
  <2>5. CASE row[m].fam = f /\ row[m].st # "fresh"
    <3>1. w \in Pending(f)
      BY <1>1, <1>5, <2>5, ChainParts
    <3>2. Pending(f)' \subseteq Pending(f)
      BY <1>1, <1>2, <1>3, <1>6, <1>8, <2>5, <3>1, ChainParts
    <3> QED
      BY <2>1, <2>2, <2>3, <3>2, ChainShrinks
  <2>6. CASE row[m].fam = f /\ row[m].st = "fresh"
    <3>1. m \in LiveIn(f) /\ w \in Marking(m)
      BY <1>1, <1>5, <2>6, ChainParts, MarkingParts
    <3>2. LiveIn(f)' = {} /\ Pending(f) = {}
      BY <2>1, <2>2, <3>1 DEF OneChain
    <3>3. Pending(f)' \subseteq {w}
      <4> SUFFICES ASSUME NEW v \in Pending(f)', v # w PROVE FALSE
        OBVIOUS
      <4>1. v \in Workers /\ jobs'[v] = jobs[v] /\ jobs[v].pc \in {"mark", "insert"}
        BY <1>3, ChainParts
      <4>2. jobs[v].t \in Tokens /\ row'[jobs[v].t].fam = f
        BY <1>8, <4>1, ChainParts
      <4>3. row[jobs[v].t].fam = f
        BY <1>6, <4>2
      <4>4. jobs[v].pc = "mark" /\ row[jobs[v].t].st = "fresh"
        BY <3>2, <4>1, <4>3, ChainParts
      <4>5. jobs[v].t \in LiveIn(f)
        BY <4>2, <4>3, <4>4, ChainParts
      <4>6. jobs[v].t = m
        BY <2>1, <3>1, <4>5 DEF OneChain
      <4>7. v \in Marking(m)
        BY <4>1, <4>4, <4>6, MarkingParts
      <4> QED
        BY <2>1, <3>1, <4>7 DEF OneChain
    <3> QED
      BY <3>2, <3>3 DEF OneChain
  <2> QED
    BY <2>4, <2>5, <2>6
<1> QED
  BY <1>7, <1>9 DEF ChainsInv

\* The successor takes the place of its rotation.
LEMMA ChainsSucceed ==
    ASSUME SessionInv, ChainsInv, NEW w \in Workers, Succeed(w)
    PROVE  ChainsInv'
<1>0. issued \in Nat /\ issued + 1 \in Tokens
  <2>1. issued \in Nat /\ issued < MaxTokens
    BY DEF SessionInv, TypeOK, Succeed, Insertable
  <2> QED
    BY <2>1, SessionAssumption DEF Tokens
<1>6. PICK n \in Tokens : n = issued + 1
  BY <1>0
<1> DEFINE m == jobs[w].t
           job == Answering(jobs[w].tab, n)
<1>1. /\ jobs[w] \in Job /\ jobs[w].pc = "insert" /\ Insertable /\ m \in Tokens
      /\ issued \in Nat /\ issued' = n
  BY <1>6 DEF SessionInv, TypeOK, Succeed, At, Rows, Insert
<1>2. n \in Tokens /\ row[n] = NoRow
  <2>1. n \in Tokens /\ n > issued
    BY <1>0, <1>6
  <2> QED
    BY <2>1 DEF SessionInv, RowsOK
<1>3. job.pc \in {"idle", "answer"}
  <2>1. jobs[w].tab \in Tabs \cup {None} /\ n \in Tokens \cup {0}
    BY <1>1, <1>2 DEF Job
  <2> QED
    BY <2>1, AnsweringType
<1>4. /\ Insert(row[m].fam, row[m].born) /\ SetJob(w, job) /\ raced' = raced
  BY <1>6 DEF Succeed, historyVars
<1>5. /\ row' = [row EXCEPT ![n] = [st |-> "fresh", fam |-> row[m].fam, born |-> row[m].born]]
  BY <1>4, <1>6 DEF Insert
<1>12. m = jobs[w].t
  OBVIOUS
<1> HIDE DEF m, job
<1>7. /\ row'[n].fam = row[m].fam /\ row'[n].st = "fresh"
      /\ \A t \in Tokens \ {n} : row'[t] = row[t]
  BY <1>2, <1>5 DEF SessionInv, TypeOK
<1>8. /\ \A v \in Workers \ {w} : jobs'[v] = jobs[v]
      /\ jobs'[w] = job
  BY <1>4 DEF SetJob, SessionInv, TypeOK
<1>9. \A v \in Workers : jobs[v].pc \in {"mark", "insert"} =>
        jobs[v].t \in Tokens /\ jobs[v].t <= issued /\ jobs[v].t # n
  <2>1. \A v \in Workers : jobs[v].pc \in {"mark", "insert"} =>
          jobs[v].t \in Tokens /\ jobs[v].t <= issued
    BY DEF SessionInv, JobOK, ChainsInv, Issued
  <2> QED
    BY <1>1, <1>6, <2>1 DEF Tokens
<1>10. Issued'
  <2> SUFFICES ASSUME NEW v \in Workers, jobs'[v].pc \in {"mark", "insert"}
               PROVE  jobs'[v].t <= issued'
    BY DEF Issued
  <2>1. jobs'[v] = jobs[v] /\ jobs[v].t \in Tokens /\ jobs[v].t <= issued
    BY <1>3, <1>8, <1>9
  <2> QED
    BY <1>1, <1>6, <2>1 DEF Tokens
<1>11. ASSUME NEW f \in Tokens \ raced' PROVE OneChain(f)'
  <2>1. OneChain(f)
    BY <1>4 DEF ChainsInv
  <2>2. Pending(f)' \subseteq Pending(f) \ {w}
    BY <1>3, <1>7, <1>8, <1>9, ChainParts
  <2>3. CASE row[m].fam # f
    <3>1. LiveIn(f)' \subseteq LiveIn(f)
      BY <1>7, <2>3, ChainParts
    <3>2. \A t \in LiveIn(f)' : Marking(t)' \subseteq Marking(t)
      BY <1>3, <1>8, MarkingParts
    <3> QED
      BY <2>1, <2>2, <3>1, <3>2, ChainShrinks
  <2>4. CASE row[m].fam = f
    <3>1. w \in Pending(f)
      BY <1>1, <1>12, <2>4, ChainParts
    <3>2. LiveIn(f) = {} /\ Pending(f)' = {}
      BY <2>1, <2>2, <3>1 DEF OneChain
    <3>3. LiveIn(f)' \subseteq {n}
      BY <1>7, <3>2, ChainParts
    <3>4. Marking(n)' = {}
      BY <1>3, <1>8, <1>9, MarkingParts
    <3> QED
      BY <3>2, <3>3, <3>4 DEF OneChain
  <2> QED
    BY <2>3, <2>4
<1> QED
  BY <1>10, <1>11 DEF ChainsInv

\* A new family has one token.
LEMMA ChainsIssue ==
    ASSUME SessionInv, ChainsInv, NEW w \in Workers, Issue(w)
    PROVE  ChainsInv'
<1>0. issued \in Nat /\ issued + 1 \in Tokens
  <2>1. issued \in Nat /\ issued < MaxTokens
    BY DEF SessionInv, TypeOK, Issue, Insertable
  <2> QED
    BY <2>1, SessionAssumption DEF Tokens
<1>4. PICK n \in Tokens : n = issued + 1
  BY <1>0
<1>1. issued \in Nat /\ issued' = n /\ Insertable /\ raced' = raced
  BY <1>4 DEF SessionInv, TypeOK, Issue, Insert
<1>2. n \in Tokens /\ row[n] = NoRow
  <2>1. n \in Tokens /\ n > issued
    BY <1>0, <1>4
  <2> QED
    BY <2>1 DEF SessionInv, RowsOK
<1>3. row' = [row EXCEPT ![n] = [st |-> "fresh", fam |-> n, born |-> jobs[w].pw]]
  BY <1>4 DEF Issue, Insert
<1>5. /\ row'[n].fam = n /\ row'[n].st = "fresh" /\ \A t \in Tokens \ {n} : row'[t] = row[t]
  BY <1>2, <1>3 DEF SessionInv, TypeOK
<1>6. /\ \A v \in Workers \ {w} : jobs'[v] = jobs[v]
      /\ jobs'[w].pc = "idle"
  BY NoJobType DEF Issue, SetJob, SessionInv, TypeOK
<1>7. \A v \in Workers : jobs[v].pc \in {"mark", "insert"} =>
        jobs[v].t \in Tokens /\ jobs[v].t <= issued /\ jobs[v].t # n
  <2>1. \A v \in Workers : jobs[v].pc \in {"mark", "insert"} =>
          jobs[v].t \in Tokens /\ jobs[v].t <= issued
    BY DEF SessionInv, JobOK, ChainsInv, Issued
  <2> QED
    BY <1>1, <1>4, <2>1 DEF Tokens
<1>8. Issued'
  <2> SUFFICES ASSUME NEW v \in Workers, jobs'[v].pc \in {"mark", "insert"}
               PROVE  jobs'[v].t <= issued'
    BY DEF Issued
  <2>1. jobs'[v] = jobs[v] /\ jobs[v].t \in Tokens /\ jobs[v].t <= issued
    BY <1>6, <1>7
  <2> QED
    BY <1>1, <1>4, <2>1 DEF Tokens
<1>9. \A t \in Tokens : row[t].fam # n
  <2>1. \A t \in Tokens : row[t].fam <= issued /\ row[t].fam \in Nat
    BY DEF SessionInv, RowsOK, TypeOK, Row, Tokens
  <2> QED
    BY <1>1, <1>4, <2>1
<1>10. ASSUME NEW f \in Tokens \ raced' PROVE OneChain(f)'
  <2>1. OneChain(f)
    BY <1>1 DEF ChainsInv
  <2>2. Pending(f)' \subseteq Pending(f)
    BY <1>5, <1>6, <1>7, ChainParts
  <2>3. CASE f # n
    <3>1. LiveIn(f)' \subseteq LiveIn(f)
      BY <1>5, <2>3, ChainParts
    <3>2. \A t \in LiveIn(f)' : Marking(t)' \subseteq Marking(t)
      BY <1>6, MarkingParts
    <3> QED
      BY <2>1, <2>2, <3>1, <3>2, ChainShrinks
  <2>4. CASE f = n
    <3>1. Pending(f)' = {}
      BY <1>7, <1>9, <2>2, <2>4, ChainParts
    <3>2. LiveIn(f)' \subseteq {n}
      BY <1>5, <1>9, <2>4, ChainParts
    <3>3. Marking(n)' = {}
      BY <1>6, <1>7, MarkingParts
    <3> QED
      BY <3>1, <3>2, <3>3 DEF OneChain
  <2> QED
    BY <2>3, <2>4
<1> QED
  BY <1>8, <1>10 DEF ChainsInv

LEMMA ChainsDelete ==
    ASSUME SessionInv, ChainsInv, DeleteAccount
    PROVE  ChainsInv'
<1>1. UNCHANGED <<issued, jobs, raced>> /\ \A t \in Tokens : row'[t].fam = 0
  BY DEF DeleteAccount, historyVars, NoRow
<1>2. \A v \in Workers : jobs[v].pc \in {"mark", "insert"} => jobs[v].t \in Tokens
  BY DEF SessionInv, JobOK
<1>3. ASSUME NEW f \in Tokens PROVE OneChain(f)'
  <2>1. f # 0
    BY DEF Tokens
  <2>2. LiveIn(f)' = {} /\ Pending(f)' = {}
    BY <1>1, <1>2, <2>1, ChainParts
  <2> QED
    BY <2>2 DEF OneChain
<1> QED
  BY <1>1, <1>3 DEF ChainsInv, Issued

LEMMA ChainsInit ==
    ASSUME Init
    PROVE  ChainsInv
<1>1. \A t \in Tokens : row[t].fam = 0 /\ row[t].st = "absent"
  BY DEF Init, NoRow
<1>2. \A w \in Workers : jobs[w].pc = "idle"
  BY NoJobType DEF Init
<1>3. ASSUME NEW f \in Tokens PROVE OneChain(f)
  <2>1. f # 0
    BY DEF Tokens
  <2>2. LiveIn(f) = {} /\ Pending(f) = {}
    BY <1>1, <1>2, <2>1, ChainParts
  <2> QED
    BY <2>2 DEF OneChain
<1> QED
  BY <1>2, <1>3 DEF ChainsInv, Issued

LEMMA AnsweringIs ==
    ASSUME NEW tab \in Tabs \cup {None}, NEW t \in Tokens \cup {0}
    PROVE  /\ Answering(tab, t).tab = tab
           /\ tab = None => Answering(tab, t).pc = "idle"
           /\ tab # None => Answering(tab, t).pc = "answer" /\ Answering(tab, t).t = t
BY DEF Answering, NoJob

\* What the request that presented a token goes on to.
LEMMA ReadJob ==
    ASSUME TypeOK, NEW w \in Workers, NEW tab \in Tabs \cup {None}, NEW t \in Tokens,
           Read(w, tab, t)
    PROVE  \E job \in Job :
             /\ SetJob(w, job) /\ job.tab = tab
             /\ row[t].st \in {"absent", "revoked"} =>
                  /\ job.pc \in {"idle", "answer"}
                  /\ tab # None => job.pc = "answer" /\ job.t = 0
             /\ row[t].st = "used" => job.pc = "kill" /\ job.t = t
             /\ row[t].st = "fresh" => job.pc = "mark" /\ job.t = t
<1>1. row[t].st \in {"absent", "revoked", "used", "fresh"}
  BY DEF TypeOK, Row
<1>2. CASE row[t].st \in {"absent", "revoked"}
  <2>1. SetJob(w, Answering(tab, 0))
    BY <1>2 DEF Read, Live
  <2> QED
    BY <1>2, <2>1, AnsweringIs, AnsweringType
<1>3. ASSUME NEW pc \in {"kill", "mark"}, SetJob(w, [NoJob EXCEPT !.pc = pc, !.tab = tab, !.t = t])
      PROVE  \E job \in Job : SetJob(w, job) /\ job.tab = tab /\ job.pc = pc /\ job.t = t
  <2> DEFINE job == [NoJob EXCEPT !.pc = pc, !.tab = tab, !.t = t]
  <2>1. job \in Job /\ job.tab = tab /\ job.pc = pc /\ job.t = t
    BY DEF NoJob, Job
  <2> QED
    BY <1>3, <2>1
<1>4. CASE row[t].st = "used"
  <2>1. SetJob(w, [NoJob EXCEPT !.pc = "kill", !.tab = tab, !.t = t])
    BY <1>4 DEF Read, Live
  <2> QED
    BY <1>3, <1>4, <2>1
<1>5. CASE row[t].st = "fresh"
  <2>1. SetJob(w, [NoJob EXCEPT !.pc = "mark", !.tab = tab, !.t = t])
    BY <1>5 DEF Read, Live
  <2> QED
    BY <1>3, <1>5, <2>1
<1> QED
  BY <1>1, <1>2, <1>4, <1>5

LEMMA ChainsPresent ==
    ASSUME SessionInv, ChainsInv, NEW w \in Workers, NEW tab \in Tabs \cup {None}, NEW t \in Tokens,
           Read(w, tab, t), jobs[w].pc \notin {"mark", "insert"}
    PROVE  ChainsInv'
<1>1. TypeOK /\ UNCHANGED <<row, issued>>
  BY DEF SessionInv, Read, rowVars
<1>2. PICK job \in Job :
        /\ SetJob(w, job)
        /\ row[t].st # "fresh" => job.pc \notin {"mark", "insert"}
        /\ row[t].st = "fresh" => job.pc = "mark" /\ job.t = t
  <2>1. row[t].st \in {"absent", "revoked", "used", "fresh"}
    BY <1>1 DEF TypeOK, Row
  <2> QED
    BY <1>1, <2>1, ReadJob
<1>3. raced' = raced \cup (IF Live(t) /\ \E v \in Workers : At(v, "mark") /\ jobs[v].t = t
                           THEN {row[t].fam} ELSE {})
  BY DEF Read
<1>4. CASE Live(t)
  <2>1. raced' = raced \cup (IF \E v \in Workers : At(v, "mark") /\ jobs[v].t = t
                             THEN {row[t].fam} ELSE {})
    BY <1>3, <1>4
  <2> QED
    BY <1>1, <1>2, <1>4, <2>1, ChainsRead DEF Live
<1>5. CASE ~Live(t)
  BY <1>1, <1>2, <1>3, <1>5, ChainsQuiet DEF Live
<1> QED
  BY <1>4, <1>5

\* The records of the other requests.
LEMMA OtherJobs ==
    /\ \A pc \in {"issue", "upgrade", "change", "reset"} : \A n :
         /\ [NoJob EXCEPT !.pc = pc, !.pw = n].pc = pc
         /\ [NoJob EXCEPT !.pc = pc, !.pw = n].tab = None
         /\ [NoJob EXCEPT !.pc = pc].pc = pc /\ [NoJob EXCEPT !.pc = pc].tab = None
    /\ \A tab, t : LET job == [NoJob EXCEPT !.pc = "arrive", !.tab = tab, !.t = t] IN
         job.pc = "arrive" /\ job.tab = tab /\ job.t = t
    /\ \A j \in Job, pc \in {"issue", "revokeAll"} :
         [j EXCEPT !.pc = pc].pc = pc /\ [j EXCEPT !.pc = pc].tab = j.tab
    /\ NoJob.pc = "idle" /\ NoJob.tab = None
BY DEF NoJob, Job

LEMMA ChainsNext ==
    ASSUME SessionInv, ChainsInv, [Next]_vars
    PROVE  ChainsInv'
<1>0. TypeOK
  BY DEF SessionInv
<1>1. ASSUME NEW w \in Workers, NEW pc \in {"issue", "upgrade"}, NEW n,
             SetJob(w, [NoJob EXCEPT !.pc = pc, !.pw = n]), UNCHANGED <<rowVars, historyVars>>
      PROVE  ChainsInv'
  BY <1>1, OtherJobs, ChainsQuiet DEF rowVars, historyVars
<1>2. ASSUME NEW w \in Workers, Requests(w) PROVE ChainsInv'
  <2>0. jobs[w] \in Job
    BY <1>0 DEF TypeOK
  <2>1. CASE LoginRead(w)
    <3>1. PICK pc \in {"issue", "upgrade"} : SetJob(w, [NoJob EXCEPT !.pc = pc, !.pw = pw])
      BY <2>1 DEF LoginRead
    <3> QED
      BY <1>1, <2>1, <3>1 DEF LoginRead
  <2>2. CASE Upgrade(w)
    BY <2>0, <2>2, OtherJobs, ChainsQuiet DEF Upgrade, rowVars
  <2>3. CASE Issue(w)
    BY <2>3, ChainsIssue
  <2>4. ASSUME NEW tab \in Tabs, SendRefresh(w, tab) PROVE ChainsInv'
    BY <2>4, OtherJobs, ChainsQuiet DEF SendRefresh, rowVars
  <2>5. CASE RotateRead(w)
    <3>1. jobs[w].pc = "arrive" /\ Read(w, jobs[w].tab, jobs[w].t)
      BY <2>5 DEF RotateRead, At
    <3>2. jobs[w].t \in Tokens /\ jobs[w].tab \in Tabs \cup {None}
      BY <2>0, <3>1 DEF SessionInv, JobOK, Job
    <3> QED
      BY <3>1, <3>2, ChainsPresent
  <2>6. ASSUME NEW t \in Tokens, RotateOrphan(w, t) PROVE ChainsInv'
    BY <2>6, ChainsPresent DEF RotateOrphan, Idle
  <2>7. CASE Kill(w)
    <3>1. jobs[w].tab \in Tabs \cup {None}
      BY <2>0 DEF Job
    <3>2. /\ Revoke({row[jobs[w].t].fam} \ {0}) /\ UNCHANGED <<issued, raced>>
          /\ SetJob(w, Answering(jobs[w].tab, 0))
      BY <2>7 DEF Kill
    <3>3. Answering(jobs[w].tab, 0).pc \notin {"mark", "insert"}
      BY <3>1, AnsweringType
    <3>4. 0 \notin {row[jobs[w].t].fam} \ {0}
      OBVIOUS
    <3> QED
      BY <3>2, <3>3, <3>4, ChainsRevoke
  <2>8. CASE Mark(w)
    BY <2>8, ChainsMark
  <2>9. CASE Succeed(w)
    BY <2>9, ChainsSucceed
  <2>10. CASE Answer(w)
    BY <2>10, OtherJobs, ChainsQuiet DEF Answer, rowVars, historyVars
  <2>11. CASE Lose(w)
    BY <2>11, OtherJobs, ChainsQuiet DEF Lose, rowVars
  <2>12. CASE Logout(w)
    <3>1. /\ Revoke({row[cookie].fam} \ {0}) /\ UNCHANGED <<issued, raced>> /\ jobs' = jobs
          /\ 0 \notin {row[cookie].fam} \ {0}
      BY <2>12 DEF Logout
    <3> QED
      BY <3>1, OtherJobs, ChainsRevoke
  <2>13. CASE ChangeRead(w)
    BY <2>13, OtherJobs, ChainsQuiet DEF ChangeRead, rowVars, historyVars
  <2>14. CASE ChangePassword(w) \/ ResetRevoke(w)
    <3>1. Revoke(Families) /\ UNCHANGED <<issued, raced>> /\ SetJob(w, NoJob)
      BY <2>14 DEF ChangePassword, ResetRevoke
    <3> QED
      BY <1>0, <3>1, FamiliesType, OtherJobs, ChainsRevoke
  <2>15. CASE ResetRead(w)
    BY <2>15, OtherJobs, ChainsQuiet DEF ResetRead, rowVars, historyVars
  <2>16. CASE ResetSet(w)
    BY <2>0, <2>16, OtherJobs, ChainsQuiet DEF ResetSet, rowVars, historyVars
  <2> QED
    BY <1>2, <2>1, <2>2, <2>3, <2>4, <2>5, <2>6, <2>7, <2>8, <2>9, <2>10, <2>11,
       <2>12, <2>13,
       <2>14, <2>15, <2>16 DEF Requests
<1>3. CASE Forgot \/ UNCHANGED vars
  <2>1. UNCHANGED <<row, issued, raced, jobs>>
    BY <1>3 DEF Forgot, vars, rowVars, historyVars
  <2> QED
    BY <2>1 DEF ChainsInv, Issued, OneChain, LiveIn, Pending, Marking, Live, At
<1>4. CASE DeleteAccount
  BY <1>4, ChainsDelete
<1> QED
  BY <1>2, <1>3, <1>4 DEF Next

LEMMA ChainsAreChains == SessionInv /\ ChainsInv => ForkNeedsRace
<1> SUFFICES ASSUME ChainsInv, NEW f \in Tokens, f \notin raced
             PROVE  ~(Cardinality(LiveIn(f)) > 1)
  BY DEF ForkNeedsRace
<1>1. \A t, u \in LiveIn(f) : t = u
  BY DEF ChainsInv, OneChain
<1>2. CASE LiveIn(f) = {}
  BY <1>2, FS_EmptySet
<1>3. ASSUME NEW t \in LiveIn(f) PROVE Cardinality(LiveIn(f)) = 1
  <2>1. LiveIn(f) = {t}
    BY <1>1
  <2> QED
    BY <2>1, FS_Singleton
<1> QED
  BY <1>2, <1>3
-----------------------------------------------------------------------------
(* One tab that gets its answers *)

Refreshing == {"arrive", "mark", "insert", "kill", "answer"}

\* One request at a time refreshes, and for a tab; what it presents and what the
\* cookie is set to was not used.  While a used token has no successor in the
\* cookie its tab still waits.
Orderly ==
    /\ \A v, w \in Workers : jobs[v].tab # None /\ jobs[w].tab # None => v = w
    /\ \A w \in Workers :
         /\ jobs[w].pc \in Refreshing <=> jobs[w].tab # None
         /\ jobs[w].pc # "kill"
         /\ jobs[w].pc \in {"arrive", "mark"} => row[jobs[w].t].st # "used"
         /\ jobs[w].pc = "answer" /\ jobs[w].t # 0 => row[jobs[w].t].st # "used"
    /\ cookie # 0 /\ (\A w \in Workers : jobs[w].pc \notin {"insert", "answer"})
         => row[cookie].st # "used"

OrderlyInv == "shared" \notin noted => Orderly

\* A step of a worker that uses no token up, for a job in order.
LEMMA OrderlyStep ==
    ASSUME TypeOK, Orderly, NEW w \in Workers, NEW job, SetJob(w, job),
           \A t \in Tokens : row'[t].st = "used" => row[t].st = "used",
           job.tab = None <=> job.pc \notin Refreshing,
           job.tab # None => \A v \in Workers \ {w} : jobs[v].tab = None,
           job.pc # "kill",
           job.pc \in {"arrive", "mark"} => job.t \in Tokens /\ row'[job.t].st # "used",
           job.pc = "answer" /\ job.t # 0 => job.t \in Tokens /\ row'[job.t].st # "used",
           cookie' = cookie \/ cookie' = 0 \/ (cookie' \in Tokens /\ row'[cookie'].st # "used"),
           \/ jobs[w].pc \notin {"insert", "answer"} \/ job.pc \in {"insert", "answer"}
           \/ cookie' = 0 \/ row'[cookie'].st # "used",
           \A v \in Workers : jobs[v].pc \in {"arrive", "mark"} => jobs[v].t \in Tokens
    PROVE  Orderly'
<1>1. \A v \in Workers : jobs'[v] = IF v = w THEN job ELSE jobs[v]
  BY DEF SetJob, TypeOK
<1>2. \A v \in Workers : jobs[v] \in Job /\ jobs[v].t \in Tokens \cup {0}
  BY DEF TypeOK, Job
<1>3. \A u, v \in Workers : jobs'[u].tab # None /\ jobs'[v].tab # None => u = v
  BY <1>1 DEF Orderly
<1>4. ASSUME NEW v \in Workers
      PROVE  /\ jobs'[v].pc \in Refreshing <=> jobs'[v].tab # None
             /\ jobs'[v].pc # "kill"
             /\ jobs'[v].pc \in {"arrive", "mark"} => row'[jobs'[v].t].st # "used"
             /\ jobs'[v].pc = "answer" /\ jobs'[v].t # 0 => row'[jobs'[v].t].st # "used"
  <2>1. CASE v = w
    <3>1. jobs'[v] = job
      BY <1>1, <2>1
    <3> QED
      BY <3>1
  <2>2. CASE v # w
    <3>1. jobs'[v] = jobs[v]
      BY <1>1, <2>2
    <3>2. jobs[v].t # 0 => jobs[v].t \in Tokens
      BY <1>2
    <3> QED
      BY <3>1, <3>2 DEF Orderly
  <2> QED
    BY <2>1, <2>2
<1>5. ASSUME cookie' # 0, \A v \in Workers : jobs'[v].pc \notin {"insert", "answer"}
      PROVE  row'[cookie'].st # "used"
  <2>1. CASE cookie' = cookie
    <3>1. \A v \in Workers \ {w} : jobs[v].pc \notin {"insert", "answer"}
      BY <1>1, <1>5
    <3>2. job.pc \notin {"insert", "answer"}
      BY <1>1, <1>5
    <3>3. CASE jobs[w].pc \notin {"insert", "answer"}
      <4>1. row[cookie].st # "used" /\ cookie \in Tokens
        BY <1>5, <2>1, <3>1, <3>3 DEF Orderly, TypeOK
      <4> QED
        BY <2>1, <4>1
    <3>4. CASE jobs[w].pc \in {"insert", "answer"}
      BY <1>5, <3>2, <3>4
    <3> QED
      BY <3>3, <3>4
  <2>2. CASE cookie' # cookie
    BY <1>5, <2>2
  <2> QED
    BY <2>1, <2>2
<1> QED
  BY <1>3, <1>4, <1>5 DEF Orderly

\* One whose worker does not refresh before or after.
LEMMA OrderlyElsewhere ==
    ASSUME TypeOK, Orderly, NEW w \in Workers, NEW job, SetJob(w, job),
           \A t \in Tokens : row'[t].st = "used" => row[t].st = "used",
           jobs[w].tab = None, job.tab = None, job.pc \notin Refreshing,
           cookie' = cookie \/ cookie' = 0 \/ (cookie' \in Tokens /\ row'[cookie'].st # "used"),
           \A v \in Workers : jobs[v].pc \in {"arrive", "mark"} => jobs[v].t \in Tokens
    PROVE  Orderly'
<1>1. jobs[w].pc \notin {"insert", "answer"}
  BY DEF Orderly, Refreshing
<1>2. job.pc \notin {"kill", "arrive", "mark", "answer"}
  BY DEF Refreshing
<1> QED
  BY <1>1, <1>2, OrderlyStep

\* Revoking uses no token up.
LEMMA RevokeUsesNone ==
    ASSUME TypeOK, NEW fs, Revoke(fs)
    PROVE  \A t \in Tokens : row'[t].st = "used" => row[t].st = "used"
<1> SUFFICES ASSUME NEW t \in Tokens PROVE row'[t].st = "used" => row[t].st = "used"
  OBVIOUS
<1>1. row[t] \in Row
  BY DEF TypeOK
<1>2. row'[t] = IF row[t].fam \in fs THEN [row[t] EXCEPT !.st = "revoked", !.born = 0] ELSE row[t]
  BY DEF Revoke
<1> QED
  BY <1>1, <1>2 DEF Row

LEMMA InsertUsesNone ==
    ASSUME TypeOK, NEW fam, NEW born, Insert(fam, born), issued + 1 \in Tokens
    PROVE  /\ \A t \in Tokens : row'[t].st = "used" => row[t].st = "used"
           /\ row'[issued + 1].st = "fresh"
BY DEF TypeOK, Insert

LEMMA OrderlyRefresh ==
    ASSUME SessionInv, Orderly, NEW w \in Workers, NEW tab \in Tabs, SendRefresh(w, tab),
           "shared" \notin noted'
    PROVE  Orderly'
<1>1. TypeOK /\ cookie \in Tokens /\ UNCHANGED <<row, cookie>>
  BY DEF SessionInv, TypeOK, SendRefresh, rowVars
<1> DEFINE job == [NoJob EXCEPT !.pc = "arrive", !.tab = tab, !.t = cookie]
<1>2. job.pc = "arrive" /\ job.tab = tab /\ job.t = cookie
  BY OtherJobs
<1>3. SetJob(w, job) /\ jobs[w].pc = "idle"
  BY DEF SendRefresh, Idle
<1>4. \A x \in Tabs : ~Waiting(x)
  BY DEF SendRefresh
<1>5. \A v \in Workers : jobs[v].tab = None
  BY <1>1, <1>4 DEF Waiting, TypeOK, Job
<1>6. tab # None
  BY SessionAssumption
<1>7. row[cookie].st # "used"
  BY <1>1, <1>5 DEF Orderly, Refreshing, TypeOK, Tokens
<1>8. \A v \in Workers : jobs[v].pc \in {"arrive", "mark"} => jobs[v].t \in Tokens
  BY DEF SessionInv, JobOK
<1> HIDE DEF job
<1> QED
  BY <1>1, <1>2, <1>3, <1>5, <1>6, <1>7, <1>8, OrderlyStep DEF Refreshing

LEMMA OrderlyRotate ==
    ASSUME SessionInv, Orderly, NEW w \in Workers, RotateRead(w)
    PROVE  Orderly'
<1>1. TypeOK /\ jobs[w] \in Job /\ jobs[w].pc = "arrive"
  BY DEF SessionInv, TypeOK, RotateRead, At
<1>2. /\ jobs[w].tab # None /\ jobs[w].tab \in Tabs \cup {None}
      /\ jobs[w].t \in Tokens /\ row[jobs[w].t].st # "used"
      /\ \A v \in Workers \ {w} : jobs[v].tab = None
  BY <1>1 DEF SessionInv, JobOK, Job, Orderly, Refreshing
<1>3. Read(w, jobs[w].tab, jobs[w].t)
  BY DEF RotateRead
<1>4. row[jobs[w].t].st \in {"absent", "revoked", "fresh"}
  BY <1>1, <1>2 DEF TypeOK, Row
<1>5. PICK job \in Job :
        /\ SetJob(w, job) /\ job.tab = jobs[w].tab
        /\ \/ job.pc = "answer" /\ job.t = 0
           \/ job.pc = "mark" /\ job.t = jobs[w].t
  BY <1>1, <1>2, <1>3, <1>4, ReadJob
<1>6. UNCHANGED <<row, cookie>>
  BY <1>3 DEF Read, rowVars
<1>7. \A v \in Workers : jobs[v].pc \in {"arrive", "mark"} => jobs[v].t \in Tokens
  BY DEF SessionInv, JobOK
<1> QED
  BY <1>1, <1>2, <1>5, <1>6, <1>7, OrderlyStep DEF Refreshing

\* The one step that uses a token up.
LEMMA OrderlyMark ==
    ASSUME SessionInv, Orderly, NEW w \in Workers, Mark(w)
    PROVE  Orderly'
<1> DEFINE m == jobs[w].t
           job == [jobs[w] EXCEPT !.pc = "insert"]
<1>1. TypeOK /\ jobs[w] \in Job /\ jobs[w].pc = "mark" /\ m \in Tokens
  BY DEF SessionInv, TypeOK, Mark, At, Rows
<1>2. jobs[w].tab # None /\ \A v \in Workers \ {w} : jobs[v].tab = None
  BY <1>1 DEF Orderly, Refreshing
<1>3. job.pc = "insert" /\ job.tab = jobs[w].tab
  BY <1>1 DEF Job
<1>4. jobs'[w] = job /\ \A v \in Workers \ {w} : jobs'[v] = jobs[v]
  BY <1>1 DEF Mark, SetJob, TypeOK
<1> HIDE DEF m, job
<1>5. \A v \in Workers \ {w} : jobs'[v].tab = None /\ jobs'[v].pc \notin Refreshing
  BY <1>2, <1>4 DEF Orderly
<1>6. jobs'[w].pc = "insert" /\ jobs'[w].tab # None
  BY <1>2, <1>3, <1>4
<1> QED
  BY <1>5, <1>6 DEF Orderly, Refreshing

LEMMA OrderlySucceed ==
    ASSUME SessionInv, Orderly, NEW w \in Workers, Succeed(w)
    PROVE  Orderly'
<1>0. issued \in Nat /\ issued + 1 \in Tokens
  <2>1. issued \in Nat /\ issued < MaxTokens
    BY DEF SessionInv, TypeOK, Succeed, Insertable
  <2> QED
    BY <2>1, SessionAssumption DEF Tokens
<1>1. PICK n \in Tokens : n = issued + 1
  BY <1>0
<1> DEFINE job == Answering(jobs[w].tab, n)
<1>2. TypeOK /\ jobs[w] \in Job /\ jobs[w].pc = "insert"
  BY DEF SessionInv, TypeOK, Succeed, At
<1>3. /\ jobs[w].tab # None /\ jobs[w].tab \in Tabs \cup {None}
      /\ \A v \in Workers \ {w} : jobs[v].tab = None
  BY <1>2 DEF Orderly, Refreshing, Job
<1>4. job.pc = "answer" /\ job.t = n /\ job.tab = jobs[w].tab
  BY <1>3, AnsweringIs
<1>5. SetJob(w, job) /\ cookie' = cookie /\ Insert(row[jobs[w].t].fam, row[jobs[w].t].born)
  BY <1>1 DEF Succeed
<1>6. /\ \A t \in Tokens : row'[t].st = "used" => row[t].st = "used"
      /\ row'[n].st = "fresh"
  BY <1>0, <1>1, <1>2, <1>5, InsertUsesNone
<1>7. \A v \in Workers : jobs[v].pc \in {"arrive", "mark"} => jobs[v].t \in Tokens
  BY DEF SessionInv, JobOK
<1> HIDE DEF job
<1> QED
  BY <1>2, <1>3, <1>4, <1>5, <1>6, <1>7, OrderlyStep DEF Refreshing

LEMMA OrderlyAnswer ==
    ASSUME SessionInv, Orderly, NEW w \in Workers, Answer(w)
    PROVE  Orderly'
<1>1. TypeOK /\ jobs[w] \in Job /\ jobs[w].pc = "answer" /\ row' = row /\ SetJob(w, NoJob)
  BY DEF SessionInv, TypeOK, Answer, At, rowVars
<1>2. jobs[w].t # 0 => jobs[w].t \in Tokens /\ row[jobs[w].t].st # "used"
  BY <1>1 DEF Orderly, Job
<1>3. cookie' = 0 \/ (cookie' \in Tokens /\ row'[cookie'].st # "used")
  BY <1>1, <1>2 DEF Answer
<1>4. NoJob.pc = "idle" /\ NoJob.tab = None
  BY OtherJobs
<1>5. \A v \in Workers : jobs[v].pc \in {"arrive", "mark"} => jobs[v].t \in Tokens
  BY DEF SessionInv, JobOK
<1> QED
  BY <1>1, <1>3, <1>4, <1>5, OrderlyStep DEF Refreshing

\* Logins, changes and resets are no refreshes.
LEMMA OrderlyLogin ==
    ASSUME SessionInv, Orderly, NEW w \in Workers,
           LoginRead(w) \/ Upgrade(w) \/ Issue(w) \/ ChangeRead(w) \/ ResetRead(w) \/ ResetSet(w)
    PROVE  Orderly'
<1>1. /\ TypeOK /\ jobs[w] \in Job
      /\ \A v \in Workers : jobs[v].pc \in {"arrive", "mark"} => jobs[v].t \in Tokens
  BY DEF SessionInv, JobOK, TypeOK
<1>2. jobs[w].tab = None
  <2>1. jobs[w].pc \in {"idle", "upgrade", "issue", "reset"}
    BY DEF LoginRead, Upgrade, Issue, ChangeRead, ResetRead, ResetSet, Idle, At
  <2> QED
    BY <2>1 DEF Orderly, Refreshing
<1>3. ASSUME NEW job, SetJob(w, job), job.tab = None, job.pc \in {"issue", "upgrade",
             "change", "reset", "revokeAll"},
             row' = row, cookie' = cookie
      PROVE  Orderly'
  <2>1. job.pc \notin Refreshing
    BY <1>3 DEF Refreshing
  <2> QED
    BY <1>1, <1>2, <1>3, <2>1, OrderlyElsewhere
<1>4. CASE LoginRead(w)
  <2>1. PICK pc \in {"issue", "upgrade"} : SetJob(w, [NoJob EXCEPT !.pc = pc, !.pw = pw])
    BY <1>4 DEF LoginRead
  <2>2. row' = row /\ cookie' = cookie
    BY <1>4 DEF LoginRead, rowVars
  <2>3. PICK job : job = [NoJob EXCEPT !.pc = pc, !.pw = pw]
    OBVIOUS
  <2>4. job.tab = None /\ job.pc = pc
    BY <2>3, OtherJobs
  <2> QED
    BY <1>3, <2>1, <2>2, <2>3, <2>4
<1>5. CASE Upgrade(w) \/ ResetSet(w)
  <2>1. PICK pc \in {"issue", "revokeAll"} : SetJob(w, [jobs[w] EXCEPT !.pc = pc])
    BY <1>5 DEF Upgrade, ResetSet
  <2>2. row' = row /\ cookie' = cookie
    BY <1>5 DEF Upgrade, ResetSet, rowVars
  <2>3. PICK job : job = [jobs[w] EXCEPT !.pc = pc]
    OBVIOUS
  <2>4. job.tab = None /\ job.pc = pc
    BY <1>1, <1>2, <2>3, OtherJobs
  <2> QED
    BY <1>3, <2>1, <2>2, <2>3, <2>4
<1>6. CASE ChangeRead(w) \/ ResetRead(w)
  <2>1. PICK pc \in {"change", "reset"} : SetJob(w, [NoJob EXCEPT !.pc = pc])
    BY <1>6 DEF ChangeRead, ResetRead
  <2>2. row' = row /\ cookie' = cookie
    BY <1>6 DEF ChangeRead, ResetRead, rowVars
  <2>3. PICK job : job = [NoJob EXCEPT !.pc = pc]
    OBVIOUS
  <2>4. job.tab = None /\ job.pc = pc
    BY <2>3, OtherJobs
  <2> QED
    BY <1>3, <2>1, <2>2, <2>3, <2>4
<1>7. CASE Issue(w)
  <2>1. issued \in Nat /\ issued + 1 \in Tokens
    <3>1. issued \in Nat /\ issued < MaxTokens
      BY <1>1, <1>7 DEF TypeOK, Issue, Insertable
    <3> QED
      BY <3>1, SessionAssumption DEF Tokens
  <2>2. SetJob(w, NoJob) /\ Insert(issued + 1, jobs[w].pw) /\ cookie' \in {cookie, issued + 1}
    BY <1>7 DEF Issue
  <2>3. /\ \A t \in Tokens : row'[t].st = "used" => row[t].st = "used"
        /\ row'[issued + 1].st = "fresh"
    BY <1>1, <2>1, <2>2, InsertUsesNone
  <2>4. cookie' = cookie \/ (cookie' \in Tokens /\ row'[cookie'].st # "used")
    BY <2>1, <2>2, <2>3
  <2>5. NoJob.tab = None /\ NoJob.pc \notin Refreshing
    BY OtherJobs DEF Refreshing
  <2> QED
    BY <1>1, <1>2, <2>2, <2>3, <2>4, <2>5, OrderlyElsewhere
<1> QED
  BY <1>4, <1>5, <1>6, <1>7

\* Requests that revoke a user's sessions, and requests that end.
LEMMA OrderlyEnd ==
    ASSUME SessionInv, Orderly, NEW w \in Workers,
           ChangePassword(w) \/ ResetRevoke(w) \/ Lose(w), "shared" \notin noted'
    PROVE  Orderly'
<1>1. /\ TypeOK /\ jobs[w] \in Job
      /\ \A v \in Workers : jobs[v].pc \in {"arrive", "mark"} => jobs[v].t \in Tokens
  BY DEF SessionInv, JobOK, TypeOK
<1>2. jobs[w].tab = None
  <2>1. CASE Lose(w)
    BY <2>1 DEF Lose
  <2>2. CASE ChangePassword(w) \/ ResetRevoke(w)
    <3>1. jobs[w].pc \in {"change", "revokeAll"}
      BY <2>2 DEF ChangePassword, ResetRevoke, At
    <3> QED
      BY <3>1 DEF Orderly, Refreshing
  <2> QED
    BY <2>1, <2>2
<1>3. SetJob(w, NoJob) /\ (cookie' = cookie \/ cookie' = 0)
  BY DEF ChangePassword, ResetRevoke, Lose
<1>4. \A t \in Tokens : row'[t].st = "used" => row[t].st = "used"
  <2>1. CASE Lose(w)
    BY <2>1 DEF Lose, rowVars
  <2>2. CASE ChangePassword(w) \/ ResetRevoke(w)
    <3>1. Revoke(Families)
      BY <2>2 DEF ChangePassword, ResetRevoke
    <3> QED
      BY <1>1, <3>1, RevokeUsesNone
  <2> QED
    BY <2>1, <2>2
<1>5. NoJob.tab = None /\ NoJob.pc \notin Refreshing
  BY OtherJobs DEF Refreshing
<1> QED
  BY <1>1, <1>2, <1>3, <1>4, <1>5, OrderlyElsewhere

\* Steps that leave the requests alone.
LEMMA OrderlyAround ==
    ASSUME SessionInv, Orderly, jobs' = jobs, cookie' \in {cookie, 0},
           \A t \in Tokens : row'[t].st = "used" => row[t].st = "used"
    PROVE  Orderly'
<1>1. /\ \A v \in Workers : jobs[v] \in Job /\ jobs[v].t \in Tokens \cup {0}
      /\ \A v \in Workers : jobs[v].pc \in {"arrive", "mark"} => jobs[v].t \in Tokens
      /\ cookie \in Tokens \cup {0}
  BY DEF SessionInv, TypeOK, JobOK, Job
<1>2. ASSUME cookie' # 0, \A w \in Workers : jobs[w].pc \notin {"insert", "answer"}
      PROVE  row'[cookie'].st # "used"
  <2>1. cookie' = cookie /\ cookie \in Tokens
    BY <1>1, <1>2
  <2> QED
    BY <1>2, <2>1 DEF Orderly
<1> QED
  BY <1>1, <1>2 DEF Orderly

LEMMA OrderlyInit == Init => OrderlyInv
<1> SUFFICES ASSUME Init PROVE Orderly
  BY DEF OrderlyInv
<1>1. \A w \in Workers : jobs[w].pc = "idle" /\ jobs[w].tab = None
  BY OtherJobs DEF Init
<1>2. cookie = 0
  BY DEF Init
<1> QED
  BY <1>1, <1>2 DEF Orderly, Refreshing

LEMMA OrderlyNext ==
    ASSUME SessionInv, OrderlyInv, [Next]_vars
    PROVE  OrderlyInv'
<1> SUFFICES ASSUME "shared" \notin noted' PROVE Orderly'
  BY DEF OrderlyInv
<1>0. TypeOK
  BY DEF SessionInv
<1>1. Orderly
  <2>1. noted \subseteq noted'
    BY DEF Next, Requests, LoginRead, Upgrade, Issue, SendRefresh, RotateRead, RotateOrphan,
           Kill, Mark, Succeed, Answer, Lose, Logout, ChangeRead, ChangePassword, ResetRead,
           ResetSet, ResetRevoke, Forgot, DeleteAccount, historyVars, vars
  <2> QED
    BY <2>1 DEF OrderlyInv
<1>2. ASSUME NEW w \in Workers, Requests(w) PROVE Orderly'
  <2>1. ~Kill(w)
    BY <1>1 DEF Kill, At, Orderly
  <2>2. \A t \in Tokens : ~RotateOrphan(w, t)
    BY DEF RotateOrphan
  <2>3. ASSUME Logout(w) PROVE Orderly'
    <3>1. Revoke({row[cookie].fam} \ {0}) /\ jobs' = jobs /\ cookie' = 0
      BY <2>3 DEF Logout
    <3>2. \A t \in Tokens : row'[t].st = "used" => row[t].st = "used"
      BY <1>0, <3>1, RevokeUsesNone
    <3> QED
      BY <1>1, <3>1, <3>2, OrderlyAround
  <2> QED
    BY <1>1, <1>2, <2>1, <2>2, <2>3, OrderlyLogin, OrderlyRefresh, OrderlyRotate,
       OrderlyMark, OrderlySucceed, OrderlyAnswer, OrderlyEnd DEF Requests
<1>3. CASE Forgot \/ UNCHANGED vars
  <2>1. jobs' = jobs /\ cookie' = cookie /\ row' = row
    BY <1>3 DEF Forgot, vars, rowVars
  <2> QED
    BY <1>1, <2>1, OrderlyAround
<1>4. CASE DeleteAccount
  <2>1. jobs' = jobs /\ cookie' = cookie /\ \A t \in Tokens : row'[t] = NoRow
    BY <1>4 DEF DeleteAccount
  <2>2. NoRow.st = "absent"
    BY DEF NoRow
  <2> QED
    BY <1>1, <2>1, <2>2, OrderlyAround
<1> QED
  BY <1>2, <1>3, <1>4 DEF Next

-----------------------------------------------------------------------------
(* Theorems *)

\* What a usable token and a rotation under way rest on, in every reachable state.
THEOREM SessionsInductive == Spec => []SessionInv
BY SessionInitially, SessionNext, PTL DEF Spec

\* A family that was revoked by logout, reuse, a new password or a reset has no
\* usable token, unless a rotation in it was under way at that moment.
THEOREM SessionsStayEnded == Spec => []EndedStaysEnded
BY SessionsInductive, SessionInvEnds, PTL

\* Usable tokens are of the present password, with the exceptions that the
\* property names, and a deleted account has no tokens.
THEOREM SessionsAreTheAccounts == Spec => []SessionsFollowAccount
BY SessionsInductive, SessionInvFollows, PTL

\* A family is one chain of tokens, with one usable at most, unless two
\* rotations read one token before either had marked it.
THEOREM FamiliesAreChains == Spec => []ForkNeedsRace
<1>1. Init => ChainsInv
  BY ChainsInit
<1>2. SessionInv /\ ChainsInv /\ [Next]_vars => ChainsInv'
  BY ChainsNext
<1> QED
  BY <1>1, <1>2, SessionsInductive, ChainsAreChains, PTL DEF Spec

\* A browser that works in one tab at a time and gets its answers never presents
\* a used token, so reuse detection does not end its session.
THEOREM NoFalseAlarm == Spec => []AlarmNeedsCause
<1>1. OrderlyInv => AlarmNeedsCause
  BY DEF OrderlyInv, Orderly, AlarmNeedsCause, At
<1>2. SessionInv /\ OrderlyInv /\ [Next]_vars => OrderlyInv'
  BY OrderlyNext
<1> QED
  BY <1>1, <1>2, OrderlyInit, SessionsInductive, PTL DEF Spec

-----------------------------------------------------------------------------
(* Whose carts and orders are *)

\* The email is the account's, or one that it gave up.
WasOf(u, e) == e = account[u].email \/ <<u, e>> \in released

\* An account signs in by its own emails.
AccountsOwn ==
    /\ \A u, v \in Registered : account[u].email = account[v].email => u = v
    /\ \A u \in Registered : account[u].google # Nothing => WasOf(u, account[u].google)
    /\ deleted \cap Registered = {}

\* A cart has its account's id and email, and so has one about to be created
\* while the account is there.
CartsOwn ==
    /\ \A c \in Carts : cart[c].user \in Registered /\ WasOf(cart[c].user, cart[c].email)
    /\ \A k \in Clicks : adding[k] # Nothing =>
          \/ adding[k].user \in Registered /\ WasOf(adding[k].user, adding[k].email)
          \/ adding[k].user \in deleted

\* An account has one cart, or one addition that is about to create it.
OneCart ==
    \A u \in Registered : ~Renamed(u) /\ u \notin twice =>
        /\ \A c, d \in CartsOfUser(u) : c = d
        /\ \A j, k \in Clicks :
              /\ adding[j] # Nothing /\ adding[j].user = u
              /\ adding[k] # Nothing /\ adding[k].user = u
              => j = k
        /\ \A k \in Clicks : adding[k] # Nothing /\ adding[k].user = u => CartsOfUser(u) = {}

OrdersOwn == \A o \in OrdersPlaced : placed[o].user \in Registered \cup {Nothing}

IdInv == IdTypeOK /\ AccountsOwn /\ CartsOwn /\ OneCart /\ OrdersOwn

LEMMA IdInitially == IdInit => IdInv
<1> SUFFICES ASSUME IdInit PROVE IdInv
  OBVIOUS
<1>1. IdTypeOK
  BY DEF IdInit, IdTypeOK
<1>2. Registered = {} /\ Carts = {} /\ OrdersPlaced = {} /\ \A k \in Clicks : adding[k] = Nothing
  BY DEF IdInit, Registered, Carts, OrdersPlaced
<1> QED
  BY <1>1, <1>2 DEF IdInv, AccountsOwn, CartsOwn, OneCart, OrdersOwn

\* The rows that the steps write.
LEMMA RowsWritten ==
    /\ \A u \in Persons, e, f \in Emails : [email |-> e, google |-> f] \in Account
    /\ \A e \in Emails : [email |-> e, google |-> Nothing] \in Account
    /\ \A a \in Account, e \in Emails :
          /\ [a EXCEPT !.email = e] \in Account /\ [a EXCEPT !.google = e] \in Account
          /\ [a EXCEPT !.email = e].email = e /\ [a EXCEPT !.email = e].google = a.google
          /\ [a EXCEPT !.google = e].email = a.email /\ [a EXCEPT !.google = e].google = e
    /\ \A b \in Basket, full \in BOOLEAN :
          /\ [b EXCEPT !.full = full] \in Basket
          /\ [b EXCEPT !.full = full].user = b.user /\ [b EXCEPT !.full = full].email = b.email
BY DEF Account, Basket

LEMMA IdTyped ==
    ASSUME IdTypeOK
    PROVE  /\ \A u \in Registered : /\ u \in Persons /\ account[u] \in Account
                                    /\ account[u].email \in Emails
                                    /\ account[u].google \in Emails \cup {Nothing}
           /\ \A c \in Carts : /\ c \in CartIds /\ cart[c] \in Basket
                               /\ cart[c].user \in Persons /\ cart[c].email \in Emails
           /\ \A k \in Clicks : adding[k] # Nothing =>
                 /\ adding[k] \in Adding
                 /\ adding[k].user \in Persons /\ adding[k].email \in Emails
           /\ \A o \in OrdersPlaced : o \in OrderIds /\ placed[o] \in Placed
BY DEF IdTypeOK, Registered, Carts, OrdersPlaced, Account, Basket, Adding

LEMMA IdTypeNext ==
    ASSUME IdTypeOK, IdNext
    PROVE  IdTypeOK'
<1>1. ASSUME NEW u \in Persons, NEW e \in Emails, Register(u, e) PROVE IdTypeOK'
  BY <1>1, RowsWritten DEF Register, IdTypeOK
<1>2. ASSUME NEW u \in Persons, NEW e \in Emails, GoogleRegister(u, e) PROVE IdTypeOK'
  BY <1>2, RowsWritten DEF GoogleRegister, IdTypeOK
<1>3. ASSUME NEW u \in Persons, NEW e \in Emails, GoogleLink(u, e) PROVE IdTypeOK'
  <2>1. u \in Registered
    BY <1>3 DEF GoogleLink, GoogleMatches
  <2> QED
    BY <1>3, <2>1, RowsWritten, IdTyped DEF GoogleLink, IdTypeOK
<1>4. ASSUME NEW u \in Persons, NEW e \in Emails, UpdateUserDetails(u, e) PROVE IdTypeOK'
  <2>1. u \in Registered /\ account[u].email \in Emails
    BY <1>4, IdTyped DEF UpdateUserDetails
  <2>2. [account[u] EXCEPT !.email = e] \in Account
    BY <2>1, RowsWritten, IdTyped
  <2>3. released \cup {<<u, account[u].email>>} \in SUBSET (Persons \X Emails)
    BY <2>1 DEF IdTypeOK
  <2> QED
    BY <1>4, <2>2, <2>3 DEF UpdateUserDetails, IdTypeOK
<1>5. ASSUME NEW u \in Persons, NEW e \in Emails, NEW o \in OrderIds, CreateOrder(u, e, o)
      PROVE  IdTypeOK'
  BY <1>5 DEF CreateOrder, IdTypeOK, Placed
<1>6. ASSUME NEW u \in Persons, DeleteEverything(u) PROVE IdTypeOK'
  <2>1. \A o \in OwnOrders(u) : [placed[o] EXCEPT !.user = Nothing, !.email = Nothing] \in Placed
    <3>1. \A o \in OwnOrders(u) : placed[o] \in Placed
      BY IdTyped DEF OwnOrders, OrdersOf
    <3> QED
      BY <3>1 DEF Placed
  <2> QED
    BY <1>6, <2>1 DEF DeleteEverything, IdTypeOK
<1>7. ASSUME NEW c \in CartIds, NEW full \in BOOLEAN, cart[c] # Nothing,
             Fill(c, full)
      PROVE  cart' \in [CartIds -> Basket \cup {Nothing}]
  BY <1>7, RowsWritten DEF Fill, IdTypeOK
<1>8. ASSUME NEW u \in Persons, NEW by, EmptyCart(u, by) PROVE IdTypeOK'
  <2>1. PICK c \in CartsSeen(u, by) : Fill(c, FALSE)
    BY <1>8 DEF EmptyCart
  <2>2. c \in CartIds /\ cart[c] # Nothing
    BY DEF CartsSeen, CartsOfEmail, CartsOfUser, Carts
  <2> QED
    BY <1>7, <1>8, <2>1, <2>2 DEF EmptyCart, IdTypeOK
<1>9. ASSUME NEW u \in Persons, NEW by, NEW k \in Clicks, AddToCart(k, u, by) PROVE IdTypeOK'
  <2>1. CASE \E c \in CartsSeen(u, by) : Fill(c, TRUE) /\ UNCHANGED <<adding, twice>>
    <3>1. PICK c \in CartsSeen(u, by) : Fill(c, TRUE)
      BY <2>1
    <3>2. c \in CartIds /\ cart[c] # Nothing
      BY DEF CartsSeen, CartsOfEmail, CartsOfUser, Carts
    <3> QED
      BY <1>7, <1>9, <2>1, <3>1, <3>2 DEF AddToCart, IdTypeOK
  <2>2. CASE /\ adding' = [adding EXCEPT ![k] = [user |-> u, email |-> account[u].email]]
             /\ twice' \subseteq twice \cup {u} /\ UNCHANGED cart
    <3>1. [user |-> u, email |-> account[u].email] \in Adding
      BY <1>9, IdTyped DEF AddToCart, Adding
    <3> QED
      BY <1>9, <2>2, <3>1 DEF AddToCart, IdTypeOK
  <2> QED
    BY <1>9, <2>1, <2>2 DEF AddToCart
<1>10. ASSUME NEW k \in Clicks, CreateCart(k) PROVE IdTypeOK'
  <2>1. [user |-> adding[k].user, email |-> adding[k].email, full |-> TRUE] \in Basket
    BY <1>10, IdTyped DEF CreateCart, Basket
  <2> QED
    BY <1>10, <2>1 DEF CreateCart, IdTypeOK
<1>11. ASSUME NEW k \in Clicks, Abandon(k) PROVE IdTypeOK'
  BY <1>11 DEF Abandon, IdTypeOK
<1>12. ASSUME NEW o \in OrderIds, NEW st \in {"confirmed", "closed"}, o \in OrdersPlaced
       PROVE  [placed EXCEPT ![o].st = st] \in [OrderIds -> Placed \cup {Nothing}]
  BY <1>12, IdTyped DEF IdTypeOK, Placed
<1>13. ASSUME NEW o \in OrderIds, Confirm(o) PROVE IdTypeOK'
  <2>1. cart' \in [CartIds -> Basket \cup {Nothing}]
    <3>1. CASE \E c \in CartsOfEmail(placed[o].email) : Fill(c, FALSE)
      <4>1. PICK c \in CartsOfEmail(placed[o].email) : Fill(c, FALSE)
        BY <3>1
      <4>2. c \in CartIds /\ cart[c] # Nothing
        BY DEF CartsOfEmail, Carts
      <4>3. PICK full \in BOOLEAN : Fill(c, full)
        BY <4>1
      <4> QED
        BY <1>7, <4>2, <4>3
    <3> QED
      BY <1>13, <3>1 DEF Confirm, IdTypeOK
  <2> QED
    BY <1>12, <1>13, <2>1 DEF Confirm, IdTypeOK
<1>14. ASSUME NEW o \in OrderIds, Close(o) PROVE IdTypeOK'
  BY <1>12, <1>14 DEF Close, IdTypeOK
<1> QED
  BY <1>1, <1>2, <1>3, <1>4, <1>5, <1>6, <1>8, <1>9, <1>10, <1>11, <1>13, <1>14 DEF IdNext

\* Accounts come, change and are renamed.
LEMMA AccountSteps ==
    ASSUME IdInv, NEW u \in Persons, NEW e \in Emails,
           Register(u, e) \/ GoogleRegister(u, e) \/ GoogleLink(u, e) \/ UpdateUserDetails(u, e)
    PROVE  /\ UNCHANGED <<cart, placed, adding, twice, deleted>> /\ released \subseteq released'
           /\ Registered' = Registered \cup {u} /\ u \notin deleted
           /\ \A v \in Registered, x \in Emails : WasOf(v, x) => WasOf(v, x)'
           /\ AccountsOwn'
<1>0. /\ IdTypeOK /\ AccountsOwn /\ Nothing \notin Account
      /\ \A v \in Registered : account[v] \in Account /\ account[v].email \in Emails
      /\ account \in [Persons -> Account \cup {Nothing}]
  BY AccountsAssumption, IdTyped DEF IdInv, IdTypeOK
<1>1. PICK a \in Account : account' = [account EXCEPT ![u] = a]
  <2>1. CASE Register(u, e) \/ GoogleRegister(u, e)
    BY <2>1, RowsWritten DEF Register, GoogleRegister
  <2>2. CASE GoogleLink(u, e) \/ UpdateUserDetails(u, e)
    <3>1. u \in Registered
      BY <2>2 DEF GoogleLink, GoogleMatches, UpdateUserDetails
    <3> QED
      BY <1>0, <2>2, <3>1, RowsWritten DEF GoogleLink, UpdateUserDetails
  <2> QED
    BY <2>1, <2>2
<1>2. \A v \in Persons : account'[v] = IF v = u THEN a ELSE account[v]
  BY <1>0, <1>1
<1>3. Registered' = Registered \cup {u}
  BY <1>0, <1>2 DEF Registered
<1>4. UNCHANGED <<cart, placed, adding, twice, deleted>> /\ released \subseteq released'
  BY DEF Register, GoogleRegister, GoogleLink, UpdateUserDetails
<1>5. u \notin deleted
  BY <1>0 DEF Register, GoogleRegister, GoogleLink, GoogleMatches, UpdateUserDetails, AccountsOwn
\* The email of the row that is written is no other account's, and the Google
\* account is the row's email or was there.
<1>6. /\ \A v \in Registered \ {u} : account[v].email # a.email
      /\ u \in Registered => <<u, account[u].email>> \in released' \/ a.email = account[u].email
      /\ \/ a.google = Nothing \/ a.google = a.email
         \/ u \in Registered /\ a.google = account[u].google
  <2>1. CASE Register(u, e)
    <3>1. a = [email |-> e, google |-> Nothing]
      BY <1>0, <1>1, <2>1 DEF Register
    <3>2. u \notin Registered /\ \A v \in Registered : account[v].email # e
      BY <2>1 DEF Register, Registered, EmailFree
    <3> QED
      BY <3>1, <3>2
  <2>2. CASE GoogleRegister(u, e)
    <3>1. a = [email |-> e, google |-> e]
      BY <1>0, <1>1, <2>2 DEF GoogleRegister
    <3>2. u \notin Registered /\ \A v \in Registered : account[v].email # e
      BY <2>2 DEF GoogleRegister, Registered, GoogleMatches
    <3> QED
      BY <3>1, <3>2
  <2>3. CASE GoogleLink(u, e)
    <3>1. u \in Registered /\ account[u].google = Nothing /\ account[u].email = e
      BY <2>3, AccountsAssumption DEF GoogleLink, GoogleMatches
    <3>2. a = [account[u] EXCEPT !.google = e]
      BY <1>0, <1>1, <2>3 DEF GoogleLink
    <3>3. a.email = e /\ a.google = e
      BY <1>0, <3>1, <3>2, RowsWritten
    <3> QED
      BY <1>0, <3>1, <3>3 DEF AccountsOwn
  <2>4. CASE UpdateUserDetails(u, e)
    <3>1. u \in Registered /\ \A v \in Registered : account[v].email # e
      BY <2>4 DEF UpdateUserDetails, EmailFree
    <3>2. a = [account[u] EXCEPT !.email = e]
      BY <1>0, <1>1, <2>4 DEF UpdateUserDetails
    <3>3. a.email = e /\ a.google = account[u].google
      BY <1>0, <3>1, <3>2, RowsWritten
    <3>4. <<u, account[u].email>> \in released'
      BY <2>4 DEF UpdateUserDetails
    <3> QED
      BY <3>1, <3>3, <3>4
  <2> QED
    BY <2>1, <2>2, <2>3, <2>4
<1>7. \A v \in Registered, x \in Emails : WasOf(v, x) => WasOf(v, x)'
  <2> SUFFICES ASSUME NEW v \in Registered, NEW x \in Emails, WasOf(v, x)
               PROVE  x = account'[v].email \/ <<v, x>> \in released'
    BY DEF WasOf
  <2>1. v \in Persons
    BY DEF Registered
  <2> QED
    BY <1>2, <1>4, <1>6, <2>1 DEF WasOf
<1>8. ASSUME NEW v \in Registered', NEW w \in Registered', account'[v].email = account'[w].email
      PROVE  v = w
  <2>1. v \in Persons /\ w \in Persons /\ v \in Registered \cup {u} /\ w \in Registered \cup {u}
    BY <1>3 DEF Registered
  <2> QED
    BY <1>0, <1>2, <1>6, <1>8, <2>1 DEF AccountsOwn
<1>9. ASSUME NEW v \in Registered', account'[v].google # Nothing
      PROVE  WasOf(v, account[v].google)'
  <2>1. v \in Persons /\ v \in Registered \cup {u}
    BY <1>3 DEF Registered
  <2>2. CASE v # u \/ (v \in Registered /\ a.google = account[v].google)
    <3>1. v \in Registered /\ account'[v].google = account[v].google
      BY <1>2, <2>1, <2>2
    <3>2. WasOf(v, account[v].google) /\ account[v].google \in Emails
      BY <1>0, <1>9, <3>1, IdTyped DEF AccountsOwn
    <3>3. PICK x \in Emails : x = account[v].google
      BY <3>2
    <3>4. WasOf(v, x)'
      BY <1>7, <3>1, <3>2, <3>3
    <3> QED
      BY <3>1, <3>3, <3>4 DEF WasOf
  <2>3. CASE v = u /\ a.google = a.email
    BY <1>2, <2>1, <2>3 DEF WasOf
  <2> QED
    BY <1>2, <1>6, <1>9, <2>1, <2>2, <2>3
<1>10. deleted' \cap Registered' = {}
  BY <1>0, <1>3, <1>4, <1>5 DEF AccountsOwn
<1>11. AccountsOwn'
  BY <1>8, <1>9, <1>10 DEF AccountsOwn
<1> QED
  BY <1>3, <1>4, <1>5, <1>7, <1>11

LEMMA IdAccounts ==
    ASSUME IdInv, NEW u \in Persons, NEW e \in Emails,
           Register(u, e) \/ GoogleRegister(u, e) \/ GoogleLink(u, e) \/ UpdateUserDetails(u, e)
    PROVE  AccountsOwn' /\ CartsOwn' /\ OneCart' /\ OrdersOwn'
<1>1. /\ UNCHANGED <<cart, placed, adding, twice, deleted>> /\ released \subseteq released'
      /\ Registered' = Registered \cup {u} /\ u \notin deleted
      /\ \A v \in Registered, x \in Emails : WasOf(v, x) => WasOf(v, x)'
      /\ AccountsOwn'
  BY AccountSteps
<1>2. IdTypeOK
  BY DEF IdInv
<1>3. Carts' = Carts /\ OrdersPlaced' = OrdersPlaced
  BY <1>1 DEF Carts, OrdersPlaced
<1>4. CartsOwn'
  <2>1. ASSUME NEW c \in Carts'
        PROVE  cart'[c].user \in Registered' /\ WasOf(cart[c].user, cart[c].email)'
    <3>1. c \in Carts /\ cart'[c] = cart[c]
      BY <1>1, <1>3
    <3>2. PICK v \in Registered, x \in Emails : v = cart[c].user /\ x = cart[c].email
      BY <1>2, <3>1, IdTyped DEF IdInv, CartsOwn
    <3>3. WasOf(v, x)
      BY <3>1, <3>2 DEF IdInv, CartsOwn
    <3>4. WasOf(v, x)'
      BY <1>1, <3>3
    <3> QED
      BY <1>1, <3>1, <3>2, <3>4 DEF WasOf
  <2>2. ASSUME NEW k \in Clicks, adding'[k] # Nothing
        PROVE  \/ adding'[k].user \in Registered' /\ WasOf(adding[k].user, adding[k].email)'
               \/ adding'[k].user \in deleted'
    <3>1. adding'[k] = adding[k]
      BY <1>1
    <3>2. CASE adding[k].user \in Registered /\ WasOf(adding[k].user, adding[k].email)
      <4>1. PICK v \in Registered, x \in Emails : v = adding[k].user /\ x = adding[k].email
        BY <1>2, <2>2, <3>1, <3>2, IdTyped
      <4>2. WasOf(v, x)'
        BY <1>1, <3>2, <4>1
      <4> QED
        BY <1>1, <3>1, <4>1, <4>2 DEF WasOf
    <3> QED
      BY <1>1, <2>2, <3>1, <3>2 DEF IdInv, CartsOwn
  <2> QED
    BY <2>1, <2>2 DEF CartsOwn
<1>5. OneCart'
  <2> SUFFICES ASSUME NEW v \in Registered', ~Renamed(v)', v \notin twice'
               PROVE  /\ \A c, d \in CartsOfUser(v)' : c = d
                      /\ \A j, k \in Clicks :
                            /\ adding'[j] # Nothing /\ adding'[j].user = v
                            /\ adding'[k] # Nothing /\ adding'[k].user = v
                            => j = k
                      /\ \A k \in Clicks : adding'[k] # Nothing /\ adding'[k].user = v =>
                            CartsOfUser(v)' = {}
    BY DEF OneCart
  <2>1. CartsOfUser(v)' = CartsOfUser(v)
    BY <1>1, <1>3 DEF CartsOfUser
  <2>2. ~Renamed(v)
    BY <1>1 DEF Renamed
  <2>3. CASE v \in Registered
    BY <1>1, <2>1, <2>2, <2>3 DEF IdInv, OneCart
  <2>4. CASE v \notin Registered
    <3>1. CartsOfUser(v) = {}
      BY <2>4 DEF IdInv, CartsOwn, CartsOfUser
    <3>2. \A k \in Clicks : adding[k] # Nothing => adding[k].user # v
      BY <1>1, <2>4 DEF IdInv, CartsOwn
    <3> QED
      BY <1>1, <2>1, <3>1, <3>2
  <2> QED
    BY <2>3, <2>4
<1> QED
  BY <1>1, <1>3, <1>4, <1>5 DEF IdInv, OrdersOwn

LEMMA IdDeletion ==
    ASSUME IdInv, NEW u \in Persons, DeleteEverything(u)
    PROVE  AccountsOwn' /\ CartsOwn' /\ OneCart' /\ OrdersOwn'
<1>0. IdTypeOK /\ Nothing \notin Persons /\ u \in Registered
  BY AccountsAssumption DEF IdInv, DeleteEverything
<1>1. /\ \A v \in Persons : account'[v] = IF v = u THEN Nothing ELSE account[v]
      /\ \A c \in CartIds : cart'[c] = IF c \in CartsOfUser(u) THEN Nothing ELSE cart[c]
      /\ deleted' = deleted \cup {u} /\ UNCHANGED <<adding, released, twice>>
  BY <1>0 DEF DeleteEverything, IdTypeOK
<1>2. Registered' = Registered \ {u}
  BY <1>0, <1>1 DEF Registered
<1>3. Carts' = Carts \ CartsOfUser(u) /\ \A c \in Carts' : cart'[c] = cart[c]
  BY <1>1 DEF Carts, CartsOfUser
<1>4. \A v \in Registered' : \A x : WasOf(v, x)' <=> WasOf(v, x)
  BY <1>1, <1>2 DEF WasOf, Registered
<1>5. AccountsOwn'
  <2>1. \A v, w \in Registered' : account'[v].email = account'[w].email => v = w
    BY <1>1, <1>2 DEF IdInv, AccountsOwn, Registered
  <2>2. ASSUME NEW v \in Registered', account'[v].google # Nothing
        PROVE  WasOf(v, account[v].google)'
    <3>1. v \in Registered /\ account'[v] = account[v]
      BY <1>1, <1>2 DEF Registered
    <3>2. WasOf(v, account[v].google)
      BY <2>2, <3>1 DEF IdInv, AccountsOwn
    <3> QED
      BY <1>1, <3>1, <3>2 DEF WasOf
  <2> QED
    BY <1>1, <1>2, <2>1, <2>2 DEF IdInv, AccountsOwn
<1>6. CartsOwn'
  <2>1. ASSUME NEW c \in Carts'
        PROVE  cart'[c].user \in Registered' /\ WasOf(cart[c].user, cart[c].email)'
    <3>1. c \in Carts /\ cart'[c] = cart[c] /\ cart[c].user # u
      BY <1>3 DEF CartsOfUser
    <3>2. cart[c].user \in Registered' /\ WasOf(cart[c].user, cart[c].email)
      BY <1>2, <3>1 DEF IdInv, CartsOwn
    <3> QED
      BY <1>1, <1>2, <3>1, <3>2 DEF WasOf, Registered
  <2>2. ASSUME NEW k \in Clicks, adding'[k] # Nothing
        PROVE  \/ adding'[k].user \in Registered' /\ WasOf(adding[k].user, adding[k].email)'
               \/ adding'[k].user \in deleted'
    <3>1. adding'[k] = adding[k]
      BY <1>1
    <3>2. \/ adding[k].user \in Registered \ {u} /\ WasOf(adding[k].user, adding[k].email)
          \/ adding[k].user \in deleted'
      BY <1>1, <2>2, <3>1 DEF IdInv, CartsOwn
    <3> QED
      BY <1>1, <1>2, <3>1, <3>2 DEF WasOf, Registered
  <2> QED
    BY <2>1, <2>2 DEF CartsOwn
<1>7. OneCart'
  <2>1. \A v \in Registered' : CartsOfUser(v)' = CartsOfUser(v)
    BY <1>2, <1>3 DEF CartsOfUser
  <2> QED
    BY <1>1, <1>2, <2>1 DEF IdInv, OneCart, Renamed
<1>8. OrdersOwn'
  <2> SUFFICES ASSUME NEW o \in OrdersPlaced' PROVE placed'[o].user \in Registered' \cup {Nothing}
    BY DEF OrdersOwn
  <2>1. /\ o \in OrderIds
        /\ placed'[o] = IF o \in OwnOrders(u)
                        THEN [placed[o] EXCEPT !.user = Nothing, !.email = Nothing]
                        ELSE placed[o]
    BY <1>0 DEF DeleteEverything, OrdersPlaced
  <2>2. CASE o \in OwnOrders(u)
    <3>1. placed[o] \in Placed
      BY <1>0, <2>2, IdTyped DEF OwnOrders, OrdersOf
    <3>2. placed'[o].user = Nothing
      BY <2>1, <2>2, <3>1 DEF Placed
    <3> QED
      BY <3>2
  <2>3. CASE o \notin OwnOrders(u)
    <3>1. placed'[o] = placed[o] /\ o \in OrdersPlaced /\ placed[o].user # u
      BY <2>1, <2>3 DEF OrdersPlaced, OwnOrders, OrdersOf
    <3> QED
      BY <1>2, <3>1 DEF IdInv, OrdersOwn
  <2> QED
    BY <2>2, <2>3
<1> QED
  BY <1>5, <1>6, <1>7, <1>8

\* Steps that write no account: what they leave in the carts and the additions.
LEMMA IdQuiet ==
    ASSUME IdInv, UNCHANGED <<account, released, deleted>>, twice \subseteq twice',
           Carts' = Carts, \A c \in Carts : cart'[c].user = cart[c].user
                                            /\ cart'[c].email = cart[c].email,
           \A k \in Clicks : adding'[k] # Nothing => adding'[k] = adding[k],
           \A o \in OrdersPlaced' : \/ placed'[o].user \in Registered
                                    \/ o \in OrdersPlaced /\ placed'[o].user = placed[o].user
    PROVE  AccountsOwn' /\ CartsOwn' /\ OneCart' /\ OrdersOwn'
<1>1. Registered' = Registered /\ \A v, x : WasOf(v, x)' <=> WasOf(v, x)
  BY DEF Registered, WasOf
<1>2. \A v : CartsOfUser(v)' = CartsOfUser(v) /\ (Renamed(v)' <=> Renamed(v))
  BY DEF CartsOfUser, Renamed
<1>3. AccountsOwn'
  BY <1>1 DEF IdInv, AccountsOwn, WasOf
<1>4. CartsOwn'
  BY <1>1 DEF IdInv, CartsOwn, WasOf
<1>5. OneCart'
  BY <1>1, <1>2 DEF IdInv, OneCart
<1>6. OrdersOwn'
  BY <1>1 DEF IdInv, OrdersOwn
<1> QED
  BY <1>3, <1>4, <1>5, <1>6

LEMMA FillKeeps ==
    ASSUME IdTypeOK, NEW c \in Carts, NEW full \in BOOLEAN, Fill(c, full)
    PROVE  /\ Carts' = Carts
           /\ \A d \in Carts : cart'[d].user = cart[d].user /\ cart'[d].email = cart[d].email
<1>1. /\ c \in CartIds /\ cart[c] \in Basket
      /\ cart' = [cart EXCEPT ![c] = [cart[c] EXCEPT !.full = full]]
  BY IdTyped DEF Fill
<1>2. /\ [cart[c] EXCEPT !.full = full] \in Basket
      /\ [cart[c] EXCEPT !.full = full].user = cart[c].user
      /\ [cart[c] EXCEPT !.full = full].email = cart[c].email
  BY <1>1, RowsWritten
<1>3. Nothing \notin Basket
  BY AccountsAssumption
<1>4. \A d \in CartIds : cart'[d] = IF d = c THEN [cart[c] EXCEPT !.full = full] ELSE cart[d]
  BY <1>1 DEF IdTypeOK
<1> QED
  BY <1>2, <1>3, <1>4 DEF Carts

\* A request looks for the cart, and remembers to create one.
LEMMA IdAdding ==
    ASSUME IdInv, NEW u \in Persons, NEW by \in {"email", "id"}, NEW k \in Clicks,
           AddToCart(k, u, by)
    PROVE  AccountsOwn' /\ CartsOwn' /\ OneCart' /\ OrdersOwn'
<1>0. /\ IdTypeOK /\ u \in Registered /\ account[u].email \in Emails
      /\ UNCHANGED <<account, placed, released, deleted>>
  BY IdTyped DEF IdInv, AddToCart
<1>1. CASE \E c \in CartsSeen(u, by) : Fill(c, TRUE) /\ UNCHANGED <<adding, twice>>
  <2>1. PICK c \in Carts, full \in BOOLEAN : Fill(c, full)
    BY <1>1 DEF CartsSeen, CartsOfEmail, CartsOfUser
  <2>2. /\ Carts' = Carts
        /\ \A d \in Carts : cart'[d].user = cart[d].user /\ cart'[d].email = cart[d].email
    BY <1>0, <2>1, FillKeeps
  <2> QED
    BY <1>0, <1>1, <2>2, IdQuiet DEF OrdersPlaced
<1>2. CASE /\ CartsSeen(u, by) = {} /\ UNCHANGED cart
           /\ adding' = [adding EXCEPT ![k] = [user |-> u, email |-> account[u].email]]
           /\ twice' = twice \cup
                {v \in {u} : \E j \in Clicks : adding[j] # Nothing /\ adding[j].user = v}
  <2> DEFINE new == [user |-> u, email |-> account[u].email]
  <2>1. \A j \in Clicks : adding'[j] = IF j = k THEN new ELSE adding[j]
    BY <1>0, <1>2 DEF IdTypeOK
  <2>2. Registered' = Registered /\ Carts' = Carts /\ OrdersPlaced' = OrdersPlaced
    BY <1>0, <1>2 DEF Registered, Carts, OrdersPlaced
  <2>3. \A v, x : WasOf(v, x)' <=> WasOf(v, x)
    BY <1>0 DEF WasOf
  <2>4. \A v : CartsOfUser(v)' = CartsOfUser(v) /\ (Renamed(v)' <=> Renamed(v))
    BY <1>0, <1>2, <2>2 DEF CartsOfUser, Renamed
  <2>5. new.user = u /\ new.email = account[u].email
    OBVIOUS
  <2> HIDE DEF new
  <2>6. AccountsOwn' /\ OrdersOwn'
    BY <1>0, <2>2, <2>3 DEF IdInv, AccountsOwn, OrdersOwn, WasOf
  <2>7. CartsOwn'
    <3>1. \A c \in Carts' : cart'[c].user \in Registered' /\ WasOf(cart[c].user, cart[c].email)'
      BY <1>2, <2>2, <2>3 DEF IdInv, CartsOwn, WasOf
    <3>2. ASSUME NEW j \in Clicks, adding'[j] # Nothing
          PROVE  \/ adding'[j].user \in Registered' /\ WasOf(adding[j].user, adding[j].email)'
                 \/ adding'[j].user \in deleted'
      <4>1. CASE j = k
        BY <1>0, <2>1, <2>2, <2>5, <4>1 DEF WasOf
      <4>2. CASE j # k
        BY <1>0, <2>1, <2>2, <3>2, <4>2 DEF IdInv, CartsOwn, WasOf
      <4> QED
        BY <4>1, <4>2
    <3> QED
      BY <3>1, <3>2 DEF CartsOwn
  <2>8. OneCart'
    <3> SUFFICES ASSUME NEW v \in Registered', ~Renamed(v)', v \notin twice'
                 PROVE  /\ \A c, d \in CartsOfUser(v)' : c = d
                        /\ \A i, j \in Clicks :
                              /\ adding'[i] # Nothing /\ adding'[i].user = v
                              /\ adding'[j] # Nothing /\ adding'[j].user = v
                              => i = j
                        /\ \A j \in Clicks : adding'[j] # Nothing /\ adding'[j].user = v =>
                              CartsOfUser(v)' = {}
      BY DEF OneCart
    <3>1. v \in Registered /\ ~Renamed(v) /\ v \notin twice
      BY <1>2, <2>2, <2>4
    <3>2. CASE v = u
      <4>1. CartsOfUser(u) = {}
        <5>1. CartsOfUser(u) \subseteq CartsOfEmail(account[u].email)
          <6> SUFFICES ASSUME NEW c \in CartsOfUser(u) PROVE cart[c].email = account[u].email
            BY DEF CartsOfUser, CartsOfEmail
          <6>1. WasOf(u, cart[c].email) /\ cart[c].email \in Emails
            BY <1>0, IdTyped DEF IdInv, CartsOwn, CartsOfUser
          <6> QED
            BY <3>1, <3>2, <6>1 DEF WasOf, Renamed
        <5> QED
          BY <1>2, <5>1 DEF CartsSeen
      <4>2. \A j \in Clicks : adding[j] # Nothing => adding[j].user # u
        BY <1>2, <3>2
      <4>3. \A j \in Clicks : adding'[j] # Nothing /\ adding'[j].user = v => j = k
        BY <2>1, <3>2, <4>2
      <4>4. CartsOfUser(v)' = {}
        BY <2>4, <3>2, <4>1
      <4> QED
        BY <4>3, <4>4
    <3>3. CASE v # u
      <4>1. \A j \in Clicks : adding'[j] # Nothing /\ adding'[j].user = v =>
                j # k /\ adding[j] # Nothing /\ adding[j].user = v
        BY <2>1, <2>5, <3>3
      <4>2. CartsOfUser(v)' = CartsOfUser(v)
        BY <2>4
      <4> QED
        BY <3>1, <4>1, <4>2 DEF IdInv, OneCart
    <3> QED
      BY <3>2, <3>3
  <2> QED
    BY <2>6, <2>7, <2>8
<1> QED
  BY <1>1, <1>2 DEF AddToCart

\* It creates the cart.
LEMMA IdCreating ==
    ASSUME IdInv, NEW k \in Clicks, CreateCart(k)
    PROVE  AccountsOwn' /\ CartsOwn' /\ OneCart' /\ OrdersOwn'
<1>0. /\ IdTypeOK /\ adding[k] # Nothing /\ adding[k].user \in Registered
      /\ UNCHANGED <<account, placed, released, twice, deleted>>
  BY DEF IdInv, CreateCart
<1>1. PICK u \in Registered, e \in Emails : u = adding[k].user /\ e = adding[k].email
  BY <1>0, IdTyped
<1> DEFINE new == [user |-> u, email |-> e, full |-> TRUE]
<1>2. PICK n \in CartIds \ Carts : cart' = [cart EXCEPT ![n] = new]
  BY <1>1 DEF CreateCart
<1>3. new.user = u /\ new.email = e /\ new # Nothing
  <2>1. u \in Persons
    BY DEF Registered
  <2>2. new \in Basket
    BY <2>1 DEF Basket
  <2>3. Nothing \notin Basket
    BY AccountsAssumption
  <2>4. new.user = u /\ new.email = e
    OBVIOUS
  <2> HIDE DEF new
  <2> QED
    BY <2>2, <2>3, <2>4
<1> HIDE DEF new
<1>4. /\ \A c \in CartIds : cart'[c] = IF c = n THEN new ELSE cart[c]
      /\ \A j \in Clicks : adding'[j] = IF j = k THEN Nothing ELSE adding[j]
  BY <1>0, <1>2 DEF IdTypeOK, CreateCart
<1>5. Carts' = Carts \cup {n} /\ Registered' = Registered /\ OrdersPlaced' = OrdersPlaced
  BY <1>0, <1>2, <1>3, <1>4 DEF Carts, Registered, OrdersPlaced
<1>6. \A v, x : WasOf(v, x)' <=> WasOf(v, x)
  BY <1>0 DEF WasOf
<1>7. WasOf(u, e)
  BY <1>0, <1>1 DEF IdInv, CartsOwn, AccountsOwn
<1>8. \A v : /\ Renamed(v)' <=> Renamed(v)
             /\ CartsOfUser(v)' = CartsOfUser(v) \cup (IF v = u THEN {n} ELSE {})
  BY <1>0, <1>2, <1>3, <1>4, <1>5 DEF CartsOfUser, Renamed, Carts
<1>9. AccountsOwn' /\ OrdersOwn'
  BY <1>0, <1>5, <1>6 DEF IdInv, AccountsOwn, OrdersOwn, WasOf
<1>10. CartsOwn'
  <2>1. ASSUME NEW c \in Carts'
        PROVE  cart'[c].user \in Registered' /\ WasOf(cart[c].user, cart[c].email)'
    <3>1. CASE c = n
      BY <1>0, <1>2, <1>3, <1>4, <1>5, <1>7, <3>1 DEF WasOf
    <3>2. CASE c # n
      <4>1. c \in Carts /\ cart'[c] = cart[c]
        BY <1>4, <1>5, <3>2 DEF Carts
      <4> QED
        BY <1>0, <1>5, <4>1 DEF IdInv, CartsOwn, WasOf
    <3> QED
      BY <3>1, <3>2
  <2>2. ASSUME NEW j \in Clicks, adding'[j] # Nothing
        PROVE  \/ adding'[j].user \in Registered' /\ WasOf(adding[j].user, adding[j].email)'
               \/ adding'[j].user \in deleted'
    BY <1>0, <1>4, <1>5, <2>2 DEF IdInv, CartsOwn, WasOf
  <2> QED
    BY <2>1, <2>2 DEF CartsOwn
<1>11. OneCart'
  <2> SUFFICES ASSUME NEW v \in Registered', ~Renamed(v)', v \notin twice'
               PROVE  /\ \A c, d \in CartsOfUser(v)' : c = d
                      /\ \A i, j \in Clicks :
                            /\ adding'[i] # Nothing /\ adding'[i].user = v
                            /\ adding'[j] # Nothing /\ adding'[j].user = v
                            => i = j
                      /\ \A j \in Clicks : adding'[j] # Nothing /\ adding'[j].user = v =>
                            CartsOfUser(v)' = {}
    BY DEF OneCart
  <2>1. v \in Registered /\ ~Renamed(v) /\ v \notin twice
    BY <1>0, <1>5, <1>8
  <2>2. CASE v = u
    <3>1. CartsOfUser(u) = {}
      BY <1>0, <1>1, <2>1, <2>2 DEF IdInv, OneCart
    <3>2. CartsOfUser(v)' = {n}
      BY <1>8, <2>2, <3>1
    <3>3. \A j \in Clicks : adding[j] # Nothing /\ adding[j].user = u => j = k
      BY <1>0, <1>1, <2>1, <2>2 DEF IdInv, OneCart
    <3>4. \A j \in Clicks : ~(adding'[j] # Nothing /\ adding'[j].user = v)
      BY <1>4, <2>2, <3>3
    <3> QED
      BY <3>2, <3>4
  <2>3. CASE v # u
    <3>1. CartsOfUser(v)' = CartsOfUser(v)
      BY <1>8, <2>3
    <3>2. \A j \in Clicks : adding'[j] # Nothing => adding'[j] = adding[j]
      BY <1>4
    <3> QED
      BY <2>1, <3>1, <3>2 DEF IdInv, OneCart
  <2> QED
    BY <2>2, <2>3
<1> QED
  BY <1>9, <1>10, <1>11

LEMMA IdStep == IdInv /\ [IdNext]_idVars => IdInv'
<1> SUFFICES ASSUME IdInv, [IdNext]_idVars PROVE IdInv'
  OBVIOUS
<1> DEFINE Own == AccountsOwn /\ CartsOwn /\ OneCart /\ OrdersOwn
<1>0. IdTypeOK
  BY DEF IdInv
<1>1. ASSUME UNCHANGED <<account, released, deleted, cart, adding, twice>>,
             \A o \in OrdersPlaced' : \/ placed'[o].user \in Registered
                                      \/ o \in OrdersPlaced /\ placed'[o].user = placed[o].user
      PROVE  Own'
  <2>1. Carts' = Carts
    BY <1>1 DEF Carts
  <2> QED
    BY <1>1, <2>1, IdQuiet
<1>2. CASE UNCHANGED idVars
  <2>1. IdTypeOK'
    BY <1>0, <1>2 DEF IdTypeOK, idVars
  <2>2. Own'
    BY <1>1, <1>2 DEF idVars, OrdersPlaced
  <2> QED
    BY <2>1, <2>2 DEF IdInv
<1>3. ASSUME NEW u \in Persons, NEW e \in Emails, NEW o \in OrderIds, CreateOrder(u, e, o)
      PROVE  Own'
  <2>1. \A p \in OrderIds : placed'[p] = IF p = o
                                         THEN [user |-> u, email |-> e, st |-> "open"]
                                         ELSE placed[p]
    BY <1>0, <1>3 DEF CreateOrder, IdTypeOK
  <2>2. u \in Registered /\ UNCHANGED <<account, released, deleted, cart, adding, twice>>
    BY <1>3 DEF CreateOrder
  <2> QED
    BY <1>1, <2>1, <2>2 DEF OrdersPlaced
<1>4. ASSUME NEW o \in OrdersPlaced, NEW st \in {"confirmed", "closed"},
             placed' = [placed EXCEPT ![o].st = st]
      PROVE  \A p \in OrdersPlaced' : p \in OrdersPlaced /\ placed'[p].user = placed[p].user
  <2>1. o \in OrderIds /\ placed[o] \in Placed
    BY <1>0, IdTyped
  <2>2. PICK new : new = [placed[o] EXCEPT !.st = st]
    OBVIOUS
  <2>3. new.user = placed[o].user
    BY <2>1, <2>2 DEF Placed
  <2>4. \A p \in OrderIds : placed'[p] = IF p = o THEN new ELSE placed[p]
    BY <1>0, <1>4, <2>2 DEF IdTypeOK
  <2> QED
    BY <2>1, <2>3, <2>4 DEF OrdersPlaced
<1>5. ASSUME NEW o \in OrderIds, Close(o) PROVE Own'
  BY <1>1, <1>4, <1>5 DEF Close
<1>6. ASSUME NEW o \in OrderIds, Confirm(o) PROVE Own'
  <2>1. /\ \A p \in OrdersPlaced' : p \in OrdersPlaced /\ placed'[p].user = placed[p].user
        /\ UNCHANGED <<account, adding, released, twice, deleted>>
    BY <1>4, <1>6 DEF Confirm
  <2>2. CASE \E c \in CartsOfEmail(placed[o].email) : Fill(c, FALSE)
    <3>1. PICK c \in Carts, full \in BOOLEAN : Fill(c, full)
      BY <2>2 DEF CartsOfEmail
    <3>2. /\ Carts' = Carts
          /\ \A d \in Carts : cart'[d].user = cart[d].user /\ cart'[d].email = cart[d].email
      BY <1>0, <3>1, FillKeeps
    <3> QED
      BY <2>1, <3>2, IdQuiet
  <2>3. CASE UNCHANGED cart
    BY <1>1, <2>1, <2>3
  <2> QED
    BY <1>6, <2>2, <2>3 DEF Confirm
<1>7. ASSUME NEW u \in Persons, NEW by \in {"email", "id"}, EmptyCart(u, by) PROVE Own'
  <2>1. PICK c \in Carts, full \in BOOLEAN : Fill(c, full)
    BY <1>7 DEF EmptyCart, CartsSeen, CartsOfEmail, CartsOfUser
  <2>2. /\ Carts' = Carts
        /\ \A d \in Carts : cart'[d].user = cart[d].user /\ cart'[d].email = cart[d].email
    BY <1>0, <2>1, FillKeeps
  <2>3. UNCHANGED <<account, placed, adding, released, twice, deleted>>
    BY <1>7 DEF EmptyCart
  <2> QED
    BY <2>2, <2>3, IdQuiet DEF OrdersPlaced
<1>8. ASSUME NEW k \in Clicks, Abandon(k) PROVE Own'
  <2>1. /\ UNCHANGED <<account, cart, placed, released, twice, deleted>>
        /\ \A j \in Clicks : adding'[j] # Nothing => adding'[j] = adding[j]
    BY <1>0, <1>8 DEF Abandon, IdTypeOK
  <2>2. Carts' = Carts
    BY <2>1 DEF Carts
  <2> QED
    BY <2>1, <2>2, IdQuiet DEF OrdersPlaced
<1>9. ASSUME IdNext PROVE Own'
  BY <1>3, <1>5, <1>6, <1>7, <1>8, <1>9, IdAccounts, IdDeletion, IdAdding, IdCreating DEF IdNext
<1>10. ASSUME IdNext PROVE IdInv'
  BY <1>0, <1>9, <1>10, IdTypeNext DEF IdInv
<1> QED
  BY <1>2, <1>10

LEMMA IdInvOwns == IdInv => EachTheirOwn
<1> SUFFICES ASSUME IdInv PROVE EachTheirOwn
  OBVIOUS
<1>0. IdTypeOK
  BY DEF IdInv
<1>1. ASSUME NEW u \in Registered, ~Inherited(u, account[u].email)
      PROVE  /\ \A c \in CartsOfEmail(account[u].email) : cart[c].user = u
             /\ GoogleMatches(account[u].email) = {u}
  <2>1. ASSUME NEW v \in Registered, WasOf(v, account[u].email) PROVE v = u
    BY <1>1, <2>1 DEF IdInv, AccountsOwn, WasOf, Inherited, Registered
  <2>2. \A c \in CartsOfEmail(account[u].email) : cart[c].user = u
    BY <2>1 DEF IdInv, CartsOwn, CartsOfEmail
  <2>3. account[u].email # Nothing
    BY <1>0, AccountsAssumption, IdTyped
  <2>4. GoogleMatches(account[u].email) = {u}
    BY <2>1, <2>3 DEF IdInv, AccountsOwn, GoogleMatches, WasOf
  <2> QED
    BY <2>2, <2>4
<1>2. ASSUME NEW u \in Registered, ~Renamed(u), u \notin twice
      PROVE  /\ CartsOfUser(u) \subseteq CartsOfEmail(account[u].email)
             /\ Cardinality(CartsOfUser(u)) <= 1
  <2>1. ASSUME NEW c \in CartsOfUser(u) PROVE c \in CartsOfEmail(account[u].email)
    <3>1. c \in Carts /\ cart[c].user = u /\ cart[c].email \in Emails
      BY <1>0, IdTyped DEF CartsOfUser
    <3>2. WasOf(u, cart[c].email)
      BY <3>1 DEF IdInv, CartsOwn
    <3> QED
      BY <1>2, <3>1, <3>2 DEF WasOf, Renamed, CartsOfEmail
  <2>2. \A c, d \in CartsOfUser(u) : c = d
    BY <1>2 DEF IdInv, OneCart
  <2>3. CASE CartsOfUser(u) = {}
    BY <2>3, FS_EmptySet
  <2>4. ASSUME NEW c \in CartsOfUser(u) PROVE Cardinality(CartsOfUser(u)) = 1
    <3>1. CartsOfUser(u) = {c}
      BY <2>2
    <3> QED
      BY <3>1, FS_Singleton
  <2> QED
    BY <2>1, <2>3, <2>4
<1>3. ASSUME NEW u \in deleted PROVE CartsOfUser(u) = {} /\ OrdersOf(u) = {}
  <2>1. u \in Persons /\ u \notin Registered /\ u # Nothing
    BY <1>0, AccountsAssumption DEF IdInv, IdTypeOK, AccountsOwn
  <2> QED
    BY <2>1 DEF IdInv, CartsOwn, OrdersOwn, CartsOfUser, OrdersOf
<1> QED
  BY <1>1, <1>2, <1>3 DEF EachTheirOwn

-----------------------------------------------------------------------------
(* Whose an order and its bill are, and its mail *)

BillOwned ==
    /\ sold.whose.user \in members \cup {Blank}
    /\ bill # Blank => bill.user \in members \cup {Blank}

\* What requests have read of whose the order is still holds, and an order that
\* lost its customer lost its email and stays closed.
BillAsSold ==
    /\ bill # Blank => bill = sold.whose
    /\ sold.whose.user = Blank => sold.whose.email = Blank /\ sold.st = "closed"
    /\ \A k \in Desks : Does(k, "bill") => desk[k].whose = sold.whose
    /\ \A k \in Desks : Does(k, "edit") =>
          /\ desk[k].whose.user = sold.whose.user
          /\ sold.whose.user = Blank => desk[k].whose.email = Blank /\ desk[k].st = "closed"

Mails(k) == Does(k, "mail") \/ Does(k, "note")

\* A mail that was sent is noted, or about to be by the one request that mails.
OneMail ==
    /\ \A j, k \in Desks : Mails(j) /\ Mails(k) => j = k
    /\ \A k \in Desks : Does(k, "mail") => letters = 0
    /\ letters \in {0, 1}
    /\ letters = 0 \/ sold.mailed \/ \E k \in Desks : Does(k, "note")

ReceiptsInv ==
    /\ ReceiptsTypeOK /\ BillOwned
    /\ ~crossed => BillAsSold
    /\ ~doubled => OneMail

LEMMA ReceiptsInitially == ReceiptsInit => ReceiptsInv
<1> SUFFICES ASSUME ReceiptsInit PROVE ReceiptsInv
  OBVIOUS
<1>1. PICK u \in Buyers, e \in Addresses :
        sold = [whose |-> [user |-> u, email |-> e], st |-> "open", mailed |-> FALSE]
  BY DEF ReceiptsInit
<1>2. sold \in Sold /\ sold.whose.user = u /\ u # Blank
  BY <1>1, ReceiptsAssumption DEF Sold, Whose
<1>3. ReceiptsTypeOK
  BY <1>2 DEF ReceiptsInit, ReceiptsTypeOK
<1>4. \A k \in Desks : \A what : ~Does(k, what)
  BY DEF ReceiptsInit, Does
<1>5. members = Buyers /\ bill = Blank /\ letters = 0
  BY DEF ReceiptsInit
<1> QED
  BY <1>2, <1>3, <1>4, <1>5 DEF ReceiptsInv, BillOwned, BillAsSold, OneMail, Mails

LEMMA DeskTyped ==
    ASSUME ReceiptsTypeOK
    PROVE  /\ \A k \in Desks : desk[k] # Blank => desk[k] \in Desk /\ desk[k].whose \in Whose
           /\ sold.whose \in Whose /\ sold.st \in {"open", "confirmed", "closed"}
           /\ sold.mailed \in BOOLEAN /\ Blank \notin Desk
BY ReceiptsAssumption DEF ReceiptsTypeOK, Desk, Sold

\* A request that has read the order.
LEMMA ReadOrderIs ==
    ASSUME ReceiptsTypeOK, NEW k \in Desks, NEW what \in {"bill", "edit", "mail"},
           NEW whose \in Whose, ReadOrder(k, what, whose)
    PROVE  /\ desk' \in [Desks -> Desk \cup {Blank}]
           /\ \A j \in Desks : \A x : Does(j, x)' <=> (IF j = k THEN x = what ELSE Does(j, x))
           /\ \A j \in Desks \ {k} : desk'[j] = desk[j]
           /\ \A x : ~Does(k, x)
           /\ desk'[k].whose = whose /\ desk'[k].st = sold.st
<1>1. PICK d : d = [does |-> what, whose |-> whose, st |-> sold.st]
  OBVIOUS
<1>2. d \in Desk /\ d # Blank /\ d.does = what /\ d.whose = whose /\ d.st = sold.st
  BY <1>1, DeskTyped DEF Desk
<1>3. desk[k] = Blank /\ desk' = [desk EXCEPT ![k] = d]
  BY <1>1 DEF ReadOrder
<1>4. \A j \in Desks : desk'[j] = IF j = k THEN d ELSE desk[j]
  BY <1>3 DEF ReceiptsTypeOK
<1>5. desk' \in [Desks -> Desk \cup {Blank}]
  BY <1>2, <1>3 DEF ReceiptsTypeOK
<1> QED
  BY <1>2, <1>3, <1>4, <1>5 DEF Does

LEMMA LeavesIs ==
    ASSUME ReceiptsTypeOK, NEW k \in Desks, Leaves(k)
    PROVE  /\ desk' \in [Desks -> Desk \cup {Blank}]
           /\ \A j \in Desks : \A x : Does(j, x)' <=> (j # k /\ Does(j, x))
           /\ \A j \in Desks \ {k} : desk'[j] = desk[j]
BY DEF ReceiptsTypeOK, Leaves, Does

\* What the bill and the mail rest on are apart.
LEMMA BillKept ==
    ASSUME BillAsSold, sold'.whose = sold.whose,
           bill' = bill \/ bill' = sold.whose,
           sold.whose.user = Blank => sold'.st = "closed",
           \A j \in Desks : \A x \in {"bill", "edit"} :
             Does(j, x)' => Does(j, x) /\ desk'[j] = desk[j]
    PROVE  BillAsSold'
BY DEF BillAsSold

LEMMA MailKept ==
    ASSUME OneMail, letters' = letters, sold.mailed => sold'.mailed,
           \A j \in Desks : \A x \in {"mail", "note"} : Does(j, x)' <=> Does(j, x)
    PROVE  OneMail'
BY DEF OneMail, Mails

LEMMA ReceiptsBills ==
    ASSUME ReceiptsInv, NEW k \in Desks, GenerateBill(k) \/ UpsertBill(k)
    PROVE  ReceiptsInv'
<1>0. ReceiptsTypeOK /\ UNCHANGED <<members, sold, letters, crossed, doubled>>
  BY DEF ReceiptsInv, GenerateBill, UpsertBill
<1>1. CASE GenerateBill(k)
  <2>1. ReadOrder(k, "bill", sold.whose) /\ sold.whose \in Whose /\ bill' = bill
    BY <1>0, <1>1, DeskTyped DEF GenerateBill
  <2>2. /\ desk' \in [Desks -> Desk \cup {Blank}]
        /\ \A j \in Desks : \A x : Does(j, x)' <=> (IF j = k THEN x = "bill" ELSE Does(j, x))
        /\ \A j \in Desks \ {k} : desk'[j] = desk[j]
        /\ \A x : ~Does(k, x)
        /\ desk'[k].whose = sold.whose
    BY <1>0, <2>1, ReadOrderIs
  <2>3. ReceiptsTypeOK' /\ BillOwned'
    BY <1>0, <2>1, <2>2 DEF ReceiptsInv, ReceiptsTypeOK, BillOwned
  <2>4. BillAsSold => BillAsSold'
    BY <1>0, <2>1, <2>2 DEF BillAsSold
  <2>5. OneMail => OneMail'
    BY <1>0, <2>2, MailKept
  <2> QED
    BY <1>0, <2>3, <2>4, <2>5 DEF ReceiptsInv
<1>2. CASE UpsertBill(k)
  <2>1. /\ desk' \in [Desks -> Desk \cup {Blank}]
        /\ \A j \in Desks : \A x : Does(j, x)' <=> (j # k /\ Does(j, x))
        /\ \A j \in Desks \ {k} : desk'[j] = desk[j]
    BY <1>0, <1>2, LeavesIs DEF UpsertBill
  <2>2. /\ Does(k, "bill") /\ desk[k].whose \in Whose
        /\ \/ bill' = bill
           \/ bill' = desk[k].whose /\ desk[k].whose.user \in members \cup {Blank}
    BY <1>0, <1>2, DeskTyped DEF UpsertBill, Does
  <2>3. ReceiptsTypeOK' /\ BillOwned'
    BY <1>0, <2>1, <2>2 DEF ReceiptsInv, ReceiptsTypeOK, BillOwned
  <2>4. ASSUME BillAsSold PROVE BillAsSold'
    <3>1. bill' = bill \/ bill' = sold.whose
      BY <2>2, <2>4 DEF BillAsSold
    <3>2. sold.whose.user = Blank => sold'.st = "closed"
      BY <1>0, <2>4 DEF BillAsSold
    <3> QED
      BY <1>0, <2>1, <2>4, <3>1, <3>2, BillKept
  <2>5. OneMail => OneMail'
    <3>1. ~Does(k, "mail") /\ ~Does(k, "note")
      BY <2>2 DEF Does
    <3> QED
      BY <1>0, <2>1, <3>1, MailKept
  <2> QED
    BY <1>0, <2>3, <2>4, <2>5 DEF ReceiptsInv
<1> QED
  BY <1>1, <1>2

LEMMA ReceiptsMailing ==
    ASSUME ReceiptsInv, NEW k \in Desks, MailRead(k) \/ SendMail(k) \/ NoteMail(k)
    PROVE  ReceiptsInv'
<1>0. ReceiptsTypeOK /\ UNCHANGED <<members, bill, crossed>>
  BY DEF ReceiptsInv, MailRead, SendMail, NoteMail
<1>1. CASE MailRead(k)
  <2>1. ReadOrder(k, "mail", sold.whose) /\ sold.whose \in Whose /\ UNCHANGED <<sold, letters>>
    BY <1>0, <1>1, DeskTyped DEF MailRead
  <2>2. /\ desk' \in [Desks -> Desk \cup {Blank}]
        /\ \A j \in Desks : \A x : Does(j, x)' <=> (IF j = k THEN x = "mail" ELSE Does(j, x))
        /\ \A j \in Desks \ {k} : desk'[j] = desk[j]
        /\ \A x : ~Does(k, x)
    BY <1>0, <2>1, ReadOrderIs
  <2>3. doubled' \in BOOLEAN /\ (~doubled' => ~doubled /\ \A j \in Desks : ~Mails(j))
    BY <1>0, <1>1 DEF MailRead, ReceiptsTypeOK, Mails
  <2>4. ReceiptsTypeOK' /\ BillOwned'
    BY <1>0, <2>1, <2>2, <2>3 DEF ReceiptsInv, ReceiptsTypeOK, BillOwned
  <2>5. ASSUME BillAsSold PROVE BillAsSold'
    <3>1. sold.whose.user = Blank => sold'.st = "closed"
      BY <2>1, <2>5 DEF BillAsSold
    <3> QED
      BY <1>0, <2>1, <2>2, <2>5, <3>1, BillKept
  <2>6. ASSUME ~doubled' PROVE OneMail'
    <3>1. letters = 0
      BY <1>1, <2>3, <2>6 DEF ReceiptsInv, OneMail, Mails, MailRead
    <3>2. \A j \in Desks : ~Does(j, "mail") /\ ~Does(j, "note")
      BY <2>3, <2>6 DEF Mails
    <3> QED
      BY <2>1, <2>2, <3>1, <3>2 DEF OneMail, Mails
  <2> QED
    BY <1>0, <2>4, <2>5, <2>6 DEF ReceiptsInv
<1>2. CASE SendMail(k)
  <2>1. /\ Does(k, "mail") /\ desk[k] \in Desk /\ letters' = letters + 1
        /\ UNCHANGED <<sold, doubled>>
    BY <1>0, <1>2, DeskTyped DEF SendMail, Does
  <2>2. PICK d : d = [desk[k] EXCEPT !.does = "note"]
    OBVIOUS
  <2>3. d \in Desk /\ d.does = "note" /\ d # Blank
    BY <1>0, <2>1, <2>2, DeskTyped DEF Desk
  <2>4. \A j \in Desks : desk'[j] = IF j = k THEN d ELSE desk[j]
    BY <1>0, <1>2, <2>2 DEF SendMail, ReceiptsTypeOK
  <2>5. desk' \in [Desks -> Desk \cup {Blank}] /\ letters' \in Nat
    BY <1>0, <1>2, <2>1, <2>2, <2>3 DEF SendMail, ReceiptsTypeOK
  <2>6. \A j \in Desks : \A x : Does(j, x)' <=> (IF j = k THEN x = "note" ELSE Does(j, x))
    BY <2>3, <2>4 DEF Does
  <2>7. ReceiptsTypeOK' /\ BillOwned'
    BY <1>0, <2>1, <2>5 DEF ReceiptsInv, ReceiptsTypeOK, BillOwned
  <2>8. ASSUME BillAsSold PROVE BillAsSold'
    <3>1. sold.whose.user = Blank => sold'.st = "closed"
      BY <2>1, <2>8 DEF BillAsSold
    <3>2. \A j \in Desks : \A x \in {"bill", "edit"} :
            Does(j, x)' => Does(j, x) /\ desk'[j] = desk[j]
      BY <2>4, <2>6
    <3> QED
      BY <1>0, <2>1, <2>8, <3>1, <3>2, BillKept
  <2>9. ASSUME OneMail PROVE OneMail'
    <3>1. letters' = 1
      BY <2>1, <2>9 DEF OneMail
    <3>2. \A j \in Desks : Mails(j)' => j = k
      BY <2>1, <2>6, <2>9 DEF OneMail, Mails
    <3>3. \A j \in Desks : ~Does(j, "mail")'
      BY <2>6, <3>2 DEF Mails
    <3> QED
      BY <2>6, <3>1, <3>2, <3>3 DEF OneMail
  <2> QED
    BY <1>0, <2>1, <2>7, <2>8, <2>9 DEF ReceiptsInv
<1>3. CASE NoteMail(k)
  <2>1. /\ Does(k, "note") /\ sold' = [sold EXCEPT !.mailed = TRUE]
        /\ UNCHANGED <<letters, doubled>>
    BY <1>3 DEF NoteMail
  <2>2. sold' \in Sold /\ sold'.whose = sold.whose /\ sold'.st = sold.st /\ sold'.mailed
    BY <1>0, <2>1 DEF ReceiptsTypeOK, Sold
  <2>3. /\ desk' \in [Desks -> Desk \cup {Blank}]
        /\ \A j \in Desks : \A x : Does(j, x)' <=> (j # k /\ Does(j, x))
        /\ \A j \in Desks \ {k} : desk'[j] = desk[j]
    BY <1>0, <1>3, LeavesIs DEF NoteMail
  <2>4. ReceiptsTypeOK' /\ BillOwned'
    BY <1>0, <2>1, <2>2, <2>3 DEF ReceiptsInv, ReceiptsTypeOK, BillOwned
  <2>5. ASSUME BillAsSold PROVE BillAsSold'
    <3>1. sold.whose.user = Blank => sold'.st = "closed"
      BY <2>2, <2>5 DEF BillAsSold
    <3> QED
      BY <1>0, <2>2, <2>3, <2>5, <3>1, BillKept
  <2>6. ASSUME OneMail PROVE OneMail'
    <3>1. \A j \in Desks : ~Mails(j)'
      BY <2>1, <2>3, <2>6 DEF OneMail, Mails
    <3> QED
      BY <2>1, <2>2, <2>6, <3>1 DEF OneMail, Mails
  <2> QED
    BY <1>0, <2>1, <2>4, <2>5, <2>6 DEF ReceiptsInv
<1> QED
  BY <1>1, <1>2, <1>3

LEMMA ReceiptsEdits ==
    ASSUME ReceiptsInv, NEW k \in Desks,
           (\E e \in Addresses \cup {Blank} : EditRead(k, e)) \/ EditWrite(k)
    PROVE  ReceiptsInv'
<1>0. ReceiptsTypeOK /\ UNCHANGED <<members, bill, letters, doubled>>
  BY DEF ReceiptsInv, EditRead, EditWrite
<1>1. ASSUME NEW e \in Addresses \cup {Blank}, EditRead(k, e) PROVE ReceiptsInv'
  <2>1. PICK whose : whose = [sold.whose EXCEPT !.email = e]
    OBVIOUS
  <2>2. whose \in Whose /\ whose.user = sold.whose.user /\ whose.email = e
    BY <1>0, <2>1, DeskTyped DEF Whose
  <2>3. /\ ReadOrder(k, "edit", whose) /\ UNCHANGED <<sold, crossed>>
        /\ e # sold.whose.email => sold.st = "open"
    BY <1>1, <2>1 DEF EditRead
  <2>4. /\ desk' \in [Desks -> Desk \cup {Blank}]
        /\ \A j \in Desks : \A x : Does(j, x)' <=> (IF j = k THEN x = "edit" ELSE Does(j, x))
        /\ \A j \in Desks \ {k} : desk'[j] = desk[j]
        /\ \A x : ~Does(k, x)
        /\ desk'[k].whose = whose /\ desk'[k].st = sold.st
    BY <1>0, <2>2, <2>3, ReadOrderIs
  <2>5. ReceiptsTypeOK' /\ BillOwned'
    BY <1>0, <2>3, <2>4 DEF ReceiptsInv, ReceiptsTypeOK, BillOwned
  <2>6. BillAsSold => BillAsSold'
    BY <1>0, <2>2, <2>3, <2>4 DEF BillAsSold
  <2>7. OneMail => OneMail'
    BY <1>0, <2>3, <2>4, MailKept
  <2> QED
    BY <1>0, <2>3, <2>5, <2>6, <2>7 DEF ReceiptsInv
<1>2. CASE EditWrite(k)
  <2>1. Does(k, "edit") /\ desk[k] \in Desk
    BY <1>0, <1>2, DeskTyped DEF EditWrite, Does
  <2>2. PICK e \in Addresses \cup {Blank}, st \in {"open", "confirmed", "closed"} :
          e = desk[k].whose.email /\ st = desk[k].st
    BY <2>1 DEF Desk, Whose
  <2>3. sold' = [sold EXCEPT !.whose.email = e, !.st = st]
    BY <1>2, <2>2 DEF EditWrite
  <2>4. /\ sold' \in Sold /\ sold'.mailed = sold.mailed /\ sold'.st = st
        /\ sold'.whose.user = sold.whose.user /\ sold'.whose.email = e
    BY <1>0, <2>3 DEF ReceiptsTypeOK, Sold, Whose
  <2>5. /\ desk' \in [Desks -> Desk \cup {Blank}]
        /\ \A j \in Desks : \A x : Does(j, x)' <=> (j # k /\ Does(j, x))
        /\ \A j \in Desks \ {k} : desk'[j] = desk[j]
    BY <1>0, <1>2, LeavesIs DEF EditWrite
  <2>6. crossed' = (crossed \/ (sold.whose.email # e /\ (bill # Blank \/ Copies # {k})))
    BY <1>2, <2>2 DEF EditWrite
  <2>7. ReceiptsTypeOK' /\ BillOwned'
    <3>1. crossed' \in BOOLEAN
      BY <1>0, <2>6 DEF ReceiptsTypeOK
    <3> QED
      BY <1>0, <2>4, <2>5, <3>1 DEF ReceiptsInv, ReceiptsTypeOK, BillOwned
  <2>8. ASSUME ~crossed' PROVE BillAsSold'
    <3>1. BillAsSold /\ (sold.whose.email = e \/ (bill = Blank /\ Copies = {k}))
      BY <2>6, <2>8 DEF ReceiptsInv
    <3>2. sold.whose.user = Blank => st = "closed" /\ e = Blank /\ sold.whose.email = Blank
      BY <2>1, <2>2, <3>1 DEF BillAsSold
    <3>3. CASE sold.whose.email = e
      <4>1. sold'.whose = sold.whose
        BY <1>0, <2>3, <3>3 DEF ReceiptsTypeOK, Sold, Whose
      <4> QED
        BY <1>0, <2>4, <2>5, <3>1, <3>2, <4>1, BillKept
    <3>4. CASE bill = Blank /\ Copies = {k}
      <4>1. \A j \in Desks : ~Does(j, "bill")' /\ ~Does(j, "edit")'
        BY <2>5, <3>4 DEF Copies
      <4> QED
        BY <1>0, <2>4, <3>2, <3>4, <4>1 DEF BillAsSold
    <3> QED
      BY <3>1, <3>3, <3>4
  <2>9. OneMail => OneMail'
    <3>1. ~Does(k, "mail") /\ ~Does(k, "note")
      BY <2>1 DEF Does
    <3> QED
      BY <1>0, <2>4, <2>5, <3>1, MailKept
  <2> QED
    BY <1>0, <2>7, <2>8, <2>9 DEF ReceiptsInv
<1> QED
  BY <1>1, <1>2

LEMMA ReceiptsStops ==
    ASSUME ReceiptsInv, NEW k \in Desks, Stop(k)
    PROVE  ReceiptsInv'
<1>0. ReceiptsTypeOK /\ UNCHANGED <<members, sold, bill, letters, crossed>>
  BY DEF ReceiptsInv, Stop
<1>1. /\ desk' \in [Desks -> Desk \cup {Blank}]
      /\ \A j \in Desks : \A x : Does(j, x)' <=> (j # k /\ Does(j, x))
      /\ \A j \in Desks \ {k} : desk'[j] = desk[j]
  BY <1>0, LeavesIs DEF Stop
<1>2. doubled' \in BOOLEAN /\ (~doubled' => ~doubled /\ ~Does(k, "note"))
  BY <1>0 DEF Stop, ReceiptsTypeOK
<1>3. ReceiptsTypeOK' /\ BillOwned'
  BY <1>0, <1>1, <1>2 DEF ReceiptsInv, ReceiptsTypeOK, BillOwned
<1>4. ASSUME BillAsSold PROVE BillAsSold'
  <2>1. sold.whose.user = Blank => sold'.st = "closed"
    BY <1>0, <1>4 DEF BillAsSold
  <2> QED
    BY <1>0, <1>1, <1>4, <2>1, BillKept
<1>5. ASSUME OneMail, ~Does(k, "note") PROVE OneMail'
  <2>1. \A j, i \in Desks : Mails(j)' /\ Mails(i)' => i = j
    BY <1>1, <1>5 DEF OneMail, Mails
  <2>2. \A j \in Desks : Does(j, "mail")' => letters = 0
    BY <1>1, <1>5 DEF OneMail
  <2>3. letters = 0 \/ sold.mailed \/ \E j \in Desks : Does(j, "note")'
    BY <1>1, <1>5 DEF OneMail
  <2> QED
    BY <1>0, <1>5, <2>1, <2>2, <2>3 DEF OneMail
<1> QED
  BY <1>0, <1>2, <1>3, <1>4, <1>5 DEF ReceiptsInv

LEMMA ReceiptsOrder ==
    ASSUME ReceiptsInv, ConfirmSold \/ CloseSold
    PROVE  ReceiptsInv'
<1>0. ReceiptsTypeOK /\ UNCHANGED <<members, bill, letters, desk, crossed, doubled>>
  BY DEF ReceiptsInv, ConfirmSold, CloseSold
<1>1. PICK st \in {"confirmed", "closed"} :
        /\ sold' = [sold EXCEPT !.st = st]
        /\ st = "closed" \/ sold.st = "open"
  BY DEF ConfirmSold, CloseSold
<1>2. /\ sold' \in Sold /\ sold'.whose = sold.whose /\ sold'.st = st
      /\ sold'.mailed = sold.mailed
  BY <1>0, <1>1 DEF ReceiptsTypeOK, Sold
<1>3. ReceiptsTypeOK' /\ BillOwned'
  BY <1>0, <1>2 DEF ReceiptsInv, ReceiptsTypeOK, BillOwned
<1>4. \A j \in Desks : \A x : Does(j, x)' <=> Does(j, x)
  BY <1>0 DEF Does
<1>5. BillAsSold => BillAsSold'
  <2> SUFFICES ASSUME BillAsSold PROVE BillAsSold'
    OBVIOUS
  <2>1. sold.whose.user = Blank => sold'.st = "closed"
    BY <1>1, <1>2 DEF BillAsSold
  <2> QED
    BY <1>0, <1>2, <1>4, <2>1, BillKept
<1>6. OneMail => OneMail'
  BY <1>0, <1>2, <1>4, MailKept
<1> QED
  BY <1>0, <1>3, <1>5, <1>6 DEF ReceiptsInv

LEMMA ReceiptsDeletion ==
    ASSUME ReceiptsInv, NEW u \in Buyers, DeleteBuyer(u)
    PROVE  ReceiptsInv'
<1>0. /\ ReceiptsTypeOK /\ UNCHANGED <<letters, desk, doubled>> /\ members' = members \ {u}
      /\ Of(u, sold.whose) => sold.st = "closed"
  BY DEF ReceiptsInv, DeleteBuyer
<1>1. PICK none : none = [user |-> Blank, email |-> Blank]
  OBVIOUS
<1>2. none \in Whose /\ none.user = Blank /\ none.email = Blank
  BY <1>1 DEF Whose
<1>3. /\ sold' = IF Of(u, sold.whose) THEN [sold EXCEPT !.whose = none] ELSE sold
      /\ bill' = IF bill # Blank /\ Of(u, bill) THEN none ELSE bill
  BY <1>1 DEF DeleteBuyer
<1>4. /\ sold' \in Sold /\ sold'.st = sold.st /\ sold'.mailed = sold.mailed
      /\ sold'.whose = IF Of(u, sold.whose) THEN none ELSE sold.whose
  BY <1>0, <1>2, <1>3 DEF ReceiptsTypeOK, Sold
<1>5. crossed' = (crossed \/ (Of(u, sold.whose) /\ Copies # {}))
  BY DEF DeleteBuyer
<1>6. ReceiptsTypeOK'
  <2>1. crossed' \in BOOLEAN
    BY <1>0, <1>5 DEF ReceiptsTypeOK
  <2> QED
    BY <1>0, <1>2, <1>3, <1>4, <2>1 DEF ReceiptsTypeOK
<1>7. BillOwned'
  BY <1>0, <1>2, <1>3, <1>4 DEF ReceiptsInv, BillOwned, Of
<1>8. \A j \in Desks : \A x : Does(j, x)' <=> Does(j, x)
  BY <1>0 DEF Does
<1>9. ASSUME ~crossed' PROVE BillAsSold'
  <2>1. BillAsSold /\ (Of(u, sold.whose) => Copies = {})
    BY <1>5, <1>9 DEF ReceiptsInv
  <2>2. CASE Of(u, sold.whose)
    <3>1. \A j \in Desks : ~Does(j, "bill")' /\ ~Does(j, "edit")'
      BY <1>8, <2>1, <2>2 DEF Copies
    <3>2. bill' # Blank => bill' = none
      BY <1>3, <2>1, <2>2 DEF BillAsSold
    <3> QED
      BY <1>0, <1>2, <1>4, <2>2, <3>1, <3>2 DEF BillAsSold
  <2>3. CASE ~Of(u, sold.whose)
    <3>1. bill' = bill /\ sold' = sold
      BY <1>3, <2>1, <2>3 DEF BillAsSold
    <3>2. sold.whose.user = Blank => sold'.st = "closed"
      BY <2>1, <3>1 DEF BillAsSold
    <3> QED
      BY <1>0, <1>8, <2>1, <3>1, <3>2, BillKept
  <2> QED
    BY <2>2, <2>3
<1>10. OneMail => OneMail'
  BY <1>0, <1>4, <1>8, MailKept
<1> QED
  BY <1>0, <1>6, <1>7, <1>9, <1>10 DEF ReceiptsInv

LEMMA ReceiptsStep == ReceiptsInv /\ [ReceiptsNext]_receiptVars => ReceiptsInv'
<1> SUFFICES ASSUME ReceiptsInv, [ReceiptsNext]_receiptVars PROVE ReceiptsInv'
  OBVIOUS
<1>1. CASE UNCHANGED receiptVars
  BY <1>1 DEF receiptVars, ReceiptsInv, ReceiptsTypeOK, BillOwned, BillAsSold, OneMail, Mails,
     Does
<1>2. CASE ReceiptsNext
  BY <1>2, ReceiptsBills, ReceiptsMailing, ReceiptsEdits, ReceiptsStops, ReceiptsOrder,
     ReceiptsDeletion DEF ReceiptsNext
<1> QED
  BY <1>1, <1>2

LEMMA ReceiptsInvAgrees == ReceiptsInv => ReceiptsAgree
<1> SUFFICES ASSUME ReceiptsInv PROVE ReceiptsAgree
  OBVIOUS
<1>1. ASSUME ~crossed, bill # Blank, NEW u \in members PROVE BillSummary(u) = UserBill(u)
  <2>1. bill = sold.whose
    BY <1>1 DEF ReceiptsInv, BillAsSold
  <2> QED
    BY <1>1, <2>1 DEF BillSummary, UserBill
<1>2. ~doubled => letters <= 1
  BY DEF ReceiptsInv, OneMail
<1> QED
  BY <1>1, <1>2 DEF ReceiptsAgree, ReceiptsInv, BillOwned, BillAsSold

-----------------------------------------------------------------------------
(* Theorems about what people own *)

\* Carts, orders and sign-ins by email and by id are one account's, but for the
\* emails that a rename took from another.
THEOREM EachOwnsTheirs == IdSpec => []EachTheirOwn
BY IdInitially, IdStep, IdInvOwns, PTL DEF IdSpec

\* A bill is made out as its order is and to nobody deleted, and one mail
\* confirms the order, with the exceptions that the property names.
THEOREM BillsAgree == ReceiptsSpec => []ReceiptsAgree
BY ReceiptsInitially, ReceiptsStep, ReceiptsInvAgrees, PTL DEF ReceiptsSpec

\* Both, for any number of people, emails, carts, orders and requests.
THEOREM WhoOwnsWhat == OwnershipSpec => []WhoseIsWhose
BY EachOwnsTheirs, BillsAgree, PTL DEF OwnershipSpec, WhoseIsWhose

-----------------------------------------------------------------------------
(* Theorems about a customer *)

\* Every token, password, account, cart, order, bill and mail is of its type, for
\* any number of each and of requests: no rotation, sign-in, creation of a cart or
\* deletion leaves a row of another shape behind.
THEOREM CustomersTyped == CustomersSpec => []CustomersTypeOK
<1>1. SessionInv => TypeOK
  BY DEF SessionInv
<1>2. IdInv => IdTypeOK
  BY DEF IdInv
<1>3. IdSpec => []IdInv
  BY IdInitially, IdStep, PTL DEF IdSpec
<1>4. ReceiptsInv => ReceiptsTypeOK
  BY DEF ReceiptsInv
<1>5. ReceiptsSpec => []ReceiptsInv
  BY ReceiptsInitially, ReceiptsStep, PTL DEF ReceiptsSpec
<1>6. TypeOK /\ IdTypeOK /\ ReceiptsTypeOK => CustomersTypeOK
  BY DEF CustomersTypeOK
<1> QED
  BY <1>1, <1>2, <1>3, <1>4, <1>5, <1>6, SessionsInductive, PTL DEF CustomersSpec, OwnershipSpec
=============================================================================
