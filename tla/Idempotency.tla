---------------------------- MODULE Idempotency ----------------------------
(***************************************************************************)
(* POST /payment/checkout under withIdempotency: a key is inserted, the    *)
(* payment form is looked up or created, and the answer is stored with the *)
(* key, in one transaction.  A second insert of a key waits for the first  *)
(* one's commit or rollback.                                               *)
(*                                                                         *)
(* What becomes of a form is Purchase's matter; here it is closed at some  *)
(* time.  A client may send a key with any order, again and again.         *)
(***************************************************************************)
EXTENDS Integers

CONSTANTS
    Keys,        \* Idempotency-Key header values
    Purchases,   \* orders to pay for: what a request's payload says
    Posts,       \* requests that are served at a time
    Asked,       \* bound: the pairs of a key and an order that are sent
    MaxForms,    \* bound: payments rows
    MaxLives,    \* bound: times a key's row is pruned
    Absent       \* no key, no order

ASSUME IdempotencyAssumption ==
    /\ Asked \subseteq Keys \X Purchases
    /\ MaxForms \in Nat /\ MaxLives \in Nat
    /\ Absent \notin Keys \cup Purchases \cup Posts

VARIABLES
    keyRows,   \* key -> its idempotency_keys row, uncommitted ones included
    forms,     \* payments rows: the order and whether it is Initiated
    payable,   \* orders that are Pending
    posts,     \* request -> where it stands
    life,      \* history: how often the key's row was pruned
    runs,      \* history: how often fn ran to its commit in this life
    answers    \* history: what requests with a key were told
keyVars == <<keyRows, forms, payable, posts, life, runs, answers>>

FormIds == 1..MaxForms

\* A row is "processing" only inside the transaction of its request.
KeyRow == [status : {"absent", "processing", "completed"}, by : Posts \cup {Absent},
           order : Purchases \cup {Absent}, form : FormIds \cup {0}, old : BOOLEAN]
NoKeyRow == [status |-> "absent", by |-> Absent, order |-> Absent, form |-> 0, old |-> FALSE]
Post == [step : {"free", "insert", "read", "create", "lookup"},
         key : Keys \cup {Absent}, order : Purchases \cup {Absent}]
NoPost == [step |-> "free", key |-> Absent, order |-> Absent]
Form == [order : Purchases \cup {Absent}, open : BOOLEAN]
Told == [key : Keys, life : 0..MaxLives, order : Purchases, form : FormIds]

KeysTypeOK ==
    /\ keyRows \in [Keys -> KeyRow]
    /\ forms \in [FormIds -> Form]
    /\ payable \subseteq Purchases
    /\ posts \in [Posts -> Post]
    /\ life \in [Keys -> 0..MaxLives]
    /\ runs \in [Keys -> Nat]
    /\ answers \subseteq Told

KeysInit ==
    /\ keyRows = [k \in Keys |-> NoKeyRow]
    /\ forms = [f \in FormIds |-> [order |-> Absent, open |-> FALSE]]
    /\ payable = Purchases
    /\ posts = [r \in Posts |-> NoPost]
    /\ life = [k \in Keys |-> 0] /\ runs = [k \in Keys |-> 0]
    /\ answers = {}

Moves(r, step) == posts' = [posts EXCEPT ![r].step = step]
Ends(r) == posts' = [posts EXCEPT ![r] = NoPost]
RollsBack(r) == keyRows' = [k \in Keys |-> IF keyRows[k].by = r THEN NoKeyRow ELSE keyRows[k]]
OpenForms(o) == {f \in FormIds : forms[f].order = o /\ forms[f].open}

Tell(r, k, f) == answers' = answers \cup
    {[key |-> k, life |-> life[k], order |-> posts[r].order, form |-> f]}

-----------------------------------------------------------------------------

\* The rows of more than 24 hours are pruned, those of other keys too.
PostBegins(r, k, o) ==
    /\ posts[r].step = "free"
    /\ LET old == {j \in Keys : keyRows[j].old} IN
       /\ keyRows' = [j \in Keys |-> IF j \in old THEN NoKeyRow ELSE keyRows[j]]
       /\ life' = [j \in Keys |-> IF j \in old THEN life[j] + 1 ELSE life[j]]
       /\ runs' = [j \in Keys |-> IF j \in old THEN 0 ELSE runs[j]]
    /\ posts' = [posts EXCEPT ![r] = [step |-> "insert", key |-> k, order |-> o]]
    /\ UNCHANGED <<forms, payable, answers>>

\* Mutant of Unclaimed: a row that is not committed yet does not stand in the way.
UnclaimedVisibly(k) == keyRows[k].status # "completed"
Unclaimed(k) == keyRows[k].status = "absent"

InsertKey(r) ==
    LET k == posts[r].key IN
    /\ posts[r].step = "insert"
    /\ \/ /\ Unclaimed(k)
          /\ keyRows' = [keyRows EXCEPT ![k] =
                [NoKeyRow EXCEPT !.status = "processing", !.by = r, !.order = posts[r].order]]
          /\ Moves(r, "read")
       \/ /\ keyRows[k].status = "completed"
          /\ Moves(r, "lookup")
          /\ UNCHANGED keyRows
    /\ UNCHANGED <<forms, payable, life, runs, answers>>

\* fn has its answer: it is stored with the key, and everything is committed.
CommitAnswer(r, f) ==
    LET k == posts[r].key IN
    /\ keyRows' = [keyRows EXCEPT ![k].status = "completed", ![k].by = Absent, ![k].form = f]
    /\ runs' = [runs EXCEPT ![k] = @ + 1]
    /\ Tell(r, k, f) /\ Ends(r)
    /\ UNCHANGED <<payable, life>>

\* The form that is open is signed again; an order that is not Pending is an
\* error, which undoes the key; else a form is to be created.
ReadForm(r) ==
    LET o == posts[r].order IN
    /\ posts[r].step = "read"
    /\ \/ /\ o \in payable
          /\ \E f \in OpenForms(o) : CommitAnswer(r, f)
          /\ UNCHANGED forms
       \/ /\ o \in payable /\ OpenForms(o) = {}
          /\ Moves(r, "create")
          /\ UNCHANGED <<keyRows, forms, payable, life, runs, answers>>
       \/ /\ o \notin payable
          /\ RollsBack(r) /\ Ends(r)
          /\ UNCHANGED <<forms, payable, life, runs, answers>>

\* The partial unique index lets one form of an order be open.  A violation of
\* it is taken for one of the key's: the transaction is undone and the key is
\* looked up.
CreateForm(r, f) ==
    LET o == posts[r].order IN
    /\ posts[r].step = "create" /\ OpenForms(o) = {} /\ forms[f].order = Absent
    /\ forms' = [forms EXCEPT ![f] = [order |-> o, open |-> TRUE]]
    /\ CommitAnswer(r, f)

FormTaken(r) ==
    /\ posts[r].step = "create" /\ OpenForms(posts[r].order) # {}
    /\ RollsBack(r) /\ Moves(r, "lookup")
    /\ UNCHANGED <<forms, payable, life, runs, answers>>

\* The stored hash is the one of this request's payload.
SamePayload(r) == keyRows[posts[r].key].order = posts[r].order

\* The committed row, if there still is one, is replayed to the same payload;
\* another one is refused with 422.  No row is an error: it was pruned, or the
\* unique violation was not the key's.
LookUpKey(r) ==
    LET k == posts[r].key IN
    /\ posts[r].step = "lookup"
    /\ IF keyRows[k].status = "completed" /\ SamePayload(r)
       THEN Tell(r, k, keyRows[k].form) ELSE UNCHANGED answers
    /\ Ends(r)
    /\ UNCHANGED <<keyRows, forms, payable, life, runs>>

\* A crash, a lost connection or the transaction's time limit.
PostFails(r) ==
    /\ posts[r].step # "free" /\ RollsBack(r) /\ Ends(r)
    /\ UNCHANGED <<forms, payable, life, runs, answers>>

\* A day passes since the key's row was written.
KeyAges(k) ==
    /\ keyRows[k].status = "completed" /\ ~keyRows[k].old /\ life[k] < MaxLives
    /\ keyRows' = [keyRows EXCEPT ![k].old = TRUE]
    /\ UNCHANGED <<forms, payable, posts, life, runs, answers>>

FormCloses(f) ==
    /\ forms[f].open
    /\ forms' = [forms EXCEPT ![f].open = FALSE]
    /\ UNCHANGED <<keyRows, payable, posts, life, runs, answers>>

OrderLeavesPending(o) ==
    /\ o \in payable /\ payable' = payable \ {o}
    /\ UNCHANGED <<keyRows, forms, posts, life, runs, answers>>

KeysNext ==
    \/ \E r \in Posts, a \in Asked : PostBegins(r, a[1], a[2])
    \/ \E r \in Posts : InsertKey(r)
    \/ \E r \in Posts : ReadForm(r)
    \/ \E r \in Posts, f \in FormIds : CreateForm(r, f)
    \/ \E r \in Posts : FormTaken(r)
    \/ \E r \in Posts : LookUpKey(r)
    \/ \E r \in Posts : PostFails(r)
    \/ \E k \in Keys : KeyAges(k)
    \/ \E f \in FormIds : FormCloses(f)
    \/ \E o \in Purchases : OrderLeavesPending(o)
KeysSpec == KeysInit /\ [][KeysNext]_keyVars

-----------------------------------------------------------------------------
(* Properties.                                                              *)

\* Until its row is pruned, a key has one execution that commits, and everyone
\* who is answered under it is told of one order and one form, the one that was
\* stored: whatever was retried, lost, rolled back or sent twice at once.
KeyRunsOnce ==
    /\ \A k \in Keys : runs[k] = IF keyRows[k].status = "completed" THEN 1 ELSE 0
    /\ \A t \in answers : t.life = life[t.key] =>
         /\ keyRows[t.key].status = "completed"
         /\ keyRows[t.key].order = t.order /\ keyRows[t.key].form = t.form
    /\ \A t, u \in answers : t.key = u.key /\ t.life = u.life =>
         t.order = u.order /\ t.form = u.form
-----------------------------------------------------------------------------
(* The inductive invariant.  A row that is not committed is the one of the   *)
(* request that runs under it; a row that may be pruned is committed.        *)

KeyRowOK(k) ==
    LET row == keyRows[k] IN
    /\ row.status = "absent" => row = NoKeyRow
    /\ row.status = "processing" =>
         /\ row.by \in Posts /\ ~row.old
         /\ posts[row.by].step \in {"read", "create"}
         /\ posts[row.by].key = k /\ posts[row.by].order = row.order
    /\ row.status = "completed" =>
         row.by = Absent /\ row.order \in Purchases /\ row.form \in FormIds
    /\ row.old => row.status = "completed" /\ life[k] < MaxLives

PostOK(r) ==
    LET post == posts[r] IN
    /\ post.step # "free" => post.key \in Keys /\ post.order \in Purchases
    /\ post.step \in {"read", "create"} =>
         keyRows[post.key].status = "processing" /\ keyRows[post.key].by = r

AnswersOfThePast == \A t \in answers : t.life <= life[t.key]

KeysInv ==
    /\ KeysTypeOK
    /\ \A k \in Keys : KeyRowOK(k)
    /\ \A r \in Posts : PostOK(r)
    /\ AnswersOfThePast
    /\ KeyRunsOnce
=============================================================================
