---------------------------- MODULE DraftsProofs ----------------------------
(***************************************************************************)
(* The versions of a listing draft stay in one line and a proposal         *)
(* publishes one product, for any number of drafts, grants, proposals and  *)
(* transactions.  And, for any number of requests and any windows, what    *)
(* the readers of an order's journey are told.                             *)
(***************************************************************************)
EXTENDS Drafts, Tracking, TLAPS

-----------------------------------------------------------------------------
(* The inductive invariant *)

\* A row that exists is a grant's; a child is the later version of a
\* superseded row, and every superseded row has one.
RowOK(d) ==
    /\ rows[d].status = "none" => rows[d] = NoRow
    /\ rows[d].status # "none" => rows[d].by \in Grants
    /\ rows[d].parent # Void =>
         LET up == rows[rows[d].parent] IN
         /\ up.status = "Superseded" /\ up.by = rows[d].by
         /\ rows[d].version = up.version + 1
         /\ up.from => rows[d].from
    /\ rows[d].status = "Superseded" =>
         \E e \in DraftIds : rows[e].parent = d /\ rows[e].status # "none"

OneChild == \A d, e \in DraftIds :
    rows[d].parent # Void /\ rows[d].parent = rows[e].parent => d = e

\* A proposal names a row of its grant and the version that row has for ever.
PaperOK(p) ==
    papers[p].status # "none" =>
        /\ papers[p].draft \in DraftIds
        /\ rows[papers[p].draft].status # "none"
        /\ rows[papers[p].draft].by = papers[p].by
        /\ rows[papers[p].draft].version = papers[p].pinned

\* What a transaction has read of a row still holds, but for its status.
ScribeOK(w) ==
    LET s == scribes[w] IN
    /\ s.step \in {"save", "propose"} =>
         /\ s.draft \in DraftIds
         /\ rows[s.draft].status # "none" /\ rows[s.draft].by = s.by
         /\ rows[s.draft].version = s.version
    /\ s.step = "save" /\ rows[s.draft].from => s.from
    /\ s.step = "publish" =>
         /\ s.paper \in Papers /\ papers[s.paper].status # "none"
         /\ s.fresh => rows[papers[s.paper].draft].status = "Draft" \/ s.paper \in raced
         /\ ~s.fresh => rows[papers[s.paper].draft].status = "Superseded"

DraftsInv ==
    /\ DraftsTypeOK
    /\ \A d \in DraftIds : RowOK(d)
    /\ OneChild
    /\ \A p \in Papers : PaperOK(p)
    /\ \A w \in Scribes : ScribeOK(w)
    /\ PublishedOnce

LEMMA DraftsInitially == DraftsInit => DraftsInv
<1> SUFFICES ASSUME DraftsInit PROVE DraftsInv
  OBVIOUS
<1>1. DraftsTypeOK
  BY DEF DraftsInit, DraftsTypeOK, Row, NoRow, Paper, NoPaper, Scribe, Resting
<1>2. (\A d \in DraftIds : RowOK(d)) /\ OneChild
  BY DEF DraftsInit, RowOK, OneChild, NoRow
<1>3. (\A p \in Papers : PaperOK(p)) /\ PublishedOnce
  BY DraftsAssumption DEF DraftsInit, PaperOK, PublishedOnce, NoPaper
<1>4. \A w \in Scribes : ScribeOK(w)
  BY DEF DraftsInit, ScribeOK, Resting
<1> QED
  BY <1>1, <1>2, <1>3, <1>4 DEF DraftsInv

\* What the invariant says is what the run checks.
LEMMA DraftsInvKept == DraftsInv => DraftsKept
<1> SUFFICES ASSUME DraftsInv PROVE DraftsKept
  OBVIOUS
<1>1. VersionsInLine
  BY DraftsAssumption DEF DraftsInv, RowOK, OneChild, VersionsInLine
<1>2. NothingUnlisted
  <2> SUFFICES ASSUME NEW g \in Grants,
                      NEW d \in MyListingDrafts(g, TRUE) \ MyListingDrafts(g, FALSE)
               PROVE  \E e \in MyListingDrafts(g, TRUE) : rows[e].parent = d
    BY DEF NothingUnlisted
  <2>1. d \in DraftIds /\ rows[d].by = g /\ rows[d].status \notin {"none", "Draft"}
    BY DEF MyListingDrafts, MyListingDraft
  <2>2. rows[d].status = "Superseded"
    BY <2>1 DEF DraftsInv, DraftsTypeOK, Row
  <2>3. PICK e \in DraftIds : rows[e].parent = d /\ rows[e].status # "none"
    BY <2>1, <2>2 DEF DraftsInv, RowOK
  <2>4. rows[e].by = g
    BY <2>1, <2>3, DraftsAssumption DEF DraftsInv, RowOK
  <2> QED
    BY <2>3, <2>4 DEF MyListingDrafts, MyListingDraft
<1> QED
  BY <1>1, <1>2 DEF DraftsInv, DraftsKept

-----------------------------------------------------------------------------
(* Steps that leave the drafts alone *)

LEMMA RowsStay ==
    ASSUME DraftsInv, UNCHANGED rows
    PROVE  (\A d \in DraftIds : RowOK(d)') /\ OneChild'
BY DEF DraftsInv, RowOK, OneChild

\* A transaction takes up something it has read, or is done.
LEMMA ScribeStep ==
    ASSUME DraftsInv, UNCHANGED <<rows, papers, raced>>, sourced' \in BOOLEAN,
           NEW w \in Scribes, NEW s \in Scribe, scribes' = [scribes EXCEPT ![w] = s],
           s.step \in {"save", "propose"} =>
             /\ s.draft \in DraftIds
             /\ rows[s.draft].status # "none" /\ rows[s.draft].by = s.by
             /\ rows[s.draft].version = s.version,
           s.step = "save" /\ rows[s.draft].from => s.from,
           s.step = "publish" =>
             /\ s.paper \in Papers /\ papers[s.paper].status # "none"
             /\ s.fresh => rows[papers[s.paper].draft].status = "Draft"
             /\ ~s.fresh => rows[papers[s.paper].draft].status = "Superseded"
    PROVE  DraftsInv'
<1>1. DraftsTypeOK' /\ scribes'[w] = s /\ \A v \in Scribes \ {w} : scribes'[v] = scribes[v]
  BY DEF DraftsInv, DraftsTypeOK
<1>2. \A v \in Scribes : ScribeOK(v)'
  <2> SUFFICES ASSUME NEW v \in Scribes PROVE ScribeOK(v)'
    OBVIOUS
  <2>1. CASE v = w
    BY <1>1, <2>1 DEF ScribeOK
  <2>2. CASE v # w
    <3>1. scribes'[v] = scribes[v] /\ ScribeOK(v)
      BY <1>1, <2>2 DEF DraftsInv
    <3> QED
      BY <3>1 DEF ScribeOK
  <2> QED
    BY <2>1, <2>2
<1>3. (\A p \in Papers : PaperOK(p)') /\ PublishedOnce'
  BY DEF DraftsInv, PaperOK, PublishedOnce
<1> QED
  BY <1>1, <1>2, <1>3, RowsStay DEF DraftsInv

LEMMA RestStep ==
    ASSUME DraftsInv, UNCHANGED <<rows, papers, raced, sourced>>, NEW w \in Scribes, Puts(w)
    PROVE  DraftsInv'
<1>1. Resting \in Scribe /\ Resting.step = "free"
  BY DEF Resting, Scribe
<1>2. sourced' \in BOOLEAN /\ scribes' = [scribes EXCEPT ![w] = Resting]
  BY DEF DraftsInv, DraftsTypeOK, Puts, Holds
<1> QED
  BY <1>1, <1>2, ScribeStep

-----------------------------------------------------------------------------
(* Proposals *)

LEMMA ReadsKeep ==
    ASSUME DraftsInv, NEW w \in Scribes,
           \/ \E g \in Grants, d \in DraftIds, named \in BOOLEAN : ReadParent(w, g, d, named)
           \/ \E g \in Grants, d \in DraftIds : ReadToPropose(w, g, d)
    PROVE  DraftsInv'
<1>1. DraftsTypeOK
  BY DEF DraftsInv
<1>2. ASSUME NEW g \in Grants, NEW d \in DraftIds, NEW named \in BOOLEAN,
             ReadParent(w, g, d, named)
      PROVE  DraftsInv'
  <2> DEFINE s == [Resting EXCEPT !.step = "save", !.by = g, !.draft = d,
                      !.version = rows[d].version, !.from = named \/ rows[d].from]
  <2>1. /\ s.step = "save" /\ s.by = g /\ s.draft = d /\ s.version = rows[d].version
        /\ rows[d].from => s.from
    BY DEF Resting
  <2>2. rows[d] \in Row
    BY <1>1 DEF DraftsTypeOK
  <2>3. s \in Scribe
    BY <2>2 DEF Resting, Scribe, Row
  <2>4. rows[d].status # "none" /\ rows[d].by = g
    BY <1>2 DEF ReadParent, MyListingDrafts, MyListingDraft
  <2>5. scribes' = [scribes EXCEPT ![w] = s] /\ UNCHANGED <<rows, papers, raced, sourced>>
    BY <1>2 DEF ReadParent, Holds
  <2>6. sourced' \in BOOLEAN
    BY <1>1, <2>5 DEF DraftsTypeOK
  <2> HIDE DEF s
  <2> QED
    BY <2>1, <2>3, <2>4, <2>5, <2>6, ScribeStep
<1>3. ASSUME NEW g \in Grants, NEW d \in DraftIds, ReadToPropose(w, g, d)
      PROVE  DraftsInv'
  <2> DEFINE s == [Resting EXCEPT !.step = "propose", !.by = g, !.draft = d,
                      !.version = rows[d].version]
  <2>1. s.step = "propose" /\ s.by = g /\ s.draft = d /\ s.version = rows[d].version
    BY DEF Resting
  <2>2. rows[d] \in Row
    BY <1>1 DEF DraftsTypeOK
  <2>3. s \in Scribe
    BY <2>2 DEF Resting, Scribe, Row
  <2>4. rows[d].status # "none" /\ rows[d].by = g
    BY <1>3 DEF ReadToPropose, MyListingDraft
  <2>5. scribes' = [scribes EXCEPT ![w] = s] /\ UNCHANGED <<rows, papers, raced, sourced>>
    BY <1>3 DEF ReadToPropose, Holds
  <2>6. sourced' \in BOOLEAN
    BY <1>1, <2>5 DEF DraftsTypeOK
  <2> HIDE DEF s
  <2> QED
    BY <2>1, <2>3, <2>4, <2>5, <2>6, ScribeStep
<1> QED
  BY <1>2, <1>3

\* What the recheck finds is told by the row's status alone.
LEMMA ReadToPublishKeeps ==
    ASSUME DraftsInv, NEW w \in Scribes, NEW p \in Papers, ReadToPublish(w, p)
    PROVE  DraftsInv'
<1> DEFINE s == [Resting EXCEPT !.step = "publish", !.paper = p, !.fresh = Unmoved(p)]
<1>1. s.step = "publish" /\ s.paper = p /\ s.fresh = Unmoved(p)
  BY DEF Resting
<1>2. Unmoved(p) \in BOOLEAN
  BY DEF Unmoved
<1>3. s \in Scribe
  BY <1>2 DEF Resting, Scribe
<1>4. papers[p].status = "pending" /\ PaperOK(p) /\ DraftsTypeOK
  BY DEF ReadToPublish, DraftsInv
<1>5. /\ papers[p].draft \in DraftIds /\ rows[papers[p].draft].status # "none"
      /\ rows[papers[p].draft] \in Row
      /\ rows[papers[p].draft].by = papers[p].by
      /\ rows[papers[p].draft].version = papers[p].pinned
  BY <1>4 DEF PaperOK, DraftsTypeOK
<1>6. /\ Unmoved(p) => rows[papers[p].draft].status = "Draft"
      /\ ~Unmoved(p) => rows[papers[p].draft].status = "Superseded"
  BY <1>5 DEF Unmoved, Row
<1>7. scribes' = [scribes EXCEPT ![w] = s] /\ UNCHANGED <<rows, papers, raced, sourced>>
  BY DEF ReadToPublish, Holds
<1>8. sourced' \in BOOLEAN
  BY <1>4, <1>7 DEF DraftsTypeOK
<1> HIDE DEF s
<1> QED
  BY <1>1, <1>3, <1>4, <1>6, <1>7, <1>8, ScribeStep

\* A change of one proposal that keeps its draft and the version it names.
LEMMA PaperStep ==
    ASSUME DraftsInv, UNCHANGED <<rows, raced, sourced>>, NEW p \in Papers, NEW paper \in Paper,
           papers' = [papers EXCEPT ![p] = paper],
           papers[p].status # "none" => paper.draft = papers[p].draft,
           paper.status # "none",
           /\ paper.draft \in DraftIds /\ rows[paper.draft].status # "none"
           /\ rows[paper.draft].by = paper.by /\ rows[paper.draft].version = paper.pinned,
           paper.goods = IF paper.status = "executed" THEN 1 ELSE 0,
           paper.onto = "Superseded" => p \in raced,
           paper.status = "stale" => rows[paper.draft].status = "Superseded",
           \/ UNCHANGED scribes
           \/ \E w \in Scribes : Puts(w)
    PROVE  DraftsInv'
<1>1. DraftsTypeOK
  BY DEF DraftsInv
<1>2. /\ papers'[p] = paper /\ \A q \in Papers \ {p} : papers'[q] = papers[q]
      /\ papers' \in [Papers -> Paper]
  BY <1>1 DEF DraftsTypeOK
<1>3. /\ scribes' \in [Scribes -> Scribe]
      /\ \A v \in Scribes : scribes'[v] = scribes[v] \/ scribes'[v].step = "free"
  <2>1. Resting \in Scribe /\ Resting.step = "free"
    BY DEF Resting, Scribe
  <2> QED
    BY <1>1, <2>1 DEF DraftsTypeOK, Puts, Holds
<1>4. DraftsTypeOK'
  BY <1>1, <1>2, <1>3 DEF DraftsTypeOK
<1>5. \A q \in Papers : PaperOK(q)'
  <2> SUFFICES ASSUME NEW q \in Papers PROVE PaperOK(q)'
    OBVIOUS
  <2>1. CASE q = p
    BY <1>2, <2>1 DEF PaperOK
  <2>2. CASE q # p
    BY <1>2, <2>2 DEF DraftsInv, PaperOK
  <2> QED
    BY <2>1, <2>2
<1>6. \A v \in Scribes : ScribeOK(v)'
  <2> SUFFICES ASSUME NEW v \in Scribes PROVE ScribeOK(v)'
    OBVIOUS
  <2>1. CASE scribes'[v].step = "free"
    BY <2>1 DEF ScribeOK
  <2>2. CASE scribes'[v] = scribes[v]
    <3>1. ScribeOK(v)
      BY DEF DraftsInv
    <3>2. scribes[v].step = "publish" =>
            /\ papers'[scribes[v].paper].status # "none"
            /\ papers'[scribes[v].paper].draft = papers[scribes[v].paper].draft
      BY <1>2, <3>1 DEF ScribeOK
    <3> QED
      BY <2>2, <3>1, <3>2 DEF ScribeOK
  <2> QED
    BY <1>3, <2>1, <2>2
<1>7. PublishedOnce'
  <2> SUFFICES ASSUME NEW q \in Papers
               PROVE  /\ papers'[q].goods = IF papers'[q].status = "executed" THEN 1 ELSE 0
                      /\ papers'[q].onto = "Superseded" => q \in raced'
                      /\ papers'[q].status = "stale" =>
                           rows'[papers'[q].draft].status = "Superseded"
    BY DEF PublishedOnce
  <2>1. CASE q = p
    BY <1>2, <2>1
  <2>2. CASE q # p
    BY <1>2, <2>2 DEF DraftsInv, PublishedOnce
  <2> QED
    BY <2>1, <2>2
<1> QED
  BY <1>4, <1>5, <1>6, <1>7, RowsStay DEF DraftsInv

LEMMA ProposeKeeps ==
    ASSUME DraftsInv, NEW w \in Scribes, NEW p \in Papers, ProposeListingPublish(w, p)
    PROVE  DraftsInv'
<1> DEFINE s == scribes[w]
           paper == [NoPaper EXCEPT !.status = "pending", !.by = s.by, !.draft = s.draft,
                                    !.pinned = s.version]
<1>1. DraftsTypeOK /\ ScribeOK(w) /\ s.step = "propose" /\ papers[p].status = "none"
      /\ s \in Scribe
  BY DEF DraftsInv, DraftsTypeOK, ProposeListingPublish
<1>2. /\ s.draft \in DraftIds /\ rows[s.draft].status # "none" /\ rows[s.draft].by = s.by
      /\ rows[s.draft].version = s.version
  BY <1>1 DEF ScribeOK
<1>3. /\ paper.status = "pending" /\ paper.by = s.by /\ paper.draft = s.draft
      /\ paper.pinned = s.version /\ paper.goods = 0 /\ paper.onto = "none"
      /\ paper \in Paper
  BY <1>1 DEF NoPaper, Paper, Scribe
<1>4. papers' = [papers EXCEPT ![p] = paper] /\ Puts(w) /\ UNCHANGED <<rows, raced, sourced>>
  BY DEF ProposeListingPublish
<1> HIDE DEF s, paper
<1> QED
  BY <1>1, <1>2, <1>3, <1>4, PaperStep

LEMMA ClosePaperKeeps ==
    ASSUME DraftsInv, NEW p \in Papers, ClosePaper(p)
    PROVE  DraftsInv'
<1> DEFINE paper == [papers[p] EXCEPT !.status = "closed"]
<1>1. papers[p] \in Paper /\ papers[p].status = "pending" /\ PaperOK(p) /\ PublishedOnce
  BY DEF DraftsInv, DraftsTypeOK, ClosePaper
<1>2. /\ paper.status = "closed" /\ paper.draft = papers[p].draft /\ paper.by = papers[p].by
      /\ paper.pinned = papers[p].pinned /\ paper.goods = papers[p].goods
      /\ paper.onto = papers[p].onto /\ paper \in Paper
  BY <1>1 DEF Paper
<1>3. papers' = [papers EXCEPT ![p] = paper] /\ UNCHANGED <<rows, raced, sourced, scribes>>
  BY DEF ClosePaper
<1>4. /\ papers[p].draft \in DraftIds /\ rows[papers[p].draft].status # "none"
      /\ rows[papers[p].draft].by = papers[p].by
      /\ rows[papers[p].draft].version = papers[p].pinned
  BY <1>1 DEF PaperOK
<1>5. papers[p].goods = 0 /\ (papers[p].onto = "Superseded" => p \in raced)
  BY <1>1 DEF PublishedOnce
<1> HIDE DEF paper
<1> QED
  BY <1>2, <1>3, <1>4, <1>5, PaperStep

LEMMA ExecutedPaper ==
    ASSUME NEW paper \in Paper, NEW st \in {"Draft", "Superseded"}
    PROVE  LET done == [paper EXCEPT !.status = "executed", !.goods = @ + 1, !.onto = st]
           IN  /\ done.status = "executed" /\ done.goods = paper.goods + 1
               /\ done.draft = paper.draft /\ done.by = paper.by
               /\ done.pinned = paper.pinned /\ done.onto = st /\ done \in Paper
<1>1. paper.goods + 1 \in Nat
  BY DEF Paper
<1> QED
  BY <1>1 DEF Paper

\* The claim: only a pending proposal makes a product, and onto what the recheck
\* found or onto a draft that was superseded under it.
LEMMA PublishKeeps ==
    ASSUME DraftsInv, NEW w \in Scribes, PublishDraft(w)
    PROVE  DraftsInv'
<1> DEFINE s == scribes[w]
           p == s.paper
           done == [papers[p] EXCEPT !.status = "executed", !.goods = @ + 1,
                                     !.onto = rows[papers[p].draft].status]
           void == [papers[p] EXCEPT !.status = "stale"]
<1>1. DraftsTypeOK /\ ScribeOK(w) /\ s.step = "publish"
  BY DEF DraftsInv, PublishDraft
<1>2. /\ p \in Papers /\ papers[p].status # "none" /\ papers[p] \in Paper
      /\ s.fresh => rows[papers[p].draft].status = "Draft" \/ p \in raced
      /\ ~s.fresh => rows[papers[p].draft].status = "Superseded"
  BY <1>1 DEF ScribeOK, DraftsTypeOK
<1>3. /\ papers[p].draft \in DraftIds /\ rows[papers[p].draft].status \in {"Draft", "Superseded"}
      /\ rows[papers[p].draft].by = papers[p].by
      /\ rows[papers[p].draft].version = papers[p].pinned
  BY <1>1, <1>2 DEF DraftsInv, PaperOK, DraftsTypeOK, Row
<1>4. papers[p].status = "pending" =>
        papers[p].goods = 0 /\ (papers[p].onto = "Superseded" => p \in raced)
  BY <1>2 DEF DraftsInv, PublishedOnce
<1>5. Puts(w) /\ UNCHANGED <<rows, raced, sourced>>
  BY DEF PublishDraft
<1>6. CASE papers[p].status # "pending"
  <2>1. papers' = papers
    BY <1>6 DEF PublishDraft
  <2> QED
    BY <1>5, <2>1, RestStep
<1>7. CASE papers[p].status = "pending" /\ s.fresh
  <2>1. papers' = [papers EXCEPT ![p] = done]
    BY <1>7 DEF PublishDraft
  <2>2. /\ done.status = "executed" /\ done.goods = papers[p].goods + 1
        /\ done.draft = papers[p].draft /\ done.by = papers[p].by
        /\ done.pinned = papers[p].pinned /\ done.onto = rows[papers[p].draft].status
        /\ done \in Paper
    BY <1>2, <1>3, ExecutedPaper
  <2>3. done.goods = 1
    BY <1>4, <1>7, <2>2
  <2> HIDE DEF done, p, s
  <2> QED
    BY <1>2, <1>3, <1>5, <1>7, <2>1, <2>2, <2>3, PaperStep
<1>8. CASE papers[p].status = "pending" /\ ~s.fresh
  <2>1. papers' = [papers EXCEPT ![p] = void]
    BY <1>8 DEF PublishDraft
  <2>2. /\ void.status = "stale" /\ void.goods = papers[p].goods
        /\ void.draft = papers[p].draft /\ void.by = papers[p].by
        /\ void.pinned = papers[p].pinned /\ void.onto = papers[p].onto /\ void \in Paper
    BY <1>2 DEF Paper
  <2> HIDE DEF void, p, s
  <2> QED
    BY <1>2, <1>3, <1>4, <1>5, <1>8, <2>1, <2>2, PaperStep
<1> QED
  BY <1>6, <1>7, <1>8

-----------------------------------------------------------------------------
(* Saves *)

\* A row that is created: no row has it for its parent, no proposal and no
\* transaction knows it.
LEMMA NewRow ==
    ASSUME DraftsInv, IdLeft
    PROVE  /\ NewDraftId \in DraftIds /\ rows[NewDraftId].status = "none" /\ NewDraftId # Void
           /\ \A d \in DraftIds : rows[d].parent # NewDraftId
           /\ \A p \in Papers : papers[p].status # "none" => papers[p].draft # NewDraftId
           /\ \A w \in Scribes : scribes[w].step \in {"save", "propose"} =>
                scribes[w].draft # NewDraftId
<1>1. NewDraftId \in DraftIds /\ rows[NewDraftId].status = "none"
  BY DEF IdLeft, NewDraftId
<1>2. NewDraftId # Void
  BY <1>1, DraftsAssumption
<1> QED
  BY <1>1, <1>2 DEF DraftsInv, RowOK, PaperOK, ScribeOK

LEMMA CreateKeeps ==
    ASSUME DraftsInv, NEW g \in Grants, NEW named \in BOOLEAN, CreateDraft(g, named)
    PROVE  DraftsInv'
<1> DEFINE n == NewDraftId
           row == [status |-> "Draft", by |-> g, from |-> named, version |-> 1, parent |-> Void]
<1>1. /\ n \in DraftIds /\ rows[n].status = "none" /\ n # Void
      /\ \A d \in DraftIds : rows[d].parent # n
      /\ \A p \in Papers : papers[p].status # "none" => papers[p].draft # n
      /\ \A w \in Scribes : scribes[w].step \in {"save", "propose"} => scribes[w].draft # n
  BY NewRow DEF CreateDraft
<1>2. rows' = [rows EXCEPT ![n] = row] /\ UNCHANGED <<papers, scribes, sourced, raced>>
  BY DEF CreateDraft
<1>3. row.status = "Draft" /\ row.by = g /\ row.parent = Void /\ row \in Row
  BY DEF Row
<1> HIDE DEF n, row
<1>4. DraftsTypeOK
  BY DEF DraftsInv
<1>5. /\ rows'[n] = row /\ \A d \in DraftIds \ {n} : rows'[d] = rows[d]
      /\ rows' \in [DraftIds -> Row]
  BY <1>1, <1>2, <1>3, <1>4 DEF DraftsTypeOK
<1>6. DraftsTypeOK'
  BY <1>2, <1>4, <1>5 DEF DraftsTypeOK
<1>7. \A d \in DraftIds : RowOK(d)'
  <2> SUFFICES ASSUME NEW d \in DraftIds PROVE RowOK(d)'
    OBVIOUS
  <2>1. CASE d = n
    BY <1>3, <1>5, <2>1 DEF RowOK
  <2>2. CASE d # n
    <3>1. rows'[d] = rows[d] /\ RowOK(d) /\ rows[d].parent # n
      BY <1>1, <1>5, <2>2 DEF DraftsInv
    <3>2. rows[d].parent # Void => rows'[rows[d].parent] = rows[rows[d].parent]
      BY <1>4, <1>5, <3>1 DEF DraftsTypeOK, Row
    <3>3. rows[d].status = "Superseded" =>
            \E e \in DraftIds : rows'[e].parent = d /\ rows'[e].status # "none"
      <4>1. \A e \in DraftIds : rows[e].status # "none" => rows'[e] = rows[e]
        BY <1>1, <1>5
      <4> QED
        BY <3>1, <4>1 DEF RowOK
    <3> QED
      BY <3>1, <3>2, <3>3 DEF RowOK
  <2> QED
    BY <2>1, <2>2
<1>8. OneChild'
  BY <1>3, <1>5 DEF DraftsInv, OneChild
<1>9. \A p \in Papers : PaperOK(p)'
  <2>1. \A p \in Papers : papers[p].status # "none" =>
          papers[p].draft \in DraftIds /\ rows'[papers[p].draft] = rows[papers[p].draft]
    BY <1>1, <1>5 DEF DraftsInv, PaperOK
  <2> QED
    BY <1>2, <2>1 DEF DraftsInv, PaperOK
<1>10. \A w \in Scribes : ScribeOK(w)'
  <2> SUFFICES ASSUME NEW w \in Scribes PROVE ScribeOK(w)'
    OBVIOUS
  <2>1. ScribeOK(w) /\ scribes'[w] = scribes[w] /\ papers' = papers /\ raced' = raced
    BY <1>2 DEF DraftsInv
  <2>2. scribes[w].step \in {"save", "propose"} =>
          rows'[scribes[w].draft] = rows[scribes[w].draft]
    BY <1>1, <1>5, <2>1 DEF ScribeOK
  <2>3. scribes[w].step = "publish" =>
          rows'[papers[scribes[w].paper].draft] = rows[papers[scribes[w].paper].draft]
    BY <1>1, <1>5, <2>1 DEF ScribeOK, DraftsInv, PaperOK
  <2> QED
    BY <2>1, <2>2, <2>3 DEF ScribeOK
<1>11. PublishedOnce'
  <2>1. \A p \in Papers : papers[p].status = "stale" =>
          rows'[papers[p].draft] = rows[papers[p].draft]
    BY <1>1, <1>5 DEF DraftsInv, PaperOK
  <2> QED
    BY <1>2, <2>1 DEF DraftsInv, PublishedOnce
<1> QED
  BY <1>6, <1>7, <1>8, <1>9, <1>10, <1>11 DEF DraftsInv

\* A save: the parent was a draft until now, so it has no child yet, and the
\* child has the version that follows.
LEMMA SaveKeeps ==
    ASSUME DraftsInv, NEW w \in Scribes, SaveChild(w)
    PROVE  DraftsInv'
<1> DEFINE s == scribes[w]
           n == NewDraftId
           u == s.draft
           over == [rows[u] EXCEPT !.status = "Superseded"]
           row == [status |-> "Draft", by |-> s.by, from |-> s.from,
                   version |-> s.version + 1, parent |-> u]
<1>1. DraftsTypeOK /\ ScribeOK(w) /\ s.step = "save" /\ s \in Scribe
  BY DEF DraftsInv, DraftsTypeOK, SaveChild
<1>2. /\ n \in DraftIds /\ rows[n].status = "none" /\ n # Void
      /\ \A d \in DraftIds : rows[d].parent # n
      /\ \A p \in Papers : papers[p].status # "none" => papers[p].draft # n
      /\ \A v \in Scribes : scribes[v].step \in {"save", "propose"} => scribes[v].draft # n
  BY NewRow DEF SaveChild
<1>3. /\ u \in DraftIds /\ u # n /\ u # Void /\ rows[u].status = "Draft" /\ rows[u].by = s.by
      /\ rows[u].version = s.version /\ (rows[u].from => s.from) /\ rows[u] \in Row
  BY <1>1, <1>2, DraftsAssumption DEF ScribeOK, SaveChild, Claimable, DraftsTypeOK
<1>4. /\ rows' = [rows EXCEPT ![u].status = "Superseded", ![n] = row]
      /\ raced' = raced \cup Confirming(u) /\ Puts(w) /\ UNCHANGED <<papers, sourced>>
  BY DEF SaveChild
<1>5. /\ over.status = "Superseded" /\ over.by = rows[u].by /\ over.from = rows[u].from
      /\ over.version = rows[u].version /\ over.parent = rows[u].parent /\ over \in Row
  BY <1>3 DEF Row
<1>6. /\ row.status = "Draft" /\ row.by = s.by /\ row.from = s.from
      /\ row.version = s.version + 1 /\ row.parent = u /\ row \in Row
  BY <1>1, <1>3 DEF Row, Scribe
<1>7. /\ rows'[n] = row /\ rows'[u] = over
      /\ \A d \in DraftIds \ {n, u} : rows'[d] = rows[d]
      /\ rows' \in [DraftIds -> Row]
  BY <1>1, <1>2, <1>3, <1>4, <1>5, <1>6 DEF DraftsTypeOK
<1>8. /\ scribes' \in [Scribes -> Scribe] /\ raced \subseteq raced' /\ raced' \subseteq Papers
      /\ \A v \in Scribes : scribes'[v] = scribes[v] \/ scribes'[v].step = "free"
  <2>1. Resting \in Scribe /\ Resting.step = "free"
    BY DEF Resting, Scribe
  <2> QED
    BY <1>1, <1>4, <2>1 DEF DraftsTypeOK, Puts, Holds, Confirming
<1>9. \A v \in Scribes : scribes[v].step = "publish" /\ scribes[v].paper \in Papers
          /\ papers[scribes[v].paper].draft = u => scribes[v].paper \in raced'
  BY <1>4 DEF Confirming
<1>10. \A d \in DraftIds \ {n} :
          /\ rows'[d].by = rows[d].by /\ rows'[d].version = rows[d].version
          /\ rows'[d].from = rows[d].from /\ rows'[d].parent = rows[d].parent
          /\ rows'[d].status = IF d = u THEN "Superseded" ELSE rows[d].status
  BY <1>5, <1>7
<1>11. rows[u].status # "Superseded" /\ rows[u].status # "none"
  BY <1>3
<1>12. \A d \in DraftIds : rows[d].parent # u
  BY <1>3, <1>11 DEF DraftsInv, RowOK
<1> HIDE DEF s, n, u, over, row
<1>13. DraftsTypeOK'
  BY <1>1, <1>4, <1>7, <1>8 DEF DraftsTypeOK
<1>14. \A d \in DraftIds : RowOK(d)'
  <2> SUFFICES ASSUME NEW d \in DraftIds PROVE RowOK(d)'
    OBVIOUS
  <2>1. CASE d = n
    <3>1. row.by \in Grants
      BY <1>3, <1>6, <1>11 DEF DraftsInv, RowOK
    <3>2. rows'[u].status = "Superseded" /\ rows'[u].by = row.by
          /\ row.version = rows'[u].version + 1 /\ (rows'[u].from => row.from)
      BY <1>3, <1>5, <1>6, <1>7
    <3> QED
      BY <1>6, <1>7, <2>1, <3>1, <3>2 DEF RowOK
  <2>2. CASE d # n
    <3>1. /\ rows'[d].by = rows[d].by /\ rows'[d].version = rows[d].version
          /\ rows'[d].from = rows[d].from /\ rows'[d].parent = rows[d].parent
          /\ rows'[d].status = IF d = u THEN "Superseded" ELSE rows[d].status
          /\ RowOK(d) /\ rows[d].parent # n
      BY <1>2, <1>10, <2>2 DEF DraftsInv
    <3>2. rows[d].parent # Void => rows[d].parent \in DraftIds \ {n, u}
      BY <1>1, <1>12, <3>1 DEF DraftsTypeOK, Row
    <3>3. rows[d].parent # Void => rows'[rows[d].parent] = rows[rows[d].parent]
      BY <1>7, <3>2
    <3>4. rows'[d].status = "none" => rows'[d] = NoRow
      BY <1>7, <2>2, <3>1 DEF RowOK
    <3>5. rows'[d].status # "none" => rows'[d].by \in Grants
      BY <1>11, <3>1 DEF RowOK
    <3>6. rows'[d].status = "Superseded" =>
            \E e \in DraftIds : rows'[e].parent = d /\ rows'[e].status # "none"
      <4>1. CASE d = u
        BY <1>2, <1>6, <1>7, <4>1
      <4>2. CASE d # u /\ rows[d].status = "Superseded"
        <5>1. PICK e \in DraftIds : rows[e].parent = d /\ rows[e].status # "none"
          BY <3>1, <4>2 DEF RowOK
        <5>2. e # n
          BY <1>2, <5>1
        <5> QED
          BY <1>10, <5>1, <5>2
      <4> QED
        BY <3>1, <4>1, <4>2
    <3> QED
      BY <3>1, <3>3, <3>4, <3>5, <3>6 DEF RowOK
  <2> QED
    BY <2>1, <2>2
<1>15. OneChild'
  <2> SUFFICES ASSUME NEW d \in DraftIds, NEW e \in DraftIds,
                      rows'[d].parent # Void, rows'[d].parent = rows'[e].parent
               PROVE  d = e
    BY DEF OneChild
  <2>1. CASE d # n /\ e # n
    <3>1. rows[d].parent # Void /\ rows[d].parent = rows[e].parent
      BY <1>10, <2>1
    <3> QED
      BY <3>1 DEF DraftsInv, OneChild
  <2>2. CASE d = n \/ e = n
    <3>1. rows'[n].parent = u
      BY <1>6, <1>7
    <3>2. \A c \in DraftIds \ {n} : rows'[c].parent # u
      BY <1>10, <1>12
    <3>3. CASE d = n
      BY <3>1, <3>2, <3>3
    <3>4. CASE e = n
      BY <3>1, <3>2, <3>4
    <3> QED
      BY <2>2, <3>3, <3>4
  <2> QED
    BY <2>1, <2>2
<1>16. \A p \in Papers : PaperOK(p)'
  <2> SUFFICES ASSUME NEW p \in Papers PROVE PaperOK(p)'
    OBVIOUS
  <2>1. PaperOK(p) /\ papers'[p] = papers[p]
    BY <1>4 DEF DraftsInv
  <2>2. CASE papers[p].status = "none"
    BY <2>1, <2>2 DEF PaperOK
  <2>3. CASE papers[p].status # "none"
    <3>1. papers[p].draft \in DraftIds \ {n} /\ rows[papers[p].draft].status # "none"
      BY <1>2, <2>1, <2>3 DEF PaperOK
    <3>2. /\ rows'[papers[p].draft].status # "none"
          /\ rows'[papers[p].draft].by = rows[papers[p].draft].by
          /\ rows'[papers[p].draft].version = rows[papers[p].draft].version
      BY <1>10, <3>1
    <3> QED
      BY <2>1, <2>3, <3>1, <3>2 DEF PaperOK
  <2> QED
    BY <2>2, <2>3
<1>17. \A v \in Scribes : ScribeOK(v)'
  <2> SUFFICES ASSUME NEW v \in Scribes PROVE ScribeOK(v)'
    OBVIOUS
  <2>1. CASE scribes'[v].step = "free"
    BY <2>1 DEF ScribeOK
  <2>2. CASE scribes'[v] = scribes[v]
    <3>1. ScribeOK(v) /\ papers' = papers
      BY <1>4 DEF DraftsInv
    <3>2. scribes[v].step \in {"save", "propose"} => scribes[v].draft \in DraftIds \ {n}
      BY <1>2, <3>1 DEF ScribeOK
    <3>3. scribes[v].step = "publish" =>
            scribes[v].paper \in Papers /\ papers[scribes[v].paper].draft \in DraftIds \ {n}
      BY <1>2, <3>1 DEF ScribeOK, DraftsInv, PaperOK
    <3>4. scribes[v].step \in {"save", "propose"} =>
            /\ rows'[scribes[v].draft].status # "none"
            /\ rows'[scribes[v].draft].by = rows[scribes[v].draft].by
            /\ rows'[scribes[v].draft].version = rows[scribes[v].draft].version
            /\ rows'[scribes[v].draft].from = rows[scribes[v].draft].from
      BY <1>10, <3>1, <3>2 DEF ScribeOK
    <3>5. scribes[v].step = "publish" =>
            /\ scribes[v].fresh =>
                 rows'[papers[scribes[v].paper].draft].status = "Draft"
                   \/ scribes[v].paper \in raced'
            /\ ~scribes[v].fresh =>
                 rows'[papers[scribes[v].paper].draft].status = "Superseded"
      BY <1>8, <1>9, <1>10, <3>1, <3>3 DEF ScribeOK
    <3> QED
      BY <2>2, <3>1, <3>4, <3>5 DEF ScribeOK
  <2> QED
    BY <1>8, <2>1, <2>2
<1>18. PublishedOnce'
  <2> SUFFICES ASSUME NEW p \in Papers
               PROVE  /\ papers[p].goods = IF papers[p].status = "executed" THEN 1 ELSE 0
                      /\ papers[p].onto = "Superseded" => p \in raced'
                      /\ papers[p].status = "stale" =>
                           rows'[papers[p].draft].status = "Superseded"
    BY <1>4 DEF PublishedOnce
  <2>1. papers[p].status = "stale" => papers[p].draft \in DraftIds \ {n}
    BY <1>2 DEF DraftsInv, PaperOK
  <2> QED
    BY <1>8, <1>10, <2>1 DEF DraftsInv, PublishedOnce
<1> QED
  BY <1>13, <1>14, <1>15, <1>16, <1>17, <1>18 DEF DraftsInv

LEMMA DraftsStutter ==
    ASSUME DraftsInv, UNCHANGED <<rows, papers, scribes, raced>>, sourced' \in BOOLEAN
    PROVE  DraftsInv'
<1>1. DraftsTypeOK'
  BY DEF DraftsInv, DraftsTypeOK
<1>2. (\A p \in Papers : PaperOK(p)') /\ (\A w \in Scribes : ScribeOK(w)') /\ PublishedOnce'
  BY DEF DraftsInv, PaperOK, ScribeOK, PublishedOnce
<1> QED
  BY <1>1, <1>2, RowsStay DEF DraftsInv

-----------------------------------------------------------------------------

\* DraftsInv is inductive: what a transaction read of a row still holds but for
\* the row's status, and a draft leaves "Draft" only together with its child.
THEOREM DraftsInductive == DraftsSpec => []DraftsInv
<1>1. DraftsInv /\ [DraftsNext]_draftVars => DraftsInv'
  <2> SUFFICES ASSUME DraftsInv, [DraftsNext]_draftVars PROVE DraftsInv'
    OBVIOUS
  <2>1. ASSUME NEW w \in Scribes, SaveFails(w) \/ PaperFails(w) PROVE DraftsInv'
    BY <2>1, RestStep DEF SaveFails, PaperFails
  <2>2. CASE LoseSource
    BY <2>2, DraftsStutter DEF LoseSource
  <2>3. CASE UNCHANGED draftVars
    <3>1. sourced \in BOOLEAN
      BY DEF DraftsInv, DraftsTypeOK
    <3> QED
      BY <2>3, <3>1, DraftsStutter DEF draftVars
  <2> QED
    BY <2>1, <2>2, <2>3, CreateKeeps, SaveKeeps, ReadsKeep, ReadToPublishKeeps,
       ProposeKeeps, ClosePaperKeeps, PublishKeeps DEF DraftsNext
<1> QED
  BY DraftsInitially, <1>1, PTL DEF DraftsSpec

\* The versions of a draft stay in one line, none is hidden without a successor,
\* and a proposal publishes one product, the latest version unless a save
\* overtook its confirmation (createListingDraft, reviseListingDraft,
\* executeListingPublish).
THEOREM DraftsAreKept == DraftsSpec => []DraftsKept
BY DraftsInductive, DraftsInvKept, PTL

\* Types of the drafts, the proposals and the transactions.
THEOREM DraftsTypes == DraftsSpec => []DraftsTypeOK
<1>1. DraftsInv => DraftsTypeOK
  BY DEF DraftsInv
<1> QED
  BY <1>1, DraftsInductive, PTL

-----------------------------------------------------------------------------
(* The inductive invariant of an order's journey *)

\* Every write so far knew the row it was made on and dated the stage it chose.
Told == ~overlapped /\ ~edited

\* The dates go as far as the status.
DatedTo(n, dates) == \A i \in 1..4 : dates[i] # Never <=> i <= n

StampsOK == \E n \in 0..4 : Reached(n) /\ DatedTo(n, stamp)

\* What a write does to the row that it was decided on.
LateOK(late) ==
    LET was == late.seen[1] IN
    \/ /\ late.sets = {} /\ ~late.asks
       /\ late.to = "Pending" => was = "Pending"
       /\ late.to \in ReturnStatuses => late.to = was
    \/ /\ late.sets = {} /\ late.asks
       /\ was = "Delivered" /\ late.to = "Return Requested" /\ late.due = Never
    \/ \E n \in 1..4 :
          /\ was \in StageNames /\ late.to = StageOrder[n] /\ ~late.asks /\ late.due = Never
          /\ \/ late.sets = 1..4 /\ DatedTo(n, late.dates)
             \/ late.sets = {n} /\ late.dates[n] # Never /\ IndexOf(was) = n - 1

Written == {pending[k] : k \in Clerks} \ {Never}

JourneyInv ==
    /\ TrackTypeOK
    /\ \A late \in Written : LateOK(late)
    /\ ~overlapped =>
          /\ at \in ReturnStatuses => asked # Never
          /\ at = "Pending" => \A late \in Written : late.seen[1] = "Pending"
    /\ Told =>
          /\ StampsOK
          /\ due = promised
          /\ \A late \in Written : late.seen[1] = "Pending" \/ late.due \in {Never, promised}

LEMMA StageFacts ==
    /\ StageOrder[1] = "Confirmed" /\ StageOrder[2] = "Processing"
    /\ StageOrder[3] = "Shipped" /\ StageOrder[4] = "Delivered"
    /\ StageNames = {"Confirmed", "Processing", "Shipped", "Delivered"}
    /\ \A i \in 1..4 : IndexOf(StageOrder[i]) = i
    /\ \A s : s \in StageNames => IndexOf(s) \in 1..4 /\ StageOrder[IndexOf(s)] = s
    /\ \A s : s \notin StageNames => IndexOf(s) = 0
<1>1. /\ StageOrder[1] = "Confirmed" /\ StageOrder[2] = "Processing"
      /\ StageOrder[3] = "Shipped" /\ StageOrder[4] = "Delivered"
  BY DEF StageOrder
<1>2. \A i \in 1..4 : i = 1 \/ i = 2 \/ i = 3 \/ i = 4
  OBVIOUS
<1>3. StageNames = {"Confirmed", "Processing", "Shipped", "Delivered"}
  <2>1. \A s : s \in StageNames <=> \E i \in 1..4 : s = StageOrder[i]
    BY DEF StageNames
  <2>2. 1 \in 1..4 /\ 2 \in 1..4 /\ 3 \in 1..4 /\ 4 \in 1..4
    OBVIOUS
  <2>3. \A s : s \in StageNames <=> s \in {"Confirmed", "Processing", "Shipped", "Delivered"}
    BY <1>1, <1>2, <2>1, <2>2
  <2> QED
    BY <2>3
<1>4. \A i, j \in 1..4 : StageOrder[i] = StageOrder[j] => i = j
  BY <1>1, <1>2
<1>5. ASSUME NEW s \in StageNames PROVE IndexOf(s) \in 1..4 /\ StageOrder[IndexOf(s)] = s
  <2>1. \E i \in 1..4 : StageOrder[i] = s
    BY DEF StageNames
  <2> QED
    BY <2>1 DEF IndexOf
<1>6. \A i \in 1..4 : IndexOf(StageOrder[i]) = i
  <2>1. \A i \in 1..4 : StageOrder[i] \in StageNames
    BY DEF StageNames
  <2> QED
    BY <1>4, <1>5, <2>1
<1>7. \A s : s \notin StageNames => IndexOf(s) = 0
  BY DEF IndexOf
<1> QED
  BY <1>1, <1>3, <1>5, <1>6, <1>7

\* How far the order got, status by status.
LEMMA ReachedFacts ==
    ASSUME NEW n \in 0..4
    PROVE  /\ at \in {"Pending", "Confirming"} => (Reached(n) <=> n = 0)
           /\ at \in StageNames => (Reached(n) <=> n = IndexOf(at))
           /\ at = "Cancelled" => (Reached(n) <=> n \in {0, 1})
           /\ at \in ReturnStatuses => (Reached(n) <=> n = 4)
           /\ at = "Refund Released" => (Reached(n) <=> n \in {0, 1, 4})
BY StageFacts DEF Reached, ReturnStatuses

LEMMA ReachedFactsNext ==
    ASSUME NEW n \in 0..4
    PROVE  /\ at' \in {"Pending", "Confirming"} => (Reached(n)' <=> n = 0)
           /\ at' \in StageNames => (Reached(n)' <=> n = IndexOf(at'))
           /\ at' = "Cancelled" => (Reached(n)' <=> n \in {0, 1})
           /\ at' \in ReturnStatuses => (Reached(n)' <=> n = 4)
           /\ at' = "Refund Released" => (Reached(n)' <=> n \in {0, 1, 4})
BY StageFacts DEF Reached, ReturnStatuses

LEMMA JourneyInitially == TrackInit => JourneyInv
<1> SUFFICES ASSUME TrackInit PROVE JourneyInv
  OBVIOUS
<1>1. at = "Pending" /\ stamp = [i \in 1..4 |-> Never] /\ asked = Never
  BY DEF TrackInit
<1>2. Written = {}
  BY DEF TrackInit, Written
<1>3. TrackTypeOK
  <2>1. at \in JourneyStatuses /\ stamp \in Dates /\ asked \in Days \cup {Never}
    BY <1>1 DEF JourneyStatuses, Dates
  <2>2. due \in Days /\ promised \in Days /\ today \in Days
    BY TrackingAssumption DEF TrackInit, Days
  <2>3. failed \in BOOLEAN /\ overlapped \in BOOLEAN /\ edited \in BOOLEAN
    BY DEF TrackInit
  <2>4. pending \in [Clerks -> LateData \cup {Never}]
    BY DEF TrackInit
  <2> QED
    BY <2>1, <2>2, <2>3, <2>4 DEF TrackTypeOK
<1>4. StampsOK
  <2>1. Reached(0) /\ DatedTo(0, stamp)
    BY <1>1, ReachedFacts DEF DatedTo
  <2> QED
    BY <2>1 DEF StampsOK
<1>5. due = promised
  BY DEF TrackInit
<1> QED
  BY <1>1, <1>2, <1>3, <1>4, <1>5 DEF JourneyInv, ReturnStatuses

\* A step of the row itself, with what it dates.
LEMMA RowMoves ==
    ASSUME JourneyInv, UNCHANGED <<asked, due, promised, today, pending, overlapped, edited>>,
           at' \in JourneyStatuses \ {"Pending"}, stamp' \in Dates, failed' \in BOOLEAN,
           at' \in ReturnStatuses => at \in ReturnStatuses,
           StampsOK => StampsOK'
    PROVE  JourneyInv'
<1>1. Written' = Written /\ (Told' <=> Told)
  BY DEF Written, Told
<1>2. TrackTypeOK'
  BY DEF JourneyInv, TrackTypeOK
<1> QED
  BY <1>1, <1>2 DEF JourneyInv

\* A decision on the row that was read.
LEMMA Decides ==
    ASSUME JourneyInv, NEW k \in Clerks, NEW late \in LateData,
           pending[k] = Never, pending' = [pending EXCEPT ![k] = late],
           UNCHANGED <<at, stamp, asked, failed, due, promised, today, overlapped, edited>>,
           LateOK(late), late.seen[1] = at,
           Told => at = "Pending" \/ late.due \in {Never, promised}
    PROVE  JourneyInv'
<1>1. TrackTypeOK'
  BY DEF JourneyInv, TrackTypeOK
<1>2. \A x \in Written' : x = late \/ x \in Written
  BY DEF Written, JourneyInv, TrackTypeOK
<1>3. /\ Told' <=> Told
      /\ StampsOK' <=> StampsOK
  BY DEF Told, StampsOK, Reached, DatedTo
<1> QED
  BY <1>1, <1>2, <1>3 DEF JourneyInv

LEMMA RowTyped ==
    ASSUME JourneyInv
    PROVE  /\ at \in JourneyStatuses /\ stamp \in Dates /\ today \in Days /\ today # Never
           /\ \A i \in 1..4 : stamp[i] \in Days \cup {Never}
           /\ \A i \in 1..4 : Dated(i) \in Days /\ Dated(i) # Never
           /\ \A d \in Days : d # Never
<1>1. \A d \in Days : d # Never
  BY TrackingAssumption DEF Days
<1> QED
  BY <1>1 DEF JourneyInv, TrackTypeOK, Dated, Dates

\* The claim, with stock or without.
LEMMA JourneyConfirm ==
    ASSUME JourneyInv, ConfirmDated
    PROVE  JourneyInv'
<1>1. /\ at = "Pending" /\ stamp \in Dates /\ Dated(1) \in Days /\ Dated(1) # Never
      /\ UNCHANGED <<asked, failed, due, promised, today, pending, overlapped, edited>>
  BY RowTyped DEF ConfirmDated
<1>2. StampsOK => \A i \in 1..4 : stamp[i] = Never
  BY <1>1, ReachedFacts DEF StampsOK, DatedTo
<1>3. CASE at' = "Confirmed" /\ stamp' = [stamp EXCEPT ![1] = Dated(1)]
  <2>1. stamp' \in Dates /\ \A i \in 1..4 : stamp'[i] = IF i = 1 THEN Dated(1) ELSE stamp[i]
    BY <1>1, <1>3 DEF Dates
  <2>2. Reached(1)'
    BY <1>3, ReachedFactsNext, StageFacts
  <2>3. StampsOK => DatedTo(1, stamp)'
    BY <1>1, <1>2, <2>1 DEF DatedTo
  <2>4. StampsOK => StampsOK'
    BY <2>2, <2>3 DEF StampsOK
  <2>5. at' \in JourneyStatuses \ {"Pending"} /\ at' \notin ReturnStatuses
    BY <1>3, StageFacts DEF JourneyStatuses, ReturnStatuses
  <2>6. failed' \in BOOLEAN
    BY <1>1 DEF JourneyInv, TrackTypeOK
  <2> QED
    BY <1>1, <2>1, <2>4, <2>5, <2>6, RowMoves
<1>4. CASE at' = "Confirming" /\ UNCHANGED stamp
  <2>1. Reached(0)'
    BY <1>4, ReachedFactsNext
  <2>2. StampsOK => DatedTo(0, stamp)'
    BY <1>2, <1>4 DEF DatedTo
  <2>3. StampsOK => StampsOK'
    BY <2>1, <2>2 DEF StampsOK
  <2>4. at' \in JourneyStatuses \ {"Pending"} /\ at' \notin ReturnStatuses
    BY <1>4 DEF JourneyStatuses, ReturnStatuses
  <2>5. failed' \in BOOLEAN /\ stamp' \in Dates
    BY <1>1, <1>4 DEF JourneyInv, TrackTypeOK
  <2> QED
    BY <1>1, <2>3, <2>4, <2>5, RowMoves
<1> QED
  BY <1>3, <1>4 DEF ConfirmDated

\* An executed proposal dates the next stage.
LEMMA JourneyAdvance ==
    ASSUME JourneyInv, ApplyFulfillmentTransition
    PROVE  JourneyInv'
<1>1. PICK n \in 1..4 : n = IndexOf(at) + 1 /\ at' = StageOrder[n]
                        /\ stamp' = [stamp EXCEPT ![n] = Dated(n)]
  <2>1. PICK i \in 1..4 : i = IndexOf(at)
    BY StageFacts DEF ApplyFulfillmentTransition
  <2>2. /\ i + 1 <= 4 /\ at' = StageOrder[i + 1]
        /\ stamp' = [stamp EXCEPT ![i + 1] = Dated(i + 1)]
    BY <2>1 DEF ApplyFulfillmentTransition
  <2>3. i + 1 \in 1..4
    BY <2>2
  <2> QED
    BY <2>1, <2>2, <2>3
<1>2. /\ at \in StageNames /\ IndexOf(at) = n - 1
      /\ UNCHANGED <<asked, failed, due, promised, today, pending, overlapped, edited>>
  BY <1>1, StageFacts DEF ApplyFulfillmentTransition
<1>3. stamp' \in Dates /\ \A i \in 1..4 : stamp'[i] = IF i = n THEN Dated(n) ELSE stamp[i]
  BY <1>1, RowTyped DEF Dates
<1>4. at' \in StageNames /\ IndexOf(at') = n
  BY <1>1, StageFacts DEF StageNames
<1>5. StampsOK => StampsOK'
  <2> SUFFICES ASSUME StampsOK PROVE StampsOK'
    OBVIOUS
  <2>1. n - 1 \in 0..4 /\ n \in 0..4
    OBVIOUS
  <2>2. DatedTo(n - 1, stamp)
    BY <1>2, <2>1, ReachedFacts DEF StampsOK
  <2>3. DatedTo(n, stamp)'
    BY <1>3, <2>2, RowTyped DEF DatedTo
  <2>4. Reached(n)'
    BY <1>4, <2>1, ReachedFactsNext
  <2> QED
    BY <2>1, <2>3, <2>4 DEF StampsOK
<1>6. at' \in JourneyStatuses \ {"Pending"} /\ at' \notin ReturnStatuses
  BY <1>4, StageFacts DEF JourneyStatuses, ReturnStatuses
<1>7. failed' \in BOOLEAN
  BY <1>2 DEF JourneyInv, TrackTypeOK
<1> QED
  BY <1>2, <1>3, <1>5, <1>6, <1>7, RowMoves

\* Cancellation, the decision on a return and the refund date nothing.
LEMMA JourneyCloses ==
    ASSUME JourneyInv, CancelDated \/ DecideReturn \/ Settle
    PROVE  JourneyInv'
<1>1. UNCHANGED <<stamp, asked, due, promised, today, pending, overlapped, edited>>
  BY DEF CancelDated, DecideReturn, Settle
<1>2. /\ at' \in JourneyStatuses \ {"Pending"} /\ (at' \in ReturnStatuses => at \in ReturnStatuses)
      /\ \A n \in 0..4 : Reached(n) => Reached(n)'
  <2>1. CASE CancelDated
    <3>1. at \in {"Pending", "Confirmed"} /\ at' = "Cancelled"
      BY <2>1 DEF CancelDated
    <3>2. \A n \in 0..4 : Reached(n) => n \in {0, 1}
      <4>1. IndexOf("Confirmed") = 1 /\ "Confirmed" \in StageNames
        BY StageFacts
      <4> QED
        BY <3>1, <4>1, ReachedFacts
    <3>3. \A n \in 0..4 : Reached(n) => Reached(n)'
      BY <3>1, <3>2, ReachedFactsNext
    <3> QED
      BY <3>1, <3>3 DEF JourneyStatuses, ReturnStatuses
  <2>2. CASE DecideReturn
    <3>1. at \in ReturnStatuses /\ at' \in ReturnStatuses
      BY <2>2 DEF DecideReturn, ReturnStatuses
    <3>2. \A n \in 0..4 : Reached(n) => Reached(n)'
      BY <3>1, ReachedFacts, ReachedFactsNext
    <3>3. at' \in JourneyStatuses \ {"Pending"}
      BY <3>1 DEF JourneyStatuses, ReturnStatuses
    <3> QED
      BY <3>1, <3>2, <3>3
  <2>3. CASE Settle
    <3>1. at \in {"Return Approved", "Cancelled"} /\ at' \in {"Refund Released", at}
      BY <2>3 DEF Settle
    <3>2. \A n \in 0..4 : Reached(n) => n \in {0, 1, 4}
      BY <3>1, ReachedFacts DEF ReturnStatuses
    <3>3. \A n \in 0..4 : Reached(n) => Reached(n)'
      <4>1. CASE at' = "Refund Released"
        BY <3>2, <4>1, ReachedFactsNext
      <4>2. CASE at' = at
        BY <4>2 DEF Reached
      <4> QED
        BY <3>1, <4>1, <4>2
    <3>4. at' \in JourneyStatuses \ {"Pending"} /\ (at' \in ReturnStatuses => at \in ReturnStatuses)
      BY <3>1 DEF JourneyStatuses, ReturnStatuses
    <3> QED
      BY <3>3, <3>4
  <2> QED
    BY <2>1, <2>2, <2>3
<1>3. failed' \in BOOLEAN /\ stamp' \in Dates
  BY <1>1 DEF CancelDated, DecideReturn, Settle, JourneyInv, TrackTypeOK
<1>4. StampsOK => StampsOK'
  BY <1>1, <1>2 DEF StampsOK, DatedTo
<1> QED
  BY <1>1, <1>2, <1>3, <1>4, RowMoves

\* The decisions that are written later.
LEMMA JourneyReads ==
    ASSUME JourneyInv, NEW k \in Clerks,
           \/ SellerReads(k) \/ RequestReads(k) \/ ExecuteReads(k)
           \/ \E target \in 1..4 : AdminReads(k, target)
           \/ \E date \in Days : \/ UserUpdateReads(k, date)
                                 \/ \E to \in JourneyStatuses : EditReads(k, to, date)
    PROVE  JourneyInv'
<1>0. TrackTypeOK /\ stamp \in Dates /\ at \in JourneyStatuses
  BY DEF JourneyInv, TrackTypeOK
<1>1. ASSUME NEW to \in JourneyStatuses \cup {Never}, NEW date \in Days,
             Late(k, to, date, {}, stamp, FALSE), date # due => at = "Pending",
             to = "Pending" => at = "Pending", to \in ReturnStatuses => to = at
      PROVE  JourneyInv'
  <2>1. PICK late : late = [to |-> to, due |-> date, sets |-> {}, dates |-> stamp,
                            asks |-> FALSE, seen |-> <<at, stamp>>]
    OBVIOUS
  <2>2. late \in LateData
    <3>1. date \in Days \cup {Never} /\ {} \in SUBSET (1..4) /\ FALSE \in BOOLEAN
      BY <1>1
    <3>2. <<at, stamp>> \in JourneyStatuses \X Dates
      BY <1>0
    <3> QED
      BY <1>0, <1>1, <2>1, <3>1, <3>2 DEF LateData
  <2>3. /\ late.to = to /\ late.due = date /\ late.sets = {}
        /\ late.dates = stamp /\ ~late.asks /\ late.seen[1] = at
    BY <2>1
  <2>4. /\ pending[k] = Never /\ pending' = [pending EXCEPT ![k] = late]
        /\ UNCHANGED <<at, stamp, asked, failed, due, promised, today, overlapped, edited>>
    BY <1>1, <2>1 DEF Late
  <2>5. LateOK(late)
    BY <1>1, <2>3 DEF LateOK
  <2>6. Told => at = "Pending" \/ late.due \in {Never, promised}
    BY <1>1, <2>3 DEF JourneyInv
  <2> QED
    BY <2>2, <2>3, <2>4, <2>5, <2>6, Decides
<1>2. ASSUME NEW date \in Days, UserUpdateReads(k, date) PROVE JourneyInv'
  BY <1>1, <1>2, TrackingAssumption DEF UserUpdateReads, ReturnStatuses, JourneyStatuses
<1>3. ASSUME NEW date \in Days, NEW to \in JourneyStatuses, EditReads(k, to, date)
      PROVE  JourneyInv'
  <2>1. to = "Pending" => at = "Pending"
    BY <1>3, StageFacts DEF EditReads
  <2>2. to \in ReturnStatuses => to = at
    <3>1. to \in ReturnStatuses => to # "Cancelled" /\ to \notin StageNames
      BY StageFacts DEF ReturnStatuses
    <3>2. at \in StageNames => IndexOf(at) >= 1
      BY StageFacts
    <3> QED
      BY <1>3, <3>1, <3>2, StageFacts DEF EditReads
  <2> QED
    BY <1>1, <1>3, <2>1, <2>2 DEF EditReads
<1>4. ASSUME Late(k, "Return Requested", Never, {}, stamp, TRUE), at = "Delivered"
      PROVE  JourneyInv'
  <2>1. PICK late : late = [to |-> "Return Requested", due |-> Never, sets |-> {}, dates |-> stamp,
                            asks |-> TRUE, seen |-> <<at, stamp>>]
    OBVIOUS
  <2>2. late \in LateData
    <3>1. /\ "Return Requested" \in JourneyStatuses /\ {} \in SUBSET (1..4)
          /\ TRUE \in BOOLEAN /\ Never \in Days \cup {Never}
      BY DEF JourneyStatuses, ReturnStatuses
    <3>2. <<at, stamp>> \in JourneyStatuses \X Dates
      BY <1>0
    <3> QED
      BY <1>0, <2>1, <3>1, <3>2 DEF LateData
  <2>3. /\ late.to = "Return Requested" /\ late.due = Never /\ late.sets = {}
        /\ late.dates = stamp /\ late.asks /\ late.seen[1] = at
    BY <2>1
  <2>4. /\ pending[k] = Never /\ pending' = [pending EXCEPT ![k] = late]
        /\ UNCHANGED <<at, stamp, asked, failed, due, promised, today, overlapped, edited>>
    BY <1>4, <2>1 DEF Late
  <2>5. LateOK(late)
    BY <1>4, <2>3 DEF LateOK
  <2> QED
    BY <2>2, <2>3, <2>4, <2>5, Decides
<1>5. CASE RequestReads(k) \/ ExecuteReads(k)
  BY <1>4, <1>5 DEF RequestReads, ExecuteReads, MayRequestReturn, IsOrderReturnEligible
<1>6. ASSUME NEW n \in 1..4, NEW sets \in SUBSET (1..4), NEW dates \in Dates, at \in StageNames,
             Late(k, StageOrder[n], Never, sets, dates, FALSE),
             \/ sets = 1..4 /\ DatedTo(n, dates)
             \/ sets = {n} /\ dates[n] # Never /\ IndexOf(at) = n - 1
      PROVE  JourneyInv'
  <2>1. PICK late : late = [to |-> StageOrder[n], due |-> Never, sets |-> sets, dates |-> dates,
                            asks |-> FALSE, seen |-> <<at, stamp>>]
    OBVIOUS
  <2>2. late \in LateData
    <3>1. StageOrder[n] \in JourneyStatuses /\ Never \in Days \cup {Never} /\ FALSE \in BOOLEAN
      BY <1>6 DEF JourneyStatuses, StageNames
    <3>2. <<at, stamp>> \in JourneyStatuses \X Dates
      BY <1>0
    <3> QED
      BY <1>6, <2>1, <3>1, <3>2 DEF LateData
  <2>3. /\ late.to = StageOrder[n] /\ late.due = Never /\ late.sets = sets
        /\ late.dates = dates /\ ~late.asks /\ late.seen[1] = at
    BY <2>1
  <2>4. /\ pending[k] = Never /\ pending' = [pending EXCEPT ![k] = late]
        /\ UNCHANGED <<at, stamp, asked, failed, due, promised, today, overlapped, edited>>
    BY <1>6, <2>1 DEF Late
  <2>5. LateOK(late)
    BY <1>6, <2>3 DEF LateOK
  <2> QED
    BY <2>2, <2>3, <2>4, <2>5, Decides
<1>7. CASE SellerReads(k)
  <2>1. PICK n \in 1..4 :
          /\ n = IndexOf(at) + 1 /\ at \in StageNames
          /\ Late(k, StageOrder[n], Never, {n}, [stamp EXCEPT ![n] = Dated(n)], FALSE)
    <3>1. PICK i \in 1..4 : i = IndexOf(at)
      BY <1>7, StageFacts DEF SellerReads
    <3>2. /\ i + 1 <= 4 /\ at \in StageNames
          /\ Late(k, StageOrder[i + 1], Never, {i + 1}, [stamp EXCEPT ![i + 1] = Dated(i + 1)],
                  FALSE)
      BY <1>7, <3>1 DEF SellerReads
    <3>3. i + 1 \in 1..4
      BY <3>2
    <3> QED
      BY <3>1, <3>2, <3>3
  <2>2. PICK dates : dates = [stamp EXCEPT ![n] = Dated(n)]
    OBVIOUS
  <2>3. dates \in Dates /\ dates[n] # Never
    BY <1>0, <2>2, RowTyped DEF Dates
  <2>4. IndexOf(at) = n - 1 /\ {n} \in SUBSET (1..4)
    BY <2>1, StageFacts
  <2> QED
    BY <1>6, <2>1, <2>2, <2>3, <2>4
<1>8. ASSUME NEW n \in 1..4, AdminReads(k, n) PROVE JourneyInv'
  <2>1. OverrideDates(n) \in Dates /\ DatedTo(n, OverrideDates(n))
    BY RowTyped DEF OverrideDates, Dates, DatedTo
  <2>2. at \in StageNames /\ Late(k, StageOrder[n], Never, 1..4, OverrideDates(n), FALSE)
    BY <1>8 DEF AdminReads
  <2> QED
    BY <1>6, <2>1, <2>2
<1> QED
  BY <1>2, <1>3, <1>5, <1>7, <1>8

\* What a write does, case by case, to a row that is as it was read.
LEMMA LateMoves ==
    ASSUME JourneyInv, NEW k \in Clerks, LateWrite(k), NEW late, late = pending[k]
    PROVE  /\ late \in LateData /\ late \in Written /\ LateOK(late)
           /\ ~overlapped' => ~overlapped /\ late.seen[1] = at
           /\ Told' => Told /\ (late.sets = {} /\ ~late.asks => late.to \in {Never, late.seen[1]})
           /\ at' = IF late.to = Never THEN at ELSE late.to
           /\ due' = IF late.due = Never THEN due ELSE late.due
           /\ promised' = IF at' = "Pending" THEN due' ELSE promised
           /\ asked' = IF late.asks THEN today ELSE asked
           /\ stamp' = [i \in 1..4 |-> IF i \in late.sets THEN late.dates[i] ELSE stamp[i]]
           /\ \A i \in 1..4 : stamp'[i] = IF i \in late.sets THEN late.dates[i] ELSE stamp[i]
           /\ Written' \subseteq Written
<1>1. late \in LateData /\ late \in Written
  BY DEF LateWrite, JourneyInv, TrackTypeOK, Written
<1>2. LateOK(late)
  BY <1>1 DEF JourneyInv
<1>3. ~overlapped' => ~overlapped /\ late.seen[1] = at
  <2>1. ~overlapped' => ~overlapped /\ <<at, stamp>> = late.seen
    BY DEF LateWrite
  <2> QED
    BY <2>1
<1>4. ~edited' => ~edited /\ (late.sets = {} /\ ~late.asks => late.to \in {Never, late.seen[1]})
  BY DEF LateWrite
<1>5. /\ at' = IF late.to = Never THEN at ELSE late.to
      /\ due' = IF late.due = Never THEN due ELSE late.due
      /\ promised' = IF at' = "Pending" THEN due' ELSE promised
      /\ asked' = IF late.asks THEN today ELSE asked
  BY DEF LateWrite
<1>6. stamp' = [i \in 1..4 |-> IF i \in late.sets THEN late.dates[i] ELSE stamp[i]]
  BY DEF LateWrite
<1>7. \A i \in 1..4 : stamp'[i] = IF i \in late.sets THEN late.dates[i] ELSE stamp[i]
  BY <1>6
<1>8. Written' \subseteq Written
  BY DEF LateWrite, Written, JourneyInv, TrackTypeOK
<1> QED
  BY <1>1, <1>2, <1>3, <1>4, <1>5, <1>6, <1>7, <1>8 DEF Told

\* The write leaves rows of their types.
LEMMA LateTyped ==
    ASSUME JourneyInv, NEW k \in Clerks, LateWrite(k)
    PROVE  TrackTypeOK'
<1>1. PICK late : late = pending[k]
  OBVIOUS
<1>2. /\ late \in LateData
      /\ at' = IF late.to = Never THEN at ELSE late.to
      /\ due' = IF late.due = Never THEN due ELSE late.due
      /\ promised' = IF at' = "Pending" THEN due' ELSE promised
      /\ asked' = IF late.asks THEN today ELSE asked
      /\ stamp' = [i \in 1..4 |-> IF i \in late.sets THEN late.dates[i] ELSE stamp[i]]
  BY <1>1, LateMoves
<1>3. /\ late.to \in JourneyStatuses \cup {Never} /\ late.due \in Days \cup {Never}
      /\ \A i \in 1..4 : late.dates[i] \in Days \cup {Never}
  BY <1>2 DEF LateData, Dates
<1>4. /\ at \in JourneyStatuses /\ due \in Days /\ promised \in Days /\ today \in Days
      /\ asked \in Days \cup {Never} /\ \A i \in 1..4 : stamp[i] \in Days \cup {Never}
      /\ pending \in [Clerks -> LateData \cup {Never}] /\ failed \in BOOLEAN
  BY DEF JourneyInv, TrackTypeOK, Dates
<1>5. at' \in JourneyStatuses
  BY <1>2, <1>3, <1>4
<1>6. due' \in Days
  BY <1>2, <1>3, <1>4
<1>7. promised' \in Days
  BY <1>2, <1>4, <1>6
<1>8. asked' \in Days \cup {Never}
  BY <1>2, <1>4
<1>9. stamp' \in Dates
  BY <1>2, <1>3, <1>4 DEF Dates
<1>10. today' \in Days /\ failed' \in BOOLEAN /\ pending' \in [Clerks -> LateData \cup {Never}]
  BY <1>4 DEF LateWrite
<1>11. overlapped' \in BOOLEAN /\ edited' \in BOOLEAN
  BY DEF LateWrite
<1> QED
  BY <1>5, <1>6, <1>7, <1>8, <1>9, <1>10, <1>11 DEF TrackTypeOK

\* The dates still go as far as the status when the row was as it was read.
LEMMA LateDates ==
    ASSUME JourneyInv, NEW k \in Clerks, LateWrite(k), Told'
    PROVE  StampsOK'
<1>1. PICK late : late = pending[k]
  OBVIOUS
<1>2. /\ LateOK(late) /\ late.seen[1] = at /\ Told
      /\ late.sets = {} /\ ~late.asks => late.to \in {Never, at}
      /\ at' = IF late.to = Never THEN at ELSE late.to
      /\ \A i \in 1..4 : stamp'[i] = IF i \in late.sets THEN late.dates[i] ELSE stamp[i]
  <2>1. ~overlapped'
    BY DEF Told
  <2> QED
    BY <1>1, <2>1, LateMoves
<1>3. PICK m \in 0..4 : Reached(m) /\ DatedTo(m, stamp)
  BY <1>2 DEF JourneyInv, StampsOK
<1>4. CASE late.sets = {} /\ ~late.asks
  <2>1. at' = at /\ \A i \in 1..4 : stamp'[i] = stamp[i]
    <3>1. late.to = Never \/ late.to = at
      BY <1>2, <1>4
    <3> QED
      BY <1>2, <1>4, <3>1
  <2>2. Reached(m)'
    BY <1>3, <2>1 DEF Reached
  <2>3. DatedTo(m, stamp)'
    BY <1>3, <2>1 DEF DatedTo
  <2> QED
    BY <2>2, <2>3 DEF StampsOK
<1>5. CASE /\ late.sets = {} /\ late.asks
           /\ late.seen[1] = "Delivered" /\ late.to = "Return Requested"
  <2>1. at = "Delivered" /\ at' = "Return Requested" /\ \A i \in 1..4 : stamp'[i] = stamp[i]
    <3>1. "Return Requested" \in JourneyStatuses
      BY DEF JourneyStatuses, ReturnStatuses
    <3>2. late.to # Never
      BY <1>5, <3>1, TrackingAssumption
    <3>3. \A i \in 1..4 : i \notin late.sets
      BY <1>5
    <3>4. at = "Delivered"
      BY <1>2, <1>5
    <3>5. at' = "Return Requested"
      BY <1>2, <1>5, <3>2
    <3>6. \A i \in 1..4 : stamp'[i] = stamp[i]
      BY <1>2, <3>3
    <3> QED
      BY <3>4, <3>5, <3>6
  <2>2. m = 4
    <3>1. "Delivered" \in StageNames /\ IndexOf("Delivered") = 4
      <4>1. 4 \in 1..4
        OBVIOUS
      <4> QED
        BY <4>1, StageFacts
    <3> QED
      BY <1>3, <2>1, <3>1, ReachedFacts
  <2>3. Reached(4)'
    <3>1. 4 \in 0..4
      OBVIOUS
    <3>2. at' \in ReturnStatuses
      BY <2>1 DEF ReturnStatuses
    <3>3. Reached(4)' <=> 4 = 4
      BY <3>1, <3>2, ReachedFactsNext
    <3> QED
      BY <3>3
  <2>4. DatedTo(4, stamp)'
    BY <1>3, <2>1, <2>2 DEF DatedTo
  <2> QED
    BY <2>3, <2>4 DEF StampsOK
<1>6. ASSUME NEW n \in 1..4, at \in StageNames, late.to = StageOrder[n],
             \/ late.sets = 1..4 /\ DatedTo(n, late.dates)
             \/ late.sets = {n} /\ late.dates[n] # Never /\ IndexOf(at) = n - 1
      PROVE  StampsOK'
  <2>1. at' = StageOrder[n]
    <3>1. StageOrder[n] \in JourneyStatuses
      BY DEF JourneyStatuses, StageNames
    <3> QED
      BY <1>2, <1>6, <3>1, TrackingAssumption
  <2>2. Reached(n)'
    <3>1. at' \in StageNames /\ IndexOf(at') = n /\ n \in 0..4
      BY <2>1, StageFacts DEF StageNames
    <3> QED
      BY <3>1, ReachedFactsNext
  <2>3. DatedTo(n, stamp)'
    <3>1. CASE late.sets = 1..4 /\ DatedTo(n, late.dates)
      BY <1>2, <3>1 DEF DatedTo
    <3>2. CASE late.sets = {n} /\ late.dates[n] # Never /\ IndexOf(at) = n - 1
      <4>1. m = n - 1
        BY <1>3, <1>6, <3>2, ReachedFacts
      <4> QED
        BY <1>2, <1>3, <3>2, <4>1 DEF DatedTo
    <3> QED
      BY <1>6, <3>1, <3>2
  <2>4. n \in 0..4
    OBVIOUS
  <2> QED
    BY <2>2, <2>3, <2>4 DEF StampsOK
<1> QED
  BY <1>2, <1>4, <1>5, <1>6 DEF LateOK

\* The write of a decision that was made on an earlier read.
LEMMA JourneyLate ==
    ASSUME JourneyInv, NEW k \in Clerks, LateWrite(k)
    PROVE  JourneyInv'
<1>1. PICK late : late = pending[k]
  OBVIOUS
<1>2. /\ late \in LateData /\ late \in Written /\ LateOK(late)
      /\ ~overlapped' => ~overlapped /\ late.seen[1] = at
      /\ Told' => Told /\ (late.sets = {} /\ ~late.asks => late.to \in {Never, late.seen[1]})
      /\ at' = IF late.to = Never THEN at ELSE late.to
      /\ due' = IF late.due = Never THEN due ELSE late.due
      /\ promised' = IF at' = "Pending" THEN due' ELSE promised
      /\ asked' = IF late.asks THEN today ELSE asked
      /\ Written' \subseteq Written
  BY <1>1, LateMoves
<1>3. \A l \in Written' : LateOK(l)
  BY <1>2 DEF JourneyInv
<1>4. \A n \in 1..4 : StageOrder[n] \notin ReturnStatuses /\ StageOrder[n] # "Pending"
  <2>1. \A n \in 1..4 : n = 1 \/ n = 2 \/ n = 3 \/ n = 4
    OBVIOUS
  <2> QED
    BY <2>1, StageFacts DEF ReturnStatuses
<1>5. ASSUME ~overlapped' PROVE at' \in ReturnStatuses => asked' # Never
  <2>1. at \in ReturnStatuses => asked # Never
    BY <1>2, <1>5 DEF JourneyInv
  <2>2. CASE late.asks
    BY <1>2, <2>2, RowTyped
  <2>3. CASE ~late.asks
    <3>1. at' \in ReturnStatuses => at' = at
      BY <1>2, <1>4, <1>5, <2>3 DEF LateOK
    <3> QED
      BY <1>2, <2>1, <2>3, <3>1
  <2> QED
    BY <2>2, <2>3
<1>6. ASSUME ~overlapped', at' = "Pending" PROVE \A l \in Written' : l.seen[1] = "Pending"
  <2>1. at = "Pending"
    BY <1>2, <1>4, <1>6 DEF LateOK
  <2> QED
    BY <1>2, <1>6, <2>1 DEF JourneyInv
<1>7. ASSUME Told'
      PROVE  /\ due' = promised'
             /\ \A l \in Written' : l.seen[1] = "Pending" \/ l.due \in {Never, promised'}
  <2>0. ~overlapped' /\ ~overlapped /\ late.seen[1] = at /\ Told
    BY <1>2, <1>7 DEF Told
  <2>1. PICK p : p = promised
    OBVIOUS
  <2>2. /\ due = p
        /\ \A l \in Written : l.seen[1] = "Pending" \/ l.due \in {Never, p}
    BY <2>0, <2>1 DEF JourneyInv
  <2>3. CASE at' = "Pending"
    <3>1. \A l \in Written' : l.seen[1] = "Pending"
      BY <1>6, <2>0, <2>3
    <3> QED
      BY <1>2, <2>3, <3>1
  <2>4. CASE at' # "Pending"
    <3>1. promised' = p
      BY <1>2, <2>1, <2>4
    <3>2. late.due \in {Never, p}
      <4>1. CASE at = "Pending"
        <5>1. late.due = Never
          BY <1>2, <1>7, <2>0, <2>4, <4>1 DEF LateOK
        <5> QED
          BY <5>1
      <4>2. CASE at # "Pending"
        BY <1>2, <2>0, <2>2, <4>2
      <4> QED
        BY <4>1, <4>2
    <3>3. due' = p
      BY <1>2, <2>2, <3>2
    <3> QED
      BY <1>2, <2>2, <3>1, <3>3
  <2> QED
    BY <2>3, <2>4
<1>8. Told' => StampsOK'
  BY LateDates
<1>9. TrackTypeOK'
  BY LateTyped
<1> QED
  BY <1>3, <1>5, <1>6, <1>7, <1>8, <1>9 DEF JourneyInv

\* A day passes.
LEMMA JourneyTomorrow ==
    ASSUME JourneyInv, Tomorrow
    PROVE  JourneyInv'
<1>1. /\ UNCHANGED <<at, stamp, asked, failed, due, promised, pending, overlapped, edited>>
      /\ today' \in Days
  BY TrackingAssumption DEF Tomorrow, JourneyInv, TrackTypeOK, Days
<1>2. Written' = Written /\ (Told' <=> Told) /\ (StampsOK' <=> StampsOK)
  BY <1>1 DEF Written, Told, StampsOK, Reached, DatedTo
<1>3. TrackTypeOK'
  BY <1>1 DEF JourneyInv, TrackTypeOK
<1> QED
  BY <1>1, <1>2, <1>3 DEF JourneyInv

LEMMA JourneyStep ==
    ASSUME JourneyInv, [TrackNext]_trackVars
    PROVE  JourneyInv'
<1>1. CASE UNCHANGED trackVars
  <2>1. UNCHANGED <<at, stamp, asked, failed, due, promised, today, pending, overlapped, edited>>
    BY <1>1 DEF trackVars
  <2>2. Written' = Written /\ (Told' <=> Told) /\ (StampsOK' <=> StampsOK) /\ TrackTypeOK'
    BY <2>1 DEF Written, Told, StampsOK, Reached, DatedTo, JourneyInv, TrackTypeOK
  <2> QED
    BY <2>1, <2>2 DEF JourneyInv
<1>2. CASE TrackNext
  BY <1>2, JourneyTomorrow, JourneyConfirm, JourneyReads, JourneyLate, JourneyAdvance,
     JourneyCloses DEF TrackNext
<1> QED
  BY <1>1, <1>2

-----------------------------------------------------------------------------
(* What the readers make of it *)

\* The pages show the dates as they are when those go as far as the status.
LEMMA JourneyShown ==
    ASSUME JourneyInv, Told
    PROVE  /\ \E n \in 0..4 : Reached(n) /\ StepsDone = 1..n /\ DeliveryStage = n
           /\ ShowsTimeline => ActiveStep = IndexOf(at)
           /\ \A i \in 1..4 : StepText(i) # "Completed"
<1>1. PICK n \in 0..4 : Reached(n) /\ DatedTo(n, stamp)
  BY DEF JourneyInv, StampsOK
<1>2. IndexOf(at) \in 0..4 /\ IndexOf(at) <= n
  <2>1. at \in StageNames => IndexOf(at) \in 1..4 /\ n = IndexOf(at)
    BY <1>1, StageFacts, ReachedFacts
  <2>2. at \notin StageNames => IndexOf(at) = 0
    BY StageFacts
  <2> QED
    BY <2>1, <2>2
<1>3. \A i \in 1..4 : Done(i) <=> i <= n
  BY <1>1, <1>2 DEF Done, DatedTo
<1>4. \A i \in 1..4 : Done(i) <=> stamp[i] # Never
  BY <1>1, <1>3 DEF DatedTo
<1>5. StepsDone = 1..n
  BY <1>3 DEF StepsDone
<1>6. DeliveryStage = n
  <2>1. {i \in 1..4 : stamp[i] # Never} = 1..n
    BY <1>1 DEF DatedTo
  <2>2. CASE n = 0
    <3>1. 1..n = {}
      BY <2>2
    <3> QED
      BY <2>1, <2>2, <3>1 DEF DeliveryStage
  <2>3. CASE n # 0
    <3>1. n \in 1..n /\ \A j \in 1..n : j <= n
      BY <2>3
    <3>2. \A i \in 1..n : (\A j \in 1..n : j <= i) => i = n
      BY <3>1
    <3>3. (CHOOSE i \in 1..n : \A j \in 1..n : j <= i) = n
      BY <3>1, <3>2
    <3>4. 1..n # {}
      BY <3>1
    <3> QED
      BY <2>1, <3>3, <3>4 DEF DeliveryStage
  <2> QED
    BY <2>2, <2>3
<1>7. ASSUME ShowsTimeline PROVE ActiveStep = IndexOf(at)
  <2>1. IndexOf(at) = n
    <3>1. at \in StageNames \/ at \in {"Pending", "Confirming"}
      BY <1>7, RowTyped DEF ShowsTimeline, JourneyStatuses
    <3>2. at \in StageNames => n = IndexOf(at)
      BY <1>1, ReachedFacts
    <3>3. at \in {"Pending", "Confirming"} => n = 0 /\ IndexOf(at) = 0
      BY <1>1, ReachedFacts, StageFacts
    <3> QED
      BY <3>1, <3>2, <3>3
  <2>2. n \in 1..n \cup {0} /\ \A j \in 1..n : j <= n
    OBVIOUS
  <2>3. \A i \in 1..n \cup {0} : (\A j \in 1..n : j <= i) => i = n
    OBVIOUS
  <2>4. (CHOOSE i \in 1..n \cup {0} : \A j \in 1..n : j <= i) = n
    BY <2>2, <2>3
  <2> QED
    BY <1>5, <2>1, <2>4 DEF ActiveStep
<1>8. \A i \in 1..4 : StepText(i) # "Completed"
  <2> TAKE i \in 1..4
  <2>1. CASE stamp[i] # Never
    BY <2>1 DEF StepText
  <2>2. CASE stamp[i] = Never
    <3>1. ~Done(i)
      BY <1>4, <2>2
    <3> QED
      BY <2>2, <3>1 DEF StepText
  <2> QED
    BY <2>1, <2>2
<1> QED
  BY <1>1, <1>5, <1>6, <1>7, <1>8

LEMMA JourneyInvTells == JourneyInv => JourneyTold
<1> SUFFICES ASSUME JourneyInv PROVE JourneyTold
  OBVIOUS
<1>1. ~overlapped /\ ~edited =>
          /\ \E n \in 0..4 : Reached(n) /\ StepsDone = 1..n /\ DeliveryStage = n
          /\ ShowsTimeline => ActiveStep = IndexOf(at)
          /\ \A i \in 1..4 : StepText(i) # "Completed"
          /\ due = promised
  BY JourneyShown DEF JourneyInv, Told
<1>2. PolicyDays <= ReturnDays /\ IsOrderReturnEligible => MayRequestReturn
  <2> SUFFICES ASSUME PolicyDays <= ReturnDays, IsOrderReturnEligible PROVE MayRequestReturn
    OBVIOUS
  <2>1. at = "Delivered" /\ stamp[4] # Never /\ today - stamp[4] <= PolicyDays
    BY DEF IsOrderReturnEligible
  <2>2. today \in Int /\ stamp[4] \in Int
    BY <2>1, RowTyped, TrackingAssumption DEF Days
  <2>3. today - stamp[4] <= ReturnDays
    BY <2>1, <2>2, TrackingAssumption
  <2> QED
    BY <2>1, <2>3 DEF MayRequestReturn, SinceDelivery
<1>3. at \in ReturnStatuses /\ InWindow /\ ~overlapped => InReturnQueue /\ InExceptionQueue
  BY DEF JourneyInv, InReturnQueue, InExceptionQueue, ExceptionStatuses
<1> QED
  BY <1>1, <1>2, <1>3 DEF JourneyTold

\* The dates of an order go as far as its status, and each write that is under
\* way, decided on an earlier read, keeps them so on the row it was decided on.
THEOREM JourneyInductive == TrackSpec => []JourneyInv
<1>1. TrackInit => JourneyInv
  BY JourneyInitially
<1>2. JourneyInv /\ [TrackNext]_trackVars => JourneyInv'
  BY JourneyStep
<1> QED
  BY <1>1, <1>2, PTL DEF TrackSpec

\* However an order is moved, dated and edited: unless a write went over a state
\* that it had not read, or an admin's edit moved the status, both timelines and
\* the support draft tell the stage that the order reached, with a date for each
\* step, and the delivery date is the paid order's; what the assistant offers to
\* return the storefront takes; and a return is in both of the admin's queues.
\* Over updateSellerOrderStatus, updateOrder, requestReturn and their readers.
THEOREM JourneyIsTold == TrackSpec => []JourneyTold
<1>1. JourneyInv => JourneyTold
  BY JourneyInvTells
<1> QED
  BY <1>1, JourneyInductive, PTL

=============================================================================
