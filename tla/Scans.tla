------------------------------- MODULE Scans -------------------------------
(***************************************************************************)
(* A reader goes through a list page by page while the list changes.       *)
(*                                                                         *)
(* The assistant's lists page by key: the cursor holds createdAt and id of *)
(* the last row shown, is bound to the query it was made for, and, where   *)
(* the list covers the last 90 days, carries the window of its first page. *)
(* The public catalogue and the admin screens page by offset, with the     *)
(* rows and their number read by two statements.                           *)
(*                                                                         *)
(* A row's id says nothing of its age: ids are random, and createdAt is    *)
(* the start of a transaction that may commit later.                       *)
(***************************************************************************)
EXTENDS Integers, FiniteSets

CONSTANTS RowIds,    \* ids of rows, numbers as they are compared
          PageSize,  \* rows of a page
          MaxTime,   \* bound on the clock
          Span,      \* 90 days, in ticks of the clock
          MaxPages,  \* MAX_REFERENCE_SCAN_PAGES
          MaxEdits   \* bound on changes of a row after its insertion

\* 0 is no row's id: the look-up by reference begins above it.
ASSUME ScanAssumption ==
    /\ RowIds \subseteq Nat \ {0} /\ IsFiniteSet(RowIds)
    /\ PageSize \in Nat \ {0} /\ MaxPages \in Nat \ {0}
    /\ MaxTime \in Nat \ {0} /\ Span \in Nat /\ MaxEdits \in Nat

VARIABLES list,    \* the list that is read
          entries, \* id -> [at, data], at = 0: not yet inserted, -1: removed
          now,
          scan,    \* the reader: cursor and rows shown so far
          steady,  \* history: rows in the list ever since the first page
          quiet,   \* history: no row of the list changed since the first page
          edits
scanVars == <<list, entries, now, scan, steady, quiet, edits>>

\* "Return Requested" and "Refund Released" stand for their groups.
EXCEPTION_STATUSES == {"Return Requested", "Refund Released"}
RETURN_STATUSES == {"Return Requested"}

KeysetLists == {"orders", "sales", "exceptions", "returns", "notifications",
                "applications", "promotions", "myProducts"}
OffsetLists == {"search", "reviews", "adminOrders", "adminSellers", "adminSeller"}
Lists == KeysetLists \cup OffsetLists \cup {"references"}

Entry(s, failed, known, price) ==
    [status |-> s, failed |-> failed, known |-> known, price |-> price]
Plain(s) == Entry(s, FALSE, TRUE, 1)

\* What a row of the list can hold, as far as some list tells it apart.
Data(l) ==
    CASE l \in {"orders", "sales"} -> {Plain("Pending"), Plain("Cancelled")}
      [] l \in {"exceptions", "returns"} ->
            {Plain("Cancelled"), Entry("Cancelled", TRUE, TRUE, 1),
             Plain("Return Requested"), Plain("Refund Released"),
             Entry("Return Requested", FALSE, FALSE, 1)}
      [] l = "applications" -> {Plain("pending"), Plain("approved"), Plain("rejected")}
      [] l = "adminSellers" -> {Plain("verified"), Plain("unverified")}
      [] l = "promotions" -> {Plain("active"), Plain("inactive")}
      [] l = "search" ->
            {Plain("listed"), Entry("listed", FALSE, TRUE, 2), Plain("archived")}
      [] OTHER -> {Plain("row")}

\* The filters a reader can ask for; "any" leaves the filter out.
Filters(l) ==
    CASE l \in {"orders", "sales"} -> {"any", "Pending"}
      [] l = "applications" -> {"any", "pending", "approved"}
      [] l = "adminSellers" -> {"any", "verified"}
      [] l = "promotions" -> {"any", "active"}
      [] OTHER -> {"any"}

\* A query: its filter and the end of its window, 0 when it names none.
Queries(l) ==
    [filter : Filters(l), to : IF l \in {"orders", "sales"} THEN {0, 2} ELSE {0}]

-----------------------------------------------------------------------------
(* Which rows a list holds.                                                 *)

StatusMatches(d, filter) == filter \in {"any", d.status}

ExceptionMembership(d) == d.status \in EXCEPTION_STATUSES \/ d.failed
ReturnMembership(d) == d.status \in RETURN_STATUSES
AttributionPresent(d) == d.known

Member(l, d, filter) ==
    CASE l = "exceptions" -> ExceptionMembership(d) /\ AttributionPresent(d)
      [] l = "returns" -> ReturnMembership(d) /\ AttributionPresent(d)
      [] l = "search" -> d.status # "archived"
      [] OTHER -> StatusMatches(d, filter)

Everything == [from |-> 1, to |-> MaxTime]

InList(l, row, q, w) == /\ row.at > 0 /\ row.at \in w.from .. w.to
                        /\ Member(l, row.data, q.filter)

Found(q, w) == {r \in RowIds : InList(list, entries[r], q, w)}

\* createdAt descending, id descending.
Newer(r, s) == \/ entries[r].at > entries[s].at
               \/ (entries[r].at = entries[s].at /\ r > s)

\* The first n rows of S in an order.
Take(S, n, Before(_, _)) ==
    {r \in S : Cardinality({s \in S : Before(s, r)}) < n}

Last(S, Before(_, _)) == CHOOSE r \in S : \A s \in S \ {r} : Before(s, r)

-----------------------------------------------------------------------------
Idle == [pc |-> "idle", query |-> [filter |-> "any", to |-> 0], window |-> Everything,
         at |-> 0, id |-> 0, pages |-> 0, seen |-> {}, twice |-> FALSE,
         page |-> {}, total |-> 0, read |-> {}]

ScanInit ==
    /\ list \in Lists
    /\ entries = [r \in RowIds |-> [at |-> 0, data |-> CHOOSE d \in Data(list) : TRUE]]
    /\ now = 1 /\ scan = Idle /\ steady = {} /\ quiet = TRUE /\ edits = 0

Fresh == scan.pc = "idle" /\ scan.read = {}

\* The notifications' cursor is bound to its reader, not to a query.
AcceptedForPrincipal(q) == scan.pc \in {"idle", "open"}

\* decode refuses a cursor of another query; a refused page changes nothing.
Accepted(q) == scan.pc = "idle" \/ (scan.pc = "open" /\ q = scan.query)

\* So does the catalogue's.  The admin screens send a page number, which is
\* bound to nothing: it is the screen that goes back to page 1 with a new filter.
AcceptedOffset(q) == Fresh \/ (scan.pc # "done" /\ q = scan.query)

\* The window of the first page goes along in the cursor.
WindowOf(q) ==
    CASE q.to # 0 -> [from |-> q.to - Span, to |-> q.to]
      [] scan.pc = "open" -> scan.window
      [] OTHER -> [from |-> now - Span, to |-> now]

Show(page, more, q, w) ==
    scan' = [scan EXCEPT !.pc = IF more THEN "open" ELSE "done", !.query = q,
                         !.window = w, !.seen = @ \cup page, !.pages = @ + 1,
                         !.twice = @ \/ page \cap scan.seen # {},
                         !.page = {}, !.total = 0, !.read = {}]

Remember(q, w) ==
    /\ steady' = IF Fresh THEN Found(q, w) ELSE steady
    /\ quiet' = (Fresh \/ quiet)

Frame == UNCHANGED <<list, entries, now, edits>>

\* The page after the cursor, and one row more to know whether there is another.
KeysetPage(q, w) ==
    LET after == {r \in Found(q, w) :
                    \/ scan.pc = "idle"
                    \/ entries[r].at < scan.at
                    \/ (entries[r].at = scan.at /\ r < scan.id)}
        page  == Take(after, PageSize, Newer)
        more  == Cardinality(Take(after, PageSize + 1, Newer)) > PageSize
        last  == Last(page, Newer)
    IN  /\ IF more
           THEN scan' = [scan EXCEPT !.pc = "open", !.query = q, !.window = w,
                                     !.at = entries[last].at, !.id = last,
                                     !.seen = @ \cup page,
                                     !.twice = @ \/ page \cap scan.seen # {}]
           ELSE Show(page, FALSE, q, w)
        /\ Remember(q, w)
        /\ Frame

WindowedPage(q) == Accepted(q) /\ KeysetPage(q, WindowOf(q))
PlainPage(q) == Accepted(q) /\ KeysetPage(q, Everything)

ListMyOrders == list = "orders" /\ \E q \in Queries(list) : WindowedPage(q)
ListMySales == list = "sales" /\ \E q \in Queries(list) : WindowedPage(q)

ReadQueuePage == \E q \in Queries(list) : WindowedPage(q)
ListOrderExceptionQueue == list = "exceptions" /\ ReadQueuePage
ListReturnQueue == list = "returns" /\ ReadQueuePage

ListMyNotifications ==
    /\ list = "notifications"
    /\ \E q \in Queries(list) : AcceptedForPrincipal(q) /\ KeysetPage(q, Everything)
ListSellerApplications ==
    list = "applications" /\ \E q \in Queries(list) : PlainPage(q)
ListPromotionConfiguration ==
    list = "promotions" /\ \E q \in Queries(list) : PlainPage(q)
ListMyProducts ==
    list = "myProducts" /\ \E q \in Queries(list) : PlainPage(q)

\* One request that reads all sellers by id, page after page, up to a bound.
FindSellerApplicationByReference ==
    LET q     == scan.query
        after == {r \in Found(q, Everything) : r > scan.id}
        Less(r, s) == r < s
        page  == Take(after, PageSize, Less)
        full  == Cardinality(page) = PageSize
    IN  /\ list = "references"
        /\ scan.pc \in {"idle", "open"}
        /\ scan' = [scan EXCEPT
                      !.pc = IF full /\ scan.pages + 1 < MaxPages THEN "open" ELSE "done",
                      !.id = IF full THEN Last(page, Less) ELSE @,
                      !.seen = @ \cup page, !.pages = @ + 1,
                      !.twice = @ \/ page \cap scan.seen # {}]
        /\ Remember(q, Everything)
        /\ Frame

-----------------------------------------------------------------------------
(* Pages by offset: the rows and their number are two statements that run   *)
(* side by side.                                                            *)

\* The orders the lists ask for.  getAllOrder names createdAt alone: equal
\* times come in any order, here by id or against it.
Cheaper(r, s) == \/ entries[r].data.price < entries[s].data.price
                 \/ (entries[r].data.price = entries[s].data.price /\ r < s)
NewerFirstId(r, s) == \/ entries[r].at > entries[s].at
                      \/ (entries[r].at = entries[s].at /\ r < s)

\* skip: the rows of the pages before this one.
Skipped == scan.pages * PageSize

Skip(S, n, m, Before(_, _)) == Take(S, n + m, Before) \ Take(S, n, Before)

ReadRows(Before(_, _)) ==
    \E q \in Queries(list) :
        /\ AcceptedOffset(q)
        /\ "rows" \notin scan.read
        /\ scan' = [scan EXCEPT !.query = q, !.read = @ \cup {"rows"},
                        !.page = Skip(Found(q, Everything), Skipped, PageSize, Before)]
        /\ Remember(q, Everything)
        /\ Frame

ReadTotal ==
    \E q \in Queries(list) :
        /\ list \in OffsetLists
        /\ AcceptedOffset(q)
        /\ "total" \notin scan.read
        /\ scan' = [scan EXCEPT !.query = q, !.read = @ \cup {"total"},
                                !.total = Cardinality(Found(q, Everything))]
        /\ Remember(q, Everything)
        /\ Frame

SearchPublicProducts == list = "search" /\ ReadRows(Cheaper)
GetPublicProductReviews == list = "reviews" /\ ReadRows(NewerFirstId)
GetAllOrder == list = "adminOrders" /\ (ReadRows(Newer) \/ ReadRows(NewerFirstId))
ListAdminSellers == list = "adminSellers" /\ ReadRows(NewerFirstId)
GetAdminSeller == list = "adminSeller" /\ ReadRows(NewerFirstId)

\* Another page while offset + count < total.
NextCursor ==
    /\ scan.read = {"rows", "total"}
    /\ Show(scan.page,
            Skipped + Cardinality(scan.page) < scan.total,
            scan.query, Everything)
    /\ Frame
    /\ UNCHANGED <<steady, quiet>>

-----------------------------------------------------------------------------
(* The list changes under the reader.                                       *)

Change(r, row) ==
    /\ entries' = [entries EXCEPT ![r] = row]
    /\ steady' = IF InList(list, row, scan.query, scan.window) THEN steady
                 ELSE steady \ {r}
    /\ quiet' = (quiet /\ Fresh)
    /\ UNCHANGED <<list, now, scan>>

Insert == \E r \in RowIds, d \in Data(list), t \in {now - 1, now} \ {0} :
    /\ entries[r].at = 0
    /\ Change(r, [at |-> t, data |-> d])
    /\ UNCHANGED edits

Edit == \E r \in RowIds, d \in Data(list) :
    /\ entries[r].at > 0 /\ d # entries[r].data /\ edits < MaxEdits
    /\ Change(r, [entries[r] EXCEPT !.data = d])
    /\ edits' = edits + 1

Remove == \E r \in RowIds :
    /\ entries[r].at > 0 /\ edits < MaxEdits
    /\ Change(r, [entries[r] EXCEPT !.at = -1])
    /\ edits' = edits + 1

\* The catalogue is ordered by price or name: its clock may stand still.
Tick == /\ now < MaxTime /\ list # "search"
        /\ now' = now + 1
        /\ UNCHANGED <<list, entries, scan, steady, quiet, edits>>

ScanNext == \/ ListMyOrders \/ ListMySales
            \/ ListOrderExceptionQueue \/ ListReturnQueue
            \/ ListMyNotifications \/ ListSellerApplications
            \/ ListPromotionConfiguration \/ ListMyProducts
            \/ FindSellerApplicationByReference
            \/ SearchPublicProducts \/ GetPublicProductReviews
            \/ GetAllOrder \/ ListAdminSellers \/ GetAdminSeller
            \/ ReadTotal \/ NextCursor
            \/ Insert \/ Edit \/ Remove \/ Tick

ScanSpec == ScanInit /\ [][ScanNext]_scanVars

-----------------------------------------------------------------------------
ScanTypeOK ==
    /\ list \in Lists
    /\ entries \in [RowIds -> [at : -1 .. MaxTime, data : Data(list)]]
    /\ now \in 1 .. MaxTime /\ edits \in 0 .. MaxEdits
    /\ scan.pc \in {"idle", "open", "done"}
    /\ scan.seen \subseteq RowIds /\ steady \subseteq RowIds

\* Two orders of one instant have no place of their own in getAllOrder.
Ties == \E r, s \in RowIds : r # s /\ entries[r].at > 0 /\ entries[r].at = entries[s].at

\* A list read by key shows no row twice, whatever happens to the list, and
\* when it ends it has shown every row that stayed in it from the first page on
\* (the look-up by reference: unless it met its bound).  A list read by offset
\* promises that only while the list rests, and getAllOrder only without ties.
ScanExact ==
    IF list \in OffsetLists
    THEN scan.pc = "done" /\ quiet /\ (list = "adminOrders" => ~Ties) =>
            ~scan.twice /\ scan.seen = steady
    ELSE /\ ~scan.twice
         /\ scan.pc = "done" =>
                steady \subseteq scan.seen \/ (list = "references" /\ scan.pages = MaxPages)
=============================================================================
