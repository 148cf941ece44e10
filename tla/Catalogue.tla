----------------------------- MODULE Catalogue -----------------------------
(***************************************************************************)
(* A seller's product, the reviews of those who bought it, and the         *)
(* notifications that its creation and its discounts send.                 *)
(*                                                                         *)
(* Every handler is a chain of statements of its own, with no transaction. *)
(* One product stands for the catalogue; each shopper has at most one      *)
(* order of it.  Foreign keys are the database's: a product in a cart or   *)
(* an order cannot be deleted, and no row refers to a deleted account.     *)
(***************************************************************************)
EXTENDS Integers, FiniteSets

CONSTANTS Shoppers,   \* accounts of role user
          Clerks,     \* requests that are served at a time
          Nobody,
          Discounts   \* the percentages sellers ask for, 0 to end a discount

ASSUME CatalogueAssumption ==
    Nobody \notin Shoppers /\ IsFiniteSet(Clerks) /\ Discounts \subseteq 0..100

VARIABLES
    shelf,     \* the product: state, whether a seller owns it, its discount
    people,    \* shoppers whose account exists
    carts,     \* shoppers whose cart holds the product
    bought,    \* shopper -> the status of the order of the product
    reviews,   \* shopper -> how many product_reviews carry that order
    notices,   \* notifications: recipient, type, percentage, read
    tasks,     \* clerk -> the request it serves
    carried,   \* history: the discounts the product has had
    overlaps   \* history: shoppers two of whose submissions overlapped
catVars == <<shelf, people, carts, bought, reviews, notices, tasks, carried, overlaps>>

NoTask == [pc |-> "free", user |-> Nobody, pct |-> 0, to |-> {}, known |-> 0]

Notification == [to : Shoppers, type : {"new_product", "discount"},
                 pct : Discounts \cup {0}, read : BOOLEAN]

\* However submissions overlap, an order never has more reviews than there are
\* requests at a time.
CatTypeOK ==
    /\ shelf \in [st : {"none", "listed", "archived", "deleted"}, owned : BOOLEAN,
                  discount : Discounts \cup {0}]
    /\ people \subseteq Shoppers /\ carts \subseteq people
    /\ bought \in [Shoppers -> {"none", "open", "Delivered", "returned"}]
    /\ reviews \in [Shoppers -> 0 .. Cardinality(Clerks)]
    /\ notices \subseteq Notification /\ \A n \in notices : n.to \in people
    /\ tasks \in [Clerks -> [pc : {"free", "create", "recipients", "notify", "update",
                                   "delete", "discount", "carts", "review", "save"},
                             user : Shoppers \cup {Nobody}, pct : Discounts \cup {0},
                             to : SUBSET Shoppers, known : 0 .. Cardinality(Clerks)]]

CatInit ==
    /\ shelf = [st |-> "none", owned |-> TRUE, discount |-> 0]
    /\ people = Shoppers /\ carts = {}
    /\ bought = [u \in Shoppers |-> "none"] /\ reviews = [u \in Shoppers |-> 0]
    /\ notices = {} /\ tasks = [c \in Clerks |-> NoTask]
    /\ carried = {} /\ overlaps = {}

SetTask(c, task) == tasks' = [tasks EXCEPT ![c] = task]
Free(c) == tasks[c].pc = "free"
Doing(c, pc) == tasks[c].pc = pc
Exists == shelf.st \in {"listed", "archived"}
Owned == Exists /\ shelf.owned

\* A row that refers to a deleted account or product is refused, and with it
\* the whole createMany.
Notify(c, users, type, pct) ==
    /\ notices' = IF users \subseteq people /\ Exists
                  THEN notices \cup [to : users, type : {type}, pct : {pct}, read : {FALSE}]
                  ELSE notices
    /\ SetTask(c, NoTask)
    /\ UNCHANGED <<shelf, people, carts, bought, reviews, carried, overlaps>>

TaskOnly == UNCHANGED <<shelf, people, carts, bought, reviews, notices, carried, overlaps>>
ShelfOnly == UNCHANGED <<people, carts, bought, reviews, notices, overlaps>>

-----------------------------------------------------------------------------
(* The product, by its seller or an admin.                                  *)

CreateProduct(c) ==
    /\ Free(c) /\ shelf.st = "none" /\ shelf.owned
    /\ shelf' = [shelf EXCEPT !.st = "listed"]
    /\ SetTask(c, [NoTask EXCEPT !.pc = "recipients"])
    /\ UNCHANGED carried /\ ShelfOnly

\* An admin's form reads the seller's account first.
CreateAdminSellerProduct(c) ==
    \/ /\ Free(c) /\ shelf.st = "none" /\ shelf.owned
       /\ SetTask(c, [NoTask EXCEPT !.pc = "create"])
       /\ TaskOnly
    \/ /\ Doing(c, "create")
       /\ IF shelf.st = "none" /\ shelf.owned
          THEN /\ shelf' = [shelf EXCEPT !.st = "listed"]
               /\ SetTask(c, [NoTask EXCEPT !.pc = "recipients"])
               /\ UNCHANGED carried /\ ShelfOnly
          ELSE SetTask(c, NoTask) /\ TaskOnly

NewProductRecipients(c) ==
    /\ Doing(c, "recipients")
    /\ SetTask(c, [tasks[c] EXCEPT !.pc = "notify", !.to = people])
    /\ TaskOnly

\* Failures of the fan-out are swallowed: the product stays.
NewProductNotify(c) == Doing(c, "notify") /\ Notify(c, tasks[c].to, "new_product", 0)

WriteDiscount(pct) ==
    /\ shelf' = [shelf EXCEPT !.discount = pct]
    /\ carried' = carried \cup {pct}

\* The admin's override is one statement.
UpdateProduct(c, pct) ==
    /\ Free(c) /\ Exists
    /\ WriteDiscount(pct)
    /\ UNCHANGED tasks /\ ShelfOnly

UpdateSellerProduct(c, pct) ==
    \/ /\ Free(c) /\ Owned
       /\ SetTask(c, [NoTask EXCEPT !.pc = "update", !.pct = pct])
       /\ TaskOnly
    \/ /\ Doing(c, "update") /\ pct = tasks[c].pct
       /\ IF Exists THEN WriteDiscount(pct) ELSE UNCHANGED <<shelf, carried>>
       /\ SetTask(c, NoTask) /\ ShelfOnly

Deletable == Exists /\ carts = {} /\ \A u \in Shoppers : bought[u] = "none"

RemoveRow == /\ shelf' = IF Deletable THEN [shelf EXCEPT !.st = "deleted"] ELSE shelf
             /\ UNCHANGED carried

DeleteProduct(c) ==
    Free(c) /\ RemoveRow /\ UNCHANGED tasks /\ ShelfOnly

DeleteSellerProduct(c) ==
    \/ Free(c) /\ Owned /\ SetTask(c, [NoTask EXCEPT !.pc = "delete"]) /\ TaskOnly
    \/ Doing(c, "delete") /\ RemoveRow /\ SetTask(c, NoTask) /\ ShelfOnly

\* The owner is checked on a read; then the discount is written; then the carts
\* are read, and each gets a notification.
DiscountRead(c, pct) ==
    /\ Free(c) /\ Owned
    /\ SetTask(c, [NoTask EXCEPT !.pc = "discount", !.pct = pct])
    /\ TaskOnly

DiscountWrite(c) ==
    /\ Doing(c, "discount")
    /\ IF Exists
       THEN /\ WriteDiscount(tasks[c].pct)
            /\ SetTask(c, IF tasks[c].pct > 0 THEN [tasks[c] EXCEPT !.pc = "carts"]
                          ELSE NoTask)
       ELSE SetTask(c, NoTask) /\ UNCHANGED <<shelf, carried>>
    /\ ShelfOnly

DiscountCartsEarly(c) ==
    /\ tasks[c].pc \in {"discount", "carts"} /\ tasks[c].pct > 0
    /\ Notify(c, carts, "discount", tasks[c].pct)

DiscountNotify(c) ==
    /\ Doing(c, "carts")
    /\ Notify(c, carts, "discount", tasks[c].pct)

-----------------------------------------------------------------------------
(* Reviews.                                                                 *)

\* The product's reviews are read, then the account and the delivered order;
\* what is found decides between update and create.
ReviewRead(c, u) ==
    /\ Free(c) /\ u \in people /\ Exists
    /\ SetTask(c, [NoTask EXCEPT !.pc = "review", !.user = u, !.known = reviews[u]])
    /\ overlaps' = IF \E d \in Clerks : tasks[d].user = u THEN overlaps \cup {u}
                   ELSE overlaps
    /\ UNCHANGED <<shelf, people, carts, bought, reviews, notices, carried>>

ReviewCheck(c) ==
    /\ Doing(c, "review")
    /\ LET u == tasks[c].user IN
       SetTask(c, IF u \in people /\ bought[u] = "Delivered"
                  THEN [tasks[c] EXCEPT !.pc = "save"] ELSE NoTask)
    /\ TaskOnly

AddReview(u) == reviews' = IF u \in people /\ Exists
                           THEN [reviews EXCEPT ![u] = @ + 1] ELSE reviews

ReviewSaveNew(c) ==
    /\ Doing(c, "save")
    /\ AddReview(tasks[c].user)
    /\ SetTask(c, NoTask)
    /\ UNCHANGED <<shelf, people, carts, bought, notices, carried, overlaps>>

ReviewSave(c) ==
    /\ Doing(c, "save")
    /\ IF tasks[c].known = 0 THEN AddReview(tasks[c].user) ELSE UNCHANGED reviews
    /\ SetTask(c, NoTask)
    /\ UNCHANGED <<shelf, people, carts, bought, notices, carried, overlaps>>

-----------------------------------------------------------------------------
(* Notifications, each handler one statement on the reader's own rows.      *)

Keep(rest) == /\ notices' = rest
              /\ UNCHANGED <<shelf, people, carts, bought, reviews, tasks, carried, overlaps>>

Mark(S) == {[n EXCEPT !.read = TRUE] : n \in S}

MarkAsRead(u) == \E n \in notices : n.to = u /\ ~n.read /\ Keep((notices \ {n}) \cup Mark({n}))
MarkAllRead(u) ==
    LET mine == {n \in notices : n.to = u} IN Keep((notices \ mine) \cup Mark(mine))
DeleteNotification(u) == \E n \in notices : n.to = u /\ Keep(notices \ {n})
DeleteAllNotifications(u) == Keep({n \in notices : n.to # u})

-----------------------------------------------------------------------------
(* What the other handlers do to the rows these read.                       *)

CartHolds(u) ==
    /\ u \in people /\ shelf.st = "listed"
    /\ carts' = IF u \in carts THEN carts \ {u} ELSE carts \cup {u}
    /\ UNCHANGED <<shelf, people, bought, reviews, notices, tasks, carried, overlaps>>

OrderMoves(u) ==
    /\ bought' = [bought EXCEPT ![u] =
                    CASE @ = "none" -> "open" [] @ = "open" -> "Delivered" [] OTHER -> "returned"]
    /\ bought[u] = "none" => u \in people /\ shelf.st = "listed"
    /\ bought[u] # "returned"
    /\ UNCHANGED <<shelf, people, carts, reviews, notices, tasks, carried, overlaps>>

\* deleteAccount of a shopper removes what is theirs.
ShopperLeaves(u) ==
    /\ u \in people /\ bought[u] \in {"none", "Delivered"}
    /\ people' = people \ {u} /\ carts' = carts \ {u}
    /\ reviews' = [reviews EXCEPT ![u] = 0]
    /\ notices' = {n \in notices : n.to # u}
    /\ UNCHANGED <<shelf, bought, tasks, carried, overlaps>>

\* deleteAccount of the seller archives the product and takes it off the carts.
SellerLeaves ==
    /\ shelf.owned /\ \A u \in Shoppers : bought[u] # "open"
    /\ shelf' = [shelf EXCEPT !.owned = FALSE,
                              !.st = IF @ = "listed" THEN "archived" ELSE @]
    /\ carts' = {}
    /\ UNCHANGED <<people, bought, reviews, notices, tasks, carried, overlaps>>

CatNext ==
    \/ \E c \in Clerks :
         \/ CreateProduct(c) \/ CreateAdminSellerProduct(c)
         \/ NewProductRecipients(c) \/ NewProductNotify(c)
         \/ \E pct \in Discounts :
              UpdateProduct(c, pct) \/ UpdateSellerProduct(c, pct) \/ DiscountRead(c, pct)
         \/ DeleteProduct(c) \/ DeleteSellerProduct(c)
         \/ DiscountWrite(c) \/ DiscountNotify(c)
         \/ \E u \in Shoppers : ReviewRead(c, u)
         \/ ReviewCheck(c) \/ ReviewSave(c)
    \/ \E u \in Shoppers :
         \/ MarkAsRead(u) \/ MarkAllRead(u)
         \/ DeleteNotification(u) \/ DeleteAllNotifications(u)
         \/ CartHolds(u) \/ OrderMoves(u) \/ ShopperLeaves(u)
    \/ SellerLeaves

CatSpec == CatInit /\ [][CatNext]_catVars

-----------------------------------------------------------------------------
\* "One review per authenticated purchase": a second review of one purchase
\* takes two submissions that overlapped.
ReviewPerPurchase == \A u \in Shoppers : reviews[u] > 1 => u \in overlaps

\* No shopper is told of a discount that the product never had, whatever fails
\* or is deleted between the statements of the handler.
DiscountsTold == \A n \in notices : n.type = "discount" => n.pct \in carried

\* What the overlapping statements of reviews and of discounts keep.
CatalogueKept == ReviewPerPurchase /\ DiscountsTold
=============================================================================
