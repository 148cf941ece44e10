------------------------------ MODULE Accounts ------------------------------
(***************************************************************************)
(* Whose is whose: accounts, the Google identities that open them, their   *)
(* carts and their orders.  An account has an id that never changes and an *)
(* email that an admin may change.  The storefront looks carts up by the   *)
(* email, the assistant and account deletion by the id, and an order has   *)
(* both the id of its customer and whatever email was typed.               *)
(*                                                                         *)
(* What a cart holds is whether it holds anything; what an order has, its  *)
(* customer, its email and whether it is open.                             *)
(***************************************************************************)
EXTENDS Integers, FiniteSets

CONSTANTS
    Persons,      \* ids of accounts, with the people they are for
    Emails,       \* normalized; each is also the Google account of that email
    Clicks,       \* additions to a cart in flight
    MaxCarts,     \* bound: carts there may be at a time
    OrderIds,     \* orders that may be placed, a bound
    Nothing

VARIABLES
    account,      \* users, by id; Nothing before registration and after deletion
    cart,         \* carts, by id
    placed,       \* orders, by id
    adding,       \* additions that found no cart and are about to create one
    released,     \* history: the emails an account gave up through a rename
    twice,        \* history: accounts with two additions that both found no cart
    deleted       \* history: accounts that were deleted

idVars == <<account, cart, placed, adding, released, twice, deleted>>

-----------------------------------------------------------------------------
(* Types *)

CartIds == 1..MaxCarts

Account == [email : Emails, google : Emails \cup {Nothing}]
Basket == [user : Persons, email : Emails, full : BOOLEAN]
Placed == [user : Persons \cup {Nothing}, email : Emails \cup {Nothing},
           st : {"open", "confirmed", "closed"}]
\* The account read, with its email of that moment.
Adding == [user : Persons, email : Emails]

ASSUME AccountsAssumption ==
    /\ MaxCarts \in Nat \ {0} /\ IsFiniteSet(Persons)
    /\ Nothing \notin UNION {Persons, Emails, Account, Basket, Placed, Adding}

IdTypeOK ==
    /\ account \in [Persons -> Account \cup {Nothing}]
    /\ cart \in [CartIds -> Basket \cup {Nothing}]
    /\ placed \in [OrderIds -> Placed \cup {Nothing}]
    /\ adding \in [Clicks -> Adding \cup {Nothing}]
    /\ released \in SUBSET (Persons \X Emails)
    /\ twice \in SUBSET Persons
    /\ deleted \in SUBSET Persons

IdInit ==
    /\ account = [u \in Persons |-> Nothing]
    /\ cart = [c \in CartIds |-> Nothing]
    /\ placed = [o \in OrderIds |-> Nothing]
    /\ adding = [k \in Clicks |-> Nothing]
    /\ released = {} /\ twice = {} /\ deleted = {}

-----------------------------------------------------------------------------
(* Shared state formulae *)

Registered == {u \in Persons : account[u] # Nothing}
Carts == {c \in CartIds : cart[c] # Nothing}
OrdersPlaced == {o \in OrderIds : placed[o] # Nothing}

\* Mutant of EmailFree: the look-up before the write decides, not the index.
EmailFreeUnchecked(e) == TRUE

\* users.email is unique; the handlers' own look-ups only word the refusal.
EmailFree(e) == \A u \in Registered : account[u].email # e

\* The carts of an email, any of which findFirst may return, and of an id.
CartsOfEmail(e) == {c \in Carts : cart[c].email = e}
CartsOfUser(u) == {c \in Carts : cart[c].user = u}

\* Those an account's request comes by: through the storefront or the assistant.
CartsSeen(u, by) == IF by = "email" THEN CartsOfEmail(account[u].email) ELSE CartsOfUser(u)

Fill(c, full) == cart' = [cart EXCEPT ![c].full = full]

-----------------------------------------------------------------------------
(* Accounts *)

\* register and the admin's createAdminSeller and createAdminCustomer.
Register(u, e) ==
    /\ account[u] = Nothing /\ u \notin deleted /\ EmailFree(e)
    /\ account' = [account EXCEPT ![u] = [email |-> e, google |-> Nothing]]
    /\ UNCHANGED <<cart, placed, adding, released, twice, deleted>>

\* The accounts a Google account may open.
GoogleMatches(g) == {u \in Registered : account[u].google = g \/ account[u].email = g}

\* googleSignIn without an account: it creates one.
GoogleRegister(u, g) ==
    /\ account[u] = Nothing /\ u \notin deleted
    /\ GoogleMatches(g) = {}
    /\ account' = [account EXCEPT ![u] = [email |-> g, google |-> g]]
    /\ UNCHANGED <<cart, placed, adding, released, twice, deleted>>

\* googleSignIn with one: it is linked, unless another Google account is.
GoogleLink(u, g) ==
    /\ u \in GoogleMatches(g) /\ account[u].google = Nothing
    /\ \A v \in Registered : account[v].google # g    \* users.googleId is unique
    /\ account' = [account EXCEPT ![u].google = g]
    /\ UNCHANGED <<cart, placed, adding, released, twice, deleted>>

\* updateUserDetails: the admin changes the email; carts and orders keep theirs.
UpdateUserDetails(u, e) ==
    /\ u \in Registered /\ account[u].email # e /\ EmailFree(e)
    /\ account' = [account EXCEPT ![u].email = e]
    /\ released' = released \cup {<<u, account[u].email>>}
    /\ UNCHANGED <<cart, placed, adding, twice, deleted>>

OrdersOf(u) == {o \in OrdersPlaced : placed[o].user = u}

\* Those with the id of the account or with its email.
OwnOrders(u) ==
    OrdersOf(u) \cup {o \in OrdersPlaced : placed[o].email = account[u].email}

\* deleteAccount, one serializable transaction.
DeleteEverything(u) ==
    LET own == OwnOrders(u) IN
    /\ u \in Registered
    /\ \A o \in own : placed[o].st = "closed"
    /\ cart' = [c \in CartIds |-> IF c \in CartsOfUser(u) THEN Nothing ELSE cart[c]]
    /\ placed' = [o \in OrderIds |->
                    IF o \in own THEN [placed[o] EXCEPT !.user = Nothing, !.email = Nothing]
                    ELSE placed[o]]
    /\ deleted' = deleted \cup {u}
    /\ account' = [account EXCEPT ![u] = Nothing]
    /\ UNCHANGED <<adding, released, twice>>

-----------------------------------------------------------------------------
(* Carts *)

\* addToCart (by the email) or an executed cart.add_item (by the id) looks for
\* the cart, and puts the line into it ...
AddToCart(k, u, by) ==
    /\ adding[k] = Nothing /\ u \in Registered
    /\ \/ /\ \E c \in CartsSeen(u, by) : Fill(c, TRUE)
          /\ UNCHANGED <<adding, twice>>
       \/ /\ CartsSeen(u, by) = {}
          /\ adding' = [adding EXCEPT ![k] = [user |-> u, email |-> account[u].email]]
          /\ twice' = twice \cup
               {v \in {u} : \E j \in Clicks : adding[j] # Nothing /\ adding[j].user = v}
          /\ UNCHANGED cart
    /\ UNCHANGED <<account, placed, released, deleted>>

\* ... or creates one, in another statement.  The foreign key wants the account.
CreateCart(k) ==
    /\ adding[k] # Nothing /\ adding[k].user \in Registered
    /\ \E c \in CartIds \ Carts :
          /\ \A d \in CartIds \ Carts : c <= d
          /\ cart' = [cart EXCEPT ![c] =
                       [user |-> adding[k].user, email |-> adding[k].email, full |-> TRUE]]
    /\ adding' = [adding EXCEPT ![k] = Nothing]
    /\ UNCHANGED <<account, placed, released, twice, deleted>>

\* The request ends in an error, or the server stops.
Abandon(k) ==
    /\ adding[k] # Nothing
    /\ adding' = [adding EXCEPT ![k] = Nothing]
    /\ UNCHANGED <<account, cart, placed, released, twice, deleted>>

\* updateCartItem, removeFromCart, clearCart, and cart.remove_item executed: the
\* last line goes, the cart stays.
EmptyCart(u, by) ==
    /\ u \in Registered
    /\ \E c \in CartsSeen(u, by) : cart[c].full /\ Fill(c, FALSE)
    /\ UNCHANGED <<account, placed, adding, released, twice, deleted>>

-----------------------------------------------------------------------------
(* Orders *)

\* createOrder: the customer is the one signed in, the email what was typed.
CreateOrder(u, e, o) ==
    /\ u \in Registered /\ placed[o] = Nothing
    /\ placed' = [placed EXCEPT ![o] = [user |-> u, email |-> e, st |-> "open"]]
    /\ UNCHANGED <<account, cart, adding, released, twice, deleted>>

\* confirmOrderCore empties a cart of the email on the order.
Confirm(o) ==
    /\ o \in OrdersPlaced /\ placed[o].st = "open"
    /\ placed' = [placed EXCEPT ![o].st = "confirmed"]
    /\ \/ \E c \in CartsOfEmail(placed[o].email) : Fill(c, FALSE)
       \/ CartsOfEmail(placed[o].email) = {} /\ UNCHANGED cart
    /\ UNCHANGED <<account, adding, released, twice, deleted>>

\* Delivered, cancelled, or its return ended.
Close(o) ==
    /\ o \in OrdersPlaced /\ placed[o].st # "closed"
    /\ placed' = [placed EXCEPT ![o].st = "closed"]
    /\ UNCHANGED <<account, cart, adding, released, twice, deleted>>

-----------------------------------------------------------------------------
(* Specification *)

IdNext ==
    \/ \E u \in Persons, e \in Emails :
          \/ Register(u, e) \/ GoogleRegister(u, e) \/ GoogleLink(u, e)
          \/ UpdateUserDetails(u, e)
          \/ \E o \in OrderIds : CreateOrder(u, e, o)
    \/ \E u \in Persons : DeleteEverything(u)
    \/ \E u \in Persons, by \in {"email", "id"} :
          EmptyCart(u, by) \/ (\E k \in Clicks : AddToCart(k, u, by))
    \/ \E k \in Clicks : CreateCart(k) \/ Abandon(k)
    \/ \E o \in OrderIds : Confirm(o) \/ Close(o)

IdSpec == IdInit /\ [][IdNext]_idVars

-----------------------------------------------------------------------------
(* Properties *)

\* Email e was given up through a rename by another account than u.
Inherited(u, e) == \E v \in Persons \ {u} : <<v, e>> \in released
Renamed(u) == \E e \in Emails : <<u, e>> \in released

\* By registration, deletion and signing in alone nobody comes by somebody
\* else's: only over an email that a rename took from another account does the
\* storefront show a customer another's cart, or a Google account open another's
\* account.  The storefront's cart and the assistant's are one, unless the
\* account was renamed or had two additions that both found none.  And a deleted
\* account's id comes back in no cart and on no order, whatever was in flight.
EachTheirOwn ==
    /\ \A u \in Registered : ~Inherited(u, account[u].email) =>
          /\ \A c \in CartsOfEmail(account[u].email) : cart[c].user = u
          /\ GoogleMatches(account[u].email) = {u}
    /\ \A u \in Registered : ~Renamed(u) /\ u \notin twice =>
          /\ CartsOfUser(u) \subseteq CartsOfEmail(account[u].email)
          /\ Cardinality(CartsOfUser(u)) <= 1
    /\ \A u \in deleted : CartsOfUser(u) = {} /\ OrdersOf(u) = {}
=============================================================================
