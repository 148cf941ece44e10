------------------------------ MODULE Receipts ------------------------------
(***************************************************************************)
(* What is made of one order for somebody to keep: its bill and the mail   *)
(* that confirms it.  The handlers read the order and write later, while   *)
(* an admin may edit the order and an account be deleted, with everything  *)
(* that has its id or its email.                                           *)
(*                                                                         *)
(* An order has the id of its customer and whatever email was typed, which *)
(* may be another customer's.  Numbers and texts are left out.             *)
(***************************************************************************)
EXTENDS Integers, FiniteSets

CONSTANTS
    Buyers,       \* ids of accounts
    Addresses,    \* emails
    AddressOf,    \* the email of an account
    Desks,        \* requests in flight
    MaxLetters,   \* bound: mails after which no other request to mail is made
    Blank         \* no id, no email, no row

VARIABLES
    members,      \* accounts that exist
    sold,         \* the order
    bill,         \* its bill: billNumber, BILL-<orderId>, is unique
    letters,      \* mails sent to confirm it
    desk,         \* what the requests in flight have read
    crossed,      \* history: the order was rewritten though its bill or a request
                  \* had the former customer or email
    doubled       \* history: a request to mail overlapped another, or was cut off
                  \* before it noted that it had mailed
receiptVars == <<members, sold, bill, letters, desk, crossed, doubled>>

-----------------------------------------------------------------------------
(* Types *)

\* Whose an order or a bill is.
Whose == [user : Buyers \cup {Blank}, email : Addresses \cup {Blank}]

\* st: "open" is Pending, "closed" is what deleteAccount does not wait for.
Sold == [whose : Whose, st : {"open", "confirmed", "closed"}, mailed : BOOLEAN]

\* What a request does next, and what it has read or was given.
Desk == [does : {"bill", "edit", "mail", "note"}, whose : Whose,
         st : {"open", "confirmed", "closed"}]

ASSUME ReceiptsAssumption ==
    /\ AddressOf \in [Buyers -> Addresses] /\ MaxLetters \in Nat
    /\ Blank \notin UNION {Buyers, Addresses, Whose, Desk}

ReceiptsTypeOK ==
    /\ members \in SUBSET Buyers
    /\ sold \in Sold
    /\ bill \in Whose \cup {Blank}
    /\ letters \in Nat
    /\ desk \in [Desks -> Desk \cup {Blank}]
    /\ crossed \in BOOLEAN /\ doubled \in BOOLEAN

\* createOrder has made the order, for the customer signed in.
ReceiptsInit ==
    /\ members = Buyers
    /\ \E u \in Buyers, e \in Addresses :
          sold = [whose |-> [user |-> u, email |-> e], st |-> "open", mailed |-> FALSE]
    /\ bill = Blank /\ letters = 0
    /\ desk = [k \in Desks |-> Blank]
    /\ crossed = FALSE /\ doubled = FALSE

-----------------------------------------------------------------------------
(* Shared state formulae *)

Does(k, what) == desk[k] # Blank /\ desk[k].does = what

\* A handler begins with a read of the order.
ReadOrder(k, what, whose) ==
    /\ desk[k] = Blank
    /\ desk' = [desk EXCEPT ![k] = [does |-> what, whose |-> whose, st |-> sold.st]]

Leaves(k) == desk' = [desk EXCEPT ![k] = Blank]

\* Requests that are about to write what they read of whose the order is.
Copies == {k \in Desks : Does(k, "bill") \/ Does(k, "edit")}

\* Rows with the account's id or its email.
Of(u, whose) == whose.user = u \/ whose.email = AddressOf[u]

-----------------------------------------------------------------------------
(* The bill *)

\* generateBill, by the customer, the seller or an admin.
GenerateBill(k) ==
    /\ ReadOrder(k, "bill", sold.whose)
    /\ UNCHANGED <<members, sold, bill, letters, crossed, doubled>>

\* The upsert: a bill that is there stays as it is, and the foreign key wants the
\* account of a new one.
UpsertBill(k) ==
    /\ Does(k, "bill")
    /\ \/ bill # Blank /\ UNCHANGED bill
       \/ /\ bill = Blank
          /\ desk[k].whose.user \in members \cup {Blank}
          /\ bill' = desk[k].whose
    /\ Leaves(k)
    /\ UNCHANGED <<members, sold, letters, crossed, doubled>>

\* getOrder and getUserBills: what the storefront shows a customer as a bill is
\* made of the order.
UserBill(u) == IF sold.whose.user = u THEN {sold.whose} ELSE {}

\* getMyBillSummary of the assistant: the row of an order of one's own, made out
\* to oneself.
BillSummary(u) ==
    IF sold.whose.user = u /\ bill # Blank /\ bill.user = u THEN {bill} ELSE {}

-----------------------------------------------------------------------------
(* The mail *)

\* sendOrderConfirmationEmail: nothing is sent twice ...
MailRead(k) ==
    /\ ~sold.mailed /\ letters < MaxLetters
    /\ ReadOrder(k, "mail", sold.whose)
    /\ doubled' = (doubled \/ \E j \in Desks : Does(j, "mail") \/ Does(j, "note"))
    /\ UNCHANGED <<members, sold, bill, letters, crossed>>

SendMail(k) ==
    /\ Does(k, "mail")
    /\ letters' = letters + 1
    /\ desk' = [desk EXCEPT ![k].does = "note"]
    /\ UNCHANGED <<members, sold, bill, crossed, doubled>>

\* ... but the note is made after the mail.
NoteMail(k) ==
    /\ Does(k, "note")
    /\ sold' = [sold EXCEPT !.mailed = TRUE]
    /\ Leaves(k)
    /\ UNCHANGED <<members, bill, letters, crossed, doubled>>

\* A request ends in an error, or the server stops.
Stop(k) ==
    /\ desk[k] # Blank
    /\ doubled' = (doubled \/ Does(k, "note"))
    /\ Leaves(k)
    /\ UNCHANGED <<members, sold, bill, letters, crossed>>

-----------------------------------------------------------------------------
(* The order and the accounts *)

\* It is confirmed; it is delivered or cancelled, or its return ended.
ConfirmSold ==
    /\ sold.st = "open"
    /\ sold' = [sold EXCEPT !.st = "confirmed"]
    /\ UNCHANGED <<members, bill, letters, desk, crossed, doubled>>

CloseSold ==
    /\ sold.st # "closed"
    /\ sold' = [sold EXCEPT !.st = "closed"]
    /\ UNCHANGED <<members, bill, letters, desk, crossed, doubled>>

\* updateOrder by an admin: an email may be typed while the order is Pending ...
EditRead(k, e) ==
    /\ e # sold.whose.email => sold.st = "open" /\ e # Blank
    /\ ReadOrder(k, "edit", [sold.whose EXCEPT !.email = e])
    /\ UNCHANGED <<members, sold, bill, letters, crossed, doubled>>

\* ... and email and status are written as they were typed or read.
EditWrite(k) ==
    /\ Does(k, "edit")
    /\ sold' = [sold EXCEPT !.whose.email = desk[k].whose.email, !.st = desk[k].st]
    /\ crossed' = (crossed \/ (sold.whose.email # desk[k].whose.email
                                 /\ (bill # Blank \/ Copies # {k})))
    /\ Leaves(k)
    /\ UNCHANGED <<members, bill, letters, doubled>>

\* Mutant of DeleteBuyer: bills are found by the id alone.
DeleteBuyerById(u) ==
    /\ u \in members
    /\ Of(u, sold.whose) => sold.st = "closed"
    /\ members' = members \ {u}
    /\ sold' = IF Of(u, sold.whose)
               THEN [sold EXCEPT !.whose = [user |-> Blank, email |-> Blank]] ELSE sold
    /\ bill' = IF bill # Blank /\ bill.user = u
               THEN [user |-> Blank, email |-> Blank] ELSE bill
    /\ crossed' = (crossed \/ (Of(u, sold.whose) /\ Copies # {}))
    /\ UNCHANGED <<letters, desk, doubled>>

\* deleteAccount: one serializable transaction.
DeleteBuyer(u) ==
    /\ u \in members
    /\ Of(u, sold.whose) => sold.st = "closed"
    /\ members' = members \ {u}
    /\ sold' = IF Of(u, sold.whose)
               THEN [sold EXCEPT !.whose = [user |-> Blank, email |-> Blank]] ELSE sold
    /\ bill' = IF bill # Blank /\ Of(u, bill)
               THEN [user |-> Blank, email |-> Blank] ELSE bill
    /\ crossed' = (crossed \/ (Of(u, sold.whose) /\ Copies # {}))
    /\ UNCHANGED <<letters, desk, doubled>>

-----------------------------------------------------------------------------
(* Specification *)

ReceiptsNext ==
    \/ \E k \in Desks :
          \/ GenerateBill(k) \/ UpsertBill(k)
          \/ MailRead(k) \/ SendMail(k) \/ NoteMail(k)
          \/ (\E e \in Addresses \cup {Blank} : EditRead(k, e)) \/ EditWrite(k)
          \/ Stop(k)
    \/ ConfirmSold \/ CloseSold
    \/ \E u \in Buyers : DeleteBuyer(u)

ReceiptsSpec == ReceiptsInit /\ [][ReceiptsNext]_receiptVars

-----------------------------------------------------------------------------
(* Properties *)

\* A deleted account is on no order and on no bill, whatever was in flight.
\* Unless the order was rewritten under its bill or under a request that had read
\* it: the bill is made out as the order is, so that the storefront's and the
\* assistant's page of it agree, and no email is left without its customer.  And
\* one mail confirms the order, unless two requests overlapped or one was cut off.
ReceiptsAgree ==
    /\ sold.whose.user \in members \cup {Blank}
    /\ bill # Blank => bill.user \in members \cup {Blank}
    /\ ~crossed =>
          /\ bill # Blank => bill = sold.whose
          /\ \A u \in members : bill # Blank => BillSummary(u) = UserBill(u)
          /\ sold.whose.user = Blank => sold.whose.email = Blank
    /\ ~doubled => letters <= 1
=============================================================================
