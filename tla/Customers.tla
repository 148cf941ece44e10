----------------------------- MODULE Customers ------------------------------
(***************************************************************************)
(* What the server keeps of a customer: the sessions and passwords of an   *)
(* account, and what people own under ids and emails.  The two share no    *)
(* variable.                                                               *)
(***************************************************************************)
EXTENDS Sessions, Ownership

CustomersSpec == Spec /\ OwnershipSpec

\* Every token, password, account, cart, order, bill and mail is of its type: among
\* others, a token has a family exactly when it has a row.
CustomersTypeOK == TypeOK /\ IdTypeOK /\ ReceiptsTypeOK
=============================================================================
