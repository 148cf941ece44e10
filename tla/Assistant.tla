----------------------------- MODULE Assistant ------------------------------
(***************************************************************************)
(* What is between the server and those who use it: the assistant's calls, *)
(* the lists that the calls carry page by page, and the storefront's own   *)
(* pages.  The three share no variable.                                    *)
(***************************************************************************)
EXTENDS Gateway, Scans, Storefront

AssistantSpec == Spec /\ ScanSpec /\ StorefrontSpec

\* Every call, lease, row and screen is of its type.
AssistantTypeOK == GatewayTypeOK /\ ScanTypeOK /\ PageTypeOK /\ ReviewTypeOK
=============================================================================
