----------------------------- MODULE Storefront -----------------------------
(***************************************************************************)
(* The pages of the storefront: those that list orders, and the review of  *)
(* a proposal.  The two share no variable.                                 *)
(***************************************************************************)
EXTENDS OrderPages, ReviewPages

StorefrontSpec == PageSpec /\ ReviewSpec

\* What a page of the storefront shows and offers is what the server has and takes.
PagesTruthful == PagesKeepUp /\ ReviewTold
=============================================================================
