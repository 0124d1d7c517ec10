------------------------------ MODULE MCSitePages ------------------------------
(* The site's pages for TLC: the requests are interchangeable. *)
EXTENDS SitePages, TLC

InterchangeableRequests == Permutations(Requests)
=============================================================================
