---------------------------- MODULE MCSiteLanguages ----------------------------
(* The languages of a site for TLC: the requests are interchangeable. *)
EXTENDS SiteLanguages, TLC

InterchangeableRequests == Permutations(Requests)
=============================================================================
