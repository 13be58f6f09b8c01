------------------------------ MODULE MCWebClient ------------------------------
(* WebClient with two sessions and two runs, one of them perhaps another client's. *)
EXTENDS WebClient
=============================================================================
