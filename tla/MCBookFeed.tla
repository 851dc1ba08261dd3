----------------------------- MODULE MCBookFeed -----------------------------
(* BookFeed for TLC: two connections of one user, of which the second       *)
(* evicts the first, and one token, which sockets, REST calls and a listing *)
(* put into the intent and take out of it.  No symmetry, as the run has     *)
(* temporal properties.                                                     *)
EXTENDS BookFeed
=============================================================================
