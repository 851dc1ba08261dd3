-------------------------- MODULE MCCustodialFunds --------------------------
(* Model values for CustodialFunds.  Calls of one kind are interchangeable. *)
EXTENDS CustodialFunds, TLC

CONSTANTS poll, now, w1, w2, c1, c2

Interchangeable == Permutations(Checkers) \cup Permutations(Withdrawals) \cup Permutations(Claims)
=============================================================================
