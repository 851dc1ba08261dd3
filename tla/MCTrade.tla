------------------------------ MODULE MCTrade -------------------------------
(* Model values and bounds for Trade: a request of two shares, tried       *)
(* twice, with an orphan of one share left from an earlier day.  The two   *)
(* attempts are interchangeable.                                           *)
EXTENDS Trade, TLC

CONSTANTS r1, a1, a2, old

MCRequestOf == [a \in Attempts |-> r1]
MCSize      == [r \in Requests |-> 2]
MCStock     == [i \in {old} |-> 1]

Interchangeable == Permutations(Attempts)

(* What TLC tells states by.  No step reads position and unrecorded, and    *)
(* SharesAccounted only their difference.  No step reads cand but the      *)
(* netter's, nor the leg of an attempt that is over and cannot land any    *)
(* more.  Nor does any read the answer of one that is over: RepliesTruthful *)
(* does, and once it holds of that answer it goes on to, as fills and      *)
(* failures stay and nothing is sent any more; one of which it does not    *)
(* hold is left to be seen.                                                *)
Kept(a) ==
    /\ reply[a] = "filled" =>
          landed[RequestOf[a]] # {} \/ \E b \in failed : RequestOf[b] = RequestOf[a]
    /\ reply[a] \in {"rejected", "duplicate"} =>
          a \notin sent \cup failed \cup landed[RequestOf[a]]

Over(a) == pc[a] = "done"

Books ==
    <<path, side, key, pc, netted, inventory, chainVars, rowVars, liq, crashes, lapsed,
      position - unrecorded,
      [a \in Attempts |-> IF pc[a] = "net" THEN cand[a] ELSE {}],
      [a \in Attempts |->
          IF Over(a) /\ a \notin sent \cup landed[RequestOf[a]] THEN 0 ELSE leg[a]],
      [a \in Attempts |-> IF Over(a) /\ Kept(a) THEN "over" ELSE reply[a]]>>
=============================================================================
