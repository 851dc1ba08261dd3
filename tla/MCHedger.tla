------------------------------ MODULE MCHedger ------------------------------
(* Model values and bounds for Hedger: a BUY of two shares, alone through  *)
(* crashes and redelivery, or next to a SELL on the same market.           *)
EXTENDS Hedger

CONSTANTS buy2, sell1, m1

OneFill    == {buy2}
TwoFills   == {buy2, sell1}
MCServerFills == {buy2}
MCMarkets  == {m1}
MCMarketOf == [f \in Fills |-> m1]
MCSide     == [f \in Fills |-> IF f = buy2 THEN "BUY" ELSE "SELL"]
MCSize     == [f \in Fills |-> IF f = buy2 THEN 2 ELSE 1]
MCPrice    == [f \in Fills |-> IF f = buy2 THEN 99 ELSE 60]
=============================================================================
