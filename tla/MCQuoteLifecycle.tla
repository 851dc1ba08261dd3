-------------------------- MODULE MCQuoteLifecycle --------------------------
(* Model values and bounds for QuoteLifecycle.                             *)
EXTENDS QuoteLifecycle, TLC

CONSTANTS alice, bob, m1, n1, r1

MCUsers == {alice, bob}
MCMarkets == {m1}
MCNonces == {n1, r1}
MCRequestNonces == {r1}
(* bob can pay for one share only, the vault for one payout.               *)
MCInitialUsdc == (alice :> 1000000) @@ (bob :> 600000)
MCInitialVault == 1000000

=============================================================================
