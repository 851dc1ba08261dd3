----------------------------- MODULE Resolution -----------------------------
(***************************************************************************)
(* How one market is settled.  Five actors share its Market row, its       *)
(* ResolverState row and its account on chain: the hedger's Resolver,      *)
(* Reconciler and MarketStatusPoller, each a single-flight loop, and on    *)
(* the server the admin's resolve endpoint and the fast resolver.  Every   *)
(* await of an actor is a step of its own: what it read before is kept in  *)
(* seen and may be stale when it is used.                                  *)
(*                                                                         *)
(* gamma is Polymarket's current answer: "OPEN" (not closed), "UMA"        *)
(* (closed, winner not determinable) or the winner.  The Market row is     *)
(* written the same way: OPEN, PAUSED with reason UMA_DISPUTE, or RESOLVED *)
(* with its winningOutcome.                                                *)
(***************************************************************************)
EXTENDS Naturals

CONSTANTS
    Kinds,          \* Market.kind of the market: one of these
    Servers,        \* the resolving handlers of the server that run
    MaxDisturbances \* bound on changes of Polymarket's answer, throws and crashes

Loops  == {"resolver", "reconciler", "poller"}
Actors == Loops \cup Servers

ASSUME ResolutionAssumption ==
    /\ Kinds \subseteq {"STANDARD", "FAST_MOVING"}
    /\ Servers \subseteq {"admin", "fast"}
    /\ MaxDisturbances \in Nat

VARIABLES
    kind,       \* Market.kind
    gamma,      \* Polymarket's answer
    disturbances, \* its changes, throws and crashes so far
    chain,      \* the winner of the market's account, or "None"
    state,      \* the ResolverState row
    market,     \* Market.status with pausedReason or winningOutcome
    announced,  \* outcomes broadcast with claimable: true
    mistaken,   \* history: outcomes taken to be resolved on chain although
                \* their transaction failed there
    pc,         \* where each actor stands
    seen        \* what each actor read, and has still to act on

actorVars == <<pc, seen>>
worldVars == <<kind, gamma, disturbances>>
chainVars == <<chain, mistaken>>
vars == <<worldVars, chainVars, state, market, announced, actorVars>>

Outcomes == {"YES", "NO"}
Answers  == {"OPEN", "UMA"} \cup Outcomes
Stages   == {"PENDING", "POLYMARKET_RESOLVED", "SOLANA_RESOLVED", "REDEEMED"}
Steps    == {"idle", "fetch", "find", "record", "submit", "sent", "recordSolana", "redeem",
             "recordRedeemed", "recheck", "revert", "flip", "check", "apply",
             "recordBoth", "persist", "publish"}

(* A row that does not exist reads as PENDING with every column null.  The *)
(* timestamp polymarketResolvedAt is kept as whether it is set, and past   *)
(* the dispute window.                                                     *)
ResolverState ==
    [stage: Stages, winner: Outcomes \cup {"None"}, resolvedAt: BOOLEAN, aged: BOOLEAN,
     solanaResolveTxSig: BOOLEAN, polymarketRedeemTxHash: BOOLEAN]

NoRow == [stage |-> "PENDING", winner |-> "None", resolvedAt |-> FALSE, aged |-> FALSE,
          solanaResolveTxSig |-> FALSE, polymarketRedeemTxHash |-> FALSE]

Init ==
    /\ kind \in Kinds
    /\ gamma \in Answers
    /\ disturbances = 0
    /\ chain = "None"
    /\ state = NoRow
    /\ market = "OPEN"
    /\ announced = {}
    /\ mistaken = {}
    /\ pc = [a \in Actors |-> "idle"]
    /\ seen = [a \in Actors |-> "None"]

-----------------------------------------------------------------------------
(* Polymarket closes the market, disputes it, reopens it, revises it.      *)
GammaChanges ==
    /\ disturbances < MaxDisturbances
    /\ disturbances' = disturbances + 1
    /\ gamma' \in Answers \ {gamma}
    /\ UNCHANGED <<kind, chainVars, state, market, announced, actorVars>>

(* HEDGER_RESOLVER_DISPUTE_WINDOW_HOURS have passed since resolvedAt.      *)
WindowPasses ==
    /\ state.resolvedAt /\ ~state.aged
    /\ state' = [state EXCEPT !.aged = TRUE]
    /\ UNCHANGED <<worldVars, chainVars, market, announced, actorVars>>

Goto(a, step, value) ==
    /\ pc' = [pc EXCEPT ![a] = step]
    /\ seen' = [seen EXCEPT ![a] = value]

Finish(a) == Goto(a, "idle", "None")

(* An actor's await throws, or the process of several stops: whatever they *)
(* had still to write is not written, and their loops start again.         *)
Fails(dead) ==
    /\ dead # {}
    /\ \A a \in dead : pc[a] # "idle"
    /\ disturbances < MaxDisturbances
    /\ disturbances' = disturbances + 1
    /\ pc' = [a \in Actors |-> IF a \in dead THEN "idle" ELSE pc[a]]
    /\ seen' = [a \in Actors |-> IF a \in dead THEN "None" ELSE seen[a]]
    /\ UNCHANGED <<kind, gamma, chainVars, state, market, announced>>

(* SolmarketClient.send_with_fee_payer: the preflight rejects the          *)
(* transaction once the market is resolved; otherwise it goes out.         *)
SendResolve(a) ==
    /\ IF chain = "None" THEN Goto(a, "sent", seen[a]) ELSE Finish(a)
    /\ UNCHANGED chainVars

(* resolve_market: the transaction lands, or fails because another one has *)
(* landed first.  Either way the caller goes on, since the error is in the *)
(* value of the confirmation, which nothing reads, or the answer is lost.  *)
ResolveOnChain(a, next) ==
    /\ pc[a] = "sent"
    /\ Goto(a, next, seen[a]) \/ Finish(a)
    /\ \/ /\ chain = "None"
          /\ chain' = seen[a]
          /\ UNCHANGED mistaken
       \/ /\ chain # "None"
          /\ mistaken' = IF pc'[a] = next THEN mistaken \cup ({seen[a]} \ {chain}) ELSE mistaken
          /\ UNCHANGED chain
    /\ UNCHANGED <<worldVars, state, market, announced>>

(* ResolverDb.record_polymarket_resolved, an upsert.  resolved_at is       *)
(* Polymarket's own date, which may be older than the dispute window.      *)
RecordPolymarketResolved(o) ==
    \E old \in BOOLEAN :
        state' = [state EXCEPT !.stage = "POLYMARKET_RESOLVED", !.winner = o,
                               !.resolvedAt = TRUE, !.aged = old]

RecordSolanaResolved ==
    state' = [state EXCEPT !.stage = "SOLANA_RESOLVED", !.solanaResolveTxSig = TRUE]

-----------------------------------------------------------------------------
(* Resolver, stage 1: detect                                               *)
ListPending ==
    /\ pc["resolver"] = "idle"
    /\ state.stage = "PENDING"
    /\ Goto("resolver", "fetch", "None")
    /\ UNCHANGED <<worldVars, chainVars, state, market, announced>>

(* Mutant of CheckOne: a market that is closed is taken to have a winner.  *)
CheckOneClosed ==
    /\ pc["resolver"] = "fetch"
    /\ IF gamma # "OPEN" THEN Goto("resolver", "find", gamma) ELSE Finish("resolver")
    /\ UNCHANGED <<worldVars, chainVars, state, market, announced>>

CheckOne ==
    /\ pc["resolver"] = "fetch"
    /\ IF gamma \in Outcomes THEN Goto("resolver", "find", gamma) ELSE Finish("resolver")
    /\ UNCHANGED <<worldVars, chainVars, state, market, announced>>

FindExisting ==
    /\ pc["resolver"] = "find"
    /\ IF state.resolvedAt THEN Finish("resolver")
       ELSE Goto("resolver", "record", seen["resolver"])
    /\ UNCHANGED <<worldVars, chainVars, state, market, announced>>

RecordResolution ==
    /\ pc["resolver"] = "record"
    /\ RecordPolymarketResolved(seen["resolver"])
    /\ Finish("resolver")
    /\ UNCHANGED <<worldVars, chainVars, market, announced>>

(* Stage 2: submit                                                         *)
ListAwaiting ==
    /\ pc["resolver"] = "idle"
    /\ state.stage = "POLYMARKET_RESOLVED"
    /\ ~state.solanaResolveTxSig
    /\ state.winner # "None"
    /\ kind = "FAST_MOVING" \/ (state.resolvedAt /\ state.aged)
    /\ Goto("resolver", "submit", state.winner)
    /\ UNCHANGED <<worldVars, chainVars, state, market, announced>>

SubmitOne ==
    /\ pc["resolver"] = "submit"
    /\ SendResolve("resolver")
    /\ UNCHANGED <<worldVars, state, market, announced>>

RecordSubmitted ==
    /\ pc["resolver"] = "recordSolana"
    /\ RecordSolanaResolved
    /\ Finish("resolver")
    /\ UNCHANGED <<worldVars, chainVars, market, announced>>

(* Stage 3: redeem                                                         *)
ListRedemption ==
    /\ pc["resolver"] = "idle"
    /\ state.stage = "SOLANA_RESOLVED"
    /\ ~state.polymarketRedeemTxHash
    /\ Goto("resolver", "redeem", "None")
    /\ UNCHANGED <<worldVars, chainVars, state, market, announced>>

(* Redeemed, or skipped: gamma has no winner, or the market is NegRisk or  *)
(* without a condition id.                                                 *)
RedeemOne ==
    /\ pc["resolver"] = "redeem"
    /\ \/ gamma \in Outcomes /\ Goto("resolver", "recordRedeemed", "None")
       \/ Finish("resolver")
    /\ UNCHANGED <<worldVars, chainVars, state, market, announced>>

RecordRedeemed ==
    /\ pc["resolver"] = "recordRedeemed"
    /\ state' = [state EXCEPT !.stage = "REDEEMED", !.polymarketRedeemTxHash = TRUE]
    /\ Finish("resolver")
    /\ UNCHANGED <<worldVars, chainVars, market, announced>>

Resolver ==
    \/ ListPending \/ CheckOne \/ FindExisting \/ RecordResolution
    \/ ListAwaiting \/ SubmitOne \/ ResolveOnChain("resolver", "recordSolana") \/ RecordSubmitted
    \/ ListRedemption \/ RedeemOne \/ RecordRedeemed

-----------------------------------------------------------------------------
(* Reconciler                                                              *)
ListPendingSolana ==
    /\ pc["reconciler"] = "idle"
    /\ state.stage = "POLYMARKET_RESOLVED"
    /\ ~state.solanaResolveTxSig
    /\ Goto("reconciler", "recheck", state.winner)
    /\ UNCHANGED <<worldVars, chainVars, state, market, announced>>

RecheckOne ==
    LET prior == seen["reconciler"]
    IN  /\ pc["reconciler"] = "recheck"
        /\ IF gamma \notin Outcomes THEN Goto("reconciler", "revert", "None")
           ELSE IF prior \notin {"None", gamma} THEN Goto("reconciler", "flip", gamma)
           ELSE Finish("reconciler")
        /\ UNCHANGED <<worldVars, chainVars, state, market, announced>>

(* Mutant of RevertToPending: polymarketResolvedAt is not cleared.         *)
RevertKeepingDate ==
    /\ pc["reconciler"] = "revert"
    /\ state' = [state EXCEPT !.stage = "PENDING", !.winner = "None"]
    /\ Finish("reconciler")
    /\ UNCHANGED <<worldVars, chainVars, market, announced>>

RevertToPending ==
    /\ pc["reconciler"] = "revert"
    /\ state' = [state EXCEPT !.stage = "PENDING", !.winner = "None",
                              !.resolvedAt = FALSE, !.aged = FALSE]
    /\ Finish("reconciler")
    /\ UNCHANGED <<worldVars, chainVars, market, announced>>

UpdateWinningOutcome ==
    /\ pc["reconciler"] = "flip"
    /\ state' = [state EXCEPT !.winner = seen["reconciler"]]
    /\ Finish("reconciler")
    /\ UNCHANGED <<worldVars, chainVars, market, announced>>

Reconciler == ListPendingSolana \/ RecheckOne \/ RevertToPending \/ UpdateWinningOutcome

-----------------------------------------------------------------------------
(* MarketStatusPoller                                                      *)
ListCandidates ==
    /\ pc["poller"] = "idle"
    /\ market \notin Outcomes
    /\ Goto("poller", "check", market)
    /\ UNCHANGED <<worldVars, chainVars, state, market, announced>>

(* Mutant of ComputeTarget: a market paused for a dispute is not looked at *)
(* again when gamma has a winner.                                          *)
ComputeTargetUnpaused ==
    /\ pc["poller"] = "check"
    /\ IF gamma = seen["poller"] \/ seen["poller"] = "UMA" THEN Finish("poller")
       ELSE Goto("poller", "apply", gamma)
    /\ UNCHANGED <<worldVars, chainVars, state, market, announced>>

(* The row already mirrors gamma, or it is to be written.                  *)
ComputeTarget ==
    /\ pc["poller"] = "check"
    /\ IF gamma = seen["poller"] THEN Finish("poller") ELSE Goto("poller", "apply", gamma)
    /\ UNCHANGED <<worldVars, chainVars, state, market, announced>>

ApplyTarget ==
    /\ pc["poller"] = "apply"
    /\ market' = seen["poller"]
    /\ IF market' \in Outcomes /\ kind = "FAST_MOVING"
       THEN Goto("poller", "submit", market') ELSE Finish("poller")
    /\ UNCHANGED <<worldVars, chainVars, state, announced>>

(* Mutant of SubmitFast: a failed submission is logged and recorded.       *)
SubmitFastLogged ==
    /\ pc["poller"] = "submit"
    /\ \/ SendResolve("poller")
       \/ Goto("poller", "recordBoth", seen["poller"]) /\ UNCHANGED chainVars
    /\ UNCHANGED <<worldVars, state, market, announced>>

(* The fast path: resolve on chain in the same tick, then both records.    *)
SubmitFast ==
    /\ pc["poller"] = "submit"
    /\ SendResolve("poller")
    /\ UNCHANGED <<worldVars, state, market, announced>>

RecordFastPolymarket ==
    /\ pc["poller"] = "recordBoth"
    /\ RecordPolymarketResolved(seen["poller"])
    /\ Goto("poller", "recordSolana", seen["poller"])
    /\ UNCHANGED <<worldVars, chainVars, market, announced>>

RecordFastSolana ==
    /\ pc["poller"] = "recordSolana"
    /\ RecordSolanaResolved
    /\ Goto("poller", "publish", seen["poller"])
    /\ UNCHANGED <<worldVars, chainVars, market, announced>>

(* publish_resolved with claimable: true.                                  *)
Publish(a) ==
    /\ pc[a] = "publish"
    /\ announced' = announced \cup {seen[a]}
    /\ Finish(a)
    /\ UNCHANGED <<worldVars, chainVars, state, market>>

Poller ==
    \/ ListCandidates \/ ComputeTarget \/ ApplyTarget
    \/ SubmitFast \/ ResolveOnChain("poller", "recordBoth")
    \/ RecordFastPolymarket \/ RecordFastSolana \/ Publish("poller")

-----------------------------------------------------------------------------
(* ResolveMarketController and FastResolverService                         *)
Prepare(a, o) ==
    /\ pc[a] = "idle"
    /\ market \notin Outcomes
    /\ a = "fast" => kind = "FAST_MOVING"
    /\ Goto(a, "submit", o)
    /\ UNCHANGED <<worldVars, chainVars, state, market, announced>>

(* Mutant of ResolveMarket: an account already resolved is taken to be     *)
(* resolved as requested.                                                  *)
ResolveMarketTrusting(a) ==
    /\ pc[a] = "submit"
    /\ IF chain # "None"
       THEN Goto(a, "persist", seen[a]) /\ UNCHANGED chainVars
       ELSE SendResolve(a)
    /\ UNCHANGED <<worldVars, state, market, announced>>

(* SolanaAdminService.resolve_market: an account already resolved to the   *)
(* same winner is adopted, to another one is an error.                     *)
ResolveMarket(a) ==
    /\ pc[a] = "submit"
    /\ IF chain = seen[a]
       THEN Goto(a, "persist", seen[a]) /\ UNCHANGED chainVars
       ELSE SendResolve(a)
    /\ UNCHANGED <<worldVars, state, market, announced>>

(* persist_resolution, both rows in one transaction.                       *)
PersistResolution(a) ==
    /\ pc[a] = "persist"
    /\ market' = seen[a]
    /\ state' = [state EXCEPT !.stage = "SOLANA_RESOLVED", !.winner = seen[a],
                              !.resolvedAt = TRUE, !.aged = FALSE,
                              !.solanaResolveTxSig = TRUE]
    /\ Goto(a, "publish", seen[a])
    /\ UNCHANGED <<worldVars, chainVars, announced>>

Server(a) ==
    \/ \E o \in Outcomes : Prepare(a, o)
    \/ ResolveMarket(a) \/ ResolveOnChain(a, "persist")
    \/ PersistResolution(a) \/ Publish(a)

-----------------------------------------------------------------------------
Next ==
    \/ GammaChanges
    \/ WindowPasses
    \/ Resolver
    \/ Reconciler
    \/ Poller
    \/ \E a \in Servers : Server(a)
    \/ \E dead \in SUBSET Actors : Fails(dead)

Spec == Init /\ [][Next]_vars

(* Time passes, and the timers of the resolver and the poller keep their   *)
(* loops going.  Nothing is asked of the reconciler or the server.         *)
Fairness ==
    /\ WF_vars(WindowPasses)
    /\ WF_vars(Resolver)
    /\ WF_vars(Poller)

FairSpec == Spec /\ Fairness

-----------------------------------------------------------------------------
(* Every variable stays in its type.                                       *)
TypeOK ==
    /\ kind \in Kinds
    /\ gamma \in Answers
    /\ disturbances \in 0 .. MaxDisturbances
    /\ chain \in Outcomes \cup {"None"}
    /\ state \in ResolverState
    /\ market \in Answers
    /\ announced \subseteq Outcomes
    /\ mistaken \subseteq Outcomes
    /\ pc \in [Actors -> Steps]
    /\ seen \in [Actors -> Answers \cup {"None"}]

(* No client is ever told to claim an outcome other than the one the chain *)
(* pays, whichever of three actors wins the race to resolve, whatever the  *)
(* others had decided, and even if Polymarket changes its answer, unless   *)
(* its transaction for that outcome passed the preflight, failed on chain  *)
(* and was taken for a success (client.ts:447).                            *)
ClaimableMatchesChain == announced \subseteq {chain} \cup mistaken

(* The database never runs ahead of the chain: a row that the markets API  *)
(* shows as claimable (SOLANA_RESOLVED, REDEEMED), or that holds a resolve *)
(* signature or a redemption, belongs to a market resolved on chain.       *)
DatabaseNeverAheadOfChain ==
    \/ state.stage \in {"SOLANA_RESOLVED", "REDEEMED"}
    \/ state.solanaResolveTxSig
    \/ state.polymarketRedeemTxHash
    => chain # "None"

(* Once Polymarket's answer settles on a winner the market is resolved on  *)
(* chain, through disputes, reverted rows and failed submissions.          *)
SettlesOnChain == <>[](gamma \in Outcomes) => <>(chain # "None")

(* ... and the Market row that gates trades and claims ends up RESOLVED    *)
(* for good, although stale answers may overwrite it on the way.           *)
MarketRowSettles == <>[](gamma \in Outcomes) => <>[](market \in Outcomes)

(* reconcile/index.ts:88-90: "once the on-chain resolve_market is          *)
(* confirmed, the outcome is final regardless of any gamma update".        *)
SettledRowFinal ==
    [][state.stage = "SOLANA_RESOLVED" =>
          state'.stage # "PENDING" /\ state'.winner = state.winner]_vars
=============================================================================
