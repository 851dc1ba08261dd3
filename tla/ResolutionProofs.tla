-------------------------- MODULE ResolutionProofs --------------------------
(***************************************************************************)
(* Theorems about Resolution, for either kind of market, any set of        *)
(* resolving handlers and any number of changes and failures.  What an     *)
(* actor holds between two awaits may be stale with respect to gamma and   *)
(* to both rows; the argument is that after a submission it is not stale   *)
(* with respect to the chain, whose winner is written once, unless its     *)
(* transaction failed there and the outcome is in mistaken.                *)
(***************************************************************************)
EXTENDS Resolution, TLAPS

(* What an actor at a step may rely on: s is the step, v the value it      *)
(* holds, c the winner on chain, m the outcomes mistaken for it.           *)
Holds(s, v, c, m) ==
    /\ s \in {"find", "record", "submit", "sent", "flip"} => v \in Outcomes
    /\ s \in {"check", "apply"} => v \in Answers
    /\ s \in {"recordBoth", "recordSolana", "persist", "publish"} =>
          v \in {c} \cup m /\ v \in Outcomes /\ c \in Outcomes
    /\ s \in {"redeem", "recordRedeemed"} => c \in Outcomes

ActorsHold == \A a \in Actors : Holds(pc[a], seen[a], chain, mistaken)

IInv ==
    /\ TypeOK
    /\ ActorsHold
    /\ ClaimableMatchesChain
    /\ DatabaseNeverAheadOfChain

(* The winner on chain is written once, and mistaken only grows.           *)
ChainKept ==
    /\ chain' = chain \/ (chain = "None" /\ chain' \in Outcomes)
    /\ mistaken \subseteq mistaken'
    /\ mistaken' \subseteq mistaken \cup Outcomes

LEMMA InitialState == Init => IInv
  BY ResolutionAssumption DEF Init, IInv, TypeOK, ActorsHold, Holds, ClaimableMatchesChain,
     DatabaseNeverAheadOfChain, Answers, Outcomes, Stages, Steps, ResolverState, NoRow

(* An actor that moves to a step whose reliance holds leaves every actor   *)
(* with what it relies on, also when the move resolves the market.         *)
LEMMA Moving ==
  ASSUME IInv, NEW a \in Actors, NEW s \in Steps, NEW v \in Answers \cup {"None"},
         Goto(a, s, v), ChainKept, Holds(s, v, chain', mistaken')
  PROVE  /\ ActorsHold'
         /\ pc' \in [Actors -> Steps]
         /\ seen' \in [Actors -> Answers \cup {"None"}]
         /\ chain' \in Outcomes \cup {"None"} /\ mistaken' \subseteq Outcomes
<1>1. pc \in [Actors -> Steps] /\ seen \in [Actors -> Answers \cup {"None"}]
      /\ mistaken \subseteq Outcomes /\ chain \in Outcomes \cup {"None"}
  BY DEF IInv, TypeOK
<1>2. pc' = [pc EXCEPT ![a] = s] /\ seen' = [seen EXCEPT ![a] = v]
  BY DEF Goto
<1>3. ASSUME NEW b \in Actors
      PROVE  Holds(pc'[b], seen'[b], chain', mistaken')
  <2>1. CASE b = a
    BY <1>1, <1>2, <2>1
  <2>2. CASE b # a
    <3>1. Holds(pc[b], seen[b], chain, mistaken) /\ pc'[b] = pc[b] /\ seen'[b] = seen[b]
      BY <1>1, <1>2, <2>2 DEF IInv, ActorsHold
    <3>. QED  BY <3>1 DEF Holds, ChainKept, chainVars, Outcomes
  <2>. QED  BY <2>1, <2>2
<1>. QED  BY <1>1, <1>2, <1>3 DEF ActorsHold, ChainKept, chainVars

(* ... and if it writes nothing else, the whole invariant holds.           *)
LEMMA MovingOnly ==
  ASSUME IInv, NEW a \in Actors, NEW s \in Steps, NEW v \in Answers \cup {"None"},
         Goto(a, s, v), ChainKept, Holds(s, v, chain', mistaken'),
         UNCHANGED <<worldVars, state, market, announced>>
  PROVE  IInv'
<1>1. /\ ActorsHold'
      /\ pc' \in [Actors -> Steps]
      /\ seen' \in [Actors -> Answers \cup {"None"}]
      /\ chain' \in Outcomes \cup {"None"} /\ mistaken' \subseteq Outcomes
  BY Moving
<1>2. TypeOK'
  BY <1>1 DEF IInv, TypeOK, worldVars
<1>3. ClaimableMatchesChain'
  BY DEF IInv, TypeOK, ClaimableMatchesChain, ChainKept, chainVars, Outcomes
<1>4. DatabaseNeverAheadOfChain'
  BY DEF IInv, DatabaseNeverAheadOfChain, ChainKept, chainVars, Outcomes
<1>. QED  BY <1>1, <1>2, <1>3, <1>4 DEF IInv

(* ... in particular when it goes back to idle.                            *)
LEMMA Finishing ==
  ASSUME IInv, NEW a \in Actors, Finish(a), ChainKept,
         UNCHANGED <<worldVars, state, market, announced>>
  PROVE  IInv'
<1>1. "idle" \in Steps /\ Holds("idle", "None", chain', mistaken')
  BY DEF Steps, Holds
<1>. QED  BY <1>1, MovingOnly DEF Finish

(* An actor that writes the ResolverState row keeps the invariant if the   *)
(* row is well-formed and not ahead of the chain.                          *)
LEMMA WritingRow ==
  ASSUME IInv, NEW a \in Actors, NEW s \in Steps, NEW v \in Answers \cup {"None"},
         Goto(a, s, v), Holds(s, v, chain, mistaken),
         UNCHANGED <<worldVars, chainVars, announced>>,
         market' \in Answers, state' \in ResolverState, DatabaseNeverAheadOfChain'
  PROVE  IInv'
<1>1. ChainKept /\ Holds(s, v, chain', mistaken')
  BY DEF ChainKept, chainVars
<1>2. /\ ActorsHold'
      /\ pc' \in [Actors -> Steps]
      /\ seen' \in [Actors -> Answers \cup {"None"}]
      /\ chain' \in Outcomes \cup {"None"} /\ mistaken' \subseteq Outcomes
  BY <1>1, Moving
<1>3. TypeOK'
  BY <1>2 DEF IInv, TypeOK, worldVars
<1>4. ClaimableMatchesChain'
  BY DEF IInv, ClaimableMatchesChain, chainVars
<1>. QED  BY <1>2, <1>3, <1>4 DEF IInv

(* Sending resolve_market: the preflight passes or rejects it.             *)
LEMMA Sending ==
  ASSUME IInv, NEW a \in Actors, SendResolve(a), seen[a] \in Outcomes,
         UNCHANGED <<worldVars, state, market, announced>>
  PROVE  IInv'
<1>1. ChainKept /\ "sent" \in Steps /\ seen[a] \in Answers \cup {"None"}
  BY DEF SendResolve, ChainKept, chainVars, Steps, Answers
<1>2. Holds("sent", seen[a], chain', mistaken')
  BY DEF Holds
<1>. QED  BY <1>1, <1>2, MovingOnly, Finishing DEF SendResolve

(* The transaction lands, or fails because another one has landed.         *)
LEMMA Resolving ==
  ASSUME IInv, NEW a \in Actors,
         NEW next \in {"recordSolana", "recordBoth", "persist"}, ResolveOnChain(a, next)
  PROVE  IInv'
<1>1. seen[a] \in Outcomes
  BY DEF ResolveOnChain, IInv, ActorsHold, Holds
<1>2. ChainKept /\ next \in Steps /\ seen[a] \in Answers \cup {"None"}
  BY <1>1 DEF ResolveOnChain, ChainKept, Steps, Answers
<1>3. UNCHANGED <<worldVars, state, market, announced>>
  BY DEF ResolveOnChain
<1>4. CASE Finish(a)
  BY <1>2, <1>3, <1>4, Finishing
<1>5. CASE Goto(a, next, seen[a])
  <2>1. pc'[a] = next
    BY <1>5 DEF Goto, IInv, TypeOK
  <2>2. chain' \in Outcomes /\ seen[a] \in {chain'} \cup mistaken'
    BY <1>1, <2>1 DEF ResolveOnChain, IInv, TypeOK
  <2>3. Holds(next, seen[a], chain', mistaken')
    BY <1>1, <2>2 DEF Holds
  <2>. QED  BY <1>2, <1>3, <1>5, <2>3, MovingOnly
<1>. QED  BY <1>4, <1>5 DEF ResolveOnChain

LEMMA HedgerActors == {"resolver", "reconciler", "poller"} \subseteq Actors
  BY DEF Actors, Loops

LEMMA RowFields ==
  IInv => /\ state \in ResolverState
          /\ chain \in Outcomes \cup {"None"}
          /\ market \in Answers /\ gamma \in Answers
          /\ \A a \in Actors : /\ Holds(pc[a], seen[a], chain, mistaken)
                              /\ seen[a] \in Answers \cup {"None"}
  BY DEF IInv, TypeOK, ActorsHold

LEMMA ResolverStep == IInv /\ Resolver => IInv'
<1>. SUFFICES ASSUME IInv, Resolver PROVE IInv'
  OBVIOUS
<1>. DEFINE r == "resolver"
<1>a. r \in Actors
      /\ {"fetch", "find", "record", "submit", "redeem", "recordRedeemed", "idle"} \subseteq Steps
  BY HedgerActors DEF Steps
<1>b. /\ state \in ResolverState
      /\ gamma \in Answers
      /\ Holds(pc[r], seen[r], chain, mistaken)
      /\ seen[r] \in Answers \cup {"None"}
  BY <1>a, RowFields
<1>1. CASE ListPending
  <2>1. Holds("fetch", "None", chain', mistaken')
    BY DEF Holds
  <2>. QED  BY <1>a, <1>1, <2>1, MovingOnly DEF ListPending, ChainKept, chainVars
<1>2. CASE CheckOne
  <2>1. CASE gamma \in Outcomes
    <3>1. Holds("find", gamma, chain', mistaken')
      BY <2>1 DEF Holds
    <3>. QED  BY <1>a, <1>b, <1>2, <2>1, <3>1, MovingOnly DEF CheckOne, ChainKept, chainVars
  <2>2. CASE gamma \notin Outcomes
    BY <1>a, <1>2, <2>2, Finishing DEF CheckOne, ChainKept, chainVars
  <2>. QED  BY <2>1, <2>2
<1>3. CASE FindExisting
  <2>1. CASE state.resolvedAt
    BY <1>a, <1>3, <2>1, Finishing DEF FindExisting, ChainKept, chainVars
  <2>2. CASE ~state.resolvedAt
    <3>1. Holds("record", seen[r], chain', mistaken')
      BY <1>b, <1>3 DEF FindExisting, Holds
    <3>. QED  BY <1>a, <1>b, <1>3, <2>2, <3>1, MovingOnly DEF FindExisting, ChainKept, chainVars
  <2>. QED  BY <2>1, <2>2
<1>4. CASE RecordResolution
  <2>1. seen[r] \in Outcomes
    BY <1>b, <1>4 DEF RecordResolution, Holds
  <2>2. /\ state' \in ResolverState
        /\ state'.stage = "POLYMARKET_RESOLVED"
        /\ state'.solanaResolveTxSig = state.solanaResolveTxSig
        /\ state'.polymarketRedeemTxHash = state.polymarketRedeemTxHash
    BY <1>b, <1>4, <2>1 DEF RecordResolution, RecordPolymarketResolved, ResolverState, Stages
  <2>3. DatabaseNeverAheadOfChain'
    BY <1>4, <2>2 DEF RecordResolution, IInv, DatabaseNeverAheadOfChain, chainVars
  <2>4. Holds("idle", "None", chain, mistaken) /\ market' \in Answers
    BY <1>4, RowFields DEF RecordResolution, Holds
  <2>. QED  BY <1>a, <1>4, <2>2, <2>3, <2>4, WritingRow DEF RecordResolution, Finish
<1>5. CASE ListAwaiting
  <2>1. state.winner \in Outcomes
    BY <1>b, <1>5 DEF ListAwaiting, ResolverState
  <2>2. Holds("submit", state.winner, chain', mistaken') /\ state.winner \in Answers
    BY <2>1 DEF Holds, Answers
  <2>. QED  BY <1>a, <1>5, <2>2, MovingOnly DEF ListAwaiting, ChainKept, chainVars
<1>6. CASE SubmitOne
  <2>1. seen[r] \in Outcomes
    BY <1>b, <1>6 DEF SubmitOne, Holds
  <2>. QED  BY <1>a, <1>6, <2>1, Sending DEF SubmitOne
<1>7. CASE RecordSubmitted
  <2>1. chain \in Outcomes
    BY <1>b, <1>7 DEF RecordSubmitted, Holds
  <2>2. state' \in ResolverState
    BY <1>b, <1>7 DEF RecordSubmitted, RecordSolanaResolved, ResolverState, Stages
  <2>3. DatabaseNeverAheadOfChain'
    BY <1>7, <2>1 DEF RecordSubmitted, DatabaseNeverAheadOfChain, Outcomes, chainVars
  <2>4. Holds("idle", "None", chain, mistaken) /\ market' \in Answers
    BY <1>7, RowFields DEF RecordSubmitted, Holds
  <2>. QED  BY <1>a, <1>7, <2>2, <2>3, <2>4, WritingRow DEF RecordSubmitted, Finish
<1>8. CASE ListRedemption
  <2>1. chain \in Outcomes
    BY <1>8, RowFields DEF ListRedemption, IInv, DatabaseNeverAheadOfChain
  <2>2. Holds("redeem", "None", chain', mistaken')
    BY <1>8, <2>1 DEF ListRedemption, Holds, chainVars
  <2>. QED  BY <1>a, <1>8, <2>2, MovingOnly DEF ListRedemption, ChainKept, chainVars
<1>9. CASE RedeemOne
  <2>1. Holds("recordRedeemed", "None", chain', mistaken')
    BY <1>b, <1>9 DEF RedeemOne, Holds, chainVars
  <2>2. CASE Goto(r, "recordRedeemed", "None")
    BY <1>a, <1>9, <2>1, <2>2, MovingOnly DEF RedeemOne, ChainKept, chainVars
  <2>3. CASE Finish(r)
    BY <1>a, <1>9, <2>3, Finishing DEF RedeemOne, ChainKept, chainVars
  <2>. QED  BY <1>9, <2>2, <2>3 DEF RedeemOne
<1>10. CASE RecordRedeemed
  <2>1. chain \in Outcomes
    BY <1>b, <1>10 DEF RecordRedeemed, Holds
  <2>2. state' \in ResolverState
    BY <1>b, <1>10 DEF RecordRedeemed, ResolverState, Stages
  <2>3. DatabaseNeverAheadOfChain'
    BY <1>10, <2>1 DEF RecordRedeemed, DatabaseNeverAheadOfChain, Outcomes, chainVars
  <2>4. Holds("idle", "None", chain, mistaken) /\ market' \in Answers
    BY <1>10, RowFields DEF RecordRedeemed, Holds
  <2>. QED  BY <1>a, <1>10, <2>2, <2>3, <2>4, WritingRow DEF RecordRedeemed, Finish
<1>11. CASE ResolveOnChain(r, "recordSolana")
  BY <1>a, <1>11, Resolving
<1>. QED
  BY <1>1, <1>2, <1>3, <1>4, <1>5, <1>6, <1>7, <1>8, <1>9, <1>10, <1>11 DEF Resolver

LEMMA ReconcilerStep == IInv /\ Reconciler => IInv'
<1>. SUFFICES ASSUME IInv, Reconciler PROVE IInv'
  OBVIOUS
<1>. DEFINE r == "reconciler"
<1>a. r \in Actors /\ {"recheck", "revert", "flip", "idle"} \subseteq Steps
  BY HedgerActors DEF Steps
<1>b. /\ state \in ResolverState
      /\ market \in Answers /\ gamma \in Answers
      /\ Holds(pc[r], seen[r], chain, mistaken)
  BY <1>a, RowFields
<1>1. CASE ListPendingSolana
  <2>1. Holds("recheck", state.winner, chain', mistaken') /\ state.winner \in Answers \cup {"None"}
    BY <1>b DEF Holds, ResolverState, Answers
  <2>. QED  BY <1>a, <1>1, <2>1, MovingOnly DEF ListPendingSolana, ChainKept, chainVars
<1>2. CASE RecheckOne
  <2>1. CASE Goto(r, "revert", "None")
    <3>1. Holds("revert", "None", chain', mistaken')
      BY DEF Holds
    <3>. QED  BY <1>a, <1>2, <2>1, <3>1, MovingOnly DEF RecheckOne, ChainKept, chainVars
  <2>2. CASE gamma \in Outcomes /\ Goto(r, "flip", gamma)
    <3>1. Holds("flip", gamma, chain', mistaken')
      BY <2>2 DEF Holds
    <3>. QED  BY <1>a, <1>b, <1>2, <2>2, <3>1, MovingOnly DEF RecheckOne, ChainKept, chainVars
  <2>3. CASE Finish(r)
    BY <1>a, <1>2, <2>3, Finishing DEF RecheckOne, ChainKept, chainVars
  <2>. QED  BY <1>2, <2>1, <2>2, <2>3 DEF RecheckOne
<1>3. CASE RevertToPending
  <2>1. /\ state' \in ResolverState
        /\ state'.stage = "PENDING"
        /\ state'.solanaResolveTxSig = state.solanaResolveTxSig
        /\ state'.polymarketRedeemTxHash = state.polymarketRedeemTxHash
    BY <1>b, <1>3 DEF RevertToPending, ResolverState, Stages
  <2>2. DatabaseNeverAheadOfChain'
    BY <1>3, <2>1 DEF RevertToPending, IInv, DatabaseNeverAheadOfChain, chainVars
  <2>3. Holds("idle", "None", chain, mistaken) /\ market' \in Answers
    BY <1>b, <1>3 DEF RevertToPending, Holds
  <2>. QED  BY <1>a, <1>3, <2>1, <2>2, <2>3, WritingRow DEF RevertToPending, Finish
<1>4. CASE UpdateWinningOutcome
  <2>1. seen[r] \in Outcomes
    BY <1>b, <1>4 DEF UpdateWinningOutcome, Holds
  <2>2. /\ state' \in ResolverState
        /\ state'.stage = state.stage
        /\ state'.solanaResolveTxSig = state.solanaResolveTxSig
        /\ state'.polymarketRedeemTxHash = state.polymarketRedeemTxHash
    BY <1>b, <1>4, <2>1 DEF UpdateWinningOutcome, ResolverState
  <2>3. DatabaseNeverAheadOfChain'
    BY <1>4, <2>2 DEF UpdateWinningOutcome, IInv, DatabaseNeverAheadOfChain, chainVars
  <2>4. Holds("idle", "None", chain, mistaken) /\ market' \in Answers
    BY <1>b, <1>4 DEF UpdateWinningOutcome, Holds
  <2>. QED  BY <1>a, <1>4, <2>2, <2>3, <2>4, WritingRow DEF UpdateWinningOutcome, Finish
<1>. QED  BY <1>1, <1>2, <1>3, <1>4 DEF Reconciler

(* A claimable broadcast goes out for the winner on chain.                 *)
LEMMA Publishing ==
  ASSUME IInv, NEW a \in Actors, Publish(a)
  PROVE  IInv'
<1>1. /\ "idle" \in Steps /\ Holds("idle", "None", chain', mistaken')
      /\ ChainKept /\ Goto(a, "idle", "None")
  BY DEF Steps, Holds, Publish, ChainKept, chainVars, Finish
<1>2. /\ ActorsHold'
      /\ pc' \in [Actors -> Steps]
      /\ seen' \in [Actors -> Answers \cup {"None"}]
  BY <1>1, Moving
<1>3. seen[a] \in Outcomes /\ seen[a] \in {chain} \cup mistaken
  BY RowFields DEF Publish, Holds
<1>4. TypeOK'
  BY <1>2, <1>3 DEF IInv, TypeOK, Publish, worldVars, chainVars
<1>5. ClaimableMatchesChain' /\ DatabaseNeverAheadOfChain'
  BY <1>3 DEF IInv, Publish, ClaimableMatchesChain, DatabaseNeverAheadOfChain, chainVars
<1>. QED  BY <1>2, <1>4, <1>5 DEF IInv

LEMMA PollerStep == IInv /\ Poller => IInv'
<1>. SUFFICES ASSUME IInv, Poller PROVE IInv'
  OBVIOUS
<1>. DEFINE p == "poller"
<1>a. p \in Actors
      /\ {"check", "apply", "submit", "recordSolana", "publish", "idle"} \subseteq Steps
  BY HedgerActors DEF Steps
<1>b. /\ state \in ResolverState
      /\ market \in Answers /\ gamma \in Answers
      /\ Holds(pc[p], seen[p], chain, mistaken)
      /\ seen[p] \in Answers \cup {"None"}
  BY <1>a, RowFields
<1>1. CASE ListCandidates
  <2>1. Holds("check", market, chain', mistaken')
    BY <1>b DEF Holds
  <2>. QED  BY <1>a, <1>b, <1>1, <2>1, MovingOnly DEF ListCandidates, ChainKept, chainVars
<1>2. CASE ComputeTarget
  <2>1. CASE Goto(p, "apply", gamma)
    <3>1. Holds("apply", gamma, chain', mistaken')
      BY <1>b DEF Holds
    <3>. QED  BY <1>a, <1>b, <1>2, <2>1, <3>1, MovingOnly DEF ComputeTarget, ChainKept, chainVars
  <2>2. CASE Finish(p)
    BY <1>a, <1>2, <2>2, Finishing DEF ComputeTarget, ChainKept, chainVars
  <2>. QED  BY <1>2, <2>1, <2>2 DEF ComputeTarget
<1>3. CASE ApplyTarget
  <2>1. market' \in Answers /\ UNCHANGED <<worldVars, chainVars, state, announced>>
    BY <1>b, <1>3 DEF ApplyTarget, Holds
  <2>2. state' \in ResolverState /\ DatabaseNeverAheadOfChain'
    BY <1>b, <2>1 DEF IInv, DatabaseNeverAheadOfChain, chainVars
  <2>3. CASE market' \in Outcomes /\ Goto(p, "submit", market')
    <3>1. Holds("submit", market', chain, mistaken)
      BY <2>3 DEF Holds
    <3>. QED  BY <1>a, <2>1, <2>2, <2>3, <3>1, WritingRow
  <2>4. CASE Finish(p)
    <3>1. Holds("idle", "None", chain, mistaken)
      BY DEF Holds
    <3>. QED  BY <1>a, <2>1, <2>2, <2>4, <3>1, WritingRow DEF Finish
  <2>. QED  BY <1>3, <2>3, <2>4 DEF ApplyTarget
<1>4. CASE SubmitFast
  <2>1. seen[p] \in Outcomes
    BY <1>b, <1>4 DEF SubmitFast, Holds
  <2>. QED  BY <1>a, <1>4, <2>1, Sending DEF SubmitFast
<1>5. CASE RecordFastPolymarket
  <2>1. seen[p] \in Outcomes /\ chain \in Outcomes
    BY <1>b, <1>5 DEF RecordFastPolymarket, Holds
  <2>2. state' \in ResolverState
    BY <1>b, <1>5, <2>1 DEF RecordFastPolymarket, RecordPolymarketResolved, ResolverState, Stages
  <2>3. DatabaseNeverAheadOfChain'
    BY <1>5, <2>1 DEF RecordFastPolymarket, DatabaseNeverAheadOfChain, Outcomes, chainVars
  <2>4. Holds("recordSolana", seen[p], chain, mistaken) /\ market' \in Answers
    BY <1>b, <1>5, <2>1 DEF RecordFastPolymarket, Holds
  <2>. QED  BY <1>a, <1>b, <1>5, <2>2, <2>3, <2>4, WritingRow DEF RecordFastPolymarket
<1>6. CASE RecordFastSolana
  <2>1. seen[p] \in Outcomes /\ chain \in Outcomes
    BY <1>b, <1>6 DEF RecordFastSolana, Holds
  <2>2. state' \in ResolverState
    BY <1>b, <1>6 DEF RecordFastSolana, RecordSolanaResolved, ResolverState, Stages
  <2>3. DatabaseNeverAheadOfChain'
    BY <1>6, <2>1 DEF RecordFastSolana, DatabaseNeverAheadOfChain, Outcomes, chainVars
  <2>4. Holds("publish", seen[p], chain, mistaken) /\ market' \in Answers
    BY <1>b, <1>6, <2>1 DEF RecordFastSolana, Holds
  <2>. QED  BY <1>a, <1>b, <1>6, <2>2, <2>3, <2>4, WritingRow DEF RecordFastSolana
<1>7. CASE Publish(p)
  BY <1>a, <1>7, Publishing
<1>8. CASE ResolveOnChain(p, "recordBoth")
  BY <1>a, <1>8, Resolving
<1>. QED  BY <1>1, <1>2, <1>3, <1>4, <1>5, <1>6, <1>7, <1>8 DEF Poller

LEMMA ServerStep ==
  ASSUME IInv, NEW a \in Servers, Server(a)
  PROVE  IInv'
<1>a. a \in Actors /\ {"submit", "persist", "publish", "idle"} \subseteq Steps
  BY DEF Actors, Steps
<1>b. /\ state \in ResolverState
      /\ market \in Answers
      /\ Holds(pc[a], seen[a], chain, mistaken)
      /\ seen[a] \in Answers \cup {"None"}
  BY <1>a, RowFields
<1>1. ASSUME NEW o \in Outcomes, Prepare(a, o)
      PROVE  IInv'
  <2>1. Holds("submit", o, chain', mistaken') /\ o \in Answers
    BY DEF Holds, Answers
  <2>. QED  BY <1>a, <1>1, <2>1, MovingOnly DEF Prepare, ChainKept, chainVars
<1>2. CASE ResolveMarket(a)
  <2>1. seen[a] \in Outcomes
    BY <1>b, <1>2 DEF ResolveMarket, Holds
  <2>2. CASE chain = seen[a]
    <3>1. Holds("persist", seen[a], chain', mistaken')
      BY <1>2, <2>1, <2>2 DEF ResolveMarket, Holds, chainVars
    <3>. QED  BY <1>a, <1>b, <1>2, <2>2, <3>1, MovingOnly DEF ResolveMarket, ChainKept, chainVars
  <2>3. CASE chain # seen[a]
    BY <1>a, <1>2, <2>1, <2>3, Sending DEF ResolveMarket
  <2>. QED  BY <2>2, <2>3
<1>3. CASE PersistResolution(a)
  <2>1. seen[a] \in Outcomes /\ chain \in Outcomes
    BY <1>b, <1>3 DEF PersistResolution, Holds
  <2>2. state' \in ResolverState /\ market' \in Answers
    BY <1>b, <1>3, <2>1 DEF PersistResolution, ResolverState, Stages, Answers
  <2>3. DatabaseNeverAheadOfChain'
    BY <1>3, <2>1 DEF PersistResolution, DatabaseNeverAheadOfChain, Outcomes, chainVars
  <2>4. Holds("publish", seen[a], chain, mistaken)
    BY <1>b, <1>3 DEF PersistResolution, Holds
  <2>. QED  BY <1>a, <1>b, <1>3, <2>2, <2>3, <2>4, WritingRow DEF PersistResolution
<1>4. CASE Publish(a)
  BY <1>a, <1>4, Publishing
<1>5. CASE ResolveOnChain(a, "persist")
  BY <1>a, <1>5, Resolving
<1>. QED  BY <1>1, <1>2, <1>3, <1>4, <1>5 DEF Server

LEMMA WorldStep ==
  ASSUME IInv, GammaChanges \/ WindowPasses \/ \E dead \in SUBSET Actors : Fails(dead)
  PROVE  IInv'
<1>1. CASE GammaChanges
  BY <1>1, ResolutionAssumption
     DEF GammaChanges, IInv, TypeOK, ActorsHold, ClaimableMatchesChain,
         DatabaseNeverAheadOfChain, actorVars, chainVars
<1>2. CASE WindowPasses
  <2>1. /\ state' \in ResolverState
        /\ state'.stage = state.stage
        /\ state'.solanaResolveTxSig = state.solanaResolveTxSig
        /\ state'.polymarketRedeemTxHash = state.polymarketRedeemTxHash
    BY <1>2, RowFields DEF WindowPasses, ResolverState
  <2>. QED  BY <1>2, <2>1 DEF WindowPasses, IInv, TypeOK, ActorsHold, ClaimableMatchesChain,
                DatabaseNeverAheadOfChain, actorVars, worldVars, chainVars
<1>3. ASSUME NEW dead \in SUBSET Actors, Fails(dead)
      PROVE  IInv'
  <2>1. disturbances' \in 0 .. MaxDisturbances
    BY <1>3, ResolutionAssumption DEF Fails, IInv, TypeOK
  <2>2. pc' \in [Actors -> Steps] /\ seen' \in [Actors -> Answers \cup {"None"}]
    BY <1>3 DEF Fails, IInv, TypeOK, Steps
  <2>3. ASSUME NEW b \in Actors
        PROVE  Holds(pc'[b], seen'[b], chain', mistaken')
    BY <1>3 DEF Fails, IInv, TypeOK, ActorsHold, Holds, chainVars
  <2>. QED  BY <1>3, <2>1, <2>2, <2>3 DEF Fails, IInv, TypeOK, ActorsHold,
                ClaimableMatchesChain, DatabaseNeverAheadOfChain, chainVars
<1>. QED  BY <1>1, <1>2, <1>3

LEMMA InductiveStep == IInv /\ [Next]_vars => IInv'
<1>. SUFFICES ASSUME IInv, [Next]_vars PROVE IInv'
  OBVIOUS
<1>1. CASE UNCHANGED vars
  BY <1>1 DEF vars, worldVars, actorVars, IInv, TypeOK, ActorsHold, ClaimableMatchesChain,
     DatabaseNeverAheadOfChain, chainVars
<1>2. CASE Next
  BY <1>2, ResolverStep, ReconcilerStep, PollerStep, ServerStep, WorldStep DEF Next
<1>. QED  BY <1>1, <1>2

-----------------------------------------------------------------------------
(* The inductive invariant holds in every reachable state, for every       *)
(* interleaving of the five actors.                                        *)
THEOREM Invariance == Spec => []IInv
<1>. QED  BY InitialState, InductiveStep, PTL DEF Spec

(* Every variable keeps its type.                                          *)
THEOREM TypeCorrectness == Spec => []TypeOK
<1>1. IInv => TypeOK
  BY DEF IInv
<1>. QED  BY Invariance, <1>1, PTL

(* Whoever resolves the market, clients are told to claim only what the    *)
(* chain pays (publish_resolved with claimable: true).                     *)
THEOREM ClaimableIsOnChain == Spec => []ClaimableMatchesChain
<1>1. IInv => ClaimableMatchesChain
  BY DEF IInv
<1>. QED  BY Invariance, <1>1, PTL

(* A ResolverState row is never further than the market's account, through *)
(* every race between its writers.                                         *)
THEOREM DatabaseFollowsChain == Spec => []DatabaseNeverAheadOfChain
<1>1. IInv => DatabaseNeverAheadOfChain
  BY DEF IInv
<1>. QED  BY Invariance, <1>1, PTL
=============================================================================
