---------------------------- MODULE HedgerProofs ----------------------------
(***************************************************************************)
(* Theorems about Hedger, for any number of fills, crashes, retries and    *)
(* stalls.  The argument is one inductive invariant: where the worker      *)
(* stands in handling a job fixes what the job, the Hedge row and the      *)
(* shares traded can be (StepMatchesRow), a job in its hands has attempts  *)
(* and stalls left (BudgetLeft), and a failure callback only runs for a    *)
(* job that no worker holds (CallbackAlone).                               *)
(*                                                                         *)
(* The exposure needs more: what the row of a job says of its past         *)
(* attempts while nothing interrupts them (CleanShape), and, summed over a *)
(* market, what each fill has added so far (ExposureMatches).              *)
(***************************************************************************)
EXTENDS Hedger, SumTheorems

(* The row and the local state that each step of the worker starts from.   *)
StepMatchesRow ==
    \A f \in Fills :
        /\ pc[f] # "idle" => up /\ jobState[f] = "active"
        /\ pc[f] \notin {"walk", "settle", "reverse"} => got[f] = 0
        /\ pc[f] = "walk" => got[f] < Size[f] /\ step[f] < WalkSteps
        /\ pc[f] \notin {"walk", "settle", "reverse"} => step[f] = 0
        /\ pc[f] = "mark" => status[f] \in {"PENDING", "HEDGING"}
        /\ pc[f] \in {"bump", "order", "walk", "settle"} => status[f] = "HEDGING"
        /\ pc[f] = "reverse" => status[f] \in Terminal
        /\ status[f] \notin Terminal => filled[f] = 0

BudgetLeft ==
    \A f \in Fills : jobState[f] \in {"waiting", "active"} =>
        attempts[f] < MaxAttempts /\ stalls[f] <= MaxStalled

CallbackAlone == \A f \in Fills : failure[f] # "none" => jobState[f] = "failed"

IInv ==
    /\ TypeOK
    /\ StepMatchesRow
    /\ BudgetLeft
    /\ CallbackAlone
    /\ TradesAccounted
    /\ CompletedIsTerminal

-----------------------------------------------------------------------------
LEMMA InitialState == Init => IInv
<1> SUFFICES ASSUME Init PROVE IInv
  OBVIOUS
<1> USE HedgerAssumption DEF HedgerAssumption, Init
<1>1. TypeOK
  BY DEF TypeOK, JobStates, Steps, Statuses, Terminal
<1>2. StepMatchesRow /\ BudgetLeft /\ CallbackAlone
  BY DEF StepMatchesRow, BudgetLeft, CallbackAlone, Terminal
<1>3. TradesAccounted /\ CompletedIsTerminal
  BY DEF TradesAccounted, CompletedIsTerminal, InFlight
<1> QED BY <1>1, <1>2, <1>3 DEF IInv

(* One step per action; under it one step per conjunct that the action     *)
(* disturbs, and one for those whose variables it leaves alone.            *)
LEMMA InductiveStep == IInv /\ [Next]_vars => IInv'
<1> SUFFICES ASSUME IInv, [Next]_vars PROVE IInv'
  OBVIOUS
<1> USE HedgerAssumption DEF HedgerAssumption, IInv, JobStates, Steps, Statuses, Terminal,
        vars, queueVars, workerVars, rowVars, exposureVars, processVars, historyVars
<1>1. ASSUME NEW f \in Fills, OnFill(f) PROVE IInv'
  <2> USE <1>1 DEF OnFill
  <2>1. TypeOK'
    BY DEF TypeOK
  <2>2. BudgetLeft'
    BY DEF TypeOK, BudgetLeft
  <2>3. StepMatchesRow' /\ CallbackAlone' /\ TradesAccounted' /\ CompletedIsTerminal'
    BY DEF StepMatchesRow, CallbackAlone, TradesAccounted, InFlight, CompletedIsTerminal
  <2> QED BY <2>1, <2>2, <2>3
<1>2. ASSUME NEW f \in Fills, RemoveFinished(f) PROVE IInv'
  <2> USE <1>2 DEF RemoveFinished
  <2>1. TypeOK'
    BY DEF TypeOK
  <2>2. StepMatchesRow' /\ BudgetLeft' /\ CallbackAlone' /\ TradesAccounted' /\ CompletedIsTerminal'
    BY DEF StepMatchesRow, CallbackAlone, BudgetLeft, TradesAccounted, InFlight, CompletedIsTerminal
  <2> QED BY <2>1, <2>2
<1>3. ASSUME NEW f \in Fills, ServerRecordsFill(f) PROVE IInv'
  <2> USE <1>3 DEF ServerRecordsFill
  <2>1. TypeOK'
    BY DEF TypeOK
  <2>2. StepMatchesRow' /\ BudgetLeft' /\ CallbackAlone' /\ TradesAccounted' /\ CompletedIsTerminal'
    BY DEF StepMatchesRow, CallbackAlone, BudgetLeft, TradesAccounted, InFlight, CompletedIsTerminal
  <2> QED BY <2>1, <2>2
<1>4. ASSUME NEW f \in Fills, Dequeue(f) PROVE IInv'
  <2> USE <1>4 DEF Dequeue, Goto
  <2>1. TypeOK'
    BY DEF TypeOK
  <2>2. StepMatchesRow'
    BY DEF TypeOK, StepMatchesRow
  <2>3. BudgetLeft' /\ CallbackAlone' /\ TradesAccounted' /\ CompletedIsTerminal'
    BY DEF StepMatchesRow, BudgetLeft, CallbackAlone, TradesAccounted, InFlight, CompletedIsTerminal
  <2> QED BY <2>1, <2>2, <2>3
<1>5. ASSUME NEW f \in Fills, UpsertFill(f) PROVE IInv'
  <2> USE <1>5 DEF UpsertFill, Goto
  <2>1. TypeOK'
    BY DEF TypeOK
  <2>2. StepMatchesRow'
    BY DEF StepMatchesRow
  <2>3. BudgetLeft' /\ CallbackAlone' /\ TradesAccounted' /\ CompletedIsTerminal'
    BY DEF BudgetLeft, CallbackAlone, TradesAccounted, InFlight, CompletedIsTerminal
  <2> QED BY <2>1, <2>2, <2>3
<1>6. ASSUME NEW f \in Fills, UpsertHedge(f) PROVE IInv'
  <2> USE <1>6 DEF UpsertHedge, Goto
  <2>1. CASE status[f] \in Terminal
    <3> USE <2>1 DEF Completes, Leave
    <3>1. TypeOK'
      <4>1. jobState' \in [Fills -> JobStates] /\ pc' \in [Fills -> Steps]
        BY DEF TypeOK, JobStates, Steps
      <4>2. /\ got' \in [Fills -> Nat]
            /\ \A g \in Fills : got'[g] <= Size[g] + Improvement
            /\ step' \in [Fills -> 0 .. WalkSteps]
        BY DEF TypeOK
      <4>3. status' \in [Fills -> Statuses]
        BY DEF TypeOK
      <4> QED BY <4>1, <4>2, <4>3 DEF TypeOK
    <3>2. StepMatchesRow'
      BY DEF TypeOK, StepMatchesRow
    <3>3. BudgetLeft' /\ CallbackAlone' /\ CompletedIsTerminal'
      BY DEF TypeOK, BudgetLeft, CallbackAlone, CompletedIsTerminal, StepMatchesRow
    <3>4. TradesAccounted'
      BY DEF TypeOK, StepMatchesRow, TradesAccounted, InFlight
    <3> QED BY <3>1, <3>2, <3>3, <3>4
  <2>2. CASE status[f] \notin Terminal
    <3> USE <2>2
    <3>1. TypeOK'
      BY DEF TypeOK
    <3>2. StepMatchesRow'
      BY DEF TypeOK, StepMatchesRow
    <3>3. BudgetLeft' /\ CallbackAlone' /\ TradesAccounted' /\ CompletedIsTerminal'
      BY DEF TypeOK, BudgetLeft, CallbackAlone, TradesAccounted, InFlight, CompletedIsTerminal
    <3> QED BY <3>1, <3>2, <3>3
  <2> QED BY <2>1, <2>2
<1>7. ASSUME NEW f \in Fills, MarkHedging(f) PROVE IInv'
  <2> USE <1>7 DEF MarkHedging, Goto
  <2>1. TypeOK'
    BY DEF TypeOK
  <2>2. StepMatchesRow'
    BY DEF TypeOK, StepMatchesRow
  <2>3. BudgetLeft' /\ CallbackAlone' /\ TradesAccounted' /\ CompletedIsTerminal'
    BY DEF StepMatchesRow, BudgetLeft, CallbackAlone, TradesAccounted, InFlight, CompletedIsTerminal
  <2> QED BY <2>1, <2>2, <2>3
<1>8. ASSUME NEW f \in Fills, BumpExposure(f) PROVE IInv'
  <2> USE <1>8 DEF BumpExposure, Goto, ApplySignedDelta
  <2>1. TypeOK'
    BY DEF TypeOK
  <2>2. StepMatchesRow'
    BY DEF StepMatchesRow
  <2>3. BudgetLeft' /\ CallbackAlone' /\ TradesAccounted' /\ CompletedIsTerminal'
    BY DEF BudgetLeft, CallbackAlone, TradesAccounted, InFlight, CompletedIsTerminal
  <2> QED BY <2>1, <2>2, <2>3
<1>9. ASSUME NEW f \in Fills, NEW k \in Tradable(f, Size[f]), PlaceMarketOrder(f, k) PROVE IInv'
  <2> USE <1>9 DEF PlaceMarketOrder, Goto, Trade, Tradable
  <2>1. TypeOK'
    BY DEF TypeOK, StepMatchesRow
  <2>2. StepMatchesRow'
    BY DEF TypeOK, StepMatchesRow
  <2>3. TradesAccounted'
    BY DEF TypeOK, StepMatchesRow, TradesAccounted, InFlight
  <2>4. BudgetLeft' /\ CallbackAlone' /\ CompletedIsTerminal'
    BY DEF BudgetLeft, CallbackAlone, CompletedIsTerminal
  <2> QED BY <2>1, <2>2, <2>3, <2>4
<1>10. ASSUME NEW f \in Fills, NEW k \in Tradable(f, Size[f]), WalkBook(f, k) PROVE IInv'
  <2> USE <1>10 DEF WalkBook, Goto, Trade, Tradable
  <2>1. TypeOK'
    BY DEF TypeOK, StepMatchesRow
  <2>2. StepMatchesRow'
    BY DEF TypeOK, StepMatchesRow
  <2>3. TradesAccounted'
    BY DEF TypeOK, TradesAccounted, InFlight
  <2>4. BudgetLeft' /\ CallbackAlone' /\ CompletedIsTerminal'
    BY DEF BudgetLeft, CallbackAlone, CompletedIsTerminal
  <2> QED BY <2>1, <2>2, <2>3, <2>4
<1>11. ASSUME NEW f \in Fills, Settle(f) PROVE IInv'
  <2> USE <1>11 DEF Settle, Goto
  <2>1. TypeOK'
    BY DEF TypeOK
  <2>2. StepMatchesRow'
    BY DEF TypeOK, StepMatchesRow
  <2>3. TradesAccounted'
    <3>1. filled[f] = 0 /\ bought[f] = unrecorded[f] + got[f] /\ got[f] <= Size[f] + Improvement
      BY DEF TypeOK, StepMatchesRow, TradesAccounted, InFlight
    <3>2. filled'[f] = got[f] /\ InFlight(f)' = 0
      BY DEF TypeOK, InFlight
    <3>3. ASSUME NEW g \in Fills, g # f
          PROVE  filled'[g] = filled[g] /\ InFlight(g)' = InFlight(g)
      BY <3>3 DEF InFlight
    <3> QED BY <3>1, <3>2, <3>3 DEF TypeOK, TradesAccounted
  <2>4. BudgetLeft' /\ CallbackAlone' /\ CompletedIsTerminal'
    BY DEF BudgetLeft, CallbackAlone, CompletedIsTerminal
  <2> QED BY <2>1, <2>2, <2>3, <2>4
<1>12. ASSUME NEW f \in Fills, ReverseExposure(f) PROVE IInv'
  <2> USE <1>12 DEF ReverseExposure, Completes, Leave, Goto, ApplySignedDelta
  <2>1. TypeOK'
    BY DEF TypeOK
  <2>2. StepMatchesRow'
    BY DEF TypeOK, StepMatchesRow
  <2>3. CompletedIsTerminal'
    BY DEF StepMatchesRow, CompletedIsTerminal
  <2>4. BudgetLeft' /\ CallbackAlone' /\ TradesAccounted'
    BY DEF StepMatchesRow, BudgetLeft, CallbackAlone, TradesAccounted, InFlight
  <2> QED BY <2>1, <2>2, <2>3, <2>4
<1>13. ASSUME NEW f \in Fills, AttemptFails(f) PROVE IInv'
  <2> USE <1>13 DEF AttemptFails, FailsForGood, Leave, Goto
  <2>1. TypeOK'
    <3>1. attempts[f] \in Nat /\ attempts[f] < MaxAttempts
      BY DEF TypeOK, StepMatchesRow, BudgetLeft
    <3>2. attempts' \in [Fills -> 0 .. MaxAttempts]
      BY <3>1 DEF TypeOK
    <3>3. jobState' \in [Fills -> JobStates] /\ failure' \in [Fills -> {"none", "event", "pause"}]
      BY DEF TypeOK, JobStates
    <3>4. /\ pc' \in [Fills -> Steps] /\ step' \in [Fills -> 0 .. WalkSteps]
          /\ got' \in [Fills -> Nat] /\ \A g \in Fills : got'[g] <= Size[g] + Improvement
      BY DEF TypeOK, Steps
    <3>5. InFlight(f) \in Nat
      BY DEF TypeOK, InFlight
    <3>6. unrecorded' \in [Fills -> Nat] /\ clean' \in BOOLEAN
      BY <3>5 DEF TypeOK
    <3>. QED  BY <3>2, <3>3, <3>4, <3>6 DEF TypeOK
  <2>2. StepMatchesRow'
    BY DEF TypeOK, StepMatchesRow
  <2>3. BudgetLeft'
    BY DEF TypeOK, StepMatchesRow, BudgetLeft
  <2>4. TradesAccounted'
    BY DEF TypeOK, TradesAccounted, InFlight
  <2>5. CallbackAlone'
    BY DEF TypeOK, StepMatchesRow, CallbackAlone
  <2>6. CompletedIsTerminal'
    BY DEF TypeOK, CompletedIsTerminal
  <2> QED BY <2>1, <2>2, <2>3, <2>4, <2>5, <2>6
<1>14. ASSUME NEW f \in Fills, MarkHedgeFailed(f) PROVE IInv'
  <2> USE <1>14 DEF MarkHedgeFailed
  <2>1. TypeOK'
    BY DEF TypeOK
  <2>2. StepMatchesRow'
    BY DEF TypeOK, StepMatchesRow, CallbackAlone
  <2>3. CompletedIsTerminal'
    BY DEF TypeOK, CompletedIsTerminal
  <2>4. BudgetLeft' /\ CallbackAlone' /\ TradesAccounted'
    BY DEF BudgetLeft, CallbackAlone, TradesAccounted, InFlight
  <2> QED BY <2>1, <2>2, <2>3, <2>4
<1>15. ASSUME NEW f \in Fills, MaybePauseMarket(f) PROVE IInv'
  <2> USE <1>15 DEF MaybePauseMarket
  <2>1. TypeOK'
    BY DEF TypeOK
  <2>2. StepMatchesRow' /\ BudgetLeft' /\ CallbackAlone' /\ TradesAccounted' /\ CompletedIsTerminal'
    BY DEF StepMatchesRow, CallbackAlone, BudgetLeft, TradesAccounted, InFlight, CompletedIsTerminal
  <2> QED BY <2>1, <2>2
<1>16. ASSUME NEW f \in Fills, Stalled(f) PROVE IInv'
  <2> USE <1>16 DEF Stalled, FailsForGood
  <2>1. stalls[f] + 1 \in 0 .. MaxStalled + 1 /\ stalls' \in [Fills -> 0 .. MaxStalled + 1]
    BY DEF TypeOK, BudgetLeft
  <2>2. TypeOK'
    BY <2>1 DEF TypeOK
  <2>3. BudgetLeft'
    BY DEF TypeOK, BudgetLeft
  <2>4. StepMatchesRow' /\ CallbackAlone' /\ TradesAccounted' /\ CompletedIsTerminal'
    BY DEF TypeOK, StepMatchesRow, CallbackAlone, TradesAccounted, InFlight, CompletedIsTerminal
  <2> QED BY <2>1, <2>2, <2>3, <2>4
<1>17. ASSUME Crash PROVE IInv'
  <2> USE <1>17 DEF Crash
  <2>1. TypeOK'
    <3>1. unrecorded' \in [Fills -> Nat]
      BY DEF TypeOK, InFlight
    <3>2. pc' \in [Fills -> Steps]
      OBVIOUS
    <3>3. got' \in [Fills -> Nat] /\ (\A f \in Fills : got'[f] <= Size[f] + Improvement)
      OBVIOUS
    <3>4. step' \in [Fills -> 0 .. WalkSteps] /\ failure' \in [Fills -> {"none", "event", "pause"}]
      OBVIOUS
    <3>5. crashes' \in Nat /\ forgotten' \in Nat
      BY DEF TypeOK
    <3>6. up' \in BOOLEAN /\ clean' \in BOOLEAN
      OBVIOUS
    <3> QED BY <3>1, <3>2, <3>3, <3>4, <3>5, <3>6 DEF TypeOK
  <2>2. StepMatchesRow'
    BY DEF StepMatchesRow
  <2>3. TradesAccounted'
    BY DEF TypeOK, TradesAccounted, InFlight
  <2>4. BudgetLeft' /\ CallbackAlone' /\ CompletedIsTerminal'
    BY DEF BudgetLeft, CallbackAlone, CompletedIsTerminal
  <2> QED BY <2>1, <2>2, <2>3, <2>4
<1>18. ASSUME Boot PROVE IInv'
  <2> USE <1>18 DEF Boot
  <2>1. TypeOK'
    BY DEF TypeOK
  <2>2. StepMatchesRow'
    BY DEF StepMatchesRow
  <2>3. CompletedIsTerminal'
    BY DEF CompletedIsTerminal
  <2>4. BudgetLeft' /\ CallbackAlone' /\ TradesAccounted'
    BY DEF BudgetLeft, CallbackAlone, TradesAccounted, InFlight
  <2> QED BY <2>1, <2>2, <2>3, <2>4
<1>19. CASE UNCHANGED vars
  <2> USE <1>19
  <2>1. TypeOK'
    BY DEF TypeOK
  <2>2. StepMatchesRow' /\ BudgetLeft' /\ CallbackAlone' /\ TradesAccounted' /\ CompletedIsTerminal'
    BY DEF StepMatchesRow, BudgetLeft, CallbackAlone, TradesAccounted, CompletedIsTerminal, InFlight
  <2> QED BY <2>1, <2>2
<1> HIDE DEF IInv
<1> QED
  BY <1>1, <1>2, <1>3, <1>4, <1>5, <1>6, <1>7, <1>8, <1>9, <1>10, <1>11, <1>12, <1>13, <1>14,
     <1>15, <1>16, <1>17, <1>18, <1>19
  DEF Next, HandleStep

(* The invariant holds in every reachable state.                           *)
THEOREM Invariance == Spec => []IInv
BY InitialState, InductiveStep, PTL DEF Spec

(* Every variable keeps its type, for any constants: a job never exceeds   *)
(* its attempts, nor its stalls by more than the one that fails it, and an *)
(* execution never trades more than the fill plus the dollar-amount slack. *)
THEOREM TypeCorrectness == Spec => []TypeOK
<1>1. IInv => TypeOK
  BY DEF IInv
<1> QED BY <1>1, Invariance, PTL

(* Every share traded is in the Hedge row, with the running execution, or  *)
(* was lost with one that threw or died after ordering.                    *)
THEOREM AllTradesAccounted == Spec => []TradesAccounted
<1>1. IInv => TradesAccounted
  BY DEF IInv
<1> QED BY <1>1, Invariance, PTL

(* A job that BullMQ reports completed left its hedge terminal.            *)
THEOREM CompletionIsTerminal == Spec => []CompletedIsTerminal
<1>1. IInv => CompletedIsTerminal
  BY DEF IInv
<1> QED BY <1>1, Invariance, PTL

-----------------------------------------------------------------------------
(* Orders leave for Polymarket only while the Hedge row says HEDGING.      *)
THEOREM OrdersNeedHedging == Spec => OrdersOnlyWhileHedging
<1>1. ASSUME IInv, [Next]_vars, NEW f \in Fills, bought'[f] # bought[f]
      PROVE  status[f] = "HEDGING"
  <2> USE DEF vars, queueVars, workerVars, rowVars, exposureVars, processVars, historyVars
  <2>1. ASSUME UNCHANGED bought PROVE FALSE
    BY <1>1, <2>1
  <2>2. ASSUME NEW g \in Fills, NEW k \in Tradable(g, Size[g]),
               PlaceMarketOrder(g, k) \/ WalkBook(g, k)
        PROVE  status[f] = "HEDGING"
    <3>1. pc[g] \in {"order", "walk"} /\ f = g
      BY <1>1, <2>2 DEF IInv, TypeOK, PlaceMarketOrder, WalkBook, Trade
    <3> QED BY <1>1, <3>1 DEF IInv, StepMatchesRow
  <2> QED
    BY <1>1, <2>1, <2>2
    DEF Next, HandleStep, OnFill, RemoveFinished, ServerRecordsFill, Dequeue, UpsertFill,
        UpsertHedge, Completes, Leave, Goto, MarkHedging, BumpExposure, Settle, ReverseExposure,
        AttemptFails, MarkHedgeFailed, MaybePauseMarket, Stalled, Crash, Boot
<1>2. IInv /\ [Next]_vars =>
        [\A f \in Fills : bought'[f] # bought[f] => status[f] = "HEDGING"]_vars
  BY <1>1
<1> QED BY <1>2, Invariance, PTL DEF Spec, OrdersOnlyWhileHedging

(* A finished hedge is never reopened, and what was filled never changes.  *)
THEOREM TerminalStays == Spec => TerminalIsFinal
<1>1. ASSUME IInv, [Next]_vars, NEW f \in Fills, status[f] \in Terminal
      PROVE  status'[f] \in {status[f], "FAILED"} /\ filled'[f] = filled[f]
  <2> USE <1>1 DEF IInv, TypeOK, Terminal, Statuses
  <2>1. ASSUME status'[f] = status[f], filled'[f] = filled[f]
        PROVE  status'[f] \in {status[f], "FAILED"} /\ filled'[f] = filled[f]
    BY <2>1
  <2>2. ASSUME NEW g \in Fills, UpsertHedge(g) \/ MarkHedging(g) \/ Settle(g)
        PROVE  status'[f] = status[f] /\ filled'[f] = filled[f]
    BY <2>2 DEF UpsertHedge, MarkHedging, Settle, StepMatchesRow
  <2>3. ASSUME NEW g \in Fills, MarkHedgeFailed(g)
        PROVE  status'[f] \in {status[f], "FAILED"} /\ filled'[f] = filled[f]
    BY <2>3 DEF MarkHedgeFailed
  <2>4. ASSUME Boot
        PROVE  status'[f] = status[f] /\ filled'[f] = filled[f]
    BY <2>4 DEF Boot
  <2> QED
    BY <2>1, <2>2, <2>3, <2>4
    DEF Next, HandleStep, OnFill, RemoveFinished, ServerRecordsFill, Dequeue, UpsertFill,
        BumpExposure, PlaceMarketOrder, WalkBook, ReverseExposure, AttemptFails,
        MaybePauseMarket, Stalled, Crash, vars, rowVars
<1>2. IInv /\ [Next]_vars =>
        [\A f \in Fills : status[f] \in Terminal =>
            status'[f] \in {status[f], "FAILED"} /\ filled'[f] = filled[f]]_vars
  BY <1>1
<1> QED BY <1>2, Invariance, PTL DEF Spec, TerminalIsFinal

-----------------------------------------------------------------------------
(* The exposure                                                            *)

(* While nothing has interrupted a job (clean), its row tells how far it   *)
(* has come: a first attempt starts from no row or a finished one, a retry *)
(* from the HEDGING row of the attempt that failed after ordering.         *)
RowShape(f) ==
    /\ jobState[f] = "active" => pc[f] # "idle"
    /\ jobState[f] \in {"none", "completed"} => status[f] \in {"None"} \cup Terminal
    /\ pc[f] \in {"idle", "fill", "hedge"} /\ jobState[f] \in {"waiting", "active"} =>
          IF attempts[f] = 0 THEN status[f] \in {"None"} \cup Terminal ELSE status[f] = "HEDGING"
    /\ pc[f] = "mark" => status[f] = IF attempts[f] = 0 THEN "PENDING" ELSE "HEDGING"
    /\ jobState[f] = "failed" =>
          IF failure[f] = "event" THEN status[f] = "HEDGING" ELSE status[f] \in Terminal
    /\ pc[f] = "reverse" => filled[f] = got[f]

CleanShape == clean => up /\ \A f \in Fills : RowShape(f)

(* What a fill has added to its market's exposure so far.                  *)
Exposed(f) ==
    IF status[f] \in {"None", "PENDING"} \/ pc[f] = "bump" THEN 0
    ELSE SignedNotional(f, Size[f]) - (IF pc[f] = "reverse" THEN 0 ELSE SignedNotional(f, filled[f]))

FillsOf(m) == {f \in Fills : MarketOf[f] = m}

ExposureMatches ==
    clean => \A m \in Markets :
        unhedged[m] = SumFunctionOnSet([f \in Fills |-> Exposed(f)], FillsOf(m))

ExposureInv == IInv /\ CleanShape /\ ExposureMatches

LEMMA NotionalIsInt ==
    ASSUME NEW f \in Fills, NEW n \in Nat
    PROVE  SignedNotional(f, n) \in Int /\ SignedNotional(f, 0) = 0
<1>1. Price[f] * n \in Nat /\ Price[f] * 0 = 0
  BY HedgerAssumption
<1>2. \A k \in Nat : (k + 50) \div 100 \in Int
  OBVIOUS
<1>3. Notional(f, n) \in Int /\ Notional(f, 0) = 0
  BY <1>1, <1>2 DEF Notional
<1> QED BY <1>3 DEF SignedNotional

LEMMA ExposedIsInt ==
    TypeOK => \A f \in Fills : Exposed(f) \in Int
<1> SUFFICES ASSUME TypeOK, NEW f \in Fills PROVE Exposed(f) \in Int
  OBVIOUS
<1>1. filled[f] \in Nat /\ Size[f] \in Nat
  BY HedgerAssumption DEF TypeOK
<1> QED BY <1>1, NotionalIsInt DEF Exposed

(* A step that moves no exposure, or moves it by what one fill adds.       *)
LEMMA ExposureKept ==
    ASSUME ExposureMatches, clean' => clean, unhedged' = unhedged,
           clean' => \A f \in Fills : Exposed(f)' = Exposed(f)
    PROVE  ExposureMatches'
<1> SUFFICES ASSUME clean', NEW m \in Markets
             PROVE  unhedged'[m] = SumFunctionOnSet([f \in Fills |-> Exposed(f)'], FillsOf(m))
  BY DEF ExposureMatches, FillsOf
<1>1. [f \in Fills |-> Exposed(f)'] = [f \in Fills |-> Exposed(f)]
  OBVIOUS
<1> QED BY <1>1 DEF ExposureMatches

LEMMA ExposureMoves ==
    ASSUME TypeOK, TypeOK', ExposureMatches, clean, NEW f \in Fills, NEW d \in Int,
           unhedged' = [unhedged EXCEPT ![MarketOf[f]] = @ + d],
           Exposed(f)' = Exposed(f) + d,
           \A g \in Fills \ {f} : Exposed(g)' = Exposed(g)
    PROVE  ExposureMatches'
<1> SUFFICES ASSUME NEW m \in Markets
             PROVE  unhedged'[m] = SumFunctionOnSet([g \in Fills |-> Exposed(g)'], FillsOf(m))
  BY DEF ExposureMatches, FillsOf
<1> DEFINE before == [g \in Fills |-> Exposed(g)]
           after  == [g \in Fills |-> Exposed(g)']
<1>1. \A g \in Fills : Exposed(g) \in Int
  BY ExposedIsInt
<1>2. \A g \in Fills : Exposed(g)' \in Int
  BY <1>1
<1>3. FillsOf(m) \subseteq Fills /\ IsFiniteSet(FillsOf(m))
  BY FS_Subset, HedgerAssumption DEF FillsOf
<1>4. \A g \in FillsOf(m) : before[g] \in Int /\ after[g] \in Int
  BY <1>1, <1>2, <1>3
<1>5. unhedged[m] = SumFunctionOnSet(before, FillsOf(m))
  BY DEF ExposureMatches
<1>6. SumFunctionOnSet(before, FillsOf(m)) \in Int
  <2> HIDE DEF before, after
  <2> QED BY <1>3, <1>4, SumInt
<1>7. unhedged'[m] = IF m = MarketOf[f] THEN unhedged[m] + d ELSE unhedged[m]
  BY DEF TypeOK
<1>8. CASE f \in FillsOf(m)
  <2>1. m = MarketOf[f] /\ after[f] = before[f] + d /\ \A g \in FillsOf(m) \ {f} : after[g] = before[g]
    BY <1>3, <1>8 DEF FillsOf
  <2>2. before[f] \in Int
    BY <1>1
  <2> HIDE DEF before, after
  <2>3. SumFunctionOnSet(after, FillsOf(m)) = SumFunctionOnSet(before, FillsOf(m)) - before[f] + after[f]
    BY <1>3, <1>4, <1>8, <2>1, SumChange
  <2>4. SumFunctionOnSet(after, FillsOf(m)) = SumFunctionOnSet(before, FillsOf(m)) + d
    BY <1>6, <2>1, <2>2, <2>3
  <2> QED BY <1>5, <1>7, <2>1, <2>4 DEF after
<1>9. CASE f \notin FillsOf(m)
  <2>1. m # MarketOf[f] /\ \A g \in FillsOf(m) : after[g] = before[g]
    BY <1>3, <1>9 DEF FillsOf
  <2>2. SumFunctionOnSet(after, FillsOf(m)) = SumFunctionOnSet(before, FillsOf(m))
    <3> HIDE DEF before, after
    <3> QED BY <1>3, <2>1, SumSame
  <2> QED BY <1>5, <1>7, <2>1, <2>2 DEF after
<1> QED BY <1>8, <1>9

LEMMA InitExposure == Init => ExposureInv
<1> SUFFICES ASSUME Init PROVE ExposureInv
  OBVIOUS
<1>1. IInv
  BY InitialState
<1>2. CleanShape
  BY DEF Init, CleanShape, RowShape
<1>3. ExposureMatches
  <2> SUFFICES ASSUME NEW m \in Markets
               PROVE  unhedged[m] = SumFunctionOnSet([f \in Fills |-> Exposed(f)], FillsOf(m))
    BY DEF ExposureMatches
  <2>1. IsFiniteSet(FillsOf(m)) /\ FillsOf(m) \subseteq Fills
    BY FS_Subset, HedgerAssumption DEF FillsOf
  <2> DEFINE g == [f \in Fills |-> Exposed(f)]
  <2>2. \A f \in FillsOf(m) : g[f] = 0
    BY <2>1 DEF Init, Exposed
  <2>3. unhedged[m] = 0
    BY DEF Init
  <2> HIDE DEF g
  <2>4. SumFunctionOnSet(g, FillsOf(m)) = 0
    BY <2>1, <2>2, SumZero
  <2> QED BY <2>3, <2>4 DEF g
<1> QED BY <1>1, <1>2, <1>3 DEF ExposureInv

(* The shape of a clean history, one step per action.                      *)
LEMMA CleanShapeStep ==
    ASSUME IInv, CleanShape, [Next]_vars
    PROVE  CleanShape' /\ (clean' => clean)
<1> USE DEF IInv, vars, queueVars, workerVars, rowVars, exposureVars, processVars, historyVars, Terminal
<1>1. ASSUME NEW f \in Fills, OnFill(f) PROVE CleanShape' /\ (clean' => clean)
  BY <1>1 DEF OnFill, TypeOK, StepMatchesRow, CallbackAlone, CompletedIsTerminal, CleanShape,
     RowShape
<1>2. ASSUME NEW f \in Fills, RemoveFinished(f) PROVE CleanShape' /\ (clean' => clean)
  BY <1>2 DEF RemoveFinished, TypeOK, StepMatchesRow, CallbackAlone, CompletedIsTerminal,
     CleanShape, RowShape
<1>3. ASSUME NEW f \in Fills, ServerRecordsFill(f) PROVE CleanShape' /\ (clean' => clean)
  BY <1>3 DEF ServerRecordsFill, TypeOK, StepMatchesRow, CallbackAlone, CompletedIsTerminal,
     CleanShape, RowShape
<1>4. ASSUME NEW f \in Fills, Dequeue(f) PROVE CleanShape' /\ (clean' => clean)
  BY <1>4 DEF Dequeue, Goto, TypeOK, StepMatchesRow, CallbackAlone, CompletedIsTerminal,
     CleanShape, RowShape
<1>5. ASSUME NEW f \in Fills, UpsertFill(f) PROVE CleanShape' /\ (clean' => clean)
  BY <1>5 DEF UpsertFill, Goto, TypeOK, StepMatchesRow, CallbackAlone, CompletedIsTerminal,
     CleanShape, RowShape
<1>6. ASSUME NEW f \in Fills, UpsertHedge(f) PROVE CleanShape' /\ (clean' => clean)
  BY <1>6 DEF UpsertHedge, Goto, Completes, Leave, TypeOK, StepMatchesRow, CallbackAlone,
     CompletedIsTerminal, CleanShape, RowShape
<1>7. ASSUME NEW f \in Fills, MarkHedging(f) PROVE CleanShape' /\ (clean' => clean)
  BY <1>7 DEF MarkHedging, Goto, TypeOK, StepMatchesRow, CallbackAlone, CompletedIsTerminal,
     CleanShape, RowShape
<1>8. ASSUME NEW f \in Fills, BumpExposure(f) PROVE CleanShape' /\ (clean' => clean)
  BY <1>8 DEF BumpExposure, Goto, ApplySignedDelta, TypeOK, StepMatchesRow, CallbackAlone,
     CompletedIsTerminal, CleanShape, RowShape
<1>9. ASSUME NEW f \in Fills, NEW k \in Tradable(f, Size[f]), PlaceMarketOrder(f, k)
      PROVE  CleanShape' /\ (clean' => clean)
  BY <1>9 DEF PlaceMarketOrder, Goto, Trade, TypeOK, StepMatchesRow, CallbackAlone,
     CompletedIsTerminal, CleanShape, RowShape
<1>10. ASSUME NEW f \in Fills, NEW k \in Tradable(f, Size[f]), WalkBook(f, k)
       PROVE  CleanShape' /\ (clean' => clean)
  BY <1>10 DEF WalkBook, Goto, Trade, TypeOK, StepMatchesRow, CallbackAlone, CompletedIsTerminal,
     CleanShape, RowShape
<1>11. ASSUME NEW f \in Fills, Settle(f) PROVE CleanShape' /\ (clean' => clean)
  BY <1>11 DEF Settle, Goto, TypeOK, StepMatchesRow, CallbackAlone, CompletedIsTerminal,
     CleanShape, RowShape
<1>12. ASSUME NEW f \in Fills, ReverseExposure(f) PROVE CleanShape' /\ (clean' => clean)
  BY <1>12 DEF ReverseExposure, Goto, Completes, Leave, TypeOK, StepMatchesRow, CallbackAlone,
     CompletedIsTerminal, CleanShape, RowShape
<1>13. ASSUME NEW f \in Fills, AttemptFails(f) PROVE CleanShape' /\ (clean' => clean)
  <2>1. clean' => clean /\ pc[f] \in {"order", "walk", "settle"}
    BY <1>13 DEF AttemptFails, TypeOK
  <2> SUFFICES ASSUME clean' PROVE up' /\ \A g \in Fills : RowShape(g)'
    BY <2>1 DEF CleanShape
  <2>2. up /\ (\A g \in Fills : RowShape(g)) /\ up' = up
    BY <1>13, <2>1 DEF CleanShape, AttemptFails
  <2>3. RowShape(f)'
    <3>1. status[f] = "HEDGING" /\ status' = status /\ pc'[f] = "idle"
      BY <1>13, <2>1 DEF AttemptFails, Leave, Goto, StepMatchesRow, TypeOK
    <3>2. \/ jobState'[f] = "waiting"
          \/ jobState'[f] = "failed" /\ failure'[f] = "event"
      BY <1>13 DEF AttemptFails, FailsForGood, TypeOK
    <3>3. attempts'[f] # 0
      BY <1>13 DEF AttemptFails, TypeOK
    <3> QED BY <3>1, <3>2, <3>3 DEF RowShape
  <2>4. ASSUME NEW g \in Fills, g # f PROVE RowShape(g)'
    <3>1. /\ status' = status /\ filled' = filled
          /\ pc'[g] = pc[g] /\ got'[g] = got[g] /\ attempts'[g] = attempts[g]
          /\ jobState'[g] = jobState[g] /\ failure'[g] = failure[g]
      BY <1>13, <2>4 DEF AttemptFails, FailsForGood, Leave, Goto, TypeOK
    <3> QED BY <2>2, <3>1 DEF RowShape
  <2> QED BY <2>2, <2>3, <2>4
<1>14. ASSUME NEW f \in Fills, MarkHedgeFailed(f) PROVE CleanShape' /\ (clean' => clean)
  BY <1>14 DEF MarkHedgeFailed, TypeOK, StepMatchesRow, CallbackAlone, CompletedIsTerminal,
     CleanShape, RowShape
<1>15. ASSUME NEW f \in Fills, MaybePauseMarket(f) PROVE CleanShape' /\ (clean' => clean)
  BY <1>15 DEF MaybePauseMarket, TypeOK, StepMatchesRow, CallbackAlone, CompletedIsTerminal,
     CleanShape, RowShape
<1>16. ASSUME NEW f \in Fills, Stalled(f) PROVE CleanShape' /\ (clean' => clean)
  BY <1>16 DEF Stalled, FailsForGood, TypeOK, StepMatchesRow, CallbackAlone, CompletedIsTerminal,
     CleanShape, RowShape
<1>17. CASE Crash \/ Boot
  BY <1>17 DEF Crash, Boot, CleanShape
<1>18. CASE UNCHANGED vars
  BY <1>18 DEF CleanShape, RowShape
<1> HIDE DEF IInv
<1> QED
  BY <1>1, <1>2, <1>3, <1>4, <1>5, <1>6, <1>7, <1>8, <1>9, <1>10, <1>11, <1>12, <1>13, <1>14, <1>15,
     <1>16, <1>17, <1>18 DEF Next, HandleStep

(* BumpExposure and ReverseExposure move the exposure by what the fill     *)
(* adds then; no other step moves either.                                  *)
LEMMA ExposureStep ==
    ASSUME IInv, TypeOK', CleanShape, ExposureMatches, [Next]_vars, clean' => clean
    PROVE  ExposureMatches'
<1> USE DEF vars, queueVars, workerVars, rowVars, exposureVars, processVars, historyVars, Terminal
<1>1. ASSUME NEW f \in Fills, BumpExposure(f) PROVE ExposureMatches'
  <2> SUFFICES ASSUME clean' PROVE ExposureMatches'
    BY DEF ExposureMatches
  <2> DEFINE d == SignedNotional(f, Size[f])
  <2>1. /\ pc[f] = "bump" /\ pc' = [pc EXCEPT ![f] = "order"] /\ UNCHANGED <<status, filled>>
        /\ unhedged' = [unhedged EXCEPT ![MarketOf[f]] = @ + d]
    BY <1>1 DEF BumpExposure, ApplySignedDelta, Goto
  <2>2. status[f] = "HEDGING" /\ filled[f] = 0
    BY <2>1 DEF IInv, StepMatchesRow
  <2>3. d \in Int /\ SignedNotional(f, 0) = 0
    BY NotionalIsInt, HedgerAssumption
  <2>4. Exposed(f)' = Exposed(f) + d
    <3>1. Exposed(f) = 0
      BY <2>1 DEF Exposed
    <3>2. pc'[f] = "order" /\ status'[f] = "HEDGING" /\ filled'[f] = 0
      BY <2>1, <2>2 DEF IInv, TypeOK
    <3>3. Exposed(f)' = d - 0
      BY <2>3, <3>2 DEF Exposed, SignedNotional, Notional
    <3> HIDE DEF d
    <3> QED BY <2>3, <3>1, <3>3
  <2>5. \A g \in Fills \ {f} : Exposed(g)' = Exposed(g)
    BY <2>1 DEF IInv, TypeOK, Exposed, SignedNotional, Notional
  <2> HIDE DEF d
  <2> QED BY <2>1, <2>3, <2>4, <2>5, ExposureMoves DEF IInv
<1>2. ASSUME NEW f \in Fills, ReverseExposure(f) PROVE ExposureMatches'
  <2> SUFFICES ASSUME clean' PROVE ExposureMatches'
    BY DEF ExposureMatches
  <2> DEFINE d == 0 - SignedNotional(f, got[f])
  <2>1. /\ pc[f] = "reverse" /\ pc' = [pc EXCEPT ![f] = "idle"] /\ UNCHANGED <<status, filled>>
        /\ status[f] \in Terminal /\ filled[f] = got[f] /\ got[f] \in Nat
    BY <1>2 DEF ReverseExposure, Completes, Leave, Goto, IInv, TypeOK, StepMatchesRow, CleanShape,
                RowShape
  <2>2. d \in Int /\ SignedNotional(f, got[f]) \in Int /\ SignedNotional(f, Size[f]) \in Int
    BY <2>1, NotionalIsInt, HedgerAssumption
  <2>3. Exposed(f)' = Exposed(f) + d
    <3>1. Exposed(f) = SignedNotional(f, Size[f]) - 0
      BY <2>1 DEF Exposed
    <3>2. pc'[f] = "idle" /\ status'[f] \in Terminal /\ filled'[f] = got[f]
      BY <2>1 DEF IInv, TypeOK
    <3>3. Exposed(f)' = SignedNotional(f, Size[f]) - SignedNotional(f, got[f])
      BY <3>2 DEF Exposed, SignedNotional, Notional
    <3> QED BY <2>2, <3>1, <3>3
  <2>4. \A g \in Fills \ {f} : Exposed(g)' = Exposed(g)
    BY <2>1 DEF IInv, TypeOK, Exposed, SignedNotional, Notional
  <2>5. CASE got[f] > 0
    <3>1. unhedged' = [unhedged EXCEPT ![MarketOf[f]] = @ + d]
      <4>1. -SignedNotional(f, got[f]) = d
        BY <2>2
      <4> QED BY <1>2, <2>5, <4>1 DEF ReverseExposure, ApplySignedDelta
    <3> HIDE DEF d
    <3> QED BY <2>2, <2>3, <2>4, <3>1, ExposureMoves DEF IInv
  <2>6. CASE got[f] = 0
    <3>1. d = 0 /\ Exposed(f) \in Int
      BY <2>6, NotionalIsInt, ExposedIsInt DEF IInv
    <3>2. Exposed(f)' = Exposed(f)
      BY <2>3, <3>1
    <3>3. unhedged' = unhedged
      BY <1>2, <2>6 DEF ReverseExposure
    <3> QED BY <2>4, <3>2, <3>3, ExposureKept
  <2> QED BY <2>1, <2>5, <2>6
<1>3. ASSUME NEW f \in Fills, Settle(f) PROVE ExposureMatches'
  <2>1. /\ pc[f] = "settle" /\ pc' = [pc EXCEPT ![f] = "reverse"]
        /\ status' = [status EXCEPT ![f] = IF got[f] >= Size[f] THEN "FILLED" ELSE "PARTIAL"]
        /\ filled' = [filled EXCEPT ![f] = got[f]] /\ unhedged' = unhedged
    BY <1>3 DEF Settle, Goto
  <2>2. status[f] = "HEDGING" /\ filled[f] = 0
    BY <2>1 DEF IInv, StepMatchesRow
  <2>3. Exposed(f)' = Exposed(f)
    <3>1. Exposed(f) = SignedNotional(f, Size[f]) - 0
      BY <2>1, <2>2, NotionalIsInt DEF Exposed
    <3>2. pc'[f] = "reverse" /\ status'[f] \in Terminal
      BY <2>1 DEF IInv, TypeOK
    <3>3. Exposed(f)' = SignedNotional(f, Size[f]) - 0
      BY <3>2 DEF Exposed, SignedNotional, Notional
    <3> QED BY <3>1, <3>3
  <2>4. \A g \in Fills \ {f} : Exposed(g)' = Exposed(g)
    BY <2>1 DEF IInv, TypeOK, Exposed, SignedNotional, Notional
  <2> QED BY <2>1, <2>3, <2>4, ExposureKept
<1>4. ASSUME unhedged' = unhedged, filled' = filled,
             clean' => \A f \in Fills :
                 /\ status'[f] \in {"None", "PENDING"} \/ pc'[f] = "bump" <=>
                    status[f] \in {"None", "PENDING"} \/ pc[f] = "bump"
                 /\ pc'[f] = "reverse" <=> pc[f] = "reverse"
      PROVE  ExposureMatches'
  <2>1. clean' => \A f \in Fills : Exposed(f)' = Exposed(f)
    BY <1>4 DEF Exposed, SignedNotional, Notional
  <2> QED BY <1>4, <2>1, ExposureKept
<1>5. ASSUME NEW f \in Fills,
             \/ OnFill(f) \/ RemoveFinished(f) \/ ServerRecordsFill(f) \/ Dequeue(f) \/ UpsertFill(f)
             \/ MaybePauseMarket(f) \/ Stalled(f)
             \/ \E k \in Tradable(f, Size[f]) : PlaceMarketOrder(f, k) \/ WalkBook(f, k)
      PROVE  ExposureMatches'
  <2>1. /\ UNCHANGED <<unhedged, filled, status>>
        /\ \A g \in Fills : /\ pc'[g] = "bump" <=> pc[g] = "bump"
                            /\ pc'[g] = "reverse" <=> pc[g] = "reverse"
    BY <1>5 DEF OnFill, RemoveFinished, ServerRecordsFill, Dequeue, UpsertFill, MaybePauseMarket,
                Stalled, PlaceMarketOrder, WalkBook, Trade, Goto, IInv, TypeOK, StepMatchesRow
  <2> QED BY <1>4, <2>1
<1>6. ASSUME NEW f \in Fills, UpsertHedge(f) PROVE ExposureMatches'
  BY <1>4, <1>6 DEF UpsertHedge, Completes, Leave, Goto, IInv, TypeOK
<1>7. ASSUME NEW f \in Fills, MarkHedging(f) PROVE ExposureMatches'
  BY <1>4, <1>7 DEF MarkHedging, Goto, IInv, TypeOK, CleanShape, RowShape
<1>8. ASSUME NEW f \in Fills, AttemptFails(f) PROVE ExposureMatches'
  BY <1>4, <1>8 DEF AttemptFails, Leave, Goto, IInv, TypeOK
<1>9. ASSUME NEW f \in Fills, MarkHedgeFailed(f) PROVE ExposureMatches'
  BY <1>4, <1>9 DEF MarkHedgeFailed, IInv, TypeOK, CallbackAlone, CleanShape, RowShape
<1>10. CASE Crash \/ Boot
  BY <1>10 DEF Crash, Boot, CleanShape, ExposureMatches
<1>11. CASE UNCHANGED vars
  BY <1>4, <1>11
<1> QED
  BY <1>1, <1>2, <1>3, <1>5, <1>6, <1>7, <1>8, <1>9, <1>10, <1>11 DEF Next, HandleStep

LEMMA ExposureInductive == ExposureInv /\ [Next]_vars => ExposureInv'
<1> SUFFICES ASSUME ExposureInv, [Next]_vars PROVE ExposureInv'
  OBVIOUS
<1>1. IInv'
  BY InductiveStep DEF ExposureInv
<1>2. CleanShape' /\ (clean' => clean)
  BY CleanShapeStep DEF ExposureInv
<1>3. TypeOK'
  BY <1>1 DEF IInv
<1>4. ExposureMatches'
  BY <1>2, <1>3, ExposureStep DEF ExposureInv
<1> QED BY <1>1, <1>2, <1>4 DEF ExposureInv

(* Once its jobs have ended, a market's exposure is what its fills left    *)
(* unhedged, for any number of fills, retries and concurrent jobs.         *)
THEOREM ExposureSound == Spec => []ExposureSettles
<1>1. ExposureInv => ExposureSettles
  <2> SUFFICES ASSUME ExposureInv, clean,
                      \A f \in Fills : jobState[f] \notin {"waiting", "active"},
                      NEW m \in Markets
               PROVE  unhedged[m] =
                        SumFunctionOnSet(
                          [f \in Fills |-> SignedNotional(f, Size[f]) - SignedNotional(f, filled[f])],
                          {f \in Fills : MarketOf[f] = m /\ status[f] # "None"})
    BY DEF ExposureSettles
  <2> DEFINE left == [f \in Fills |-> SignedNotional(f, Size[f]) - SignedNotional(f, filled[f])]
             added == [f \in Fills |-> Exposed(f)]
             open == {f \in Fills : MarketOf[f] = m /\ status[f] # "None"}
  <2>1. FillsOf(m) \subseteq Fills /\ IsFiniteSet(FillsOf(m)) /\ open \subseteq FillsOf(m)
    BY FS_Subset, HedgerAssumption DEF FillsOf
  <2>2. ASSUME NEW f \in Fills
        PROVE  pc[f] = "idle" /\ status[f] # "PENDING"
    BY DEF ExposureInv, IInv, TypeOK, JobStates, StepMatchesRow, CleanShape, RowShape, Terminal
  <2>3. \A f \in open : added[f] = left[f]
    BY <2>2 DEF Exposed
  <2>4. \A f \in FillsOf(m) \ open : added[f] = 0
    BY DEF FillsOf, Exposed
  <2>5. \A f \in FillsOf(m) : added[f] \in Int
    BY <2>1, ExposedIsInt DEF ExposureInv, IInv
  <2>6. unhedged[m] = SumFunctionOnSet(added, FillsOf(m))
    BY DEF ExposureInv, ExposureMatches
  <2> HIDE DEF left, added, open
  <2>7. SumFunctionOnSet(added, FillsOf(m)) = SumFunctionOnSet(added, open)
    BY <2>1, <2>4, <2>5, SumOnPart
  <2>8. SumFunctionOnSet(added, open) = SumFunctionOnSet(left, open)
    BY <2>1, <2>3, FS_Subset, SumSame
  <2> QED BY <2>6, <2>7, <2>8 DEF left, open
<1> QED BY <1>1, InitExposure, ExposureInductive, PTL DEF Spec
=============================================================================
