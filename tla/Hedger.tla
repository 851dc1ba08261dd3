------------------------------- MODULE Hedger -------------------------------
(***************************************************************************)
(* apps/hedger/hedger: one BullMQ job per on-chain fill, a worker that     *)
(* turns the job into Polymarket orders, the permanent-failure callback    *)
(* and the recovery that runs on every boot.                               *)
(*                                                                         *)
(* The worker handles a job in steps, one per await of                     *)
(* HedgeProcessor.handle, so that jobs interleave, any step may throw and  *)
(* the process may stop between any two.  Postgres, Redis and Polymarket   *)
(* keep their state across a crash; BullMQ and Polymarket are external and *)
(* are modelled as the hedger uses them.                                   *)
(***************************************************************************)
EXTENDS Integers, FiniteSets, Functions

CONSTANTS
    Fills,          \* fills, each known by its nonce: the job id
    Markets,
    MarketOf,       \* per fill: its market
    Side,           \* per fill: "BUY" or "SELL"
    Size,           \* per fill: shares
    Price,          \* per fill: cents
    Improvement,    \* shares by which a BUY, sent as a dollar amount, may overfill
    WalkSteps,      \* HEDGER_SLIPPAGE_LIMIT_CENTS + 1
    MaxAttempts,    \* HEDGER_JOB_ATTEMPTS
    MaxStalled,     \* BullMQ's maxStalledCount
    Concurrency,    \* HEDGER_WORKER_CONCURRENCY
    ServerFills,    \* fills traded through the server, which records them too
    MaxForgotten,   \* bound on the number of finished jobs BullMQ removes
    MaxCrashes      \* bound on the number of crashes

ASSUME HedgerAssumption ==
    /\ IsFiniteSet(Fills)
    /\ MarketOf \in [Fills -> Markets]
    /\ Side \in [Fills -> {"BUY", "SELL"}]
    /\ Size \in [Fills -> Nat \ {0}]
    /\ Price \in [Fills -> Nat]
    /\ Improvement \in Nat
    /\ WalkSteps \in Nat \ {0}
    /\ MaxAttempts \in Nat \ {0}
    /\ MaxStalled \in Nat
    /\ Concurrency \in Nat
    /\ ServerFills \subseteq Fills
    /\ MaxForgotten \in Nat
    /\ MaxCrashes \in Nat

VARIABLES
    jobState,   \* BullMQ: the state of the fill's job
    attempts,   \* BullMQ: attemptsMade, which counts failures and not stalls
    stalls,     \* BullMQ: stalledCounter
    pc,         \* the worker's next step in handling the job
    got,        \* shares the current execution has traded
    step,       \* walk-book orders the current execution has placed
    fillRow,    \* fills with a row in the Fill table
    status,     \* Hedge.status, "None" when there is no row
    filled,     \* Hedge.filledSize
    unhedged,   \* Exposure.unhedgedUsd
    exposureRow, \* markets with a row in the Exposure table
    paused,     \* markets paused by the auto-pause: on chain, and in Exposure
    failure,    \* progress of the permanent-failure callback of a job
    bought,     \* what Polymarket really traded for the fill
    up,         \* whether the process runs
    crashes,    \* crashes so far
    forgotten,  \* finished jobs removed so far
    unrecorded, \* history: shares traded by executions that never recorded them
    clean       \* history: nothing happened that the exposure does not survive

queueVars    == <<jobState, attempts, stalls>>
workerVars   == <<pc, got, step>>
rowVars      == <<fillRow, status, filled>>
exposureVars == <<unhedged, exposureRow>>
processVars  == <<up, crashes, forgotten>>
historyVars  == <<unrecorded, clean>>
vars == <<queueVars, workerVars, rowVars, exposureVars, paused, failure, bought,
          processVars, historyVars>>

JobStates == {"none", "waiting", "active", "completed", "failed"}
Steps     == {"idle", "fill", "hedge", "mark", "bump", "order", "walk", "settle", "reverse"}
Terminal  == {"FILLED", "PARTIAL", "FAILED"}
Statuses  == {"None", "PENDING", "HEDGING"} \cup Terminal

(* Math.round(cents * shares / 100), signed by the direction of the trade. *)
Notional(f, shares)       == (Price[f] * shares + 50) \div 100
SignedNotional(f, shares) == IF Side[f] = "BUY" THEN Notional(f, shares) ELSE -Notional(f, shares)

Init ==
    /\ jobState = [f \in Fills |-> "none"]
    /\ attempts = [f \in Fills |-> 0]
    /\ stalls = [f \in Fills |-> 0]
    /\ pc = [f \in Fills |-> "idle"]
    /\ got = [f \in Fills |-> 0]
    /\ step = [f \in Fills |-> 0]
    /\ fillRow = {}
    /\ status = [f \in Fills |-> "None"]
    /\ filled = [f \in Fills |-> 0]
    /\ unhedged = [m \in Markets |-> 0]
    /\ exposureRow = {}
    /\ paused = [chain |-> {}, row |-> {}]
    /\ failure = [f \in Fills |-> "none"]
    /\ bought = [f \in Fills |-> 0]
    /\ up = TRUE
    /\ crashes = 0
    /\ forgotten = 0
    /\ unrecorded = [f \in Fills |-> 0]
    /\ clean = TRUE

-----------------------------------------------------------------------------
(* The producer, fed at least once per fill by listener and poller.        *)
OnFill(f) ==
    /\ up
    /\ jobState[f] = "none"
    /\ jobState' = [jobState EXCEPT ![f] = "waiting"]
    /\ attempts' = [attempts EXCEPT ![f] = 0]
    /\ stalls' = [stalls EXCEPT ![f] = 0]
    /\ UNCHANGED <<workerVars, rowVars, exposureVars, paused, failure, bought, processVars, historyVars>>

(* BullMQ forgets finished jobs (removeOnComplete, removeOnFail): days     *)
(* later, so never before the failure callback has seen the event.         *)
RemoveFinished(f) ==
    /\ forgotten < MaxForgotten
    /\ forgotten' = forgotten + 1
    /\ jobState[f] \in {"completed", "failed"}
    /\ failure[f] = "none"
    /\ jobState' = [jobState EXCEPT ![f] = "none"]
    /\ UNCHANGED <<attempts, stalls, up, crashes>>
    /\ UNCHANGED <<workerVars, rowVars, exposureVars, paused, failure, bought, historyVars>>

(* The trade path of the server writes the Fill row when it sees the       *)
(* transaction confirmed, before or after the hedger does.                 *)
ServerRecordsFill(f) ==
    /\ f \in ServerFills \ fillRow
    /\ fillRow' = fillRow \cup {f}
    /\ UNCHANGED <<status, filled>>
    /\ UNCHANGED <<queueVars, workerVars, exposureVars, paused, failure, bought, processVars, historyVars>>

Active == {f \in Fills : pc[f] # "idle"}

Dequeue(f) ==
    /\ up
    /\ jobState[f] = "waiting"
    /\ Cardinality(Active) < Concurrency
    /\ jobState' = [jobState EXCEPT ![f] = "active"]
    /\ pc' = [pc EXCEPT ![f] = "fill"]
    /\ UNCHANGED <<attempts, stalls, got, step>>
    /\ UNCHANGED <<rowVars, exposureVars, paused, failure, bought, processVars, historyVars>>

-----------------------------------------------------------------------------
(* HedgeProcessor.handle                                                   *)
Goto(f, next) == pc' = [pc EXCEPT ![f] = next]

Leave(f) ==
    /\ Goto(f, "idle")
    /\ got' = [got EXCEPT ![f] = 0]
    /\ step' = [step EXCEPT ![f] = 0]

Completes(f) ==
    /\ Leave(f)
    /\ jobState' = [jobState EXCEPT ![f] = "completed"]
    /\ UNCHANGED <<attempts, stalls>>

UpsertFill(f) ==
    /\ pc[f] = "fill"
    /\ fillRow' = fillRow \cup {f}
    /\ Goto(f, "hedge")
    /\ UNCHANGED <<got, step, status, filled>>
    /\ UNCHANGED <<queueVars, exposureVars, paused, failure, bought, processVars, historyVars>>

(* Mutant of UpsertHedge: no short-circuit on a terminal hedge.            *)
UpsertHedgeUnchecked(f) ==
    /\ pc[f] = "hedge"
    /\ status' = [status EXCEPT ![f] = IF @ = "None" THEN "PENDING" ELSE @]
    /\ Goto(f, "mark")
    /\ UNCHANGED <<queueVars, got, step, fillRow, filled>>
    /\ UNCHANGED <<exposureVars, paused, failure, bought, processVars, historyVars>>

UpsertHedge(f) ==
    /\ pc[f] = "hedge"
    /\ status' = [status EXCEPT ![f] = IF @ = "None" THEN "PENDING" ELSE @]
    /\ IF status[f] \in Terminal
       THEN Completes(f)
       ELSE Goto(f, "mark") /\ UNCHANGED <<queueVars, got, step>>
    /\ UNCHANGED <<fillRow, filled>>
    /\ UNCHANGED <<exposureVars, paused, failure, bought, processVars, historyVars>>

(* Mutants of MarkHedging: the row is marked on the first attempt only; a  *)
(* retry bumps the exposure again.                                         *)
MarkHedgingOnce(f) ==
    /\ pc[f] = "mark"
    /\ status' = [status EXCEPT ![f] = IF attempts[f] = 0 THEN "HEDGING" ELSE @]
    /\ Goto(f, IF attempts[f] = 0 THEN "bump" ELSE "order")
    /\ UNCHANGED <<got, step, fillRow, filled>>
    /\ UNCHANGED <<queueVars, exposureVars, paused, failure, bought, processVars, historyVars>>

MarkHedgingAndBump(f) ==
    /\ pc[f] = "mark"
    /\ status' = [status EXCEPT ![f] = "HEDGING"]
    /\ Goto(f, "bump")
    /\ UNCHANGED <<got, step, fillRow, filled>>
    /\ UNCHANGED <<queueVars, exposureVars, paused, failure, bought, processVars, historyVars>>

MarkHedging(f) ==
    /\ pc[f] = "mark"
    /\ status' = [status EXCEPT ![f] = "HEDGING"]
    /\ Goto(f, IF attempts[f] = 0 THEN "bump" ELSE "order")
    /\ UNCHANGED <<got, step, fillRow, filled>>
    /\ UNCHANGED <<queueVars, exposureVars, paused, failure, bought, processVars, historyVars>>

ApplySignedDelta(m, delta) ==
    /\ unhedged' = [unhedged EXCEPT ![m] = @ + delta]
    /\ exposureRow' = exposureRow \cup {m}

BumpExposure(f) ==
    /\ pc[f] = "bump"
    /\ ApplySignedDelta(MarketOf[f], SignedNotional(f, Size[f]))
    /\ Goto(f, "order")
    /\ UNCHANGED <<got, step>>
    /\ UNCHANGED <<queueVars, rowVars, paused, failure, bought, processVars, historyVars>>

(* What an order for n shares may trade: any part of them, and for a BUY,  *)
(* whose amount is in dollars, more when the price is better than the cap. *)
Tradable(f, n) == 0 .. (n + (IF Side[f] = "BUY" THEN Improvement ELSE 0))

Trade(f, k) ==
    /\ bought' = [bought EXCEPT ![f] = @ + k]
    /\ got' = [got EXCEPT ![f] = @ + k]

PlaceMarketOrder(f, k) ==
    /\ pc[f] = "order"
    /\ k \in Tradable(f, Size[f])
    /\ Trade(f, k)
    /\ Goto(f, IF k >= Size[f] THEN "settle" ELSE "walk")
    /\ UNCHANGED step
    /\ UNCHANGED <<queueVars, rowVars, exposureVars, paused, failure, processVars, historyVars>>

(* Mutant of WalkBook: each step orders the whole size, not the remainder. *)
WalkBookWhole(f, k) ==
    /\ pc[f] = "walk"
    /\ k \in Tradable(f, Size[f])
    /\ Trade(f, k)
    /\ step' = [step EXCEPT ![f] = @ + 1]
    /\ Goto(f, IF k >= Size[f] \/ k = 0 \/ step[f] + 1 >= WalkSteps THEN "settle" ELSE "walk")
    /\ UNCHANGED <<queueVars, rowVars, exposureVars, paused, failure, processVars, historyVars>>

WalkBook(f, k) ==
    LET remaining == Size[f] - got[f]
    IN  /\ pc[f] = "walk"
        /\ k \in Tradable(f, remaining)
        /\ Trade(f, k)
        /\ step' = [step EXCEPT ![f] = @ + 1]
        /\ Goto(f, IF k >= remaining \/ k = 0 \/ step[f] + 1 >= WalkSteps
                   THEN "settle" ELSE "walk")
        /\ UNCHANGED <<queueVars, rowVars, exposureVars, paused, failure, processVars, historyVars>>

(* Mutant of Settle: an execution that traded nothing leaves the row open. *)
SettleIfTraded(f) ==
    /\ pc[f] = "settle"
    /\ status' = [status EXCEPT ![f] =
           IF got[f] >= Size[f] THEN "FILLED" ELSE IF got[f] > 0 THEN "PARTIAL" ELSE @]
    /\ filled' = [filled EXCEPT ![f] = got[f]]
    /\ Goto(f, "reverse")
    /\ UNCHANGED <<got, step, fillRow>>
    /\ UNCHANGED <<queueVars, exposureVars, paused, failure, bought, processVars, historyVars>>

(* mark_filled, or mark_partial when the walk left shares unfilled.        *)
Settle(f) ==
    /\ pc[f] = "settle"
    /\ status' = [status EXCEPT ![f] = IF got[f] >= Size[f] THEN "FILLED" ELSE "PARTIAL"]
    /\ filled' = [filled EXCEPT ![f] = got[f]]
    /\ Goto(f, "reverse")
    /\ UNCHANGED <<got, step, fillRow>>
    /\ UNCHANGED <<queueVars, exposureVars, paused, failure, bought, processVars, historyVars>>

ReverseExposure(f) ==
    /\ pc[f] = "reverse"
    /\ IF got[f] > 0
       THEN ApplySignedDelta(MarketOf[f], -SignedNotional(f, got[f]))
       ELSE UNCHANGED exposureVars
    /\ Completes(f)
    /\ UNCHANGED <<rowVars, paused, failure, bought, processVars, historyVars>>

(* Shares traded by the current execution and not yet in the Hedge row.    *)
InFlight(f) == IF pc[f] \in {"walk", "settle"} THEN got[f] ELSE 0

(* BullMQ declares the job failed and the QueueEvents listener is told.    *)
FailsForGood(f) ==
    /\ jobState' = [jobState EXCEPT ![f] = "failed"]
    /\ failure' = [failure EXCEPT ![f] = "event"]

(* Any await of the handler throws: a lookup that finds no user or market, *)
(* a database error, the book fetch, or an order whose answer is lost.  An *)
(* order that Polymarket refuses for good (classify_order_error) is not    *)
(* tried again, whatever attempts are left.                                *)
AttemptFails(f) ==
    /\ pc[f] # "idle"
    /\ attempts' = [attempts EXCEPT ![f] = @ + 1]
    /\ \/ /\ attempts[f] + 1 >= MaxAttempts \/ pc[f] \in {"order", "walk"}
          /\ FailsForGood(f)
       \/ /\ attempts[f] + 1 < MaxAttempts
          /\ jobState' = [jobState EXCEPT ![f] = "waiting"]
          /\ UNCHANGED failure
    /\ Leave(f)
    /\ unrecorded' = [unrecorded EXCEPT ![f] = @ + InFlight(f)]
    /\ clean' = (clean /\ pc[f] \in {"order", "walk", "settle"})
    /\ UNCHANGED stalls
    /\ UNCHANGED <<rowVars, exposureVars, paused, bought, processVars>>

-----------------------------------------------------------------------------
(* on_permanent_failure; both halves swallow their errors.                 *)
MarkHedgeFailed(f) ==
    /\ up
    /\ failure[f] = "event"
    /\ failure' = [failure EXCEPT ![f] = "pause"]
    /\ \/ /\ status' = [status EXCEPT ![f] = IF @ = "None" THEN @ ELSE "FAILED"]
          /\ UNCHANGED clean
       \/ /\ UNCHANGED status
          /\ clean' = FALSE
    /\ UNCHANGED <<fillRow, filled, unrecorded>>
    /\ UNCHANGED <<queueVars, workerVars, exposureVars, paused, bought, processVars>>

(* Pauses the market on chain, then in its Exposure row; nothing is done   *)
(* without an admin key or a Hedge row to find the market by.              *)
MaybePauseMarket(f) ==
    LET m == MarketOf[f]
    IN  /\ up
        /\ failure[f] = "pause"
        /\ failure' = [failure EXCEPT ![f] = "none"]
        /\ \/ UNCHANGED <<paused, exposureRow>>
           \/ /\ status[f] # "None"
              /\ paused' = [paused EXCEPT !.chain = @ \cup {m}]
              /\ UNCHANGED exposureRow
           \/ /\ status[f] # "None"
              /\ paused' = [chain |-> paused.chain \cup {m}, row |-> paused.row \cup {m}]
              /\ exposureRow' = exposureRow \cup {m}
        /\ UNCHANGED unhedged
        /\ UNCHANGED <<queueVars, workerVars, rowVars, bought, processVars, historyVars>>

-----------------------------------------------------------------------------
(* A crash, or the forced close of the worker on shutdown.  QueueEvents    *)
(* only delivers what is emitted while it listens.                         *)
Crash ==
    /\ up
    /\ crashes < MaxCrashes
    /\ up' = FALSE
    /\ crashes' = crashes + 1
    /\ UNCHANGED forgotten
    /\ pc' = [f \in Fills |-> "idle"]
    /\ got' = [f \in Fills |-> 0]
    /\ step' = [f \in Fills |-> 0]
    /\ failure' = [f \in Fills |-> "none"]
    /\ unrecorded' = [f \in Fills |-> unrecorded[f] + InFlight(f)]
    /\ clean' = FALSE
    /\ UNCHANGED <<queueVars, rowVars, exposureVars, paused, bought>>

ExpectedExposure(m) ==
    SumFunctionOnSet([f \in Fills |-> SignedNotional(f, Size[f])],
        {f \in fillRow : MarketOf[f] = m /\ status[f] \notin Terminal})

Differs(a, b) == a - b > 1 \/ b - a > 1

(* start(): recover_in_flight resets the rows and then corrects exposures, *)
(* one by one; an error stops it at any point and the boot continues.      *)
Boot ==
    LET stuck == {f \in Fills : status[f] = "HEDGING"}
    IN  /\ ~up
        /\ up' = TRUE
        /\ \E reset \in SUBSET stuck, checked \in SUBSET exposureRow :
            /\ checked # {} => reset = stuck
            /\ status' = [f \in Fills |-> IF f \in reset THEN "PENDING" ELSE status[f]]
            /\ unhedged' = [m \in Markets |->
                   IF m \in checked /\ Differs(unhedged[m], ExpectedExposure(m))
                   THEN ExpectedExposure(m) ELSE unhedged[m]]
        /\ UNCHANGED <<crashes, forgotten, fillRow, filled, exposureRow>>
        /\ UNCHANGED <<queueVars, workerVars, paused, failure, bought, historyVars>>

(* Mutant of Stalled: past the limit the job is neither retried nor failed. *)
StalledDropped(f) ==
    /\ up
    /\ jobState[f] = "active"
    /\ pc[f] = "idle"
    /\ stalls[f] < MaxStalled
    /\ stalls' = [stalls EXCEPT ![f] = @ + 1]
    /\ jobState' = [jobState EXCEPT ![f] = "waiting"]
    /\ UNCHANGED <<attempts, failure>>
    /\ UNCHANGED <<workerVars, rowVars, exposureVars, paused, bought, processVars, historyVars>>

(* The lock of a job whose worker died runs out.                           *)
Stalled(f) ==
    /\ up
    /\ jobState[f] = "active"
    /\ pc[f] = "idle"
    /\ stalls' = [stalls EXCEPT ![f] = @ + 1]
    /\ IF stalls[f] + 1 > MaxStalled
       THEN FailsForGood(f)
       ELSE jobState' = [jobState EXCEPT ![f] = "waiting"] /\ UNCHANGED failure
    /\ UNCHANGED attempts
    /\ UNCHANGED <<workerVars, rowVars, exposureVars, paused, bought, processVars, historyVars>>

-----------------------------------------------------------------------------
HandleStep(f) ==
    \/ UpsertFill(f)
    \/ UpsertHedge(f)
    \/ MarkHedging(f)
    \/ BumpExposure(f)
    \/ \E k \in Tradable(f, Size[f]) : PlaceMarketOrder(f, k)
    \/ \E k \in Tradable(f, Size[f]) : WalkBook(f, k)
    \/ Settle(f)
    \/ ReverseExposure(f)

Next ==
    \/ \E f \in Fills :
        \/ OnFill(f)
        \/ RemoveFinished(f)
        \/ ServerRecordsFill(f)
        \/ Dequeue(f)
        \/ HandleStep(f)
        \/ AttemptFails(f)
        \/ MarkHedgeFailed(f)
        \/ MaybePauseMarket(f)
        \/ Stalled(f)
    \/ Crash
    \/ Boot

Spec == Init /\ [][Next]_vars

(* The worker keeps pulling jobs and every await returns or throws; the    *)
(* stalled check and the process manager's restart are timers.             *)
Fairness ==
    /\ WF_vars(Boot)
    /\ \A f \in Fills :
        /\ SF_vars(Dequeue(f))
        /\ WF_vars(HandleStep(f) \/ AttemptFails(f))
        /\ WF_vars(Stalled(f))

FairSpec == Spec /\ Fairness

-----------------------------------------------------------------------------
(* Every variable stays in its type and the counters in their limits.      *)
TypeOK ==
    /\ jobState \in [Fills -> JobStates]
    /\ attempts \in [Fills -> 0 .. MaxAttempts]
    /\ stalls \in [Fills -> 0 .. MaxStalled + 1]
    /\ pc \in [Fills -> Steps]
    /\ got \in [Fills -> Nat]
    /\ \A f \in Fills : got[f] <= Size[f] + Improvement
    /\ step \in [Fills -> 0 .. WalkSteps]
    /\ fillRow \subseteq Fills
    /\ status \in [Fills -> Statuses]
    /\ filled \in [Fills -> Nat]
    /\ unhedged = [m \in Markets |-> unhedged[m]]
    /\ exposureRow \subseteq Markets
    /\ paused \in [chain : SUBSET Markets, row : SUBSET Markets]
    /\ failure \in [Fills -> {"none", "event", "pause"}]
    /\ bought \in [Fills -> Nat]
    /\ up \in BOOLEAN
    /\ crashes \in Nat
    /\ forgotten \in Nat
    /\ unrecorded \in [Fills -> Nat]
    /\ clean \in BOOLEAN

(* Through retries, redelivery, stalls and reboots, every share traded for *)
(* a fill is in its Hedge row, with the execution now running, or was lost *)
(* with an execution that threw or died after ordering; and the row never  *)
(* records more than one hedge of the fill.                                *)
TradesAccounted ==
    \A f \in Fills :
        /\ bought[f] = filled[f] + unrecorded[f] + InFlight(f)
        /\ filled[f] <= Size[f] + Improvement

(* A job that BullMQ reports completed left its hedge in a terminal state: *)
(* no path through handle returns normally and leaves the fill open.       *)
CompletedIsTerminal ==
    \A f \in Fills : jobState[f] = "completed" => status[f] \in Terminal

(* With all jobs finished, and none of the interruptions that clean        *)
(* excludes, the exposure of a market is exactly what its fills left       *)
(* unhedged, whatever retries and concurrent jobs did in between.          *)
ExposureSettles ==
    clean /\ (\A f \in Fills : jobState[f] \notin {"waiting", "active"}) =>
        \A m \in Markets :
            unhedged[m] =
                SumFunctionOnSet(
                    [f \in Fills |-> SignedNotional(f, Size[f]) - SignedNotional(f, filled[f])],
                    {f \in Fills : MarketOf[f] = m /\ status[f] # "None"})

(* An order leaves for Polymarket only while the row says HEDGING: never   *)
(* for a hedge that boot recovery has reset or a callback has failed.      *)
OrdersOnlyWhileHedging ==
    [][\A f \in Fills : bought'[f] # bought[f] => status[f] = "HEDGING"]_vars

(* No retry, boot or late callback reopens a finished hedge, or changes    *)
(* how much of it was filled; at most it is marked FAILED afterwards.      *)
TerminalIsFinal ==
    [][\A f \in Fills : status[f] \in Terminal =>
          status'[f] \in {status[f], "FAILED"} /\ filled'[f] = filled[f]]_vars

(* Every job ends: attempts and stalls are counted, nobody waits forever.  *)
JobsFinish ==
    \A f \in Fills : jobState[f] = "waiting" ~> jobState[f] \in {"completed", "failed"}

(* processor.ts:81-83: the terminal check "protects against double         *)
(* execution after a worker crash mid-job"; so, where no attempt has       *)
(* thrown, a crash never makes the platform trade a fill twice.            *)
NoDoubleExecution ==
    \A f \in Fills : attempts[f] = 0 => bought[f] <= Size[f] + Improvement
=============================================================================
