------------------------------- MODULE Trade --------------------------------
(***************************************************************************)
(* apps/server: TradeController and TradeOrchestratorService, with the     *)
(* idempotency keys, the inventory netter and SolanaTradeService, next to  *)
(* apps/hedger's inventory liquidator.  A request hedges first, out of the *)
(* platform's inventory and then on Polymarket, and submits place_order    *)
(* afterwards ("hedge_first"), or submits alone ("no_hedge").              *)
(*                                                                         *)
(* A request id is tried several times; Attempts are the calls.  Prices    *)
(* and the quote's row are left to QuoteLifecycle; the hedger, modelled    *)
(* in Hedger, is reduced here to its two writes and its order.             *)
(***************************************************************************)
EXTENDS Integers, FiniteSets, Functions

CONSTANTS
    Requests,       \* request ids sent by clients
    Attempts,       \* calls of the trade endpoint; also their Polymarket order ids
    RequestOf,      \* per attempt: the id it carries
    Size,           \* per request: shares
    Improvement,    \* shares by which a BUY, sent as a dollar amount, may overfill
    Stock,          \* PlatformInventory before: shares, per polymarketOrderId
    MaxPerTick,     \* HEDGER_INVENTORY_LIQUIDATE_MAX_SHARES_PER_TICK
    MaxFaults       \* bound on the times that the server stops, a key expires under
                    \* a running attempt or a transaction fails on chain

ASSUME TradeAssumption ==
    /\ IsFiniteSet(Requests)
    /\ RequestOf \in [Attempts -> Requests]
    /\ Size \in [Requests -> Nat \ {0}]
    /\ Improvement \in Nat
    /\ Stock \in [DOMAIN Stock -> Nat \ {0}]
    /\ DOMAIN Stock \cap Attempts = {}
    /\ IsFiniteSet(DOMAIN Stock)
    /\ MaxPerTick \in Nat
    /\ MaxFaults \in Nat
    /\ IsFiniteSet(Attempts)

VARIABLES
    path,       \* the orchestrator's method that process calls
    side,       \* of the requests and of Stock: the other side has rows of its own
    key,        \* per request: what its Redis key holds
    pc,         \* per attempt: its next step
    cand,       \* per attempt: inventory rows the netter has read and not tried
    netted,     \* per attempt: inventory rows it consumed
    leg,        \* per attempt: shares its own Polymarket order filled
    reply,      \* per attempt: the answer it got
    inventory,  \* PlatformInventory, by polymarketOrderId
    sent,       \* attempts whose transaction may still land
    landed,     \* per request: attempts whose transaction filled it
    failed,     \* attempts whose transaction failed on chain
    used,       \* requests whose UsedNonce account is open
    quote,      \* per request: consumed and nonceClosedAt of its Quote row
    fillRow,    \* per request: Fill.size, 0 when there is no row
    hedge,      \* per request: Hedge.filledSize of a FILLED row, 0 without one
    liq,        \* the liquidator's tick: rows to do, budget, row claimed
    crashes,    \* times the server stopped
    position,   \* history: shares traded on Polymarket, less those traded back
    unrecorded, \* history: those of them that no row and no attempt knows of,
                \* less those that a row counts although they were traded back
    lapsed      \* history: requests whose key expired under a running attempt

attemptVars == <<pc, cand, netted, leg, reply>>
rowVars     == <<fillRow, hedge>>
chainVars   == <<sent, landed, failed, used, quote>>
vars == <<path, side, key, attemptVars, inventory, chainVars, rowVars, liq, crashes, position,
          unrecorded, lapsed>>

Orders == Attempts \cup DOMAIN Stock
NoRow  == [state |-> "none", shares |-> 0, at |-> 0]
Idle   == [rows |-> {}, budget |-> 0, claimed |-> {}]

(* Errors of the orchestrator: a TradeError before the chain leg, the one  *)
(* for a failed chain leg, anything else.                                  *)
Errors  == {"rejected", "reconcile", "error"}
Keys    == {"none", "pending", "filled", "rejected", "reconcile"}
Replies == {"none", "filled", "duplicate"} \cup Errors
Holding == {"net", "filled", "sent", "confirmed", "recorded"}
Steps   == {"idle", "check", "reply", "done"} \cup Holding

Init ==
    /\ path \in {"hedge_first", "no_hedge"}
    /\ side \in {"BUY", "SELL"}
    /\ key = [r \in Requests |-> "none"]
    /\ pc = [a \in Attempts |-> "idle"]
    /\ cand = [a \in Attempts |-> {}]
    /\ netted = [a \in Attempts |-> {}]
    /\ leg = [a \in Attempts |-> 0]
    /\ reply = [a \in Attempts |-> "none"]
    /\ inventory = [i \in Orders |->
           IF i \in Attempts THEN NoRow ELSE [state |-> "open", shares |-> Stock[i], at |-> 0]]
    /\ sent = {}
    /\ landed = [r \in Requests |-> {}]
    /\ failed = {}
    /\ used = {}
    /\ quote = [r \in Requests |-> "live"]
    /\ fillRow = [r \in Requests |-> 0]
    /\ hedge = [r \in Requests |-> 0]
    /\ liq = Idle
    /\ crashes = 0
    /\ position = SumFunction(Stock)
    /\ unrecorded = 0
    /\ lapsed = {}

Step(a, to) == pc' = [pc EXCEPT ![a] = to]

(* The orchestrator throws, or returns, and the controller has the answer. *)
Answer(a, with) ==
    /\ Step(a, "reply")
    /\ reply' = [reply EXCEPT ![a] = with]

HedgeFirst      == path = "hedge_first"
RowShares(rows) == SumFunctionOnSet([i \in Orders |-> inventory[i].shares], rows)

(* combine_hedge_legs: HedgeFilledShape.filledShares.                      *)
Held(a) == leg[a] + RowShares(netted[a])

(* Shares that attempts still running with their hedge have to pass on.    *)
InFlight == SumFunctionOnSet([a \in Attempts |-> Held(a)], {a \in Attempts : pc[a] \in Holding})

(* Mutant of Remaining: the whole size is ordered, netted shares or not.   *)
RemainingWhole(a) == Size[RequestOf[a]]

Remaining(a) == Size[RequestOf[a]] - RowShares(netted[a])

(* A BUY is sent as a dollar amount, which buys more shares at a better    *)
(* price.                                                                  *)
Excess(orderSide) == IF orderSide = "BUY" THEN Improvement ELSE 0
Reverse           == IF side = "BUY" THEN "SELL" ELSE "BUY"

(* The order is placed and not answered yet.                               *)
Ordering(a) == pc[a] = "net" /\ cand[a] = {} /\ Remaining(a) > 0
Orderable   == SumFunctionOnSet([a \in Attempts |-> Remaining(a) + Excess(side)],
                                {a \in Attempts : Ordering(a)})

(* The size signed into the quote.                                         *)
Signed(a) == IF HedgeFirst THEN Held(a) ELSE Size[RequestOf[a]]
Running(a) == HedgeFirst /\ pc[a] \notin {"idle", "done"}

(* What MaxFaults bounds.                                                  *)
Faults == crashes + Cardinality(lapsed) + Cardinality(failed)

(* A tick goes on with the rows that what is left of its budget affords:   *)
(* larger ones are passed over, and it returns when there is none.         *)
Tick(rows, budget, claimed) ==
    LET affordable == {i \in rows : inventory[i].shares <= budget}
    IN  IF affordable = {} /\ claimed = {}
        THEN Idle ELSE [rows |-> affordable, budget |-> budget, claimed |-> claimed]

Open(i)           == inventory[i].state = "open"
Earliest(rows, i) == i \in rows /\ \A j \in rows : inventory[i].at <= inventory[j].at

-----------------------------------------------------------------------------
(* TradeController and TradeIdempotencyService                             *)
(* Mutant of Claim: a key without a result counts as absent.               *)
ClaimPending(a) ==
    /\ pc[a] = "idle"
    /\ HedgeFirst
    /\ IF key[RequestOf[a]] \in {"none", "pending"}
       THEN /\ key' = [key EXCEPT ![RequestOf[a]] = "pending"]
            /\ Step(a, "check")
            /\ UNCHANGED reply
       ELSE /\ pc' = [pc EXCEPT ![a] = "done"]
            /\ reply' = [reply EXCEPT ![a] = key[RequestOf[a]]]
            /\ UNCHANGED key
    /\ UNCHANGED <<path, side, cand, netted, leg, inventory, chainVars, rowVars, liq, crashes,
                   position, unrecorded, lapsed>>

(* claim: the key is taken, or the call is answered from it at once.       *)
Claim(a) ==
    LET r == RequestOf[a] IN
    /\ pc[a] = "idle"
    /\ HedgeFirst
    /\ \/ /\ key[r] = "none"
          /\ key' = [key EXCEPT ![r] = "pending"]
          /\ Step(a, "check")
          /\ UNCHANGED reply
       \/ /\ key[r] # "none"
          /\ Step(a, "done")
          /\ reply' = [reply EXCEPT ![a] = IF key[r] = "pending" THEN "duplicate" ELSE key[r]]
          /\ UNCHANGED key
    /\ UNCHANGED <<path, side, cand, netted, leg, inventory, chainVars, rowVars, liq, crashes,
                   position, unrecorded, lapsed>>

(* execute_trade_no_hedge does without a key.                              *)
Begin(a) ==
    /\ pc[a] = "idle"
    /\ ~HedgeFirst
    /\ Step(a, "check")
    /\ UNCHANGED <<path, side, key, cand, netted, leg, reply, inventory, chainVars, rowVars,
                   liq, crashes, position, unrecorded, lapsed>>

(* complete after an answer or a TradeError, release after another error.  *)
(* Either may throw, whether or not Redis did what it was asked: complete  *)
(* after a success is inside the try and followed by release, and in the   *)
(* other cases the key stays as it is.                                     *)
Finish(a) ==
    LET r == RequestOf[a] IN
    /\ pc[a] = "reply"
    /\ Step(a, "done")
    /\ \/ /\ key' = IF ~HedgeFirst THEN key
                    ELSE [key EXCEPT ![r] = IF reply[a] = "error" THEN "none" ELSE reply[a]]
          /\ UNCHANGED reply
       \/ /\ HedgeFirst
          /\ \/ key' = key
             \/ reply[a] # "error" /\ key' = [key EXCEPT ![r] = reply[a]]
             \/ reply[a] = "filled" /\ key' = [key EXCEPT ![r] = "none"]
          /\ reply' = [reply EXCEPT ![a] = "error"]
    /\ UNCHANGED <<path, side, cand, netted, leg, inventory, chainVars, rowVars, liq, crashes,
                   position, unrecorded, lapsed>>

(* The key's lifetime ends, whatever it holds.                             *)
Expire(r) ==
    LET running == {a \in Attempts : RequestOf[a] = r /\ Running(a)} IN
    /\ key[r] # "none"
    /\ key' = [key EXCEPT ![r] = "none"]
    /\ \/ running = {} /\ UNCHANGED lapsed
       \/ running # {} /\ Faults < MaxFaults /\ lapsed' = lapsed \cup {r}
    /\ UNCHANGED <<path, side, attemptVars, inventory, chainVars, rowVars, liq, crashes,
                   position, unrecorded>>

-----------------------------------------------------------------------------
(* TradeOrchestratorService: the hedge leg                                 *)
(* validate and assert_pretrade reject or throw, or the netter reads its   *)
(* candidates (the no-hedge path also checks the treasury here).           *)
Preflight(a) ==
    /\ pc[a] = "check"
    /\ \/ \E with \in {"rejected", "error"} : Answer(a, with) /\ UNCHANGED cand
       \/ /\ HedgeFirst
          /\ cand' = [cand EXCEPT ![a] = {i \in Orders : Open(i)}]
          /\ Step(a, "net")
          /\ UNCHANGED reply
       \/ /\ ~HedgeFirst
          /\ Step(a, "filled")
          /\ UNCHANGED <<cand, reply>>
    /\ UNCHANGED <<path, side, key, netted, leg, inventory, chainVars, rowVars, liq, crashes,
                   position, unrecorded, lapsed>>

(* Mutant of Claimable: the update is not conditional on the row's state.  *)
ClaimableAsRead(a, i) == inventory[i].shares <= Remaining(a)

(* try_claim_row: whole rows only, and only while nobody else has the row. *)
Claimable(a, i) == inventory[i].shares <= Remaining(a) /\ Open(i)

TryClaimRow(a, i) ==
    /\ pc[a] = "net"
    /\ Remaining(a) > 0
    /\ Earliest(cand[a], i)
    /\ cand' = [cand EXCEPT ![a] = @ \ {i}]
    /\ IF Claimable(a, i)
       THEN /\ netted' = [netted EXCEPT ![a] = @ \cup {i}]
            /\ inventory' = [inventory EXCEPT ![i].state = "netted"]
       ELSE UNCHANGED <<netted, inventory>>
    /\ UNCHANGED <<path, side, key, pc, leg, reply, chainVars, rowVars, liq, crashes, position,
                   unrecorded, lapsed>>

(* net throws, and attempt_netting goes on as if nothing had been netted:  *)
(* the rows it did consume stay netted.                                    *)
NettingFails(a) ==
    /\ pc[a] = "net"
    /\ cand[a] # {}
    /\ cand' = [cand EXCEPT ![a] = {}]
    /\ netted' = [netted EXCEPT ![a] = {}]
    /\ unrecorded' = unrecorded + RowShares(netted[a])
    /\ UNCHANGED <<path, side, key, pc, leg, reply, inventory, chainVars, rowVars, liq, crashes,
                   position, lapsed>>

(* fill_via_polymarket: nothing left to order, or an order that fills any  *)
(* part, and of a BUY more than it was placed for, or an error             *)
(* (TRADE_UNAVAILABLE, or what reading the book threw).  The order may     *)
(* have traded before the error: its answer is lost, or it comes after the *)
(* timeout, which does not cancel it.                                      *)
FillViaPolymarket(a) ==
    /\ pc[a] = "net"
    /\ cand[a] = {} \/ Remaining(a) = 0
    /\ \/ /\ Remaining(a) = 0
          /\ Step(a, "filled")
          /\ UNCHANGED <<leg, reply, position, unrecorded>>
       \/ \E shares \in 1 .. Remaining(a) + Excess(side) :
          /\ Remaining(a) > 0
          /\ leg' = [leg EXCEPT ![a] = shares]
          /\ position' = position + shares
          /\ Step(a, "filled")
          /\ UNCHANGED <<reply, unrecorded>>
       \/ \E shares \in 0 .. Remaining(a) + Excess(side) :
          /\ Remaining(a) > 0
          /\ position' = position + shares
          /\ unrecorded' = unrecorded + shares + RowShares(netted[a])
          /\ \E with \in {"rejected", "error"} : Answer(a, with)
          /\ UNCHANGED leg
    /\ UNCHANGED <<path, side, key, cand, netted, inventory, chainVars, rowVars, liq, crashes,
                   lapsed>>

(* Mutant of RecordOrphan: only the Polymarket leg goes into the new row.  *)
RecordOrphanLeg(a) ==
    \/ /\ leg[a] > 0
       /\ inventory' = [inventory EXCEPT ![a] =
              [state |-> "open", shares |-> leg[a],
               at |-> 1 + Cardinality({i \in Attempts : inventory[i] # NoRow})]]
       /\ UNCHANGED unrecorded
    \/ UNCHANGED inventory /\ unrecorded' = unrecorded + Held(a)

(* record_orphan_inventory: the row is keyed by the attempt's own order,   *)
(* or, without one, by the order of a netted row, which exists already: in *)
(* that case, and when the write fails, the error is logged only.          *)
RecordOrphan(a) ==
    \/ /\ leg[a] > 0
       /\ inventory' = [inventory EXCEPT ![a] =
              [state |-> "open", shares |-> Held(a),
               at |-> 1 + Cardinality({i \in Attempts : inventory[i] # NoRow})]]
       /\ UNCHANGED unrecorded
    \/ UNCHANGED inventory /\ unrecorded' = unrecorded + Held(a)

(* assert_treasury_can_cover rejects, or throws, for a SELL that is        *)
(* already hedged.                                                         *)
TreasuryShort(a) ==
    /\ pc[a] = "filled"
    /\ HedgeFirst /\ side = "SELL"
    /\ RecordOrphan(a)
    /\ \E with \in {"rejected", "error"} : Answer(a, with)
    /\ UNCHANGED <<path, side, key, cand, netted, leg, chainVars, rowVars, liq, crashes,
                   position, lapsed>>

-----------------------------------------------------------------------------
(* TradeOrchestratorService: the chain leg                                 *)
(* The quote is signed and its row written, where an error leaves the      *)
(* hedge behind without a record, and the transaction is sent: the         *)
(* preflight lets it through unless the nonce is used.                     *)
SignAndSend(a) ==
    /\ pc[a] = "filled"
    /\ \/ /\ sent' = IF RequestOf[a] \notin used THEN sent \cup {a} ELSE sent
          /\ Step(a, "sent")
          /\ UNCHANGED <<reply, unrecorded>>
       \/ /\ unrecorded' = unrecorded + Held(a)
          /\ Answer(a, "error")
          /\ UNCHANGED sent
    /\ UNCHANGED <<path, side, key, cand, netted, leg, inventory, landed, failed, used, quote,
                   rowVars, liq, crashes, position, lapsed>>

(* place_order on chain: the nonce comes from the request id, so that one  *)
(* attempt fills while its UsedNonce account is there.  A transaction also *)
(* fails when the market, the clock or a balance has moved since its       *)
(* preflight, or expires.                                                  *)
Land(a) ==
    LET r == RequestOf[a] IN
    /\ a \in sent
    /\ sent' = sent \ {a}
    /\ \/ /\ r \notin used
          /\ used' = used \cup {r}
          /\ landed' = [landed EXCEPT ![r] = @ \cup {a}]
          /\ UNCHANGED failed
       \/ Faults < MaxFaults /\ failed' = failed \cup {a} /\ UNCHANGED <<used, landed>>
       \/ UNCHANGED <<used, landed, failed>>
    /\ UNCHANGED <<path, side, key, attemptVars, inventory, quote, rowVars, liq, crashes,
                   position, unrecorded, lapsed>>

(* NonceSweeperService closes the account of a consumed quote an hour      *)
(* after the expiry in its row, which is that of the request's first       *)
(* attempt: the transaction of a later one may still be out, or come.      *)
SweepNonce(r) ==
    /\ quote[r] = "consumed"
    /\ r \in used
    /\ used' = used \ {r}
    /\ quote' \in {quote, [quote EXCEPT ![r] = "closed"]}
    /\ UNCHANGED <<path, side, key, attemptVars, inventory, sent, landed, failed, rowVars, liq,
                   crashes, position, unrecorded, lapsed>>

(* confirmTransaction returns for a transaction that failed on chain as    *)
(* well: its error is in the value, which send_with_fee_payer ignores.     *)
Confirm(a) ==
    /\ pc[a] = "sent"
    /\ a \in landed[RequestOf[a]] \cup failed
    /\ Step(a, "confirmed")
    /\ UNCHANGED <<path, side, key, cand, netted, leg, reply, inventory, chainVars, rowVars,
                   liq, crashes, position, unrecorded, lapsed>>

(* Mutant of SubmitFails: the failed chain leg is reported like a failed   *)
(* hedge leg.                                                              *)
SubmitFailsAlike(a) ==
    /\ pc[a] = "sent"
    /\ \/ HedgeFirst /\ RecordOrphan(a) /\ Answer(a, "rejected")
       \/ ~HedgeFirst /\ Answer(a, "error") /\ UNCHANGED <<inventory, unrecorded>>
    /\ UNCHANGED <<path, side, key, cand, netted, leg, chainVars, rowVars, liq, crashes,
                   position, lapsed>>

(* The submission throws: rejected, or not confirmed in time, and then the *)
(* transaction may have landed or may still land.                          *)
SubmitFails(a) ==
    /\ pc[a] = "sent"
    /\ \/ HedgeFirst /\ RecordOrphan(a) /\ Answer(a, "reconcile")
       \/ ~HedgeFirst /\ Answer(a, "error") /\ UNCHANGED <<inventory, unrecorded>>
    /\ UNCHANGED <<path, side, key, cand, netted, leg, chainVars, rowVars, liq, crashes,
                   position, lapsed>>

(* mark_quote_consumed: an error is swallowed, and a closed row stays so.  *)
MarkConsumed(r) ==
    quote' \in {quote, [quote EXCEPT ![r] = IF @ = "closed" THEN @ ELSE "consumed"]}

(* Mutant of RecordFill: the row takes the size that was asked for.        *)
RecordFillRequested(a) ==
    LET r == RequestOf[a] IN
    /\ pc[a] = "confirmed"
    /\ fillRow' \in {fillRow, [fillRow EXCEPT ![r] = IF @ = 0 THEN Size[r] ELSE @]}
    /\ MarkConsumed(r)
    /\ IF HedgeFirst THEN Step(a, "recorded") /\ UNCHANGED reply ELSE Answer(a, "filled")
    /\ UNCHANGED <<path, side, key, cand, netted, leg, inventory, sent, landed, failed, used,
                   hedge, liq, crashes, position, unrecorded, lapsed>>

(* record_fill_idempotent, where every error is swallowed, and back in the *)
(* orchestrator the quote is marked as consumed.                           *)
RecordFill(a) ==
    LET r == RequestOf[a] IN
    /\ pc[a] = "confirmed"
    /\ fillRow' \in {fillRow, [fillRow EXCEPT ![r] = IF @ = 0 THEN Signed(a) ELSE @]}
    /\ MarkConsumed(r)
    /\ IF HedgeFirst THEN Step(a, "recorded") /\ UNCHANGED reply ELSE Answer(a, "filled")
    /\ UNCHANGED <<path, side, key, cand, netted, leg, inventory, sent, landed, failed, used,
                   hedge, liq, crashes, position, unrecorded, lapsed>>

(* persist_fill_and_hedge: one transaction that inserts both rows; when    *)
(* the Fill row exists already, or on any other error, neither is written. *)
PersistFillAndHedge(a) ==
    LET r == RequestOf[a] IN
    /\ pc[a] = "recorded"
    /\ \/ /\ fillRow[r] = 0
          /\ fillRow' = [fillRow EXCEPT ![r] = Signed(a)]
          /\ hedge' = [hedge EXCEPT ![r] = Held(a)]
          /\ UNCHANGED unrecorded
       \/ /\ unrecorded' = unrecorded + Held(a)
          /\ UNCHANGED rowVars
    /\ Answer(a, "filled")
    /\ UNCHANGED <<path, side, key, cand, netted, leg, inventory, chainVars, liq, crashes,
                   position, lapsed>>

(* The server stops: the attempts are gone, and what they held with them;  *)
(* orders that are out may have traded, or still trade.                    *)
Crash ==
    LET running == {a \in Attempts : pc[a] \notin {"idle", "done"}} IN
    /\ Faults < MaxFaults
    /\ crashes' = crashes + 1
    /\ pc' = [a \in Attempts |-> IF a \in running THEN "done" ELSE pc[a]]
    /\ reply' = [a \in Attempts |-> IF a \in running THEN "none" ELSE reply[a]]
    /\ \E shares \in 0 .. Orderable :
        /\ position' = position + shares
        /\ unrecorded' = unrecorded + InFlight + shares
    /\ UNCHANGED <<path, side, key, cand, netted, leg, inventory, chainVars, rowVars, liq,
                   lapsed>>

-----------------------------------------------------------------------------
(* The hedger is told of a fill on chain: it writes the Fill row if the    *)
(* nonce has none and hedges that row's size unless its Hedge row is       *)
(* terminal.  Its steps, retries and partial fills are in Hedger.          *)
HedgeFill(r) ==
    /\ hedge[r] = 0
    /\ \E a \in landed[r] :
        fillRow' = [fillRow EXCEPT ![r] = IF @ = 0 THEN Signed(a) ELSE @]
    /\ hedge' = [hedge EXCEPT ![r] = fillRow'[r]]
    /\ position' = position + hedge'[r]
    /\ UNCHANGED <<path, side, key, attemptVars, inventory, chainVars, liq, crashes, unrecorded,
                   lapsed>>

-----------------------------------------------------------------------------
(* InventoryLiquidator: one tick at a time over the rows older than the    *)
(* cutoff, here those among the first n.                                   *)
ListOrphans(n) ==
    /\ liq = Idle
    /\ \E i \in Orders : Open(i) /\ inventory[i].at <= n
    /\ liq' = Tick({i \in Orders : Open(i) /\ inventory[i].at <= n}, MaxPerTick, {})
    /\ UNCHANGED <<path, side, key, attemptVars, inventory, chainVars, rowVars, crashes,
                   position, unrecorded, lapsed>>

(* try_claim flips liquidatedAt only if the row is still open.             *)
ClaimOrphan(i) ==
    /\ liq.claimed = {}
    /\ Earliest(liq.rows, i)
    /\ \/ /\ Open(i)
          /\ liq' = Tick(liq.rows \ {i}, liq.budget, {i})
          /\ inventory' = [inventory EXCEPT ![i].state = "claimed"]
       \/ /\ ~Open(i)
          /\ liq' = Tick(liq.rows \ {i}, liq.budget, {})
          /\ UNCHANGED inventory
    /\ UNCHANGED <<path, side, key, attemptVars, chainVars, rowVars, crashes, position,
                   unrecorded, lapsed>>

(* What a reverse order for the row can trade.                             *)
Reversible(i) == 0 .. inventory[i].shares + Excess(Reverse)

(* The reverse order fills, and is recorded for the whole row whatever it  *)
(* filled.                                                                 *)
Liquidate(i) ==
    /\ i \in liq.claimed
    /\ inventory' = [inventory EXCEPT ![i].state = "liquidated"]
    /\ \E shares \in Reversible(i) :
        /\ liq' = Tick(liq.rows, liq.budget - shares, {})
        /\ position' = position - shares
        /\ unrecorded' = unrecorded + inventory[i].shares - shares
    /\ UNCHANGED <<path, side, key, attemptVars, chainVars, rowVars, crashes, lapsed>>

(* No top of book: the row is given back.                                  *)
Unclaim(i) ==
    /\ i \in liq.claimed
    /\ inventory' = [inventory EXCEPT ![i].state = "open"]
    /\ liq' = Tick(liq.rows, liq.budget, {})
    /\ UNCHANGED <<path, side, key, attemptVars, chainVars, rowVars, crashes, position,
                   unrecorded, lapsed>>

(* A call throws, and only a note is written, or the hedger stops: the row *)
(* stays claimed for ever, whether its reverse order has traded or not.    *)
Abandon(i) ==
    /\ i \in liq.claimed
    /\ liq' \in {Tick(liq.rows, liq.budget, {}), Idle}
    /\ \E shares \in Reversible(i) :
        /\ position' = position - shares
        /\ unrecorded' = unrecorded - shares
    /\ UNCHANGED <<path, side, key, attemptVars, inventory, chainVars, rowVars, crashes,
                   lapsed>>

Orchestrate(a) ==
    \/ Claim(a) \/ Begin(a) \/ Preflight(a)
    \/ \E i \in Orders : TryClaimRow(a, i)
    \/ NettingFails(a) \/ FillViaPolymarket(a) \/ TreasuryShort(a)
    \/ SignAndSend(a) \/ Confirm(a) \/ SubmitFails(a)
    \/ RecordFill(a) \/ PersistFillAndHedge(a) \/ Finish(a)

Next ==
    \/ \E a \in Attempts : Orchestrate(a) \/ Land(a)
    \/ \E r \in Requests : Expire(r) \/ SweepNonce(r) \/ HedgeFill(r)
    \/ \E n \in 0 .. Cardinality(Attempts) : ListOrphans(n)
    \/ \E i \in Orders : ClaimOrphan(i) \/ Liquidate(i) \/ Unclaim(i) \/ Abandon(i)
    \/ Crash

Spec == Init /\ [][Next]_vars

-----------------------------------------------------------------------------
(* Every variable stays in its type; what an attempt nets and orders is    *)
(* together within its request, but for what a BUY's dollars buy more.     *)
TypeOK ==
    /\ path \in {"hedge_first", "no_hedge"}
    /\ side \in {"BUY", "SELL"}
    /\ key \in [Requests -> Keys]
    /\ pc \in [Attempts -> Steps]
    /\ cand \in [Attempts -> SUBSET Orders]
    /\ netted \in [Attempts -> SUBSET Orders]
    /\ leg \in [Attempts -> Nat]
    /\ \A a \in Attempts :
        /\ RowShares(netted[a]) <= Size[RequestOf[a]]
        /\ Held(a) <= Size[RequestOf[a]] + Excess(side)
    /\ reply \in [Attempts -> Replies]
    /\ inventory \in [Orders -> [state : {"none", "open", "netted", "claimed", "liquidated"},
                                   shares : Nat, at : Nat]]
    /\ sent \subseteq Attempts
    /\ landed \in [Requests -> SUBSET Attempts]
    /\ failed \subseteq Attempts
    /\ used \subseteq Requests
    /\ quote \in [Requests -> {"live", "consumed", "closed"}]
    /\ fillRow \in [Requests -> Nat]
    /\ hedge \in [Requests -> Nat]
    /\ liq \in [rows : SUBSET Orders, budget : Int, claimed : SUBSET Orders]
    /\ crashes \in Nat
    /\ position \in Int
    /\ unrecorded \in Int
    /\ lapsed \subseteq Requests

(* Every share the platform has traded on Polymarket is in an inventory    *)
(* row, with a running attempt or in a Hedge row, once, but for those that *)
(* errors and crashes have left unrecorded, or counted by a row that was   *)
(* traded back already.                                                    *)
SharesAccounted ==
    position - unrecorded = RowShares({i \in Orders : inventory[i].state \in {"open", "claimed"}})
                            + InFlight + SumFunction(hedge)

(* A row of the inventory is used once: by one attempt of a request, or by *)
(* the liquidator, whatever they had read before the conditional update.   *)
InventoryUsedOnce ==
    \A a \in Attempts :
        /\ \A i \in netted[a] : inventory[i].state = "netted"
        /\ \A b \in Attempts \ {a} : netted[a] \cap netted[b] = {}

(* service.trade-idempotency.ts:24: no two attempts of one request execute *)
(* at the same time, unless its key expired under one of them.             *)
NoParallelAttempts ==
    \A a, b \in Attempts :
        a # b /\ RequestOf[a] = RequestOf[b] /\ Running(a) /\ Running(b) => RequestOf[a] \in lapsed

(* A client told that the trade is filled, now or from the cache, has a    *)
(* fill on chain, unless an attempt failed there and was taken for a       *)
(* success (client.ts:447); one told that it was rejected has none from    *)
(* that attempt, now or later.                                             *)
RepliesTruthful ==
    \A a \in Attempts :
        /\ reply[a] = "filled" =>
              \/ landed[RequestOf[a]] # {}
              \/ \E b \in failed : RequestOf[b] = RequestOf[a]
        /\ reply[a] \in {"rejected", "duplicate"} =>
              a \notin sent \cup failed \cup landed[RequestOf[a]]

(* A Fill row has the size of a fill on chain, and a filled Hedge row that *)
(* of the Fill row, although attempts of one request may sign different    *)
(* sizes and, once its nonce is swept, fill one after the other, unless    *)
(* one of them failed there and was taken for a success.                   *)
RowsMatchChain ==
    \A r \in Requests :
        (\A a \in failed : RequestOf[a] # r) =>
            /\ fillRow[r] # 0 => \E a \in landed[r] : fillRow[r] = Signed(a)
            /\ hedge[r] # 0 => hedge[r] = fillRow[r]
=============================================================================
