---------------------------- MODULE TradeProofs -----------------------------
(***************************************************************************)
(* Theorems about Trade, for any requests, attempts, sizes and stock, for  *)
(* both paths and sides and any number of faults.                          *)
(*                                                                         *)
(* Four invariants first: what a request's key says of its running         *)
(* attempts, what an inventory row's state says of who holds it, what an   *)
(* attempt's step says of its transaction, and, on top of these three,     *)
(* what the database's rows say of the fill.  Then the shares: when an     *)
(* attempt has any (LegShape), how many (HeldBound), and where each of     *)
(* them is.  For the sums, a step moves one row, one attempt or one Hedge  *)
(* row, and SumMoves of SumTheorems says what that does to a sum.          *)
(***************************************************************************)
EXTENDS Trade, SumTheorems

Ended == {"reply", "done"}

-----------------------------------------------------------------------------
(* Attempts of one request                                                 *)

KeyTyped ==
    /\ path \in {"hedge_first", "no_hedge"}
    /\ key \in [Requests -> Keys]
    /\ pc \in [Attempts -> Steps]
    /\ reply \in [Attempts -> Replies]
    /\ \A a \in Attempts : pc[a] = "reply" => reply[a] \in {"filled"} \cup Errors

(* While an attempt runs, its key says so, unless the key expired.         *)
KeyPending == \A a \in Attempts :
    Running(a) /\ RequestOf[a] \notin lapsed => key[RequestOf[a]] = "pending"

KeyInv == KeyTyped /\ KeyPending /\ NoParallelAttempts

(* An attempt that goes on, or has its answer.                            *)
Onward(a) ==
    \/ \E to \in Holding : Step(a, to) /\ UNCHANGED reply
    \/ \E with \in {"filled"} \cup Errors : Answer(a, with)

LEMMA GoingOn ==
  ASSUME KeyInv, NEW a \in Attempts, Onward(a), pc[a] # "idle", pc[a] # "done",
         UNCHANGED <<path, key, lapsed>>
  PROVE  KeyInv'
<1>1. /\ pc' \in [Attempts -> Steps] /\ pc'[a] \notin {"idle", "done"}
      /\ reply' \in [Attempts -> Replies]
      /\ pc'[a] = "reply" => reply'[a] \in {"filled"} \cup Errors
      /\ \A b \in Attempts \ {a} : pc'[b] = pc[b] /\ reply'[b] = reply[b]
  BY DEF KeyInv, KeyTyped, Onward, Answer, Step, Steps, Holding, Replies, Errors
<1>2. KeyTyped'
  BY <1>1 DEF KeyInv, KeyTyped
<1>3. \A b \in Attempts : Running(b)' <=> Running(b)
  BY <1>1 DEF Running, HedgeFirst
<1>4. KeyPending' /\ NoParallelAttempts'
  BY <1>3 DEF KeyInv, KeyPending, NoParallelAttempts
<1>. QED  BY <1>2, <1>4 DEF KeyInv

LEMMA KeyKept ==
  ASSUME KeyInv, UNCHANGED <<path, key, pc, reply, lapsed>>
  PROVE  KeyInv'
  BY DEF KeyInv, KeyTyped, KeyPending, NoParallelAttempts, Running, HedgeFirst

LEMMA KeyStep ==
  ASSUME KeyInv, Next
  PROVE  KeyInv'
<1>. USE TradeAssumption
<1>1. ASSUME NEW a \in Attempts, Claim(a)
      PROVE  KeyInv'
  <2>1. RequestOf[a] \in Requests /\ pc[a] = "idle" /\ HedgeFirst /\ UNCHANGED <<path, lapsed>>
    BY <1>1 DEF Claim
  <2>2. CASE key[RequestOf[a]] = "none"
    <3>1. /\ key' = [key EXCEPT ![RequestOf[a]] = "pending"] /\ UNCHANGED reply
          /\ pc' = [pc EXCEPT ![a] = "check"]
      BY <1>1, <2>2 DEF Claim, Step
    <3>2. KeyTyped'
      BY <2>1, <3>1 DEF KeyInv, KeyTyped, Keys, Steps, Holding
    <3>3. \A b \in Attempts : Running(b)' => Running(b) \/ b = a
      BY <2>1, <3>1 DEF KeyInv, KeyTyped, Running, HedgeFirst
    <3>4. \A b \in Attempts : Running(b) /\ RequestOf[b] = RequestOf[a] => RequestOf[a] \in lapsed
      BY <2>2 DEF KeyInv, KeyPending
    <3>5. KeyPending'
      BY <2>1, <3>1, <3>3 DEF KeyInv, KeyTyped, KeyPending
    <3>6. NoParallelAttempts'
      BY <2>1, <3>3, <3>4 DEF KeyInv, NoParallelAttempts
    <3>. QED  BY <3>2, <3>5, <3>6 DEF KeyInv
  <2>3. CASE key[RequestOf[a]] # "none"
    <3>1. /\ UNCHANGED key /\ pc' = [pc EXCEPT ![a] = "done"]
          /\ reply' = [reply EXCEPT ![a] =
                 IF key[RequestOf[a]] = "pending" THEN "duplicate" ELSE key[RequestOf[a]]]
      BY <1>1, <2>3 DEF Claim, Step
    <3>2. KeyTyped'
      BY <2>1, <3>1 DEF KeyInv, KeyTyped, Keys, Replies, Errors, Steps, Holding
    <3>3. \A b \in Attempts : Running(b)' => Running(b)
      BY <2>1, <3>1 DEF KeyInv, KeyTyped, Running, HedgeFirst
    <3>. QED  BY <2>1, <3>1, <3>2, <3>3 DEF KeyInv, KeyPending, NoParallelAttempts
  <2>. QED  BY <2>2, <2>3
<1>2. ASSUME NEW a \in Attempts, Begin(a)
      PROVE  KeyInv'
  <2>1. ~HedgeFirst /\ UNCHANGED <<path, key, reply, lapsed>> /\ pc' = [pc EXCEPT ![a] = "check"]
    BY <1>2 DEF Begin, Step
  <2>2. KeyTyped' /\ \A b \in Attempts : ~Running(b)'
    BY <2>1 DEF KeyInv, KeyTyped, Running, HedgeFirst, Steps
  <2>. QED  BY <2>2 DEF KeyInv, KeyPending, NoParallelAttempts
<1>3. ASSUME NEW a \in Attempts, Finish(a)
      PROVE  KeyInv'
  <2>1. /\ pc[a] = "reply" /\ pc' = [pc EXCEPT ![a] = "done"] /\ UNCHANGED <<path, lapsed>>
        /\ reply' \in {reply, [reply EXCEPT ![a] = "error"]}
        /\ RequestOf[a] \in Requests
    BY <1>3 DEF Finish, Step
  <2>2. key' = key \/ (HedgeFirst /\ \E v : key' = [key EXCEPT ![RequestOf[a]] = v])
    BY <1>3 DEF Finish
  <2>3. KeyTyped'
    <3>1. reply' \in [Attempts -> Replies]
      BY <2>1 DEF KeyInv, KeyTyped, Replies, Errors
    <3>2. reply[a] \in {"filled"} \cup Errors
      BY <2>1 DEF KeyInv, KeyTyped
    <3>3. key' \in [Requests -> Keys]
      BY <1>3, <2>1, <3>2 DEF Finish, KeyInv, KeyTyped, Keys, Errors
    <3>. QED  BY <2>1, <3>1, <3>3 DEF KeyInv, KeyTyped, Steps
  <2>4. \A b \in Attempts : Running(b)' => Running(b) /\ b # a
    BY <2>1 DEF KeyInv, KeyTyped, Running, HedgeFirst
  <2>5. \A b \in Attempts : Running(b)' /\ RequestOf[b] = RequestOf[a] /\ HedgeFirst
                            => RequestOf[a] \in lapsed
    BY <2>1, <2>4 DEF KeyInv, NoParallelAttempts, Running
  <2>6. KeyPending'
    BY <2>1, <2>2, <2>4, <2>5 DEF KeyInv, KeyTyped, KeyPending
  <2>. QED  BY <2>1, <2>3, <2>4, <2>6 DEF KeyInv, NoParallelAttempts
<1>4. ASSUME NEW r \in Requests, Expire(r)
      PROVE  KeyInv'
  <2>1. /\ UNCHANGED <<path, pc, reply>> /\ key' = [key EXCEPT ![r] = "none"]
        /\ \/ (\A a \in Attempts : ~(RequestOf[a] = r /\ Running(a))) /\ lapsed' = lapsed
           \/ lapsed' = lapsed \cup {r}
    BY <1>4 DEF Expire, attemptVars
  <2>2. KeyTyped' /\ \A b \in Attempts : Running(b)' <=> Running(b)
    BY <2>1 DEF KeyInv, KeyTyped, Keys, Running, HedgeFirst
  <2>3. KeyPending'
    BY <2>1, <2>2 DEF KeyInv, KeyTyped, KeyPending
  <2>4. NoParallelAttempts'
    BY <2>1, <2>2 DEF KeyInv, NoParallelAttempts
  <2>. QED  BY <2>2, <2>3, <2>4 DEF KeyInv
<1>5. ASSUME Crash
      PROVE  KeyInv'
  <2>1. /\ UNCHANGED <<path, key, lapsed>>
        /\ pc' \in [Attempts -> Steps] /\ reply' \in [Attempts -> Replies]
        /\ \A b \in Attempts : pc'[b] \in {"idle", "done"}
    BY <1>5 DEF Crash, KeyInv, KeyTyped, Steps, Replies
  <2>. QED  BY <2>1 DEF KeyInv, KeyTyped, KeyPending, NoParallelAttempts, Running
<1>6. ASSUME NEW a \in Attempts,
             \/ Preflight(a) \/ FillViaPolymarket(a) \/ TreasuryShort(a) \/ SignAndSend(a)
             \/ Confirm(a) \/ SubmitFails(a) \/ RecordFill(a) \/ PersistFillAndHedge(a)
      PROVE  KeyInv'
  <2>1. pc[a] # "idle" /\ pc[a] # "done" /\ UNCHANGED <<path, key, lapsed>>
    BY <1>6 DEF Preflight, FillViaPolymarket, TreasuryShort, SignAndSend, Confirm, SubmitFails,
       RecordFill, PersistFillAndHedge
  <2>2. ASSUME Preflight(a) \/ FillViaPolymarket(a) \/ TreasuryShort(a)
        PROVE  Onward(a)
    BY <2>2 DEF Preflight, FillViaPolymarket, TreasuryShort, Onward, Holding, Errors
  <2>3. ASSUME SignAndSend(a) \/ Confirm(a) \/ SubmitFails(a)
        PROVE  Onward(a)
    BY <2>3 DEF SignAndSend, Confirm, SubmitFails, Onward, Holding, Errors
  <2>4. ASSUME RecordFill(a) \/ PersistFillAndHedge(a)
        PROVE  Onward(a)
    BY <2>4 DEF RecordFill, PersistFillAndHedge, Onward, Holding, Errors
  <2>. QED  BY <1>6, <2>1, <2>2, <2>3, <2>4, GoingOn
<1>7. ASSUME NEW a \in Attempts,
             Land(a) \/ NettingFails(a) \/ \E i \in Orders : TryClaimRow(a, i)
      PROVE  KeyInv'
  <2>1. UNCHANGED <<path, key, pc, reply, lapsed>>
    BY <1>7 DEF Land, NettingFails, TryClaimRow, attemptVars
  <2>. QED  BY <2>1, KeyKept
<1>8. ASSUME \/ \E r \in Requests : SweepNonce(r) \/ HedgeFill(r)
             \/ \E n \in 0 .. Cardinality(Attempts) : ListOrphans(n)
             \/ \E i \in Orders : ClaimOrphan(i) \/ Liquidate(i) \/ Unclaim(i) \/ Abandon(i)
      PROVE  KeyInv'
  <2>1. UNCHANGED <<path, key, pc, reply, lapsed>>
    BY <1>8 DEF SweepNonce, HedgeFill, ListOrphans, ClaimOrphan, Liquidate, Unclaim, Abandon,
       attemptVars
  <2>. QED  BY <2>1, KeyKept
<1>. QED
  BY <1>1, <1>2, <1>3, <1>4, <1>5, <1>6, <1>7, <1>8 DEF Next, Orchestrate

-----------------------------------------------------------------------------
(* Inventory rows                                                          *)

InventoryTyped ==
    /\ pc \in [Attempts -> Steps]
    /\ netted \in [Attempts -> SUBSET Orders]
    /\ DOMAIN inventory = Orders
    /\ \A i \in Orders : inventory[i] = [state  |-> inventory[i].state,
                                         shares |-> inventory[i].shares,
                                         at     |-> inventory[i].at]

(* An attempt's own row appears with its answer; the row the liquidator    *)
(* is at work on is marked as claimed.                                     *)
RowsMarked ==
    /\ \A a \in Attempts : pc[a] \notin Ended => inventory[a].state = "none"
    /\ liq.claimed \subseteq Orders
    /\ \A i \in liq.claimed : inventory[i].state = "claimed"

InventoryInv == InventoryTyped /\ RowsMarked /\ InventoryUsedOnce

(* One row changes its state, and it was nobody's.                         *)
RowMoves(i, to) ==
    /\ i \in Orders
    /\ inventory[i].state \in {"open", "claimed"}
    /\ inventory' = [inventory EXCEPT ![i].state = to]

LEMMA RowMoved ==
  ASSUME InventoryInv, NEW i, NEW to, RowMoves(i, to)
  PROVE  /\ DOMAIN inventory' = Orders
         /\ \A j \in Orders : inventory'[j] = [state  |-> inventory'[j].state,
                                               shares |-> inventory'[j].shares,
                                               at     |-> inventory'[j].at]
         /\ inventory'[i].state = to
         /\ \A j \in Orders \ {i} : inventory'[j] = inventory[j]
         /\ \A a \in Attempts : i \notin netted[a]
         /\ i \in Attempts => pc[i] \in Ended
<1>1. inventory'[i] = [inventory[i] EXCEPT !.state = to]
  BY DEF RowMoves, InventoryInv, InventoryTyped
<1>2. /\ inventory'[i].state = to
      /\ inventory'[i] = [state |-> inventory'[i].state, shares |-> inventory'[i].shares,
                          at |-> inventory'[i].at]
  BY <1>1 DEF RowMoves, InventoryInv, InventoryTyped
<1>3. DOMAIN inventory' = Orders /\ \A j \in Orders \ {i} : inventory'[j] = inventory[j]
  BY DEF RowMoves, InventoryInv, InventoryTyped
<1>. QED
  BY <1>2, <1>3 DEF RowMoves, InventoryInv, InventoryTyped, InventoryUsedOnce, RowsMarked

(* The liquidator's row, before, while and after it works on it.           *)
LEMMA RowOfTick ==
  ASSUME InventoryInv, NEW i, NEW to, RowMoves(i, to), UNCHANGED <<pc, netted>>,
         liq'.claimed \subseteq {i}, liq'.claimed # {} => to = "claimed"
  PROVE  InventoryInv'
<1>1. /\ DOMAIN inventory' = Orders
      /\ \A j \in Orders : inventory'[j] = [state  |-> inventory'[j].state,
                                            shares |-> inventory'[j].shares,
                                            at     |-> inventory'[j].at]
      /\ inventory'[i].state = to
      /\ \A j \in Orders \ {i} : inventory'[j] = inventory[j]
      /\ \A a \in Attempts : i \notin netted[a]
      /\ i \in Attempts => pc[i] \in Ended
  BY RowMoved
<1>2. InventoryTyped'
  BY <1>1 DEF InventoryInv, InventoryTyped
<1>3. RowsMarked'
  <2>1. i \in Orders
    BY DEF RowMoves
  <2>2. \A a \in Attempts : pc[a] \notin Ended => inventory'[a].state = "none"
    BY <1>1 DEF InventoryInv, RowsMarked, Orders
  <2>3. \A j \in liq'.claimed : j = i /\ inventory'[j].state = "claimed"
    BY <1>1
  <2>. QED  BY <2>1, <2>2, <2>3 DEF RowsMarked
<1>4. InventoryUsedOnce'
  BY <1>1 DEF InventoryInv, InventoryTyped, InventoryUsedOnce
<1>. QED  BY <1>2, <1>3, <1>4 DEF InventoryInv

(* Attempts go on and rows stay as they are.                               *)
LEMMA InventoryKept ==
  ASSUME InventoryInv, UNCHANGED <<inventory, netted>>,
         pc' \in [Attempts -> Steps],
         \A a \in Attempts : pc[a] \in Ended => pc'[a] \in Ended,
         liq'.claimed \subseteq liq.claimed
  PROVE  InventoryInv'
  BY DEF InventoryInv, InventoryTyped, RowsMarked, InventoryUsedOnce

(* The attempt has its answer, with or without a row of its own.           *)
LEMMA Orphaned ==
  ASSUME InventoryInv, NEW a \in Attempts, pc[a] \notin Ended, RecordOrphan(a),
         pc' = [pc EXCEPT ![a] = "reply"], UNCHANGED <<netted, liq>>
  PROVE  InventoryInv'
<1>1. CASE UNCHANGED inventory
  BY <1>1, InventoryKept DEF InventoryInv, InventoryTyped, Steps, Ended
<1>2. CASE inventory' # inventory
  <2>1. PICK shares, at : inventory' = [inventory EXCEPT ![a] =
                              [state |-> "open", shares |-> shares, at |-> at]]
    BY <1>2 DEF RecordOrphan
  <2>2. a \in Orders /\ inventory[a].state = "none"
    BY DEF InventoryInv, RowsMarked, Orders
  <2>3. /\ DOMAIN inventory' = Orders
        /\ inventory'[a] = [state |-> "open", shares |-> shares, at |-> at]
        /\ \A j \in Orders \ {a} : inventory'[j] = inventory[j]
    BY <2>1, <2>2 DEF InventoryInv, InventoryTyped
  <2>4. InventoryTyped'
    BY <2>3 DEF InventoryInv, InventoryTyped, Steps
  <2>5. RowsMarked'
    BY <2>2, <2>3 DEF InventoryInv, InventoryTyped, RowsMarked, Orders, Ended
  <2>6. InventoryUsedOnce'
    BY <2>2, <2>3 DEF InventoryInv, InventoryTyped, InventoryUsedOnce
  <2>. QED  BY <2>4, <2>5, <2>6 DEF InventoryInv
<1>. QED  BY <1>1, <1>2

LEMMA InventoryStep ==
  ASSUME InventoryInv, Next
  PROVE  InventoryInv'
<1>1. ASSUME NEW a \in Attempts, NEW i \in Orders, TryClaimRow(a, i)
      PROVE  InventoryInv'
  <2>1. UNCHANGED <<pc, liq>>
    BY <1>1 DEF TryClaimRow
  <2>2. CASE Claimable(a, i)
    <3>1. RowMoves(i, "netted") /\ netted' = [netted EXCEPT ![a] = @ \cup {i}]
      BY <1>1, <2>2 DEF TryClaimRow, RowMoves, Claimable, Open
    <3>2. i \notin liq.claimed
      BY <2>2 DEF Claimable, Open, InventoryInv, RowsMarked
    <3>3. /\ DOMAIN inventory' = Orders
          /\ \A j \in Orders : inventory'[j] = [state  |-> inventory'[j].state,
                                                shares |-> inventory'[j].shares,
                                                at     |-> inventory'[j].at]
          /\ inventory'[i].state = "netted"
          /\ \A j \in Orders \ {i} : inventory'[j] = inventory[j]
          /\ \A b \in Attempts : i \notin netted[b]
          /\ i \in Attempts => pc[i] \in Ended
      BY <3>1, RowMoved
    <3>4. /\ netted' \in [Attempts -> SUBSET Orders] /\ netted'[a] = netted[a] \cup {i}
          /\ \A b \in Attempts \ {a} : netted'[b] = netted[b]
      BY <3>1 DEF InventoryInv, InventoryTyped
    <3>5. InventoryTyped'
      BY <2>1, <3>3, <3>4 DEF InventoryInv, InventoryTyped
    <3>6. RowsMarked'
      BY <2>1, <3>2, <3>3 DEF InventoryInv, RowsMarked, Orders
    <3>7. InventoryUsedOnce'
      <4>1. \A b \in Attempts : \A j \in netted'[b] : inventory'[j].state = "netted"
        BY <3>3, <3>4 DEF InventoryInv, InventoryTyped, InventoryUsedOnce
      <4>2. \A b, c \in Attempts : b # c => netted'[b] \cap netted'[c] = {}
        BY <3>3, <3>4 DEF InventoryInv, InventoryUsedOnce
      <4>. QED  BY <4>1, <4>2 DEF InventoryUsedOnce
    <3>. QED  BY <3>5, <3>6, <3>7 DEF InventoryInv
  <2>3. CASE ~Claimable(a, i)
    <3>1. UNCHANGED <<netted, inventory>>
      BY <1>1, <2>3 DEF TryClaimRow
    <3>. QED  BY <2>1, <3>1, InventoryKept DEF InventoryInv, InventoryTyped
  <2>. QED  BY <2>2, <2>3
<1>2. ASSUME NEW a \in Attempts, NettingFails(a)
      PROVE  InventoryInv'
  BY <1>2 DEF NettingFails, InventoryInv, InventoryTyped, RowsMarked, InventoryUsedOnce
<1>3. ASSUME NEW a \in Attempts, TreasuryShort(a) \/ (SubmitFails(a) /\ RecordOrphan(a))
      PROVE  InventoryInv'
  <2>1. /\ pc[a] \notin Ended /\ RecordOrphan(a) /\ UNCHANGED <<netted, liq>>
        /\ pc' = [pc EXCEPT ![a] = "reply"]
    BY <1>3 DEF TreasuryShort, SubmitFails, Answer, Step, Ended
  <2>. QED  BY <2>1, Orphaned
<1>4. ASSUME NEW a \in Attempts,
             \/ Claim(a) \/ Begin(a) \/ Preflight(a) \/ FillViaPolymarket(a) \/ SignAndSend(a)
             \/ Confirm(a) \/ RecordFill(a) \/ PersistFillAndHedge(a) \/ Finish(a)
             \/ (SubmitFails(a) /\ UNCHANGED inventory)
      PROVE  InventoryInv'
  <2>1. UNCHANGED <<inventory, netted, liq>>
    BY <1>4 DEF Claim, Begin, Preflight, FillViaPolymarket, SignAndSend, Confirm, RecordFill,
       PersistFillAndHedge, Finish, SubmitFails
  <2>2. \E to \in Steps \ {"idle"} : Step(a, to) /\ (pc[a] \in Ended => to \in Ended)
    BY <1>4 DEF Claim, Begin, Preflight, FillViaPolymarket, SignAndSend, Confirm, RecordFill,
       PersistFillAndHedge, Finish, SubmitFails, Answer, Steps, Holding, Ended
  <2>. QED  BY <2>1, <2>2, InventoryKept DEF InventoryInv, InventoryTyped, Step
<1>5. ASSUME NEW a \in Attempts, Land(a)
      PROVE  InventoryInv'
  BY <1>5, InventoryKept DEF Land, attemptVars, InventoryInv, InventoryTyped
<1>6. ASSUME NEW r \in Requests, Expire(r) \/ SweepNonce(r) \/ HedgeFill(r)
      PROVE  InventoryInv'
  BY <1>6, InventoryKept
     DEF Expire, SweepNonce, HedgeFill, attemptVars, InventoryInv, InventoryTyped
<1>7. ASSUME NEW n, ListOrphans(n)
      PROVE  InventoryInv'
  <2>1. UNCHANGED <<inventory, netted, pc>> /\ liq'.claimed = {}
    BY <1>7 DEF ListOrphans, attemptVars, Tick, Idle
  <2>. QED  BY <2>1, InventoryKept DEF InventoryInv, InventoryTyped
<1>8. ASSUME NEW i \in Orders, ClaimOrphan(i)
      PROVE  InventoryInv'
  <2>1. UNCHANGED <<netted, pc>> /\ liq.claimed = {}
    BY <1>8 DEF ClaimOrphan, attemptVars
  <2>2. CASE UNCHANGED inventory
    <3>1. liq'.claimed = {}
      <4>1. UNCHANGED inventory => liq'.claimed = {} \/ (Open(i) /\ inventory'[i].state = "claimed")
        BY <1>8 DEF ClaimOrphan, Tick, Idle, InventoryInv, InventoryTyped
      <4>. QED  BY <2>2, <4>1 DEF Open
    <3>. QED  BY <2>1, <2>2, <3>1, InventoryKept DEF InventoryInv, InventoryTyped
  <2>3. CASE inventory' # inventory
    <3>1. RowMoves(i, "claimed") /\ liq'.claimed = {i}
      BY <1>8, <2>3 DEF ClaimOrphan, RowMoves, Open, Tick
    <3>. QED  BY <2>1, <3>1, RowOfTick
  <2>. QED  BY <2>2, <2>3
<1>9. ASSUME NEW i \in Orders, Liquidate(i) \/ Unclaim(i)
      PROVE  InventoryInv'
  <2>1. UNCHANGED <<netted, pc>> /\ liq'.claimed = {}
    BY <1>9 DEF Liquidate, Unclaim, attemptVars, Tick, Idle
  <2>2. RowMoves(i, "liquidated") \/ RowMoves(i, "open")
    BY <1>9 DEF Liquidate, Unclaim, RowMoves, InventoryInv, RowsMarked
  <2>. QED  BY <2>1, <2>2, RowOfTick
<1>10. ASSUME NEW i \in Orders, Abandon(i)
       PROVE  InventoryInv'
  <2>1. UNCHANGED <<inventory, netted, pc>> /\ liq'.claimed = {}
    BY <1>10 DEF Abandon, attemptVars, Tick, Idle
  <2>. QED  BY <2>1, InventoryKept DEF InventoryInv, InventoryTyped
<1>11. ASSUME Crash
       PROVE  InventoryInv'
  <2>1. /\ UNCHANGED <<inventory, netted, liq>> /\ pc' \in [Attempts -> Steps]
        /\ \A a \in Attempts : pc[a] \in Ended => pc'[a] \in Ended
    BY <1>11 DEF Crash, InventoryInv, InventoryTyped, Steps, Ended
  <2>. QED  BY <2>1, InventoryKept
<1>. QED
  BY <1>1, <1>2, <1>3, <1>4, <1>5, <1>6, <1>7, <1>8, <1>9, <1>10, <1>11
     DEF Next, Orchestrate, SubmitFails

-----------------------------------------------------------------------------
(* Answers                                                                 *)

ChainTyped ==
    /\ sent \subseteq Attempts
    /\ failed \subseteq Attempts
    /\ DOMAIN landed = Requests

(* What a client may be told of a request, and of one attempt: the first   *)
(* stays true, the second for as long as the attempt sends nothing.        *)
Known(r)     == landed[r] # {} \/ \E b \in failed : RequestOf[b] = r
Untouched(a) == a \notin sent \cup failed \cup landed[RequestOf[a]]

Backed(a) ==
    /\ reply[a] = "filled" => Known(RequestOf[a])
    /\ reply[a] \in {"rejected", "duplicate"} => Untouched(a)
    /\ pc[a] \in {"confirmed", "recorded"} => Known(RequestOf[a])
    /\ pc[a] \in {"idle", "check", "net", "filled"} => Untouched(a)
    /\ pc[a] \notin Ended => reply[a] = "none"

AnswerInv ==
    /\ ChainTyped
    /\ \A r \in Requests : key[r] = "filled" => Known(r)
    /\ \A a \in Attempts : Backed(a)

(* One attempt goes on, and the chain does not.                            *)
LEMMA AttemptGoesOn ==
  ASSUME AnswerInv, NEW a \in Attempts, UNCHANGED <<sent, landed, failed, key>>,
         \A b \in Attempts \ {a} : pc'[b] = pc[b] /\ reply'[b] = reply[b],
         Backed(a)'
  PROVE  AnswerInv'
<1>1. ChainTyped' /\ \A r \in Requests : key'[r] = "filled" => Known(r)'
  BY DEF AnswerInv, ChainTyped, Known
<1>2. \A b \in Attempts \ {a} : Backed(b)'
  BY DEF AnswerInv, Backed, Known, Untouched
<1>. QED  BY <1>1, <1>2 DEF AnswerInv

LEMMA AnswersKept ==
  ASSUME AnswerInv, UNCHANGED <<sent, landed, failed, pc, reply>>,
         \A r \in Requests : key'[r] = "filled" => key[r] = "filled"
  PROVE  AnswerInv'
  BY DEF AnswerInv, ChainTyped, Backed, Known, Untouched

LEMMA AnswerStep ==
  ASSUME KeyInv, AnswerInv, Next
  PROVE  AnswerInv'
<1>. USE TradeAssumption
<1>1. ASSUME NEW a \in Attempts, Claim(a)
      PROVE  AnswerInv'
  <2>1. /\ UNCHANGED <<sent, landed, failed>> /\ pc[a] = "idle" /\ RequestOf[a] \in Requests
        /\ \A b \in Attempts \ {a} : pc'[b] = pc[b] /\ reply'[b] = reply[b]
    BY <1>1 DEF Claim, Step, KeyInv, KeyTyped, chainVars
  <2>2. Untouched(a)' /\ reply[a] = "none"
    BY <2>1 DEF AnswerInv, Backed, Untouched, Ended
  <2>3. CASE key[RequestOf[a]] = "none"
    <3>1. /\ key' = [key EXCEPT ![RequestOf[a]] = "pending"]
          /\ UNCHANGED reply /\ pc'[a] = "check"
      BY <1>1, <2>3 DEF Claim, Step, KeyInv, KeyTyped
    <3>2. \A b \in Attempts : Backed(b)'
      BY <2>1, <2>2, <3>1 DEF AnswerInv, Backed, Known, Untouched, Ended
    <3>3. \A r \in Requests : key'[r] = "filled" => Known(r)'
      BY <2>1, <3>1 DEF AnswerInv, Known, KeyInv, KeyTyped
    <3>. QED  BY <2>1, <3>2, <3>3 DEF AnswerInv, ChainTyped
  <2>4. CASE key[RequestOf[a]] # "none"
    <3>1. /\ UNCHANGED key /\ pc'[a] = "done"
          /\ reply'[a] = IF key[RequestOf[a]] = "pending" THEN "duplicate" ELSE key[RequestOf[a]]
      BY <1>1, <2>4 DEF Claim, Step, KeyInv, KeyTyped
    <3>2. key[RequestOf[a]] = "filled" => Known(RequestOf[a])'
      BY <2>1 DEF AnswerInv, Known
    <3>3. Backed(a)'
      BY <2>2, <3>1, <3>2 DEF Backed, Ended
    <3>. QED  BY <2>1, <3>1, <3>3, AttemptGoesOn
  <2>. QED  BY <2>3, <2>4
<1>2. ASSUME NEW a \in Attempts, Finish(a)
      PROVE  AnswerInv'
  <2>1. /\ pc[a] = "reply" /\ UNCHANGED <<sent, landed, failed>> /\ RequestOf[a] \in Requests
        /\ \A b \in Attempts \ {a} : pc'[b] = pc[b] /\ reply'[b] = reply[b]
        /\ pc'[a] = "done" /\ reply'[a] \in {reply[a], "error"}
    BY <1>2 DEF Finish, Step, KeyInv, KeyTyped, chainVars
  <2>2. \A b \in Attempts : Backed(b)'
    BY <2>1 DEF AnswerInv, Backed, Known, Untouched, Ended
  <2>3. /\ \A r \in Requests \ {RequestOf[a]} : key'[r] = key[r]
        /\ key'[RequestOf[a]] \in {key[RequestOf[a]], "none", reply[a]}
    BY <1>2, <2>1 DEF Finish, KeyInv, KeyTyped
  <2>4. \A r \in Requests : key'[r] = "filled" => Known(r)'
    BY <2>1, <2>3 DEF AnswerInv, Backed, Known
  <2>. QED  BY <2>1, <2>2, <2>4 DEF AnswerInv, ChainTyped
<1>3. ASSUME NEW a \in Attempts,
             Begin(a) \/ Preflight(a) \/ FillViaPolymarket(a) \/ TreasuryShort(a)
      PROVE  AnswerInv'
  <2>1. /\ UNCHANGED <<sent, landed, failed, key>> /\ pc[a] \in {"idle", "check", "net", "filled"}
        /\ \A b \in Attempts \ {a} : pc'[b] = pc[b] /\ reply'[b] = reply[b]
    BY <1>3 DEF Begin, Preflight, FillViaPolymarket, TreasuryShort, Answer, Step, KeyInv, KeyTyped,
       chainVars
  <2>2. Untouched(a)' /\ reply[a] = "none"
    BY <2>1 DEF AnswerInv, Backed, Untouched, Ended
  <2>3. \/ pc'[a] \in {"check", "net", "filled"} /\ reply'[a] = reply[a]
        \/ pc'[a] = "reply" /\ reply'[a] \in {"rejected", "error"}
    BY <1>3 DEF Begin, Preflight, FillViaPolymarket, TreasuryShort, Answer, Step, KeyInv, KeyTyped
  <2>4. Backed(a)'
    BY <2>2, <2>3 DEF Backed, Ended
  <2>. QED  BY <2>1, <2>4, AttemptGoesOn
<1>4. ASSUME NEW a \in Attempts, Confirm(a) \/ SubmitFails(a)
      PROVE  AnswerInv'
  <2>1. /\ UNCHANGED <<sent, landed, failed, key>> /\ pc[a] = "sent" /\ RequestOf[a] \in Requests
        /\ \A b \in Attempts \ {a} : pc'[b] = pc[b] /\ reply'[b] = reply[b]
    BY <1>4 DEF Confirm, SubmitFails, Answer, Step, KeyInv, KeyTyped, chainVars
  <2>2. reply[a] = "none"
    BY <2>1 DEF AnswerInv, Backed, Ended
  <2>3. CASE Confirm(a)
    <3>1. pc'[a] = "confirmed" /\ reply'[a] = "none"
      BY <2>2, <2>3 DEF Confirm, Step, KeyInv, KeyTyped
    <3>2. Known(RequestOf[a])'
      BY <2>1, <2>3 DEF Confirm, Known
    <3>. QED  BY <2>1, <3>1, <3>2, AttemptGoesOn DEF Backed, Ended
  <2>4. CASE SubmitFails(a)
    <3>1. pc'[a] = "reply" /\ reply'[a] \in {"reconcile", "error"}
      BY <2>4 DEF SubmitFails, Answer, Step, KeyInv, KeyTyped
    <3>. QED  BY <2>1, <3>1, AttemptGoesOn DEF Backed, Ended
  <2>. QED  BY <1>4, <2>3, <2>4
<1>5. ASSUME NEW a \in Attempts, RecordFill(a) \/ PersistFillAndHedge(a)
      PROVE  AnswerInv'
  <2>1. /\ UNCHANGED <<sent, landed, failed, key>> /\ pc[a] \in {"confirmed", "recorded"}
        /\ \A b \in Attempts \ {a} : pc'[b] = pc[b] /\ reply'[b] = reply[b]
    BY <1>5 DEF RecordFill, PersistFillAndHedge, Answer, Step, KeyInv, KeyTyped, chainVars
  <2>2. Known(RequestOf[a])' /\ reply[a] = "none"
    BY <2>1 DEF AnswerInv, Backed, Known, Ended
  <2>3. \/ pc'[a] = "recorded" /\ reply'[a] = reply[a]
        \/ pc'[a] = "reply" /\ reply'[a] = "filled"
    BY <1>5 DEF RecordFill, PersistFillAndHedge, Answer, Step, KeyInv, KeyTyped
  <2>4. Backed(a)'
    BY <2>2, <2>3 DEF Backed, Ended
  <2>. QED  BY <2>1, <2>4, AttemptGoesOn
<1>6. ASSUME NEW a \in Attempts, SignAndSend(a)
      PROVE  AnswerInv'
  <2>1. /\ UNCHANGED <<key, landed, failed>> /\ pc[a] = "filled"
        /\ sent' \in {sent, sent \cup {a}}
        /\ \A b \in Attempts \ {a} : pc'[b] = pc[b] /\ reply'[b] = reply[b]
        /\ \/ pc'[a] = "sent" /\ reply'[a] = reply[a]
           \/ pc'[a] = "reply" /\ reply'[a] = "error"
    BY <1>6 DEF SignAndSend, Answer, Step, KeyInv, KeyTyped
  <2>2. \A b \in Attempts \ {a} : Backed(b)'
    BY <2>1 DEF AnswerInv, Backed, Known, Untouched
  <2>3. Backed(a)'
    BY <2>1 DEF AnswerInv, Backed, Ended
  <2>. QED  BY <2>1, <2>2, <2>3 DEF AnswerInv, ChainTyped, Known
<1>7. ASSUME NEW a \in Attempts, Land(a)
      PROVE  AnswerInv'
  <2>1. /\ UNCHANGED <<key, pc, reply>> /\ a \in sent /\ sent' = sent \ {a}
        /\ RequestOf[a] \in Requests
    BY <1>7 DEF Land, attemptVars
  <2>2. \/ /\ UNCHANGED failed
           /\ landed' = [landed EXCEPT ![RequestOf[a]] = @ \cup {a}]
        \/ failed' \in {failed, failed \cup {a}} /\ UNCHANGED landed
    BY <1>7 DEF Land
  <2>3. \A r \in Requests : Known(r) => Known(r)'
    BY <2>1, <2>2 DEF AnswerInv, ChainTyped, Known
  <2>4. \A b \in Attempts \ {a} : Untouched(b) => Untouched(b)'
    BY <2>1, <2>2 DEF AnswerInv, ChainTyped, Untouched
  <2>5. ~Untouched(a)
    BY <2>1 DEF Untouched
  <2>6. \A b \in Attempts : Backed(b)'
    BY <2>1, <2>3, <2>4, <2>5 DEF AnswerInv, Backed
  <2>7. ChainTyped'
    BY <2>1, <2>2 DEF AnswerInv, ChainTyped
  <2>. QED  BY <2>1, <2>3, <2>6, <2>7 DEF AnswerInv
<1>8. ASSUME Crash
      PROVE  AnswerInv'
  <2>1. /\ UNCHANGED <<sent, landed, failed, key>>
        /\ \A b \in Attempts :
              \/ pc'[b] = "done" /\ reply'[b] = "none"
              \/ pc'[b] = pc[b] /\ reply'[b] = reply[b]
    BY <1>8 DEF Crash, chainVars
  <2>2. \A b \in Attempts : Backed(b)'
    BY <2>1 DEF AnswerInv, Backed, Known, Untouched, Ended
  <2>. QED  BY <2>1, <2>2 DEF AnswerInv, ChainTyped, Known
<1>9. ASSUME \/ \E r \in Requests : Expire(r) \/ SweepNonce(r) \/ HedgeFill(r)
             \/ \E a \in Attempts : NettingFails(a) \/ \E i \in Orders : TryClaimRow(a, i)
             \/ \E n \in 0 .. Cardinality(Attempts) : ListOrphans(n)
             \/ \E i \in Orders : ClaimOrphan(i) \/ Liquidate(i) \/ Unclaim(i) \/ Abandon(i)
      PROVE  AnswerInv'
  <2>1. UNCHANGED <<sent, landed, failed, pc, reply>>
    BY <1>9 DEF Expire, SweepNonce, HedgeFill, NettingFails, TryClaimRow, ListOrphans, ClaimOrphan,
       Liquidate, Unclaim, Abandon, attemptVars, chainVars
  <2>2. UNCHANGED key \/ \E r \in Requests : key' = [key EXCEPT ![r] = "none"]
    BY <1>9 DEF Expire, SweepNonce, HedgeFill, NettingFails, TryClaimRow, ListOrphans, ClaimOrphan,
       Liquidate, Unclaim, Abandon
  <2>3. \A r \in Requests : key'[r] = "filled" => key[r] = "filled"
    BY <2>2 DEF KeyInv, KeyTyped
  <2>. QED  BY <2>1, <2>3, AnswersKept
<1>. QED
  BY <1>1, <1>2, <1>3, <1>4, <1>5, <1>6, <1>7, <1>8, <1>9 DEF Next, Orchestrate

-----------------------------------------------------------------------------
(* Rows and fills                                                          *)

Submitted == {"sent", "confirmed", "recorded", "reply", "done"}

RowsTyped ==
    /\ DOMAIN leg = Attempts
    /\ DOMAIN fillRow = Requests
    /\ DOMAIN hedge = Requests

(* The row of a request is written from its fill; what a confirmed attempt *)
(* signed is the size of the fill, unless its transaction failed on chain. *)
Clean(r) == \A a \in failed : RequestOf[a] # r

FillsBy == \A r \in Requests : \A a \in landed[r] : a \in Attempts /\ RequestOf[a] = r

ConfirmedFills == \A a \in Attempts :
    /\ pc[a] \in {"confirmed", "recorded"} /\ Clean(RequestOf[a]) => a \in landed[RequestOf[a]]
    /\ pc[a] = "recorded" => HedgeFirst

RowsInv == RowsTyped /\ FillsBy /\ ConfirmedFills /\ RowsMatchChain

(* Once it has signed, an attempt holds the same shares for good: the rows *)
(* it netted are nobody else's, and no row that is netted is rewritten.    *)
LEMMA NettedSharesKept ==
  ASSUME InventoryInv, Next, NEW i \in Orders, inventory[i].state = "netted"
  PROVE  inventory'[i].shares = inventory[i].shares
<1>1. ASSUME NEW a \in Attempts, TreasuryShort(a) \/ SubmitFails(a)
      PROVE  inventory'[i].shares = inventory[i].shares
  <2>1. pc[a] \notin Ended /\ (RecordOrphan(a) \/ UNCHANGED inventory)
    BY <1>1 DEF TreasuryShort, SubmitFails, Ended
  <2>2. i # a
    BY <2>1 DEF InventoryInv, RowsMarked
  <2>. QED  BY <2>1, <2>2 DEF RecordOrphan, InventoryInv, InventoryTyped
<1>2. ASSUME NEW j \in Orders, NEW to, inventory' = [inventory EXCEPT ![j].state = to]
      PROVE  inventory'[i].shares = inventory[i].shares
  BY <1>2 DEF InventoryInv, InventoryTyped
<1>3. ASSUME NEW a \in Attempts, NEW j \in Orders, TryClaimRow(a, j)
      PROVE  inventory'[i].shares = inventory[i].shares
  <2>1. UNCHANGED inventory \/ inventory' = [inventory EXCEPT ![j].state = "netted"]
    BY <1>3 DEF TryClaimRow
  <2>. QED  BY <2>1, <1>2
<1>4. ASSUME NEW j \in Orders, ClaimOrphan(j) \/ Liquidate(j) \/ Unclaim(j) \/ Abandon(j)
      PROVE  inventory'[i].shares = inventory[i].shares
  <2>1. UNCHANGED inventory \/ \E to : inventory' = [inventory EXCEPT ![j].state = to]
    BY <1>4 DEF ClaimOrphan, Liquidate, Unclaim, Abandon
  <2>. QED  BY <2>1, <1>2
<1>5. ASSUME NEW a \in Attempts,
             \/ Claim(a) \/ Begin(a) \/ Preflight(a) \/ NettingFails(a) \/ FillViaPolymarket(a)
             \/ SignAndSend(a) \/ Confirm(a) \/ RecordFill(a) \/ PersistFillAndHedge(a)
             \/ Finish(a) \/ Land(a)
      PROVE  UNCHANGED inventory
  BY <1>5 DEF Claim, Begin, Preflight, NettingFails, FillViaPolymarket, SignAndSend, Confirm,
     RecordFill, PersistFillAndHedge, Finish, Land
<1>6. ASSUME \/ \E r \in Requests : Expire(r) \/ SweepNonce(r) \/ HedgeFill(r)
             \/ \E n \in 0 .. Cardinality(Attempts) : ListOrphans(n)
             \/ Crash
      PROVE  UNCHANGED inventory
  BY <1>6 DEF Expire, SweepNonce, HedgeFill, ListOrphans, Crash
<1>. QED
  BY <1>1, <1>3, <1>4, <1>5, <1>6 DEF Next, Orchestrate

LEMMA LegsKept ==
  ASSUME InventoryInv, RowsTyped, Next, NEW a \in Attempts, pc[a] \in Submitted
  PROVE  leg'[a] = leg[a] /\ netted'[a] = netted[a]
<1>1. ASSUME NEW b \in Attempts,
             NettingFails(b) \/ FillViaPolymarket(b) \/ \E i \in Orders : TryClaimRow(b, i)
      PROVE  leg'[a] = leg[a] /\ netted'[a] = netted[a]
  <2>1. b # a
    BY <1>1 DEF NettingFails, FillViaPolymarket, TryClaimRow, Submitted
  <2>2. /\ UNCHANGED leg \/ \E n : leg' = [leg EXCEPT ![b] = n]
        /\ UNCHANGED netted \/ \E n : netted' = [netted EXCEPT ![b] = n]
    BY <1>1 DEF NettingFails, FillViaPolymarket, TryClaimRow
  <2>. QED  BY <2>1, <2>2 DEF InventoryInv, InventoryTyped, RowsTyped
<1>2. ASSUME NEW b \in Attempts,
             \/ Claim(b) \/ Begin(b) \/ Preflight(b) \/ TreasuryShort(b) \/ SignAndSend(b)
             \/ Confirm(b) \/ SubmitFails(b) \/ RecordFill(b) \/ PersistFillAndHedge(b)
             \/ Finish(b) \/ Land(b)
      PROVE  UNCHANGED <<leg, netted>>
  BY <1>2 DEF Claim, Begin, Preflight, TreasuryShort, SignAndSend, Confirm, SubmitFails,
     RecordFill, PersistFillAndHedge, Finish, Land, attemptVars
<1>3. ASSUME \/ \E r \in Requests : Expire(r) \/ SweepNonce(r) \/ HedgeFill(r)
             \/ \E n \in 0 .. Cardinality(Attempts) : ListOrphans(n)
             \/ \E i \in Orders : ClaimOrphan(i) \/ Liquidate(i) \/ Unclaim(i) \/ Abandon(i)
             \/ Crash
      PROVE  UNCHANGED <<leg, netted>>
  BY <1>3 DEF Expire, SweepNonce, HedgeFill, ListOrphans, ClaimOrphan, Liquidate, Unclaim,
     Abandon, Crash, attemptVars
<1>. QED
  BY <1>1, <1>2, <1>3 DEF Next, Orchestrate

LEMMA NettedFinite ==
  ASSUME InventoryInv, NEW a \in Attempts
  PROVE  netted[a] \subseteq Orders /\ IsFiniteSet(netted[a]) /\ IsFiniteSet(Orders)
<1>1. IsFiniteSet(Orders)
  BY TradeAssumption, FS_Union DEF Orders
<1>2. netted[a] \subseteq Orders
  BY DEF InventoryInv, InventoryTyped
<1>. QED  BY <1>1, <1>2, FS_Subset

LEMMA HeldKept ==
  ASSUME InventoryInv, Next, NEW a \in Attempts, netted'[a] = netted[a]
  PROVE  /\ RowShares(netted[a])' = RowShares(netted[a])
         /\ leg'[a] = leg[a] => Held(a)' = Held(a)
<1>1. \A i \in netted[a] : i \in Orders /\ inventory[i].state = "netted"
  BY DEF InventoryInv, InventoryTyped, InventoryUsedOnce
<1>2. \A i \in netted[a] : inventory'[i].shares = inventory[i].shares
  BY <1>1, NettedSharesKept
<1>. DEFINE f == [i \in Orders |-> inventory[i].shares]
            g == [i \in Orders |-> inventory'[i].shares]
<1>3. \A i \in netted[a] : f[i] = g[i]
  BY <1>1, <1>2
<1>4. RowShares(netted[a]) = SumFunctionOnSet(f, netted[a])
      /\ RowShares(netted[a])' = SumFunctionOnSet(g, netted[a])
  BY DEF RowShares
<1>. HIDE DEF f, g
<1>5. SumFunctionOnSet(f, netted[a]) = SumFunctionOnSet(g, netted[a])
  BY <1>3, NettedFinite, SumSame
<1>. QED  BY <1>4, <1>5 DEF Held

LEMMA PathKept ==
  ASSUME Next
  PROVE  UNCHANGED <<path, side>>
  BY DEF Next, Orchestrate, Claim, Begin, Preflight, TryClaimRow, NettingFails, FillViaPolymarket,
     TreasuryShort, SignAndSend, Confirm, SubmitFails, RecordFill, PersistFillAndHedge, Finish,
     Land, Expire, SweepNonce, HedgeFill, ListOrphans, ClaimOrphan, Liquidate, Unclaim, Abandon,
     Crash

LEMMA SignedKept ==
  ASSUME InventoryInv, RowsTyped, Next, NEW a \in Attempts, pc[a] \in Submitted
  PROVE  Signed(a)' = Signed(a) /\ (HedgeFirst' <=> HedgeFirst)
<1>1. leg'[a] = leg[a] /\ netted'[a] = netted[a]
  BY LegsKept
<1>5. Held(a)' = Held(a)
  BY <1>1, HeldKept
<1>6. path' = path
  BY PathKept
<1>. QED  BY <1>5, <1>6 DEF Signed, HedgeFirst

(* What happens besides to the fills and rows of a request.               *)
LEMMA RowsKept ==
  ASSUME RowsInv, UNCHANGED <<landed, failed, rowVars>>, DOMAIN leg' = Attempts,
         \A a \in Attempts : a \in landed[RequestOf[a]] => Signed(a)' = Signed(a),
         \A a \in Attempts : pc'[a] \in {"confirmed", "recorded"} =>
            \/ pc[a] = pc'[a] /\ (HedgeFirst => HedgeFirst')
            \/ /\ Clean(RequestOf[a]) => a \in landed[RequestOf[a]]
               /\ pc'[a] = "recorded" => HedgeFirst'
  PROVE  RowsInv'
<1>1. RowsTyped' /\ RowsMatchChain'
  BY DEF RowsInv, RowsTyped, RowsMatchChain, FillsBy, rowVars
<1>2. FillsBy'
  BY DEF RowsInv, FillsBy
<1>3. ConfirmedFills'
  BY DEF RowsInv, ConfirmedFills, Clean
<1>. QED  BY <1>1, <1>2, <1>3 DEF RowsInv

LEMMA RowsStep ==
  ASSUME KeyInv, InventoryInv, AnswerInv, RowsInv, Next
  PROVE  RowsInv'
<1>. USE TradeAssumption
<1>1. \A a \in Attempts : pc[a] \in Submitted =>
         Signed(a)' = Signed(a) /\ (HedgeFirst' <=> HedgeFirst)
  BY SignedKept DEF RowsInv
<1>2. \A a \in Attempts : a \in sent \cup landed[RequestOf[a]] => pc[a] \in Submitted
  BY DEF AnswerInv, Backed, Untouched, KeyInv, KeyTyped, Steps, Holding, Submitted
<1>3. \A a \in Attempts : a \in landed[RequestOf[a]] => Signed(a)' = Signed(a)
  BY <1>1, <1>2
<1>4. ASSUME NEW a \in Attempts, Land(a)
      PROVE  RowsInv'
  <2>1. /\ UNCHANGED <<rowVars, pc, leg>> /\ a \in sent /\ RequestOf[a] \in Requests
        /\ \A b \in Attempts : Signed(b)' = Signed(b) /\ (HedgeFirst' <=> HedgeFirst)
    BY <1>4 DEF Land, attemptVars, Signed, Held, RowShares, HedgeFirst
  <2>2. CASE UNCHANGED landed /\ failed' \in {failed, failed \cup {a}}
    <3>1. \A r \in Requests : Clean(r)' => Clean(r)
      BY <2>2 DEF Clean
    <3>2. FillsBy'
      BY <2>1, <2>2 DEF RowsInv, FillsBy
    <3>3. RowsTyped' /\ ConfirmedFills'
      BY <2>1, <2>2, <3>1 DEF RowsInv, RowsTyped, ConfirmedFills, rowVars
    <3>4. RowsMatchChain'
      BY <1>3, <2>1, <2>2, <3>1 DEF RowsInv, RowsMatchChain, FillsBy, Clean, rowVars
    <3>. QED  BY <3>2, <3>3, <3>4 DEF RowsInv
  <2>3. CASE /\ UNCHANGED failed
             /\ landed' = [landed EXCEPT ![RequestOf[a]] = @ \cup {a}]
    <3>1. /\ landed'[RequestOf[a]] = landed[RequestOf[a]] \cup {a}
          /\ \A r \in Requests \ {RequestOf[a]} : landed'[r] = landed[r]
      BY <2>1, <2>3 DEF AnswerInv, ChainTyped
    <3>2. \A r \in Requests : Clean(r)' <=> Clean(r)
      BY <2>3 DEF Clean
    <3>3. FillsBy'
      BY <2>1, <3>1 DEF RowsInv, FillsBy
    <3>4. ConfirmedFills'
      BY <2>1, <3>1, <3>2 DEF RowsInv, ConfirmedFills
    <3>5. RowsTyped'
      BY <2>1 DEF RowsInv, RowsTyped, rowVars
    <3>6. RowsMatchChain'
      BY <2>1, <3>1, <3>2 DEF RowsInv, RowsMatchChain, FillsBy, Clean, rowVars
    <3>. QED  BY <3>3, <3>4, <3>5, <3>6 DEF RowsInv
  <2>. QED  BY <1>4, <2>2, <2>3 DEF Land
<1>5. ASSUME NEW a \in Attempts, RecordFill(a) \/ PersistFillAndHedge(a)
      PROVE  RowsInv'
  <2>1. /\ UNCHANGED <<landed, failed, leg>> /\ pc[a] \in {"confirmed", "recorded"}
        /\ pc[a] = "recorded" => HedgeFirst
        /\ Clean(RequestOf[a]) => a \in landed[RequestOf[a]]
        /\ RequestOf[a] \in Requests
    BY <1>5 DEF RecordFill, PersistFillAndHedge, chainVars, RowsInv, ConfirmedFills
  <2>2. \A r \in Requests : \A b \in landed[r] : Signed(b)' = Signed(b)
    BY <1>3 DEF RowsInv, FillsBy
  <2>3. /\ DOMAIN fillRow' = Requests
        /\ \A r \in Requests : fillRow'[r] # fillRow[r] =>
              r = RequestOf[a] /\ fillRow[r] = 0 /\ fillRow'[r] = Signed(a)
    BY <1>5 DEF RecordFill, PersistFillAndHedge, rowVars, RowsInv, RowsTyped
  <2>4. \/ hedge' = hedge
        \/ /\ hedge' = [hedge EXCEPT ![RequestOf[a]] = Signed(a)]
           /\ fillRow'[RequestOf[a]] = Signed(a)
    BY <1>5, <2>1 DEF RecordFill, PersistFillAndHedge, rowVars, Signed, RowsInv, RowsTyped
  <2>9. RowsTyped'
    BY <2>1, <2>3, <2>4 DEF RowsInv, RowsTyped
  <2>10. ASSUME NEW r \in Requests, Clean(r)
         PROVE  /\ fillRow'[r] # 0 => \E b \in landed[r] : fillRow'[r] = Signed(b)
                /\ hedge'[r] # 0 => hedge'[r] = fillRow'[r]
    <3>1. /\ fillRow[r] # 0 => \E b \in landed[r] : fillRow[r] = Signed(b)
          /\ hedge[r] # 0 => hedge[r] = fillRow[r]
      BY <2>10 DEF RowsInv, RowsMatchChain, Clean
    <3>2. fillRow'[r] # 0 => \E b \in landed[r] : fillRow'[r] = Signed(b)
      BY <2>1, <2>3, <2>10, <3>1
    <3>3. hedge'[r] # 0 => hedge'[r] = fillRow'[r]
      BY <2>3, <2>4, <3>1 DEF RowsInv, RowsTyped
    <3>. QED  BY <3>2, <3>3
  <2>5. RowsTyped' /\ RowsMatchChain'
    <3>1. landed' = landed /\ failed' = failed
      BY <2>1
    <3>. QED  BY <2>2, <2>9, <2>10, <3>1 DEF RowsMatchChain, Clean
  <2>6. FillsBy'
    BY <1>3, <2>1 DEF RowsInv, FillsBy
  <2>7. /\ \A b \in Attempts \ {a} : pc'[b] = pc[b]
        /\ pc'[a] = "recorded" => HedgeFirst
        /\ pc'[a] # "confirmed"
        /\ HedgeFirst' <=> HedgeFirst
    BY <1>5 DEF RecordFill, PersistFillAndHedge, Answer, Step, KeyInv, KeyTyped, HedgeFirst
  <2>8. ConfirmedFills'
    BY <2>1, <2>7 DEF RowsInv, ConfirmedFills, Clean
  <2>. QED  BY <2>5, <2>6, <2>8 DEF RowsInv
<1>6. ASSUME NEW r \in Requests, HedgeFill(r)
      PROVE  RowsInv'
  <2>1. /\ UNCHANGED <<landed, failed, leg, pc, path>>
        /\ \E a \in landed[r] :
              fillRow' = [fillRow EXCEPT ![r] = IF @ = 0 THEN Signed(a) ELSE @]
        /\ hedge' = [hedge EXCEPT ![r] = fillRow'[r]]
    BY <1>6 DEF HedgeFill, chainVars, attemptVars
  <2>2. \A q \in Requests : \A b \in landed[q] : Signed(b)' = Signed(b)
    BY <1>3 DEF RowsInv, FillsBy
  <2>4. PICK a \in landed[r] : fillRow' = [fillRow EXCEPT ![r] = IF @ = 0 THEN Signed(a) ELSE @]
    BY <2>1
  <2>5. RowsTyped' /\ RowsMatchChain'
    BY <2>1, <2>2, <2>4 DEF RowsInv, RowsTyped, RowsMatchChain
  <2>3. FillsBy' /\ ConfirmedFills'
    BY <1>3, <2>1 DEF RowsInv, FillsBy, ConfirmedFills, Clean, HedgeFirst
  <2>. QED  BY <2>3, <2>5 DEF RowsInv
<1>7. ASSUME NEW a \in Attempts, Confirm(a)
      PROVE  RowsInv'
  <2>1. /\ UNCHANGED <<landed, failed, rowVars, leg, path>>
        /\ a \in landed[RequestOf[a]] \cup failed
        /\ pc'[a] = "confirmed" /\ \A b \in Attempts \ {a} : pc'[b] = pc[b]
    BY <1>7 DEF Confirm, chainVars, Step, KeyInv, KeyTyped
  <2>2. Clean(RequestOf[a]) => a \in landed[RequestOf[a]]
    BY <2>1 DEF Clean
  <2>. QED  BY <1>3, <2>1, <2>2, RowsKept DEF HedgeFirst, RowsInv, RowsTyped
<1>8. ASSUME NEW a \in Attempts,
             \/ Claim(a) \/ Begin(a) \/ Preflight(a) \/ FillViaPolymarket(a) \/ TreasuryShort(a)
             \/ SignAndSend(a) \/ SubmitFails(a) \/ Finish(a)
             \/ NettingFails(a) \/ \E i \in Orders : TryClaimRow(a, i)
      PROVE  RowsInv'
  <2>1. UNCHANGED <<landed, failed, rowVars, path>>
    BY <1>8 DEF Claim, Begin, Preflight, FillViaPolymarket, TreasuryShort, SignAndSend,
       SubmitFails, Finish, NettingFails, TryClaimRow, chainVars
  <2>2. DOMAIN leg' = Attempts
    BY <1>8 DEF Claim, Begin, Preflight, FillViaPolymarket, TreasuryShort, SignAndSend,
       SubmitFails, Finish, NettingFails, TryClaimRow, RowsInv, RowsTyped
  <2>3. UNCHANGED pc \/ \E to : Step(a, to) /\ to \notin {"confirmed", "recorded"}
    BY <1>8 DEF Claim, Begin, Preflight, FillViaPolymarket, TreasuryShort, SignAndSend,
       SubmitFails, Finish, NettingFails, TryClaimRow, Answer
  <2>4. \A b \in Attempts : pc'[b] \in {"confirmed", "recorded"} => pc'[b] = pc[b]
    BY <2>3 DEF Step, KeyInv, KeyTyped
  <2>. QED  BY <1>3, <2>1, <2>2, <2>4, RowsKept DEF HedgeFirst
<1>9. ASSUME \/ \E r \in Requests : Expire(r) \/ SweepNonce(r)
             \/ \E n \in 0 .. Cardinality(Attempts) : ListOrphans(n)
             \/ \E i \in Orders : ClaimOrphan(i) \/ Liquidate(i) \/ Unclaim(i) \/ Abandon(i)
             \/ Crash
      PROVE  RowsInv'
  <2>1. UNCHANGED <<landed, failed, rowVars, path, leg>>
    BY <1>9 DEF Expire, SweepNonce, ListOrphans, ClaimOrphan, Liquidate, Unclaim, Abandon, Crash,
       chainVars, attemptVars
  <2>2. \A b \in Attempts : pc'[b] \in {"confirmed", "recorded"} => pc'[b] = pc[b]
    BY <1>9 DEF Expire, SweepNonce, ListOrphans, ClaimOrphan, Liquidate, Unclaim, Abandon, Crash,
       attemptVars
  <2>. QED  BY <1>3, <2>1, <2>2, RowsKept DEF HedgeFirst, RowsInv, RowsTyped
<1>. QED
  BY <1>4, <1>5, <1>6, <1>7, <1>8, <1>9 DEF Next, Orchestrate

-----------------------------------------------------------------------------
(* Types and sizes                                                         *)

RowRecord ==
    [state : {"none", "open", "netted", "claimed", "liquidated"}, shares : Nat, at : Nat]

(* What the invariants above leave untyped.                                *)
CountsTyped ==
    /\ cand \in [Attempts -> SUBSET Orders]
    /\ leg \in [Attempts -> Nat]
    /\ inventory \in [Orders -> RowRecord]
    /\ landed \in [Requests -> SUBSET Attempts]
    /\ fillRow \in [Requests -> Nat]
    /\ hedge \in [Requests -> Nat]
    /\ liq \in [rows : SUBSET Orders, budget : Int, claimed : SUBSET Orders]
    /\ crashes \in Nat
    /\ position \in Int
    /\ unrecorded \in Int
    /\ lapsed \subseteq Requests

NonceTyped ==
    /\ side \in {"BUY", "SELL"}
    /\ used \subseteq Requests
    /\ quote \in [Requests -> {"live", "consumed", "closed"}]

HeldBound == \A a \in Attempts :
    /\ RowShares(netted[a]) <= Size[RequestOf[a]]
    /\ Held(a) <= Size[RequestOf[a]] + Excess(side)

(* Shares come to an attempt while it nets and orders, never on the path   *)
(* without a hedge; a Hedge row comes with a Fill row.                     *)
LegShape ==
    /\ \A a \in Attempts :
        /\ pc[a] \in {"idle", "check"} => netted[a] = {}
        /\ pc[a] \in {"idle", "check", "net"} => leg[a] = 0
        /\ pc[a] = "net" => HedgeFirst
        /\ ~HedgeFirst => leg[a] = 0 /\ netted[a] = {}
    /\ \A r \in Requests : fillRow[r] = 0 => hedge[r] = 0

SizeInv == CountsTyped /\ NonceTyped /\ LegShape /\ HeldBound

AllInv == KeyInv /\ InventoryInv /\ AnswerInv /\ RowsInv /\ SizeInv

LEMMA SharesNat ==
  ASSUME NEW inv \in [Orders -> RowRecord], NEW rows, rows \subseteq Orders
  PROVE  SumFunctionOnSet([i \in Orders |-> inv[i].shares], rows) \in Nat
<1>. DEFINE f == [i \in Orders |-> inv[i].shares]
<1>1. IsFiniteSet(rows)
  BY TradeAssumption, FS_Union, FS_Subset DEF Orders
<1>2. \A i \in rows : f[i] \in Nat
  BY DEF RowRecord
<1>. HIDE DEF f
<1>3. SumFunctionOnSet(f, rows) \in Nat
  BY <1>1, <1>2, SumNat
<1>. QED  BY <1>3 DEF f

LEMMA HeldNat ==
  ASSUME CountsTyped, InventoryTyped, NEW a \in Attempts
  PROVE  /\ RowShares(netted[a]) \in Nat
         /\ Held(a) \in Nat
         /\ Signed(a) \in Nat
         /\ Remaining(a) \in Int
         /\ RequestOf[a] \in Requests /\ Size[RequestOf[a]] \in Nat
<1>1. RowShares(netted[a]) \in Nat
  BY SharesNat DEF RowShares, CountsTyped, InventoryTyped
<1>2. RequestOf[a] \in Requests /\ Size[RequestOf[a]] \in Nat
  BY TradeAssumption
<1>. QED  BY <1>1, <1>2 DEF Held, Signed, Remaining, CountsTyped

LEMMA FlightInt ==
  ASSUME CountsTyped, InventoryTyped
  PROVE  InFlight \in Int
<1>. DEFINE f == [a \in Attempts |-> Held(a)]
            T == {a \in Attempts : pc[a] \in Holding}
<1>1. IsFiniteSet(T)
  BY TradeAssumption, FS_Subset
<1>2. \A a \in T : f[a] \in Int
  BY HeldNat
<1>. HIDE DEF f, T
<1>3. SumFunctionOnSet(f, T) \in Int
  BY <1>1, <1>2, SumInt
<1>. QED  BY <1>3 DEF InFlight, f, T

LEMMA ExcessNat == \A orderSide : Excess(orderSide) \in Nat
  BY TradeAssumption DEF Excess

LEMMA OrderableInt ==
  ASSUME CountsTyped, InventoryTyped
  PROVE  Orderable \in Int
<1>. DEFINE f == [a \in Attempts |-> Remaining(a) + Excess(side)]
            T == {a \in Attempts : Ordering(a)}
<1>1. IsFiniteSet(T)
  BY TradeAssumption, FS_Subset
<1>2. \A a \in T : f[a] \in Int
  BY HeldNat, ExcessNat
<1>. HIDE DEF f, T
<1>3. SumFunctionOnSet(f, T) \in Int
  BY <1>1, <1>2, SumInt
<1>. QED  BY <1>3 DEF Orderable, f, T

LEMMA StateTyped ==
  ASSUME inventory \in [Orders -> RowRecord], NEW i \in Orders,
         NEW to \in {"none", "open", "netted", "claimed", "liquidated"},
         inventory' = [inventory EXCEPT ![i].state = to]
  PROVE  inventory' \in [Orders -> RowRecord]
<1>1. [inventory[i] EXCEPT !.state = to] \in RowRecord
  BY DEF RowRecord
<1>2. inventory' = [inventory EXCEPT ![i] = [inventory[i] EXCEPT !.state = to]]
  OBVIOUS
<1>. QED  BY <1>1, <1>2

LEMMA CountsStep ==
  ASSUME AllInv, Next
  PROVE  CountsTyped'
<1>. USE TradeAssumption
<1>1. CountsTyped /\ InventoryTyped /\ DOMAIN inventory = Orders
  BY DEF AllInv, SizeInv, InventoryInv, InventoryTyped
<1>2. ASSUME NEW a \in Attempts, NEW i \in Orders, TryClaimRow(a, i)
      PROVE  CountsTyped'
  <2>1. /\ cand' = [cand EXCEPT ![a] = @ \ {i}]
        /\ inventory' = inventory \/ inventory' = [inventory EXCEPT ![i].state = "netted"]
        /\ UNCHANGED <<leg, landed, fillRow, hedge, liq, crashes, position, unrecorded, lapsed>>
    BY <1>2 DEF TryClaimRow, chainVars, rowVars
  <2>2. inventory' \in [Orders -> RowRecord]
    BY <1>1, <2>1, StateTyped DEF CountsTyped
  <2>. QED  BY <1>1, <2>1, <2>2 DEF CountsTyped
<1>3. ASSUME NEW a \in Attempts, NettingFails(a)
      PROVE  CountsTyped'
  <2>1. RowShares(netted[a]) \in Nat
    BY <1>1, HeldNat
  <2>. QED  BY <1>1, <1>3, <2>1 DEF NettingFails, CountsTyped, chainVars, rowVars
<1>4. ASSUME NEW a \in Attempts, FillViaPolymarket(a)
      PROVE  CountsTyped'
  <2>1. RowShares(netted[a]) \in Nat /\ Remaining(a) + Excess(side) \in Int
    BY <1>1, HeldNat, ExcessNat
  <2>2. UNCHANGED <<cand, inventory, landed, fillRow, hedge, liq, crashes, lapsed>>
    BY <1>4 DEF FillViaPolymarket, chainVars, rowVars
  <2>3. \/ UNCHANGED <<leg, position, unrecorded>>
        \/ \E shares \in 0 .. Remaining(a) + Excess(side) :
              /\ leg' \in {leg, [leg EXCEPT ![a] = shares]}
              /\ position' = position + shares
              /\ unrecorded' \in {unrecorded, unrecorded + shares + RowShares(netted[a])}
    BY <1>4, <2>1 DEF FillViaPolymarket
  <2>4. ASSUME NEW shares \in 0 .. Remaining(a) + Excess(side),
               leg' \in {leg, [leg EXCEPT ![a] = shares]},
               position' = position + shares,
               unrecorded' \in {unrecorded, unrecorded + shares + RowShares(netted[a])}
        PROVE  leg' \in [Attempts -> Nat] /\ position' \in Int /\ unrecorded' \in Int
    <3>1. shares \in Nat
      BY <2>1
    <3>. QED  BY <1>1, <2>1, <2>4, <3>1 DEF CountsTyped
  <2>5. leg' \in [Attempts -> Nat] /\ position' \in Int /\ unrecorded' \in Int
    BY <1>1, <2>3, <2>4 DEF CountsTyped
  <2>. QED  BY <1>1, <2>2, <2>5 DEF CountsTyped
<1>5. ASSUME NEW a \in Attempts, TreasuryShort(a) \/ SubmitFails(a)
      PROVE  CountsTyped'
  <2>1. UNCHANGED <<cand, leg, landed, fillRow, hedge, liq, crashes, position, lapsed>>
    BY <1>5 DEF TreasuryShort, SubmitFails, chainVars, rowVars
  <2>2. \/ UNCHANGED <<inventory, unrecorded>>
        \/ RecordOrphan(a)
    BY <1>5 DEF TreasuryShort, SubmitFails
  <2>3. Held(a) \in Nat
    BY <1>1, HeldNat
  <2>4. Cardinality({i \in Attempts : inventory[i] # NoRow}) \in Nat
    BY FS_Subset, FS_CardinalityType
  <2>5. a \in Orders
    BY DEF Orders
  <2>6. inventory' \in [Orders -> RowRecord] /\ unrecorded' \in Int
    <3>1. CASE UNCHANGED <<inventory, unrecorded>>
      BY <1>1, <3>1 DEF CountsTyped
    <3>2. CASE RecordOrphan(a)
      <4>1. CASE UNCHANGED inventory /\ unrecorded' = unrecorded + Held(a)
        BY <1>1, <2>3, <4>1 DEF CountsTyped
      <4>2. CASE /\ inventory' = [inventory EXCEPT ![a] =
                       [state |-> "open", shares |-> Held(a),
                        at |-> 1 + Cardinality({i \in Attempts : inventory[i] # NoRow})]]
                 /\ UNCHANGED unrecorded
        <5>1. [state |-> "open", shares |-> Held(a),
               at |-> 1 + Cardinality({i \in Attempts : inventory[i] # NoRow})] \in RowRecord
          BY <2>3, <2>4 DEF RowRecord
        <5>. QED  BY <1>1, <2>5, <4>2, <5>1 DEF CountsTyped
      <4>. QED  BY <3>2, <4>1, <4>2 DEF RecordOrphan
    <3>. QED  BY <2>2, <3>1, <3>2
  <2>. QED  BY <1>1, <2>1, <2>6 DEF CountsTyped
<1>6. ASSUME NEW a \in Attempts,
             SignAndSend(a) \/ Land(a) \/ RecordFill(a) \/ PersistFillAndHedge(a)
      PROVE  CountsTyped'
  <2>1. Held(a) \in Nat /\ Signed(a) \in Nat /\ RequestOf[a] \in Requests
    BY <1>1, HeldNat
  <2>2. /\ UNCHANGED <<cand, leg, inventory, liq, crashes, lapsed>>
        /\ UNCHANGED position
        /\ unrecorded' = unrecorded \/ unrecorded' = unrecorded + Held(a)
    BY <1>6 DEF SignAndSend, Land, RecordFill, PersistFillAndHedge, attemptVars
  <2>3. \/ landed' = landed
        \/ landed' = [landed EXCEPT ![RequestOf[a]] = @ \cup {a}]
    BY <1>6 DEF SignAndSend, Land, RecordFill, PersistFillAndHedge, chainVars
  <2>4. \/ fillRow' = fillRow
        \/ \E n \in {fillRow[RequestOf[a]], Signed(a)} :
              fillRow' = [fillRow EXCEPT ![RequestOf[a]] = n]
    BY <1>6 DEF SignAndSend, Land, RecordFill, PersistFillAndHedge, rowVars
  <2>5. hedge' = hedge \/ hedge' = [hedge EXCEPT ![RequestOf[a]] = Held(a)]
    BY <1>6 DEF SignAndSend, Land, RecordFill, PersistFillAndHedge, rowVars
  <2>6. landed' \in [Requests -> SUBSET Attempts]
    BY <1>1, <2>1, <2>3 DEF CountsTyped
  <2>7. fillRow' \in [Requests -> Nat] /\ hedge' \in [Requests -> Nat]
    <3>1. fillRow[RequestOf[a]] \in Nat
      BY <1>1, <2>1 DEF CountsTyped
    <3>2. \A n \in {fillRow[RequestOf[a]], Signed(a)} :
              [fillRow EXCEPT ![RequestOf[a]] = n] \in [Requests -> Nat]
      BY <1>1, <2>1, <3>1 DEF CountsTyped
    <3>3. hedge' \in [Requests -> Nat]
      BY <1>1, <2>1, <2>5 DEF CountsTyped
    <3>. QED  BY <1>1, <2>4, <3>2, <3>3 DEF CountsTyped
  <2>. QED  BY <1>1, <2>1, <2>2, <2>6, <2>7 DEF CountsTyped
<1>7. ASSUME NEW a \in Attempts, Claim(a) \/ Begin(a) \/ Preflight(a) \/ Confirm(a) \/ Finish(a)
      PROVE  CountsTyped'
  <2>1. /\ UNCHANGED <<leg, inventory, landed, fillRow, hedge, liq, crashes, position, lapsed>>
        /\ UNCHANGED unrecorded
        /\ cand' = cand \/ cand' = [cand EXCEPT ![a] = {i \in Orders : Open(i)}]
    BY <1>7 DEF Claim, Begin, Preflight, Confirm, Finish, chainVars, rowVars
  <2>. QED  BY <1>1, <2>1 DEF CountsTyped
<1>8. ASSUME NEW r \in Requests, Expire(r) \/ SweepNonce(r) \/ HedgeFill(r)
      PROVE  CountsTyped'
  <2>1. UNCHANGED <<cand, leg, inventory, landed, liq, crashes, unrecorded>>
    BY <1>8 DEF Expire, SweepNonce, HedgeFill, attemptVars, chainVars
  <2>2. CASE Expire(r) \/ SweepNonce(r)
    BY <1>1, <2>1, <2>2 DEF Expire, SweepNonce, CountsTyped, rowVars
  <2>3. CASE HedgeFill(r)
    <3>1. /\ \E a \in landed[r] :
                fillRow' = [fillRow EXCEPT ![r] = IF @ = 0 THEN Signed(a) ELSE @]
          /\ hedge' = [hedge EXCEPT ![r] = fillRow'[r]]
          /\ position' = position + hedge'[r] /\ UNCHANGED lapsed
      BY <2>3 DEF HedgeFill
    <3>2. fillRow' \in [Requests -> Nat]
      <4>1. PICK a \in landed[r] : fillRow' = [fillRow EXCEPT ![r] = IF @ = 0 THEN Signed(a) ELSE @]
        BY <3>1
      <4>2. Signed(a) \in Nat
        BY <1>1, HeldNat DEF CountsTyped
      <4>. QED  BY <1>1, <4>1, <4>2 DEF CountsTyped
    <3>3. hedge' \in [Requests -> Nat]
      BY <1>1, <3>1, <3>2 DEF CountsTyped
    <3>. QED  BY <1>1, <2>1, <3>1, <3>2, <3>3 DEF CountsTyped
  <2>. QED  BY <1>8, <2>2, <2>3
<1>9. ASSUME NEW n, ListOrphans(n)
      PROVE  CountsTyped'
  BY <1>1, <1>9 DEF ListOrphans, CountsTyped, Tick, Idle, attemptVars, chainVars, rowVars
<1>10. ASSUME NEW i \in Orders, ClaimOrphan(i) \/ Liquidate(i) \/ Unclaim(i) \/ Abandon(i)
       PROVE  CountsTyped'
  <2>1. UNCHANGED <<cand, leg, landed, fillRow, hedge, crashes, lapsed>>
    BY <1>10 DEF ClaimOrphan, Liquidate, Unclaim, Abandon, attemptVars, chainVars, rowVars
  <2>2. inventory' = inventory \/ \E to \in {"open", "claimed", "liquidated"} :
            inventory' = [inventory EXCEPT ![i].state = to]
    BY <1>10 DEF ClaimOrphan, Liquidate, Unclaim, Abandon
  <2>3. inventory' \in [Orders -> RowRecord]
    BY <1>1, <2>2, StateTyped DEF CountsTyped
  <2>4. \/ UNCHANGED <<position, unrecorded>>
        \/ \E shares \in Reversible(i) :
              /\ position' = position - shares
              /\ unrecorded' \in {unrecorded - shares, unrecorded + inventory[i].shares - shares}
    BY <1>10 DEF ClaimOrphan, Liquidate, Unclaim, Abandon
  <2>5. position' \in Int /\ unrecorded' \in Int
    <3>1. inventory[i].shares \in Nat /\ position \in Int /\ unrecorded \in Int
      BY <1>1 DEF CountsTyped, RowRecord
    <3>2. \A shares \in Reversible(i) : shares \in Int
      BY <3>1, ExcessNat DEF Reversible
    <3>. QED  BY <2>4, <3>1, <3>2
  <2>6. \E rows \in SUBSET Orders, budget \in Int, claimed \in SUBSET Orders :
            liq' = Idle \/ liq' = Tick(rows, budget, claimed)
    <3>1. CASE ClaimOrphan(i)
      <4>1. \/ liq' = Idle
            \/ liq' = Tick(liq.rows \ {i}, liq.budget, {})
            \/ liq' = Tick(liq.rows \ {i}, liq.budget, {i})
        BY <3>1 DEF ClaimOrphan
      <4>2. liq.rows \ {i} \in SUBSET Orders /\ liq.budget \in Int
            /\ {} \in SUBSET Orders /\ {i} \in SUBSET Orders
        BY <1>1 DEF CountsTyped
      <4>. QED  BY <4>1, <4>2
    <3>2. CASE Liquidate(i)
      <4>1. PICK shares \in Reversible(i) : liq' = Tick(liq.rows, liq.budget - shares, {})
        BY <3>2 DEF Liquidate
      <4>2. shares \in Int
        BY <1>1, ExcessNat DEF Reversible, CountsTyped, RowRecord
      <4>3. liq.rows \in SUBSET Orders /\ liq.budget - shares \in Int /\ {} \in SUBSET Orders
        BY <1>1, <4>2 DEF CountsTyped
      <4>. QED  BY <4>1, <4>3
    <3>3. CASE Unclaim(i) \/ Abandon(i)
      <4>1. liq' = Idle \/ liq' = Tick(liq.rows, liq.budget, {})
        BY <3>3 DEF Unclaim, Abandon
      <4>2. liq.rows \in SUBSET Orders /\ liq.budget \in Int /\ {} \in SUBSET Orders
        BY <1>1 DEF CountsTyped
      <4>. QED  BY <4>1, <4>2
    <3>. QED  BY <1>10, <3>1, <3>2, <3>3
  <2>7. liq' \in [rows : SUBSET Orders, budget : Int, claimed : SUBSET Orders]
    BY <2>6 DEF Tick, Idle
  <2>. QED  BY <1>1, <2>1, <2>3, <2>5, <2>7 DEF CountsTyped
<1>11. ASSUME Crash
       PROVE  CountsTyped'
  <2>1. InFlight \in Int /\ Orderable \in Int
    BY <1>1, FlightInt, OrderableInt
  <2>2. position' \in Int /\ unrecorded' \in Int
    BY <1>1, <1>11, <2>1 DEF Crash, CountsTyped
  <2>. QED  BY <1>1, <1>11, <2>2 DEF Crash, CountsTyped, chainVars, rowVars
<1>. QED
  BY <1>2, <1>3, <1>4, <1>5, <1>6, <1>7, <1>8, <1>9, <1>10, <1>11 DEF Next, Orchestrate

LEMMA NonceStep ==
  ASSUME AllInv, Next
  PROVE  NonceTyped'
<1>. USE TradeAssumption
<1>1. NonceTyped
  BY DEF AllInv, SizeInv
<1>2. UNCHANGED side
  BY PathKept
<1>3. ASSUME NEW a \in Attempts, Land(a)
      PROVE  NonceTyped'
  BY <1>1, <1>2, <1>3 DEF Land, NonceTyped
<1>4. ASSUME NEW r \in Requests, SweepNonce(r)
      PROVE  NonceTyped'
  BY <1>1, <1>2, <1>4 DEF SweepNonce, NonceTyped
<1>5. ASSUME NEW a \in Attempts, RecordFill(a)
      PROVE  NonceTyped'
  BY <1>1, <1>2, <1>5 DEF RecordFill, MarkConsumed, NonceTyped
<1>6. ASSUME NEW a \in Attempts,
             \/ Claim(a) \/ Begin(a) \/ Preflight(a) \/ \E i \in Orders : TryClaimRow(a, i)
             \/ NettingFails(a) \/ FillViaPolymarket(a) \/ TreasuryShort(a) \/ SignAndSend(a)
             \/ Confirm(a) \/ SubmitFails(a) \/ PersistFillAndHedge(a) \/ Finish(a)
      PROVE  UNCHANGED <<used, quote>>
  BY <1>6 DEF Claim, Begin, Preflight, TryClaimRow, NettingFails, FillViaPolymarket,
     TreasuryShort, SignAndSend, Confirm, SubmitFails, PersistFillAndHedge, Finish, chainVars
<1>7. ASSUME \/ \E r \in Requests : Expire(r) \/ HedgeFill(r)
             \/ \E n \in 0 .. Cardinality(Attempts) : ListOrphans(n)
             \/ \E i \in Orders : ClaimOrphan(i) \/ Liquidate(i) \/ Unclaim(i) \/ Abandon(i)
             \/ Crash
      PROVE  UNCHANGED <<used, quote>>
  BY <1>7 DEF Expire, HedgeFill, ListOrphans, ClaimOrphan, Liquidate, Unclaim, Abandon, Crash,
     chainVars
<1>8. UNCHANGED <<used, quote>> => NonceTyped'
  BY <1>1, <1>2 DEF NonceTyped
<1>. QED
  BY <1>3, <1>4, <1>5, <1>6, <1>7, <1>8 DEF Next, Orchestrate

LEMMA LegShapeStep ==
  ASSUME AllInv, Next
  PROVE  LegShape'
<1>. USE TradeAssumption
<1>1. /\ LegShape /\ CountsTyped /\ pc \in [Attempts -> Steps]
      /\ netted \in [Attempts -> SUBSET Orders]
  BY DEF AllInv, SizeInv, InventoryInv, InventoryTyped
<1>2. ASSUME UNCHANGED <<netted, leg, fillRow, hedge, path>>, NEW a \in Attempts,
             \A b \in Attempts \ {a} : pc'[b] = pc[b],
             pc'[a] \in {"idle", "check", "net"} => leg[a] = 0,
             pc'[a] \in {"idle", "check"} => netted[a] = {},
             pc'[a] = "net" => HedgeFirst
      PROVE  LegShape'
  BY <1>1, <1>2 DEF LegShape, HedgeFirst
<1>3. ASSUME UNCHANGED <<netted, leg, fillRow, hedge, path, pc>>
      PROVE  LegShape'
  BY <1>1, <1>3 DEF LegShape, HedgeFirst
<1>4. ASSUME NEW a \in Attempts, Claim(a) \/ Begin(a)
      PROVE  LegShape'
  <2>1. /\ UNCHANGED <<netted, leg, fillRow, hedge, path>> /\ pc[a] = "idle"
        /\ pc'[a] # "net" /\ \A b \in Attempts \ {a} : pc'[b] = pc[b]
    BY <1>1, <1>4 DEF Claim, Begin, Step, rowVars
  <2>2. leg[a] = 0 /\ netted[a] = {}
    BY <1>1, <2>1 DEF LegShape
  <2>. QED  BY <2>1, <2>2, <1>2
<1>5. ASSUME NEW a \in Attempts, Preflight(a)
      PROVE  LegShape'
  <2>1. /\ UNCHANGED <<netted, leg, fillRow, hedge, path>> /\ pc[a] = "check"
        /\ pc'[a] = "net" => HedgeFirst
        /\ \A b \in Attempts \ {a} : pc'[b] = pc[b]
    BY <1>1, <1>5 DEF Preflight, Answer, Step, rowVars
  <2>2. leg[a] = 0 /\ netted[a] = {}
    BY <1>1, <2>1 DEF LegShape
  <2>. QED  BY <2>1, <2>2, <1>2
<1>6. ASSUME NEW a \in Attempts,
             \/ TreasuryShort(a) \/ SignAndSend(a) \/ Confirm(a) \/ SubmitFails(a) \/ Finish(a)
      PROVE  LegShape'
  <2>1. /\ UNCHANGED <<netted, leg, fillRow, hedge, path>>
        /\ pc'[a] \in {"sent", "confirmed", "reply", "done"}
        /\ \A b \in Attempts \ {a} : pc'[b] = pc[b]
    BY <1>1, <1>6 DEF TreasuryShort, SignAndSend, Confirm, SubmitFails, Finish, Answer, Step,
       rowVars
  <2>. QED  BY <2>1, <1>2
<1>7. ASSUME NEW a \in Attempts, RecordFill(a) \/ PersistFillAndHedge(a)
      PROVE  LegShape'
  <2>1. /\ UNCHANGED <<netted, leg, path>> /\ pc'[a] \in {"recorded", "reply"}
        /\ \A b \in Attempts \ {a} : pc'[b] = pc[b]
        /\ RequestOf[a] \in Requests
    BY <1>1, <1>7 DEF RecordFill, PersistFillAndHedge, Answer, Step
  <2>2. /\ \A r \in Requests \ {RequestOf[a]} : fillRow'[r] = fillRow[r] /\ hedge'[r] = hedge[r]
        /\ fillRow'[RequestOf[a]] = 0 => fillRow[RequestOf[a]] = 0 /\ hedge' = hedge
    <3>1. CASE RecordFill(a)
      <4>1. hedge' = hedge
        BY <3>1 DEF RecordFill
      <4>2. \/ fillRow' = fillRow
            \/ fillRow' = [fillRow EXCEPT ![RequestOf[a]] = IF @ = 0 THEN Signed(a) ELSE @]
        BY <3>1 DEF RecordFill
      <4>. QED  BY <1>1, <2>1, <4>1, <4>2 DEF CountsTyped
    <3>2. CASE PersistFillAndHedge(a)
      <4>1. CASE UNCHANGED rowVars
        BY <4>1 DEF rowVars
      <4>2. CASE /\ fillRow[RequestOf[a]] = 0
                 /\ fillRow' = [fillRow EXCEPT ![RequestOf[a]] = Signed(a)]
                 /\ hedge' = [hedge EXCEPT ![RequestOf[a]] = Held(a)]
        <5>1. Signed(a) = Held(a)
          BY <3>2 DEF PersistFillAndHedge, AllInv, RowsInv, ConfirmedFills, Signed
        <5>2. Held(a) = 0 => hedge'[RequestOf[a]] = hedge[RequestOf[a]]
          BY <1>1, <2>1, <4>2 DEF CountsTyped, LegShape
        <5>3. hedge \in [Requests -> Nat] /\ hedge' \in [Requests -> Nat]
          BY <1>1, CountsStep DEF CountsTyped
        <5>4. Held(a) = 0 => hedge' = hedge
          BY <2>1, <4>2, <5>2, <5>3
        <5>. QED  BY <1>1, <2>1, <4>2, <5>1, <5>4 DEF CountsTyped
      <4>. QED  BY <3>2, <4>1, <4>2 DEF PersistFillAndHedge
    <3>. QED  BY <1>7, <3>1, <3>2
  <2>3. \A r \in Requests : fillRow'[r] = 0 => hedge'[r] = 0
    BY <1>1, <2>1, <2>2 DEF LegShape
  <2>. QED  BY <1>1, <2>1, <2>3 DEF LegShape, HedgeFirst
<1>8. ASSUME NEW r \in Requests, HedgeFill(r)
      PROVE  LegShape'
  <2>1. /\ UNCHANGED <<netted, leg, path, pc>>
        /\ \E a : fillRow' = [fillRow EXCEPT ![r] = IF @ = 0 THEN Signed(a) ELSE @]
        /\ hedge' = [hedge EXCEPT ![r] = fillRow'[r]]
    BY <1>8 DEF HedgeFill, attemptVars
  <2>2. \A q \in Requests : fillRow'[q] = 0 => hedge'[q] = 0
    BY <1>1, <2>1 DEF LegShape, CountsTyped
  <2>. QED  BY <1>1, <2>1, <2>2 DEF LegShape, HedgeFirst
<1>9. ASSUME NEW a \in Attempts, NettingFails(a)
      PROVE  LegShape'
  <2>1. UNCHANGED <<leg, path, pc, fillRow, hedge>> /\ netted' = [netted EXCEPT ![a] = {}]
    BY <1>9 DEF NettingFails, rowVars
  <2>. QED  BY <1>1, <2>1 DEF LegShape, HedgeFirst
<1>10. ASSUME NEW a \in Attempts, NEW i \in Orders, TryClaimRow(a, i)
       PROVE  LegShape'
  <2>1. /\ UNCHANGED <<leg, path, pc, fillRow, hedge>> /\ pc[a] = "net"
        /\ \A b \in Attempts \ {a} : netted'[b] = netted[b]
    BY <1>1, <1>10 DEF TryClaimRow, rowVars
  <2>. QED  BY <1>1, <2>1 DEF LegShape, HedgeFirst
<1>11. ASSUME NEW a \in Attempts, FillViaPolymarket(a)
       PROVE  LegShape'
  <2>1. /\ UNCHANGED <<netted, path, fillRow, hedge>> /\ pc[a] = "net"
        /\ pc'[a] \in {"filled", "reply"}
        /\ \A b \in Attempts \ {a} : pc'[b] = pc[b] /\ leg'[b] = leg[b]
    BY <1>1, <1>11 DEF FillViaPolymarket, Answer, Step, rowVars, CountsTyped
  <2>. QED  BY <1>1, <2>1 DEF LegShape, HedgeFirst
<1>12. ASSUME Crash
       PROVE  LegShape'
  <2>1. /\ UNCHANGED <<netted, leg, path, fillRow, hedge>>
        /\ \A a \in Attempts : pc'[a] = "done" \/ pc'[a] = pc[a]
    BY <1>12 DEF Crash, rowVars
  <2>. QED  BY <1>1, <2>1 DEF LegShape, HedgeFirst
<1>13. ASSUME \/ \E a \in Attempts : Land(a)
              \/ \E r \in Requests : Expire(r) \/ SweepNonce(r)
              \/ \E n \in 0 .. Cardinality(Attempts) : ListOrphans(n)
              \/ \E i \in Orders : ClaimOrphan(i) \/ Liquidate(i) \/ Unclaim(i) \/ Abandon(i)
       PROVE  LegShape'
  BY <1>3, <1>13 DEF Land, Expire, SweepNonce, ListOrphans, ClaimOrphan, Liquidate, Unclaim,
     Abandon, attemptVars, rowVars
<1>. QED
  BY <1>4, <1>5, <1>6, <1>7, <1>8, <1>9, <1>10, <1>11, <1>12, <1>13 DEF Next, Orchestrate

(* The row that an attempt claims adds its shares to what it has netted.   *)
LEMMA RowNetted ==
  ASSUME AllInv, NEW a \in Attempts, NEW i \in Orders, TryClaimRow(a, i), Claimable(a, i)
  PROVE  /\ leg'[a] = leg[a]
         /\ RowShares(netted[a])' = RowShares(netted[a]) + inventory[i].shares
<1>. DEFINE f == [j \in Orders |-> inventory[j].shares]
            g == [j \in Orders |-> inventory'[j].shares]
            S == netted[a]
<1>1. /\ netted' = [netted EXCEPT ![a] = @ \cup {i}] /\ UNCHANGED leg
      /\ inventory' = [inventory EXCEPT ![i].state = "netted"] /\ inventory[i].state = "open"
  BY DEF TryClaimRow, Claimable, Open
<1>2. /\ netted'[a] = S \cup {i} /\ S \subseteq Orders /\ IsFiniteSet(S) /\ i \notin S
  BY <1>1, NettedFinite DEF AllInv, InventoryInv, InventoryTyped, InventoryUsedOnce
<1>3. inventory \in [Orders -> RowRecord]
  BY DEF AllInv, SizeInv, CountsTyped
<1>4. \A j \in Orders : f[j] \in Int /\ g[j] = f[j]
  BY <1>1, <1>3 DEF RowRecord
<1>5. f[i] = inventory[i].shares
  OBVIOUS
<1>6. RowShares(netted[a]) = SumFunctionOnSet(f, S)
      /\ RowShares(netted[a])' = SumFunctionOnSet(g, S \cup {i})
  BY <1>2 DEF RowShares
<1>. HIDE DEF f, g, S
<1>7. SumFunctionOnSet(g, S \cup {i}) = SumFunctionOnSet(f, S) + g[i]
  BY <1>2, <1>4, SumGrow
<1>. QED  BY <1>1, <1>4, <1>5, <1>6, <1>7

LEMMA HeldBoundStep ==
  ASSUME AllInv, Next
  PROVE  HeldBound'
<1>. USE TradeAssumption
<1>1. /\ InventoryInv /\ InventoryTyped /\ CountsTyped /\ LegShape /\ HeldBound
      /\ netted \in [Attempts -> SUBSET Orders] /\ leg \in [Attempts -> Nat]
  BY DEF AllInv, SizeInv, InventoryInv, InventoryTyped, CountsTyped
<1>. DEFINE Bounded(b) == /\ RowShares(netted[b])' <= Size[RequestOf[b]]
                          /\ Held(b)' <= Size[RequestOf[b]] + Excess(side)
<1>2. \A b \in Attempts : leg'[b] = leg[b] /\ netted'[b] = netted[b] => Bounded(b)
  BY <1>1, HeldKept DEF HeldBound
<1>9. Excess(side)' = Excess(side) /\ Excess(side) \in Nat
  BY PathKept, ExcessNat
<1>10. (\A b \in Attempts : Bounded(b)) => HeldBound'
  BY <1>9 DEF HeldBound
<1>. HIDE DEF Bounded
<1>3. ASSUME NEW a \in Attempts, NettingFails(a)
      PROVE  HeldBound'
  <2>1. /\ leg[a] = 0 /\ UNCHANGED leg /\ netted'[a] = {}
        /\ \A b \in Attempts \ {a} : netted'[b] = netted[b]
    BY <1>1, <1>3 DEF NettingFails, LegShape
  <2>2. RowShares(netted[a])' = 0
    BY <2>1, SumEmpty DEF RowShares
  <2>3. Held(a)' = 0
    BY <2>1, <2>2 DEF Held
  <2>4. Bounded(a)
    BY <1>9, <2>2, <2>3 DEF Bounded
  <2>. QED  BY <1>2, <1>10, <2>1, <2>4
<1>4. ASSUME NEW a \in Attempts, NEW i \in Orders, TryClaimRow(a, i)
      PROVE  HeldBound'
  <2>1. /\ pc[a] = "net" /\ UNCHANGED leg
        /\ \A b \in Attempts \ {a} : netted'[b] = netted[b]
        /\ ~Claimable(a, i) => UNCHANGED netted
    BY <1>1, <1>4 DEF TryClaimRow
  <2>2. CASE Claimable(a, i)
    <3>1. RowShares(netted[a])' = RowShares(netted[a]) + inventory[i].shares
      BY <1>4, <2>2, RowNetted
    <3>2. inventory[i].shares <= Size[RequestOf[a]] - RowShares(netted[a])
      BY <2>2 DEF Claimable, Remaining
    <3>3. /\ RowShares(netted[a]) \in Nat /\ Size[RequestOf[a]] \in Nat
          /\ inventory[i].shares \in Nat
      BY <1>1, HeldNat DEF CountsTyped, RowRecord
    <3>4. leg'[a] = 0
      BY <1>1, <2>1 DEF LegShape
    <3>5. Bounded(a)
      BY <1>9, <3>1, <3>2, <3>3, <3>4 DEF Held, Bounded
    <3>. QED  BY <1>2, <1>10, <2>1, <3>5
  <2>3. CASE ~Claimable(a, i)
    BY <1>2, <1>10, <2>1, <2>3
  <2>. QED  BY <2>2, <2>3
<1>5. ASSUME NEW a \in Attempts, FillViaPolymarket(a)
      PROVE  HeldBound'
  <2>1. /\ UNCHANGED netted
        /\ leg' = leg \/ \E shares \in 1 .. Remaining(a) + Excess(side) :
                            leg' = [leg EXCEPT ![a] = shares]
    BY <1>5 DEF FillViaPolymarket
  <2>2. RowShares(netted[a])' = RowShares(netted[a])
    BY <1>1, <2>1, HeldKept
  <2>3. RowShares(netted[a]) \in Nat /\ Size[RequestOf[a]] \in Nat
    BY <1>1, HeldNat
  <2>4. ASSUME NEW shares \in 1 .. Remaining(a) + Excess(side), leg' = [leg EXCEPT ![a] = shares]
        PROVE  HeldBound'
    <3>1. leg'[a] = shares /\ \A b \in Attempts \ {a} : leg'[b] = leg[b]
      BY <1>1, <2>4
    <3>2. Bounded(a)
      BY <1>1, <1>9, <2>2, <2>3, <3>1 DEF Held, Remaining, HeldBound, Bounded
    <3>. QED  BY <1>2, <1>10, <2>1, <3>1, <3>2
  <2>. QED  BY <1>2, <1>10, <2>1, <2>4
<1>6. ASSUME NEW b \in Attempts,
             \/ Claim(b) \/ Begin(b) \/ Preflight(b) \/ TreasuryShort(b) \/ SignAndSend(b)
             \/ Confirm(b) \/ SubmitFails(b) \/ RecordFill(b) \/ PersistFillAndHedge(b)
             \/ Finish(b) \/ Land(b)
      PROVE  UNCHANGED <<leg, netted>>
  BY <1>6 DEF Claim, Begin, Preflight, TreasuryShort, SignAndSend, Confirm, SubmitFails,
     RecordFill, PersistFillAndHedge, Finish, Land, attemptVars
<1>7. ASSUME \/ \E r \in Requests : Expire(r) \/ SweepNonce(r) \/ HedgeFill(r)
             \/ \E n \in 0 .. Cardinality(Attempts) : ListOrphans(n)
             \/ \E i \in Orders : ClaimOrphan(i) \/ Liquidate(i) \/ Unclaim(i) \/ Abandon(i)
             \/ Crash
      PROVE  UNCHANGED <<leg, netted>>
  BY <1>7 DEF Expire, SweepNonce, HedgeFill, ListOrphans, ClaimOrphan, Liquidate, Unclaim,
     Abandon, Crash, attemptVars
<1>8. UNCHANGED <<leg, netted>> => HeldBound'
  BY <1>2, <1>10
<1>. QED
  BY <1>3, <1>4, <1>5, <1>6, <1>7, <1>8 DEF Next, Orchestrate

-----------------------------------------------------------------------------
(* Where the shares are                                                    *)

(* Rows whose shares nobody has passed on, attempts that hold some, and    *)
(* what the books ought to sum up to.                                      *)
Loose    == {i \in Orders : inventory[i].state \in {"open", "claimed"}}
Carriers == {a \in Attempts : pc[a] \in Holding}

Recorded   == position - unrecorded
Worth(i)   == IF i \in Loose THEN inventory[i].shares ELSE 0
Carried(a) == IF a \in Carriers THEN Held(a) ELSE 0

(* One row is rewritten.                                                   *)
LEMMA LooseMoves ==
  ASSUME CountsTyped, CountsTyped', NEW i \in Orders,
         \A j \in Orders \ {i} : inventory'[j] = inventory[j]
  PROVE  /\ RowShares(Loose)' = RowShares(Loose) - Worth(i) + Worth(i)'
         /\ RowShares(Loose) \in Int
<1>. DEFINE f == [j \in Orders |-> inventory[j].shares]
            g == [j \in Orders |-> inventory'[j].shares]
            T == Loose
            U == Loose'
<1>1. IsFiniteSet(Orders) /\ T \subseteq Orders /\ U \subseteq Orders
  BY TradeAssumption, FS_Union DEF Orders, Loose
<1>2. (\A j \in Orders : f[j] \in Int) /\ (\A j \in Orders : g[j] \in Int)
  BY DEF CountsTyped, RowRecord
<1>3. \A j \in Orders \ {i} : (j \in T <=> j \in U) /\ g[j] = f[j]
  BY DEF Loose
<1>4. /\ RowShares(Loose) = SumFunctionOnSet(f, T)
      /\ RowShares(Loose)' = SumFunctionOnSet(g, U)
      /\ Worth(i) = IF i \in T THEN f[i] ELSE 0
      /\ Worth(i)' = IF i \in U THEN g[i] ELSE 0
  BY DEF RowShares, Worth
<1>. HIDE DEF f, g, T, U
<1>5. SumFunctionOnSet(g, U) = SumFunctionOnSet(f, T) - (IF i \in T THEN f[i] ELSE 0)
                                                      + (IF i \in U THEN g[i] ELSE 0)
  BY <1>1, <1>2, <1>3, SumMoves
<1>6. SumFunctionOnSet(f, T) \in Int
  BY <1>1, <1>2, FS_Subset, SumInt
<1>. QED  BY <1>4, <1>5, <1>6

(* One attempt takes its step.                                             *)
LEMMA FlightMoves ==
  ASSUME CountsTyped, CountsTyped', InventoryTyped, InventoryTyped', NEW a,
         \A b \in Attempts \ {a} : (b \in Carriers <=> b \in Carriers') /\ Held(b)' = Held(b)
  PROVE  /\ InFlight' = InFlight - Carried(a) + Carried(a)'
         /\ InFlight \in Int
<1>. DEFINE f == [b \in Attempts |-> Held(b)]
            g == [b \in Attempts |-> Held(b)']
            T == Carriers
            U == Carriers'
<1>1. IsFiniteSet(Attempts) /\ T \subseteq Attempts /\ U \subseteq Attempts
  BY TradeAssumption DEF Carriers
<1>2. \A b \in Attempts : f[b] \in Int
  BY HeldNat
<1>3. \A b \in Attempts : g[b] \in Int
  <2>1. ASSUME NEW b \in Attempts
        PROVE  Held(b)' \in Nat
    <3>1. RowShares(netted[b])' \in Nat
      BY SharesNat DEF RowShares, CountsTyped, InventoryTyped
    <3>. QED  BY <3>1 DEF Held, CountsTyped
  <2>. QED  BY <2>1
<1>4. \A b \in Attempts \ {a} : (b \in T <=> b \in U) /\ g[b] = f[b]
  OBVIOUS
<1>5. /\ InFlight = SumFunctionOnSet(f, T)
      /\ InFlight' = SumFunctionOnSet(g, U)
      /\ Carried(a) = IF a \in T THEN f[a] ELSE 0
      /\ Carried(a)' = IF a \in U THEN g[a] ELSE 0
  BY <1>1 DEF InFlight, Carried, Carriers
<1>. HIDE DEF f, g, T, U
<1>6. SumFunctionOnSet(g, U) = SumFunctionOnSet(f, T) - (IF a \in T THEN f[a] ELSE 0)
                                                      + (IF a \in U THEN g[a] ELSE 0)
  BY <1>1, <1>2, <1>3, <1>4, SumMoves
<1>. QED  BY <1>5, <1>6, FlightInt

(* One Hedge row is written.                                               *)
LEMMA HedgeMoves ==
  ASSUME hedge \in [Requests -> Nat], NEW r \in Requests, NEW n \in Nat,
         hedge' = [hedge EXCEPT ![r] = n]
  PROVE  SumFunction(hedge)' = SumFunction(hedge) - hedge[r] + n
<1>1. /\ DOMAIN hedge = Requests /\ DOMAIN hedge' = Requests /\ IsFiniteSet(Requests)
      /\ hedge'[r] = n /\ \A q \in Requests \ {r} : hedge'[q] = hedge[q]
      /\ \A q \in Requests : hedge[q] \in Int /\ hedge'[q] \in Int
  BY TradeAssumption
<1>. DEFINE f == hedge
            g == hedge'
<1>2. /\ SumFunction(hedge) = SumFunctionOnSet(f, Requests)
      /\ SumFunction(hedge)' = SumFunctionOnSet(g, Requests)
      /\ f[r] = hedge[r] /\ g[r] = n
      /\ \A q \in Requests : f[q] \in Int /\ g[q] \in Int
      /\ \A q \in Requests \ {r} : g[q] = f[q]
  BY <1>1 DEF SumFunction
<1>. HIDE DEF f, g
<1>3. SumFunctionOnSet(g, Requests) = SumFunctionOnSet(f, Requests) - f[r] + g[r]
  BY <1>1, <1>2, SumChange
<1>. QED  BY <1>2, <1>3

LEMMA HedgeInt ==
  ASSUME hedge \in [Requests -> Nat]
  PROVE  SumFunction(hedge) \in Int
<1>1. SumFunctionOnSet(hedge, Requests) \in Int
  BY TradeAssumption, SumInt
<1>. QED  BY <1>1 DEF SumFunction

(* A step of attempt a that leaves the others and the inventory alone.     *)
LEMMA BooksOfAttempt ==
  ASSUME AllInv, CountsTyped', InventoryTyped', SharesAccounted, Next, NEW a \in Attempts,
         UNCHANGED <<inventory, hedge>>,
         \A b \in Attempts \ {a} : pc'[b] = pc[b] /\ leg'[b] = leg[b] /\ netted'[b] = netted[b],
         Recorded' = Recorded - Carried(a) + Carried(a)'
  PROVE  SharesAccounted'
<1>1. CountsTyped /\ InventoryInv /\ InventoryTyped
  BY DEF AllInv, SizeInv, InventoryInv
<1>2. \A b \in Attempts \ {a} : (b \in Carriers <=> b \in Carriers') /\ Held(b)' = Held(b)
  BY <1>1, HeldKept DEF Carriers
<1>3. InFlight' = InFlight - Carried(a) + Carried(a)' /\ InFlight \in Int
  BY <1>1, <1>2, FlightMoves
<1>4. Carried(a) \in Int /\ Carried(a)' \in Int
  <2>1. Held(a) \in Nat
    BY <1>1, HeldNat
  <2>2. RowShares(netted[a])' \in Nat
    BY SharesNat DEF RowShares, CountsTyped, InventoryTyped
  <2>. QED  BY <2>1, <2>2 DEF Carried, Held, CountsTyped
<1>5. RowShares(Loose) \in Int /\ RowShares(Loose)' = RowShares(Loose)
  <2>1. /\ Loose' = Loose
        /\ [i \in Orders |-> inventory'[i].shares] = [i \in Orders |-> inventory[i].shares]
    BY DEF Loose
  <2>2. RowShares(Loose)' = RowShares(Loose)
    BY <2>1 DEF RowShares
  <2>3. RowShares(Loose) \in Nat
    BY <1>1, SharesNat DEF RowShares, CountsTyped, Loose
  <2>. QED  BY <2>2, <2>3
<1>6. SumFunction(hedge) \in Int /\ SumFunction(hedge)' = SumFunction(hedge)
  BY <1>1, HedgeInt DEF CountsTyped
<1>7. Recorded = RowShares(Loose) + InFlight + SumFunction(hedge) /\ Recorded \in Int
  BY <1>1 DEF SharesAccounted, Loose, CountsTyped, Recorded
<1>8. Recorded' = RowShares(Loose)' + InFlight' + SumFunction(hedge)'
  BY <1>3, <1>4, <1>5, <1>6, <1>7
<1>. QED  BY <1>8 DEF SharesAccounted, Loose, Recorded

(* No attempt holds more or less than before, and one row may be rewritten. *)
LEMMA BooksOfRow ==
  ASSUME AllInv, CountsTyped', InventoryTyped', SharesAccounted, Next, NEW i \in Orders,
         \A j \in Orders \ {i} : inventory'[j] = inventory[j],
         UNCHANGED <<hedge, pc, leg, netted>>,
         Recorded' = Recorded - Worth(i) + Worth(i)'
  PROVE  SharesAccounted'
<1>1. CountsTyped /\ InventoryInv /\ InventoryTyped
  BY DEF AllInv, SizeInv, InventoryInv
<1>2. InFlight' = InFlight /\ InFlight \in Int
  <2>1. \A b \in Attempts : Held(b)' = Held(b)
    BY <1>1, HeldKept
  <2>2. [b \in Attempts |-> Held(b)'] = [b \in Attempts |-> Held(b)]
    BY <2>1
  <2>3. InFlight' = InFlight
    BY <2>2 DEF InFlight
  <2>. QED  BY <1>1, <2>3, FlightInt
<1>3. RowShares(Loose)' = RowShares(Loose) - Worth(i) + Worth(i)' /\ RowShares(Loose) \in Int
  BY <1>1, LooseMoves
<1>4. Worth(i) \in Int /\ Worth(i)' \in Int
  BY <1>1 DEF Worth, CountsTyped, RowRecord
<1>5. SumFunction(hedge) \in Int /\ SumFunction(hedge)' = SumFunction(hedge)
  BY <1>1, HedgeInt DEF CountsTyped
<1>6. Recorded = RowShares(Loose) + InFlight + SumFunction(hedge) /\ Recorded \in Int
  BY <1>1 DEF SharesAccounted, Loose, CountsTyped, Recorded
<1>7. Recorded' = RowShares(Loose)' + InFlight' + SumFunction(hedge)'
  BY <1>2, <1>3, <1>4, <1>5, <1>6
<1>. QED  BY <1>7 DEF SharesAccounted, Loose, Recorded

(* The attempt ends, with an orphan's row of its own or without.           *)
LEMMA BooksOfOrphan ==
  ASSUME AllInv, CountsTyped', InventoryTyped', SharesAccounted, Next, NEW a \in Attempts,
         pc[a] \in Holding, pc' = [pc EXCEPT ![a] = "reply"], RecordOrphan(a),
         UNCHANGED <<leg, netted, hedge, position>>
  PROVE  SharesAccounted'
<1>1. CountsTyped /\ InventoryInv /\ InventoryTyped /\ pc \in [Attempts -> Steps] /\ RowsMarked
  BY DEF AllInv, SizeInv, InventoryInv, InventoryTyped
<1>2. Carried(a) = Held(a) /\ Carried(a)' = 0 /\ Held(a) \in Nat
  BY <1>1, HeldNat DEF Carried, Carriers, Holding
<1>3. \A b \in Attempts \ {a} : pc'[b] = pc[b]
  BY <1>1
<1>4. CASE UNCHANGED <<inventory, position>> /\ unrecorded' = unrecorded + Held(a)
  <2>1. Recorded' = Recorded - Carried(a) + Carried(a)'
    BY <1>1, <1>2, <1>4 DEF CountsTyped, Recorded
  <2>. QED  BY <1>3, <1>4, <2>1, BooksOfAttempt
<1>5. CASE /\ leg[a] > 0 /\ UNCHANGED <<position, unrecorded>>
           /\ \E at : inventory' = [inventory EXCEPT ![a] =
                          [state |-> "open", shares |-> Held(a), at |-> at]]
  <2>1. a \in Orders /\ inventory[a].state = "none"
    BY <1>1 DEF RowsMarked, Orders, Ended, Holding
  <2>2. /\ inventory'[a].state = "open" /\ inventory'[a].shares = Held(a)
        /\ \A j \in Orders \ {a} : inventory'[j] = inventory[j]
    BY <1>1, <1>5, <2>1 DEF InventoryTyped
  <2>3. Worth(a) = 0 /\ Worth(a)' = Held(a)
    BY <2>1, <2>2 DEF Worth, Loose
  <2>4. RowShares(Loose)' = RowShares(Loose) - 0 + Held(a) /\ RowShares(Loose) \in Int
    BY <1>1, <2>1, <2>2, <2>3, LooseMoves
  <2>5. \A b \in Attempts \ {a} : (b \in Carriers <=> b \in Carriers') /\ Held(b)' = Held(b)
    BY <1>1, <1>3, HeldKept DEF Carriers
  <2>6. InFlight' = InFlight - Held(a) + 0 /\ InFlight \in Int
    BY <1>1, <1>2, <2>5, FlightMoves
  <2>7. SumFunction(hedge) \in Int /\ SumFunction(hedge)' = SumFunction(hedge)
    BY <1>1, HedgeInt DEF CountsTyped
  <2>8. Recorded = RowShares(Loose) + InFlight + SumFunction(hedge)
    BY DEF SharesAccounted, Loose, Recorded
  <2>9. Recorded' = RowShares(Loose)' + InFlight' + SumFunction(hedge)'
    BY <1>1, <1>2, <1>5, <2>4, <2>6, <2>7, <2>8 DEF Recorded
  <2>. QED  BY <2>9 DEF SharesAccounted, Loose, Recorded
<1>. QED  BY <1>4, <1>5 DEF RecordOrphan

(* What the sums are made of does not change.                              *)
LEMMA BooksUnmoved ==
  ASSUME SharesAccounted, UNCHANGED <<inventory, hedge, pc, leg, netted, Recorded>>
  PROVE  SharesAccounted'
<1>1. /\ [i \in Orders |-> inventory'[i].shares] = [i \in Orders |-> inventory[i].shares]
      /\ {i \in Orders : inventory'[i].state \in {"open", "claimed"}}
            = {i \in Orders : inventory[i].state \in {"open", "claimed"}}
  OBVIOUS
<1>2. \A rows : RowShares(rows)' = RowShares(rows)
  BY <1>1 DEF RowShares
<1>3. \A a \in Attempts : Held(a)' = Held(a)
  BY <1>2 DEF Held
<1>4. /\ [a \in Attempts |-> Held(a)'] = [a \in Attempts |-> Held(a)]
      /\ {a \in Attempts : pc'[a] \in Holding} = {a \in Attempts : pc[a] \in Holding}
  BY <1>3
<1>5. InFlight' = InFlight
  BY <1>4 DEF InFlight
<1>. QED  BY <1>1, <1>2, <1>5 DEF SharesAccounted, Recorded

LEMMA NothingHeld ==
  ASSUME NEW a, leg[a] = 0, netted[a] = {}
  PROVE  Held(a) = 0
<1>1. RowShares(netted[a]) = 0
  BY SumEmpty DEF RowShares
<1>. QED  BY <1>1 DEF Held

LEMMA SharesStep ==
  ASSUME AllInv, CountsTyped', InventoryTyped', SharesAccounted, Next
  PROVE  SharesAccounted'
<1>1. /\ CountsTyped /\ LegShape /\ InventoryInv /\ InventoryTyped /\ RowsMarked
      /\ pc \in [Attempts -> Steps] /\ position \in Int /\ unrecorded \in Int /\ Recorded \in Int
      /\ leg \in [Attempts -> Nat] /\ netted \in [Attempts -> SUBSET Orders]
  BY DEF AllInv, SizeInv, InventoryInv, InventoryTyped, CountsTyped, Recorded
<1>2. ASSUME NEW a \in Attempts, UNCHANGED <<inventory, hedge, leg, netted>>,
             \A b \in Attempts \ {a} : pc'[b] = pc[b],
             \/ Recorded' = Recorded /\ (pc[a] \in Holding <=> pc'[a] \in Holding)
             \/ Recorded' = Recorded /\ Held(a) = 0
             \/ Recorded' = Recorded - Held(a) /\ pc[a] \in Holding /\ pc'[a] \notin Holding
      PROVE  SharesAccounted'
  <2>1. Held(a)' = Held(a) /\ Held(a) \in Nat
    BY <1>1, <1>2, HeldKept, HeldNat
  <2>2. Carried(a) = (IF pc[a] \in Holding THEN Held(a) ELSE 0)
        /\ Carried(a)' = (IF pc'[a] \in Holding THEN Held(a) ELSE 0)
    BY <2>1 DEF Carried, Carriers
  <2>3. Recorded' = Recorded - Carried(a) + Carried(a)'
    BY <1>1, <1>2, <2>1, <2>2
  <2>. QED  BY <1>2, <2>3, BooksOfAttempt
<1>3. ASSUME NEW a \in Attempts, Claim(a) \/ Begin(a) \/ Confirm(a) \/ Finish(a)
      PROVE  SharesAccounted'
  <2>1. /\ UNCHANGED <<inventory, hedge, leg, netted, Recorded>>
        /\ \A b \in Attempts \ {a} : pc'[b] = pc[b]
    BY <1>1, <1>3 DEF Claim, Begin, Confirm, Finish, Step, rowVars, Recorded
  <2>2. pc[a] \in Holding <=> pc'[a] \in Holding
    BY <1>1, <1>3 DEF Claim, Begin, Confirm, Finish, Step, Holding
  <2>. QED  BY <1>2, <2>1, <2>2
<1>4. ASSUME NEW a \in Attempts, Preflight(a)
      PROVE  SharesAccounted'
  <2>1. /\ UNCHANGED <<inventory, hedge, leg, netted, Recorded>> /\ pc[a] = "check"
        /\ \A b \in Attempts \ {a} : pc'[b] = pc[b]
    BY <1>1, <1>4 DEF Preflight, Answer, Step, rowVars, Recorded
  <2>2. Held(a) = 0
    BY <1>1, <2>1, NothingHeld DEF LegShape
  <2>. QED  BY <1>2, <2>1, <2>2
<1>5. ASSUME NEW a \in Attempts, SignAndSend(a)
      PROVE  SharesAccounted'
  <2>1. /\ UNCHANGED <<inventory, hedge, leg, netted>>
        /\ \A b \in Attempts \ {a} : pc'[b] = pc[b]
    BY <1>1, <1>5 DEF SignAndSend, Answer, Step, rowVars
  <2>2. \/ Recorded' = Recorded /\ pc[a] \in Holding /\ pc'[a] \in Holding
        \/ Recorded' = Recorded - Held(a) /\ pc[a] \in Holding /\ pc'[a] \notin Holding
    <3>1. Held(a) \in Nat
      BY <1>1, HeldNat
    <3>. QED  BY <1>1, <1>5, <3>1 DEF SignAndSend, Answer, Step, Holding, Recorded
  <2>. QED  BY <1>2, <2>1, <2>2
<1>6. ASSUME NEW a \in Attempts, RecordFill(a)
      PROVE  SharesAccounted'
  <2>1. /\ UNCHANGED <<inventory, hedge, leg, netted, Recorded>> /\ pc[a] = "confirmed"
        /\ HedgeFirst => pc'[a] = "recorded"
        /\ \A b \in Attempts \ {a} : pc'[b] = pc[b]
    BY <1>1, <1>6 DEF RecordFill, Answer, Step, Recorded
  <2>2. CASE HedgeFirst
    BY <1>2, <2>1, <2>2 DEF Holding
  <2>3. CASE ~HedgeFirst
    <3>1. Held(a) = 0
      BY <1>1, <2>3, NothingHeld DEF LegShape
    <3>. QED  BY <1>2, <2>1, <3>1
  <2>. QED  BY <2>2, <2>3
<1>7. ASSUME NEW a \in Attempts, TreasuryShort(a) \/ SubmitFails(a)
      PROVE  SharesAccounted'
  <2>1. /\ UNCHANGED <<hedge, leg, netted, position>> /\ pc[a] \in {"filled", "sent"}
        /\ pc' = [pc EXCEPT ![a] = "reply"]
    BY <1>7 DEF TreasuryShort, SubmitFails, Answer, Step, rowVars
  <2>2. RecordOrphan(a) \/ (~HedgeFirst /\ UNCHANGED <<inventory, Recorded>>)
    BY <1>7 DEF TreasuryShort, SubmitFails, Recorded
  <2>3. CASE RecordOrphan(a)
    BY <2>1, <2>3, BooksOfOrphan DEF Holding
  <2>4. CASE ~HedgeFirst /\ UNCHANGED <<inventory, Recorded>>
    <3>1. Held(a) = 0
      BY <1>1, <2>4, NothingHeld DEF LegShape
    <3>2. \A b \in Attempts \ {a} : pc'[b] = pc[b]
      BY <1>1, <2>1
    <3>. QED  BY <1>2, <2>1, <2>4, <3>1, <3>2
  <2>. QED  BY <2>2, <2>3, <2>4
<1>8. ASSUME NEW a \in Attempts, PersistFillAndHedge(a)
      PROVE  SharesAccounted'
  <2>1. /\ UNCHANGED <<inventory, leg, netted>> /\ pc[a] = "recorded" /\ pc'[a] = "reply"
        /\ RequestOf[a] \in Requests
        /\ \A b \in Attempts \ {a} : pc'[b] = pc[b]
    BY <1>1, <1>8, TradeAssumption DEF PersistFillAndHedge, Answer, Step
  <2>2. CASE Recorded' = Recorded - Held(a) /\ UNCHANGED rowVars
    BY <1>2, <2>1, <2>2 DEF rowVars, Holding
  <2>3. CASE /\ fillRow[RequestOf[a]] = 0 /\ UNCHANGED Recorded
             /\ hedge' = [hedge EXCEPT ![RequestOf[a]] = Held(a)]
    <3>1. Held(a) \in Nat /\ hedge[RequestOf[a]] = 0 /\ hedge \in [Requests -> Nat]
      BY <1>1, <2>1, <2>3, HeldNat DEF LegShape, CountsTyped
    <3>2. SumFunction(hedge)' = SumFunction(hedge) - 0 + Held(a) /\ SumFunction(hedge) \in Int
      BY <2>1, <2>3, <3>1, HedgeMoves, HedgeInt
    <3>3. Carried(a) = Held(a) /\ Carried(a)' = 0
      BY <2>1 DEF Carried, Carriers, Holding
    <3>4. \A b \in Attempts \ {a} : (b \in Carriers <=> b \in Carriers') /\ Held(b)' = Held(b)
      BY <1>1, <2>1, HeldKept DEF Carriers
    <3>5. InFlight' = InFlight - Held(a) + 0 /\ InFlight \in Int
      BY <1>1, <3>3, <3>4, FlightMoves
    <3>6. RowShares(Loose)' = RowShares(Loose) /\ RowShares(Loose) \in Nat
      <4>1. /\ Loose' = Loose
            /\ [i \in Orders |-> inventory'[i].shares] = [i \in Orders |-> inventory[i].shares]
        BY <2>1 DEF Loose
      <4>2. RowShares(Loose)' = RowShares(Loose)
        BY <4>1 DEF RowShares
      <4>3. RowShares(Loose) \in Nat
        BY <1>1, SharesNat DEF RowShares, CountsTyped, Loose
      <4>. QED  BY <4>2, <4>3
    <3>7. Recorded = RowShares(Loose) + InFlight + SumFunction(hedge)
      BY DEF SharesAccounted, Loose, Recorded
    <3>8. Recorded' = RowShares(Loose)' + InFlight' + SumFunction(hedge)'
      BY <2>3, <3>1, <3>2, <3>5, <3>6, <3>7
    <3>. QED  BY <3>8 DEF SharesAccounted, Loose, Recorded
  <2>4. /\ UNCHANGED position
        /\ \/ unrecorded' = unrecorded + Held(a) /\ UNCHANGED rowVars
           \/ /\ fillRow[RequestOf[a]] = 0 /\ UNCHANGED unrecorded
              /\ hedge' = [hedge EXCEPT ![RequestOf[a]] = Held(a)]
    BY <1>8 DEF PersistFillAndHedge
  <2>5. Held(a) \in Nat
    BY <1>1, HeldNat
  <2>6. CASE unrecorded' = unrecorded + Held(a) /\ UNCHANGED rowVars
    <3>1. Recorded' = Recorded - Held(a)
      BY <1>1, <2>4, <2>5, <2>6 DEF Recorded
    <3>. QED  BY <2>2, <2>6, <3>1
  <2>. QED  BY <2>3, <2>4, <2>6 DEF Recorded
<1>9. ASSUME NEW a \in Attempts, NettingFails(a)
      PROVE  SharesAccounted'
  <2>1. /\ UNCHANGED <<inventory, hedge, leg, pc>> /\ netted'[a] = {} /\ pc[a] = "net"
        /\ \A b \in Attempts \ {a} : netted'[b] = netted[b]
        /\ Recorded' = Recorded - RowShares(netted[a])
    <3>1. RowShares(netted[a]) \in Nat
      BY <1>1, HeldNat
    <3>. QED  BY <1>1, <1>9, <3>1 DEF NettingFails, rowVars, Recorded
  <2>2. leg[a] = 0
    BY <1>1, <2>1 DEF LegShape
  <2>3. RowShares(netted[a])' = 0
    BY <2>1, SumEmpty DEF RowShares
  <2>4. Carried(a) = RowShares(netted[a]) /\ Carried(a)' = 0 /\ RowShares(netted[a]) \in Nat
    <3>1. Held(a) = RowShares(netted[a]) /\ Held(a)' = 0 /\ RowShares(netted[a]) \in Nat
      BY <1>1, <2>1, <2>2, <2>3, HeldNat DEF Held
    <3>. QED  BY <2>1, <3>1 DEF Carried, Carriers, Holding
  <2>5. Recorded' = Recorded - Carried(a) + Carried(a)'
    BY <1>1, <2>1, <2>4
  <2>. QED  BY <2>1, <2>5, BooksOfAttempt
<1>10. ASSUME NEW a \in Attempts, FillViaPolymarket(a)
       PROVE  SharesAccounted'
  <2>1. /\ UNCHANGED <<inventory, hedge, netted>> /\ pc[a] = "net"
        /\ \A b \in Attempts \ {a} : pc'[b] = pc[b] /\ leg'[b] = leg[b]
    BY <1>1, <1>10 DEF FillViaPolymarket, Answer, Step, rowVars
  <2>2. leg[a] = 0 /\ RowShares(netted[a]) \in Nat /\ Held(a) = RowShares(netted[a])
    <3>1. leg[a] = 0 /\ RowShares(netted[a]) \in Nat
      BY <1>1, <2>1, HeldNat DEF LegShape
    <3>. QED  BY <3>1 DEF Held
  <2>3. \/ pc'[a] = "filled" /\ UNCHANGED <<leg, Recorded>>
        \/ pc'[a] = "reply" /\ Recorded' = Recorded - Held(a) /\ UNCHANGED leg
        \/ /\ pc'[a] = "filled"
           /\ \E shares \in 1 .. Remaining(a) + Excess(side) :
                 leg'[a] = shares /\ Recorded' = Recorded + shares
    <3>1. \A shares \in 0 .. Remaining(a) + Excess(side) : shares \in Int
      BY <1>1, HeldNat, ExcessNat
    <3>. QED  BY <1>1, <1>10, <2>2, <3>1 DEF FillViaPolymarket, Answer, Step, Recorded
  <2>4. CASE pc'[a] = "filled" /\ UNCHANGED <<leg, Recorded>>
    BY <1>2, <2>1, <2>4 DEF Holding
  <2>5. CASE pc'[a] = "reply" /\ Recorded' = Recorded - Held(a) /\ UNCHANGED leg
    BY <1>2, <2>1, <2>5 DEF Holding
  <2>6. ASSUME NEW shares \in 1 .. Remaining(a) + Excess(side), pc'[a] = "filled", leg'[a] = shares,
               Recorded' = Recorded + shares
        PROVE  SharesAccounted'
    <3>1. shares \in Nat
      BY <1>1, HeldNat, ExcessNat
    <3>2. RowShares(netted[a])' = RowShares(netted[a])
      BY <1>1, <2>1, HeldKept
    <3>3. Held(a)' = Held(a) + shares
      BY <2>2, <2>6, <3>1, <3>2 DEF Held
    <3>4. Carried(a) = Held(a) /\ Carried(a)' = Held(a) + shares
      BY <2>1, <2>6, <3>3 DEF Carried, Carriers, Holding
    <3>5. Recorded' = Recorded - Carried(a) + Carried(a)'
      BY <1>1, <2>2, <2>6, <3>1, <3>4
    <3>. QED  BY <2>1, <3>5, BooksOfAttempt
  <2>. QED  BY <2>3, <2>4, <2>5, <2>6
<1>11. ASSUME NEW a \in Attempts, NEW i \in Orders, TryClaimRow(a, i)
       PROVE  SharesAccounted'
  <2>1. /\ UNCHANGED <<leg, pc, hedge, Recorded>> /\ pc[a] = "net"
        /\ \A b \in Attempts \ {a} : netted'[b] = netted[b]
        /\ ~Claimable(a, i) => UNCHANGED <<netted, inventory>>
    BY <1>1, <1>11 DEF TryClaimRow, rowVars, Recorded
  <2>2. CASE ~Claimable(a, i)
    BY <1>2, <2>1, <2>2
  <2>3. CASE Claimable(a, i)
    <3>1. /\ inventory[i].state = "open"
          /\ inventory' = [inventory EXCEPT ![i].state = "netted"]
      BY <1>11, <2>3 DEF TryClaimRow, Claimable, Open
    <3>2. /\ inventory'[i].state = "netted" /\ inventory[i].shares \in Nat
          /\ \A j \in Orders \ {i} : inventory'[j] = inventory[j]
      BY <1>1, <3>1 DEF CountsTyped, RowRecord
    <3>3. Worth(i) = inventory[i].shares /\ Worth(i)' = 0
      BY <3>1, <3>2 DEF Worth, Loose
    <3>4. RowShares(Loose)' = RowShares(Loose) - inventory[i].shares + 0
          /\ RowShares(Loose) \in Int
      BY <1>1, <3>2, <3>3, LooseMoves
    <3>5. RowShares(netted[a])' = RowShares(netted[a]) + inventory[i].shares
      BY <1>11, <2>3, RowNetted
    <3>6. RowShares(netted[a]) \in Nat /\ leg[a] \in Nat
      BY <1>1, HeldNat
    <3>7. Held(a)' = Held(a) + inventory[i].shares /\ Held(a) \in Nat
      BY <2>1, <3>2, <3>5, <3>6 DEF Held
    <3>8. Carried(a) = Held(a) /\ Carried(a)' = Held(a) + inventory[i].shares
      BY <2>1, <3>7 DEF Carried, Carriers, Holding
    <3>9. \A b \in Attempts \ {a} : (b \in Carriers <=> b \in Carriers') /\ Held(b)' = Held(b)
      BY <1>1, <2>1, HeldKept DEF Carriers
    <3>10. InFlight' = InFlight - Held(a) + (Held(a) + inventory[i].shares) /\ InFlight \in Int
      BY <1>1, <3>8, <3>9, FlightMoves
    <3>11. SumFunction(hedge) \in Int /\ SumFunction(hedge)' = SumFunction(hedge)
      BY <1>1, <2>1, HedgeInt DEF CountsTyped
    <3>12. Recorded = RowShares(Loose) + InFlight + SumFunction(hedge)
      BY DEF SharesAccounted, Loose, Recorded
    <3>13. Recorded' = RowShares(Loose)' + InFlight' + SumFunction(hedge)'
      BY <2>1, <3>2, <3>4, <3>7, <3>10, <3>11, <3>12
    <3>. QED  BY <3>13 DEF SharesAccounted, Loose, Recorded
  <2>. QED  BY <2>2, <2>3
<1>12. ASSUME NEW r \in Requests, HedgeFill(r)
       PROVE  SharesAccounted'
  <2>1. /\ UNCHANGED <<inventory, leg, netted, pc>> /\ hedge[r] = 0
        /\ hedge' = [hedge EXCEPT ![r] = fillRow'[r]]
        /\ Recorded' = Recorded + hedge'[r]
    <3>1. /\ hedge' = [hedge EXCEPT ![r] = fillRow'[r]] /\ UNCHANGED unrecorded
          /\ position' = position + hedge'[r]
      BY <1>12 DEF HedgeFill
    <3>2. hedge'[r] \in Int
      BY <1>1, <3>1 DEF CountsTyped
    <3>. QED  BY <1>1, <1>12, <3>1, <3>2 DEF HedgeFill, attemptVars, Recorded
  <2>2. fillRow'[r] \in Nat /\ hedge \in [Requests -> Nat] /\ hedge'[r] = fillRow'[r]
    BY <1>1, <2>1 DEF CountsTyped
  <2>3. SumFunction(hedge)' = SumFunction(hedge) - 0 + fillRow'[r] /\ SumFunction(hedge) \in Int
    <3>. DEFINE n == fillRow'[r]
    <3>1. n \in Nat /\ hedge' = [hedge EXCEPT ![r] = n]
      BY <2>1, <2>2
    <3>. HIDE DEF n
    <3>2. SumFunction(hedge)' = SumFunction(hedge) - hedge[r] + n
      BY <2>2, <3>1, HedgeMoves
    <3>. QED  BY <2>1, <2>2, <3>2, HedgeInt DEF n
  <2>4. InFlight' = InFlight /\ InFlight \in Int
    <3>1. \A b \in Attempts : Held(b)' = Held(b)
      BY <1>1, <2>1, HeldKept
    <3>2. [b \in Attempts |-> Held(b)'] = [b \in Attempts |-> Held(b)]
      BY <3>1
    <3>3. InFlight' = InFlight
      BY <2>1, <3>2 DEF InFlight
    <3>. QED  BY <1>1, <3>3, FlightInt
  <2>5. RowShares(Loose)' = RowShares(Loose) /\ RowShares(Loose) \in Nat
    <3>1. /\ Loose' = Loose
          /\ [i \in Orders |-> inventory'[i].shares] = [i \in Orders |-> inventory[i].shares]
      BY <2>1 DEF Loose
    <3>2. RowShares(Loose)' = RowShares(Loose)
      BY <3>1 DEF RowShares
    <3>3. RowShares(Loose) \in Nat
      BY <1>1, SharesNat DEF RowShares, CountsTyped, Loose
    <3>. QED  BY <3>2, <3>3
  <2>6. Recorded = RowShares(Loose) + InFlight + SumFunction(hedge)
    BY DEF SharesAccounted, Loose, Recorded
  <2>7. Recorded' = RowShares(Loose)' + InFlight' + SumFunction(hedge)'
    BY <2>1, <2>2, <2>3, <2>4, <2>5, <2>6
  <2>. QED  BY <2>7 DEF SharesAccounted, Loose, Recorded
<1>13. ASSUME NEW i \in Orders, ClaimOrphan(i) \/ Liquidate(i) \/ Unclaim(i) \/ Abandon(i)
       PROVE  SharesAccounted'
  <2>1. /\ UNCHANGED <<hedge, pc, leg, netted>>
        /\ \/ UNCHANGED <<inventory, Recorded>>
           \/ /\ inventory[i].state = "open" /\ UNCHANGED Recorded
              /\ inventory' = [inventory EXCEPT ![i].state = "claimed"]
           \/ /\ i \in liq.claimed /\ UNCHANGED Recorded
              /\ inventory' = [inventory EXCEPT ![i].state = "open"]
           \/ /\ i \in liq.claimed /\ Recorded' = Recorded - inventory[i].shares
              /\ inventory' = [inventory EXCEPT ![i].state = "liquidated"]
    <3>1. inventory[i].shares \in Nat /\ \A shares \in Reversible(i) : shares \in Int
      BY <1>1, ExcessNat DEF CountsTyped, RowRecord, Reversible
    <3>2. CASE ClaimOrphan(i) \/ Unclaim(i)
      BY <3>2 DEF ClaimOrphan, Unclaim, Open, attemptVars, rowVars, Recorded
    <3>3. CASE Liquidate(i)
      BY <1>1, <3>1, <3>3 DEF Liquidate, attemptVars, rowVars, Recorded
    <3>4. CASE Abandon(i)
      BY <1>1, <3>1, <3>4 DEF Abandon, attemptVars, rowVars, Recorded
    <3>. QED  BY <1>13, <3>2, <3>3, <3>4
  <2>2. i \in liq.claimed => inventory[i].state = "claimed"
    BY <1>1 DEF RowsMarked
  <2>3. /\ \A j \in Orders \ {i} : inventory'[j] = inventory[j]
        /\ inventory'[i].shares = inventory[i].shares /\ inventory[i].shares \in Nat
    <3>1. inventory[i].shares \in Nat
      BY <1>1 DEF CountsTyped, RowRecord
    <3>. QED  BY <1>1, <2>1, <3>1 DEF CountsTyped, RowRecord
  <2>4. \/ UNCHANGED <<inventory, Recorded>>
        \/ /\ inventory[i].state \in {"open", "claimed"}
           /\ inventory'[i].state \in {"open", "claimed"}
           /\ UNCHANGED Recorded
        \/ /\ inventory[i].state = "claimed" /\ inventory'[i].state = "liquidated"
           /\ Recorded' = Recorded - inventory[i].shares
    BY <1>1, <2>1, <2>2 DEF CountsTyped, RowRecord
  <2>5. Recorded' = Recorded - Worth(i) + Worth(i)'
    <3>1. Worth(i) = (IF inventory[i].state \in {"open", "claimed"} THEN inventory[i].shares ELSE 0)
          /\ Worth(i)' = (IF inventory'[i].state \in {"open", "claimed"}
                          THEN inventory[i].shares ELSE 0)
      BY <2>3 DEF Worth, Loose
    <3>. QED  BY <1>1, <2>3, <2>4, <3>1
  <2>. QED  BY <2>1, <2>3, <2>5, BooksOfRow
<1>14. ASSUME UNCHANGED <<inventory, hedge, pc, leg, netted, Recorded>>
       PROVE  SharesAccounted'
  BY <1>14, BooksUnmoved
<1>15. ASSUME \/ \E a \in Attempts : Land(a)
              \/ \E r \in Requests : Expire(r) \/ SweepNonce(r)
              \/ \E n \in 0 .. Cardinality(Attempts) : ListOrphans(n)
       PROVE  UNCHANGED <<inventory, hedge, pc, leg, netted, Recorded>>
  BY <1>15 DEF Land, Expire, SweepNonce, ListOrphans, attemptVars, rowVars, Recorded
<1>16. ASSUME Crash
       PROVE  SharesAccounted'
  <2>1. /\ UNCHANGED <<inventory, hedge>> /\ Recorded' = Recorded - InFlight
        /\ \A a \in Attempts : pc'[a] \notin Holding
    <3>1. InFlight \in Int /\ Orderable \in Int
      BY <1>1, FlightInt, OrderableInt
    <3>. QED  BY <1>1, <1>16, <3>1 DEF Crash, rowVars, Holding, Recorded
  <2>2. Carriers' = {}
    BY <2>1 DEF Carriers
  <2>3. InFlight' = 0
    BY <2>2, SumEmpty DEF InFlight, Carriers
  <2>4. RowShares(Loose)' = RowShares(Loose) /\ RowShares(Loose) \in Nat
    <3>1. /\ Loose' = Loose
          /\ [i \in Orders |-> inventory'[i].shares] = [i \in Orders |-> inventory[i].shares]
      BY <2>1 DEF Loose
    <3>2. RowShares(Loose)' = RowShares(Loose)
      BY <3>1 DEF RowShares
    <3>3. RowShares(Loose) \in Nat
      BY <1>1, SharesNat DEF RowShares, CountsTyped, Loose
    <3>. QED  BY <3>2, <3>3
  <2>5. SumFunction(hedge) \in Int /\ SumFunction(hedge)' = SumFunction(hedge)
    BY <1>1, <2>1, HedgeInt DEF CountsTyped
  <2>6. Recorded = RowShares(Loose) + InFlight + SumFunction(hedge) /\ InFlight \in Int
    BY <1>1, FlightInt DEF SharesAccounted, Loose, Recorded
  <2>7. Recorded' = RowShares(Loose)' + InFlight' + SumFunction(hedge)'
    BY <2>1, <2>3, <2>4, <2>5, <2>6
  <2>. QED  BY <2>7 DEF SharesAccounted, Loose, Recorded
<1>. QED
  BY <1>3, <1>4, <1>5, <1>6, <1>7, <1>8, <1>9, <1>10, <1>11, <1>12, <1>13, <1>14, <1>15, <1>16
     DEF Next, Orchestrate

-----------------------------------------------------------------------------
(* What the user gets                                                      *)

(* However often a request is tried, with whatever parts of it hedged, it  *)
(* is not filled, recorded or hedged for more than it asks for, but for    *)
(* what a BUY's dollars buy more.                                          *)
WithinRequest == \A r \in Requests :
    /\ fillRow[r] <= Size[r] + Excess(side)
    /\ hedge[r] <= Size[r] + Excess(side)
    /\ \A a \in landed[r] : Signed(a) <= Size[r] + Excess(side)

LEMMA SignedWithin ==
  ASSUME AllInv, NEW a \in Attempts
  PROVE  /\ Signed(a) <= Size[RequestOf[a]] + Excess(side)
         /\ Held(a) <= Size[RequestOf[a]] + Excess(side)
<1>1. Size[RequestOf[a]] \in Nat /\ Excess(side) \in Nat
  BY TradeAssumption, ExcessNat
<1>. QED  BY <1>1 DEF AllInv, SizeInv, HeldBound, Signed

LEMMA LandedWithin ==
  ASSUME AllInv, NEW r \in Requests, NEW a \in landed[r]
  PROVE  Signed(a) <= Size[r] + Excess(side)
<1>1. a \in Attempts /\ RequestOf[a] = r
  BY DEF AllInv, RowsInv, FillsBy
<1>. QED  BY <1>1, SignedWithin

LEMMA WithinRequestStep ==
  ASSUME AllInv, AllInv', WithinRequest, Next
  PROVE  WithinRequest'
<1>. USE TradeAssumption
<1>1. CountsTyped
  BY DEF AllInv, SizeInv
<1>2. Excess(side)' = Excess(side)
  BY PathKept
<1>3. ASSUME NEW r \in Requests, NEW a \in landed'[r]
      PROVE  Signed(a)' <= Size[r] + Excess(side)
  <2>1. a \in Attempts /\ RequestOf[a] = r
    BY <1>3 DEF AllInv, RowsInv, FillsBy
  <2>2. Held(a)' <= Size[RequestOf[a]] + Excess(side)'
    BY <2>1 DEF AllInv, SizeInv, HeldBound
  <2>3. Size[r] \in Nat /\ Excess(side) \in Nat
    BY ExcessNat
  <2>. QED  BY <1>2, <2>1, <2>2, <2>3 DEF Signed
<1>. DEFINE Within(row) == \A r \in Requests : row[r] <= Size[r] + Excess(side)
<1>4. Within(fillRow) /\ Within(hedge)
  BY DEF WithinRequest
<1>5. ASSUME NEW a \in Attempts, RecordFill(a) \/ PersistFillAndHedge(a)
      PROVE  Within(fillRow') /\ Within(hedge')
  <2>1. \A r \in Requests :
           fillRow'[r] = fillRow[r] \/ (r = RequestOf[a] /\ fillRow'[r] = Signed(a))
    BY <1>1, <1>5 DEF RecordFill, PersistFillAndHedge, rowVars, CountsTyped
  <2>2. \A r \in Requests : hedge'[r] = hedge[r] \/ (r = RequestOf[a] /\ hedge'[r] = Held(a))
    BY <1>1, <1>5 DEF RecordFill, PersistFillAndHedge, rowVars, CountsTyped
  <2>. QED  BY <1>4, <2>1, <2>2, SignedWithin
<1>6. ASSUME NEW r \in Requests, HedgeFill(r)
      PROVE  Within(fillRow') /\ Within(hedge')
  <2>1. PICK a \in landed[r] : fillRow' = [fillRow EXCEPT ![r] = IF @ = 0 THEN Signed(a) ELSE @]
    BY <1>6 DEF HedgeFill
  <2>2. \A q \in Requests : fillRow'[q] = fillRow[q] \/ (q = r /\ fillRow'[q] = Signed(a))
    BY <1>1, <2>1 DEF CountsTyped
  <2>3. Within(fillRow')
    BY <1>4, <2>2, LandedWithin
  <2>4. \A q \in Requests : hedge'[q] \in {hedge[q], fillRow'[q]}
    BY <1>1, <1>6 DEF HedgeFill, CountsTyped
  <2>. QED  BY <1>4, <2>3, <2>4
<1>7. ASSUME NEW a \in Attempts,
             \/ Claim(a) \/ Begin(a) \/ Preflight(a) \/ NettingFails(a) \/ FillViaPolymarket(a)
             \/ TreasuryShort(a) \/ SignAndSend(a) \/ Land(a) \/ Confirm(a) \/ SubmitFails(a)
             \/ Finish(a) \/ \E i \in Orders : TryClaimRow(a, i)
      PROVE  UNCHANGED <<fillRow, hedge>>
  BY <1>7 DEF Claim, Begin, Preflight, NettingFails, FillViaPolymarket, TreasuryShort,
     SignAndSend, Land, Confirm, SubmitFails, Finish, TryClaimRow, rowVars
<1>8. ASSUME \/ \E r \in Requests : Expire(r) \/ SweepNonce(r)
             \/ \E n \in 0 .. Cardinality(Attempts) : ListOrphans(n)
             \/ \E i \in Orders : ClaimOrphan(i) \/ Liquidate(i) \/ Unclaim(i) \/ Abandon(i)
             \/ Crash
      PROVE  UNCHANGED <<fillRow, hedge>>
  BY <1>8 DEF Expire, SweepNonce, ListOrphans, ClaimOrphan, Liquidate, Unclaim, Abandon, Crash,
     rowVars
<1>9. Within(fillRow') /\ Within(hedge')
  BY <1>4, <1>5, <1>6, <1>7, <1>8 DEF Next, Orchestrate
<1>. QED  BY <1>2, <1>3, <1>9 DEF WithinRequest

-----------------------------------------------------------------------------
(* The theorems                                                            *)

LEMMA InitialState ==
  ASSUME Init
  PROVE  KeyInv /\ InventoryInv /\ AnswerInv /\ RowsInv
<1>. USE TradeAssumption
<1>1. KeyInv
  BY DEF Init, KeyInv, KeyTyped, KeyPending, NoParallelAttempts, Running, Keys, Steps, Replies
<1>2. InventoryInv
  <2>1. /\ pc \in [Attempts -> Steps] /\ netted \in [Attempts -> SUBSET Orders]
        /\ \A a \in Attempts : netted[a] = {}
        /\ liq.claimed = {}
    BY DEF Init, Steps, Idle
  <2>2. /\ DOMAIN inventory = Orders
        /\ \A i \in Orders : inventory[i] = IF i \in Attempts THEN NoRow
                                            ELSE [state |-> "open", shares |-> Stock[i], at |-> 0]
    BY DEF Init
  <2>3. InventoryTyped
    BY <2>1, <2>2 DEF InventoryTyped, NoRow
  <2>4. RowsMarked
    <3>1. NoRow.state = "none" /\ Attempts \subseteq Orders
      BY DEF NoRow, Orders
    <3>2. \A a \in Attempts : inventory[a] = NoRow
      BY <2>2, <3>1
    <3>3. \A a \in Attempts : inventory[a].state = "none"
      BY <3>1, <3>2
    <3>. QED  BY <2>1, <3>3 DEF RowsMarked
  <2>. QED  BY <2>1, <2>3, <2>4 DEF InventoryInv, InventoryUsedOnce
<1>3. AnswerInv
  BY DEF Init, AnswerInv, ChainTyped, Backed, Known, Untouched, Ended
<1>4. RowsInv
  BY DEF Init, RowsInv, RowsTyped, FillsBy, ConfirmedFills, RowsMatchChain
<1>. QED  BY <1>1, <1>2, <1>3, <1>4

LEMMA Unchanged ==
  ASSUME KeyInv, InventoryInv, AnswerInv, RowsInv, UNCHANGED vars
  PROVE  KeyInv' /\ InventoryInv' /\ AnswerInv' /\ RowsInv'
<1>1. UNCHANGED <<path, key, pc, reply, lapsed, inventory, netted, leg, liq, chainVars, rowVars>>
  BY DEF vars, attemptVars
<1>2. KeyInv'
  BY <1>1, KeyKept
<1>3. InventoryInv'
  BY <1>1, InventoryKept DEF InventoryInv, InventoryTyped
<1>4. AnswerInv'
  BY <1>1, AnswersKept DEF chainVars
<1>5. RowsInv'
  <2>1. /\ \A a \in Attempts : Signed(a)' = Signed(a)
        /\ HedgeFirst' <=> HedgeFirst
    BY <1>1 DEF Signed, Held, RowShares, HedgeFirst
  <2>. QED  BY <1>1, <2>1, RowsKept DEF chainVars, RowsInv, RowsTyped
<1>. QED  BY <1>2, <1>3, <1>4, <1>5

LEMMA InitialSizes ==
  ASSUME Init
  PROVE  SizeInv /\ SharesAccounted
<1>. USE TradeAssumption
<1>9. NonceTyped
  BY DEF Init, NonceTyped
<1>1. CountsTyped
  <2>1. inventory \in [Orders -> RowRecord]
    <3>1. NoRow \in RowRecord
      BY DEF NoRow, RowRecord
    <3>2. \A i \in DOMAIN Stock : [state |-> "open", shares |-> Stock[i], at |-> 0] \in RowRecord
      BY DEF RowRecord
    <3>. QED  BY <3>1, <3>2 DEF Init, Orders
  <2>2. \A i \in DOMAIN Stock : Stock[i] \in Int
    OBVIOUS
  <2>3. SumFunction(Stock) \in Int
    BY <2>2, SumInt DEF SumFunction
  <2>. QED  BY <2>1, <2>3 DEF Init, CountsTyped, Idle
<1>2. \A a \in Attempts : leg[a] = 0 /\ netted[a] = {} /\ pc[a] = "idle"
  BY DEF Init
<1>3. LegShape
  BY <1>2 DEF Init, LegShape
<1>4. HeldBound
  <2>1. \A a \in Attempts : Held(a) = 0
    BY <1>2, NothingHeld
  <2>2. \A a \in Attempts : RowShares(netted[a]) = 0
    BY <1>2, SumEmpty DEF RowShares
  <2>. QED  BY <2>1, <2>2, ExcessNat DEF HeldBound
<1>5. InFlight = 0
  <2>1. {a \in Attempts : pc[a] \in Holding} = {}
    BY <1>2 DEF Holding
  <2>. QED  BY <2>1, SumEmpty DEF InFlight
<1>6. SumFunction(hedge) = 0
  <2>1. \A r \in Requests : hedge[r] = 0
    BY DEF Init
  <2>2. DOMAIN hedge = Requests
    BY DEF Init
  <2>. QED  BY <2>1, <2>2, SumZero DEF SumFunction
<1>7. RowShares(Loose) = SumFunction(Stock)
  <2>. DEFINE f == [i \in Orders |-> inventory[i].shares]
              g == Stock
              S == DOMAIN Stock
  <2>1. Loose = S
    BY DEF Init, Loose, Orders, NoRow
  <2>2. \A i \in S : f[i] = g[i]
    BY DEF Init, Orders
  <2>3. RowShares(Loose) = SumFunctionOnSet(f, S) /\ SumFunction(Stock) = SumFunctionOnSet(g, S)
    BY <2>1 DEF RowShares, SumFunction
  <2>4. IsFiniteSet(S)
    OBVIOUS
  <2>. HIDE DEF f, g, S
  <2>. QED  BY <2>2, <2>3, <2>4, SumSame
<1>8. Recorded = RowShares(Loose) + InFlight + SumFunction(hedge)
  <2>1. Recorded = SumFunction(Stock) /\ Recorded \in Int
    BY <1>1 DEF Init, CountsTyped, Recorded
  <2>. QED  BY <1>5, <1>6, <1>7, <2>1
<1>. QED  BY <1>1, <1>3, <1>4, <1>8, <1>9 DEF SizeInv, SharesAccounted, Loose, Recorded

LEMMA SizesUnchanged ==
  ASSUME AllInv, SharesAccounted, UNCHANGED vars
  PROVE  SizeInv' /\ SharesAccounted'
<1>1. UNCHANGED <<path, side, pc, cand, netted, leg, inventory, landed, used, quote, hedge,
                  fillRow, liq, crashes, position, unrecorded, lapsed>>
  BY DEF vars, attemptVars, chainVars, rowVars
<1>2. CountsTyped' /\ NonceTyped' /\ LegShape'
  BY <1>1 DEF AllInv, SizeInv, CountsTyped, NonceTyped, LegShape, HedgeFirst
<1>3. HeldBound'
  <2>1. [i \in Orders |-> inventory'[i].shares] = [i \in Orders |-> inventory[i].shares]
    BY <1>1
  <2>2. \A a \in Attempts : Held(a)' = Held(a) /\ RowShares(netted[a])' = RowShares(netted[a])
    BY <1>1, <2>1 DEF Held, RowShares
  <2>. QED  BY <1>1, <2>2 DEF AllInv, SizeInv, HeldBound
<1>4. SharesAccounted'
  BY <1>1, BooksUnmoved DEF Recorded
<1>. QED  BY <1>2, <1>3, <1>4 DEF SizeInv

IInv == AllInv /\ SharesAccounted

LEMMA Invariance == Spec => []IInv
<1>1. Init => IInv
  BY InitialState, InitialSizes DEF IInv, AllInv
<1>2. IInv /\ Next => IInv'
  <2>. SUFFICES ASSUME AllInv, SharesAccounted, Next
                PROVE  AllInv' /\ SharesAccounted'
    BY DEF IInv
  <2>1. KeyInv' /\ InventoryInv' /\ AnswerInv' /\ RowsInv'
    BY KeyStep, InventoryStep, AnswerStep, RowsStep DEF AllInv
  <2>2. CountsTyped' /\ NonceTyped' /\ LegShape' /\ HeldBound'
    BY CountsStep, NonceStep, LegShapeStep, HeldBoundStep
  <2>3. SharesAccounted'
    BY <2>1, <2>2, SharesStep DEF InventoryInv
  <2>. QED  BY <2>1, <2>2, <2>3 DEF AllInv, SizeInv
<1>3. IInv /\ UNCHANGED vars => IInv'
  BY Unchanged, SizesUnchanged DEF IInv, AllInv
<1>. QED  BY <1>1, <1>2, <1>3, PTL DEF Spec

(* service.trade-orchestrator.ts, combine_hedge_legs and the netter: no    *)
(* attempt nets more than its request asks for, whatever rows it was       *)
(* shown, lost to others or took, nor holds more with its own order but    *)
(* for what a BUY's dollars buy more (client.ts:308-320 and 378-385); and  *)
(* every variable keeps its type.                                          *)
THEOREM TypeCorrect == Spec => []TypeOK
<1>1. IInv => TypeOK
  BY DEF IInv, AllInv, KeyInv, KeyTyped, InventoryInv, InventoryTyped, AnswerInv, ChainTyped,
     SizeInv, CountsTyped, NonceTyped, HeldBound, RowRecord, TypeOK
<1>. QED  BY Invariance, <1>1, PTL

(* service.trade-orchestrator.ts, the inventory netter, the liquidator and *)
(* the hedger: for any number of requests, attempts and rows, every share  *)
(* that the platform holds on Polymarket is in one place, an open or       *)
(* claimed row, a running attempt or a Hedge row, but for those that one   *)
(* of the code's errors or a crash left without a record, or in a row      *)
(* that was traded back before the error: no other share is lost, and no   *)
(* other is counted twice.                                                 *)
THEOREM SharesAreAccounted == Spec => []SharesAccounted
<1>1. IInv => SharesAccounted
  BY DEF IInv
<1>. QED  BY Invariance, <1>1, PTL

(* service.trade-idempotency.ts: while its key lives, a request has one    *)
(* attempt under way, however many times it is sent, answered, refused or  *)
(* cut off by a crash.                                                     *)
THEOREM AttemptsDoNotOverlap == Spec => []NoParallelAttempts
<1>1. IInv => NoParallelAttempts
  BY DEF IInv, AllInv, KeyInv
<1>. QED  BY Invariance, <1>1, PTL

(* service.inventory-netter.ts and liquidator.ts: the two processes that   *)
(* use the inventory up never use a row twice, whatever either has read    *)
(* before its conditional update, and whichever of them fails afterwards.  *)
THEOREM InventoryIsUsedOnce == Spec => []InventoryUsedOnce
<1>1. IInv => InventoryUsedOnce
  BY DEF IInv, AllInv, InventoryInv
<1>. QED  BY Invariance, <1>1, PTL

(* service.trade-orchestrator.ts: for any number of attempts, an answer    *)
(* "filled" stands for a fill on chain, up to the failed transactions that *)
(* count as successes, and a rejected attempt never fills.                 *)
THEOREM RepliesAreTruthful == Spec => []RepliesTruthful
<1>1. IInv => RepliesTruthful
  BY DEF IInv, AllInv, AnswerInv, Backed, Known, Untouched, RepliesTruthful
<1>. QED  BY Invariance, <1>1, PTL

(* record_fill_idempotent, persist_fill_and_hedge and the hedger's upsert: *)
(* whichever of them writes a request's rows, and in whatever order, the   *)
(* rows have the size of one fill on chain, although the attempts of one   *)
(* request may have signed different sizes and, once the nonce is swept,   *)
(* fill more than once; but for the failed transactions that count as      *)
(* successes.                                                              *)
THEOREM RowsFollowChain == Spec => []RowsMatchChain
<1>1. IInv => RowsMatchChain
  BY DEF IInv, AllInv, RowsInv
<1>. QED  BY Invariance, <1>1, PTL

(* service.trade-orchestrator.ts, record_fill_idempotent and the hedger:   *)
(* no fill on chain, Fill row or Hedge row of a request exceeds its size,  *)
(* for a SELL, or its size by more than the price's improvement, for a     *)
(* BUY, although each may come from an attempt of its own that signed a    *)
(* size of its own.                                                        *)
THEOREM NothingOverfilled == Spec => []WithinRequest
<1>1. Init => WithinRequest
  <2>1. \A r \in Requests : Size[r] \in Nat /\ Excess(side) \in Nat
    BY TradeAssumption, ExcessNat
  <2>. QED  BY <2>1 DEF Init, WithinRequest
<1>2. IInv /\ IInv' /\ WithinRequest /\ [Next]_vars => WithinRequest'
  <2>1. IInv /\ IInv' /\ WithinRequest /\ Next => WithinRequest'
    BY WithinRequestStep DEF IInv
  <2>2. WithinRequest /\ UNCHANGED vars => WithinRequest'
    BY DEF WithinRequest, vars, attemptVars, chainVars, rowVars, Signed, Held, RowShares,
       HedgeFirst
  <2>. QED  BY <2>1, <2>2
<1>. QED  BY <1>1, <1>2, Invariance, PTL DEF Spec
=============================================================================
