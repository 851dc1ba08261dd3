----------------------------- MODULE FillIngest -----------------------------
(***************************************************************************)
(* apps/hedger/ingest and db/cursor.ts: how OrderFilled events on the      *)
(* chain become hedge jobs.  The live listener is told of transactions     *)
(* while its websocket lasts; the poller asks for the signatures after the *)
(* cursor, hands every fill to the same handler, and moves the cursor, in  *)
(* memory first and in the BotCursor row after.                            *)
(*                                                                         *)
(* A signature is the position of its transaction in the program's         *)
(* history, 0 standing for null; a transaction holds at most one fill.     *)
(* The chain, the RPC node and the job queue are external.                 *)
(***************************************************************************)
EXTENDS Integers, Sequences

CONSTANTS
    BackfillLimit,      \* HEDGER_MAX_BACKFILL_SIGNATURES
    ListenerEnabled,    \* HEDGER_LIVE_LISTENER_ENABLED
    MaxTxs,             \* bound on the length of the history
    MaxSlot,            \* bound on the slots
    MaxCrashes          \* bound on the number of crashes

ASSUME IngestAssumption ==
    /\ BackfillLimit \in Nat \ {0}
    /\ ListenerEnabled \in BOOLEAN
    /\ MaxTxs \in Nat
    /\ MaxSlot \in Nat
    /\ MaxCrashes \in Nat

VARIABLES
    history,    \* the program's transactions, oldest first
    cursor,     \* Cursor.slot and Cursor.signature, in memory
    row,        \* BotCursor.lastProcessedSlot and lastProcessedSignature
    tick,       \* where the poller's tick stands; "idle" is running = false
    batch,      \* signatures the tick has still to process
    subscribed, \* whether an onLogs subscription is open
    retrying,   \* whether a reconnect is scheduled
    enqueued,   \* fills the handler has put on the hedge queue
    up,         \* whether the process runs
    crashes,    \* crashes so far
    threw,      \* history: fills whose handler threw in a tick
    unseen      \* history: fills a tick never saw, beyond the limit or null

pollerVars   == <<cursor, row, tick, batch>>
listenerVars == <<subscribed, retrying>>
processVars  == <<up, crashes>>
missedVars   == <<threw, unseen>>
vars == <<history, pollerVars, listenerVars, enqueued, processVars, missedVars>>

(* "plain": reverted, or without an OrderFilled event.                     *)
Kinds      == {"fill", "plain"}
Tx         == [slot: Nat, kind: Kinds]
Checkpoint == [slot: Nat, signature: Nat]
Null       == [slot |-> 0, signature |-> 0]

IsFill(i) == history[i].kind = "fill"

Init ==
    /\ history = <<>>
    /\ cursor = Null
    /\ row = Null
    /\ tick = "idle"
    /\ batch = {}
    /\ subscribed = FALSE
    /\ retrying = FALSE
    /\ enqueued = {}
    /\ up = FALSE
    /\ crashes = 0
    /\ threw = {}
    /\ unseen = {}

(* A transaction of the program lands, in the slot of the one before it or *)
(* a later one.                                                            *)
Land(slot, kind) ==
    /\ Len(history) < MaxTxs
    /\ history # <<>> => slot >= history[Len(history)].slot
    /\ history' = Append(history, [slot |-> slot, kind |-> kind])
    /\ UNCHANGED <<pollerVars, listenerVars, enqueued, processVars, missedVars>>

-----------------------------------------------------------------------------
(* Listener.  A notification may be lost, come late or come twice; what    *)
(* the handler throws is swallowed.                                        *)
HandleLogs(i) ==
    /\ up /\ subscribed
    /\ i \in DOMAIN history
    /\ IsFill(i)
    /\ enqueued' = enqueued \cup {i}
    /\ UNCHANGED <<history, pollerVars, listenerVars, processVars, missedVars>>

(* subscribe(): the subscription opens and the connect time is recorded;   *)
(* when that write throws the subscription stays open and the reconnect is *)
(* scheduled again, as it is when the subscription does not open at all.   *)
Subscribe ==
    /\ up /\ retrying
    /\ subscribed' = TRUE
    /\ retrying' \in BOOLEAN
    /\ UNCHANGED <<history, pollerVars, enqueued, processVars, missedVars>>

-----------------------------------------------------------------------------
(* Poller                                                                  *)
(* Mutant of Newest: the limit is not passed to the RPC.                   *)
NewestUnlimited == (cursor.signature + 1) .. Len(history)

(* getSignaturesForAddress until the cursor: the newest come first, so the *)
(* limit cuts off the oldest.                                              *)
Newest == {i \in (cursor.signature + 1) .. Len(history) : Len(history) - i < BackfillLimit}

FetchNewSignatures ==
    /\ up
    /\ tick = "idle"
    /\ batch' = Newest
    /\ tick' = IF batch' = {} THEN "idle" ELSE "fetch"
    /\ unseen' = unseen \cup
           {i \in (cursor.signature + 1) .. Len(history) : i \notin batch' /\ IsFill(i)}
    /\ UNCHANGED <<cursor, row, threw>>
    /\ UNCHANGED <<history, listenerVars, enqueued, processVars>>

(* Mutant of Oldest: the batch is processed as the RPC returned it.        *)
OldestUnreversed(i) == i \in batch /\ \A j \in batch : j <= i

(* The batch is reversed, so that the oldest signature is processed first. *)
Oldest(i) == i \in batch /\ \A j \in batch : i <= j

(* process_signature up to the cursor: the fill reaches the queue, or its  *)
(* handler throws, or getTransaction returns null and no event is seen; a  *)
(* transaction without a fill changes nothing.                             *)
Dispatch(i) ==
    /\ up
    /\ tick = "fetch"
    /\ Oldest(i)
    /\ \/ /\ IsFill(i)
          /\ enqueued' = enqueued \cup {i}
          /\ UNCHANGED missedVars
       \/ /\ IsFill(i)
          /\ threw' = threw \cup {i}
          /\ UNCHANGED <<enqueued, unseen>>
       \/ /\ IsFill(i)
          /\ unseen' = unseen \cup {i}
          /\ UNCHANGED <<enqueued, threw>>
       \/ /\ ~IsFill(i)
          /\ UNCHANGED <<enqueued, missedVars>>
    /\ tick' = "advance"
    /\ UNCHANGED <<cursor, row, batch>>
    /\ UNCHANGED <<history, listenerVars, processVars>>

Done(i) ==
    /\ batch' = batch \ {i}
    /\ tick' = IF batch' = {} THEN "idle" ELSE "fetch"

(* Mutant of Abort: the finally block that resets running is missing.      *)
AbortRunning == tick' = "fetch" /\ batch' = {}

(* An error leaves run_once; tick() logs it and resets running.            *)
Abort == tick' = "idle" /\ batch' = {}

(* Cursor.advance: the monotonic guard, then memory before the row.        *)
Advance(i) ==
    /\ up
    /\ tick = "advance"
    /\ Oldest(i)
    /\ IF cursor # Null /\ history[i].slot <= cursor.slot
       THEN Done(i) /\ UNCHANGED cursor
       ELSE /\ cursor' = [slot |-> history[i].slot, signature |-> i]
            /\ tick' = "persist"
            /\ UNCHANGED batch
    /\ UNCHANGED row
    /\ UNCHANGED <<history, listenerVars, enqueued, processVars, missedVars>>

Persist(i) ==
    /\ up
    /\ tick = "persist"
    /\ Oldest(i)
    /\ \/ row' = cursor /\ Done(i)
       \/ UNCHANGED row /\ Abort
    /\ UNCHANGED cursor
    /\ UNCHANGED <<history, listenerVars, enqueued, processVars, missedVars>>

(* getTransaction throws.  A failing getSignaturesForAddress changes       *)
(* nothing: the tick ends where it began.                                  *)
FetchThrows ==
    /\ up
    /\ tick = "fetch"
    /\ Abort
    /\ UNCHANGED <<cursor, row>>
    /\ UNCHANGED <<history, listenerVars, enqueued, processVars, missedVars>>

-----------------------------------------------------------------------------
Crash ==
    /\ up
    /\ crashes < MaxCrashes
    /\ up' = FALSE
    /\ crashes' = crashes + 1
    /\ tick' = "idle"
    /\ batch' = {}
    /\ subscribed' = FALSE
    /\ retrying' = FALSE
    /\ UNCHANGED <<history, cursor, row, enqueued, missedVars>>

(* Mutant of Boot: the cursor is not loaded.                               *)
BootUnloaded ==
    /\ ~up
    /\ up' = TRUE
    /\ cursor' = Null
    /\ retrying' = ListenerEnabled
    /\ UNCHANGED <<crashes, subscribed, row, tick, batch, history, enqueued, missedVars>>

(* FillIngester.start: load the cursor, start the poller, subscribe.       *)
Boot ==
    /\ ~up
    /\ up' = TRUE
    /\ cursor' = row
    /\ retrying' = ListenerEnabled
    /\ UNCHANGED <<crashes, subscribed, row, tick, batch, history, enqueued, missedVars>>

Next ==
    \/ \E slot \in 1 .. MaxSlot, kind \in Kinds : Land(slot, kind)
    \/ \E i \in DOMAIN history : HandleLogs(i) \/ Dispatch(i) \/ Advance(i) \/ Persist(i)
    \/ Subscribe
    \/ FetchNewSignatures
    \/ FetchThrows
    \/ Crash
    \/ Boot

Spec == Init /\ [][Next]_vars

(* The interval keeps ticking and the process is restarted; an RPC node    *)
(* that fails now and then answers in the end.  Nothing is asked of the    *)
(* websocket, nor of the database write of the cursor.                     *)
Fairness ==
    /\ WF_vars(Boot)
    /\ WF_vars(FetchNewSignatures)
    /\ \A i \in 1 .. MaxTxs :
        /\ SF_vars(Dispatch(i))
        /\ WF_vars(Advance(i))
        /\ WF_vars(Persist(i))

FairSpec == Spec /\ Fairness

-----------------------------------------------------------------------------
(* Every variable stays in its type, and a tick within the limit.          *)
TypeOK ==
    /\ history \in Seq(Tx)
    /\ cursor \in Checkpoint
    /\ row \in Checkpoint
    /\ tick \in {"idle", "fetch", "advance", "persist"}
    /\ batch \subseteq DOMAIN history
    /\ \A i, j \in batch : i - j < BackfillLimit
    /\ subscribed \in BOOLEAN
    /\ retrying \in BOOLEAN
    /\ enqueued \subseteq DOMAIN history
    /\ up \in BOOLEAN
    /\ crashes \in Nat
    /\ threw \subseteq DOMAIN history
    /\ unseen \subseteq DOMAIN history

Accounted(i) == IsFill(i) => i \in enqueued \cup threw \cup unseen

(* No fill is left behind the cursor, in memory or in its row, through     *)
(* crashes, aborted ticks, failed writes and transactions that share a     *)
(* slot: it is on the queue, or its own handler call or fetch failed.      *)
NothingLeftBehind ==
    \A i \in DOMAIN history :
        i <= cursor.signature \/ i <= row.signature => Accounted(i)

(* The checkpoint on disk never moves back to an older slot, although it   *)
(* is overwritten with whatever the process has in memory.                 *)
CheckpointNeverRegresses == [][row'.slot >= row.slot]_vars

(* Every fill that lands is on the queue in the end, whatever the          *)
(* websocket loses and whenever the process stops, unless the tick that    *)
(* should have delivered it could not see it or its handler threw.         *)
FillsDelivered ==
    \A i \in 1 .. MaxTxs :
        (i \in DOMAIN history /\ IsFill(i)) ~> (i \in enqueued \cup threw \cup unseen)

(* cursor.ts:67-70: "a thrown handler doesn't move the cursor forward and  *)
(* we re-process on next boot (at-least-once delivery)".                   *)
ThrownFillStaysAhead == \A i \in threw \ enqueued : row.signature < i
=============================================================================
