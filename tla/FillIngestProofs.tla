-------------------------- MODULE FillIngestProofs --------------------------
(***************************************************************************)
(* Theorems about FillIngest, for any history, backfill limit and number   *)
(* of crashes.  NothingLeftBehind is not inductive: when the cursor jumps  *)
(* to the oldest signature of the batch, what lies between is accounted    *)
(* for because the batch was cut from a contiguous history (BatchCovers)   *)
(* and because dispatch comes before the cursor moves (HeadHandled).  That *)
(* the row never regresses needs that memory is never behind it (RowBehind *)
(* while the process is up).                                               *)
(***************************************************************************)
EXTENDS FillIngest, TLAPS

WithinHistory == cursor.signature <= Len(history) /\ row.signature <= Len(history)

BatchCovers ==
    \A b \in batch, j \in DOMAIN history : j < b /\ j \notin batch => Accounted(j)

HeadHandled ==
    tick \in {"advance", "persist"} => \A i \in batch : Oldest(i) => Accounted(i)

RowBehind == up => row.slot <= cursor.slot

IInv ==
    /\ TypeOK
    /\ WithinHistory
    /\ BatchCovers
    /\ HeadHandled
    /\ RowBehind
    /\ NothingLeftBehind

-----------------------------------------------------------------------------
LEMMA InitialState == Init => IInv
<1> SUFFICES ASSUME Init PROVE IInv
  OBVIOUS
<1> USE IngestAssumption DEF IngestAssumption, Init
<1>1. DOMAIN history = {} /\ history \in Seq(Tx) /\ Len(history) = 0
  OBVIOUS
<1>2. TypeOK
  BY <1>1 DEF TypeOK, Checkpoint, Null
<1>3. WithinHistory /\ BatchCovers /\ HeadHandled /\ RowBehind /\ NothingLeftBehind
  BY <1>1 DEF WithinHistory, Null, BatchCovers, HeadHandled, RowBehind, NothingLeftBehind
<1> QED BY <1>2, <1>3 DEF IInv

LEMMA HistoryDomain == TypeOK => DOMAIN history = 1 .. Len(history) /\ Len(history) \in Nat
BY DEF TypeOK

(* While the history stands, what accounts for a fill only grows: a fill   *)
(* once accounted for stays so.                                            *)
LEMMA StaysAccounted ==
    ASSUME UNCHANGED history, NEW i \in DOMAIN history, Accounted(i),
           enqueued \subseteq enqueued', threw \subseteq threw', unseen \subseteq unseen'
    PROVE  Accounted(i)'
BY DEF Accounted, IsFill

(* One step per action; <1>6 is what Advance and Persist share.            *)
LEMMA InductiveStep == IInv /\ [Next]_vars => IInv'
<1> SUFFICES ASSUME IInv, [Next]_vars PROVE IInv'
  OBVIOUS
<1> USE IngestAssumption DEF IngestAssumption, IInv, vars, pollerVars, listenerVars,
        processVars, missedVars
<1>0. DOMAIN history = 1 .. Len(history) /\ Len(history) \in Nat
  BY HistoryDomain
<1>1. ASSUME NEW slot \in 1 .. MaxSlot, NEW kind \in Kinds, Land(slot, kind) PROVE IInv'
  <2> USE <1>1
  <2> DEFINE tx == [slot |-> slot, kind |-> kind]
  <2>1. tx \in Tx /\ history \in Seq(Tx) /\ history' = Append(history, tx)
    BY DEF Tx, TypeOK, Land
  <2>2. /\ history' \in Seq(Tx)
        /\ Len(history') = Len(history) + 1
        /\ DOMAIN history' = 1 .. Len(history) + 1
        /\ \A i \in DOMAIN history : history'[i] = history[i]
    <3> HIDE DEF tx
    <3> QED BY <2>1
  <2>3. UNCHANGED <<pollerVars, listenerVars, enqueued, processVars, missedVars>>
    BY DEF Land
  <2>4. TypeOK'
    BY <1>0, <2>2, <2>3 DEF TypeOK
  <2>5. \A i \in DOMAIN history : Accounted(i) => Accounted(i)'
    BY <2>2, <2>3 DEF Accounted, IsFill
  <2>6. WithinHistory' /\ RowBehind'
    BY <1>0, <2>2, <2>3 DEF WithinHistory, RowBehind, TypeOK, Checkpoint
  <2>7. ASSUME NEW b \in batch, NEW j \in DOMAIN history', j < b, j \notin batch
        PROVE  Accounted(j)'
    BY <1>0, <2>2, <2>5, <2>7 DEF TypeOK, BatchCovers
  <2>8. HeadHandled'
    BY <2>3, <2>5 DEF TypeOK, HeadHandled, Oldest
  <2>9. NothingLeftBehind'
    BY <1>0, <2>2, <2>3, <2>5 DEF TypeOK, WithinHistory, Checkpoint, NothingLeftBehind
  <2> QED BY <2>3, <2>4, <2>6, <2>7, <2>8, <2>9 DEF BatchCovers
<1>2. ASSUME NEW i \in DOMAIN history, HandleLogs(i) PROVE IInv'
  <2> USE <1>2 DEF HandleLogs
  <2>1. TypeOK' /\ WithinHistory' /\ RowBehind'
    BY DEF TypeOK, WithinHistory, RowBehind
  <2>2. \A j \in DOMAIN history : Accounted(j) => Accounted(j)'
    BY StaysAccounted
  <2>3. BatchCovers' /\ HeadHandled' /\ NothingLeftBehind'
    BY <2>2 DEF TypeOK, BatchCovers, HeadHandled, Oldest, NothingLeftBehind
  <2> QED BY <2>1, <2>3
<1>3. ASSUME Subscribe \/ Crash \/ Boot PROVE IInv'
  <2> USE <1>3 DEF Subscribe, Crash, Boot
  <2>1. TypeOK'
    <3>1. crashes' \in Nat
      BY DEF TypeOK
    <3>2. up' \in BOOLEAN /\ subscribed' \in BOOLEAN /\ retrying' \in BOOLEAN
      BY DEF TypeOK
    <3>3. cursor' \in Checkpoint /\ batch' \subseteq batch /\ tick' \in {tick, "idle"}
      BY DEF TypeOK
    <3>4. UNCHANGED <<history, row, enqueued, threw, unseen>>
      OBVIOUS
    <3> QED BY <3>1, <3>2, <3>3, <3>4 DEF TypeOK
  <2>2. \A j \in DOMAIN history : Accounted(j) => Accounted(j)'
    BY StaysAccounted
  <2>3. WithinHistory' /\ RowBehind'
    BY DEF TypeOK, Checkpoint, WithinHistory, RowBehind
  <2>4. BatchCovers' /\ HeadHandled'
    BY <2>2 DEF TypeOK, BatchCovers, HeadHandled, Oldest
  <2>5. NothingLeftBehind'
    BY <2>2 DEF NothingLeftBehind
  <2> QED BY <2>1, <2>3, <2>4, <2>5
<1>4. ASSUME FetchNewSignatures PROVE IInv'
  <2> USE <1>4 DEF FetchNewSignatures
  <2>1. TypeOK'
    BY <1>0 DEF TypeOK, Newest, Checkpoint
  <2>2. \A j \in DOMAIN history : Accounted(j) => Accounted(j)'
    BY StaysAccounted
  <2>3. BatchCovers'
    <3>1. ASSUME NEW b \in batch', NEW j \in DOMAIN history, j < b, j \notin batch'
          PROVE  Accounted(j)'
      <4>1. CASE j <= cursor.signature
        BY <2>2, <4>1 DEF NothingLeftBehind
      <4>2. CASE j > cursor.signature
        BY <1>0, <3>1, <4>2 DEF TypeOK, Checkpoint, Accounted, IsFill
      <4> QED BY <1>0, <4>1, <4>2 DEF TypeOK, Checkpoint
    <3> QED BY <3>1 DEF BatchCovers
  <2>4. HeadHandled' /\ WithinHistory' /\ RowBehind'
    BY DEF HeadHandled, WithinHistory, RowBehind
  <2>5. NothingLeftBehind'
    BY <2>2 DEF NothingLeftBehind
  <2> QED BY <2>1, <2>3, <2>4, <2>5
<1>5. ASSUME NEW i \in DOMAIN history, Dispatch(i) PROVE IInv'
  <2> USE <1>5 DEF Dispatch
  <2>1. TypeOK'
    BY DEF TypeOK
  <2>2. \A j \in DOMAIN history : Accounted(j) => Accounted(j)'
    BY StaysAccounted
  <2>3. Accounted(i)'
    BY DEF Accounted, IsFill
  <2>4. HeadHandled'
    BY <1>0, <2>3 DEF TypeOK, HeadHandled, Oldest
  <2>5. BatchCovers' /\ NothingLeftBehind' /\ WithinHistory' /\ RowBehind'
    BY <2>2 DEF BatchCovers, NothingLeftBehind, WithinHistory, RowBehind
  <2> QED BY <2>1, <2>4, <2>5
<1>6. ASSUME NEW i \in DOMAIN history, Done(i), Oldest(i), tick \in {"advance", "persist"},
             UNCHANGED <<history, listenerVars, enqueued, processVars, missedVars>>
      PROVE  BatchCovers' /\ HeadHandled' /\ batch' \subseteq batch
                /\ tick' \in {"idle", "fetch"}
  <2> USE <1>6 DEF Done
  <2>1. \A j \in DOMAIN history : Accounted(j) => Accounted(j)'
    BY StaysAccounted
  <2>2. BatchCovers'
    BY <2>1 DEF Oldest, HeadHandled, BatchCovers
  <2> QED BY <2>2 DEF HeadHandled
<1>7. ASSUME NEW i \in DOMAIN history, Advance(i) PROVE IInv'
  <2>1. UNCHANGED <<row, history, listenerVars, enqueued, processVars, missedVars>>
    BY <1>7 DEF Advance
  <2>2. \A j \in DOMAIN history : Accounted(j) => Accounted(j)'
    BY <2>1, StaysAccounted
  <2>3. CASE Done(i) /\ UNCHANGED cursor
    <3>1. BatchCovers' /\ HeadHandled' /\ batch' \subseteq batch /\ tick' \in {"idle", "fetch"}
      BY <1>6, <1>7, <2>1, <2>3 DEF Advance
    <3>2. TypeOK' /\ WithinHistory' /\ RowBehind'
      BY <2>1, <2>3, <3>1 DEF TypeOK, WithinHistory, RowBehind
    <3> QED BY <2>1, <2>2, <2>3, <3>1, <3>2 DEF NothingLeftBehind
  <2>4. CASE /\ cursor = Null \/ history[i].slot > cursor.slot
             /\ cursor' = [slot |-> history[i].slot, signature |-> i]
             /\ tick' = "persist"
             /\ UNCHANGED batch
    <3> USE <1>7, <2>1, <2>4 DEF Advance
    <3>1. history[i] \in Tx /\ i \in 1 .. Len(history)
      BY <1>0 DEF TypeOK
    <3>2. cursor' \in Checkpoint
      BY <3>1 DEF Tx, Checkpoint
    <3>3. TypeOK'
      BY <3>2 DEF TypeOK
    <3>4. WithinHistory'
      BY <3>1 DEF WithinHistory
    <3>5. RowBehind'
      BY <3>1 DEF RowBehind, TypeOK, Tx, Checkpoint, Null
    <3>6. BatchCovers' /\ HeadHandled'
      BY <2>2 DEF TypeOK, BatchCovers, HeadHandled, Oldest
    <3>7. ASSUME NEW j \in DOMAIN history, j <= i
          PROVE  Accounted(j)
      BY <1>0, <3>7 DEF Oldest, BatchCovers, HeadHandled
    <3>8. NothingLeftBehind'
      BY <2>2, <3>7 DEF NothingLeftBehind
    <3> QED BY <3>3, <3>4, <3>5, <3>6, <3>8
  <2>5. history[i].slot \in Nat /\ cursor.slot \in Nat
    <3>1. history[i] \in Tx
      BY DEF TypeOK
    <3> QED BY <3>1 DEF TypeOK, Tx, Checkpoint
  <2> QED BY <1>7, <2>3, <2>4, <2>5 DEF Advance
<1>8. ASSUME NEW i \in DOMAIN history, Persist(i) PROVE IInv'
  <2>1. UNCHANGED <<cursor, history, listenerVars, enqueued, processVars, missedVars>>
    BY <1>8 DEF Persist
  <2>2. \A j \in DOMAIN history : Accounted(j) => Accounted(j)'
    BY <2>1, StaysAccounted
  <2>3. /\ row' \in {row, cursor}
        /\ BatchCovers' /\ HeadHandled' /\ batch' \subseteq batch
        /\ tick' \in {"idle", "fetch"}
    <3>1. CASE row' = cursor /\ Done(i)
      BY <1>6, <1>8, <2>1, <3>1 DEF Persist
    <3>2. CASE UNCHANGED row /\ Abort
      BY <3>2 DEF Abort, BatchCovers, HeadHandled
    <3> QED BY <1>8, <3>1, <3>2 DEF Persist
  <2>4. TypeOK' /\ WithinHistory'
    BY <2>1, <2>3 DEF TypeOK, WithinHistory
  <2>5. RowBehind'
    BY <2>1, <2>3 DEF RowBehind, TypeOK, Checkpoint
  <2>6. NothingLeftBehind'
    BY <2>1, <2>2, <2>3 DEF NothingLeftBehind
  <2> QED BY <2>3, <2>4, <2>5, <2>6
<1>9. ASSUME FetchThrows PROVE IInv'
  <2> USE <1>9 DEF FetchThrows, Abort
  <2>1. \A j \in DOMAIN history : Accounted(j) => Accounted(j)'
    BY StaysAccounted
  <2>2. TypeOK' /\ WithinHistory' /\ RowBehind'
    BY DEF TypeOK, WithinHistory, RowBehind
  <2>3. BatchCovers' /\ HeadHandled' /\ NothingLeftBehind'
    BY <2>1 DEF BatchCovers, HeadHandled, NothingLeftBehind
  <2> QED BY <2>2, <2>3
<1>10. CASE UNCHANGED vars
  <2> USE <1>10
  <2>1. TypeOK' /\ WithinHistory' /\ RowBehind'
    BY DEF TypeOK, WithinHistory, RowBehind
  <2>2. \A j \in DOMAIN history : Accounted(j) => Accounted(j)'
    BY StaysAccounted
  <2>3. BatchCovers' /\ HeadHandled' /\ NothingLeftBehind'
    BY <2>2 DEF TypeOK, BatchCovers, HeadHandled, Oldest, NothingLeftBehind
  <2> QED BY <2>1, <2>3
<1> HIDE DEF IInv
<1> QED
  BY <1>1, <1>2, <1>3, <1>4, <1>5, <1>7, <1>8, <1>9, <1>10 DEF Next

(* The invariant holds in every reachable state.                           *)
THEOREM Invariance == Spec => []IInv
BY InitialState, InductiveStep, PTL DEF Spec

(* Every variable keeps its type, and no tick holds more than the backfill *)
(* limit, for any constants.                                               *)
THEOREM TypeCorrectness == Spec => []TypeOK
<1>1. IInv => TypeOK
  BY DEF IInv
<1> QED BY <1>1, Invariance, PTL

(* No fill falls behind the cursor unnoticed.                              *)
THEOREM NoFillLeftBehind == Spec => []NothingLeftBehind
<1>1. IInv => NothingLeftBehind
  BY DEF IInv
<1> QED BY <1>1, Invariance, PTL

(* The checkpoint on disk never moves back to an older slot.               *)
THEOREM CheckpointMonotone == Spec => CheckpointNeverRegresses
<1>1. ASSUME IInv, [Next]_vars
      PROVE  row'.slot >= row.slot
  <2>1. row.slot \in Nat
    BY <1>1 DEF IInv, TypeOK, Checkpoint
  <2>2. CASE UNCHANGED row
    BY <2>1, <2>2
  <2>3. ASSUME NEW i \in DOMAIN history, Persist(i)
        PROVE  row'.slot >= row.slot
    BY <1>1, <2>1, <2>3 DEF IInv, RowBehind, Persist, TypeOK, Checkpoint
  <2> QED
    BY <1>1, <2>2, <2>3
    DEF Next, Land, HandleLogs, Dispatch, Advance, Subscribe, FetchNewSignatures, FetchThrows,
        Crash, Boot, vars, pollerVars
<1>2. IInv /\ [Next]_vars => [row'.slot >= row.slot]_vars
  BY <1>1
<1> QED BY <1>2, Invariance, PTL DEF Spec, CheckpointNeverRegresses
=============================================================================
