------------------------ MODULE CustodialFundsProofs ------------------------
(***************************************************************************)
(* Theorems about CustodialFunds, for any number of checks, withdrawals,   *)
(* claims and faults, any rate and any winnings.                           *)
(*                                                                         *)
(* Three invariants, one per service.  That of the deposits says who works *)
(* on a row, and, as long as no two checks overlapped and no sweep was     *)
(* still out after its row's cool-off, that a check which has passed the   *)
(* cool-off and the in-flight test is alone with its sweep.                *)
(***************************************************************************)
EXTENDS CustodialFunds, SequenceTheorems, TLAPS

Processing == {"sweep", "confirm", "mint"}

-----------------------------------------------------------------------------
(* Rows                                                                    *)

DepositTyped ==
    /\ sol \in Nat
    /\ arrived \in Nat
    /\ rows \in Seq(Row)
    /\ pc \in [Checkers -> {"idle", "failures", "inflight", "create"} \cup Processing]
    /\ amount \in [Checkers -> Nat]
    /\ mine \in [Checkers -> Nat]
    /\ faults \in Nat
    /\ overlapped \in BOOLEAN
    /\ late \in BOOLEAN

(* A row has one check at most, and its status says how far that is.       *)
RowOwned ==
    /\ \A k \in Checkers :
          /\ pc[k] \in Processing => mine[k] \in DOMAIN rows
          /\ pc[k] \notin Processing => mine[k] = 0
          /\ pc[k] = "sweep" => rows[mine[k]].status = "DETECTED"
          /\ pc[k] = "confirm" => rows[mine[k]].status = "SWEEPING"
          /\ pc[k] = "mint" => rows[mine[k]].status = "SWEPT"
    /\ \A j, k \in Checkers : j # k /\ mine[j] # 0 => mine[j] # mine[k]

(* What a check without company knows, as long as no sweep outlived the    *)
(* cool-off of its row.                                                    *)
Clean == ~overlapped /\ ~late

RowEarned(row) ==
    /\ row.minted => row.sweep = "landed"
    /\ row.sweep = "sent" => row.status # "COMPLETED"
    /\ ~Astray(row)

NoFreshFailure  == \A i \in DOMAIN rows : ~(rows[i].status = "FAILED" /\ rows[i].recent)
NoneInFlight    == \A i \in DOMAIN rows : rows[i].status \notin InFlight
NoSweepBesides(m) == \A i \in DOMAIN rows : i # m => rows[i].sweep # "sent"

Undisturbed(k) ==
    /\ pc[k] = "inflight" => NoFreshFailure
    /\ pc[k] = "create" => NoFreshFailure /\ NoneInFlight
    /\ pc[k] \in {"sweep", "confirm"} => NoSweepBesides(mine[k])
    /\ pc[k] = "sweep" => rows[mine[k]].sweep = "none"
    /\ pc[k] = "confirm" =>
          /\ rows[mine[k]].sweep \in {"sent", "landed", "expired"}
          /\ rows[mine[k]].sweep = "sent" => sol >= rows[mine[k]].lamports
    /\ pc[k] = "mint" => rows[mine[k]].sweep = "landed"

Alone == Clean =>
    /\ \A j, k \in Checkers : j # k => pc[j] = "idle" \/ pc[k] = "idle"
    /\ \A i \in DOMAIN rows : RowEarned(rows[i])
    /\ \A k \in Checkers : Undisturbed(k)

DepositInv == DepositTyped /\ RowOwned /\ WalletNotBlocked /\ Alone

RowBecomes(i, new) ==
    /\ i \in DOMAIN rows
    /\ new \in Row
    /\ rows' = [rows EXCEPT ![i] = new]

LEMMA RowUpdated ==
  ASSUME rows \in Seq(Row), NEW i, NEW new, RowBecomes(i, new)
  PROVE  /\ rows' \in Seq(Row)
         /\ DOMAIN rows' = DOMAIN rows
         /\ rows'[i] = new
         /\ \A j \in DOMAIN rows \ {i} : rows'[j] = rows[j]
<1>1. i \in 1 .. Len(rows) /\ new \in Row
  BY DEF RowBecomes
<1>. QED  BY <1>1, ExceptSeq DEF RowBecomes

(* The check k goes on with its own row, or ends.                          *)
LEMMA OwnRow ==
  ASSUME DepositInv, NEW k \in Checkers, pc[k] \in Processing,
         NEW new, RowBecomes(mine[k], new),
         UNCHANGED <<sol, arrived, amount, overlapped>>, faults' \in Nat,
         late' \in BOOLEAN, late => late',
         faults' = 0 => faults = 0,
         \A j \in Checkers \ {k} : pc'[j] = pc[j] /\ mine'[j] = mine[j],
         pc' \in [Checkers -> {"idle"} \cup Processing \cup {"failures", "inflight", "create"}],
         mine' \in [Checkers -> Nat],
         \/ /\ pc'[k] = "idle" /\ mine'[k] = 0
            /\ faults' = 0 => new.status \notin InFlight
         \/ /\ pc'[k] = "confirm" /\ mine'[k] = mine[k] /\ new.status = "SWEEPING"
            /\ Clean => /\ new.sweep \in {"sent", "landed", "expired"}
                        /\ new.sweep = "sent" => sol >= new.lamports
                        /\ pc[k] = "sweep"
         \/ /\ pc'[k] = "mint" /\ mine'[k] = mine[k] /\ new.status = "SWEPT"
            /\ Clean => new.sweep = "landed",
         Clean' => RowEarned(new)
  PROVE  DepositInv'
<1>0. Clean' => Clean
  BY DEF Clean
<1>1. /\ rows' \in Seq(Row) /\ DOMAIN rows' = DOMAIN rows
      /\ rows'[mine[k]] = new /\ \A j \in DOMAIN rows \ {mine[k]} : rows'[j] = rows[j]
  BY RowUpdated DEF DepositInv, DepositTyped
<1>2. mine[k] \in DOMAIN rows /\ mine[k] # 0 /\ \A j \in Checkers \ {k} : mine[j] # mine[k]
  <2>1. mine[k] \in 1 .. Len(rows)
    BY DEF RowBecomes, DepositInv, DepositTyped
  <2>. QED  BY <2>1 DEF DepositInv, RowOwned, RowBecomes
<1>3. DepositTyped'
  BY <1>1 DEF DepositInv, DepositTyped
<1>4. RowOwned'
  <2>1. \A j \in Checkers \ {k} :
          /\ pc'[j] \in Processing => mine'[j] \in DOMAIN rows'
          /\ pc'[j] \notin Processing => mine'[j] = 0
          /\ pc'[j] = "sweep" => rows'[mine'[j]].status = "DETECTED"
          /\ pc'[j] = "confirm" => rows'[mine'[j]].status = "SWEEPING"
          /\ pc'[j] = "mint" => rows'[mine'[j]].status = "SWEPT"
    BY <1>1, <1>2 DEF DepositInv, RowOwned, Processing
  <2>2. /\ pc'[k] \in Processing => mine'[k] \in DOMAIN rows'
        /\ pc'[k] \notin Processing => mine'[k] = 0
        /\ pc'[k] = "sweep" => rows'[mine'[k]].status = "DETECTED"
        /\ pc'[k] = "confirm" => rows'[mine'[k]].status = "SWEEPING"
        /\ pc'[k] = "mint" => rows'[mine'[k]].status = "SWEPT"
    BY <1>1, <1>2 DEF Processing
  <2>3. \A j, l \in Checkers : j # l /\ mine'[j] # 0 => mine'[j] # mine'[l]
    BY <1>2 DEF DepositInv, RowOwned
  <2>. QED  BY <2>1, <2>2, <2>3 DEF RowOwned
<1>5. WalletNotBlocked'
  <2>1. ASSUME faults' = 0, NEW i \in DOMAIN rows', rows'[i].status \in InFlight
        PROVE  \E j \in Checkers : mine'[j] = i
    <3>1. CASE i = mine[k]
      BY <1>1, <2>1, <3>1
    <3>2. CASE i # mine[k]
      <4>1. PICK j \in Checkers : mine[j] = i
        BY <1>1, <2>1, <3>2 DEF DepositInv, WalletNotBlocked
      <4>. QED  BY <3>2, <4>1
    <3>. QED  BY <3>1, <3>2
  <2>. QED  BY <2>1 DEF WalletNotBlocked
<1>6. Alone'
  <2>. SUFFICES ASSUME Clean'
                PROVE  /\ \A j, l \in Checkers : j # l => pc'[j] = "idle" \/ pc'[l] = "idle"
                       /\ \A i \in DOMAIN rows' : RowEarned(rows'[i])
                       /\ \A j \in Checkers : Undisturbed(j)'
    BY DEF Alone, RowEarned, Astray
  <2>1. /\ Clean
        /\ \A j, l \in Checkers : j # l => pc[j] = "idle" \/ pc[l] = "idle"
        /\ \A i \in DOMAIN rows : RowEarned(rows[i])
        /\ Undisturbed(k)
    BY <1>0 DEF DepositInv, Alone
  <2>2. \A j \in Checkers \ {k} : pc'[j] = "idle"
    BY <2>1 DEF Processing
  <2>3. \A i \in DOMAIN rows' : RowEarned(rows'[i])
    BY <1>1, <2>1
  <2>4. Undisturbed(k)'
    <3>1. Clean /\ Undisturbed(k) /\ mine[k] \in DOMAIN rows
      BY <1>2, <2>1
    <3>3. CASE pc'[k] = "idle"
      BY <3>3 DEF Undisturbed
    <3>4. CASE pc'[k] = "confirm"
      <4>1. /\ pc[k] = "sweep" /\ mine'[k] = mine[k]
            /\ new.sweep \in {"sent", "landed", "expired"}
            /\ new.sweep = "sent" => sol >= new.lamports
        BY <3>1, <3>4
      <4>2. NoSweepBesides(mine[k])
        BY <3>1, <4>1 DEF Undisturbed
      <4>3. NoSweepBesides(mine[k])'
        BY <1>1, <4>1, <4>2 DEF NoSweepBesides
      <4>4. sol' = sol /\ rows'[mine'[k]] = new
        BY <1>1, <4>1
      <4>. QED  BY <3>4, <4>1, <4>3, <4>4 DEF Undisturbed
    <3>5. CASE pc'[k] = "mint"
      BY <1>1, <3>1, <3>5 DEF Undisturbed
    <3>. QED  BY <3>3, <3>4, <3>5
  <2>5. \A j \in Checkers \ {k} : Undisturbed(j)'
    BY <2>2 DEF Undisturbed
  <2>. QED  BY <2>2, <2>3, <2>4, <2>5
<1>. QED  BY <1>3, <1>4, <1>5, <1>6 DEF DepositInv

-----------------------------------------------------------------------------
(* The steps of the deposits                                               *)

(* A check moves before it has a row, or ends.                             *)
LEMMA BeforeRow ==
  ASSUME DepositInv, NEW k \in Checkers, pc[k] \notin Processing,
         NEW to \in {"idle", "failures", "inflight", "create"},
         pc' = [pc EXCEPT ![k] = to],
         amount' \in [Checkers -> Nat], overlapped' \in BOOLEAN,
         UNCHANGED <<sol, arrived, rows, mine, late, faults>>,
         Clean' =>
            /\ Clean
            /\ to # "idle" => \A j \in Checkers \ {k} : pc[j] = "idle"
            /\ to \in {"inflight", "create"} => NoFreshFailure
            /\ to = "create" => NoneInFlight
  PROVE  DepositInv'
<1>1. DepositTyped'
  BY DEF DepositInv, DepositTyped
<1>2. pc'[k] = to /\ \A j \in Checkers \ {k} : pc'[j] = pc[j]
  BY DEF DepositInv, DepositTyped
<1>3. RowOwned'
  BY <1>2 DEF DepositInv, RowOwned, Processing
<1>4. WalletNotBlocked'
  BY DEF DepositInv, WalletNotBlocked
<1>5. ASSUME Clean'
      PROVE  /\ \A j, l \in Checkers : j # l => pc'[j] = "idle" \/ pc'[l] = "idle"
             /\ \A i \in DOMAIN rows' : RowEarned(rows'[i])
             /\ \A j \in Checkers : Undisturbed(j)'
  <2>1. /\ Clean
        /\ \A j, l \in Checkers : j # l => pc[j] = "idle" \/ pc[l] = "idle"
        /\ \A i \in DOMAIN rows : RowEarned(rows[i])
        /\ \A j \in Checkers : Undisturbed(j)
    BY <1>5 DEF DepositInv, Alone
  <2>2. \A j, l \in Checkers : j # l => pc'[j] = "idle" \/ pc'[l] = "idle"
    BY <1>2, <1>5, <2>1
  <2>3. Undisturbed(k)'
    BY <1>2, <1>5 DEF Undisturbed, NoFreshFailure, NoneInFlight, Processing
  <2>4. ASSUME NEW j \in Checkers \ {k}
        PROVE  Undisturbed(j)'
    BY <1>2, <2>1 DEF Undisturbed, NoFreshFailure, NoneInFlight, NoSweepBesides
  <2>. QED  BY <2>1, <2>2, <2>3, <2>4
<1>6. Alone'
  BY <1>5 DEF Alone, RowEarned, Astray
<1>. QED  BY <1>1, <1>3, <1>4, <1>6 DEF DepositInv

LEMMA UsdcRawTyped ==
  ASSUME NEW lamports \in Nat
  PROVE  UsdcRaw(lamports) \in Nat
<1>. DEFINE product == lamports * Rate
<1>1. product \in Nat
  BY FundsAssumption
<1>. HIDE DEF product
<1>2. product \div Scale \in Nat
  BY <1>1, FundsAssumption
<1>. QED  BY <1>2 DEF UsdcRaw, product

LEMMA NewRowTyped ==
  ASSUME NEW lamports \in Nat
  PROVE  /\ NewRow(lamports) \in Row
         /\ NewRow(lamports).status = "DETECTED"
         /\ NewRow(lamports).sweep = "none"
         /\ RowEarned(NewRow(lamports))
<1>1. UsdcRaw(lamports) \in Nat
  BY UsdcRawTyped
<1>. QED  BY <1>1 DEF NewRow, Row, Statuses, InFlight, Fates, RowEarned, Astray

LEMMA RowAppended ==
  ASSUME rows \in Seq(Row), NEW new \in Row, rows' = Append(rows, new)
  PROVE  /\ rows' \in Seq(Row)
         /\ Len(rows') = Len(rows) + 1 /\ Len(rows') \in Nat
         /\ Len(rows') # 0 /\ Len(rows') \notin DOMAIN rows
         /\ rows'[Len(rows')] = new
         /\ \A i \in DOMAIN rows : rows'[i] = rows[i]
         /\ DOMAIN rows' = DOMAIN rows \cup {Len(rows')}
OBVIOUS

(* The rows after a create, whoever owns the new one.                      *)
LEMMA RowsAfterCreate ==
  ASSUME DepositInv, NEW k \in Checkers, pc[k] = "create",
         NEW new \in Row, new.status = "DETECTED", new.sweep = "none", RowEarned(new),
         rows' = Append(rows, new), UNCHANGED <<overlapped, late>>, Clean'
  PROVE  /\ \A j \in Checkers \ {k} : pc[j] = "idle"
         /\ \A i \in DOMAIN rows' : RowEarned(rows'[i])
         /\ \A i \in DOMAIN rows' : rows'[i].sweep # "sent"
<1>1. /\ \A j, l \in Checkers : j # l => pc[j] = "idle" \/ pc[l] = "idle"
      /\ \A i \in DOMAIN rows : RowEarned(rows[i])
      /\ NoFreshFailure /\ NoneInFlight
  BY DEF Clean, DepositInv, Alone, Undisturbed
<1>2. rows \in Seq(Row) /\ \A i \in DOMAIN rows : rows[i] \in Row
  BY DEF DepositInv, DepositTyped
<1>3. /\ \A i \in DOMAIN rows : rows'[i] = rows[i]
      /\ rows'[Len(rows')] = new /\ DOMAIN rows' = DOMAIN rows \cup {Len(rows')}
  BY <1>2, RowAppended
<1>4. \A i \in DOMAIN rows : rows[i].sweep # "sent"
  BY <1>1, <1>2 DEF RowEarned, Astray, NoFreshFailure, NoneInFlight, Row, Statuses
<1>5. \A i \in DOMAIN rows' : RowEarned(rows'[i])
  BY <1>1, <1>3 DEF RowEarned, Astray
<1>. QED  BY <1>1, <1>3, <1>4, <1>5

LEMMA CreateRowStep ==
  ASSUME DepositInv, NEW k \in Checkers, CreateRow(k)
  PROVE  DepositInv'
<1>. DEFINE new == NewRow(amount[k])
<1>1. /\ pc[k] = "create" /\ mine[k] = 0 /\ UNCHANGED <<sol, arrived, overlapped, late>>
      /\ amount' \in [Checkers -> Nat] /\ amount[k] \in Nat
  BY DEF CreateRow, Quits, DepositInv, DepositTyped, RowOwned, Processing
<1>2. new \in Row /\ new.status = "DETECTED" /\ new.sweep = "none" /\ RowEarned(new)
  BY <1>1, NewRowTyped
<1>3. /\ rows \in Seq(Row)
      /\ \A j \in Checkers : mine[j] # 0 => mine[j] \in DOMAIN rows
  BY DEF DepositInv, DepositTyped, RowOwned
<1>4. CASE Quits(k) /\ UNCHANGED <<rows, mine, faults>>
  <2>1. pc' = [pc EXCEPT ![k] = "idle"] /\ overlapped' \in BOOLEAN /\ (Clean' => Clean)
    BY <1>1, <1>4 DEF Quits, Go, Clean, DepositInv, DepositTyped
  <2>. QED  BY <1>1, <1>4, <2>1, BeforeRow DEF Processing
<1>. HIDE DEF new
<1>5. CASE /\ rows' = Append(rows, new)
           /\ mine' = [mine EXCEPT ![k] = Len(rows')]
           /\ Go(k, "sweep")
           /\ UNCHANGED faults
  <2>. DEFINE last == Len(rows')
  <2>1. /\ rows' \in Seq(Row) /\ last \in Nat
        /\ last # 0 /\ last \notin DOMAIN rows
        /\ rows'[last] = new /\ \A i \in DOMAIN rows : rows'[i] = rows[i]
        /\ DOMAIN rows' = DOMAIN rows \cup {last}
    BY <1>2, <1>3, <1>5, RowAppended
  <2>2. /\ mine' = [mine EXCEPT ![k] = last]
        /\ pc'[k] = "sweep" /\ mine'[k] = last
        /\ \A j \in Checkers \ {k} : pc'[j] = pc[j] /\ mine'[j] = mine[j]
    BY <1>5 DEF Go, DepositInv, DepositTyped
  <2>3. DepositTyped'
    <3>1. pc' \in [Checkers -> {"idle", "failures", "inflight", "create"} \cup Processing]
      BY <1>5 DEF Go, Processing, DepositInv, DepositTyped
    <3>2. mine' \in [Checkers -> Nat]
      BY <2>1, <2>2 DEF DepositInv, DepositTyped
    <3>. QED  BY <1>1, <1>5, <2>1, <3>1, <3>2 DEF DepositInv, DepositTyped
  <2>. HIDE DEF last
  <2>4. RowOwned'
    <3>1. \A j \in Checkers \ {k} :
            /\ pc'[j] \in Processing => mine'[j] \in DOMAIN rows'
            /\ pc'[j] \notin Processing => mine'[j] = 0
            /\ pc'[j] = "sweep" => rows'[mine'[j]].status = "DETECTED"
            /\ pc'[j] = "confirm" => rows'[mine'[j]].status = "SWEEPING"
            /\ pc'[j] = "mint" => rows'[mine'[j]].status = "SWEPT"
      BY <2>1, <2>2 DEF DepositInv, RowOwned, Processing
    <3>2. /\ pc'[k] \in Processing => mine'[k] \in DOMAIN rows'
          /\ pc'[k] \notin Processing => mine'[k] = 0
          /\ pc'[k] = "sweep" => rows'[mine'[k]].status = "DETECTED"
          /\ pc'[k] = "confirm" => rows'[mine'[k]].status = "SWEEPING"
          /\ pc'[k] = "mint" => rows'[mine'[k]].status = "SWEPT"
      BY <1>2, <2>1, <2>2 DEF Processing
    <3>3. \A j, l \in Checkers : j # l /\ mine'[j] # 0 => mine'[j] # mine'[l]
      BY <1>3, <2>1, <2>2 DEF DepositInv, RowOwned
    <3>. QED  BY <3>1, <3>2, <3>3 DEF RowOwned
  <2>5. WalletNotBlocked'
    <3>1. ASSUME faults' = 0, NEW i \in DOMAIN rows', rows'[i].status \in InFlight
          PROVE  \E j \in Checkers : mine'[j] = i
      <4>1. CASE i = last
        BY <2>2, <4>1
      <4>2. CASE i \in DOMAIN rows
        <5>1. PICK j \in Checkers : mine[j] = i
          BY <1>5, <2>1, <3>1, <4>2 DEF DepositInv, WalletNotBlocked
        <5>2. j # k
          BY <1>1, <1>3, <4>2, <5>1
        <5>. QED  BY <2>2, <5>1, <5>2
      <4>. QED  BY <2>1, <4>1, <4>2
    <3>. QED  BY <3>1 DEF WalletNotBlocked
  <2>6. ASSUME Clean'
        PROVE  /\ \A j, l \in Checkers : j # l => pc'[j] = "idle" \/ pc'[l] = "idle"
               /\ \A i \in DOMAIN rows' : RowEarned(rows'[i])
               /\ \A j \in Checkers : Undisturbed(j)'
    <3>1. /\ \A j \in Checkers \ {k} : pc[j] = "idle"
          /\ \A i \in DOMAIN rows' : RowEarned(rows'[i])
          /\ \A i \in DOMAIN rows' : rows'[i].sweep # "sent"
      BY <1>1, <1>2, <1>5, <2>6, RowsAfterCreate
    <3>2. Undisturbed(k)'
      BY <1>2, <2>1, <2>2, <3>1 DEF Undisturbed, NoSweepBesides
    <3>3. \A j \in Checkers \ {k} : Undisturbed(j)'
      BY <2>2, <3>1 DEF Undisturbed
    <3>. QED  BY <2>2, <3>1, <3>2, <3>3
  <2>7. Alone'
    BY <2>6 DEF Alone, RowEarned, Astray
  <2>. QED  BY <2>3, <2>4, <2>5, <2>7 DEF DepositInv
<1>6. CASE /\ faults' = faults + 1
           /\ rows' = Append(rows, new)
           /\ Quits(k)
           /\ UNCHANGED mine
  <2>1. /\ rows' \in Seq(Row) /\ \A i \in DOMAIN rows : rows'[i] = rows[i]
        /\ DOMAIN rows' = DOMAIN rows \cup {Len(rows')}
    BY <1>2, <1>3, <1>6, RowAppended
  <2>2. pc'[k] = "idle" /\ \A j \in Checkers \ {k} : pc'[j] = pc[j]
    BY <1>6 DEF Quits, Go, DepositInv, DepositTyped
  <2>3. DepositTyped'
    <3>1. pc' \in [Checkers -> {"idle", "failures", "inflight", "create"} \cup Processing]
      BY <1>6 DEF Quits, Go, DepositInv, DepositTyped
    <3>. QED  BY <1>1, <1>6, <2>1, <3>1 DEF DepositInv, DepositTyped
  <2>4. RowOwned'
    BY <1>1, <1>3, <1>6, <2>1, <2>2 DEF DepositInv, RowOwned, Processing
  <2>5. WalletNotBlocked'
    BY <1>6 DEF WalletNotBlocked, DepositInv, DepositTyped
  <2>6. ASSUME Clean'
        PROVE  /\ \A j, l \in Checkers : j # l => pc'[j] = "idle" \/ pc'[l] = "idle"
               /\ \A i \in DOMAIN rows' : RowEarned(rows'[i])
               /\ \A j \in Checkers : Undisturbed(j)'
    <3>1. /\ \A j \in Checkers \ {k} : pc[j] = "idle"
          /\ \A i \in DOMAIN rows' : RowEarned(rows'[i])
      BY <1>1, <1>2, <1>6, <2>6, RowsAfterCreate
    <3>2. \A j \in Checkers : pc'[j] = "idle"
      BY <2>2, <3>1
    <3>. QED  BY <3>1, <3>2 DEF Undisturbed
  <2>7. Alone'
    BY <2>6 DEF Alone, RowEarned, Astray
  <2>. QED  BY <2>3, <2>4, <2>5, <2>7 DEF DepositInv
<1>. QED  BY <1>4, <1>5, <1>6 DEF CreateRow, new

(* What a throw leaves of the row is FAILED, or as it was and a fault.     *)
LEMMA ThrewStep ==
  ASSUME DepositInv, NEW k \in Checkers, pc[k] \in Processing,
         NEW row \in Row, Threw(k, row), row.status \in InFlight,
         Clean => RowEarned(row),
         UNCHANGED <<sol, arrived, amount, overlapped>>
  PROVE  DepositInv'
<1>1. mine[k] \in DOMAIN rows /\ rows \in Seq(Row)
  BY DEF DepositInv, RowOwned, DepositTyped
<1>2. /\ pc'[k] = "idle" /\ mine'[k] = 0
      /\ \A j \in Checkers \ {k} : pc'[j] = pc[j] /\ mine'[j] = mine[j]
      /\ pc' \in [Checkers -> {"idle"} \cup Processing \cup {"failures", "inflight", "create"}]
      /\ mine' \in [Checkers -> Nat]
  BY DEF Threw, Ends, Go, DepositInv, DepositTyped, Processing
<1>3. late' \in BOOLEAN /\ (late => late') /\ (late' \/ ~Astray(rows'[mine[k]]))
      /\ (Clean' => Clean)
  BY DEF Threw, Astray, Clean, DepositInv, DepositTyped
<1>4. CASE /\ rows' = [rows EXCEPT ![mine[k]] = [row EXCEPT !.status = "FAILED"]]
           /\ UNCHANGED faults
  <2>. DEFINE new == [row EXCEPT !.status = "FAILED"]
  <2>1. new \in Row /\ new.status = "FAILED" /\ new.sweep = row.sweep
        /\ new.minted = row.minted /\ new.recent = row.recent
    BY DEF Row, Statuses
  <2>. HIDE DEF new
  <2>2. RowBecomes(mine[k], new)
    BY <1>1, <1>4, <2>1 DEF RowBecomes, new
  <2>3. rows'[mine[k]] = new
    BY <1>1, <2>2, RowUpdated
  <2>4. (Clean' => RowEarned(new)) /\ new.status \notin InFlight
    BY <1>3, <2>1, <2>3 DEF RowEarned, InFlight, Clean
  <2>5. faults' \in Nat /\ (faults' = 0 => faults = 0)
    BY <1>4 DEF DepositInv, DepositTyped
  <2>. QED  BY <1>2, <1>3, <2>2, <2>4, <2>5, OwnRow
<1>5. CASE /\ faults' = faults + 1
           /\ rows' = [rows EXCEPT ![mine[k]] = row]
  <2>1. RowBecomes(mine[k], row)
    BY <1>1, <1>5 DEF RowBecomes
  <2>2. faults' \in Nat /\ faults' # 0
    BY <1>5 DEF DepositInv, DepositTyped
  <2>. QED  BY <1>2, <1>3, <2>1, <2>2, OwnRow
<1>. QED  BY <1>4, <1>5 DEF Threw

(* The row of a check in its hand.                                         *)
LEMMA RowInHand ==
  ASSUME DepositInv, NEW k \in Checkers, pc[k] \in Processing
  PROVE  /\ mine[k] \in DOMAIN rows
         /\ rows[mine[k]] \in Row
         /\ Clean => RowEarned(rows[mine[k]]) /\ Undisturbed(k)
         /\ rows[mine[k]].status \in InFlight
<1>1. mine[k] \in DOMAIN rows
  BY DEF DepositInv, RowOwned
<1>2. rows[mine[k]] \in Row
  BY <1>1 DEF DepositInv, DepositTyped
<1>. QED  BY <1>1, <1>2 DEF DepositInv, RowOwned, Alone, Processing, InFlight

LEMMA SweepSolStep ==
  ASSUME DepositInv, NEW k \in Checkers, SweepSol(k)
  PROVE  DepositInv'
<1>. DEFINE row == rows[mine[k]]
            sent == [row EXCEPT !.sweep = "sent"]
            new == [sent EXCEPT !.status = "SWEEPING"]
<1>1. pc[k] = "sweep" /\ pc[k] \in Processing /\ UNCHANGED <<sol, arrived, amount, overlapped>>
  BY DEF SweepSol, Processing
<1>2. /\ mine[k] \in DOMAIN rows /\ row \in Row
      /\ row.status = "DETECTED" /\ row.status \in InFlight
      /\ Clean => RowEarned(row) /\ Undisturbed(k)
  BY <1>1, RowInHand DEF DepositInv, RowOwned
<1>3. Clean => ~row.minted
  BY <1>1, <1>2 DEF RowEarned, Undisturbed, Row
<1>4. /\ sent \in Row /\ sent.status = "DETECTED" /\ sent.sweep = "sent"
      /\ sent.recent = row.recent /\ sent.minted = row.minted /\ sent.lamports = row.lamports
  BY <1>2 DEF Row, Fates
<1>5. (Clean => RowEarned(sent)) /\ sent.status \in InFlight
  BY <1>2, <1>3, <1>4 DEF RowEarned, Astray, InFlight
<1>6. CASE /\ sol >= row.lamports
           /\ rows' = [rows EXCEPT ![mine[k]].status = "SWEEPING", ![mine[k]].sweep = "sent"]
           /\ Go(k, "confirm")
           /\ UNCHANGED <<mine, late, faults>>
  <2>1. /\ new \in Row /\ new.status = "SWEEPING" /\ new.sweep = "sent"
        /\ new.recent = row.recent /\ new.minted = row.minted /\ new.lamports = row.lamports
    BY <1>2 DEF Row, Statuses, InFlight, Fates
  <2>2. RowBecomes(mine[k], new)
    BY <1>2, <1>6, <2>1 DEF RowBecomes, Row, DepositInv, DepositTyped
  <2>. HIDE DEF new, sent, row
  <2>3. Clean' => Clean /\ RowEarned(new)
    BY <1>1, <1>3, <1>6, <2>1 DEF RowEarned, Astray, Clean
  <2>4. /\ pc'[k] = "confirm" /\ mine'[k] = mine[k]
        /\ \A j \in Checkers \ {k} : pc'[j] = pc[j] /\ mine'[j] = mine[j]
        /\ pc' \in [Checkers -> {"idle"} \cup Processing \cup {"failures", "inflight", "create"}]
        /\ mine' \in [Checkers -> Nat] /\ faults' \in Nat /\ (faults' = 0 => faults = 0)
        /\ late' \in BOOLEAN /\ (late => late')
    BY <1>6 DEF Go, DepositInv, DepositTyped, Processing
  <2>5. sol >= new.lamports
    BY <1>6, <2>1
  <2>. QED  BY <1>1, <2>1, <2>2, <2>3, <2>4, <2>5, OwnRow
<1>. HIDE DEF new, sent
<1>7. CASE Threw(k, sent)
  BY <1>1, <1>4, <1>5, <1>7, ThrewStep
<1>8. CASE Threw(k, row)
  BY <1>1, <1>2, <1>8, ThrewStep
<1>. QED  BY <1>6, <1>7, <1>8 DEF SweepSol, sent

LEMMA ConfirmSweepStep ==
  ASSUME DepositInv, NEW k \in Checkers, ConfirmSweep(k)
  PROVE  DepositInv'
<1>. DEFINE row == rows[mine[k]]
            new == [row EXCEPT !.status = "SWEPT"]
<1>1. pc[k] = "confirm" /\ pc[k] \in Processing /\ UNCHANGED <<sol, arrived, amount, overlapped>>
  BY DEF ConfirmSweep, Processing
<1>2. /\ mine[k] \in DOMAIN rows /\ row \in Row /\ row.status \in InFlight
      /\ Clean => RowEarned(row) /\ Undisturbed(k)
  BY <1>1, RowInHand
<1>3. CASE /\ row.sweep \in {"landed", "failed"}
           /\ rows' = [rows EXCEPT ![mine[k]].status = "SWEPT"]
           /\ Go(k, "mint")
           /\ UNCHANGED <<mine, late, faults>>
  <2>1. /\ new \in Row /\ new.status = "SWEPT" /\ new.sweep = row.sweep
        /\ new.recent = row.recent /\ new.minted = row.minted
    BY <1>2 DEF Row, Statuses, InFlight
  <2>2. RowBecomes(mine[k], new)
    BY <1>2, <1>3, <2>1 DEF RowBecomes, DepositInv, DepositTyped
  <2>3. Clean => row.sweep = "landed"
    BY <1>1, <1>2, <1>3 DEF Undisturbed
  <2>. HIDE DEF new, row
  <2>4. /\ Clean => RowEarned(new) /\ new.sweep = "landed"
        /\ Clean' => Clean
    BY <1>1, <1>3, <2>1, <2>3 DEF RowEarned, Astray, Clean
  <2>5. /\ pc'[k] = "mint" /\ mine'[k] = mine[k]
        /\ \A j \in Checkers \ {k} : pc'[j] = pc[j] /\ mine'[j] = mine[j]
        /\ pc' \in [Checkers -> {"idle"} \cup Processing \cup {"failures", "inflight", "create"}]
        /\ mine' \in [Checkers -> Nat] /\ faults' \in Nat /\ (faults' = 0 => faults = 0)
        /\ late' \in BOOLEAN /\ (late => late')
    BY <1>3 DEF Go, DepositInv, DepositTyped, Processing
  <2>. QED  BY <1>1, <2>1, <2>2, <2>4, <2>5, OwnRow
<1>4. CASE Threw(k, row)
  BY <1>1, <1>2, <1>4, ThrewStep
<1>. QED  BY <1>3, <1>4 DEF ConfirmSweep

LEMMA MintUsdcStep ==
  ASSUME DepositInv, NEW k \in Checkers, MintUsdc(k)
  PROVE  DepositInv'
<1>. DEFINE row == rows[mine[k]]
            paidFor == [row EXCEPT !.minted = TRUE]
<1>1. pc[k] = "mint" /\ pc[k] \in Processing /\ UNCHANGED <<sol, arrived, amount, overlapped>>
  BY DEF MintUsdc, Processing
<1>2. /\ mine[k] \in DOMAIN rows /\ row \in Row /\ row.status \in InFlight
      /\ Clean => RowEarned(row) /\ Undisturbed(k)
  BY <1>1, RowInHand
<1>3. Clean => row.sweep = "landed"
  BY <1>1, <1>2 DEF Undisturbed
<1>4. /\ paidFor \in Row /\ paidFor.status = row.status /\ paidFor.sweep = row.sweep
      /\ paidFor.minted
  BY <1>2 DEF Row
<1>5. (Clean => RowEarned(paidFor)) /\ paidFor.status \in InFlight
  BY <1>2, <1>3, <1>4 DEF RowEarned, Astray
<1>6. ASSUME NEW base \in {row, paidFor},
             rows' = [rows EXCEPT ![mine[k]] = [base EXCEPT !.status = "COMPLETED"]],
             Ends(k), UNCHANGED <<late, faults>>
      PROVE  DepositInv'
  <2>. DEFINE new == [base EXCEPT !.status = "COMPLETED"]
  <2>1. /\ new \in Row /\ new.status = "COMPLETED" /\ new.sweep = base.sweep
        /\ new.minted = base.minted /\ base.sweep = row.sweep
    BY <1>2, <1>4 DEF Row, Statuses
  <2>2. RowBecomes(mine[k], new)
    BY <1>2, <1>6, <2>1 DEF RowBecomes
  <2>. HIDE DEF new, row, paidFor
  <2>3. (Clean' => Clean /\ RowEarned(new)) /\ new.status \notin InFlight
    BY <1>1, <1>3, <1>6, <2>1 DEF RowEarned, Astray, Clean, InFlight
  <2>4. /\ pc'[k] = "idle" /\ mine'[k] = 0
        /\ \A j \in Checkers \ {k} : pc'[j] = pc[j] /\ mine'[j] = mine[j]
        /\ pc' \in [Checkers -> {"idle"} \cup Processing \cup {"failures", "inflight", "create"}]
        /\ mine' \in [Checkers -> Nat] /\ faults' \in Nat /\ (faults' = 0 => faults = 0)
        /\ late' \in BOOLEAN /\ (late => late')
    BY <1>6 DEF Ends, Go, DepositInv, DepositTyped, Processing
  <2>. QED  BY <1>1, <2>2, <2>3, <2>4, OwnRow
<1>7. CASE /\ rows' = [rows EXCEPT ![mine[k]].status = "COMPLETED", ![mine[k]].minted = TRUE]
           /\ Ends(k)
           /\ UNCHANGED <<late, faults>>
  <2>1. rows' = [rows EXCEPT ![mine[k]] = [paidFor EXCEPT !.status = "COMPLETED"]]
    BY <1>2, <1>7 DEF Row, DepositInv, DepositTyped
  <2>. QED  BY <1>6, <1>7, <2>1
<1>8. CASE /\ rows' = [rows EXCEPT ![mine[k]].status = "COMPLETED"]
           /\ Ends(k)
           /\ UNCHANGED <<late, faults>>
  BY <1>6, <1>8
<1>. HIDE DEF paidFor
<1>9. CASE Threw(k, paidFor)
  BY <1>1, <1>4, <1>5, <1>9, ThrewStep
<1>10. CASE Threw(k, row)
  BY <1>1, <1>2, <1>10, ThrewStep
<1>. QED  BY <1>7, <1>8, <1>9, <1>10 DEF MintUsdc, paidFor

(* A row changes by itself, between the steps of the checks: its status    *)
(* and what was minted for it stay.                                        *)
LEMMA SweepProcessedStep ==
  ASSUME DepositInv, NEW i \in DOMAIN rows, SweepProcessed(i)
  PROVE  DepositInv'
<1>1. PICK fate \in {"landed", "failed", "expired"} :
         /\ rows' = [rows EXCEPT ![i].sweep = fate]
         /\ fate = "landed" => sol' = sol - rows[i].lamports /\ sol >= rows[i].lamports
         /\ fate # "landed" => sol' = sol
         /\ fate = "failed" => sol < rows[i].lamports
  BY DEF SweepProcessed
<1>. DEFINE new == [rows[i] EXCEPT !.sweep = fate]
<1>2. /\ UNCHANGED <<arrived, pc, amount, mine, overlapped, late, faults>>
      /\ rows[i].sweep = "sent"
  BY DEF SweepProcessed
<1>3. rows[i] \in Row
  BY DEF DepositInv, DepositTyped
<1>4. /\ new \in Row /\ new.sweep = fate /\ new.status = rows[i].status
      /\ new.minted = rows[i].minted /\ new.recent = rows[i].recent
      /\ new.lamports = rows[i].lamports
  BY <1>3 DEF Row, Fates
<1>5. RowBecomes(i, new)
  BY <1>1, <1>4 DEF RowBecomes, DepositInv, DepositTyped
<1>. HIDE DEF new
<1>6. /\ rows' \in Seq(Row) /\ DOMAIN rows' = DOMAIN rows /\ rows'[i] = new
      /\ \A j \in DOMAIN rows \ {i} : rows'[j] = rows[j]
  BY <1>5, RowUpdated DEF DepositInv, DepositTyped
<1>7. sol' \in Nat
  BY <1>1, <1>3 DEF DepositInv, DepositTyped, Row
<1>8. DepositTyped'
  BY <1>2, <1>6, <1>7 DEF DepositInv, DepositTyped
<1>9. \A j \in DOMAIN rows : rows'[j].status = rows[j].status
  BY <1>4, <1>6
<1>10. RowOwned'
  BY <1>2, <1>6, <1>9 DEF DepositInv, RowOwned, Processing
<1>11. WalletNotBlocked'
  BY <1>2, <1>6, <1>9 DEF DepositInv, WalletNotBlocked
<1>12. ASSUME Clean'
       PROVE  /\ \A j, l \in Checkers : j # l => pc'[j] = "idle" \/ pc'[l] = "idle"
              /\ \A j \in DOMAIN rows' : RowEarned(rows'[j])
              /\ \A k \in Checkers : Undisturbed(k)'
  <2>1. /\ \A j, l \in Checkers : j # l => pc[j] = "idle" \/ pc[l] = "idle"
        /\ \A j \in DOMAIN rows : RowEarned(rows[j])
        /\ \A k \in Checkers : Undisturbed(k)
    BY <1>2, <1>12 DEF DepositInv, Alone, Clean
  <2>2. ~rows[i].minted
    BY <1>2, <1>3, <2>1 DEF RowEarned, Row
  <2>3. \A j \in DOMAIN rows' : RowEarned(rows'[j])
    BY <1>4, <1>6, <2>1, <2>2 DEF RowEarned, Astray
  <2>4. ASSUME NEW k \in Checkers
        PROVE  Undisturbed(k)'
    <3>1. pc[k] \in Processing => mine[k] \in DOMAIN rows
      BY DEF DepositInv, RowOwned
    <3>2. \A j \in DOMAIN rows : rows'[j].sweep = "sent" => rows[j].sweep = "sent"
      BY <1>2, <1>6
    <3>3. pc[k] \in {"inflight", "create"} => NoFreshFailure'
      <4>1. \A j \in DOMAIN rows : rows'[j].recent = rows[j].recent
        BY <1>4, <1>6
      <4>. QED  BY <1>6, <1>9, <2>1, <4>1 DEF Undisturbed, NoFreshFailure
    <3>4. pc[k] = "create" => NoneInFlight'
      BY <1>6, <1>9, <2>1 DEF Undisturbed, NoneInFlight
    <3>5. CASE pc[k] \in {"sweep", "confirm"}
      <4>1. mine[k] = i /\ pc[k] = "confirm"
        BY <1>2, <2>1, <3>5 DEF Undisturbed, NoSweepBesides
      <4>2. fate \in {"landed", "expired"}
        BY <1>1, <1>2, <2>1, <1>3, <4>1 DEF Undisturbed, DepositInv, DepositTyped, Row
      <4>3. NoSweepBesides(mine[k])'
        BY <1>2, <1>6, <2>1, <3>2, <3>5 DEF Undisturbed, NoSweepBesides
      <4>. QED  BY <1>2, <1>4, <1>6, <4>1, <4>2, <4>3 DEF Undisturbed
    <3>6. CASE pc[k] = "mint"
      <4>1. mine[k] \in DOMAIN rows \ {i}
        BY <1>2, <2>1, <3>1, <3>6 DEF Undisturbed, Processing
      <4>. QED  BY <1>2, <1>6, <2>1, <3>6, <4>1 DEF Undisturbed
    <3>. QED  BY <1>2, <3>3, <3>4, <3>5, <3>6 DEF Undisturbed
  <2>. QED  BY <1>2, <2>1, <2>3, <2>4
<1>13. Alone'
  BY <1>12 DEF Alone, RowEarned, Astray
<1>. QED  BY <1>8, <1>10, <1>11, <1>13 DEF DepositInv

LEMMA CoolOffEndsStep ==
  ASSUME DepositInv, NEW i \in DOMAIN rows, CoolOffEnds(i)
  PROVE  DepositInv'
<1>. DEFINE new == [rows[i] EXCEPT !.recent = FALSE]
<1>1. /\ UNCHANGED <<sol, arrived, pc, amount, mine, overlapped, faults>>
      /\ late' \in BOOLEAN /\ (late => late') /\ (late' \/ ~Astray(rows'[i]))
      /\ rows' = [rows EXCEPT ![i].recent = FALSE]
  BY DEF CoolOffEnds, Astray, DepositInv, DepositTyped
<1>2. rows[i] \in Row
  BY DEF DepositInv, DepositTyped
<1>3. /\ new \in Row /\ new.sweep = rows[i].sweep /\ new.status = rows[i].status
      /\ new.minted = rows[i].minted /\ ~new.recent /\ new.lamports = rows[i].lamports
  BY <1>2 DEF Row
<1>4. RowBecomes(i, new)
  BY <1>1, <1>3 DEF RowBecomes, DepositInv, DepositTyped
<1>. HIDE DEF new
<1>5. /\ rows' \in Seq(Row) /\ DOMAIN rows' = DOMAIN rows /\ rows'[i] = new
      /\ \A j \in DOMAIN rows \ {i} : rows'[j] = rows[j]
  BY <1>4, RowUpdated DEF DepositInv, DepositTyped
<1>6. \A j \in DOMAIN rows :
         /\ rows'[j].status = rows[j].status /\ rows'[j].sweep = rows[j].sweep
         /\ rows'[j].minted = rows[j].minted /\ rows'[j].lamports = rows[j].lamports
         /\ rows'[j].recent => rows[j].recent
  BY <1>3, <1>5
<1>7. DepositTyped'
  BY <1>1, <1>5 DEF DepositInv, DepositTyped
<1>8. RowOwned'
  BY <1>1, <1>5, <1>6 DEF DepositInv, RowOwned, Processing
<1>9. WalletNotBlocked'
  BY <1>1, <1>5, <1>6 DEF DepositInv, WalletNotBlocked
<1>10. Alone'
  <2>1. ASSUME \A j \in DOMAIN rows : RowEarned(rows[j]), Clean'
        PROVE  \A j \in DOMAIN rows' : RowEarned(rows'[j])
    <3>1. ~Astray(rows'[i])
      BY <1>1, <2>1 DEF Clean
    <3>2. RowEarned(rows'[i])
      BY <1>6, <2>1, <3>1 DEF RowEarned
    <3>. QED  BY <1>5, <2>1, <3>2
  <2>2. NoFreshFailure => NoFreshFailure'
    BY <1>5, <1>6 DEF NoFreshFailure
  <2>3. NoneInFlight => NoneInFlight'
    BY <1>5, <1>6 DEF NoneInFlight
  <2>4. \A k \in Checkers : NoSweepBesides(mine[k]) => NoSweepBesides(mine[k])'
    BY <1>1, <1>5, <1>6 DEF NoSweepBesides
  <2>5. ASSUME NEW k \in Checkers, Undisturbed(k)
        PROVE  Undisturbed(k)'
    <3>1. pc[k] \in Processing => mine[k] \in DOMAIN rows
      BY DEF DepositInv, RowOwned
    <3>. QED  BY <1>1, <1>6, <2>2, <2>3, <2>4, <2>5, <3>1 DEF Undisturbed, Processing
  <2>6. Clean' => Clean
    BY <1>1 DEF Clean
  <2>. QED  BY <1>1, <2>1, <2>5, <2>6 DEF DepositInv, Alone, RowEarned, Astray
<1>. QED  BY <1>7, <1>8, <1>9, <1>10 DEF DepositInv

LEMMA DepositInitial == Init => DepositInv
<1>. SUFFICES ASSUME Init PROVE DepositInv
  OBVIOUS
<1>1. rows = <<>> /\ rows \in Seq(Row) /\ DOMAIN rows = {}
  BY DEF Init
<1>2. \A k \in Checkers : pc[k] = "idle" /\ mine[k] = 0
  BY DEF Init
<1>3. DepositTyped
  BY <1>1 DEF Init, DepositTyped, Processing
<1>4. RowOwned /\ WalletNotBlocked
  BY <1>1, <1>2 DEF RowOwned, WalletNotBlocked, Processing
<1>5. Alone
  BY <1>1, <1>2 DEF Alone, Undisturbed
<1>. QED  BY <1>3, <1>4, <1>5 DEF DepositInv

LEMMA DepositUnchanged ==
  ASSUME DepositInv, UNCHANGED <<depositVars, faults>>
  PROVE  DepositInv'
<1>1. DepositTyped' /\ RowOwned'
  BY DEF DepositInv, DepositTyped, RowOwned, depositVars
<1>2. WalletNotBlocked'
  BY DEF DepositInv, WalletNotBlocked, depositVars
<1>3. Alone'
  BY DEF DepositInv, Alone, Clean, RowEarned, Astray, Undisturbed, NoFreshFailure, NoneInFlight,
         NoSweepBesides, depositVars
<1>. QED  BY <1>1, <1>2, <1>3 DEF DepositInv

LEMMA ArriveStep ==
  ASSUME DepositInv, Arrive
  PROVE  DepositInv'
<1>1. sol' = sol + 1 /\ arrived' = arrived + 1
      /\ UNCHANGED <<rows, pc, amount, mine, overlapped, late, faults>>
  BY DEF Arrive
<1>2. DepositTyped' /\ RowOwned'
  BY <1>1 DEF DepositInv, DepositTyped, RowOwned
<1>3. WalletNotBlocked'
  BY <1>1 DEF DepositInv, WalletNotBlocked
<1>4. ASSUME NEW k \in Checkers, Undisturbed(k)
      PROVE  Undisturbed(k)'
  <2>1. pc[k] = "confirm" => rows[mine[k]].lamports \in Nat
    BY RowInHand DEF Processing, Row
  <2>2. pc[k] = "confirm" /\ rows[mine[k]].sweep = "sent" => sol' >= rows[mine[k]].lamports
    BY <1>1, <1>4, <2>1 DEF Undisturbed, DepositInv, DepositTyped
  <2>. QED  BY <1>1, <1>4, <2>2 DEF Undisturbed, NoFreshFailure, NoneInFlight, NoSweepBesides
<1>5. Alone'
  BY <1>1, <1>4 DEF DepositInv, Alone, Clean, RowEarned, Astray
<1>. QED  BY <1>2, <1>3, <1>5 DEF DepositInv

LEMMA CrashStep ==
  ASSUME DepositInv, Crash
  PROVE  DepositInv'
<1>1. /\ \A k \in Checkers : pc'[k] = "idle" /\ mine'[k] = 0
      /\ faults' = faults + 1 /\ UNCHANGED <<sol, arrived, rows, overlapped, late>>
  BY DEF Crash
<1>2. DepositTyped'
  BY DEF Crash, DepositInv, DepositTyped, Processing
<1>3. RowOwned'
  BY <1>1 DEF RowOwned, Processing
<1>4. faults' # 0
  BY <1>1 DEF DepositInv, DepositTyped
<1>5. WalletNotBlocked'
  BY <1>4 DEF WalletNotBlocked
<1>6. Alone'
  BY <1>1 DEF DepositInv, Alone, Clean, RowEarned, Astray, Undisturbed
<1>. QED  BY <1>2, <1>3, <1>5, <1>6 DEF DepositInv

LEMMA DepositStep ==
  ASSUME DepositInv, [Next]_vars
  PROVE  DepositInv'
<1>1. CASE Arrive
  BY <1>1, ArriveStep
<1>2. ASSUME NEW k \in Checkers, Check(k)
      PROVE  DepositInv'
  <2>1. CASE ReadBalance(k)
    <3>1. /\ pc[k] = "idle" /\ pc' = [pc EXCEPT ![k] = "failures"]
          /\ amount' \in [Checkers -> Nat]
          /\ UNCHANGED <<sol, arrived, rows, mine, late, faults>>
      BY <2>1 DEF ReadBalance, Go, DepositInv, DepositTyped
    <3>2. /\ overlapped' \in BOOLEAN
          /\ Clean' => Clean /\ \A j \in Checkers \ {k} : pc[j] = "idle"
      BY <2>1 DEF ReadBalance, Clean, DepositInv, DepositTyped
    <3>. QED  BY <3>1, <3>2, BeforeRow DEF Processing
  <2>2. CASE FindRecentFailure(k)
    <3>1. PICK to \in {"idle", "inflight"} :
             pc' = [pc EXCEPT ![k] = to] /\ (to = "inflight" => NoFreshFailure)
      BY <2>2 DEF FindRecentFailure, Quits, Go, NoFreshFailure
    <3>2. /\ pc[k] = "failures" /\ amount' \in [Checkers -> Nat]
          /\ UNCHANGED <<sol, arrived, rows, mine, late, faults, overlapped>>
          /\ overlapped' \in BOOLEAN /\ (Clean' <=> Clean)
      BY <2>2 DEF FindRecentFailure, Quits, Clean, DepositInv, DepositTyped
    <3>3. Clean => \A j \in Checkers \ {k} : pc[j] = "idle"
      BY <3>2 DEF DepositInv, Alone
    <3>. QED  BY <3>1, <3>2, <3>3, BeforeRow DEF Processing
  <2>3. CASE FindInFlight(k)
    <3>1. PICK to \in {"idle", "create"} :
             pc' = [pc EXCEPT ![k] = to] /\ (to = "create" => NoneInFlight)
      BY <2>3 DEF FindInFlight, Quits, Go, NoneInFlight
    <3>2. /\ pc[k] = "inflight" /\ amount' \in [Checkers -> Nat]
          /\ UNCHANGED <<sol, arrived, rows, mine, late, faults, overlapped>>
          /\ overlapped' \in BOOLEAN /\ (Clean' <=> Clean)
      BY <2>3 DEF FindInFlight, Quits, Clean, DepositInv, DepositTyped
    <3>3. Clean => NoFreshFailure /\ \A j \in Checkers \ {k} : pc[j] = "idle"
      BY <3>2 DEF DepositInv, Alone, Undisturbed
    <3>. QED  BY <3>1, <3>2, <3>3, BeforeRow DEF Processing
  <2>. QED  BY <1>2, <2>1, <2>2, <2>3, CreateRowStep, SweepSolStep, ConfirmSweepStep, MintUsdcStep
            DEF Check
<1>3. CASE \E i \in DOMAIN rows : SweepProcessed(i) \/ CoolOffEnds(i)
  BY <1>3, SweepProcessedStep, CoolOffEndsStep
<1>4. ASSUME NEW w \in Withdrawals, Withdraw(w) \/ TransferProcessed(w)
      PROVE  DepositInv'
  BY <1>4, DepositUnchanged DEF Withdraw, ReadUsdc, SendTransfer, ConfirmWithdraw, TransferProcessed
<1>5. ASSUME NEW c \in Claims, Claim(c) \/ ClaimProcessed(c)
      PROVE  DepositInv'
  BY <1>5, DepositUnchanged DEF Claim, AssertNotClaimed, ReadWinningShares, SendClaim,
         ConfirmClaim, PersistClaim, ClaimProcessed
<1>8. CASE TradeShares \/ ResolveOnChain
  BY <1>8, DepositUnchanged DEF TradeShares, ResolveOnChain
<1>6. CASE Crash
  BY <1>6, CrashStep
<1>7. CASE UNCHANGED vars
  BY <1>7, DepositUnchanged DEF vars
<1>. QED  BY <1>1, <1>2, <1>3, <1>4, <1>5, <1>6, <1>7, <1>8 DEF Next

-----------------------------------------------------------------------------
(* Withdrawals                                                             *)

WithdrawAnswers == {"idle", "send", "confirm", "done", "lost",
                    "INSUFFICIENT_BALANCE", "RPC_FAILED"}

WithdrawInv ==
    /\ wpc \in [Withdrawals -> WithdrawAnswers]
    /\ wtx \in [Withdrawals -> Fates]
    /\ \A w \in Withdrawals :
          /\ wpc[w] \in {"idle", "send", "INSUFFICIENT_BALANCE"} => wtx[w] = "none"
          /\ wpc[w] = "done" => wtx[w] = "landed"

LEMMA WithdrawStep ==
  ASSUME WithdrawInv, [Next]_vars
  PROVE  WithdrawInv'
<1>1. ASSUME NEW w \in Withdrawals, Withdraw(w) \/ TransferProcessed(w)
      PROVE  WithdrawInv'
  <2>1. CASE ReadUsdc(w)
    BY <2>1 DEF ReadUsdc, WithdrawInv, WithdrawAnswers
  <2>2. CASE SendTransfer(w)
    BY <2>2 DEF SendTransfer, WithdrawInv, WithdrawAnswers, Fates
  <2>3. CASE ConfirmWithdraw(w)
    BY <2>3 DEF ConfirmWithdraw, WithdrawInv, WithdrawAnswers
  <2>4. CASE TransferProcessed(w)
    BY <2>4 DEF TransferProcessed, WithdrawInv, Fates
  <2>. QED  BY <1>1, <2>1, <2>2, <2>3, <2>4 DEF Withdraw
<1>2. CASE Crash
  BY <1>2 DEF Crash, WithdrawInv, WithdrawAnswers
<1>3. CASE UNCHANGED withdrawVars
  BY <1>3 DEF withdrawVars, WithdrawInv
<1>4. CASE Arrive
  BY <1>3, <1>4 DEF Arrive
<1>5. ASSUME NEW k \in Checkers, Check(k)
      PROVE  UNCHANGED withdrawVars
  BY <1>5 DEF Check, ReadBalance, FindRecentFailure, FindInFlight, CreateRow, SweepSol,
         ConfirmSweep, MintUsdc
<1>6. ASSUME NEW i \in DOMAIN rows, SweepProcessed(i) \/ CoolOffEnds(i)
      PROVE  UNCHANGED withdrawVars
  BY <1>6 DEF SweepProcessed, CoolOffEnds
<1>7. ASSUME NEW c \in Claims, Claim(c) \/ ClaimProcessed(c)
      PROVE  UNCHANGED withdrawVars
  BY <1>7 DEF Claim, AssertNotClaimed, ReadWinningShares, SendClaim, ConfirmClaim,
         PersistClaim, ClaimProcessed
<1>8. TradeShares \/ ResolveOnChain => UNCHANGED withdrawVars
  BY DEF TradeShares, ResolveOnChain
<1>9. UNCHANGED vars => UNCHANGED withdrawVars
  BY DEF vars
<1>. QED  BY <1>1, <1>2, <1>3, <1>4, <1>5, <1>6, <1>7, <1>8, <1>9 DEF Next

-----------------------------------------------------------------------------
(* Claims: the chain pays once, what the position holds then, and a claim  *)
(* of an untraded position that has not been paid for has read all of it.  *)

ClaimAnswers == {"idle", "read", "send", "confirm", "persist", "done", "lost",
                 "ALREADY_CLAIMED", "NO_WINNING_SHARES", "CLAIM_FAILED"}

ClaimTyped ==
    /\ cpc \in [Claims -> ClaimAnswers]
    /\ ctx \in [Claims -> Fates]
    /\ read \in [Claims -> Nat]
    /\ resolved \in BOOLEAN /\ traded \in BOOLEAN /\ short \in BOOLEAN
    /\ shares \in Nat /\ paid \in Nat /\ claimRow \in Nat

(* What the position held when it was read, for as long as nobody traded.  *)
Worth == IF paid > 0 THEN paid ELSE shares

ClaimInv ==
    /\ ClaimTyped
    /\ paid > 0 => resolved /\ shares = 0
    /\ claimRow # 0 /\ ~short => shares = 0 /\ paid > 0
    /\ claimRow # 0 /\ ~short /\ ~traded => claimRow = paid
    /\ claimRow # 0 => resolved
    /\ \A c \in Claims :
          /\ cpc[c] \in {"idle", "read"} => read[c] = 0
          /\ cpc[c] \in {"send", "confirm", "persist"} => read[c] > 0
          /\ cpc[c] \in {"send", "confirm", "persist"} /\ ~traded => read[c] = Worth
          /\ ctx[c] # "none" => resolved
          /\ cpc[c] \in {"confirm", "persist"} => resolved
          /\ ctx[c] = "sent" => paid + shares > 0
          /\ ctx[c] \in {"landed", "failed"} /\ ~short => shares = 0 /\ paid > 0
          /\ cpc[c] \in {"persist", "done"} /\ ~short => shares = 0 /\ paid > 0

LEMMA ClaimStep ==
  ASSUME ClaimInv, [Next]_vars
  PROVE  ClaimInv'
<1>. USE DEF ClaimInv, ClaimTyped, Worth
<1>1. ASSUME NEW c \in Claims, Claim(c) \/ ClaimProcessed(c)
      PROVE  ClaimInv'
  <2>1. CASE AssertNotClaimed(c)
    BY <2>1 DEF AssertNotClaimed, ClaimAnswers
  <2>2. CASE ReadWinningShares(c)
    <3>1. PICK n \in {0, shares} :
             /\ read' = [read EXCEPT ![c] = n]
             /\ cpc' = [cpc EXCEPT ![c] = IF n <= 0 THEN "NO_WINNING_SHARES" ELSE "send"]
      <4>1. read[c] = 0
        BY <2>2 DEF ReadWinningShares
      <4>2. read = [read EXCEPT ![c] = 0]
        BY <4>1
      <4>. QED  BY <2>2, <4>1, <4>2 DEF ReadWinningShares
    <3>2. n \in Nat /\ (n > 0 => n = Worth)
      OBVIOUS
    <3>. QED  BY <2>2, <3>1, <3>2 DEF ReadWinningShares, ClaimAnswers
  <2>3. CASE SendClaim(c)
    BY <2>3 DEF SendClaim, ClaimAnswers, Fates
  <2>4. CASE ConfirmClaim(c)
    BY <2>4 DEF ConfirmClaim, ClaimAnswers
  <2>5. CASE PersistClaim(c)
    BY <2>5 DEF PersistClaim, ClaimAnswers
  <2>6. CASE ClaimProcessed(c)
    BY <2>6 DEF ClaimProcessed, Fates
  <2>. QED  BY <1>1, <2>1, <2>2, <2>3, <2>4, <2>5, <2>6 DEF Claim
<1>2. CASE Crash
  BY <1>2 DEF Crash, ClaimAnswers
<1>3. CASE UNCHANGED claimVars
  BY <1>3 DEF claimVars
<1>4. CASE Arrive
  BY <1>3, <1>4 DEF Arrive
<1>5. ASSUME NEW k \in Checkers, Check(k)
      PROVE  UNCHANGED claimVars
  BY <1>5 DEF Check, ReadBalance, FindRecentFailure, FindInFlight, CreateRow, SweepSol,
         ConfirmSweep, MintUsdc
<1>6. ASSUME NEW i \in DOMAIN rows, SweepProcessed(i) \/ CoolOffEnds(i)
      PROVE  UNCHANGED claimVars
  BY <1>6 DEF SweepProcessed, CoolOffEnds
<1>7. ASSUME NEW w \in Withdrawals, Withdraw(w) \/ TransferProcessed(w)
      PROVE  UNCHANGED claimVars
  BY <1>7 DEF Withdraw, ReadUsdc, SendTransfer, ConfirmWithdraw, TransferProcessed
<1>8. CASE TradeShares
  <2>1. shares' \in Nat
    BY <1>8, FundsAssumption DEF TradeShares
  <2>. QED  BY <1>8, <2>1 DEF TradeShares
<1>9. CASE ResolveOnChain
  BY <1>9 DEF ResolveOnChain
<1>10. UNCHANGED vars => UNCHANGED claimVars
  BY DEF vars
<1>. QED  BY <1>1, <1>2, <1>3, <1>4, <1>5, <1>6, <1>7, <1>8, <1>9, <1>10 DEF Next

-----------------------------------------------------------------------------
(* All three, and the user's USDC, which a sweep, a claim and a transfer   *)
(* touch.                                                                  *)

IInv == DepositInv /\ WithdrawInv /\ ClaimInv /\ usdc \in Nat

LEMMA UsdcStep ==
  ASSUME IInv, [Next]_vars
  PROVE  usdc' \in Nat
<1>1. ASSUME NEW k \in Checkers, Check(k)
      PROVE  usdc' \in Nat
  <2>1. CASE MintUsdc(k)
    <3>1. rows[mine[k]].usdc \in Nat
      BY <2>1, RowInHand DEF MintUsdc, Processing, Row, IInv
    <3>. QED  BY <2>1, <3>1 DEF MintUsdc, IInv
  <2>. QED  BY <1>1, <2>1 DEF Check, ReadBalance, FindRecentFailure, FindInFlight, CreateRow,
              SweepSol, ConfirmSweep, IInv
<1>2. ASSUME NEW i \in DOMAIN rows, SweepProcessed(i) \/ CoolOffEnds(i)
      PROVE  usdc' \in Nat
  BY <1>2 DEF SweepProcessed, CoolOffEnds, IInv
<1>3. ASSUME NEW w \in Withdrawals, Withdraw(w) \/ TransferProcessed(w)
      PROVE  usdc' \in Nat
  BY <1>3 DEF Withdraw, ReadUsdc, SendTransfer, ConfirmWithdraw, TransferProcessed, IInv
<1>4. ASSUME NEW c \in Claims, Claim(c) \/ ClaimProcessed(c)
      PROVE  usdc' \in Nat
  <2>1. shares \in Nat
    BY DEF IInv, ClaimInv, ClaimTyped
  <2>. QED  BY <1>4, <2>1 DEF Claim, AssertNotClaimed, ReadWinningShares, SendClaim,
              ConfirmClaim, PersistClaim, ClaimProcessed, IInv
<1>5. CASE Arrive \/ Crash \/ TradeShares \/ ResolveOnChain \/ UNCHANGED vars
  BY <1>5 DEF Arrive, Crash, TradeShares, ResolveOnChain, vars, IInv
<1>. QED  BY <1>1, <1>2, <1>3, <1>4, <1>5 DEF Next

LEMMA InitialState == Init => IInv
<1>. SUFFICES ASSUME Init PROVE IInv
  OBVIOUS
<1>1. DepositInv
  BY DepositInitial
<1>2. WithdrawInv
  BY DEF Init, WithdrawInv, WithdrawAnswers, Fates
<1>3. ClaimInv
  <2>1. ClaimTyped
    BY DEF Init, ClaimTyped, ClaimAnswers, Fates
  <2>2. paid = 0 /\ claimRow = 0
    BY DEF Init
  <2>3. \A c \in Claims : cpc[c] = "idle" /\ ctx[c] = "none" /\ read[c] = 0
    BY DEF Init
  <2>. QED  BY <2>1, <2>2, <2>3 DEF ClaimInv
<1>4. usdc \in Nat
  BY FundsAssumption DEF Init
<1>. QED  BY <1>1, <1>2, <1>3, <1>4 DEF IInv

LEMMA InductiveStep ==
  ASSUME IInv, [Next]_vars
  PROVE  IInv'
BY DepositStep, WithdrawStep, ClaimStep, UsdcStep DEF IInv

(* The inductive invariant of the wallet's three services.                 *)
THEOREM Invariance == Spec => []IInv
<1>1. Init => IInv
  BY InitialState
<1>2. IInv /\ [Next]_vars => IInv'
  BY InductiveStep
<1>. QED  BY <1>1, <1>2, PTL DEF Spec

-----------------------------------------------------------------------------
(* Every variable stays in its type, for any number of checks, withdrawals *)
(* and claims: no interleaving of mints and transfers overdraws the        *)
(* account, and a check's row is there and being processed.                *)
THEOREM TypeCorrectness == Spec => []TypeOK
<1>1. IInv => TypeOK
  <2>. SUFFICES ASSUME IInv PROVE TypeOK
    OBVIOUS
  <2>1. /\ shares \in Nat /\ paid \in Nat /\ claimRow \in Nat
        /\ read \in [Claims -> Nat]
        /\ resolved \in BOOLEAN /\ traded \in BOOLEAN /\ short \in BOOLEAN
    BY DEF IInv, ClaimInv, ClaimTyped
  <2>2. \A k \in Checkers : pc[k] \in Processing =>
           mine[k] \in DOMAIN rows /\ rows[mine[k]].status \in InFlight
    BY RowInHand DEF IInv
  <2>3. pc \in [Checkers -> {"idle", "failures", "inflight", "create", "sweep", "confirm", "mint"}]
    BY DEF IInv, DepositInv, DepositTyped, Processing
  <2>4. /\ sol \in Nat /\ arrived \in Nat /\ rows \in Seq(Row) /\ faults \in Nat
        /\ amount \in [Checkers -> Nat] /\ mine \in [Checkers -> Nat]
        /\ overlapped \in BOOLEAN /\ late \in BOOLEAN
    BY DEF IInv, DepositInv, DepositTyped
  <2>. QED  BY <2>1, <2>2, <2>3, <2>4
            DEF TypeOK, IInv, WithdrawInv, ClaimInv, ClaimTyped, WithdrawAnswers, ClaimAnswers,
                Processing
<1>. QED  BY <1>1, Invariance, PTL

(* check_one: without overlapping checks, and sweeps that outlive the      *)
(* cool-off of their row, USDC is minted only for a sweep that landed.  A  *)
(* check which passes the cool-off and the in-flight test finds no older   *)
(* sweep that may still land, so nothing else can take the SOL its own     *)
(* preflight saw (Alone).                                                  *)
THEOREM MintsAreSwept == Spec => []MintFollowsSweep
<1>1. IInv => MintFollowsSweep
  BY DEF IInv, DepositInv, Alone, Clean, RowEarned, MintFollowsSweep
<1>. QED  BY <1>1, Invariance, PTL

(* check_one: whatever throws after the row was created ends in FAILED, so *)
(* without a stop or a write that throws no wallet waits for a row nobody  *)
(* works on.                                                               *)
THEOREM NoWalletBlocked == Spec => []WalletNotBlocked
<1>1. IInv => WalletNotBlocked
  BY DEF IInv, DepositInv
<1>. QED  BY <1>1, Invariance, PTL

(* withdraw_usdc: the answers agree with what the chain did.  claim: so do *)
(* they, although its confirmation does not look at the error, unless a    *)
(* claim failed with shares left to pay: the premise is needed.            *)
THEOREM AnswersAreTruthful == Spec => []AnswersTruthful
<1>1. IInv => AnswersTruthful
  BY DEF IInv, WithdrawInv, ClaimInv, AnswersTruthful
<1>. QED  BY <1>1, Invariance, PTL

(* persist_claim: with any number of concurrent claims the row says what   *)
(* the chain paid, and that nothing is left to claim, unless a claim       *)
(* failed with shares left, or the position was traded after a claim read  *)
(* it; that is what "authoritative evidence" (141-146) takes for granted.  *)
THEOREM ClaimRowIsEvidence == Spec => []ClaimRowMatchesPayout
<1>1. IInv => ClaimRowMatchesPayout
  BY DEF IInv, ClaimInv, ClaimRowMatchesPayout
<1>. QED  BY <1>1, Invariance, PTL

=============================================================================
