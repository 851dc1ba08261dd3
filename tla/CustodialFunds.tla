--------------------------- MODULE CustodialFunds ---------------------------
(***************************************************************************)
(* apps/server: a user's custodial wallet.  SolDepositPoller sweeps        *)
(* the SOL that arrives in it and mints USDC for it, on its interval and   *)
(* whenever check_now is called; SolanaWithdrawService sends USDC out;     *)
(* SolanaClaimService pays the winnings of a resolved market into it.      *)
(*                                                                         *)
(* A transaction is sent and then lands, fails on chain or expires, at any *)
(* time and whatever its sender has concluded.  SOL is counted above the   *)
(* sweep reserve.                                                          *)
(***************************************************************************)
EXTENDS Integers, Sequences, FiniteSets

CONSTANTS
    Checkers,       \* the polling loop and concurrent calls of check_now
    Withdrawals,    \* calls of withdraw_usdc, of one unit each
    Claims,         \* calls of claim, for one market
    MaxShares,      \* bound on the user's winning shares in that market
    InitialUsdc,    \* what the user has at first
    MinDeposit,     \* SERVER_DEPOSIT_MIN_LAMPORTS
    Rate, Scale,    \* USDC units for SOL units: the rate over a fixed scale
    MaxSol,         \* bound on the SOL that arrives
    MaxCalls,       \* bound on the deposits, withdrawals and claims together
    MaxFaults       \* bound on the number of stops and of writes that throw

ASSUME FundsAssumption ==
    /\ MaxShares \in Nat
    /\ InitialUsdc \in Nat
    /\ MinDeposit \in Nat
    /\ Rate \in Nat
    /\ Scale \in Nat \ {0}
    /\ MaxSol \in Nat
    /\ MaxCalls \in Nat
    /\ MaxFaults \in Nat

VARIABLES
    sol,        \* lamports of the custodial wallet
    arrived,    \* lamports that ever arrived
    rows,       \* SolDeposit, and what became of each row's transactions
    pc,         \* per checker: its next step
    amount,     \* per checker: the balance it has read, until that is in a row
    mine,       \* per checker: the row it is processing, 0 for none
    usdc,       \* the user's USDC
    wpc,        \* per withdrawal: its next step, or the answer it gave
    wtx,        \* per withdrawal: what became of its transfer
    resolved,   \* the market is resolved on chain
    shares,     \* UserPosition on chain: winning shares
    cpc,        \* per claim: its next step, or the answer it gave
    ctx,        \* per claim: what became of its transaction
    read,       \* per claim: the shares it has read
    claimRow,   \* Claim.shares, 0 when there is no row
    faults,     \* times the server stopped, or a write of a row threw
    paid,       \* history: winning shares paid out
    traded,     \* history: the position changed under a claim that had read it
    short,      \* history: a claim of shares that were there failed on chain
    overlapped, \* history: two checks of the wallet ran at the same time
    late        \* history: a sweep was still out after its row's cool-off

depositVars  == <<sol, arrived, rows, pc, amount, mine, overlapped, late>>
withdrawVars == <<wpc, wtx>>
claimVars    == <<resolved, shares, cpc, ctx, read, claimRow, paid, traded, short>>
vars == <<depositVars, usdc, withdrawVars, claimVars, faults>>

InFlight == {"DETECTED", "SWEEPING", "SWEPT"}
Statuses == InFlight \cup {"COMPLETED", "FAILED"}
Fates    == {"none", "sent", "landed", "failed", "expired"}
Row      == [status : Statuses, lamports : Nat, usdc : Nat, recent : BOOLEAN,
             sweep : Fates, minted : BOOLEAN]

(* compute_usdc_raw: integer division.                                     *)
UsdcRaw(lamports) == (lamports * Rate) \div Scale

Calls == Len(rows) + Cardinality({w \in Withdrawals : wpc[w] # "idle"})
                   + Cardinality({c \in Claims : cpc[c] # "idle"})

Init ==
    /\ sol = 0
    /\ arrived = 0
    /\ rows = <<>>
    /\ pc = [k \in Checkers |-> "idle"]
    /\ amount = [k \in Checkers |-> 0]
    /\ mine = [k \in Checkers |-> 0]
    /\ usdc = InitialUsdc
    /\ wpc = [w \in Withdrawals |-> "idle"]
    /\ wtx = [w \in Withdrawals |-> "none"]
    /\ resolved = FALSE
    /\ shares = 0
    /\ cpc = [c \in Claims |-> "idle"]
    /\ ctx = [c \in Claims |-> "none"]
    /\ read = [c \in Claims |-> 0]
    /\ claimRow = 0
    /\ faults = 0
    /\ paid = 0
    /\ traded = FALSE
    /\ short = FALSE
    /\ overlapped = FALSE
    /\ late = FALSE

-----------------------------------------------------------------------------
(* SolDepositPoller                                                        *)
Arrive ==
    /\ arrived < MaxSol
    /\ sol' = sol + 1
    /\ arrived' = arrived + 1
    /\ UNCHANGED <<rows, pc, amount, mine, overlapped, late, usdc, withdrawVars, claimVars,
                   faults>>

Go(k, to) == pc' = [pc EXCEPT ![k] = to]

(* The check ends before there is a row.                                   *)
Quits(k) == Go(k, "idle") /\ amount' = [amount EXCEPT ![k] = 0]

(* check_one begins: a balance worth sweeping is read.                     *)
ReadBalance(k) ==
    /\ pc[k] = "idle"
    /\ sol > MinDeposit
    /\ amount' = [amount EXCEPT ![k] = sol]
    /\ Go(k, "failures")
    /\ overlapped' = (overlapped \/ \E j \in Checkers : pc[j] # "idle")
    /\ UNCHANGED <<sol, arrived, rows, mine, late, usdc, withdrawVars, claimVars, faults>>

(* Mutant of FindRecentFailure: there is no cool-off.                      *)
FindRecentFailureNever(k) ==
    /\ pc[k] = "failures"
    /\ Go(k, "inflight") /\ UNCHANGED amount
    /\ UNCHANGED <<sol, arrived, rows, mine, overlapped, late, usdc, withdrawVars, claimVars,
                   faults>>

(* A deposit that failed within the last five minutes stops the check.     *)
FindRecentFailure(k) ==
    /\ pc[k] = "failures"
    /\ IF \E i \in DOMAIN rows : rows[i].status = "FAILED" /\ rows[i].recent
       THEN Quits(k) ELSE Go(k, "inflight") /\ UNCHANGED amount
    /\ UNCHANGED <<sol, arrived, rows, mine, overlapped, late, usdc, withdrawVars, claimVars,
                   faults>>

(* So does one that is being processed.                                    *)
FindInFlight(k) ==
    /\ pc[k] = "inflight"
    /\ IF \E i \in DOMAIN rows : rows[i].status \in InFlight
       THEN Quits(k) ELSE Go(k, "create") /\ UNCHANGED amount
    /\ UNCHANGED <<sol, arrived, rows, mine, overlapped, late, usdc, withdrawVars, claimVars,
                   faults>>

NewRow(lamports) ==
    [status |-> "DETECTED", lamports |-> lamports, usdc |-> UsdcRaw(lamports), recent |-> TRUE,
     sweep |-> "none", minted |-> FALSE]

(* The rate is fetched, or that throws, and the row is created.  This is   *)
(* before the try block: a create that throws may leave its row behind.    *)
CreateRow(k) ==
    /\ pc[k] = "create"
    /\ \/ /\ Calls < MaxCalls
          /\ rows' = Append(rows, NewRow(amount[k]))
          /\ mine' = [mine EXCEPT ![k] = Len(rows')]
          /\ Go(k, "sweep")
          /\ amount' = [amount EXCEPT ![k] = 0]
          /\ UNCHANGED faults
       \/ /\ Calls < MaxCalls
          /\ faults < MaxFaults
          /\ faults' = faults + 1
          /\ rows' = Append(rows, NewRow(amount[k]))
          /\ Quits(k)
          /\ UNCHANGED mine
       \/ Quits(k) /\ UNCHANGED <<rows, mine, faults>>
    /\ UNCHANGED <<sol, arrived, overlapped, late, usdc, withdrawVars, claimVars>>

(* A failed row's sweep may still land when nothing bars the next check.   *)
Astray(row) == row.status = "FAILED" /\ row.sweep = "sent" /\ ~row.recent

(* The check is over for this wallet.                                      *)
Ends(k) == Go(k, "idle") /\ mine' = [mine EXCEPT ![k] = 0]

(* Whatever throws makes the row FAILED, unless writing that throws too.   *)
Threw(k, row) ==
    /\ \/ /\ rows' = [rows EXCEPT ![mine[k]] = [row EXCEPT !.status = "FAILED"]]
          /\ UNCHANGED faults
       \/ /\ faults < MaxFaults
          /\ faults' = faults + 1
          /\ rows' = [rows EXCEPT ![mine[k]] = row]
    /\ late' = (late \/ Astray(rows'[mine[k]]))
    /\ Ends(k)

(* Mutant of SweepSol: the sweep is outside the try block.                 *)
SweepSolUncaught(k) ==
    LET row == rows[mine[k]] IN
    /\ pc[k] = "sweep"
    /\ \/ /\ sol >= row.lamports
          /\ rows' = [rows EXCEPT ![mine[k]].status = "SWEEPING", ![mine[k]].sweep = "sent"]
          /\ Go(k, "confirm")
          /\ UNCHANGED <<mine, late, faults>>
       \/ Ends(k) /\ UNCHANGED <<rows, late, faults>>
    /\ UNCHANGED <<sol, arrived, amount, overlapped, usdc, withdrawVars, claimVars>>

(* sweep_sol: the preflight simulates the transfer; SWEEPING is written    *)
(* once the transaction is out, and it may be out as well when any of this *)
(* throws.                                                                 *)
SweepSol(k) ==
    LET row == rows[mine[k]] IN
    /\ pc[k] = "sweep"
    /\ \/ /\ sol >= row.lamports
          /\ rows' = [rows EXCEPT ![mine[k]].status = "SWEEPING", ![mine[k]].sweep = "sent"]
          /\ Go(k, "confirm")
          /\ UNCHANGED <<mine, late, faults>>
       \/ sol >= row.lamports /\ Threw(k, [row EXCEPT !.sweep = "sent"])
       \/ Threw(k, row)
    /\ UNCHANGED <<sol, arrived, amount, overlapped, usdc, withdrawVars, claimVars>>

(* The sweep is processed, successfully if the wallet still holds as much, *)
(* or never.                                                               *)
SweepProcessed(i) ==
    /\ rows[i].sweep = "sent"
    /\ \/ /\ sol >= rows[i].lamports
          /\ sol' = sol - rows[i].lamports
          /\ rows' = [rows EXCEPT ![i].sweep = "landed"]
       \/ /\ sol < rows[i].lamports
          /\ rows' = [rows EXCEPT ![i].sweep = "failed"]
          /\ UNCHANGED sol
       \/ /\ rows' = [rows EXCEPT ![i].sweep = "expired"]
          /\ UNCHANGED sol
    /\ UNCHANGED <<arrived, pc, amount, mine, overlapped, late, usdc, withdrawVars, claimVars,
                   faults>>

(* Mutant of ConfirmSweep: what it throws does not end the processing.     *)
ConfirmSweepGoesOn(k) ==
    /\ pc[k] = "confirm"
    /\ rows' = [rows EXCEPT ![mine[k]].status =
           IF rows[mine[k]].sweep \in {"landed", "failed"} THEN "SWEPT" ELSE "FAILED"]
    /\ Go(k, "mint")
    /\ UNCHANGED <<sol, arrived, amount, mine, overlapped, late, usdc, withdrawVars, claimVars,
                   faults>>

(* confirmTransaction throws, or returns once the transaction has been     *)
(* processed; that it failed on chain is in the value, which is ignored.   *)
ConfirmSweep(k) ==
    /\ pc[k] = "confirm"
    /\ \/ /\ rows[mine[k]].sweep \in {"landed", "failed"}
          /\ rows' = [rows EXCEPT ![mine[k]].status = "SWEPT"]
          /\ Go(k, "mint")
          /\ UNCHANGED <<mine, late, faults>>
       \/ Threw(k, rows[mine[k]])
    /\ UNCHANGED <<sol, arrived, amount, overlapped, usdc, withdrawVars, claimVars>>

(* mint_usdc and its record: either may throw, the mint having landed or   *)
(* not.  A mint that fails on chain counts as done: the value of its       *)
(* confirmation is ignored too, and somebody else may have created the     *)
(* account that it creates.                                                *)
MintUsdc(k) ==
    LET row == rows[mine[k]] IN
    /\ pc[k] = "mint"
    /\ \/ /\ rows' = [rows EXCEPT ![mine[k]].status = "COMPLETED", ![mine[k]].minted = TRUE]
          /\ usdc' = usdc + row.usdc
          /\ Ends(k)
          /\ UNCHANGED <<late, faults>>
       \/ /\ rows' = [rows EXCEPT ![mine[k]].status = "COMPLETED"]
          /\ Ends(k)
          /\ UNCHANGED <<usdc, late, faults>>
       \/ Threw(k, [row EXCEPT !.minted = TRUE]) /\ usdc' = usdc + row.usdc
       \/ Threw(k, row) /\ UNCHANGED usdc
    /\ UNCHANGED <<sol, arrived, amount, overlapped, withdrawVars, claimVars>>

(* Five minutes pass since the row was created, however far its processing *)
(* is: the cool-off goes by createdAt alone.                               *)
CoolOffEnds(i) ==
    /\ rows[i].recent
    /\ rows' = [rows EXCEPT ![i].recent = FALSE]
    /\ late' = (late \/ Astray(rows'[i]))
    /\ UNCHANGED <<sol, arrived, pc, amount, mine, overlapped, usdc, withdrawVars, claimVars,
                   faults>>

-----------------------------------------------------------------------------
(* SolanaWithdrawService                                                   *)
(* Mutant of ConfirmWithdraw: a transfer that failed on chain counts.      *)
ConfirmWithdrawAny(w) ==
    /\ wpc[w] = "confirm"
    /\ \/ wtx[w] \in {"landed", "failed"} /\ wpc' = [wpc EXCEPT ![w] = "done"]
       \/ wpc' = [wpc EXCEPT ![w] = "RPC_FAILED"]
    /\ UNCHANGED <<depositVars, usdc, wtx, claimVars, faults>>

(* The balance is read, or that fails; an absent account holds nothing.    *)
ReadUsdc(w) ==
    /\ wpc[w] = "idle"
    /\ Calls < MaxCalls
    /\ \/ wpc' = [wpc EXCEPT ![w] = IF usdc >= 1 THEN "send" ELSE "INSUFFICIENT_BALANCE"]
       \/ wpc' = [wpc EXCEPT ![w] = "RPC_FAILED"]
    /\ UNCHANGED <<depositVars, usdc, wtx, claimVars, faults>>

(* The preflight simulates the transfer; when sending throws, it may be    *)
(* out all the same.                                                       *)
SendTransfer(w) ==
    /\ wpc[w] = "send"
    /\ \/ /\ usdc >= 1
          /\ wtx' = [wtx EXCEPT ![w] = "sent"]
          /\ wpc' \in {[wpc EXCEPT ![w] = "confirm"], [wpc EXCEPT ![w] = "RPC_FAILED"]}
       \/ /\ wpc' = [wpc EXCEPT ![w] = "RPC_FAILED"]
          /\ UNCHANGED wtx
    /\ UNCHANGED <<depositVars, usdc, claimVars, faults>>

(* The transfer lands if the account still holds as much.                  *)
TransferProcessed(w) ==
    /\ wtx[w] = "sent"
    /\ \/ usdc >= 1 /\ usdc' = usdc - 1 /\ wtx' = [wtx EXCEPT ![w] = "landed"]
       \/ usdc < 1  /\ UNCHANGED usdc   /\ wtx' = [wtx EXCEPT ![w] = "failed"]
       \/ UNCHANGED usdc /\ wtx' = [wtx EXCEPT ![w] = "expired"]
    /\ UNCHANGED <<depositVars, wpc, claimVars, faults>>

(* Here the value of the confirmation is looked at; a confirmation that    *)
(* does not come is RPC_FAILED too, although the transfer may have landed. *)
ConfirmWithdraw(w) ==
    /\ wpc[w] = "confirm"
    /\ \/ wtx[w] = "landed" /\ wpc' = [wpc EXCEPT ![w] = "done"]
       \/ wpc' = [wpc EXCEPT ![w] = "RPC_FAILED"]
    /\ UNCHANGED <<depositVars, usdc, wtx, claimVars, faults>>

-----------------------------------------------------------------------------
(* SolanaClaimService                                                      *)
(* The market is traded until the chain has resolved it, and the Market    *)
(* row may have a winner before that: claims begin at any time.  Nobody    *)
(* but a claim looks at the position, so it may keep its first value until *)
(* there is one.                                                           *)
Watched == \E c \in Claims : cpc[c] \in {"read", "send"}

TradeShares ==
    /\ ~resolved /\ Watched
    /\ shares' \in 0 .. MaxShares
    /\ traded' = (traded \/ \E c \in Claims : cpc[c] = "send")
    /\ UNCHANGED <<depositVars, usdc, withdrawVars, resolved, cpc, ctx, read, claimRow, paid,
                   short, faults>>

ResolveOnChain ==
    /\ ~resolved /\ Watched
    /\ resolved' = TRUE
    /\ UNCHANGED <<depositVars, usdc, withdrawVars, shares, cpc, ctx, read, claimRow, paid,
                   traded, short, faults>>

AssertNotClaimed(c) ==
    /\ cpc[c] = "idle"
    /\ Calls < MaxCalls
    /\ cpc' = [cpc EXCEPT ![c] = IF claimRow # 0 THEN "ALREADY_CLAIMED" ELSE "read"]
    /\ UNCHANGED <<depositVars, usdc, withdrawVars, resolved, shares, ctx, read, claimRow, paid,
                   traded, short, faults>>

(* read_winning_shares answers 0 when the RPC fails, and 0 ends the claim. *)
ReadWinningShares(c) ==
    /\ cpc[c] = "read"
    /\ read' \in {read, [read EXCEPT ![c] = shares]}
    /\ cpc' = [cpc EXCEPT ![c] = IF read'[c] <= 0 THEN "NO_WINNING_SHARES" ELSE "send"]
    /\ UNCHANGED <<depositVars, usdc, withdrawVars, resolved, shares, ctx, claimRow, paid,
                   traded, short, faults>>

(* Mutant of SendClaim: the row is written before the chain has confirmed. *)
SendClaimUnconfirmed(c) ==
    /\ cpc[c] = "send"
    /\ \/ /\ resolved /\ shares > 0
          /\ ctx' = [ctx EXCEPT ![c] = "sent"]
          /\ cpc' = [cpc EXCEPT ![c] = "persist"]
       \/ /\ cpc' = [cpc EXCEPT ![c] = "CLAIM_FAILED"]
          /\ UNCHANGED ctx
    /\ UNCHANGED <<depositVars, usdc, withdrawVars, resolved, shares, read, claimRow, paid,
                   traded, short, faults>>

(* The program's simulation rejects a claim of a market that it has not    *)
(* resolved, or without winning shares.                                    *)
SendClaim(c) ==
    /\ cpc[c] = "send"
    /\ \/ /\ resolved /\ shares > 0
          /\ ctx' = [ctx EXCEPT ![c] = "sent"]
          /\ cpc' \in {[cpc EXCEPT ![c] = "confirm"], [cpc EXCEPT ![c] = "CLAIM_FAILED"]}
       \/ /\ cpc' = [cpc EXCEPT ![c] = "CLAIM_FAILED"]
          /\ UNCHANGED ctx
    /\ UNCHANGED <<depositVars, usdc, withdrawVars, resolved, shares, read, claimRow, paid,
                   traded, short, faults>>

(* The program pays the winning shares out and zeroes them.  It rejects    *)
(* the claim when there are none, or when the vault, which all markets and *)
(* users share, holds less by now than it did in the simulation.           *)
ClaimProcessed(c) ==
    /\ ctx[c] = "sent"
    /\ \/ /\ shares > 0
          /\ ctx' = [ctx EXCEPT ![c] = "landed"]
          /\ usdc' = usdc + shares
          /\ paid' = paid + shares
          /\ shares' = 0
          /\ UNCHANGED short
       \/ /\ ctx' = [ctx EXCEPT ![c] = "failed"]
          /\ short' = (short \/ shares > 0)
          /\ UNCHANGED <<usdc, paid, shares>>
       \/ /\ ctx' = [ctx EXCEPT ![c] = "expired"]
          /\ UNCHANGED <<usdc, paid, shares, short>>
    /\ UNCHANGED <<depositVars, withdrawVars, resolved, cpc, read, claimRow, traded, faults>>

(* client.claim returns for a transaction that failed on chain as well.    *)
ConfirmClaim(c) ==
    /\ cpc[c] = "confirm"
    /\ \/ ctx[c] \in {"landed", "failed"} /\ cpc' = [cpc EXCEPT ![c] = "persist"]
       \/ cpc' = [cpc EXCEPT ![c] = "CLAIM_FAILED"]
    /\ UNCHANGED <<depositVars, usdc, withdrawVars, resolved, shares, ctx, read, claimRow, paid,
                   traded, short, faults>>

(* persist_claim: the row is unique, and every error is swallowed.         *)
PersistClaim(c) ==
    /\ cpc[c] = "persist"
    /\ claimRow' \in {claimRow, IF claimRow = 0 THEN read[c] ELSE claimRow}
    /\ cpc' = [cpc EXCEPT ![c] = "done"]
    /\ UNCHANGED <<depositVars, usdc, withdrawVars, resolved, shares, ctx, read, paid, traded,
                   short, faults>>

-----------------------------------------------------------------------------
(* The server stops: checks, withdrawals and claims are gone; their rows   *)
(* and transactions stay as they are, and nothing picks them up again.     *)
Crash ==
    /\ faults < MaxFaults
    /\ faults' = faults + 1
    /\ pc' = [k \in Checkers |-> "idle"]
    /\ amount' = [k \in Checkers |-> 0]
    /\ mine' = [k \in Checkers |-> 0]
    /\ wpc' = [w \in Withdrawals |-> IF wpc[w] \in {"send", "confirm"} THEN "lost" ELSE wpc[w]]
    /\ cpc' = [c \in Claims |->
                  IF cpc[c] \in {"read", "send", "confirm", "persist"} THEN "lost" ELSE cpc[c]]
    /\ UNCHANGED <<sol, arrived, rows, overlapped, late, usdc, wtx, resolved, shares, ctx, read,
                   claimRow, paid, traded, short>>

Check(k) ==
    \/ ReadBalance(k) \/ FindRecentFailure(k) \/ FindInFlight(k) \/ CreateRow(k)
    \/ SweepSol(k) \/ ConfirmSweep(k) \/ MintUsdc(k)

Withdraw(w) == ReadUsdc(w) \/ SendTransfer(w) \/ ConfirmWithdraw(w)

Claim(c) ==
    \/ AssertNotClaimed(c) \/ ReadWinningShares(c) \/ SendClaim(c)
    \/ ConfirmClaim(c) \/ PersistClaim(c)

Next ==
    \/ Arrive
    \/ \E k \in Checkers : Check(k)
    \/ \E i \in DOMAIN rows : SweepProcessed(i) \/ CoolOffEnds(i)
    \/ \E w \in Withdrawals : Withdraw(w) \/ TransferProcessed(w)
    \/ TradeShares \/ ResolveOnChain
    \/ \E c \in Claims : Claim(c) \/ ClaimProcessed(c)
    \/ Crash

Spec == Init /\ [][Next]_vars

-----------------------------------------------------------------------------
(* Every variable stays in its type; the user's USDC is never negative,    *)
(* and a checker works on a row that is being processed.                   *)
TypeOK ==
    /\ sol \in Nat
    /\ arrived \in Nat
    /\ rows \in Seq(Row)
    /\ pc \in [Checkers -> {"idle", "failures", "inflight", "create", "sweep", "confirm", "mint"}]
    /\ amount \in [Checkers -> Nat]
    /\ mine \in [Checkers -> Nat]
    /\ \A k \in Checkers : pc[k] \in {"sweep", "confirm", "mint"} =>
          mine[k] \in DOMAIN rows /\ rows[mine[k]].status \in InFlight
    /\ usdc \in Nat
    /\ wpc \in [Withdrawals -> {"idle", "send", "confirm", "done", "lost",
                               "INSUFFICIENT_BALANCE", "RPC_FAILED"}]
    /\ wtx \in [Withdrawals -> Fates]
    /\ resolved \in BOOLEAN
    /\ shares \in Nat
    /\ cpc \in [Claims -> {"idle", "read", "send", "confirm", "persist", "done", "lost",
                          "ALREADY_CLAIMED", "NO_WINNING_SHARES", "CLAIM_FAILED"}]
    /\ ctx \in [Claims -> Fates]
    /\ read \in [Claims -> Nat]
    /\ claimRow \in Nat
    /\ faults \in Nat
    /\ paid \in Nat
    /\ {traded, short, overlapped, late} \subseteq BOOLEAN

(* USDC is minted for a row only if the row's own sweep landed, through    *)
(* failed rows whose sweep lands later, faults, and SOL that arrives       *)
(* meanwhile: as long as no two checks of the wallet overlap, and no sweep *)
(* is sent so late that it outlives the cool-off of its row.               *)
MintFollowsSweep ==
    ~overlapped /\ ~late => \A i \in DOMAIN rows : rows[i].minted => rows[i].sweep = "landed"

(* Whoever is told that a withdrawal is done got the money from it, who is *)
(* told that the balance is too small did not; whoever is told that a      *)
(* claim is done got all the winnings, from that call or from another,     *)
(* unless a claim failed on chain for want of money in the vault.          *)
AnswersTruthful ==
    /\ \A w \in Withdrawals :
        /\ wpc[w] = "done" => wtx[w] = "landed"
        /\ wpc[w] = "INSUFFICIENT_BALANCE" => wtx[w] = "none"
    /\ ~short => \A c \in Claims : cpc[c] = "done" => paid > 0 /\ shares = 0

(* The Claim row says what was paid and that nothing is left to claim,     *)
(* whichever of several claims wrote it.  service.solana-claim.ts:141-146  *)
(* calls it "authoritative evidence" without the two premises: after a     *)
(* claim that failed on a short vault, or a trade that landed between the  *)
(* read and the resolution, the row is wrong.                              *)
ClaimRowMatchesPayout ==
    claimRow # 0 /\ ~short /\ ~traded => claimRow = paid /\ shares = 0

(* As long as the server does not stop and its writes to the rows do not   *)
(* throw, a row that blocks the wallet is one that a check is still        *)
(* processing: no other error leaves it behind.                            *)
WalletNotBlocked ==
    faults = 0 =>
        \A i \in DOMAIN rows : rows[i].status \in InFlight => \E k \in Checkers : mine[k] = i
=============================================================================
