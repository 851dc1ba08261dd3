--------------------------- MODULE QuoteLifecycle ---------------------------
(***************************************************************************)
(* A quote from signature to rent reclaim: the server signs it and stores  *)
(* a Quote row, the chain fills it (SolMarketProgram), the server marks    *)
(* the row consumed, and the nonce sweeper closes the UsedNonce PDA once   *)
(* the row's expiry lies ExpiryBuffer in the past.  The chain itself never *)
(* compares a nonce it closes with the quote's expiry, so that a quote is  *)
(* filled at most once is a property of this composition only.             *)
(*                                                                         *)
(* The server reads its own wall clock; the chain's clock may run ahead or *)
(* behind it by at most MaxClockSkew.                                      *)
(***************************************************************************)
EXTENDS SolMarketProgram, FiniteSets, Functions

CONSTANTS
    RequestNonces,  \* nonces derived from a client's requestId (derive_nonce);
                    \* the other nonces are random bytes
    QuoteExpiry,    \* SERVER_QUOTE_EXPIRY_SECONDS
    ExpiryBuffer,   \* EXPIRY_BUFFER_MS
    BatchSize,      \* BATCH_SIZE of one sweep
    MaxClockSkew,   \* |wall clock - chain clock|
    MaxSigned,      \* bound on the number of signed quotes
    LastSignTime,   \* bound: no quote is signed later than this
    MaxTime         \* bound on both clocks

ASSUME LifecycleAssumption ==
    /\ IsFiniteSet(Users)
    /\ IsFiniteSet(Markets)
    /\ RequestNonces \subseteq Nonces
    /\ QuoteExpiry \in Nat \ {0}
    /\ ExpiryBuffer \in Nat
    /\ BatchSize \in Nat
    /\ MaxClockSkew \in Nat
    /\ MaxClockSkew <= ExpiryBuffer
    /\ MaxSigned \in Nat
    /\ LastSignTime \in Nat
    /\ MaxTime \in Nat

VARIABLES
    wall,       \* Date.now() of the server
    quoteRow,   \* the Quote table, keyed by nonce
    sweeping    \* {n}: the PDA of n is closed and its row not yet updated

serverVars == <<wall, quoteRow, sweeping>>
vars == <<programVars, serverVars>>

QuoteRow == [exists: BOOLEAN, expiresAt: Nat, consumed: BOOLEAN, nonceClosed: BOOLEAN]

NoRow == [exists |-> FALSE, expiresAt |-> 0, consumed |-> FALSE, nonceClosed |-> FALSE]

Init ==
    /\ ProgramInit
    /\ wall = 0
    /\ quoteRow = [n \in Nonces |-> NoRow]
    /\ sweeping = {}

-----------------------------------------------------------------------------
(* The two clocks advance on their own, never further apart than the skew. *)
WallTick ==
    /\ wall < MaxTime
    /\ wall < clock + MaxClockSkew
    /\ wall' = wall + 1
    /\ UNCHANGED <<programVars, quoteRow, sweeping>>

ChainTick ==
    /\ clock < MaxTime
    /\ clock < wall + MaxClockSkew
    /\ clock' = clock + 1
    /\ UNCHANGED <<market, position, usedNonce, usdc, vault, signed, fills, claimed>>
    /\ UNCHANGED serverVars

(* sign_quote_internally + persist_quote.  A random nonce is never drawn   *)
(* twice; a request id that the client sends again yields the same nonce   *)
(* and a fresh expiry, and the row keeps the first attempt's (P2002).      *)
SignQuote(n, m, side, outcome, price, size) ==
    /\ wall <= LastSignTime
    /\ Cardinality(signed) < MaxSigned
    /\ market[m].status # "None"
    /\ quoteRow[n].exists => n \in RequestNonces
    /\ signed' = signed \cup
           {[nonce |-> n, market |-> m, side |-> side, outcome |-> outcome,
             price |-> price, size |-> size, expires_at |-> wall + QuoteExpiry]}
    /\ quoteRow' = IF quoteRow[n].exists THEN quoteRow
                   ELSE [quoteRow EXCEPT ![n] =
                            [NoRow EXCEPT !.exists = TRUE, !.expiresAt = wall + QuoteExpiry]]
    /\ UNCHANGED <<clock, market, position, usedNonce, usdc, vault, fills, claimed>>
    /\ UNCHANGED <<wall, sweeping>>

(* After place_order has returned, which it does for a filled quote and    *)
(* for one whose transaction passed its preflight and failed on chain      *)
(* (client.ts:447 ignores the error).  The update may fail or the server   *)
(* may stop first: the row then stays unconsumed and is never swept.       *)
MarkQuoteConsumed(n) ==
    /\ quoteRow[n].exists
    /\ ~quoteRow[n].consumed
    /\ quoteRow' = [quoteRow EXCEPT ![n].consumed = TRUE]
    /\ UNCHANGED <<programVars, wall, sweeping>>

-----------------------------------------------------------------------------
(* NonceSweeperService.sweep_once, one row of the batch at a time.         *)
(* Mutant of Due: rows are swept as soon as they are consumed.             *)
DueAtOnce == {n \in Nonces : quoteRow[n].consumed /\ ~quoteRow[n].nonceClosed}

Due == {n \in Nonces : /\ quoteRow[n].consumed
                       /\ ~quoteRow[n].nonceClosed
                       /\ quoteRow[n].expiresAt < wall - ExpiryBuffer}

(* Mutant of Batch: one row fewer than take: BATCH_SIZE.                   *)
BatchOneShort == {n \in Due :
    Cardinality({k \in Due : quoteRow[k].expiresAt < quoteRow[n].expiresAt}) + 1 < BatchSize}

Batch == {n \in Due :
    Cardinality({k \in Due : quoteRow[k].expiresAt < quoteRow[n].expiresAt}) < BatchSize}

(* The close_used_nonce transaction lands.                                 *)
SweepClose(n) ==
    /\ sweeping = {}
    /\ n \in Batch
    /\ CloseUsedNonce(n)
    /\ sweeping' = {n}
    /\ UNCHANGED <<wall, quoteRow>>

SweepRecord(n) ==
    /\ n \in sweeping
    /\ quoteRow' = [quoteRow EXCEPT ![n].nonceClosed = TRUE]
    /\ sweeping' = {}
    /\ UNCHANGED <<programVars, wall>>

(* The process stops, or the update throws, between the two.  A later      *)
(* sweep of that row sends close_used_nonce for an account that is gone:   *)
(* the program answers IncorrectProgramId, whose text matches neither      *)
(* string the sweeper looks for, so the row is left alone again.           *)
SweepInterrupted ==
    /\ sweeping # {}
    /\ sweeping' = {}
    /\ UNCHANGED <<programVars, wall, quoteRow>>

Sweep == \E n \in Nonces : SweepClose(n) \/ SweepRecord(n)

Next ==
    \/ WallTick
    \/ ChainTick
    \/ \E n \in Nonces, m \in Markets, side \in Sides, outcome \in Outcomes,
          price \in Prices, size \in Sizes : SignQuote(n, m, side, outcome, price, size)
    \/ Instruction /\ UNCHANGED serverVars
    \/ \E n \in Nonces : MarkQuoteConsumed(n)
    \/ Sweep
    \/ SweepInterrupted

Spec == Init /\ [][Next]_vars

(* Time passes and the hourly sweep keeps running.  Users, the signer and  *)
(* the oracle owe nothing.                                                 *)
Fairness == WF_vars(WallTick) /\ WF_vars(ChainTick)
            /\ \A n \in Nonces : WF_vars(SweepClose(n)) /\ WF_vars(SweepRecord(n))

FairSpec == Spec /\ Fairness

-----------------------------------------------------------------------------
(* Every variable stays in its type.                                       *)
TypeOK ==
    /\ ProgramTypeOK
    /\ wall \in Nat
    /\ quoteRow \in [Nonces -> QuoteRow]
    /\ sweeping \subseteq Nonces

(* A quote with a random nonce is filled at most once, although the chain  *)
(* forgets its nonce when the sweeper closes the PDA: by then the quote's  *)
(* own expiry rejects it (place_order's two independent checks).           *)
FillOnce ==
    \A i, j \in DOMAIN fills :
        /\ fills[i].quote = fills[j].quote
        /\ fills[i].quote.nonce \notin RequestNonces
        => i = j

(* Market.total_yes/no against the position accounts: while the market is  *)
(* open a total is the sum of the positions; afterwards nothing updates    *)
(* it, and the winning side is what is still held plus what was claimed.   *)
TotalsMatchPositions ==
    \A m \in Markets, o \in Outcomes :
        LET held     == SumFunction([u \in Users |-> position[u][m].shares[o]])
            paidOut  == SumFunction([u \in Users |-> claimed[u][m]])
        IN  /\ market[m].status # "Resolved" => market[m].total[o] = held
            /\ market[m].winning = o => market[m].total[o] = held + paidOut

(* The vault holds its float plus what the OrderFilled events brought in,  *)
(* less what they and the Claimed events paid out: the event log that the  *)
(* hedger and the portfolio read accounts for every transfer.              *)
VaultMatchesEvents ==
    LET moved(side) == SumFunctionOnSet([i \in DOMAIN fills |-> UsdcAmount(fills[i].quote)],
                           {i \in DOMAIN fills : fills[i].quote.side = side})
        paidOut     == SumFunction([um \in Users \X Markets |-> claimed[um[1]][um[2]]])
    IN  vault = InitialVault + moved("BUY") - moved("SELL")
                - paidOut * USDC_DECIMALS_MULTIPLIER

(* Once a market is resolved its winner never changes, and a user's        *)
(* winning shares only turn into claimed shares: no later instruction      *)
(* (claim, close_position, a late place_order) creates or loses one.       *)
ClaimsConserveWinnings ==
    [][\A m \in Markets : market[m].status = "Resolved" =>
          /\ market'[m].status = "Resolved" /\ market'[m].winning = market[m].winning
          /\ \A u \in Users :
                LET w == market[m].winning
                IN  position'[u][m].shares[w] + claimed'[u][m]
                      = position[u][m].shares[w] + claimed[u][m]]_vars

(* Every row marked consumed eventually gives its nonce's rent back, even  *)
(* if sweeps are interrupted, as long as fewer than BatchSize rows are     *)
(* stuck: the batch takes the oldest rows first, and a stuck row keeps its *)
(* place in it (with BatchOneShort one stuck row starves the next).        *)
RentReclaimed ==
    \A n \in Nonces : quoteRow[n].consumed ~> (n \notin usedNonce \/ quoteRow[n].nonceClosed)

(* service.nonce-sweeper.ts:95: an account "already closed externally" is *)
(* "marked done" and no longer retried.                                    *)
ClosedRowsSettle ==
    \A n \in Nonces :
        (/\ n \in Due /\ n \notin usedNonce
         /\ \E i \in DOMAIN fills : fills[i].quote.nonce = n) ~> quoteRow[n].nonceClosed

(* The chain, seen through its event log, keeps the promise of             *)
(* MarketLedger.                                                           *)
Ledger == INSTANCE MarketLedger WITH
    quotes <- signed,
    winner <- [m \in Markets |-> market[m].winning],
    paid   <- claimed,
    Replayable <- LAMBDA q : q.nonce \in RequestNonces

LedgerSpec == Ledger!Spec
=============================================================================
