-------------------------- MODULE SolMarketProgram --------------------------
(***************************************************************************)
(* The on-chain program of SolMarket (apps/solana/programs/contract): the  *)
(* accounts it owns and one action per instruction.                        *)
(*                                                                         *)
(* A transaction is atomic, so each instruction is one action; its guard   *)
(* is the conjunction of the checks that would make the handler return an  *)
(* error, and a transaction that fails leaves no trace.  Account, PDA,     *)
(* owner and signer checks are abstracted to "the caller passes the right  *)
(* accounts", and the ed25519 check to q \in signed, the set of quotes the *)
(* platform's signer has produced.                                         *)
(***************************************************************************)
EXTENDS Integers, Sequences

CONSTANTS
    Users,      \* wallets that trade
    Markets,    \* market ids (one Market PDA each)
    Nonces,     \* 16-byte quote nonces (one UsedNonce PDA each)
    Prices,     \* prices, in cents, that a quote may carry
    Sizes,      \* sizes, in shares, that a quote may carry
    EndTimes,   \* end_time values the admin may give a market
    InitialUsdc, \* what each user's USDC account holds at the start
    InitialVault, \* the float the platform deposited in the vault
    U64_MAX,    \* largest value of the program's unsigned 64-bit integers
    MaxFills    \* bound on the number of OrderFilled events of a behaviour

ASSUME ProgramAssumption ==
    /\ Prices \subseteq Nat
    /\ Sizes \subseteq Nat
    /\ EndTimes \subseteq Nat
    /\ InitialUsdc \in [Users -> Nat]
    /\ InitialVault \in Nat
    /\ U64_MAX \in Nat
    /\ MaxFills \in Nat

VARIABLES
    clock,      \* Clock sysvar: unix_timestamp of the current slot
    market,     \* Market accounts
    position,   \* UserPosition accounts
    usedNonce,  \* nonces whose UsedNonce PDA exists
    usdc,       \* the users' USDC token accounts
    vault,      \* the treasury vault's USDC token account
    signed,     \* quotes signed by Config.quote_signer
    fills,      \* OrderFilled events, in the order the chain emitted them
    claimed     \* winning shares paid out by Claimed events, per user and market

programVars == <<clock, market, position, usedNonce, usdc, vault, signed, fills, claimed>>

Outcomes == {"YES", "NO"}
Sides    == {"BUY", "SELL"}

USDC_PER_CENT            == 10000
USDC_DECIMALS_MULTIPLIER == 1000000

(* "None" stands for a Market PDA that create_market has not allocated.    *)
(* MarketStatus::Cancelled exists in the code, but nothing assigns it.     *)
MarketRecord ==
    [status: {"None", "Open", "Resolved"}, winning: Outcomes \cup {"None"},
     paused: BOOLEAN, end_time: Nat, total: [Outcomes -> Nat]]

PositionRecord == [open: BOOLEAN, shares: [Outcomes -> Nat]]

SignedQuote ==
    [nonce: Nonces, market: Markets, side: Sides, outcome: Outcomes,
     price: Nat, size: Nat, expires_at: Nat]

OrderFilled == [user: Users, quote: SignedQuote]

NoShares       == [o \in Outcomes |-> 0]
EmptyMarket    == [status |-> "None", winning |-> "None", paused |-> FALSE,
                   end_time |-> 0, total |-> NoShares]
ClosedPosition == [open |-> FALSE, shares |-> NoShares]

-----------------------------------------------------------------------------
(* initialize_config has run: the vault exists and holds the platform's    *)
(* float, users hold their deposits.                                       *)
ProgramInit ==
    /\ clock = 0
    /\ market = [m \in Markets |-> EmptyMarket]
    /\ position = [u \in Users |-> [m \in Markets |-> ClosedPosition]]
    /\ usedNonce = {}
    /\ usdc = InitialUsdc
    /\ vault = InitialVault
    /\ signed = {}
    /\ fills = <<>>
    /\ claimed = [u \in Users |-> [m \in Markets |-> 0]]

CreateMarket(m, end) ==
    /\ market[m].status = "None"
    /\ end > clock
    /\ market' = [market EXCEPT ![m] = [EmptyMarket EXCEPT !.status = "Open", !.end_time = end]]
    /\ UNCHANGED <<clock, position, usedNonce, usdc, vault, signed, fills, claimed>>

(* Side-specific cost in micro-USDC; both multiplications are checked.     *)
UsdcAmount(q) == q.price * USDC_PER_CENT * q.size

QuoteIsLive(q) ==
    /\ clock < q.expires_at
    /\ market[q.market].status = "Open"
    /\ ~market[q.market].paused
    /\ clock < market[q.market].end_time
    /\ q.price > 0 /\ q.price < 100
    /\ q.size > 0

(* Mutant of Buy: the transfer is left out of the vault's balance.         *)
BuyUnbanked(u, q) ==
    LET held == position[u][q.market].shares[q.outcome]
    IN  /\ q.side = "BUY"
        /\ usdc[u] >= UsdcAmount(q)
        /\ usdc' = [usdc EXCEPT ![u] = @ - UsdcAmount(q)]
        /\ position' = [position EXCEPT ![u][q.market] =
               [open |-> TRUE, shares |-> [@.shares EXCEPT ![q.outcome] = held + q.size]]]
        /\ market' = [market EXCEPT ![q.market].total[q.outcome] = @ + q.size]
        /\ UNCHANGED vault

(* BUY: user -> vault, then checked additions to position and totals.      *)
Buy(u, q) ==
    LET held == position[u][q.market].shares[q.outcome]
        sold == market[q.market].total[q.outcome]
    IN  /\ q.side = "BUY"
        /\ usdc[u] >= UsdcAmount(q)
        /\ held + q.size <= U64_MAX
        /\ sold + q.size <= U64_MAX
        /\ usdc' = [usdc EXCEPT ![u] = @ - UsdcAmount(q)]
        /\ vault' = vault + UsdcAmount(q)
        /\ position' = [position EXCEPT ![u][q.market] =
               [open |-> TRUE, shares |-> [@.shares EXCEPT ![q.outcome] = held + q.size]]]
        /\ market' = [market EXCEPT ![q.market].total[q.outcome] = sold + q.size]

(* Mutant of Sell: only the market's total is checked, not the position.   *)
SellUnchecked(u, q) ==
    /\ q.side = "SELL"
    /\ market[q.market].total[q.outcome] >= q.size
    /\ vault >= UsdcAmount(q)
    /\ position' = [position EXCEPT ![u][q.market].shares[q.outcome] = @ - q.size]
    /\ market' = [market EXCEPT ![q.market].total[q.outcome] = @ - q.size]
    /\ vault' = vault - UsdcAmount(q)
    /\ usdc' = [usdc EXCEPT ![u] = @ + UsdcAmount(q)]

(* SELL: checked subtractions first, then vault -> user.                   *)
Sell(u, q) ==
    LET held == position[u][q.market].shares[q.outcome]
        sold == market[q.market].total[q.outcome]
    IN  /\ q.side = "SELL"
        /\ held >= q.size
        /\ sold >= q.size
        /\ vault >= UsdcAmount(q)
        /\ position' = [position EXCEPT ![u][q.market] =
               [open |-> TRUE, shares |-> [@.shares EXCEPT ![q.outcome] = held - q.size]]]
        /\ market' = [market EXCEPT ![q.market].total[q.outcome] = sold - q.size]
        /\ vault' = vault - UsdcAmount(q)
        /\ usdc' = [usdc EXCEPT ![u] = @ + UsdcAmount(q)]

PlaceOrder(u, q) ==
    /\ Len(fills) < MaxFills
    /\ q \in signed
    /\ QuoteIsLive(q)
    /\ q.nonce \notin usedNonce
    /\ usedNonce' = usedNonce \cup {q.nonce}
    /\ UsdcAmount(q) <= U64_MAX
    /\ Buy(u, q) \/ Sell(u, q)
    /\ fills' = Append(fills, [user |-> u, quote |-> q])
    /\ UNCHANGED <<clock, signed, claimed>>

(* The oracle resolves an open market; neither end_time nor paused is read. *)
ResolveMarket(m, o) ==
    /\ market[m].status = "Open"
    /\ market' = [market EXCEPT ![m].status = "Resolved", ![m].winning = o]
    /\ UNCHANGED <<clock, position, usedNonce, usdc, vault, signed, fills, claimed>>

(* Mutant of Claim: the winning side is paid and not drained.              *)
ClaimKeepingShares(u, m) ==
    LET shares == position[u][m].shares[market[m].winning]
        payout == shares * USDC_DECIMALS_MULTIPLIER
    IN  /\ market[m].status = "Resolved"
        /\ shares > 0
        /\ vault >= payout
        /\ vault' = vault - payout
        /\ usdc' = [usdc EXCEPT ![u] = @ + payout]
        /\ claimed' = [claimed EXCEPT ![u][m] = @ + shares]
        /\ UNCHANGED <<clock, market, position, usedNonce, signed, fills>>

Claim(u, m) ==
    LET w      == market[m].winning
        shares == position[u][m].shares[w]
        payout == shares * USDC_DECIMALS_MULTIPLIER
    IN  /\ market[m].status = "Resolved"
        /\ position[u][m].open
        /\ shares > 0
        /\ payout <= U64_MAX
        /\ vault >= payout
        /\ position' = [position EXCEPT ![u][m].shares[w] = 0]
        /\ vault' = vault - payout
        /\ usdc' = [usdc EXCEPT ![u] = @ + payout]
        /\ claimed' = [claimed EXCEPT ![u][m] = @ + shares]
        /\ UNCHANGED <<clock, market, usedNonce, signed, fills>>

(* Mutant of ClosePosition: unclaimed winning shares are discarded too.    *)
CloseForfeiting(u, m) ==
    /\ market[m].status = "Resolved"
    /\ position[u][m].open
    /\ position' = [position EXCEPT ![u][m] = ClosedPosition]
    /\ UNCHANGED <<clock, market, usedNonce, usdc, vault, signed, fills, claimed>>

(* Rent reclaim: the losing side is discarded, the winning side must be 0. *)
ClosePosition(u, m) ==
    /\ market[m].status = "Resolved"
    /\ position[u][m].open
    /\ position[u][m].shares[market[m].winning] = 0
    /\ position' = [position EXCEPT ![u][m] = ClosedPosition]
    /\ UNCHANGED <<clock, market, usedNonce, usdc, vault, signed, fills, claimed>>

(* Admin-only, and the chain checks nothing about the quote's expiry.      *)
CloseUsedNonce(n) ==
    /\ n \in usedNonce
    /\ usedNonce' = usedNonce \ {n}
    /\ UNCHANGED <<clock, market, position, usdc, vault, signed, fills, claimed>>

SetPaused(m, paused) ==
    /\ market[m].status # "None"
    /\ market' = [market EXCEPT ![m].paused = paused]
    /\ UNCHANGED <<clock, position, usedNonce, usdc, vault, signed, fills, claimed>>

(* Instructions sent by users, the admin and the oracle, other than the    *)
(* nonce sweep, which QuoteLifecycle composes with the server.             *)
Instruction ==
    \/ \E m \in Markets, end \in EndTimes : CreateMarket(m, end)
    \/ \E u \in Users, q \in signed : PlaceOrder(u, q)
    \/ \E m \in Markets, o \in Outcomes : ResolveMarket(m, o)
    \/ \E u \in Users, m \in Markets : Claim(u, m)
    \/ \E u \in Users, m \in Markets : ClosePosition(u, m)
    \/ \E m \in Markets, b \in BOOLEAN : SetPaused(m, b)

-----------------------------------------------------------------------------
ProgramTypeOK ==
    /\ clock \in Nat
    /\ market \in [Markets -> MarketRecord]
    /\ position \in [Users -> [Markets -> PositionRecord]]
    /\ usedNonce \subseteq Nonces
    /\ usdc \in [Users -> Nat]
    /\ vault \in Nat
    /\ signed \subseteq SignedQuote
    /\ fills \in Seq(OrderFilled)
    /\ claimed \in [Users -> [Markets -> Nat]]
=============================================================================
