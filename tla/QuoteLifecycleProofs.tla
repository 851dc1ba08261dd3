------------------------ MODULE QuoteLifecycleProofs ------------------------
(***************************************************************************)
(* Theorems about QuoteLifecycle for every set of users, markets and       *)
(* nonces, every clock skew within the sweeper's buffer and every bound.   *)
(*                                                                         *)
(* Two arguments.  IInv is about nonces: no quote fills twice.  LogInv and *)
(* BooksInv are about sums: what the log of fills adds up to is what the   *)
(* positions hold, whence the refinement of MarketLedger, and what the     *)
(* positions hold is what markets, vault and users' balances say.          *)
(***************************************************************************)
EXTENDS QuoteLifecycle, SumTheorems

(* A resolved market names its winner.                                     *)
WinnerKnown == \A m \in Markets :
    market[m].status = "Resolved" => market[m].winning \in Outcomes

(* The server's clock is not ahead of the chain's by more than the skew.   *)
SkewBounded == wall <= clock + MaxClockSkew

(* The Quote row of a random nonce carries the expiry of the one quote     *)
(* that was ever signed with it.                                           *)
RowCarriesExpiry == \A q \in signed :
    /\ quoteRow[q.nonce].exists
    /\ q.nonce \notin RequestNonces => quoteRow[q.nonce].expiresAt = q.expires_at

(* A quote that has been filled can be refused again: its nonce is still   *)
(* on chain, or the quote has expired.                                     *)
FilledIsSpent == \A i \in DOMAIN fills :
    /\ fills[i].quote \in signed
    /\ fills[i].quote.nonce \notin RequestNonces =>
          \/ fills[i].quote.nonce \in usedNonce
          \/ fills[i].quote.expires_at <= clock

IInv == TypeOK /\ WinnerKnown /\ SkewBounded /\ RowCarriesExpiry /\ FilledIsSpent /\ FillOnce

-----------------------------------------------------------------------------
(* The instructions that change a position, with the facts their proofs    *)
(* share: a position stays a position, a market stays a market.            *)
LEMMA UsdcAmountNat ==
    ASSUME NEW q \in SignedQuote
    PROVE  UsdcAmount(q) \in Nat
BY DEF UsdcAmount, SignedQuote, USDC_PER_CENT

LEMMA BuyTypeOK ==
    ASSUME ProgramTypeOK, NEW u \in Users, NEW q \in SignedQuote, Buy(u, q)
    PROVE  /\ usdc' \in [Users -> Nat]
           /\ vault' \in Nat
           /\ position' \in [Users -> [Markets -> PositionRecord]]
           /\ market' \in [Markets -> MarketRecord]
<1>1. UsdcAmount(q) \in Nat
  BY UsdcAmountNat
<1>2. q.market \in Markets /\ q.outcome \in Outcomes /\ q.size \in Nat
  BY DEF SignedQuote
<1>3. usdc' \in [Users -> Nat] /\ vault' \in Nat
  BY <1>1 DEF ProgramTypeOK, Buy
<1>4. position' \in [Users -> [Markets -> PositionRecord]]
  <2>1. /\ position \in [Users -> [Markets -> PositionRecord]]
        /\ position[u] \in [Markets -> PositionRecord]
        /\ position[u][q.market].shares \in [Outcomes -> Nat]
    BY <1>2 DEF ProgramTypeOK, PositionRecord
  <2> DEFINE held == position[u][q.market].shares[q.outcome]
             moved == [open |-> TRUE,
                       shares |-> [position[u][q.market].shares EXCEPT ![q.outcome] = held + q.size]]
  <2>2. held + q.size \in Nat
    BY <1>2, <2>1 DEF Buy
  <2>3. moved \in PositionRecord
    BY <1>2, <2>1, <2>2 DEF PositionRecord
  <2>4. position' = [position EXCEPT ![u] = [position[u] EXCEPT ![q.market] = moved]]
    BY <1>2, <2>1 DEF Buy
  <2> HIDE DEF moved
  <2> QED BY <1>2, <2>1, <2>3, <2>4
<1>5. market' \in [Markets -> MarketRecord]
  <2>1. market[q.market] \in MarketRecord
    BY <1>2 DEF ProgramTypeOK
  <2>2. market[q.market].total \in [Outcomes -> Nat]
    BY <2>1 DEF MarketRecord
  <2>3. market[q.market].total[q.outcome] + q.size \in Nat
    BY <1>2, <2>2 DEF Buy
  <2>4. [market[q.market] EXCEPT !.total =
           [@ EXCEPT ![q.outcome] = market[q.market].total[q.outcome] + q.size]] \in MarketRecord
    BY <1>2, <2>1, <2>2, <2>3 DEF MarketRecord
  <2> QED BY <1>2, <2>4 DEF ProgramTypeOK, Buy
<1> QED BY <1>3, <1>4, <1>5

LEMMA SellTypeOK ==
    ASSUME ProgramTypeOK, NEW u \in Users, NEW q \in SignedQuote, Sell(u, q)
    PROVE  /\ usdc' \in [Users -> Nat]
           /\ vault' \in Nat
           /\ position' \in [Users -> [Markets -> PositionRecord]]
           /\ market' \in [Markets -> MarketRecord]
<1>1. UsdcAmount(q) \in Nat
  BY UsdcAmountNat
<1>2. q.market \in Markets /\ q.outcome \in Outcomes /\ q.size \in Nat
  BY DEF SignedQuote
<1>3. usdc' \in [Users -> Nat] /\ vault' \in Nat
  BY <1>1 DEF ProgramTypeOK, Sell
<1>4. position' \in [Users -> [Markets -> PositionRecord]]
  <2>1. /\ position \in [Users -> [Markets -> PositionRecord]]
        /\ position[u] \in [Markets -> PositionRecord]
        /\ position[u][q.market].shares \in [Outcomes -> Nat]
    BY <1>2 DEF ProgramTypeOK, PositionRecord
  <2> DEFINE held == position[u][q.market].shares[q.outcome]
             moved == [open |-> TRUE,
                       shares |-> [position[u][q.market].shares EXCEPT ![q.outcome] = held - q.size]]
  <2>2. held - q.size \in Nat
    BY <1>2, <2>1 DEF Sell
  <2>3. moved \in PositionRecord
    BY <1>2, <2>1, <2>2 DEF PositionRecord
  <2>4. position' = [position EXCEPT ![u] = [position[u] EXCEPT ![q.market] = moved]]
    BY <1>2, <2>1 DEF Sell
  <2> HIDE DEF moved
  <2> QED BY <1>2, <2>1, <2>3, <2>4
<1>5. market' \in [Markets -> MarketRecord]
  <2>1. market[q.market] \in MarketRecord
    BY <1>2 DEF ProgramTypeOK
  <2>2. market[q.market].total \in [Outcomes -> Nat]
    BY <2>1 DEF MarketRecord
  <2>3. market[q.market].total[q.outcome] - q.size \in Nat
    BY <1>2, <2>2 DEF Sell
  <2>4. [market[q.market] EXCEPT !.total =
           [@ EXCEPT ![q.outcome] = market[q.market].total[q.outcome] - q.size]] \in MarketRecord
    BY <1>2, <2>1, <2>2, <2>3 DEF MarketRecord
  <2> QED BY <1>2, <2>4 DEF ProgramTypeOK, Sell
<1> QED BY <1>3, <1>4, <1>5

(* Every instruction keeps the accounts well typed.                        *)
LEMMA InstructionTypeOK ==
    ASSUME ProgramTypeOK, WinnerKnown, Instruction
    PROVE  ProgramTypeOK'
<1>1. ASSUME NEW m \in Markets, NEW end \in EndTimes, CreateMarket(m, end)
      PROVE  ProgramTypeOK'
  <2>1. end \in Nat
    BY ProgramAssumption
  <2>2. market' \in [Markets -> MarketRecord]
    BY <1>1, <2>1 DEF ProgramTypeOK, CreateMarket, EmptyMarket, NoShares, MarketRecord
  <2> QED BY <1>1, <2>2 DEF ProgramTypeOK, CreateMarket
<1>2. ASSUME NEW u \in Users, NEW q \in signed, PlaceOrder(u, q)
      PROVE  ProgramTypeOK'
  <2>1. q \in SignedQuote
    BY DEF ProgramTypeOK
  <2>2. /\ usdc' \in [Users -> Nat]
        /\ vault' \in Nat
        /\ position' \in [Users -> [Markets -> PositionRecord]]
        /\ market' \in [Markets -> MarketRecord]
    BY <1>2, <2>1, BuyTypeOK, SellTypeOK DEF PlaceOrder
  <2>3. usedNonce' \subseteq Nonces
    BY <1>2, <2>1 DEF ProgramTypeOK, PlaceOrder, SignedQuote
  <2>4. [user |-> u, quote |-> q] \in OrderFilled
    BY <2>1 DEF OrderFilled
  <2>5. fills' \in Seq(OrderFilled)
    BY <1>2, <2>4 DEF ProgramTypeOK, PlaceOrder
  <2> QED BY <1>2, <2>2, <2>3, <2>5 DEF ProgramTypeOK, PlaceOrder
<1>3. ASSUME NEW m \in Markets, NEW o \in Outcomes, ResolveMarket(m, o)
      PROVE  ProgramTypeOK'
  <2> DEFINE resolved == [market[m] EXCEPT !.status = "Resolved", !.winning = o]
  <2>1. market[m] \in MarketRecord
    BY DEF ProgramTypeOK
  <2>2. resolved \in MarketRecord
    BY <2>1 DEF MarketRecord
  <2>3. market' = [market EXCEPT ![m] = resolved]
    BY <1>3, <2>1 DEF ProgramTypeOK, ResolveMarket, MarketRecord
  <2>4. market' \in [Markets -> MarketRecord]
    <3> HIDE DEF resolved
    <3> QED BY <2>2, <2>3 DEF ProgramTypeOK
  <2> QED BY <1>3, <2>4 DEF ProgramTypeOK, ResolveMarket
<1>4. ASSUME NEW u \in Users, NEW m \in Markets, Claim(u, m)
      PROVE  ProgramTypeOK'
  <2> DEFINE w == market[m].winning
             shares == position[u][m].shares[w]
             payout == shares * USDC_DECIMALS_MULTIPLIER
  <2>1. w \in Outcomes
    BY <1>4 DEF WinnerKnown, Claim
  <2>2. position[u][m] \in PositionRecord /\ position[u] \in [Markets -> PositionRecord]
    BY DEF ProgramTypeOK
  <2>3. shares \in Nat
    BY <2>1, <2>2 DEF PositionRecord
  <2>4. payout \in Nat
    BY <2>3 DEF USDC_DECIMALS_MULTIPLIER
  <2>5. usdc' \in [Users -> Nat] /\ vault' \in Nat
    <3>1. /\ vault >= payout /\ vault' = vault - payout
          /\ usdc' = [usdc EXCEPT ![u] = @ + payout]
      BY <1>4 DEF Claim
    <3>2. vault \in Nat /\ usdc \in [Users -> Nat]
      BY DEF ProgramTypeOK
    <3> HIDE DEF payout
    <3> QED BY <2>4, <3>1, <3>2
  <2>6. position' \in [Users -> [Markets -> PositionRecord]]
    BY <1>4, <2>1, <2>2 DEF ProgramTypeOK, Claim, PositionRecord
  <2>7. claimed' \in [Users -> [Markets -> Nat]]
    BY <1>4, <2>3 DEF ProgramTypeOK, Claim
  <2> QED BY <1>4, <2>5, <2>6, <2>7 DEF ProgramTypeOK, Claim
<1>5. ASSUME NEW u \in Users, NEW m \in Markets, ClosePosition(u, m)
      PROVE  ProgramTypeOK'
  <2>1. position' \in [Users -> [Markets -> PositionRecord]]
    BY <1>5 DEF ProgramTypeOK, ClosePosition, ClosedPosition, NoShares, PositionRecord
  <2> QED BY <1>5, <2>1 DEF ProgramTypeOK, ClosePosition
<1>6. ASSUME NEW m \in Markets, NEW b \in BOOLEAN, SetPaused(m, b)
      PROVE  ProgramTypeOK'
  <2> DEFINE set == [market[m] EXCEPT !.paused = b]
  <2>1. market[m] \in MarketRecord
    BY DEF ProgramTypeOK
  <2>2. set \in MarketRecord
    BY <2>1 DEF MarketRecord
  <2>3. market' = [market EXCEPT ![m] = set]
    BY <1>6, <2>1 DEF ProgramTypeOK, SetPaused, MarketRecord
  <2>4. market' \in [Markets -> MarketRecord]
    <3> HIDE DEF set
    <3> QED BY <2>2, <2>3 DEF ProgramTypeOK
  <2> QED BY <1>6, <2>4 DEF ProgramTypeOK, SetPaused
<1> QED BY <1>1, <1>2, <1>3, <1>4, <1>5, <1>6 DEF Instruction

-----------------------------------------------------------------------------
LEMMA InitIInv == Init => IInv
<1> SUFFICES ASSUME Init PROVE IInv
  OBVIOUS
<1> USE DEF Init, ProgramInit
<1>1. TypeOK
  <2>1. EmptyMarket \in MarketRecord /\ ClosedPosition \in PositionRecord
    BY DEF EmptyMarket, ClosedPosition, NoShares, MarketRecord, PositionRecord
  <2>2. fills \in Seq(OrderFilled)
    OBVIOUS
  <2>3. ProgramTypeOK
    BY <2>1, <2>2, ProgramAssumption DEF ProgramTypeOK
  <2>4. quoteRow \in [Nonces -> QuoteRow]
    BY DEF NoRow, QuoteRow
  <2> QED BY <2>3, <2>4 DEF TypeOK
<1>2. WinnerKnown
  BY DEF WinnerKnown, EmptyMarket
<1>3. SkewBounded
  BY LifecycleAssumption DEF SkewBounded
<1>4. RowCarriesExpiry /\ FilledIsSpent /\ FillOnce
  BY DEF RowCarriesExpiry, FilledIsSpent, FillOnce
<1> QED BY <1>1, <1>2, <1>3, <1>4 DEF IInv

(* An order changes totals and positions, never a market's resolution.     *)
LEMMA OrderKeepsResolution ==
    ASSUME ProgramTypeOK, NEW u \in Users, NEW q \in SignedQuote, Buy(u, q) \/ Sell(u, q),
           NEW m \in Markets
    PROVE  market'[m].status = market[m].status /\ market'[m].winning = market[m].winning
<1>1. PICK n : market' = [market EXCEPT ![q.market].total[q.outcome] = n]
  BY DEF Buy, Sell
<1>2. market[m] \in MarketRecord /\ market \in [Markets -> MarketRecord]
  BY DEF ProgramTypeOK
<1>3. CASE m = q.market
  <2>1. market'[m] = [market[m] EXCEPT !.total = [@ EXCEPT ![q.outcome] = n]]
    BY <1>1, <1>2, <1>3
  <2> QED BY <1>2, <2>1 DEF MarketRecord
<1>4. CASE m # q.market
  BY <1>1, <1>2, <1>4
<1> QED BY <1>3, <1>4

(* What an instruction can do to the fields the nonce argument reads.      *)
LEMMA InstructionKeepsWinner ==
    ASSUME ProgramTypeOK, WinnerKnown, Instruction
    PROVE  WinnerKnown'
<1>1. ASSUME NEW m \in Markets, NEW end \in EndTimes, CreateMarket(m, end)
      PROVE  WinnerKnown'
  BY <1>1 DEF ProgramTypeOK, WinnerKnown, CreateMarket, EmptyMarket
<1>2. ASSUME NEW u \in Users, NEW q \in signed, PlaceOrder(u, q)
      PROVE  WinnerKnown'
  <2>1. q \in SignedQuote
    BY DEF ProgramTypeOK
  <2> QED BY <1>2, <2>1, OrderKeepsResolution DEF WinnerKnown, PlaceOrder
<1>3. ASSUME NEW m \in Markets, NEW o \in Outcomes, ResolveMarket(m, o)
      PROVE  WinnerKnown'
  BY <1>3 DEF ProgramTypeOK, WinnerKnown, ResolveMarket
<1>4. ASSUME NEW u \in Users, NEW m \in Markets, Claim(u, m) \/ ClosePosition(u, m)
      PROVE  WinnerKnown'
  BY <1>4 DEF WinnerKnown, Claim, ClosePosition
<1>5. ASSUME NEW m \in Markets, NEW b \in BOOLEAN, SetPaused(m, b)
      PROVE  WinnerKnown'
  BY <1>5 DEF ProgramTypeOK, WinnerKnown, SetPaused
<1> QED BY <1>1, <1>2, <1>3, <1>4, <1>5 DEF Instruction

(* An instruction other than place_order leaves the event log, the nonces, *)
(* the signed quotes and the clock alone.                                  *)
LEMMA InstructionFrame ==
    ASSUME Instruction
    PROVE  \/ \E u \in Users, q \in signed : PlaceOrder(u, q)
           \/ UNCHANGED <<clock, usedNonce, signed, fills>>
<1>1. ASSUME NEW m \in Markets, NEW end \in EndTimes, CreateMarket(m, end)
      PROVE  UNCHANGED <<clock, usedNonce, signed, fills>>
  BY <1>1 DEF CreateMarket
<1>2. ASSUME NEW m \in Markets, NEW o \in Outcomes, ResolveMarket(m, o)
      PROVE  UNCHANGED <<clock, usedNonce, signed, fills>>
  BY <1>2 DEF ResolveMarket
<1>3. ASSUME NEW u \in Users, NEW m \in Markets, Claim(u, m) \/ ClosePosition(u, m)
      PROVE  UNCHANGED <<clock, usedNonce, signed, fills>>
  BY <1>3 DEF Claim, ClosePosition
<1>4. ASSUME NEW m \in Markets, NEW b \in BOOLEAN, SetPaused(m, b)
      PROVE  UNCHANGED <<clock, usedNonce, signed, fills>>
  BY <1>4 DEF SetPaused
<1> QED BY <1>1, <1>2, <1>3, <1>4 DEF Instruction

(* place_order: the new event's quote is unexpired and its nonce fresh, so *)
(* by FilledIsSpent no earlier event carries it.                           *)
LEMMA PlaceOrderKeepsNonces ==
    ASSUME ProgramTypeOK, FilledIsSpent, FillOnce,
           NEW u \in Users, NEW q \in signed, PlaceOrder(u, q)
    PROVE  FilledIsSpent' /\ FillOnce'
<1>1. /\ fills' = Append(fills, [user |-> u, quote |-> q])
      /\ usedNonce' = usedNonce \cup {q.nonce}
      /\ UNCHANGED <<clock, signed>>
  BY DEF PlaceOrder
<1>2. /\ fills \in Seq(OrderFilled) /\ Len(fills) \in Nat
      /\ clock \in Nat /\ q.expires_at \in Nat
  BY DEF ProgramTypeOK, SignedQuote
<1>3. /\ DOMAIN fills' = 1 .. Len(fills) + 1
      /\ fills'[Len(fills) + 1].quote = q
      /\ \A i \in DOMAIN fills : fills'[i] = fills[i]
      /\ DOMAIN fills = 1 .. Len(fills)
  BY <1>1, <1>2
<1>4. \A i \in DOMAIN fills :
        fills[i].quote = q => q.nonce \in RequestNonces
  BY <1>2 DEF FilledIsSpent, PlaceOrder, QuoteIsLive
<1>5. FilledIsSpent'
  <2> SUFFICES ASSUME NEW i \in DOMAIN fills'
               PROVE  /\ fills'[i].quote \in signed'
                      /\ fills'[i].quote.nonce \notin RequestNonces =>
                            \/ fills'[i].quote.nonce \in usedNonce'
                            \/ fills'[i].quote.expires_at <= clock'
    BY DEF FilledIsSpent
  <2>1. CASE i = Len(fills) + 1
    BY <1>1, <1>3, <2>1
  <2>2. CASE i # Len(fills) + 1
    <3>1. i \in DOMAIN fills
      BY <1>2, <1>3, <2>2
    <3> QED BY <1>1, <1>3, <3>1 DEF FilledIsSpent
  <2> QED BY <2>1, <2>2
<1>6. FillOnce'
  <2> SUFFICES ASSUME NEW i \in DOMAIN fills', NEW j \in DOMAIN fills',
                      fills'[i].quote = fills'[j].quote,
                      fills'[i].quote.nonce \notin RequestNonces
               PROVE  i = j
    BY DEF FillOnce
  <2>1. CASE i \in DOMAIN fills /\ j \in DOMAIN fills
    BY <1>3, <2>1 DEF FillOnce
  <2>2. CASE i \notin DOMAIN fills /\ j \notin DOMAIN fills
    BY <1>2, <1>3, <2>2
  <2>3. CASE i \in DOMAIN fills /\ j \notin DOMAIN fills
    <3>1. fills[i].quote = q
      BY <1>2, <1>3, <2>3
    <3> QED BY <1>3, <1>4, <2>3, <3>1
  <2>4. CASE i \notin DOMAIN fills /\ j \in DOMAIN fills
    <3>1. fills[j].quote = q
      BY <1>2, <1>3, <2>4
    <3> QED BY <1>3, <1>4, <2>4, <3>1
  <2> QED BY <2>1, <2>2, <2>3, <2>4
<1> QED BY <1>5, <1>6

(* The sweeper only closes nonces whose quote the chain already rejects:   *)
(* the row is ExpiryBuffer past its expiry and the clocks differ by less.  *)
LEMMA SweepCloseKeepsNonces ==
    ASSUME TypeOK, SkewBounded, RowCarriesExpiry, FilledIsSpent, FillOnce,
           NEW n \in Nonces, SweepClose(n)
    PROVE  FilledIsSpent' /\ FillOnce'
<1>1. UNCHANGED <<clock, signed, fills>> /\ usedNonce' = usedNonce \ {n}
  BY DEF SweepClose, CloseUsedNonce
<1>2. quoteRow[n].expiresAt < wall - ExpiryBuffer
  BY DEF SweepClose, Batch, Due
<1>3. quoteRow[n].expiresAt <= clock
  <2>1. quoteRow[n].expiresAt \in Nat /\ wall \in Nat /\ clock \in Nat
    BY DEF TypeOK, ProgramTypeOK, QuoteRow
  <2> QED BY <1>2, <2>1, LifecycleAssumption DEF SkewBounded
<1>4. ASSUME NEW i \in DOMAIN fills, fills[i].quote.nonce \notin RequestNonces,
             fills[i].quote.nonce = n
      PROVE  fills[i].quote.expires_at <= clock
  BY <1>3, <1>4 DEF FilledIsSpent, RowCarriesExpiry
<1> QED BY <1>1, <1>4 DEF FilledIsSpent, FillOnce

-----------------------------------------------------------------------------
(* The server's and the clocks' steps.                                     *)
LEMMA SignQuoteStep ==
    ASSUME IInv, NEW n \in Nonces, NEW m \in Markets, NEW side \in Sides,
           NEW outcome \in Outcomes, NEW price \in Prices, NEW size \in Sizes,
           SignQuote(n, m, side, outcome, price, size)
    PROVE  IInv'
<1> DEFINE q == [nonce |-> n, market |-> m, side |-> side, outcome |-> outcome,
                 price |-> price, size |-> size, expires_at |-> wall + QuoteExpiry]
<1> USE DEF IInv
<1>1. /\ signed' = signed \cup {q}
      /\ UNCHANGED <<clock, market, position, usedNonce, usdc, vault, fills, claimed, wall, sweeping>>
  BY DEF SignQuote
<1>2. wall + QuoteExpiry \in Nat
  BY LifecycleAssumption DEF TypeOK
<1>3. q \in SignedQuote
  BY <1>2, ProgramAssumption DEF SignedQuote
<1>4. quoteRow' \in [Nonces -> QuoteRow]
  <2>1. [NoRow EXCEPT !.exists = TRUE, !.expiresAt = wall + QuoteExpiry] \in QuoteRow
    BY <1>2 DEF NoRow, QuoteRow
  <2> QED BY <2>1 DEF TypeOK, SignQuote
<1>5. TypeOK'
  BY <1>1, <1>3, <1>4 DEF TypeOK, ProgramTypeOK
<1>6. WinnerKnown' /\ SkewBounded'
  BY <1>1 DEF WinnerKnown, SkewBounded
<1>7. RowCarriesExpiry'
  <2> SUFFICES ASSUME NEW r \in signed'
               PROVE  /\ quoteRow'[r.nonce].exists
                      /\ r.nonce \notin RequestNonces =>
                            quoteRow'[r.nonce].expiresAt = r.expires_at
    BY DEF RowCarriesExpiry
  <2>1. quoteRow \in [Nonces -> QuoteRow]
    BY DEF TypeOK
  <2>2. CASE r \in signed
    <3>1. /\ quoteRow[r.nonce].exists
          /\ r.nonce \notin RequestNonces => quoteRow[r.nonce].expiresAt = r.expires_at
      BY <2>2 DEF RowCarriesExpiry
    <3>2. quoteRow'[r.nonce] = quoteRow[r.nonce]
      BY <2>1, <3>1 DEF SignQuote
    <3> QED BY <3>1, <3>2
  <2>3. CASE r = q
    <3>1. CASE quoteRow[n].exists
      BY <2>3, <3>1 DEF SignQuote
    <3>2. CASE ~quoteRow[n].exists
      <4>1. quoteRow'[n] = [NoRow EXCEPT !.exists = TRUE, !.expiresAt = wall + QuoteExpiry]
        BY <2>1, <3>2 DEF SignQuote
      <4> QED BY <2>3, <4>1 DEF NoRow
    <3> QED BY <3>1, <3>2
  <2> QED BY <1>1, <2>2, <2>3
<1>8. FilledIsSpent' /\ FillOnce'
  BY <1>1 DEF FilledIsSpent, FillOnce
<1> QED BY <1>5, <1>6, <1>7, <1>8

LEMMA ServerStep ==
    ASSUME IInv, \/ WallTick \/ ChainTick \/ SweepInterrupted
                 \/ \E n \in Nonces : MarkQuoteConsumed(n) \/ SweepRecord(n)
    PROVE  IInv'
<1> USE DEF IInv
<1>1. CASE WallTick
  <2>1. TypeOK' /\ SkewBounded'
    BY <1>1, LifecycleAssumption DEF WallTick, TypeOK, ProgramTypeOK, programVars, SkewBounded
  <2> QED BY <1>1, <2>1 DEF WallTick, programVars, WinnerKnown, RowCarriesExpiry, FilledIsSpent,
     FillOnce
<1>2. CASE ChainTick
  <2>1. TypeOK' /\ SkewBounded'
    BY <1>2, LifecycleAssumption DEF ChainTick, TypeOK, ProgramTypeOK, serverVars, SkewBounded
  <2>2. FilledIsSpent'
    <3> SUFFICES ASSUME NEW i \in DOMAIN fills
                 PROVE  /\ fills[i].quote \in signed
                        /\ fills[i].quote.nonce \notin RequestNonces =>
                              \/ fills[i].quote.nonce \in usedNonce
                              \/ fills[i].quote.expires_at <= clock'
      BY <1>2 DEF ChainTick, FilledIsSpent
    <3>1. fills[i].quote \in signed
      BY DEF FilledIsSpent
    <3>2. fills[i].quote.expires_at \in Nat /\ clock \in Nat /\ clock' = clock + 1
      BY <1>2, <3>1 DEF ChainTick, TypeOK, ProgramTypeOK, SignedQuote
    <3> QED BY <3>1, <3>2 DEF FilledIsSpent
  <2> QED BY <1>2, <2>1, <2>2 DEF ChainTick, serverVars, WinnerKnown, RowCarriesExpiry, FillOnce
<1>3. CASE SweepInterrupted
  <2>1. TypeOK'
    BY <1>3 DEF SweepInterrupted, TypeOK, ProgramTypeOK, programVars
  <2> QED BY <1>3, <2>1 DEF SweepInterrupted, programVars, WinnerKnown, SkewBounded,
                            RowCarriesExpiry, FilledIsSpent, FillOnce
<1>4. ASSUME NEW n \in Nonces, MarkQuoteConsumed(n) \/ SweepRecord(n)
      PROVE  IInv'
  <2>1. UNCHANGED programVars /\ wall' = wall
    BY <1>4 DEF MarkQuoteConsumed, SweepRecord
  <2>2. /\ quoteRow' \in [Nonces -> QuoteRow]
        /\ \A k \in Nonces : /\ quoteRow'[k].exists = quoteRow[k].exists
                              /\ quoteRow'[k].expiresAt = quoteRow[k].expiresAt
    <3>1. quoteRow \in [Nonces -> QuoteRow] /\ quoteRow[n] \in QuoteRow
      BY DEF TypeOK
    <3>2. PICK r \in QuoteRow : /\ quoteRow' = [quoteRow EXCEPT ![n] = r]
                               /\ r.exists = quoteRow[n].exists
                               /\ r.expiresAt = quoteRow[n].expiresAt
      <4>1. CASE MarkQuoteConsumed(n)
        <5> DEFINE r == [quoteRow[n] EXCEPT !.consumed = TRUE]
        <5>1. r \in QuoteRow /\ r.exists = quoteRow[n].exists /\ r.expiresAt = quoteRow[n].expiresAt
          BY <3>1 DEF QuoteRow
        <5> QED BY <4>1, <5>1 DEF MarkQuoteConsumed
      <4>2. CASE SweepRecord(n)
        <5> DEFINE r == [quoteRow[n] EXCEPT !.nonceClosed = TRUE]
        <5>1. r \in QuoteRow /\ r.exists = quoteRow[n].exists /\ r.expiresAt = quoteRow[n].expiresAt
          BY <3>1 DEF QuoteRow
        <5> QED BY <4>2, <5>1 DEF SweepRecord
      <4> QED BY <1>4, <4>1, <4>2
    <3> QED BY <3>1, <3>2
  <2>3. sweeping' \subseteq Nonces
    BY <1>4 DEF MarkQuoteConsumed, SweepRecord, TypeOK
  <2>4. TypeOK'
    BY <2>1, <2>2, <2>3 DEF TypeOK, ProgramTypeOK, programVars
  <2>5. RowCarriesExpiry'
    BY <2>1, <2>2 DEF RowCarriesExpiry, TypeOK, ProgramTypeOK, programVars, SignedQuote
  <2> QED BY <2>1, <2>4, <2>5 DEF programVars, WinnerKnown, SkewBounded, FilledIsSpent, FillOnce
<1> QED BY <1>1, <1>2, <1>3, <1>4

(* IInv is inductive.                                                      *)
LEMMA NextIInv == IInv /\ [Next]_vars => IInv'
<1> SUFFICES ASSUME IInv, [Next]_vars PROVE IInv'
  OBVIOUS
<1>1. ASSUME NEW n \in Nonces, NEW m \in Markets, NEW side \in Sides, NEW outcome \in Outcomes,
             NEW price \in Prices, NEW size \in Sizes,
             SignQuote(n, m, side, outcome, price, size)
      PROVE  IInv'
  BY <1>1, SignQuoteStep
<1>2. CASE Instruction /\ UNCHANGED serverVars
  <2>1. ProgramTypeOK' /\ WinnerKnown'
    BY <1>2, InstructionTypeOK, InstructionKeepsWinner DEF IInv, TypeOK
  <2>2. TypeOK'
    BY <1>2, <2>1 DEF IInv, TypeOK, serverVars
  <2>3. ASSUME NEW u \in Users, NEW q \in signed, PlaceOrder(u, q)
        PROVE  IInv'
    <3>1. FilledIsSpent' /\ FillOnce'
      BY <2>3, PlaceOrderKeepsNonces DEF IInv, TypeOK
    <3>2. SkewBounded' /\ RowCarriesExpiry'
      BY <1>2, <2>3 DEF IInv, PlaceOrder, serverVars, SkewBounded, RowCarriesExpiry
    <3> QED BY <2>1, <2>2, <3>1, <3>2 DEF IInv
  <2>4. CASE UNCHANGED <<clock, usedNonce, signed, fills>>
    BY <1>2, <2>1, <2>2, <2>4 DEF IInv, serverVars, SkewBounded, RowCarriesExpiry, FilledIsSpent,
       FillOnce
  <2> QED BY <1>2, <2>3, <2>4, InstructionFrame
<1>3. ASSUME NEW n \in Nonces, SweepClose(n)
      PROVE  IInv'
  <2>1. FilledIsSpent' /\ FillOnce'
    BY <1>3, SweepCloseKeepsNonces DEF IInv
  <2>2. TypeOK'
    BY <1>3 DEF IInv, TypeOK, ProgramTypeOK, SweepClose, CloseUsedNonce
  <2> QED BY <1>3, <2>1, <2>2 DEF IInv, SweepClose, CloseUsedNonce, WinnerKnown, SkewBounded,
                                  RowCarriesExpiry
<1>4. CASE UNCHANGED vars
  BY <1>4 DEF IInv, vars, programVars, serverVars, TypeOK, ProgramTypeOK, WinnerKnown, SkewBounded,
              RowCarriesExpiry, FilledIsSpent, FillOnce
<1> QED BY <1>1, <1>2, <1>3, <1>4, ServerStep DEF Next, Sweep

THEOREM Invariance == Spec => []IInv
BY InitIInv, NextIInv, PTL DEF Spec

-----------------------------------------------------------------------------
(* Every variable of the program, the Quote table and the sweeper stays in *)
(* its type; in particular no balance, total or position goes negative.    *)
THEOREM TypeCorrectness == Spec => []TypeOK
BY Invariance, PTL DEF IInv

(* A quote with a random nonce is filled at most once, for every clock     *)
(* skew up to the sweeper's buffer, although the sweeper erases nonces.    *)
THEOREM FillsAtMostOnce == Spec => []FillOnce
BY Invariance, PTL DEF IInv

(* One instruction: a resolved market stays resolved, with its winner.      *)
LEMMA InstructionKeepsResolution ==
    ASSUME ProgramTypeOK, Instruction,
           NEW m \in Markets, market[m].status = "Resolved"
    PROVE  market'[m].status = "Resolved" /\ market'[m].winning = market[m].winning
<1>1. market \in [Markets -> MarketRecord]
  BY DEF ProgramTypeOK
<1>2. ASSUME NEW n \in Markets, NEW end \in EndTimes, CreateMarket(n, end)
      PROVE  market'[m] = market[m]
  BY <1>1, <1>2 DEF CreateMarket
<1>3. ASSUME NEW v \in Users, NEW q \in signed, PlaceOrder(v, q)
      PROVE  market'[m].status = market[m].status /\ market'[m].winning = market[m].winning
  BY <1>3, OrderKeepsResolution DEF PlaceOrder, ProgramTypeOK
<1>4. ASSUME NEW n \in Markets, NEW o \in Outcomes, ResolveMarket(n, o)
      PROVE  market'[m] = market[m]
  BY <1>1, <1>4 DEF ResolveMarket
<1>5. ASSUME NEW v \in Users, NEW n \in Markets, Claim(v, n) \/ ClosePosition(v, n)
      PROVE  market' = market
  BY <1>5 DEF Claim, ClosePosition
<1>6. ASSUME NEW n \in Markets, NEW b \in BOOLEAN, SetPaused(n, b)
      PROVE  market'[m].status = market[m].status /\ market'[m].winning = market[m].winning
  BY <1>1, <1>6 DEF SetPaused, MarketRecord
<1> QED BY <1>2, <1>3, <1>4, <1>5, <1>6 DEF Instruction

(* One instruction: a user's winnings in a resolved market are conserved.  *)
LEMMA InstructionConservesWinnings ==
    ASSUME ProgramTypeOK, WinnerKnown, Instruction,
           NEW m \in Markets, market[m].status = "Resolved", NEW u \in Users
    PROVE  LET w == market[m].winning
           IN  position'[u][m].shares[w] + claimed'[u][m]
                 = position[u][m].shares[w] + claimed[u][m]
<1> DEFINE w == market[m].winning
<1>1. /\ w \in Outcomes
      /\ position[u][m].shares[w] \in Nat /\ claimed[u][m] \in Nat
      /\ position \in [Users -> [Markets -> PositionRecord]]
      /\ claimed \in [Users -> [Markets -> Nat]]
  BY DEF ProgramTypeOK, WinnerKnown, PositionRecord
<1>2. ASSUME NEW v \in Users, NEW q \in signed, PlaceOrder(v, q)
      PROVE  position'[u][m] = position[u][m] /\ UNCHANGED claimed
  <2>1. q \in SignedQuote /\ q.market \in Markets /\ q.market # m
    BY <1>2 DEF ProgramTypeOK, SignedQuote, PlaceOrder, QuoteIsLive
  <2>2. \E p : position' = [position EXCEPT ![v][q.market] = p]
    BY <1>2 DEF PlaceOrder, Buy, Sell
  <2> QED BY <1>1, <1>2, <2>1, <2>2 DEF PlaceOrder
<1>3. ASSUME NEW v \in Users, NEW n \in Markets, Claim(v, n)
      PROVE  position'[u][m].shares[w] + claimed'[u][m]
               = position[u][m].shares[w] + claimed[u][m]
  <2>1. CASE u = v /\ m = n
    <3>1. position[u] \in [Markets -> PositionRecord] /\ position[u][m] \in PositionRecord
      BY <1>1
    <3>2. position'[u][m].shares[w] = 0
      BY <1>1, <1>3, <2>1, <3>1 DEF Claim, PositionRecord
    <3>3. claimed'[u][m] = claimed[u][m] + position[u][m].shares[w]
      BY <1>1, <1>3, <2>1 DEF Claim
    <3> QED BY <1>1, <3>2, <3>3
  <2>2. CASE ~(u = v /\ m = n)
    BY <1>1, <1>3, <2>2 DEF Claim
  <2> QED BY <2>1, <2>2
<1>4. ASSUME NEW v \in Users, NEW n \in Markets, ClosePosition(v, n)
      PROVE  position'[u][m].shares[w] = position[u][m].shares[w] /\ UNCHANGED claimed
  <2>1. CASE u = v /\ m = n
    BY <1>1, <1>4, <2>1 DEF ClosePosition, ClosedPosition, NoShares
  <2>2. CASE ~(u = v /\ m = n)
    BY <1>1, <1>4, <2>2 DEF ClosePosition
  <2> QED BY <1>4, <2>1, <2>2 DEF ClosePosition
<1>5. \/ \E v \in Users, q \in signed : PlaceOrder(v, q)
      \/ \E v \in Users, n \in Markets : Claim(v, n) \/ ClosePosition(v, n)
      \/ UNCHANGED <<position, claimed>>
  BY DEF Instruction, CreateMarket, ResolveMarket, SetPaused
<1> QED BY <1>2, <1>3, <1>4, <1>5

(* After resolution a user's winning shares are claimed one for one: none  *)
(* is lost to close_position, paid twice, or created by a late order.      *)
THEOREM WinningsConserved == Spec => ClaimsConserveWinnings
<1> DEFINE Conserved ==
        \A m \in Markets : market[m].status = "Resolved" =>
          /\ market'[m].status = "Resolved" /\ market'[m].winning = market[m].winning
          /\ \A u \in Users :
                LET w == market[m].winning
                IN  position'[u][m].shares[w] + claimed'[u][m]
                      = position[u][m].shares[w] + claimed[u][m]
<1>1. ASSUME IInv, [Next]_vars PROVE [Conserved]_vars
  <2>1. CASE Instruction /\ UNCHANGED serverVars
    <3> SUFFICES ASSUME NEW m \in Markets, market[m].status = "Resolved"
                 PROVE  /\ market'[m].status = "Resolved"
                        /\ market'[m].winning = market[m].winning
                        /\ \A u \in Users :
                              LET w == market[m].winning
                              IN  position'[u][m].shares[w] + claimed'[u][m]
                                    = position[u][m].shares[w] + claimed[u][m]
      OBVIOUS
    <3>1. market'[m].status = "Resolved" /\ market'[m].winning = market[m].winning
      BY <1>1, <2>1, InstructionKeepsResolution DEF IInv, TypeOK
    <3> QED BY <1>1, <2>1, <3>1, InstructionConservesWinnings DEF IInv, TypeOK
  <2>2. CASE ~(Instruction /\ UNCHANGED serverVars) /\ Next
    <3>1. UNCHANGED <<market, position, claimed>>
      BY <2>2 DEF Next, Sweep, WallTick, ChainTick, SignQuote, MarkQuoteConsumed, SweepClose,
                  CloseUsedNonce, SweepRecord, SweepInterrupted, programVars
    <3> QED BY <3>1
  <2> QED BY <1>1, <2>1, <2>2
<1> QED BY <1>1, Invariance, PTL DEF Spec, ClaimsConserveWinnings

-----------------------------------------------------------------------------
(* The event log                                                           *)

(* Only a resolved market has a winner.                                    *)
WinnerOnlyResolved == \A m \in Markets :
    market[m].status # "Resolved" => market[m].winning = "None"

(* A position against the log: until the market is resolved it holds what  *)
(* the log leaves the user with; afterwards the winning side is held, or   *)
(* has been claimed in one piece.                                          *)
PositionMatchesLog(u, m) ==
    /\ market[m].status # "Resolved" =>
          /\ claimed[u][m] = 0
          /\ \A o \in Outcomes : position[u][m].shares[o] = Ledger!Net(u, m, o)
    /\ market[m].status = "Resolved" =>
          LET w == market[m].winning
          IN  /\ position[u][m].shares[w] + claimed[u][m] = Ledger!Net(u, m, w)
              /\ claimed[u][m] > 0 => position[u][m].shares[w] = 0

PositionsMatchLog == \A u \in Users, m \in Markets : PositionMatchesLog(u, m)

(* A market that create_market has not allocated has sold nothing.         *)
UnallocatedEmpty == \A m \in Markets :
    market[m].status = "None" => market[m].total = NoShares

LogInv == IInv /\ WinnerOnlyResolved /\ PositionsMatchLog
BooksInv == LogInv /\ UnallocatedEmpty /\ TotalsMatchPositions /\ VaultMatchesEvents

(* The ledger's own copy of the sum is the same operator.                  *)
LEMMA LedgerSum == \A f, S : Ledger!SumFunctionOnSet(f, S) = SumFunctionOnSet(f, S)
BY DEF SumFunctionOnSet, FoldFunctionOnSet, MapThenFoldSet,
       Ledger!SumFunctionOnSet, Ledger!FoldFunctionOnSet, Ledger!MapThenFoldSet

(* The log gains an event: what it leaves a user with changes by the       *)
(* event's shares if the event is theirs, in that market and outcome.      *)
LEMMA NetAppend ==
    ASSUME fills \in Seq(OrderFilled), NEW v \in Users, NEW q \in SignedQuote,
           fills' = Append(fills, [user |-> v, quote |-> q]),
           NEW u \in Users, NEW m \in Markets, NEW o \in Outcomes
    PROVE  /\ Ledger!Net(u, m, o) \in Int
           /\ Ledger!Net(u, m, o)' =
                 Ledger!Net(u, m, o)
                 + (IF u = v /\ m = q.market /\ o = q.outcome THEN Ledger!Signed(q) ELSE 0)
<1> DEFINE n == Len(fills) + 1
           f == [i \in DOMAIN fills |-> Ledger!Signed(fills[i].quote)]
           g == [i \in DOMAIN fills' |-> Ledger!Signed(fills'[i].quote)]
           S == {i \in DOMAIN fills : /\ fills[i].user = u
                                      /\ fills[i].quote.market = m
                                      /\ fills[i].quote.outcome = o}
           T == {i \in DOMAIN fills' : /\ fills'[i].user = u
                                       /\ fills'[i].quote.market = m
                                       /\ fills'[i].quote.outcome = o}
<1>1. /\ Len(fills) \in Nat /\ DOMAIN fills = 1 .. Len(fills) /\ DOMAIN fills' = 1 .. n
      /\ fills'[n] = [user |-> v, quote |-> q]
      /\ \A i \in DOMAIN fills : fills'[i] = fills[i] /\ fills[i] \in OrderFilled
  OBVIOUS
<1>2. \A r \in SignedQuote : Ledger!Signed(r) \in Int
  BY DEF SignedQuote, Ledger!Signed
<1>3. IsFiniteSet(S) /\ n \notin S
  <2>1. IsFiniteSet(DOMAIN fills)
    BY <1>1, FS_Interval
  <2> QED BY <1>1, <2>1, FS_Subset
<1>4. \A i \in S : f[i] \in Int /\ g[i] = f[i]
  BY <1>1, <1>2 DEF OrderFilled
<1>5. g[n] = Ledger!Signed(q) /\ g[n] \in Int
  BY <1>1, <1>2
<1>6. Ledger!Net(u, m, o) = SumFunctionOnSet(f, S) /\ Ledger!Net(u, m, o)' = SumFunctionOnSet(g, T)
  BY LedgerSum DEF Ledger!Net
<1>7. CASE u = v /\ m = q.market /\ o = q.outcome
  <2>1. T = S \cup {n}
    BY <1>1, <1>7
  <2> HIDE DEF f, g, S, T, n
  <2> QED BY <1>3, <1>4, <1>5, <1>6, <1>7, <2>1, SumGrow, SumInt
<1>8. CASE ~(u = v /\ m = q.market /\ o = q.outcome)
  <2>1. T = S
    BY <1>1, <1>8
  <2> HIDE DEF f, g, S, T, n
  <2> QED BY <1>3, <1>4, <1>6, <1>8, <2>1, SumSame, SumInt
<1> QED BY <1>7, <1>8

LEMMA NetUnchanged ==
    ASSUME fills' = fills
    PROVE  \A u, m, o : Ledger!Net(u, m, o)' = Ledger!Net(u, m, o)
BY DEF Ledger!Net

LEMMA NetEmpty ==
    ASSUME fills = <<>>
    PROVE  \A u, m, o : Ledger!Net(u, m, o) = 0
<1> TAKE u, m, o
<1>1. {i \in DOMAIN fills : /\ fills[i].user = u
                            /\ fills[i].quote.market = m
                            /\ fills[i].quote.outcome = o} = {}
  OBVIOUS
<1> QED BY <1>1, LedgerSum, SumEmpty DEF Ledger!Net

(* place_order moves the event's shares into or out of one position.       *)
LEMMA OrderMovesShares ==
    ASSUME ProgramTypeOK, NEW v \in Users, NEW q \in SignedQuote, Buy(v, q) \/ Sell(v, q),
           NEW u \in Users, NEW m \in Markets, NEW o \in Outcomes
    PROVE  position'[u][m].shares[o] =
             position[u][m].shares[o]
             + (IF u = v /\ m = q.market /\ o = q.outcome THEN Ledger!Signed(q) ELSE 0)
<1>1. /\ position \in [Users -> [Markets -> PositionRecord]]
      /\ position[u] \in [Markets -> PositionRecord]
      /\ position[u][m].shares \in [Outcomes -> Nat]
      /\ q.market \in Markets /\ q.outcome \in Outcomes /\ q.size \in Nat
      /\ position[v][q.market].shares \in [Outcomes -> Nat]
  <2>1. q.market \in Markets /\ q.outcome \in Outcomes /\ q.size \in Nat
    BY DEF SignedQuote
  <2>2. position \in [Users -> [Markets -> PositionRecord]]
    BY DEF ProgramTypeOK
  <2> QED BY <2>1, <2>2 DEF PositionRecord
<1> DEFINE held == position[v][q.market].shares[q.outcome]
<1>2. PICK n \in Int :
        /\ position' = [position EXCEPT ![v][q.market] =
               [open |-> TRUE, shares |-> [@.shares EXCEPT ![q.outcome] = n]]]
        /\ n = held + Ledger!Signed(q)
  <2>1. held \in Nat
    BY <1>1
  <2>2. CASE Buy(v, q)
    <3>1. Ledger!Signed(q) = q.size
      BY <2>2 DEF Buy, Ledger!Signed
    <3>2. held + q.size \in Int
      BY <1>1, <2>1
    <3> WITNESS held + q.size \in Int
    <3> QED BY <2>1, <2>2, <3>1, <3>2 DEF Buy
  <2>3. CASE Sell(v, q)
    <3>1. Ledger!Signed(q) = 0 - q.size
      BY <2>3 DEF Sell, Ledger!Signed
    <3>2. held - q.size \in Int
      BY <1>1, <2>1
    <3> WITNESS held - q.size \in Int
    <3> QED BY <1>1, <2>1, <2>3, <3>1 DEF Sell
  <2> QED BY <2>2, <2>3
<1>3. CASE u = v /\ m = q.market
  <2>1. position'[u][m].shares = [position[u][m].shares EXCEPT ![q.outcome] = n]
    BY <1>1, <1>2, <1>3
  <2> QED BY <1>1, <1>2, <1>3, <2>1
<1>4. CASE ~(u = v /\ m = q.market)
  <2>1. position'[u][m] = position[u][m]
    BY <1>1, <1>2, <1>4
  <2> QED BY <1>1, <1>4, <2>1
<1> QED BY <1>3, <1>4

(* A position matches the log again if nothing it is compared with moved.  *)
LEMMA MatchUnchanged ==
    ASSUME NEW u \in Users, NEW m \in Markets, PositionMatchesLog(u, m), fills' = fills,
           market'[m].status = market[m].status, market'[m].winning = market[m].winning,
           position'[u][m].shares = position[u][m].shares, claimed'[u][m] = claimed[u][m]
    PROVE  PositionMatchesLog(u, m)'
BY NetUnchanged DEF PositionMatchesLog

LEMMA PlaceOrderKeepsLog ==
    ASSUME ProgramTypeOK, WinnerKnown, WinnerOnlyResolved, PositionsMatchLog,
           NEW v \in Users, NEW q \in signed, PlaceOrder(v, q)
    PROVE  WinnerOnlyResolved' /\ PositionsMatchLog'
<1>1. /\ q \in SignedQuote /\ q.market \in Markets /\ (Buy(v, q) \/ Sell(v, q))
      /\ market[q.market].status = "Open" /\ claimed' = claimed
      /\ fills \in Seq(OrderFilled) /\ fills' = Append(fills, [user |-> v, quote |-> q])
  BY DEF ProgramTypeOK, SignedQuote, PlaceOrder, QuoteIsLive
<1>2. \A m \in Markets :
        market'[m].status = market[m].status /\ market'[m].winning = market[m].winning
  BY <1>1, OrderKeepsResolution
<1>3. WinnerOnlyResolved'
  BY <1>2 DEF WinnerOnlyResolved
<1>4. ASSUME NEW u \in Users, NEW m \in Markets
      PROVE  PositionMatchesLog(u, m)'
  <2>1. PositionMatchesLog(u, m)
    BY DEF PositionsMatchLog
  <2>2. CASE market[m].status # "Resolved"
    <3>1. ASSUME NEW o \in Outcomes
          PROVE  position'[u][m].shares[o] = Ledger!Net(u, m, o)'
      <4>1. position[u][m].shares[o] = Ledger!Net(u, m, o)
        BY <2>1, <2>2 DEF PositionMatchesLog
      <4>2. position'[u][m].shares[o] =
              position[u][m].shares[o]
              + (IF u = v /\ m = q.market /\ o = q.outcome THEN Ledger!Signed(q) ELSE 0)
        BY <1>1, OrderMovesShares
      <4>3. Ledger!Net(u, m, o)' =
              Ledger!Net(u, m, o)
              + (IF u = v /\ m = q.market /\ o = q.outcome THEN Ledger!Signed(q) ELSE 0)
        BY <1>1, NetAppend
      <4> QED BY <4>1, <4>2, <4>3
    <3> QED BY <1>1, <1>2, <2>1, <2>2, <3>1 DEF PositionMatchesLog
  <2>3. CASE market[m].status = "Resolved" /\ market[m].winning \in Outcomes
    <3> PICK w \in Outcomes : w = market[m].winning
      BY <2>3
    <3>1. m # q.market
      BY <1>1, <2>3
    <3>2. Ledger!Net(u, m, w)' = Ledger!Net(u, m, w)
      BY <1>1, <2>3, <3>1, NetAppend
    <3>3. position'[u][m].shares[w] = position[u][m].shares[w]
      <4>1. position[u][m].shares[w] \in Nat
        BY <2>3 DEF ProgramTypeOK, PositionRecord
      <4> QED BY <1>1, <2>3, <3>1, <4>1, OrderMovesShares
    <3> QED BY <1>1, <1>2, <2>1, <2>3, <3>2, <3>3 DEF PositionMatchesLog
  <2> QED BY <2>2, <2>3 DEF WinnerKnown
<1> QED BY <1>3, <1>4 DEF PositionsMatchLog

(* The other instructions leave the log alone.                             *)
LEMMA ResolveKeepsLog ==
    ASSUME ProgramTypeOK, WinnerOnlyResolved, PositionsMatchLog,
           NEW n \in Markets, NEW w \in Outcomes, ResolveMarket(n, w)
    PROVE  WinnerOnlyResolved' /\ PositionsMatchLog'
<1>1. /\ \A m \in Markets \ {n} : market'[m] = market[m]
      /\ market'[n].status = "Resolved" /\ market'[n].winning = w
      /\ market[n].status = "Open"
      /\ UNCHANGED <<position, claimed, fills>>
  BY DEF ProgramTypeOK, MarketRecord, ResolveMarket
<1>2. WinnerOnlyResolved'
  BY <1>1 DEF WinnerOnlyResolved
<1>3. ASSUME NEW u \in Users, NEW m \in Markets
      PROVE  PositionMatchesLog(u, m)'
  <2>1. PositionMatchesLog(u, m)
    BY DEF PositionsMatchLog
  <2>2. CASE m = n
    <3>1. /\ claimed[u][n] = 0
          /\ position[u][n].shares[w] = Ledger!Net(u, n, w)
          /\ position[u][n].shares[w] \in Nat
      BY <1>1, <2>1, <2>2 DEF PositionMatchesLog, ProgramTypeOK, PositionRecord
    <3>2. Ledger!Net(u, n, w)' = Ledger!Net(u, n, w)
      BY <1>1, NetUnchanged
    <3> QED BY <1>1, <2>2, <3>1, <3>2 DEF PositionMatchesLog
  <2>3. CASE m # n
    BY <1>1, <2>1, <2>3, MatchUnchanged
  <2> QED BY <2>2, <2>3
<1> QED BY <1>2, <1>3 DEF PositionsMatchLog

LEMMA ClaimKeepsLog ==
    ASSUME ProgramTypeOK, WinnerKnown, WinnerOnlyResolved, PositionsMatchLog,
           NEW v \in Users, NEW n \in Markets, Claim(v, n)
    PROVE  WinnerOnlyResolved' /\ PositionsMatchLog'
<1> PICK w \in Outcomes : w = market[n].winning
  BY DEF Claim, WinnerKnown
<1> DEFINE shares == position[v][n].shares[w]
<1>1. /\ market[n].status = "Resolved" /\ shares \in Nat /\ shares > 0
      /\ UNCHANGED <<market, fills>>
      /\ position' = [position EXCEPT ![v][n].shares[w] = 0]
      /\ claimed' = [claimed EXCEPT ![v][n] = @ + shares]
  BY DEF Claim, ProgramTypeOK, PositionRecord
<1>2. WinnerOnlyResolved'
  BY <1>1 DEF WinnerOnlyResolved
<1>3. ASSUME NEW u \in Users, NEW m \in Markets
      PROVE  PositionMatchesLog(u, m)'
  <2>1. PositionMatchesLog(u, m)
    BY DEF PositionsMatchLog
  <2>2. /\ position \in [Users -> [Markets -> PositionRecord]]
        /\ claimed \in [Users -> [Markets -> Nat]]
    BY DEF ProgramTypeOK
  <2>3. CASE u = v /\ m = n
    <3>1. position[u] \in [Markets -> PositionRecord] /\ position[u][m] \in PositionRecord
      BY <2>2
    <3>2. position'[u][m].shares[w] = 0
      BY <1>1, <2>2, <2>3, <3>1 DEF PositionRecord
    <3>3. claimed'[u][m] = claimed[u][m] + shares /\ claimed[u][m] \in Nat
      BY <1>1, <2>2, <2>3
    <3>4. Ledger!Net(u, m, w)' = Ledger!Net(u, m, w) /\ market'[m].winning = w
      BY <1>1, <2>3, NetUnchanged
    <3>5. shares + claimed[u][m] = Ledger!Net(u, m, w)
      BY <1>1, <2>1, <2>3 DEF PositionMatchesLog
    <3> HIDE DEF shares
    <3> QED BY <1>1, <2>3, <3>2, <3>3, <3>4, <3>5 DEF PositionMatchesLog
  <2>4. CASE ~(u = v /\ m = n)
    <3>1. position'[u][m] = position[u][m] /\ claimed'[u][m] = claimed[u][m]
      BY <1>1, <2>2, <2>4
    <3> QED BY <1>1, <2>1, <3>1, MatchUnchanged
  <2> QED BY <2>3, <2>4
<1> QED BY <1>2, <1>3 DEF PositionsMatchLog

LEMMA ClosePositionKeepsLog ==
    ASSUME ProgramTypeOK, WinnerKnown, WinnerOnlyResolved, PositionsMatchLog,
           NEW v \in Users, NEW n \in Markets, ClosePosition(v, n)
    PROVE  WinnerOnlyResolved' /\ PositionsMatchLog'
<1> DEFINE w == market[n].winning
<1>1. /\ market[n].status = "Resolved" /\ w \in Outcomes /\ position[v][n].shares[w] = 0
      /\ UNCHANGED <<market, fills, claimed>>
      /\ position' = [position EXCEPT ![v][n] = ClosedPosition]
  BY DEF ClosePosition, WinnerKnown
<1>2. WinnerOnlyResolved'
  BY <1>1 DEF WinnerOnlyResolved
<1>3. ASSUME NEW u \in Users, NEW m \in Markets
      PROVE  PositionMatchesLog(u, m)'
  <2>1. PositionMatchesLog(u, m)
    BY DEF PositionsMatchLog
  <2>2. position \in [Users -> [Markets -> PositionRecord]]
    BY DEF ProgramTypeOK
  <2>3. CASE u = v /\ m = n
    <3>1. position'[u][m].shares[w] = 0 /\ position[u][m].shares[w] = 0
      BY <1>1, <2>2, <2>3 DEF ClosedPosition, NoShares
    <3>2. Ledger!Net(u, m, w)' = Ledger!Net(u, m, w) /\ market'[m] = market[m]
      BY <1>1, NetUnchanged
    <3> QED BY <1>1, <2>1, <2>3, <3>1, <3>2 DEF PositionMatchesLog
  <2>4. CASE ~(u = v /\ m = n)
    <3>1. position'[u][m] = position[u][m]
      BY <1>1, <2>2, <2>4
    <3> QED BY <1>1, <2>1, <3>1, MatchUnchanged
  <2> QED BY <2>3, <2>4
<1> QED BY <1>2, <1>3 DEF PositionsMatchLog

(* create_market and the pause switch move neither a winner nor a share.   *)
LEMMA MarketKeepsWinners ==
    ASSUME ProgramTypeOK, WinnerOnlyResolved, NEW n \in Markets,
           \/ \E end \in EndTimes : CreateMarket(n, end)
           \/ \E b \in BOOLEAN : SetPaused(n, b)
    PROVE  /\ UNCHANGED <<position, vault, signed, fills, claimed>>
           /\ \A m \in Markets :
                 /\ market'[m].status = "Resolved" <=> market[m].status = "Resolved"
                 /\ market'[m].winning = market[m].winning
<1>1. CASE \E end \in EndTimes : CreateMarket(n, end)
  <2>1. PICK end : CreateMarket(n, end)
    BY <1>1
  <2>2. /\ UNCHANGED <<position, vault, signed, fills, claimed>>
        /\ market[n].status = "None"
        /\ \A m \in Markets \ {n} : market'[m] = market[m]
        /\ market'[n].status = "Open" /\ market'[n].winning = "None"
    BY <2>1 DEF CreateMarket, EmptyMarket, ProgramTypeOK
  <2> QED BY <2>2 DEF WinnerOnlyResolved
<1>2. CASE \E b \in BOOLEAN : SetPaused(n, b)
  BY <1>2 DEF SetPaused, MarketRecord, ProgramTypeOK
<1> QED BY <1>1, <1>2

LEMMA MarketKeepsLog ==
    ASSUME ProgramTypeOK, WinnerOnlyResolved, PositionsMatchLog, NEW n \in Markets,
           \/ \E end \in EndTimes : CreateMarket(n, end)
           \/ \E b \in BOOLEAN : SetPaused(n, b)
    PROVE  WinnerOnlyResolved' /\ PositionsMatchLog'
<1>1. /\ UNCHANGED <<position, claimed, fills>>
      /\ \A m \in Markets :
            /\ market'[m].status = "Resolved" <=> market[m].status = "Resolved"
            /\ market'[m].winning = market[m].winning
  BY MarketKeepsWinners
<1>2. WinnerOnlyResolved'
  BY <1>1 DEF WinnerOnlyResolved
<1>3. ASSUME NEW u \in Users, NEW m \in Markets
      PROVE  PositionMatchesLog(u, m)'
  BY <1>1, NetUnchanged DEF PositionsMatchLog, PositionMatchesLog
<1> QED BY <1>2, <1>3 DEF PositionsMatchLog

LEMMA InitLogInv == Init => LogInv
<1> SUFFICES ASSUME Init PROVE LogInv
  OBVIOUS
<1>1. IInv
  BY InitIInv
<1>2. WinnerOnlyResolved
  BY DEF Init, ProgramInit, WinnerOnlyResolved, EmptyMarket
<1>3. PositionsMatchLog
  BY NetEmpty DEF Init, ProgramInit, PositionsMatchLog, PositionMatchesLog, EmptyMarket,
                  ClosedPosition, NoShares
<1> QED BY <1>1, <1>2, <1>3 DEF LogInv

LEMMA InstructionKeepsLog ==
    ASSUME LogInv, Instruction
    PROVE  WinnerOnlyResolved' /\ PositionsMatchLog'
<1>1. ProgramTypeOK /\ WinnerKnown /\ WinnerOnlyResolved /\ PositionsMatchLog
  BY DEF LogInv, IInv, TypeOK
<1> QED BY <1>1, PlaceOrderKeepsLog, ResolveKeepsLog, ClaimKeepsLog, ClosePositionKeepsLog,
           MarketKeepsLog DEF Instruction

(* The steps of the server and of the clocks move no share and no money.   *)
LEMMA OtherStepsFrame ==
    ASSUME [Next]_vars, ~(Instruction /\ UNCHANGED serverVars)
    PROVE  UNCHANGED <<market, position, vault, fills, claimed>>
BY DEF Next, Sweep, WallTick, ChainTick, SignQuote, MarkQuoteConsumed, SweepClose, CloseUsedNonce,
       SweepRecord, SweepInterrupted, programVars, vars

LEMMA NextLogInv == LogInv /\ [Next]_vars => LogInv'
<1> SUFFICES ASSUME LogInv, [Next]_vars PROVE LogInv'
  OBVIOUS
<1>1. IInv'
  BY NextIInv DEF LogInv
<1>2. WinnerOnlyResolved' /\ PositionsMatchLog'
  <2>1. CASE Instruction
    BY <2>1, InstructionKeepsLog
  <2>2. CASE ~Instruction
    <3>1. UNCHANGED <<market, position, fills, claimed>>
      BY <2>2, OtherStepsFrame
    <3> QED BY <3>1, NetUnchanged DEF LogInv, WinnerOnlyResolved, PositionsMatchLog,
                                      PositionMatchesLog
  <2> QED BY <2>1, <2>2
<1> QED BY <1>1, <1>2 DEF LogInv

(* Until a market is resolved every position is what the event log says;   *)
(* afterwards every winning share in the log is still held or was claimed. *)
THEOREM LogMatchesPositions == Spec => []LogInv
BY InitLogInv, NextLogInv, PTL DEF Spec

-----------------------------------------------------------------------------
(* The refinement of MarketLedger                                          *)

LEMMA LedgerInit == Init => Ledger!Init
BY DEF Init, ProgramInit, EmptyMarket, Ledger!Init

(* place_order appends to the log what the ledger may append.              *)
LEMMA PlaceOrderIsFill ==
    ASSUME LogInv, NEW u \in Users, NEW q \in signed, PlaceOrder(u, q)
    PROVE  Ledger!Fill(u, q)
<1>1. /\ q \in SignedQuote /\ q.market \in Markets /\ q.outcome \in Outcomes /\ q.size \in Nat
      /\ (Buy(u, q) \/ Sell(u, q)) /\ market[q.market].status = "Open"
      /\ UNCHANGED <<signed, claimed>>
      /\ fills \in Seq(OrderFilled) /\ fills' = Append(fills, [user |-> u, quote |-> q])
  BY DEF LogInv, IInv, TypeOK, ProgramTypeOK, SignedQuote, PlaceOrder, QuoteIsLive
<1>2. market[q.market].winning = "None"
  BY <1>1 DEF LogInv, WinnerOnlyResolved
<1>3. Ledger!Filled(q) => q.nonce \in RequestNonces
  BY DEF LogInv, IInv, TypeOK, ProgramTypeOK, SignedQuote, FilledIsSpent, PlaceOrder, QuoteIsLive,
         Ledger!Filled
<1>4. Ledger!Net(u, q.market, q.outcome) + Ledger!Signed(q) >= 0
  <2> DEFINE held == position[u][q.market].shares[q.outcome]
  <2>1. Ledger!Net(u, q.market, q.outcome) = held
    BY <1>1 DEF LogInv, PositionsMatchLog, PositionMatchesLog
  <2>2. held \in Nat
    BY <1>1 DEF LogInv, IInv, TypeOK, ProgramTypeOK, PositionRecord
  <2>3. Ledger!Signed(q) = q.size \/ (Ledger!Signed(q) = 0 - q.size /\ held >= q.size)
    BY <1>1 DEF Buy, Sell, Ledger!Signed
  <2>4. q.size \in Nat
    BY <1>1
  <2> HIDE DEF held
  <2> QED BY <2>1, <2>2, <2>3, <2>4
<1>5. \A m \in Markets : market'[m].winning = market[m].winning
  BY <1>1, OrderKeepsResolution DEF LogInv, IInv, TypeOK
<1> QED BY <1>1, <1>2, <1>3, <1>4, <1>5 DEF Ledger!Fill

LEMMA ClaimIsPay ==
    ASSUME LogInv, NEW u \in Users, NEW m \in Markets, Claim(u, m)
    PROVE  Ledger!Pay(u, m)
<1> PICK w \in Outcomes : w = market[m].winning
  BY DEF Claim, LogInv, IInv, WinnerKnown
<1> DEFINE shares == position[u][m].shares[w]
<1>1. /\ market[m].status = "Resolved" /\ shares > 0
      /\ UNCHANGED <<market, signed, fills>>
      /\ claimed' = [claimed EXCEPT ![u][m] = @ + shares]
  BY DEF Claim
<1>2. /\ shares + claimed[u][m] = Ledger!Net(u, m, w)
      /\ claimed[u][m] > 0 => shares = 0
  BY <1>1 DEF LogInv, PositionsMatchLog, PositionMatchesLog
<1>3. /\ shares \in Nat /\ claimed[u][m] \in Nat
      /\ claimed \in [Users -> [Markets -> Nat]]
  BY DEF LogInv, IInv, TypeOK, ProgramTypeOK, PositionRecord
<1>4. claimed[u][m] = 0 /\ Ledger!Net(u, m, w) = shares
  BY <1>1, <1>2, <1>3
<1>5. claimed' = [claimed EXCEPT ![u][m] = Ledger!Net(u, m, w)]
  <2>1. claimed[u][m] + shares = Ledger!Net(u, m, w)
    BY <1>2, <1>3
  <2> QED BY <1>1, <1>3, <2>1
<1>6. w # "None"
  BY DEF Outcomes
<1> HIDE DEF shares
<1> QED BY <1>1, <1>4, <1>5, <1>6 DEF Ledger!Pay

LEMMA ResolveIsResolve ==
    ASSUME LogInv, NEW m \in Markets, NEW o \in Outcomes, ResolveMarket(m, o)
    PROVE  Ledger!Resolve(m, o)
<1>1. market \in [Markets -> MarketRecord]
  BY DEF LogInv, IInv, TypeOK, ProgramTypeOK
<1>2. \A n \in Markets :
        market'[n].winning = IF n = m THEN o ELSE market[n].winning
  BY <1>1 DEF ResolveMarket, MarketRecord
<1> QED BY <1>1, <1>2 DEF LogInv, WinnerOnlyResolved, ResolveMarket, Ledger!Resolve

(* Every step of the chain, the server and the clocks is a step of the     *)
(* ledger, or leaves it alone.                                             *)
LEMMA LedgerStep ==
    ASSUME LogInv, [Next]_vars
    PROVE  [Ledger!Next]_(Ledger!ledgerVars)
<1> USE DEF Ledger!ledgerVars
<1>1. ASSUME NEW u \in Users, NEW q \in signed, PlaceOrder(u, q)
      PROVE  Ledger!Next
  BY <1>1, PlaceOrderIsFill DEF Ledger!Next
<1>2. ASSUME NEW u \in Users, NEW m \in Markets, Claim(u, m)
      PROVE  Ledger!Next
  BY <1>2, ClaimIsPay DEF Ledger!Next
<1>3. ASSUME NEW m \in Markets, NEW o \in Outcomes, ResolveMarket(m, o)
      PROVE  Ledger!Next
  BY <1>3, ResolveIsResolve DEF Ledger!Next
<1>4. ASSUME NEW m \in Markets, (\E end \in EndTimes : CreateMarket(m, end))
                                \/ (\E b \in BOOLEAN : SetPaused(m, b))
      PROVE  UNCHANGED Ledger!ledgerVars
  <2>1. /\ UNCHANGED <<signed, fills, claimed>>
        /\ \A n \in Markets : market'[n].winning = market[n].winning
    BY <1>4, MarketKeepsWinners DEF LogInv, IInv, TypeOK
  <2> QED BY <2>1
<1>5. ASSUME NEW u \in Users, NEW m \in Markets, ClosePosition(u, m)
      PROVE  UNCHANGED Ledger!ledgerVars
  BY <1>5 DEF ClosePosition
<1>6. CASE Instruction
  BY <1>1, <1>2, <1>3, <1>4, <1>5, <1>6 DEF Instruction
<1>7. CASE ~Instruction
  <2>1. UNCHANGED <<market, fills, claimed>>
    BY <1>7, OtherStepsFrame
  <2>2. signed \subseteq signed'
    BY <1>7 DEF Next, Sweep, WallTick, ChainTick, SignQuote, MarkQuoteConsumed, SweepClose,
                CloseUsedNonce, SweepRecord, SweepInterrupted, programVars, vars
  <2>3. Ledger!Sign
    BY <2>1, <2>2 DEF Ledger!Sign
  <2> QED BY <2>3 DEF Ledger!Next
<1> QED BY <1>6, <1>7

(* The chain and the server together keep the ledger's promise: an order   *)
(* is logged once per quote and only while its market is open, nobody      *)
(* sells what the log does not give them, and every holder is paid their   *)
(* winning shares once.                                                    *)
THEOREM LedgerRefined == Spec => LedgerSpec
<1>1. Init => Ledger!Init
  BY LedgerInit
<1>2. LogInv /\ [Next]_vars => [Ledger!Next]_(Ledger!ledgerVars)
  BY LedgerStep
<1> QED BY <1>1, <1>2, LogMatchesPositions, PTL DEF Spec, LedgerSpec, Ledger!Spec

-----------------------------------------------------------------------------
(* The totals of a market                                                  *)

HeldOf(m, o) == SumFunction([u \in Users |-> position[u][m].shares[o]])
ClaimedOf(m) == SumFunction([u \in Users |-> claimed[u][m]])

LEMMA HeldIsInt ==
    ASSUME ProgramTypeOK, NEW m \in Markets, NEW o \in Outcomes
    PROVE  HeldOf(m, o) \in Int /\ ClaimedOf(m) \in Int
<1> DEFINE f == [u \in Users |-> position[u][m].shares[o]]
           g == [u \in Users |-> claimed[u][m]]
<1>1. \A u \in Users : f[u] \in Int /\ g[u] \in Int
  BY DEF ProgramTypeOK, PositionRecord
<1>2. HeldOf(m, o) = SumFunctionOnSet(f, Users) /\ ClaimedOf(m) = SumFunctionOnSet(g, Users)
  BY DEF HeldOf, ClaimedOf, SumFunction
<1> HIDE DEF f, g
<1> QED BY <1>1, <1>2, SumInt, LifecycleAssumption

(* One user's position changes, the sum of all changes by as much.         *)
LEMMA HeldChange ==
    ASSUME ProgramTypeOK, ProgramTypeOK', NEW m \in Markets, NEW o \in Outcomes, NEW v \in Users,
           \A u \in Users \ {v} : position'[u][m].shares[o] = position[u][m].shares[o]
    PROVE  HeldOf(m, o)' = HeldOf(m, o) - position[v][m].shares[o] + position'[v][m].shares[o]
<1> DEFINE f == [u \in Users |-> position[u][m].shares[o]]
           g == [u \in Users |-> position'[u][m].shares[o]]
<1>1. \A u \in Users : f[u] \in Int /\ g[u] \in Int
  <2> TAKE u \in Users
  <2>1. position[u][m].shares[o] \in Nat
    BY DEF ProgramTypeOK, PositionRecord
  <2>2. position'[u][m].shares[o] \in Nat
    BY DEF ProgramTypeOK, PositionRecord
  <2> QED BY <2>1, <2>2
<1>2. \A u \in Users \ {v} : g[u] = f[u]
  OBVIOUS
<1>3. f[v] = position[v][m].shares[o] /\ g[v] = position'[v][m].shares[o]
  OBVIOUS
<1>4. HeldOf(m, o) = SumFunctionOnSet(f, Users) /\ HeldOf(m, o)' = SumFunctionOnSet(g, Users)
  BY DEF HeldOf, SumFunction
<1> HIDE DEF f, g
<1> QED BY <1>1, <1>2, <1>3, <1>4, SumChange, LifecycleAssumption

LEMMA ClaimedChange ==
    ASSUME ProgramTypeOK, ProgramTypeOK', NEW m \in Markets, NEW v \in Users,
           \A u \in Users \ {v} : claimed'[u][m] = claimed[u][m]
    PROVE  ClaimedOf(m)' = ClaimedOf(m) - claimed[v][m] + claimed'[v][m]
<1> DEFINE f == [u \in Users |-> claimed[u][m]]
           g == [u \in Users |-> claimed'[u][m]]
<1>1. \A u \in Users : f[u] \in Int /\ g[u] \in Int
  BY DEF ProgramTypeOK
<1>2. \A u \in Users \ {v} : g[u] = f[u]
  OBVIOUS
<1>3. f[v] = claimed[v][m] /\ g[v] = claimed'[v][m]
  OBVIOUS
<1>4. ClaimedOf(m) = SumFunctionOnSet(f, Users) /\ ClaimedOf(m)' = SumFunctionOnSet(g, Users)
  BY DEF ClaimedOf, SumFunction
<1> HIDE DEF f, g
<1> QED BY <1>1, <1>2, <1>3, <1>4, SumChange, LifecycleAssumption

LEMMA ClaimedZero ==
    ASSUME NEW m \in Markets, \A u \in Users : claimed[u][m] = 0
    PROVE  ClaimedOf(m) = 0
<1> DEFINE f == [u \in Users |-> claimed[u][m]]
<1>1. \A u \in Users : f[u] = 0
  OBVIOUS
<1>2. ClaimedOf(m) = SumFunctionOnSet(f, Users)
  BY DEF ClaimedOf, SumFunction
<1> HIDE DEF f
<1> QED BY <1>1, <1>2, SumZero, LifecycleAssumption

TotalMatches(m, o) ==
    /\ market[m].status # "Resolved" => market[m].total[o] = HeldOf(m, o)
    /\ market[m].winning = o => market[m].total[o] = HeldOf(m, o) + ClaimedOf(m)

LEMMA TotalsAre ==
    TotalsMatchPositions <=> \A m \in Markets, o \in Outcomes : TotalMatches(m, o)
BY DEF TotalsMatchPositions, TotalMatches, HeldOf, ClaimedOf

(* place_order moves the total of its market and outcome and no other.     *)
LEMMA OrderMovesTotal ==
    ASSUME ProgramTypeOK, NEW v \in Users, NEW q \in SignedQuote, Buy(v, q) \/ Sell(v, q),
           NEW m \in Markets, NEW o \in Outcomes
    PROVE  market'[m].total[o] =
             market[m].total[o]
             + (IF m = q.market /\ o = q.outcome THEN Ledger!Signed(q) ELSE 0)
<1>1. /\ market \in [Markets -> MarketRecord] /\ market[m] \in MarketRecord
      /\ market[m].total \in [Outcomes -> Nat]
      /\ q.market \in Markets /\ q.outcome \in Outcomes /\ q.size \in Nat
      /\ market[q.market].total \in [Outcomes -> Nat]
  <2>1. q.market \in Markets /\ q.outcome \in Outcomes /\ q.size \in Nat
    BY DEF SignedQuote
  <2>2. market \in [Markets -> MarketRecord]
    BY DEF ProgramTypeOK
  <2> QED BY <2>1, <2>2 DEF MarketRecord
<1> DEFINE sold == market[q.market].total[q.outcome]
<1>2. PICK n \in Int :
        /\ market' = [market EXCEPT ![q.market].total[q.outcome] = n]
        /\ n = sold + Ledger!Signed(q)
  <2>1. sold \in Nat
    BY <1>1
  <2>2. CASE Buy(v, q)
    <3>1. Ledger!Signed(q) = q.size
      BY <2>2 DEF Buy, Ledger!Signed
    <3>2. sold + q.size \in Int
      BY <1>1, <2>1
    <3> WITNESS sold + q.size \in Int
    <3> QED BY <2>1, <2>2, <3>1, <3>2 DEF Buy
  <2>3. CASE Sell(v, q)
    <3>1. Ledger!Signed(q) = 0 - q.size
      BY <2>3 DEF Sell, Ledger!Signed
    <3>2. sold - q.size \in Int
      BY <1>1, <2>1
    <3> WITNESS sold - q.size \in Int
    <3> QED BY <1>1, <2>1, <2>3, <3>1 DEF Sell
  <2> QED BY <2>2, <2>3
<1>3. CASE m = q.market
  <2>1. market'[m].total = [market[m].total EXCEPT ![q.outcome] = n]
    BY <1>1, <1>2, <1>3 DEF MarketRecord
  <2> QED BY <1>1, <1>2, <1>3, <2>1
<1>4. CASE m # q.market
  <2>1. market'[m] = market[m]
    BY <1>1, <1>2, <1>4
  <2> QED BY <1>1, <1>4, <2>1
<1> QED BY <1>3, <1>4

LEMMA PlaceOrderKeepsTotals ==
    ASSUME LogInv, ProgramTypeOK', UnallocatedEmpty, TotalsMatchPositions,
           NEW v \in Users, NEW q \in signed, PlaceOrder(v, q)
    PROVE  UnallocatedEmpty' /\ TotalsMatchPositions'
<1>1. /\ q \in SignedQuote /\ q.market \in Markets /\ (Buy(v, q) \/ Sell(v, q))
      /\ market[q.market].status = "Open" /\ claimed' = claimed
      /\ ProgramTypeOK /\ WinnerOnlyResolved
  BY DEF LogInv, IInv, TypeOK, ProgramTypeOK, SignedQuote, PlaceOrder, QuoteIsLive
<1>2. \A m \in Markets :
        market'[m].status = market[m].status /\ market'[m].winning = market[m].winning
  BY <1>1, OrderKeepsResolution
<1>3. UnallocatedEmpty'
  <2> SUFFICES ASSUME NEW m \in Markets, market'[m].status = "None"
               PROVE  market'[m].total = NoShares
    BY DEF UnallocatedEmpty
  <2>1. m # q.market /\ market[m].total = NoShares
    BY <1>1, <1>2 DEF UnallocatedEmpty
  <2>2. market'[m] = market[m]
    BY <1>1, <2>1 DEF Buy, Sell, ProgramTypeOK
  <2> QED BY <2>1, <2>2
<1>4. ASSUME NEW m \in Markets, NEW o \in Outcomes
      PROVE  TotalMatches(m, o)'
  <2> DEFINE d == IF m = q.market /\ o = q.outcome THEN Ledger!Signed(q) ELSE 0
  <2>1. TotalMatches(m, o)
    BY TotalsAre
  <2>2. market'[m].total[o] = market[m].total[o] + d
    BY <1>1, OrderMovesTotal
  <2>3. market[m].total[o] \in Int
    BY <1>1 DEF ProgramTypeOK, MarketRecord
  <2>4. d \in Int
    BY <1>1 DEF SignedQuote, Ledger!Signed
  <2>5. HeldOf(m, o)' = HeldOf(m, o) + d /\ HeldOf(m, o) \in Int /\ ClaimedOf(m) \in Int
    <3>1. position'[v][m].shares[o] = position[v][m].shares[o] + d
      BY <1>1, OrderMovesShares
    <3>2. \A u \in Users \ {v} : position'[u][m].shares[o] = position[u][m].shares[o]
      <4> TAKE u \in Users \ {v}
      <4>1. position[u][m].shares[o] \in Nat
        BY <1>1 DEF ProgramTypeOK, PositionRecord
      <4>2. position'[u][m].shares[o] = position[u][m].shares[o] + 0
        BY <1>1, OrderMovesShares
      <4> QED BY <4>1, <4>2
    <3>3. HeldOf(m, o)' = HeldOf(m, o) - position[v][m].shares[o] + position'[v][m].shares[o]
      BY <1>1, <3>2, HeldChange
    <3>4. position[v][m].shares[o] \in Nat
      BY <1>1 DEF ProgramTypeOK, PositionRecord
    <3>5. HeldOf(m, o) \in Int /\ ClaimedOf(m) \in Int
      BY <1>1, HeldIsInt
    <3> HIDE DEF d
    <3> QED BY <2>4, <3>1, <3>3, <3>4, <3>5
  <2>6. ClaimedOf(m)' = ClaimedOf(m)
    BY <1>1 DEF ClaimedOf
  <2> HIDE DEF d
  <2> QED BY <1>2, <2>1, <2>2, <2>3, <2>4, <2>5, <2>6 DEF TotalMatches
<1>5. TotalsMatchPositions'
  BY <1>4 DEF TotalsMatchPositions, TotalMatches, HeldOf, ClaimedOf
<1> QED BY <1>3, <1>5

(* Nothing of a market and its positions moves.                            *)
LEMMA TotalUnchanged ==
    ASSUME NEW m \in Markets, NEW o \in Outcomes, TotalMatches(m, o),
           market'[m].status = "Resolved" <=> market[m].status = "Resolved",
           market'[m].winning = market[m].winning, market'[m].total[o] = market[m].total[o],
           \A u \in Users : /\ position'[u][m].shares[o] = position[u][m].shares[o]
                            /\ claimed'[u][m] = claimed[u][m]
    PROVE  TotalMatches(m, o)'
<1>1. HeldOf(m, o)' = HeldOf(m, o)
  <2>1. [u \in Users |-> position'[u][m].shares[o]] = [u \in Users |-> position[u][m].shares[o]]
    OBVIOUS
  <2> QED BY <2>1 DEF HeldOf
<1>2. ClaimedOf(m)' = ClaimedOf(m)
  <2>1. [u \in Users |-> claimed'[u][m]] = [u \in Users |-> claimed[u][m]]
    OBVIOUS
  <2> QED BY <2>1 DEF ClaimedOf
<1> QED BY <1>1, <1>2 DEF TotalMatches

LEMMA ResolveKeepsTotals ==
    ASSUME LogInv, ProgramTypeOK', TotalsMatchPositions,
           NEW n \in Markets, NEW w \in Outcomes, ResolveMarket(n, w)
    PROVE  \A m \in Markets, o \in Outcomes : TotalMatches(m, o)'
<1> TAKE m \in Markets, o \in Outcomes
<1>1. /\ \A k \in Markets \ {n} : market'[k] = market[k]
      /\ market'[n].status = "Resolved" /\ market'[n].winning = w
      /\ market'[n].total = market[n].total
      /\ market[n].status = "Open"
      /\ UNCHANGED <<position, claimed>>
  BY DEF LogInv, IInv, TypeOK, ProgramTypeOK, MarketRecord, ResolveMarket
<1>2. TotalMatches(m, o)
  BY TotalsAre
<1>3. HeldOf(m, o)' = HeldOf(m, o) /\ ClaimedOf(m)' = ClaimedOf(m) /\ HeldOf(m, o) \in Int
  BY <1>1, HeldIsInt DEF HeldOf, ClaimedOf, LogInv, IInv, TypeOK
<1>4. CASE m = n
  <2>1. \A u \in Users : claimed[u][m] = 0
    BY <1>1, <1>4 DEF LogInv, PositionsMatchLog, PositionMatchesLog
  <2>2. ClaimedOf(m) = 0
    BY <2>1, ClaimedZero
  <2> QED BY <1>1, <1>2, <1>3, <1>4, <2>2 DEF TotalMatches
<1>5. CASE m # n
  BY <1>1, <1>2, <1>3, <1>5 DEF TotalMatches
<1> QED BY <1>4, <1>5

(* What leaves the winning positions is added to the claims.               *)
LEMMA ClaimKeepsTotals ==
    ASSUME LogInv, ProgramTypeOK', TotalsMatchPositions,
           NEW v \in Users, NEW n \in Markets, Claim(v, n)
    PROVE  \A m \in Markets, o \in Outcomes : TotalMatches(m, o)'
<1> TAKE m \in Markets, o \in Outcomes
<1>1. /\ ProgramTypeOK /\ market[n].status = "Resolved" /\ market[n].winning \in Outcomes
      /\ position \in [Users -> [Markets -> PositionRecord]]
      /\ claimed \in [Users -> [Markets -> Nat]]
      /\ market' = market
  BY DEF LogInv, IInv, TypeOK, ProgramTypeOK, WinnerKnown, Claim
<1>2. TotalMatches(m, o)
  BY TotalsAre
<1>3. CASE m # n
  <2>1. \A u \in Users : position'[u][m] = position[u][m] /\ claimed'[u][m] = claimed[u][m]
    BY <1>1, <1>3 DEF Claim
  <2> QED BY <1>1, <1>2, <2>1, TotalUnchanged
<1>4. CASE m = n /\ o # market[n].winning
  BY <1>1, <1>4 DEF TotalMatches
<1>5. CASE m = n /\ o = market[n].winning
  <2> DEFINE shares == position[v][m].shares[o]
  <2>1. \A u \in Users \ {v} : position'[u][m] = position[u][m] /\ claimed'[u][m] = claimed[u][m]
    BY <1>1 DEF Claim
  <2>2. shares \in Nat /\ claimed[v][m] \in Nat
    BY <1>1 DEF PositionRecord
  <2>3. position'[v][m].shares[o] = 0 /\ claimed'[v][m] = claimed[v][m] + shares
    <3>1. position[v] \in [Markets -> PositionRecord] /\ position[v][m] \in PositionRecord
      BY <1>1
    <3> QED BY <1>1, <1>5, <3>1 DEF Claim, PositionRecord
  <2>4. HeldOf(m, o)' = HeldOf(m, o) - shares + 0
    BY <1>1, <2>1, <2>3, HeldChange
  <2>5. ClaimedOf(m)' = ClaimedOf(m) - claimed[v][m] + (claimed[v][m] + shares)
    BY <1>1, <2>1, <2>3, ClaimedChange
  <2>6. HeldOf(m, o) \in Int /\ ClaimedOf(m) \in Int
    BY <1>1, HeldIsInt
  <2> HIDE DEF shares
  <2> QED BY <1>1, <1>2, <1>5, <2>2, <2>4, <2>5, <2>6 DEF TotalMatches
<1> QED BY <1>3, <1>4, <1>5

LEMMA ClosePositionKeepsTotals ==
    ASSUME LogInv, TotalsMatchPositions,
           NEW v \in Users, NEW n \in Markets, ClosePosition(v, n)
    PROVE  \A m \in Markets, o \in Outcomes : TotalMatches(m, o)'
<1> TAKE m \in Markets, o \in Outcomes
<1>1. /\ market[n].status = "Resolved" /\ market[n].winning \in Outcomes
      /\ position[v][n].shares[market[n].winning] = 0
      /\ position \in [Users -> [Markets -> PositionRecord]]
      /\ position' = [position EXCEPT ![v][n] = ClosedPosition]
      /\ UNCHANGED <<market, claimed>>
  BY DEF LogInv, IInv, TypeOK, ProgramTypeOK, WinnerKnown, ClosePosition
<1>2. TotalMatches(m, o)
  BY TotalsAre
<1>3. CASE m # n \/ o = market[n].winning
  <2>1. \A u \in Users : position'[u][m].shares[o] = position[u][m].shares[o]
    <3> TAKE u \in Users
    <3>1. CASE u = v /\ m = n
      BY <1>1, <1>3, <3>1 DEF ClosedPosition, NoShares
    <3>2. CASE ~(u = v /\ m = n)
      BY <1>1, <3>2
    <3> QED BY <3>1, <3>2
  <2> QED BY <1>1, <1>2, <2>1, TotalUnchanged
<1>4. CASE m = n /\ o # market[n].winning
  BY <1>1, <1>4 DEF TotalMatches
<1> QED BY <1>3, <1>4

LEMMA MarketKeepsTotals ==
    ASSUME LogInv, UnallocatedEmpty, TotalsMatchPositions, NEW n \in Markets,
           \/ \E end \in EndTimes : CreateMarket(n, end)
           \/ \E b \in BOOLEAN : SetPaused(n, b)
    PROVE  UnallocatedEmpty' /\ \A m \in Markets, o \in Outcomes : TotalMatches(m, o)'
<1>1. /\ UNCHANGED <<position, claimed>>
      /\ \A m \in Markets :
            /\ market'[m].status = "Resolved" <=> market[m].status = "Resolved"
            /\ market'[m].winning = market[m].winning
  BY MarketKeepsWinners DEF LogInv, IInv, TypeOK
<1>2. \A m \in Markets : /\ market'[m].total = market[m].total
                         /\ market'[m].status = "None" => market[m].status = "None"
  <2>1. market \in [Markets -> MarketRecord]
    BY DEF LogInv, IInv, TypeOK, ProgramTypeOK
  <2>2. CASE \E end \in EndTimes : CreateMarket(n, end)
    BY <2>1, <2>2 DEF CreateMarket, EmptyMarket, UnallocatedEmpty
  <2>3. CASE \E b \in BOOLEAN : SetPaused(n, b)
    BY <2>1, <2>3 DEF SetPaused, MarketRecord
  <2> QED BY <2>2, <2>3
<1>3. UnallocatedEmpty'
  BY <1>2 DEF UnallocatedEmpty
<1>4. ASSUME NEW m \in Markets, NEW o \in Outcomes
      PROVE  TotalMatches(m, o)'
  <2>1. TotalMatches(m, o)
    BY TotalsAre
  <2> QED BY <1>1, <1>2, <2>1, TotalUnchanged
<1> QED BY <1>3, <1>4

-----------------------------------------------------------------------------
(* The vault                                                               *)

OfSide(side) == {i \in DOMAIN fills : fills[i].quote.side = side}
Moved(side)  == SumFunctionOnSet([i \in DOMAIN fills |-> UsdcAmount(fills[i].quote)], OfSide(side))
PaidOut      == SumFunction([um \in Users \X Markets |-> claimed[um[1]][um[2]]])

LEMMA VaultIs ==
    VaultMatchesEvents <=>
        vault = InitialVault + Moved("BUY") - Moved("SELL") - PaidOut * USDC_DECIMALS_MULTIPLIER
BY DEF VaultMatchesEvents, Moved, OfSide, PaidOut

LEMMA MovedAppend ==
    ASSUME fills \in Seq(OrderFilled), NEW v \in Users, NEW q \in SignedQuote,
           fills' = Append(fills, [user |-> v, quote |-> q]), NEW side \in Sides
    PROVE  /\ Moved(side) \in Int
           /\ Moved(side)' = Moved(side) + (IF q.side = side THEN UsdcAmount(q) ELSE 0)
<1> DEFINE n == Len(fills) + 1
           f == [i \in DOMAIN fills |-> UsdcAmount(fills[i].quote)]
           g == [i \in DOMAIN fills' |-> UsdcAmount(fills'[i].quote)]
           S == {i \in DOMAIN fills : fills[i].quote.side = side}
           T == {i \in DOMAIN fills' : fills'[i].quote.side = side}
<1>1. /\ Len(fills) \in Nat /\ DOMAIN fills = 1 .. Len(fills) /\ DOMAIN fills' = 1 .. n
      /\ fills'[n] = [user |-> v, quote |-> q]
      /\ \A i \in DOMAIN fills : fills'[i] = fills[i] /\ fills[i].quote \in SignedQuote
  <2>1. /\ Len(fills) \in Nat /\ DOMAIN fills = 1 .. Len(fills) /\ DOMAIN fills' = 1 .. n
        /\ fills'[n] = [user |-> v, quote |-> q]
        /\ \A i \in DOMAIN fills : fills'[i] = fills[i] /\ fills[i] \in OrderFilled
    OBVIOUS
  <2> QED BY <2>1 DEF OrderFilled
<1>2. \A r \in SignedQuote : UsdcAmount(r) \in Int
  BY UsdcAmountNat
<1>3. IsFiniteSet(S) /\ n \notin S
  <2>1. IsFiniteSet(DOMAIN fills)
    BY <1>1, FS_Interval
  <2> QED BY <1>1, <2>1, FS_Subset
<1>4. \A i \in S : f[i] \in Int /\ g[i] = f[i]
  BY <1>1, <1>2
<1>5. g[n] = UsdcAmount(q) /\ g[n] \in Int
  BY <1>1, <1>2
<1>6. Moved(side) = SumFunctionOnSet(f, S) /\ Moved(side)' = SumFunctionOnSet(g, T)
  BY DEF Moved, OfSide, UsdcAmount
<1>7. CASE q.side = side
  <2>1. T = S \cup {n}
    BY <1>1, <1>7
  <2> HIDE DEF f, g, S, T, n
  <2> QED BY <1>3, <1>4, <1>5, <1>6, <1>7, <2>1, SumGrow, SumInt
<1>8. CASE q.side # side
  <2>1. T = S
    BY <1>1, <1>8
  <2> HIDE DEF f, g, S, T, n
  <2> QED BY <1>3, <1>4, <1>6, <1>8, <2>1, SumSame, SumInt
<1> QED BY <1>7, <1>8

LEMMA MovedIsInt ==
    ASSUME fills \in Seq(OrderFilled)
    PROVE  \A side \in Sides : Moved(side) \in Int
<1> TAKE side \in Sides
<1> DEFINE f == [i \in DOMAIN fills |-> UsdcAmount(fills[i].quote)]
           S == OfSide(side)
<1>1. /\ DOMAIN fills = 1 .. Len(fills) /\ Len(fills) \in Nat
      /\ \A i \in DOMAIN fills : fills[i].quote \in SignedQuote
  <2>1. /\ DOMAIN fills = 1 .. Len(fills) /\ Len(fills) \in Nat
        /\ \A i \in DOMAIN fills : fills[i] \in OrderFilled
    OBVIOUS
  <2> QED BY <2>1 DEF OrderFilled
<1>2. IsFiniteSet(S)
  <2>1. IsFiniteSet(DOMAIN fills) /\ S \subseteq DOMAIN fills
    BY <1>1, FS_Interval DEF OfSide
  <2> QED BY <2>1, FS_Subset
<1>3. \A i \in S : f[i] \in Int
  BY <1>1, UsdcAmountNat DEF OfSide
<1>4. Moved(side) = SumFunctionOnSet(f, S)
  BY DEF Moved
<1> HIDE DEF f, S
<1> QED BY <1>2, <1>3, <1>4, SumInt

LEMMA PaidOutIsInt == ProgramTypeOK => PaidOut \in Int
<1> SUFFICES ASSUME ProgramTypeOK PROVE PaidOut \in Int
  OBVIOUS
<1> DEFINE f == [um \in Users \X Markets |-> claimed[um[1]][um[2]]]
<1>1. \A um \in Users \X Markets : f[um] \in Int
  BY DEF ProgramTypeOK
<1>2. PaidOut = SumFunctionOnSet(f, Users \X Markets)
  BY DEF PaidOut, SumFunction
<1>3. IsFiniteSet(Users \X Markets)
  BY FS_Product, LifecycleAssumption
<1> HIDE DEF f
<1> QED BY <1>1, <1>2, <1>3, SumInt

LEMMA PaidOutChange ==
    ASSUME ProgramTypeOK, NEW v \in Users, NEW n \in Markets, NEW k \in Nat,
           claimed' = [claimed EXCEPT ![v][n] = @ + k]
    PROVE  PaidOut' = PaidOut + k
<1> DEFINE f == [um \in Users \X Markets |-> claimed[um[1]][um[2]]]
           g == [um \in Users \X Markets |-> claimed'[um[1]][um[2]]]
           x == <<v, n>>
<1>1. claimed \in [Users -> [Markets -> Nat]] /\ claimed' \in [Users -> [Markets -> Nat]]
  BY DEF ProgramTypeOK
<1>2. \A um \in Users \X Markets : f[um] \in Int /\ g[um] \in Int
  BY <1>1
<1>3. \A um \in (Users \X Markets) \ {x} : g[um] = f[um]
  BY <1>1
<1>4. x \in Users \X Markets /\ g[x] = f[x] + k
  BY <1>1
<1>5. PaidOut = SumFunctionOnSet(f, Users \X Markets) /\ PaidOut' = SumFunctionOnSet(g, Users \X Markets)
  BY DEF PaidOut, SumFunction
<1>6. IsFiniteSet(Users \X Markets)
  BY FS_Product, LifecycleAssumption
<1>7. SumFunctionOnSet(f, Users \X Markets) \in Int
  <2> HIDE DEF f, g, x
  <2> QED BY <1>2, <1>6, SumInt
<1> HIDE DEF f, g, x
<1>8. SumFunctionOnSet(g, Users \X Markets) = SumFunctionOnSet(f, Users \X Markets) - f[x] + g[x]
  BY <1>2, <1>3, <1>4, <1>6, SumChange
<1> QED BY <1>2, <1>4, <1>5, <1>7, <1>8

LEMMA PlaceOrderKeepsVault ==
    ASSUME ProgramTypeOK, VaultMatchesEvents,
           NEW v \in Users, NEW q \in signed, PlaceOrder(v, q)
    PROVE  VaultMatchesEvents'
<1>1. /\ q \in SignedQuote /\ (Buy(v, q) \/ Sell(v, q)) /\ claimed' = claimed
      /\ fills \in Seq(OrderFilled) /\ fills' = Append(fills, [user |-> v, quote |-> q])
  BY DEF ProgramTypeOK, PlaceOrder
<1>2. PaidOut' = PaidOut /\ PaidOut \in Int
  BY <1>1, PaidOutIsInt DEF PaidOut
<1>3. UsdcAmount(q) \in Int
  BY <1>1, UsdcAmountNat
<1>4. \A side \in Sides :
        /\ Moved(side) \in Int
        /\ Moved(side)' = Moved(side) + (IF q.side = side THEN UsdcAmount(q) ELSE 0)
  BY <1>1, MovedAppend
<1>5. \/ q.side = "BUY" /\ vault' = vault + UsdcAmount(q)
      \/ q.side = "SELL" /\ vault' = vault - UsdcAmount(q)
  BY <1>1 DEF Buy, Sell
<1>6. /\ Moved("BUY") \in Int /\ Moved("SELL") \in Int
      /\ Moved("BUY")' = Moved("BUY") + (IF q.side = "BUY" THEN UsdcAmount(q) ELSE 0)
      /\ Moved("SELL")' = Moved("SELL") + (IF q.side = "SELL" THEN UsdcAmount(q) ELSE 0)
  BY <1>4 DEF Sides
<1>7. vault' = InitialVault + Moved("BUY")' - Moved("SELL")' - PaidOut' * USDC_DECIMALS_MULTIPLIER
  BY <1>2, <1>3, <1>5, <1>6, VaultIs, ProgramAssumption DEF USDC_DECIMALS_MULTIPLIER
<1> QED BY <1>7 DEF VaultMatchesEvents, Moved, OfSide, PaidOut

LEMMA ClaimKeepsVault ==
    ASSUME LogInv, VaultMatchesEvents, NEW v \in Users, NEW n \in Markets, Claim(v, n)
    PROVE  VaultMatchesEvents'
<1> DEFINE shares == position[v][n].shares[market[n].winning]
<1>1. /\ ProgramTypeOK /\ shares \in Nat
      /\ claimed' = [claimed EXCEPT ![v][n] = @ + shares]
      /\ vault' = vault - shares * USDC_DECIMALS_MULTIPLIER
      /\ fills \in Seq(OrderFilled) /\ fills' = fills
  BY DEF LogInv, IInv, TypeOK, ProgramTypeOK, PositionRecord, WinnerKnown, Claim
<1> HIDE DEF shares
<1>2. PaidOut' = PaidOut + shares /\ PaidOut \in Int
  BY <1>1, PaidOutChange, PaidOutIsInt
<1>3. \A side : Moved(side)' = Moved(side)
  BY <1>1 DEF Moved, OfSide, UsdcAmount
<1>4. vault \in Int
  BY <1>1 DEF ProgramTypeOK
<1>5. vault = InitialVault + Moved("BUY") - Moved("SELL") - PaidOut * USDC_DECIMALS_MULTIPLIER
  BY VaultIs
<1>6. Moved("BUY") \in Int /\ Moved("SELL") \in Int
  BY <1>1, MovedIsInt DEF Sides
<1>7. vault' = InitialVault + Moved("BUY")' - Moved("SELL")' - PaidOut' * USDC_DECIMALS_MULTIPLIER
  <2>1. /\ vault' = vault - shares * USDC_DECIMALS_MULTIPLIER /\ shares \in Nat
        /\ Moved("BUY")' = Moved("BUY") /\ Moved("SELL")' = Moved("SELL")
    BY <1>1, <1>3
  <2> QED BY <2>1, <1>2, <1>4, <1>5, <1>6, ProgramAssumption DEF USDC_DECIMALS_MULTIPLIER
<1> QED BY <1>7 DEF VaultMatchesEvents, Moved, OfSide, PaidOut

LEMMA OthersKeepVault ==
    ASSUME VaultMatchesEvents, UNCHANGED <<vault, fills, claimed>>
    PROVE  VaultMatchesEvents'
BY DEF VaultMatchesEvents

-----------------------------------------------------------------------------
(* All books                                                               *)

LEMMA InitBooks == Init => BooksInv
<1> SUFFICES ASSUME Init PROVE BooksInv
  OBVIOUS
<1>1. LogInv /\ ProgramTypeOK
  BY InitLogInv DEF LogInv, IInv, TypeOK
<1>2. UnallocatedEmpty
  BY DEF Init, ProgramInit, UnallocatedEmpty, EmptyMarket
<1>3. ASSUME NEW m \in Markets, NEW o \in Outcomes
      PROVE  TotalMatches(m, o)
  <2>1. /\ market[m] = EmptyMarket
        /\ \A u \in Users : position[u][m].shares[o] = 0 /\ claimed[u][m] = 0
    BY DEF Init, ProgramInit, ClosedPosition, NoShares
  <2> DEFINE f == [u \in Users |-> position[u][m].shares[o]]
  <2>2. \A u \in Users : f[u] = 0
    BY <2>1
  <2>3. HeldOf(m, o) = SumFunctionOnSet(f, Users)
    BY DEF HeldOf, SumFunction
  <2> HIDE DEF f
  <2>4. HeldOf(m, o) = 0
    BY <2>2, <2>3, SumZero, LifecycleAssumption
  <2> QED BY <2>1, <2>4 DEF TotalMatches, EmptyMarket, NoShares, Outcomes
<1>4. VaultMatchesEvents
  <2>1. \A side : Moved(side) = 0
    <3> TAKE side
    <3>1. OfSide(side) = {}
      BY DEF Init, ProgramInit, OfSide
    <3> QED BY <3>1, SumEmpty DEF Moved
  <2>2. PaidOut = 0
    <3> DEFINE f == [um \in Users \X Markets |-> claimed[um[1]][um[2]]]
    <3>1. \A um \in Users \X Markets : f[um] = 0
      BY DEF Init, ProgramInit
    <3>2. PaidOut = SumFunctionOnSet(f, Users \X Markets)
      BY DEF PaidOut, SumFunction
    <3>3. IsFiniteSet(Users \X Markets)
      BY FS_Product, LifecycleAssumption
    <3> HIDE DEF f
    <3> QED BY <3>1, <3>2, <3>3, SumZero
  <2>3. vault = InitialVault /\ InitialVault \in Nat
    BY ProgramAssumption DEF Init, ProgramInit
  <2> QED BY <2>1, <2>2, <2>3, VaultIs DEF USDC_DECIMALS_MULTIPLIER
<1> QED BY <1>1, <1>2, <1>3, <1>4, TotalsAre DEF BooksInv

LEMMA InstructionKeepsBooks ==
    ASSUME BooksInv, LogInv', Instruction
    PROVE  UnallocatedEmpty' /\ TotalsMatchPositions' /\ VaultMatchesEvents'
<1>1. /\ LogInv /\ UnallocatedEmpty /\ TotalsMatchPositions /\ VaultMatchesEvents
      /\ ProgramTypeOK /\ ProgramTypeOK'
  BY DEF BooksInv, LogInv, IInv, TypeOK
<1>2. ASSUME NEW u \in Users, NEW q \in signed, PlaceOrder(u, q)
      PROVE  UnallocatedEmpty' /\ TotalsMatchPositions' /\ VaultMatchesEvents'
  BY <1>1, <1>2, PlaceOrderKeepsTotals, PlaceOrderKeepsVault
<1>3. ASSUME \A m \in Markets, o \in Outcomes : TotalMatches(m, o)'
      PROVE  TotalsMatchPositions'
  BY <1>3 DEF TotalsMatchPositions, TotalMatches, HeldOf, ClaimedOf
<1>4. ASSUME NEW m \in Markets, \/ \E end \in EndTimes : CreateMarket(m, end)
                               \/ \E b \in BOOLEAN : SetPaused(m, b)
      PROVE  UnallocatedEmpty' /\ TotalsMatchPositions' /\ VaultMatchesEvents'
  <2>1. UNCHANGED <<vault, fills, claimed>>
    BY <1>1, <1>4, MarketKeepsWinners DEF LogInv
  <2> QED BY <1>1, <1>3, <1>4, <2>1, MarketKeepsTotals, OthersKeepVault
<1>5. ASSUME NEW m \in Markets, NEW o \in Outcomes, ResolveMarket(m, o)
      PROVE  UnallocatedEmpty' /\ TotalsMatchPositions' /\ VaultMatchesEvents'
  <2>1. UNCHANGED <<vault, fills, claimed>>
    BY <1>5 DEF ResolveMarket
  <2>2. UnallocatedEmpty'
    BY <1>1, <1>5 DEF ResolveMarket, UnallocatedEmpty, ProgramTypeOK, MarketRecord
  <2> QED BY <1>1, <1>3, <1>5, <2>1, <2>2, ResolveKeepsTotals, OthersKeepVault
<1>6. ASSUME NEW u \in Users, NEW m \in Markets, Claim(u, m)
      PROVE  UnallocatedEmpty' /\ TotalsMatchPositions' /\ VaultMatchesEvents'
  <2>1. UnallocatedEmpty'
    BY <1>1, <1>6 DEF Claim, UnallocatedEmpty
  <2> QED BY <1>1, <1>3, <1>6, <2>1, ClaimKeepsTotals, ClaimKeepsVault
<1>7. ASSUME NEW u \in Users, NEW m \in Markets, ClosePosition(u, m)
      PROVE  UnallocatedEmpty' /\ TotalsMatchPositions' /\ VaultMatchesEvents'
  <2>1. UnallocatedEmpty' /\ UNCHANGED <<vault, fills, claimed>>
    BY <1>1, <1>7 DEF ClosePosition, UnallocatedEmpty
  <2> QED BY <1>1, <1>3, <1>7, <2>1, ClosePositionKeepsTotals, OthersKeepVault
<1> QED BY <1>2, <1>4, <1>5, <1>6, <1>7 DEF Instruction

LEMMA NextBooks == BooksInv /\ [Next]_vars => BooksInv'
<1> SUFFICES ASSUME BooksInv, [Next]_vars PROVE BooksInv'
  OBVIOUS
<1>1. LogInv'
  BY NextLogInv DEF BooksInv
<1>2. CASE Instruction
  BY <1>1, <1>2, InstructionKeepsBooks DEF BooksInv
<1>3. CASE ~Instruction
  <2>1. UNCHANGED <<market, position, vault, fills, claimed>>
    BY <1>3, OtherStepsFrame
  <2> QED BY <1>1, <2>1, OthersKeepVault DEF BooksInv, UnallocatedEmpty, TotalsMatchPositions
<1> QED BY <1>2, <1>3

LEMMA BooksBalance == Spec => []BooksInv
BY InitBooks, NextBooks, PTL DEF Spec

(* While a market is open its totals are what its holders have together;   *)
(* once resolved, the winning total is what is still held plus the claims. *)
THEOREM TotalsSound == Spec => []TotalsMatchPositions
BY BooksBalance, PTL DEF BooksInv

(* The vault's balance follows from the event log: its float, plus what    *)
(* buyers paid, less what sellers got and what the claims took.            *)
THEOREM VaultSound == Spec => []VaultMatchesEvents
BY BooksBalance, PTL DEF BooksInv
=============================================================================
