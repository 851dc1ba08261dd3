---------------------------- MODULE MarketLedger ----------------------------
(***************************************************************************)
(* What the chain promises the rest of the system, without accounts,       *)
(* nonces, clocks or signatures: a log of order fills in which every       *)
(* signed quote appears once, one resolution per market, and one payout    *)
(* per holder of exactly the winning shares the log says they hold.        *)
(***************************************************************************)
EXTENDS Integers, Sequences, Functions

CONSTANTS
    Users, Markets, Outcomes,
    Replayable(_)   \* quotes that may be filled again (see QuoteLifecycle)

VARIABLES
    quotes,     \* the quotes signed so far
    fills,      \* the log of fills: records with a user and a quote
    winner,     \* per market: the resolved outcome, or "None"
    paid        \* per user and market: winning shares paid out

ledgerVars == <<quotes, fills, winner, paid>>

Signed(q) == IF q.side = "BUY" THEN q.size ELSE 0 - q.size

(* Shares of outcome o of market m that the log leaves user u with.        *)
Net(u, m, o) ==
    SumFunctionOnSet([i \in DOMAIN fills |-> Signed(fills[i].quote)],
        {i \in DOMAIN fills : /\ fills[i].user = u
                              /\ fills[i].quote.market = m
                              /\ fills[i].quote.outcome = o})

Filled(q) == \E i \in DOMAIN fills : fills[i].quote = q

Init ==
    /\ quotes = {}
    /\ fills = <<>>
    /\ winner = [m \in Markets |-> "None"]
    /\ paid = [u \in Users |-> [m \in Markets |-> 0]]

Sign ==
    /\ quotes \subseteq quotes'
    /\ UNCHANGED <<fills, winner, paid>>

Fill(u, q) ==
    /\ winner[q.market] = "None"
    /\ Filled(q) => Replayable(q)
    /\ Net(u, q.market, q.outcome) + Signed(q) >= 0
    /\ fills' = Append(fills, [user |-> u, quote |-> q])
    /\ UNCHANGED <<quotes, winner, paid>>

Resolve(m, o) ==
    /\ winner[m] = "None"
    /\ winner' = [winner EXCEPT ![m] = o]
    /\ UNCHANGED <<quotes, fills, paid>>

Pay(u, m) ==
    /\ winner[m] # "None"
    /\ paid[u][m] = 0
    /\ Net(u, m, winner[m]) > 0
    /\ paid' = [paid EXCEPT ![u][m] = Net(u, m, winner[m])]
    /\ UNCHANGED <<quotes, fills, winner>>

Next ==
    \/ Sign
    \/ \E u \in Users, q \in quotes : Fill(u, q)
    \/ \E m \in Markets, o \in Outcomes : Resolve(m, o)
    \/ \E u \in Users, m \in Markets : Pay(u, m)

Spec == Init /\ [][Next]_ledgerVars
=============================================================================
