--------------------------- MODULE BookFeedProofs ---------------------------
(***************************************************************************)
(* Theorems about BookFeed for any tokens, sockets, guests and listings,   *)
(* and any bounds.  The invariant has a half for each process: on the      *)
(* server every count is a number of connected sockets and the intent      *)
(* follows it, up to the writes that fail and those of the listings; on    *)
(* the mirror every registered token is served or about to be.  Neither    *)
(* half reads the other's variables, so a step of one process preserves    *)
(* the half of the other because it leaves its variables alone.            *)
(***************************************************************************)
EXTENDS BookFeed, FiniteSetTheorems, SequenceTheorems, TLAPS

Holders(t) == {s \in Sockets : sockets[s] = "up" /\ t \in subs[s]}

ServerTyped ==
    /\ server \in {"up", "down"}
    /\ sockets \in [Sockets -> {"none", "up", "evicted"}]
    /\ subs \in [Sockets -> SUBSET Tokens]
    /\ refs \in [Tokens -> Nat]
    /\ touched \subseteq Tokens

ListingTyped ==
    /\ listing \in [Markets -> Status]
    /\ reviews \subseteq Review

RedisTyped ==
    /\ intent \subseteq Tokens /\ astray \subseteq Tokens
    /\ faults \in 0..MaxFaults
    /\ nudges \in Seq(Nudge) /\ Len(nudges) <= MaxNudges

MirrorTyped ==
    /\ replies \in Seq(SUBSET Tokens)
    /\ counts \in [Tokens -> Nat]
    /\ wss \in Wss /\ frame \subseteq Tokens
    /\ closing \in BOOLEAN /\ refresh \in BOOLEAN /\ idle \in BOOLEAN
    /\ wss # "open" => frame = {} /\ ~closing

(* Only a connected socket holds tokens, a user has one, and a server that *)
(* has not hydrated has neither sockets nor keepalives.                    *)
SocketShape ==
    /\ \A s \in Sockets : sockets[s] # "up" => subs[s] = {}
    /\ \A r, s \in Sockets \ Guests : sockets[r] = "up" /\ sockets[s] = "up" => r = s
    /\ server = "down" => touched = {} /\ \A s \in Sockets : sockets[s] = "none"

Agreement == \A t \in Tokens \ astray : t \in intent <=> Wanted(t)

ServerInv == ServerTyped /\ SocketShape /\ RefsMatchSockets /\ IntentMatchesInterest
MirrorInv == MirrorTyped /\ RegistryServed
IInv == ServerInv /\ ListingTyped /\ RedisTyped /\ MirrorInv

LEMMA InvariantImplies ==
  IInv => TypeOK /\ RefsMatchSockets /\ IntentMatchesInterest /\ RegistryServed
  BY DEF IInv, ServerInv, MirrorInv, ServerTyped, ListingTyped, RedisTyped, MirrorTyped, TypeOK

LEMMA HoldersFinite ==
  ASSUME NEW t
  PROVE  IsFiniteSet(Holders(t)) /\ Cardinality(Holders(t)) \in Nat
<1>1. Holders(t) \in SUBSET Sockets
  BY DEF Holders
<1>. QED  BY <1>1, FeedAssumption, FS_Subset, FS_CardinalityType

-----------------------------------------------------------------------------
(* The channel                                                             *)

LEMMA Publishing ==
  ASSUME RedisTyped, NEW action \in {"subscribe", "unsubscribe"},
         NEW batch \in Seq(Tokens), Publish(action, batch)
  PROVE  nudges' \in Seq(Nudge) /\ Len(nudges') <= MaxNudges
<1> DEFINE sent == [i \in DOMAIN batch |-> [action |-> action, token |-> batch[i]]]
<1>1. /\ Len(batch) \in Nat /\ DOMAIN batch = 1..Len(batch)
      /\ \A i \in 1..Len(batch) : batch[i] \in Tokens
  BY LenProperties
<1>2. sent \in [1..Len(batch) -> Nudge]
  BY <1>1 DEF Nudge
<1>3. sent \in Seq(Nudge) /\ Len(sent) = Len(batch)
  BY <1>1, <1>2
<1>4. nudges' = nudges \o sent /\ Len(nudges) + Len(batch) <= MaxNudges
  BY DEF Publish
<1>. HIDE DEF sent
<1>5. nudges' \in Seq(Nudge) /\ Len(nudges') = Len(nudges) + Len(sent)
  BY <1>3, <1>4, ConcatProperties DEF RedisTyped
<1>. QED  BY <1>3, <1>4, <1>5

LEMMA OrdersAreSequences ==
  ASSUME NEW S \in SUBSET Tokens, NEW batch \in InOrder(S)
  PROVE  batch \in Seq(Tokens)
<1>1. IsFiniteSet(S) /\ Cardinality(S) \in Nat
  BY FeedAssumption, FS_Subset, FS_CardinalityType
<1>2. batch \in [1..Cardinality(S) -> Tokens]
  BY DEF InOrder
<1>. QED  BY <1>1, <1>2

(* What a write of the server leaves: the tokens of S are in the intent or *)
(* out of it as it wants, unless their write failed; the others stay.      *)
Leaves(S, present) ==
    \A t \in Tokens :
        IF t \in S THEN t \in astray' \/ (t \in intent' <=> present)
        ELSE (t \in intent' <=> t \in intent) /\ (t \in astray' <=> t \in astray)

LEMMA NoWrite ==
  ASSUME RedisTyped, UNCHANGED <<redisVars, faults>>
  PROVE  RedisTyped' /\ Leaves({}, TRUE) /\ Leaves({}, FALSE)
  BY DEF RedisTyped, redisVars, Leaves

LEMMA Beginning ==
  ASSUME RedisTyped, NEW t \in Tokens, BeginTracking(t)
  PROVE  RedisTyped' /\ Leaves({t}, TRUE)
<1>1. CASE /\ intent' = intent \cup {t} /\ astray' = astray \ {t}
           /\ Publish("subscribe", <<t>>) /\ Counted(0)
  <2>1. <<t>> \in Seq(Tokens)
    OBVIOUS
  <2>2. nudges' \in Seq(Nudge) /\ Len(nudges') <= MaxNudges
    BY <1>1, <2>1, Publishing
  <2>3. faults' \in 0..MaxFaults
    BY <1>1, FeedAssumption DEF Counted, RedisTyped
  <2>. QED  BY <1>1, <2>2, <2>3 DEF RedisTyped, Leaves
<1>2. CASE astray' = astray \cup {t} /\ Counted(1) /\ UNCHANGED <<intent, nudges>>
  <2>1. faults' \in 0..MaxFaults
    BY <1>2, FeedAssumption DEF Counted, RedisTyped
  <2>. QED  BY <1>2, <2>1 DEF RedisTyped, Leaves
<1>. QED  BY <1>1, <1>2 DEF BeginTracking

LEMMA Ending ==
  ASSUME RedisTyped, NEW S \in SUBSET Tokens, EndTracking(S)
  PROVE  RedisTyped' /\ Leaves(S, FALSE)
<1>1. PICK failed \in SUBSET S :
        /\ intent' = intent \ (S \ failed) /\ astray' = (astray \ S) \cup failed
        /\ \E batch \in InOrder(S \ failed) : Publish("unsubscribe", batch)
        /\ Counted(Cardinality(failed))
  BY DEF EndTracking
<1>2. nudges' \in Seq(Nudge) /\ Len(nudges') <= MaxNudges
  <2>1. PICK batch \in InOrder(S \ failed) : Publish("unsubscribe", batch)
    BY <1>1
  <2>2. batch \in Seq(Tokens)
    BY OrdersAreSequences
  <2>. QED  BY <2>1, <2>2, Publishing
<1>3. faults' \in 0..MaxFaults
  <2>1. Cardinality(failed) \in Nat
    BY FeedAssumption, FS_Subset, FS_CardinalityType
  <2>. QED  BY <1>1, <2>1, FeedAssumption DEF Counted, RedisTyped
<1>. QED  BY <1>1, <1>2, <1>3 DEF RedisTyped, Leaves

-----------------------------------------------------------------------------
(* The server                                                              *)

(* What the tokens of S give back when each is held by one socket: counts  *)
(* stay counts, and the intent loses those that nobody wants any more.     *)
LEMMA Releasing ==
  ASSUME ServerInv, RedisTyped, server = "up", NEW S \in SUBSET Tokens, Release(S),
         \A t \in S : refs[t] > 0, UNCHANGED touched
  PROVE  /\ refs' \in [Tokens -> Nat]
         /\ \A t \in Tokens : refs'[t] = IF t \in S THEN refs[t] - 1 ELSE refs[t]
         /\ Agreement' /\ RedisTyped'
<1> DEFINE last == {t \in S : refs[t] = 1 /\ t \notin touched}
<1>1. refs \in [Tokens -> Nat] /\ touched \subseteq Tokens
  BY DEF ServerInv, ServerTyped
<1>2. \A t \in Tokens : refs'[t] = IF t \in S THEN refs[t] - 1 ELSE refs[t]
  BY <1>1 DEF Release
<1>3. refs' \in [Tokens -> Nat]
  BY <1>1 DEF Release
<1>4. Leaves(last, FALSE) /\ RedisTyped'
  <2>1. last \in SUBSET Tokens
    OBVIOUS
  <2>2. CASE last = {}
    BY <2>2, NoWrite DEF Release
  <2>3. CASE last # {}
    BY <2>1, <2>3, Ending DEF Release
  <2>. QED  BY <2>2, <2>3
<1>5. \A t \in Tokens \ astray : t \in intent <=> refs[t] > 0 \/ t \in touched
  BY DEF ServerInv, IntentMatchesInterest, Wanted
<1>6. \A t \in Tokens \ astray' : t \in intent' <=> refs'[t] > 0 \/ t \in touched'
  BY <1>1, <1>2, <1>4, <1>5 DEF Leaves
<1>. QED  BY <1>2, <1>3, <1>4, <1>6 DEF Agreement, Wanted

(* A subscription of a token, by a socket that does not hold it yet.       *)
LEMMA Subscribing ==
  ASSUME ServerInv, RedisTyped, server = "up", NEW t \in Tokens, SubscriberSubscribe(t),
         UNCHANGED touched
  PROVE  refs' = [refs EXCEPT ![t] = @ + 1] /\ Agreement' /\ RedisTyped'
<1>1. refs \in [Tokens -> Nat] /\ touched \subseteq Tokens
  BY DEF ServerInv, ServerTyped
<1>2. refs' = [refs EXCEPT ![t] = @ + 1]
  BY DEF SubscriberSubscribe
<1>3. \A u \in Tokens \ astray : u \in intent <=> refs[u] > 0 \/ u \in touched
  BY DEF ServerInv, IntentMatchesInterest, Wanted
<1>4. RedisTyped' /\ (IF Wanted(t) THEN Leaves({}, TRUE) ELSE Leaves({t}, TRUE))
  BY NoWrite, Beginning DEF SubscriberSubscribe
<1>5. \A u \in Tokens \ astray' : u \in intent' <=> refs'[u] > 0 \/ u \in touched'
  BY <1>1, <1>2, <1>3, <1>4 DEF Leaves, Wanted
<1>. QED  BY <1>2, <1>4, <1>5 DEF Agreement, Wanted

(* A step of one socket's tokens moves the counts of exactly the tokens    *)
(* that the socket takes up or gives back.                                 *)
LEMMA OneSocket ==
  ASSUME ServerInv, NEW s \in Sockets, NEW t \in Tokens,
         \A r \in Sockets \ {s} :
             (sockets'[r] = "up" /\ t \in subs'[r]) <=> (sockets[r] = "up" /\ t \in subs[r]),
         refs'[t] = refs[t] + (IF sockets'[s] = "up" /\ t \in subs'[s] THEN 1 ELSE 0)
                            - (IF sockets[s] = "up" /\ t \in subs[s] THEN 1 ELSE 0)
  PROVE  refs'[t] = Cardinality(Holders(t)')
<1>1. /\ refs[t] = Cardinality(Holders(t)) /\ refs[t] \in Nat
      /\ IsFiniteSet(Holders(t)) /\ Cardinality(Holders(t)) \in Nat
  BY HoldersFinite DEF ServerInv, ServerTyped, RefsMatchSockets, Holders
<1>. s \in Holders(t) <=> sockets[s] = "up" /\ t \in subs[s]
  BY DEF Holders
<1>2. CASE sockets'[s] = "up" /\ t \in subs'[s]
  <2>1. Holders(t)' = Holders(t) \cup {s}
    BY <1>2 DEF Holders
  <2>2. Cardinality(Holders(t) \cup {s})
          = IF s \in Holders(t) THEN Cardinality(Holders(t)) ELSE Cardinality(Holders(t)) + 1
    BY <1>1, FS_AddElement
  <2>. QED  BY <1>1, <1>2, <2>1, <2>2
<1>3. CASE ~(sockets'[s] = "up" /\ t \in subs'[s])
  <2>1. Holders(t)' = Holders(t) \ {s}
    BY <1>3 DEF Holders
  <2>2. Cardinality(Holders(t) \ {s})
          = IF s \in Holders(t) THEN Cardinality(Holders(t)) - 1 ELSE Cardinality(Holders(t))
    BY <1>1, FS_RemoveElement
  <2>. QED  BY <1>1, <1>3, <2>1, <2>2
<1>. QED  BY <1>2, <1>3

LEMMA HeldIsCounted ==
  ASSUME ServerInv, NEW s \in Sockets, sockets[s] = "up", NEW t \in subs[s]
  PROVE  t \in Tokens /\ refs[t] > 0
<1>1. t \in Tokens
  BY DEF ServerInv, ServerTyped
<1>2. refs[t] = Cardinality(Holders(t)) /\ refs[t] \in Nat /\ IsFiniteSet(Holders(t))
  BY <1>1, HoldersFinite DEF ServerInv, ServerTyped, RefsMatchSockets, Holders
<1>3. Holders(t) # {}
  BY DEF Holders
<1>4. Cardinality(Holders(t)) # 0
  BY <1>2, <1>3, FS_EmptySet
<1>. QED  BY <1>1, <1>2, <1>4

(* What is left to show of a step that has settled its counts and intent.  *)
LEMMA Matches ==
  ASSUME \A t \in Tokens : refs'[t] = Cardinality(Holders(t)'), Agreement'
  PROVE  RefsMatchSockets' /\ IntentMatchesInterest'
  BY DEF RefsMatchSockets, IntentMatchesInterest, Agreement, Holders

LEMMA SubscribeStep ==
  ASSUME ServerInv, RedisTyped, NEW s \in Sockets, NEW t \in Tokens, HandleSubscribe(s, t)
  PROVE  ServerInv' /\ RedisTyped'
<1>1. ServerTyped /\ SocketShape
  BY DEF ServerInv
<1>2. /\ sockets[s] = "up" /\ t \notin subs[s]
      /\ subs' = [subs EXCEPT ![s] = @ \cup {t}]
      /\ SubscriberSubscribe(t)
      /\ UNCHANGED <<server, sockets, touched>>
  BY DEF HandleSubscribe
<1>3. server = "up"
  BY <1>1, <1>2 DEF ServerTyped, SocketShape
<1>4. /\ refs' = [refs EXCEPT ![t] = @ + 1]
      /\ Agreement' /\ RedisTyped'
  BY <1>2, <1>3, Subscribing
<1>5. ASSUME NEW u \in Tokens
      PROVE  refs'[u] = Cardinality(Holders(u)')
  <2>1. refs'[u] = refs[u] + (IF sockets'[s] = "up" /\ u \in subs'[s] THEN 1 ELSE 0)
                           - (IF sockets[s] = "up" /\ u \in subs[s] THEN 1 ELSE 0)
    BY <1>1, <1>2, <1>4 DEF ServerTyped
  <2>2. \A r \in Sockets \ {s} :
           (sockets'[r] = "up" /\ u \in subs'[r]) <=> (sockets[r] = "up" /\ u \in subs[r])
    BY <1>1, <1>2 DEF ServerTyped
  <2>. QED  BY <2>1, <2>2, OneSocket
<1>6. ServerTyped' /\ SocketShape'
  BY <1>1, <1>2, <1>4 DEF ServerTyped, SocketShape
<1>. QED  BY <1>4, <1>5, <1>6, Matches DEF ServerInv

(* A socket that gives back S, by its own message or by its close event.   *)
LEMMA GivingBack ==
  ASSUME ServerInv, RedisTyped, NEW s \in Sockets, NEW S \in SUBSET subs[s],
         server = "up", Release(S), UNCHANGED <<server, touched>>,
         sockets[s] # "up" => S = {},
         subs' = [subs EXCEPT ![s] = @ \ S],
         sockets' \in [Sockets -> {"none", "up", "evicted"}],
         \A r \in Sockets \ {s} : sockets'[r] = sockets[r],
         sockets'[s] = sockets[s] \/ (sockets'[s] = "none" /\ S = subs[s])
  PROVE  ServerInv' /\ RedisTyped'
<1>1. ServerTyped /\ SocketShape
  BY DEF ServerInv
<1>2. S \in SUBSET Tokens
  BY <1>1 DEF ServerTyped
<1>3. \A t \in S : refs[t] > 0
  BY <1>1, HeldIsCounted DEF ServerTyped
<1>4. /\ refs' \in [Tokens -> Nat]
      /\ \A t \in Tokens : refs'[t] = IF t \in S THEN refs[t] - 1 ELSE refs[t]
      /\ Agreement' /\ RedisTyped'
  BY <1>2, <1>3, Releasing
<1>5. ASSUME NEW u \in Tokens
      PROVE  refs'[u] = Cardinality(Holders(u)')
  <2>1. refs[u] \in Nat /\ subs'[s] = subs[s] \ S
    BY <1>1 DEF ServerTyped
  <2>2. sockets[s] # "up" => subs[s] = {}
    BY <1>1 DEF SocketShape
  <2>3. refs'[u] = refs[u] + (IF sockets'[s] = "up" /\ u \in subs'[s] THEN 1 ELSE 0)
                           - (IF sockets[s] = "up" /\ u \in subs[s] THEN 1 ELSE 0)
    BY <1>4, <2>1, <2>2
  <2>4. \A r \in Sockets \ {s} :
           (sockets'[r] = "up" /\ u \in subs'[r]) <=> (sockets[r] = "up" /\ u \in subs[r])
    BY <1>1 DEF ServerTyped
  <2>. QED  BY <2>3, <2>4, OneSocket
<1>6. ServerTyped' /\ SocketShape'
  BY <1>1, <1>4 DEF ServerTyped, SocketShape
<1>. QED  BY <1>4, <1>5, <1>6, Matches DEF ServerInv

LEMMA UnsubscribeStep ==
  ASSUME ServerInv, RedisTyped, NEW s \in Sockets, NEW t \in Tokens, HandleUnsubscribe(s, t)
  PROVE  ServerInv' /\ RedisTyped'
<1>1. ServerTyped /\ SocketShape
  BY DEF ServerInv
<1>2. /\ sockets[s] = "up" /\ {t} \in SUBSET subs[s]
      /\ subs' = [subs EXCEPT ![s] = @ \ {t}] /\ Release({t})
      /\ UNCHANGED <<server, sockets, touched>>
  BY DEF HandleUnsubscribe
<1>3. server = "up"
  BY <1>1, <1>2 DEF ServerTyped, SocketShape
<1>4. sockets' \in [Sockets -> {"none", "up", "evicted"}]
  BY <1>1, <1>2 DEF ServerTyped
<1>. QED  BY <1>2, <1>3, <1>4, GivingBack

LEMMA CloseStep ==
  ASSUME ServerInv, RedisTyped, NEW s \in Sockets, OnClientClose(s)
  PROVE  ServerInv' /\ RedisTyped'
<1>1. ServerTyped /\ SocketShape
  BY DEF ServerInv
<1>2. /\ sockets[s] # "none" /\ sockets' = [sockets EXCEPT ![s] = "none"]
      /\ subs' = [subs EXCEPT ![s] = {}] /\ Release(subs[s])
      /\ UNCHANGED <<server, touched>>
  BY DEF OnClientClose
<1>3. server = "up"
  BY <1>1, <1>2 DEF ServerTyped, SocketShape
<1>4. /\ sockets[s] # "up" => subs[s] = {}
      /\ subs' = [subs EXCEPT ![s] = @ \ subs[s]]
      /\ sockets' \in [Sockets -> {"none", "up", "evicted"}]
      /\ \A r \in Sockets \ {s} : sockets'[r] = sockets[r]
      /\ sockets'[s] = "none"
  BY <1>1, <1>2 DEF ServerTyped, SocketShape
<1>. QED  BY <1>2, <1>3, <1>4, GivingBack

(* A connection replaces at most one other: the socket of the same user.   *)
LEMMA ConnectionStep ==
  ASSUME ServerInv, RedisTyped, NEW s \in Sockets, OnConnection(s)
  PROVE  ServerInv' /\ RedisTyped'
<1> DEFINE S == UNION {subs[r] : r \in Evicted(s)}
<1>1. ServerTyped /\ SocketShape
  BY DEF ServerInv
<1>2. /\ server = "up" /\ sockets[s] = "none" /\ Release(S)
      /\ sockets' = [r \in Sockets |-> IF r = s THEN "up"
                                       ELSE IF r \in Evicted(s) THEN "evicted" ELSE sockets[r]]
      /\ subs' = [r \in Sockets |-> IF r \in Evicted(s) THEN {} ELSE subs[r]]
      /\ UNCHANGED <<server, touched>>
  BY DEF OnConnection
<1>3. Evicted(s) \subseteq Sockets /\ \A r \in Evicted(s) : sockets[r] = "up"
  BY DEF Evicted
<1>4. subs[s] = {} /\ s \notin Evicted(s)
  BY <1>1, <1>2, <1>3 DEF SocketShape
<1>5. PICK e \in Sockets : Evicted(s) \subseteq {e} /\ (Evicted(s) = {} => e = s)
  BY <1>1 DEF SocketShape, Evicted
<1>6. S = IF e \in Evicted(s) THEN subs[e] ELSE {}
  BY <1>5
<1>7. S \in SUBSET Tokens /\ \A t \in S : refs[t] > 0
  BY <1>1, <1>3, <1>6, HeldIsCounted DEF ServerTyped
<1>8. /\ refs' \in [Tokens -> Nat]
      /\ \A t \in Tokens : refs'[t] = IF t \in S THEN refs[t] - 1 ELSE refs[t]
      /\ Agreement' /\ RedisTyped'
  BY <1>2, <1>7, Releasing
<1>9. ASSUME NEW u \in Tokens
      PROVE  refs'[u] = Cardinality(Holders(u)')
  <2>1. \A r \in Sockets \ {e} :
           (sockets'[r] = "up" /\ u \in subs'[r]) <=> (sockets[r] = "up" /\ u \in subs[r])
    BY <1>2, <1>4, <1>5
  <2>2. refs[u] \in Nat
    BY <1>1 DEF ServerTyped
  <2>3. refs'[u] = refs[u] + (IF sockets'[e] = "up" /\ u \in subs'[e] THEN 1 ELSE 0)
                           - (IF sockets[e] = "up" /\ u \in subs[e] THEN 1 ELSE 0)
    <3>1. CASE e \in Evicted(s)
      <4>1. sockets[e] = "up" /\ subs'[e] = {} /\ S = subs[e]
        BY <1>2, <1>3, <1>6, <3>1
      <4>. QED  BY <1>8, <2>2, <4>1
    <3>2. CASE e \notin Evicted(s)
      <4>1. e = s /\ S = {} /\ subs'[e] = {} /\ subs[e] = {}
        BY <1>2, <1>4, <1>5, <1>6, <3>2
      <4>. QED  BY <1>8, <2>2, <4>1
    <3>. QED  BY <3>1, <3>2
  <2>. QED  BY <2>1, <2>3, OneSocket
<1>10. ServerTyped'
  BY <1>1, <1>2, <1>8 DEF ServerTyped
<1>11. SocketShape'
  BY <1>1, <1>2, <1>4 DEF ServerTyped, SocketShape, Evicted
<1>. QED  BY <1>8, <1>9, <1>10, <1>11, Matches DEF ServerInv

LEMMA KeepaliveStep ==
  ASSUME ServerInv, RedisTyped, NEW t \in Tokens, TouchHttp(t) \/ SweepHttp(t)
  PROVE  ServerInv' /\ RedisTyped'
<1>1. ServerTyped /\ SocketShape /\ RefsMatchSockets /\ IntentMatchesInterest
  BY DEF ServerInv
<1>2. UNCHANGED <<server, sockets, subs, refs>> /\ server = "up" /\ touched' \subseteq Tokens
  BY <1>1 DEF TouchHttp, SweepHttp, ServerTyped, SocketShape
<1>3. ServerTyped' /\ SocketShape' /\ RefsMatchSockets'
  BY <1>1, <1>2 DEF ServerTyped, SocketShape, RefsMatchSockets
<1>4. \A u \in Tokens \ astray : u \in intent <=> refs[u] > 0 \/ u \in touched
  BY <1>1, <1>2 DEF IntentMatchesInterest, Wanted
<1>5. CASE TouchHttp(t)
  <2>1. RedisTyped' /\ (IF Wanted(t) THEN Leaves({}, TRUE) ELSE Leaves({t}, TRUE))
    BY <1>5, NoWrite, Beginning DEF TouchHttp
  <2>2. touched' = touched \cup {t}
    BY <1>5 DEF TouchHttp
  <2>3. \A u \in Tokens \ astray' : u \in intent' <=> refs'[u] > 0 \/ u \in touched'
    BY <1>2, <1>4, <2>1, <2>2 DEF Leaves, Wanted
  <2>. QED  BY <1>3, <2>1, <2>3 DEF ServerInv, IntentMatchesInterest, Wanted
<1>6. CASE SweepHttp(t)
  <2>1. RedisTyped' /\ (IF refs[t] = 0 THEN Leaves({t}, FALSE) ELSE Leaves({}, FALSE))
    BY <1>6, NoWrite, Ending DEF SweepHttp
  <2>2. touched' = touched \ {t} /\ refs[t] \in Nat
    BY <1>1, <1>6 DEF SweepHttp, ServerTyped
  <2>3. \A u \in Tokens \ astray' : u \in intent' <=> refs'[u] > 0 \/ u \in touched'
    BY <1>2, <1>4, <2>1, <2>2 DEF Leaves
  <2>. QED  BY <1>3, <2>1, <2>3 DEF ServerInv, IntentMatchesInterest, Wanted
<1>. QED  BY <1>5, <1>6 DEF TouchHttp, SweepHttp

LEMMA RestartStep ==
  ASSUME ServerInv, RedisTyped, ServerStops \/ Hydrate
  PROVE  ServerInv' /\ RedisTyped'
<1>1. ServerTyped /\ SocketShape /\ RefsMatchSockets /\ RedisTyped
  BY DEF ServerInv
<1>2. CASE ServerStops
  <2>1. ServerTyped' /\ SocketShape' /\ IntentMatchesInterest'
    BY <1>1, <1>2 DEF ServerStops, ServerTyped, SocketShape, IntentMatchesInterest
  <2>2. ASSUME NEW t \in Tokens
        PROVE  refs'[t] = Cardinality(Holders(t)')
    <3>1. Holders(t)' = {} /\ refs'[t] = 0
      BY <1>2 DEF Holders, ServerStops
    <3>. QED  BY <3>1, FS_EmptySet
  <2>3. RefsMatchSockets'
    BY <2>2 DEF RefsMatchSockets, Holders
  <2>4. RedisTyped'
    BY <1>1, <1>2, FeedAssumption DEF ServerStops, RedisTyped, redisVars
  <2>. QED  BY <2>1, <2>3, <2>4 DEF ServerInv
<1>3. CASE Hydrate
  <2>1. /\ UNCHANGED <<sockets, subs, refs, touched>> /\ server = "down" /\ server' = "up"
        /\ intent' = {} /\ astray' = {} /\ UNCHANGED faults
    BY <1>3 DEF Hydrate
  <2>2. touched = {} /\ \A s \in Sockets : sockets[s] = "none"
    BY <1>1, <2>1 DEF SocketShape
  <2>3. \A t \in Tokens : refs[t] = 0
    <3>1. \A t \in Tokens : Holders(t) = {}
      BY <2>2 DEF Holders
    <3>. QED  BY <1>1, <3>1, FS_EmptySet DEF RefsMatchSockets, Holders
  <2>4. nudges' \in Seq(Nudge) /\ Len(nudges') <= MaxNudges
    <3>1. PICK batch \in InOrder(intent) : Publish("unsubscribe", batch)
      BY <1>3 DEF Hydrate
    <3>2. batch \in Seq(Tokens)
      BY OrdersAreSequences DEF RedisTyped
    <3>. QED  BY <3>1, <3>2, Publishing
  <2>5. IntentMatchesInterest'
    BY <2>1, <2>2, <2>3 DEF IntentMatchesInterest, Wanted
  <2>6. ServerTyped' /\ SocketShape' /\ RefsMatchSockets'
    BY <1>1, <2>1 DEF ServerTyped, SocketShape, RefsMatchSockets
  <2>7. RedisTyped'
    BY <1>1, <2>1, <2>4 DEF RedisTyped
  <2>. QED  BY <2>5, <2>6, <2>7 DEF ServerInv
<1>. QED  BY <1>2, <1>3

-----------------------------------------------------------------------------
(* The listings                                                            *)

(* A listing's write makes no promise about the interest in its tokens.    *)
LEMMA ListingStep ==
  ASSUME ServerInv, ListingTyped, RedisTyped, Listings
  PROVE  ServerInv' /\ ListingTyped' /\ RedisTyped'
<1>1. UNCHANGED serverVars
  BY DEF Listings, ReviewStarts, ReviewWrites, ReviewWires, ReviewFails
<1>2. ServerTyped' /\ SocketShape' /\ RefsMatchSockets'
  BY <1>1 DEF serverVars, ServerInv, ServerTyped, SocketShape, RefsMatchSockets
<1>3. ASSUME NEW m \in Markets, ReviewStarts(m)
      PROVE  ServerInv' /\ ListingTyped' /\ RedisTyped'
  <2>1. UNCHANGED <<redisVars, faults, listing>> /\ reviews' \subseteq Review
    BY <1>3 DEF ReviewStarts, ListingTyped, Review
  <2>. QED  BY <1>1, <1>2, <2>1 DEF serverVars, redisVars, ServerInv, IntentMatchesInterest,
            Wanted, ListingTyped, RedisTyped
<1>4. ASSUME NEW r \in reviews, ReviewWrites(r) \/ ReviewFails(r)
      PROVE  ServerInv' /\ ListingTyped' /\ RedisTyped'
  <2>1. r \in Review
    BY DEF ListingTyped
  <2>2. UNCHANGED <<redisVars, faults>> /\ ListingTyped'
    BY <1>4, <2>1 DEF ReviewWrites, ReviewFails, ListingTyped, Review, Status
  <2>. QED  BY <1>1, <1>2, <2>2 DEF serverVars, redisVars, ServerInv, IntentMatchesInterest,
            Wanted, RedisTyped
<1>5. ASSUME NEW r \in reviews, ReviewWires(r)
      PROVE  ServerInv' /\ ListingTyped' /\ RedisTyped'
  <2>1. r \in Review /\ r.market \in SUBSET Tokens
    BY FeedAssumption DEF ListingTyped, Review
  <2>2. PICK batch \in InOrder(r.market) :
          Publish(IF r.next = "wire" THEN "subscribe" ELSE "unsubscribe", batch)
    BY <1>5 DEF ReviewWires
  <2>3. batch \in Seq(Tokens)
    BY <2>1, OrdersAreSequences
  <2>4. nudges' \in Seq(Nudge) /\ Len(nudges') <= MaxNudges
    BY <2>2, <2>3, Publishing
  <2>5. /\ UNCHANGED <<faults, listing>> /\ reviews' \subseteq reviews
        /\ intent' = IF r.next = "wire" THEN intent \cup r.market ELSE intent \ r.market
        /\ astray' = astray \cup r.market
    BY <1>5 DEF ReviewWires
  <2>6. RedisTyped' /\ ListingTyped'
    BY <2>1, <2>4, <2>5 DEF RedisTyped, ListingTyped
  <2>7. IntentMatchesInterest'
    BY <1>1, <2>5 DEF serverVars, ServerInv, IntentMatchesInterest, Wanted
  <2>. QED  BY <1>2, <2>6, <2>7 DEF ServerInv
<1>. QED  BY <1>3, <1>4, <1>5 DEF Listings

-----------------------------------------------------------------------------
(* The mirror                                                              *)

(* Whatever is taken up or dropped, the registry stays served: a token it  *)
(* names for the first time starts a connection or schedules a refresh.    *)
LEMMA Following ==
  ASSUME MirrorInv, NEW add \in SUBSET Tokens, NEW remove \in SUBSET Tokens,
         Follow(add, remove), replies' \in Seq(SUBSET Tokens)
  PROVE  MirrorInv'
<1>1. MirrorTyped /\ RegistryServed
  BY DEF MirrorInv
<1>2. /\ counts' = [t \in Tokens |-> IF t \in add THEN counts[t] + 1
                                     ELSE IF t \in remove \cap Registry THEN counts[t] - 1
                                     ELSE counts[t]]
      /\ wss' = IF add \ Registry # {} /\ ~Active THEN "connecting" ELSE wss
      /\ refresh' = (refresh \/ (add \ Registry # {} /\ wss = "open"))
      /\ UNCHANGED <<frame, closing>>
      /\ idle' \in BOOLEAN
  BY DEF Follow
<1>3. counts' \in [Tokens -> Nat]
  BY <1>1, <1>2 DEF MirrorTyped, Registry
<1>4. MirrorTyped'
  BY <1>1, <1>2, <1>3 DEF MirrorTyped, Wss, Active
<1>5. Registry' \subseteq Registry \cup add
  BY <1>1, <1>2 DEF MirrorTyped, Registry
<1>6. RegistryServed'
  <2>1. ASSUME NEW t \in Registry'
        PROVE  wss' \notin {"idle", "closed"}
               /\ (wss' = "open" => t \in frame' \/ refresh' \/ closing')
    <3>1. CASE t \in Registry
      BY <1>1, <1>2, <3>1 DEF RegistryServed
    <3>2. CASE t \notin Registry
      BY <1>1, <1>2, <1>5, <2>1, <3>2 DEF MirrorTyped, Active, Wss
    <3>. QED  BY <3>1, <3>2
  <2>. QED  BY <2>1 DEF RegistryServed, Registry
<1>. QED  BY <1>4, <1>6 DEF MirrorInv

LEMMA MessageStep ==
  ASSUME RedisTyped, MirrorInv, HandleMessage
  PROVE  RedisTyped' /\ MirrorInv'
<1>1. nudges \in Seq(Nudge) /\ nudges # <<>> /\ Len(nudges) <= MaxNudges /\ Len(nudges) \in Nat
  BY LenProperties DEF HandleMessage, RedisTyped
<1>2. Head(nudges) \in Nudge /\ Tail(nudges) \in Seq(Nudge) /\ Len(Tail(nudges)) = Len(nudges) - 1
  BY <1>1, HeadTailProperties
<1>3. RedisTyped'
  BY <1>1, <1>2, FeedAssumption DEF HandleMessage, RedisTyped
<1>4. {Head(nudges).token} \in SUBSET Tokens
  BY <1>2 DEF Nudge
<1>5. replies' \in Seq(SUBSET Tokens)
  BY DEF HandleMessage, MirrorInv, MirrorTyped
<1>6. Follow({Head(nudges).token}, {}) \/ Follow({}, {Head(nudges).token})
  BY DEF HandleMessage
<1>. QED  BY <1>3, <1>4, <1>5, <1>6, Following

LEMMA ConvergeStep ==
  ASSUME RedisTyped, MirrorInv, ReadIntent \/ Converge
  PROVE  RedisTyped' /\ MirrorInv'
<1>1. RedisTyped'
  BY DEF ReadIntent, Converge, RedisTyped, redisVars
<1>2. replies \in Seq(SUBSET Tokens) /\ intent \in SUBSET Tokens
  BY DEF MirrorInv, MirrorTyped, RedisTyped
<1>3. CASE ReadIntent
  <2>1. replies' \in Seq(SUBSET Tokens)
    BY <1>2, <1>3, AppendProperties DEF ReadIntent
  <2>. QED  BY <1>1, <1>3, <2>1 DEF ReadIntent, MirrorInv, MirrorTyped, RegistryServed, Registry
<1>4. CASE Converge
  <2>1. Head(replies) \in SUBSET Tokens /\ replies' \in Seq(SUBSET Tokens)
    BY <1>2, <1>4, HeadTailProperties DEF Converge
  <2>2. Head(replies) \ Registry \in SUBSET Tokens /\ Registry \ Head(replies) \in SUBSET Tokens
    BY <2>1 DEF Registry
  <2>3. Follow(Head(replies) \ Registry, Registry \ Head(replies))
    BY <1>4 DEF Converge
  <2>. QED  BY <1>1, <2>1, <2>2, <2>3, Following
<1>. QED  BY <1>3, <1>4

LEMMA ConnectionStateStep ==
  ASSUME MirrorInv,
         OnOpen \/ RefreshCloses \/ DropsIdle \/ DropsConnection
         \/ ReconnectFires \/ RefreshFires \/ IdleFires
  PROVE  MirrorInv'
<1>1. MirrorTyped /\ RegistryServed
  BY DEF MirrorInv
<1>2. CASE OnOpen
  BY <1>1, <1>2 DEF OnOpen, MirrorInv, MirrorTyped, RegistryServed, Registry, Wss
<1>3. CASE RefreshCloses \/ DropsIdle \/ DropsConnection
  BY <1>1, <1>3 DEF RefreshCloses, DropsIdle, DropsConnection, OnClose, MirrorInv, MirrorTyped,
     RegistryServed, Registry, Wss
<1>4. CASE ReconnectFires
  BY <1>1, <1>4 DEF ReconnectFires, MirrorInv, MirrorTyped, RegistryServed, Registry, Wss
<1>5. CASE RefreshFires
  BY <1>1, <1>5 DEF RefreshFires, MirrorInv, MirrorTyped, RegistryServed, Registry, Wss
<1>6. CASE IdleFires
  <2>1. UNCHANGED <<replies, counts, refresh>> /\ idle' = FALSE /\ Registry' = Registry
    BY <1>6 DEF IdleFires, Registry
  <2>2. CASE Registry = {} /\ Active
    <3>1. wss' = "closed" /\ frame' = {} /\ closing' = FALSE
      BY <1>6, <2>2 DEF IdleFires
    <3>. QED  BY <1>1, <2>1, <2>2, <3>1 DEF MirrorInv, MirrorTyped, RegistryServed, Wss
  <2>3. CASE ~(Registry = {} /\ Active)
    <3>1. UNCHANGED <<wss, frame, closing>>
      BY <1>6, <2>3 DEF IdleFires
    <3>. QED  BY <1>1, <2>1, <3>1 DEF MirrorInv, MirrorTyped, RegistryServed
  <2>. QED  BY <2>2, <2>3
<1>. QED  BY <1>2, <1>3, <1>4, <1>5, <1>6

-----------------------------------------------------------------------------

LEMMA InitialState == Init => IInv
<1> SUFFICES ASSUME Init PROVE IInv
  OBVIOUS
<1>1. ASSUME NEW t \in Tokens
      PROVE  refs[t] = Cardinality(Holders(t))
  <2>1. Holders(t) = {} /\ refs[t] = 0
    BY DEF Init, Holders
  <2>. QED  BY <2>1, FS_EmptySet
<1>2. ServerInv
  BY <1>1 DEF Init, ServerInv, ServerTyped, SocketShape, RefsMatchSockets, Holders,
     IntentMatchesInterest, Wanted
<1>3. RedisTyped
  BY FeedAssumption, EmptySeq DEF Init, RedisTyped
<1>4. MirrorInv
  <2>1. counts \in [Tokens -> Nat] /\ Registry = {} /\ replies \in Seq(SUBSET Tokens)
    BY EmptySeq DEF Init, Registry
  <2>. QED  BY <2>1 DEF Init, MirrorInv, MirrorTyped, RegistryServed, Wss
<1>5. ListingTyped
  BY DEF Init, ListingTyped, Status
<1>. QED  BY <1>2, <1>3, <1>4, <1>5 DEF IInv

LEMMA Step ==
  ASSUME IInv, Next
  PROVE  IInv'
<1>1. ServerInv /\ ListingTyped /\ RedisTyped /\ MirrorInv
  BY DEF IInv
<1>2. CASE Clients \/ Hydrate \/ ServerStops
  <2>1. ServerInv' /\ RedisTyped'
    BY <1>1, <1>2, FeedAssumption, ConnectionStep, CloseStep, SubscribeStep, UnsubscribeStep,
       KeepaliveStep, RestartStep DEF Clients
  <2>2. UNCHANGED <<listing, mirrorVars>> /\ (UNCHANGED reviews \/ reviews' = {})
    BY <1>2 DEF Clients, OnConnection, OnClientClose, HandleSubscribe, HandleUnsubscribe,
       TouchHttp, SweepHttp, Hydrate, ServerStops, listingVars
  <2>3. MirrorInv'
    BY <1>1, <2>2 DEF mirrorVars, MirrorInv, MirrorTyped, RegistryServed, Registry
  <2>. QED  BY <1>1, <2>1, <2>2, <2>3 DEF IInv, ListingTyped
<1>3. CASE Listings
  <2>1. UNCHANGED mirrorVars
    BY <1>3 DEF Listings, ReviewStarts, ReviewWrites, ReviewWires, ReviewFails
  <2>2. MirrorInv'
    BY <1>1, <2>1 DEF mirrorVars, MirrorInv, MirrorTyped, RegistryServed, Registry
  <2>. QED  BY <1>1, <1>3, <2>2, ListingStep DEF IInv
<1>4. CASE Mirror \/ DropsIdle \/ DropsConnection \/ MirrorRestarts \/ LinkLost
  <2>1. UNCHANGED <<serverVars, listingVars, intent, astray>>
    BY <1>4 DEF Mirror, HandleMessage, ReadIntent, Converge, OnOpen, RefreshCloses, OnClose,
       ReconnectFires, RefreshFires, IdleFires, DropsIdle, DropsConnection, MirrorRestarts,
       LinkLost, redisVars
  <2>2. ServerInv' /\ ListingTyped'
    BY <1>1, <2>1 DEF serverVars, listingVars, ServerInv, ServerTyped, SocketShape,
       RefsMatchSockets, IntentMatchesInterest, Wanted, ListingTyped
  <2>3. CASE HandleMessage \/ ReadIntent \/ Converge
    BY <1>1, <2>2, <2>3, MessageStep, ConvergeStep DEF IInv
  <2>4. CASE OnOpen \/ RefreshCloses \/ DropsIdle \/ DropsConnection
             \/ ReconnectFires \/ RefreshFires \/ IdleFires
    <3>1. MirrorInv'
      BY <1>1, <2>4, ConnectionStateStep
    <3>2. UNCHANGED redisVars
          /\ (UNCHANGED faults \/ (faults < MaxFaults /\ faults' = faults + 1))
      BY <2>4 DEF OnOpen, RefreshCloses, OnClose, ReconnectFires, RefreshFires, IdleFires,
         DropsIdle, DropsConnection
    <3>3. RedisTyped'
      BY <1>1, <3>2, FeedAssumption DEF redisVars, RedisTyped
    <3>. QED  BY <2>2, <3>1, <3>3 DEF IInv
  <2>5. CASE MirrorRestarts \/ LinkLost
    <3>1. RedisTyped'
      <4>1. nudges' = <<>> /\ faults < MaxFaults /\ faults' = faults + 1
        BY <2>5 DEF MirrorRestarts, LinkLost
      <4>2. nudges' \in Seq(Nudge) /\ Len(nudges') = 0
        BY <4>1, EmptySeq
      <4>. QED  BY <1>1, <2>1, <4>1, <4>2, FeedAssumption DEF RedisTyped
    <3>2. CASE MirrorRestarts
      <4>1. /\ replies' = <<>> /\ counts' = [t \in Tokens |-> 0] /\ wss' = "idle"
            /\ frame' = {} /\ ~closing' /\ closing' \in BOOLEAN
            /\ refresh' \in BOOLEAN /\ idle' \in BOOLEAN
        BY <3>2 DEF MirrorRestarts
      <4>2. replies' \in Seq(SUBSET Tokens) /\ counts' \in [Tokens -> Nat] /\ Registry' = {}
        BY <4>1, EmptySeq DEF Registry
      <4>3. MirrorInv'
        BY <4>1, <4>2 DEF MirrorInv, MirrorTyped, RegistryServed, Wss
      <4>. QED  BY <2>2, <3>1, <4>3 DEF IInv
    <3>3. CASE LinkLost
      <4>1. MirrorInv'
        BY <1>1, <3>3 DEF LinkLost, mirrorVars, MirrorInv, MirrorTyped, RegistryServed, Registry
      <4>. QED  BY <2>2, <3>1, <4>1 DEF IInv
    <3>. QED  BY <2>5, <3>2, <3>3
  <2>. QED  BY <1>4, <2>3, <2>4, <2>5 DEF Mirror
<1>. QED  BY <1>2, <1>3, <1>4 DEF Next, Faults

LEMMA Invariance == Spec => []IInv
<1>1. IInv /\ UNCHANGED vars => IInv'
  BY DEF vars, serverVars, listingVars, redisVars, mirrorVars, IInv, ServerInv, ServerTyped,
     SocketShape, RefsMatchSockets, IntentMatchesInterest, Wanted, ListingTyped, RedisTyped,
     MirrorInv, MirrorTyped, RegistryServed, Registry
<1>2. IInv /\ [Next]_vars => IInv'
  BY <1>1, Step
<1>. QED  BY <1>2, InitialState, PTL DEF Spec

(* Every variable of the feed keeps its type, and a mirror connection that *)
(* is not open has no frame, for any bounds and any number of faults.      *)
THEOREM TypeCorrectness == Spec => []TypeOK
  BY Invariance, InvariantImplies, PTL

(* However connections come, are replaced, close late and restart, and     *)
(* however many there are, a token's count is the number of connected      *)
(* sockets that hold it (socket.server.ts, socket.subscriber.ts).          *)
THEOREM RefsAreSockets == Spec => []RefsMatchSockets
  BY Invariance, InvariantImplies, PTL

(* Whenever the server has hydrated, a token is in the durable intent if   *)
(* and only if a socket or a recent REST call is interested in it, unless  *)
(* the last write about it failed or was made for a listing: the first     *)
(* write of begin_tracking or end_tracking that succeeds ends the          *)
(* exception (socket.subscriber.ts, controller.approve.ts and .reject.ts). *)
THEOREM IntentIsInterest == Spec => []IntentMatchesInterest
  BY Invariance, InvariantImplies, PTL

(* No token of the mirror's registry is left behind a stopped socket, or   *)
(* out of the frame of an open one with no reconnect on the way.           *)
THEOREM RegistryIsServed == Spec => []RegistryServed
  BY Invariance, InvariantImplies, PTL

=============================================================================
