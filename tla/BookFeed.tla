------------------------------ MODULE BookFeed ------------------------------
(***************************************************************************)
(* The order-book feed: who is watching which token on the API server     *)
(* (socket.server.ts, socket.subscriber.ts), the listings whose approval  *)
(* and rejection write the same intent (controller.approve.ts,            *)
(* controller.reject.ts, service.approve-and-list.ts), the intent SET and *)
(* the nudge channel in Redis (service.mirror-control.ts), and the mirror *)
(* that follows them and keeps one WebSocket to Polymarket                *)
(* (service.polymarket.control.ts, socket.market.ts, socket.base.ts).     *)
(*                                                                         *)
(* A handler of either process runs to its next await without             *)
(* interruption, so each is one action.  The server's Redis commands are  *)
(* queued on one connection in the order of the handlers that issue them, *)
(* so the intent SET changes with the handler, unless the MULTI fails,    *)
(* which is only logged; one that took effect although its answer was     *)
(* lost is a success here, as nothing waits for the answer.  The nudges   *)
(* travel on the mirror's second connection and arrive later, or never.   *)
(***************************************************************************)
EXTENDS Integers, Sequences, FiniteSets

CONSTANTS
    Tokens,     \* Polymarket outcome tokens
    Sockets,    \* client connections of the server
    Guests,     \* those that carry no session; the others are of one user
    Polled,     \* the tokens whose order book REST calls ask for
    Markets,    \* listings under review, each the set of its market's tokens
    MaxSubs,    \* MAX_SUBSCRIPTIONS_PER_SOCKET
    MaxNudges,  \* bound: messages on the control channel
    MaxReviews, \* bound: calls about listings under way at a time
    MaxReplies, \* bound: SMEMBERS replies on their way to the mirror
    MaxFaults   \* bound: restarts, lost links, dropped connections and failed writes

ASSUME FeedAssumption ==
    /\ IsFiniteSet(Tokens) /\ IsFiniteSet(Sockets) /\ Guests \subseteq Sockets
    /\ Polled \subseteq Tokens /\ Markets \subseteq SUBSET Tokens
    /\ MaxSubs \in Nat /\ MaxNudges \in Nat /\ MaxReplies \in Nat /\ MaxFaults \in Nat
    /\ MaxReviews \in Nat

VARIABLES
    server,   \* "down" between a restart and the end of hydrate
    sockets,  \* "none", "up" or "evicted" (replaced, its close event still due)
    subs,     \* client_subs: the tokens of each socket
    refs,     \* RedisSubscriber.refs
    touched,  \* RedisSubscriber.http_touch: tokens a REST call keeps tracked
    listing,  \* Listing.status of each market
    reviews,  \* the calls that approve or reject a listing, by their next step
    intent,   \* the Redis SET polymarket:intent:tokens
    astray,   \* ghost: tokens whose last write of the intent failed, or was a listing's
    nudges,   \* the control channel, as the mirror will receive it
    replies,  \* SMEMBERS replies the mirror has not yet handled
    counts,   \* SubscriptionRegistry.counts of the mirror
    wss,      \* SocketBase.state
    frame,    \* the tokens of the subscribe frame of the open connection
    closing,  \* the refresh has closed the connection, its event is due
    refresh,  \* refresh_timer is running
    idle,     \* idle_close_timer is running
    faults    \* those of MaxFaults so far

serverVars == <<server, sockets, subs, refs, touched>>
listingVars == <<listing, reviews>>
redisVars == <<intent, astray, nudges>>
mirrorVars == <<replies, counts, wss, frame, closing, refresh, idle>>
vars == <<serverVars, listingVars, redisVars, mirrorVars, faults>>

Nudge == [action : {"subscribe", "unsubscribe"}, token : Tokens]
Status == {"PENDING", "APPROVED", "REJECTED"}
Review == [next : {"approve", "reject", "delist", "wire", "unwire"}, market : Markets]
Wss == {"idle", "connecting", "open", "reconnecting", "closed"}

Init ==
    /\ server = "up"
    /\ sockets = [s \in Sockets |-> "none"]
    /\ subs = [s \in Sockets |-> {}]
    /\ refs = [t \in Tokens |-> 0]
    /\ touched = {}
    /\ listing = [m \in Markets |-> "PENDING"] /\ reviews = {}
    /\ intent = {} /\ astray = {} /\ nudges = <<>> /\ replies = <<>>
    /\ counts = [t \in Tokens |-> 0]
    /\ wss = "idle" /\ frame = {}
    /\ closing = FALSE /\ refresh = FALSE /\ idle = FALSE
    /\ faults = 0

-----------------------------------------------------------------------------
(* The server *)

\* Interest in a token, by a socket or by a recent REST call.
Wanted(t) == refs[t] > 0 \/ t \in touched

\* MULTI of SADD or SREM with its PUBLISHes.
Publish(action, batch) ==
    /\ Len(nudges) + Len(batch) <= MaxNudges
    /\ nudges' = nudges \o [i \in DOMAIN batch |-> [action |-> action, token |-> batch[i]]]

InOrder(S) ==
    {f \in [1..Cardinality(S) -> S] : \A i, j \in DOMAIN f : f[i] = f[j] => i = j}

Counted(n) == faults + n <= MaxFaults /\ faults' = faults + n

\* SADD and its nudge, or an error that is logged and forgotten.
BeginTracking(t) ==
    \/ /\ intent' = intent \cup {t} /\ astray' = astray \ {t}
       /\ Publish("subscribe", <<t>>) /\ Counted(0)
    \/ /\ astray' = astray \cup {t} /\ Counted(1)
       /\ UNCHANGED <<intent, nudges>>

\* SREM and its nudge for every token of S, of which some fail.
EndTracking(S) ==
    \E failed \in SUBSET S :
        /\ intent' = intent \ (S \ failed) /\ astray' = (astray \ S) \cup failed
        /\ \E batch \in InOrder(S \ failed) : Publish("unsubscribe", batch)
        /\ Counted(Cardinality(failed))

SubscriberSubscribe(t) ==
    /\ refs' = [refs EXCEPT ![t] = @ + 1]
    /\ IF Wanted(t) THEN UNCHANGED <<redisVars, faults>> ELSE BeginTracking(t)

\* Mutant: the last socket ends the tracking that a REST call still needs.
ReleaseAll(S) ==
    LET last == {t \in S : refs[t] = 1} IN
    /\ refs' = [t \in Tokens |-> IF t \in S /\ refs[t] > 0 THEN refs[t] - 1 ELSE refs[t]]
    /\ IF last = {} THEN UNCHANGED <<redisVars, faults>> ELSE EndTracking(last)

\* The references that the tokens of a socket give back, and those that end.
Release(S) ==
    LET last == {t \in S : refs[t] = 1 /\ t \notin touched} IN
    /\ refs' = [t \in Tokens |-> IF t \in S /\ refs[t] > 0 THEN refs[t] - 1 ELSE refs[t]]
    /\ IF last = {} THEN UNCHANGED <<redisVars, faults>> ELSE EndTracking(last)

\* The sockets that lose their place when s connects.
Evicted(s) == IF s \in Guests THEN {} ELSE {r \in Sockets \ Guests : sockets[r] = "up"}

\* Mutant: the eviction forgets to delete the tokens of the old socket.
OnConnectionKeeps(s) ==
    /\ server = "up" /\ sockets[s] = "none"
    /\ sockets' = [r \in Sockets |-> IF r = s THEN "up"
                                     ELSE IF r \in Evicted(s) THEN "evicted" ELSE sockets[r]]
    /\ Release(UNION {subs[r] : r \in Evicted(s)})
    /\ UNCHANGED <<server, subs, touched, listingVars, mirrorVars>>

OnConnection(s) ==
    /\ server = "up" /\ sockets[s] = "none"
    /\ sockets' = [r \in Sockets |-> IF r = s THEN "up"
                                     ELSE IF r \in Evicted(s) THEN "evicted" ELSE sockets[r]]
    /\ subs' = [r \in Sockets |-> IF r \in Evicted(s) THEN {} ELSE subs[r]]
    /\ Release(UNION {subs[r] : r \in Evicted(s)})
    /\ UNCHANGED <<server, touched, listingVars, mirrorVars>>

HandleSubscribe(s, t) ==
    /\ sockets[s] = "up" /\ t \notin subs[s] /\ Cardinality(subs[s]) < MaxSubs
    /\ subs' = [subs EXCEPT ![s] = @ \cup {t}]
    /\ SubscriberSubscribe(t)
    /\ UNCHANGED <<server, sockets, touched, listingVars, mirrorVars>>

HandleUnsubscribe(s, t) ==
    /\ sockets[s] = "up" /\ t \in subs[s]
    /\ subs' = [subs EXCEPT ![s] = @ \ {t}]
    /\ Release({t})
    /\ UNCHANGED <<server, sockets, touched, listingVars, mirrorVars>>

\* For an evicted socket there is nothing left to release.
OnClientClose(s) ==
    /\ sockets[s] # "none"
    /\ sockets' = [sockets EXCEPT ![s] = "none"]
    /\ subs' = [subs EXCEPT ![s] = {}]
    /\ Release(subs[s])
    /\ UNCHANGED <<server, touched, listingVars, mirrorVars>>

TouchHttp(t) ==
    /\ server = "up"
    /\ touched' = touched \cup {t}
    /\ IF Wanted(t) THEN UNCHANGED <<redisVars, faults>> ELSE BeginTracking(t)
    /\ UNCHANGED <<server, sockets, subs, refs, listingVars, mirrorVars>>

\* The keepalive of t is over 60 s old when the sweeper looks.
SweepHttp(t) ==
    /\ t \in touched
    /\ touched' = touched \ {t}
    /\ IF refs[t] = 0 THEN EndTracking({t}) ELSE UNCHANGED <<redisVars, faults>>
    /\ UNCHANGED <<server, sockets, subs, refs, listingVars, mirrorVars>>

ServerStops ==
    /\ server = "up" /\ faults < MaxFaults
    /\ faults' = faults + 1
    /\ server' = "down"
    /\ sockets' = [s \in Sockets |-> "none"]
    /\ subs' = [s \in Sockets |-> {}]
    /\ refs' = [t \in Tokens |-> 0]
    /\ touched' = {}
    /\ reviews' = {}
    /\ UNCHANGED <<listing, redisVars, mirrorVars>>

\* The boot removes whatever intent the last run left, before it listens.
Hydrate ==
    /\ server = "down"
    /\ server' = "up"
    /\ intent' = {} /\ astray' = {}
    /\ \E batch \in InOrder(intent) : Publish("unsubscribe", batch)
    /\ UNCHANGED <<sockets, subs, refs, touched, listingVars, mirrorVars, faults>>

-----------------------------------------------------------------------------
(* The listings.  Neither call looks at the references of the tokens.      *)

\* A call reads the status and goes on if it may.
ReviewStarts(m) ==
    /\ server = "up" /\ Cardinality(reviews) < MaxReviews
    /\ \/ listing[m] = "PENDING" /\ \E next \in {"approve", "reject"} :
               reviews' = reviews \cup {[next |-> next, market |-> m]}
       \/ listing[m] = "APPROVED" /\ reviews' = reviews \cup {[next |-> "delist", market |-> m]}
    /\ UNCHANGED <<serverVars, listing, redisVars, mirrorVars, faults>>

\* The update names the market only, so that the status may have changed.
ReviewWrites(r) ==
    /\ r \in reviews /\ r.next \in {"approve", "reject", "delist"}
    /\ \/ /\ r.next = "approve" /\ listing' = [listing EXCEPT ![r.market] = "APPROVED"]
          /\ reviews' = (reviews \ {r}) \cup {[r EXCEPT !.next = "wire"]}
       \/ /\ r.next = "delist" /\ listing' = [listing EXCEPT ![r.market] = "REJECTED"]
          /\ reviews' = (reviews \ {r}) \cup {[r EXCEPT !.next = "unwire"]}
       \/ /\ r.next = "reject" /\ listing' = [listing EXCEPT ![r.market] = "REJECTED"]
          /\ reviews' = reviews \ {r}
    /\ UNCHANGED <<serverVars, redisVars, mirrorVars, faults>>

\* A step of the call throws: what it has written stays.
ReviewFails(r) ==
    /\ r \in reviews
    /\ reviews' = reviews \ {r}
    /\ UNCHANGED <<serverVars, listing, redisVars, mirrorVars, faults>>

\* Last, the tokens of the market go into the intent or out of it.
ReviewWires(r) ==
    /\ r \in reviews /\ r.next \in {"wire", "unwire"}
    /\ reviews' = reviews \ {r}
    /\ intent' = IF r.next = "wire" THEN intent \cup r.market ELSE intent \ r.market
    /\ astray' = astray \cup r.market
    /\ \E batch \in InOrder(r.market) :
           Publish(IF r.next = "wire" THEN "subscribe" ELSE "unsubscribe", batch)
    /\ UNCHANGED <<serverVars, listing, mirrorVars, faults>>

-----------------------------------------------------------------------------
(* The mirror *)

Registry == {t \in Tokens : counts[t] > 0}
Active == wss \in {"open", "connecting"}

\* Mutant: later subscribes ride on the open connection.
FollowRiding(add, remove) ==
    LET fresh    == add \ Registry
        connects == fresh # {} /\ ~Active
        left     == (Registry \cup add) \ {t \in remove : counts[t] <= 1}
        emptied  == left = {} /\ Registry # {}
    IN  /\ counts' = [t \in Tokens |-> IF t \in add THEN counts[t] + 1
                                       ELSE IF t \in remove \cap Registry THEN counts[t] - 1
                                       ELSE counts[t]]
        /\ wss' = IF connects THEN "connecting" ELSE wss
        /\ idle' = ((idle /\ add = {}) \/ (emptied /\ Active))
        /\ UNCHANGED <<frame, closing, refresh>>

\* market.subscribe of each token of add, then market.unsubscribe of each of remove.
Follow(add, remove) ==
    LET fresh    == add \ Registry
        connects == fresh # {} /\ ~Active
        left     == (Registry \cup add) \ {t \in remove : counts[t] <= 1}
        emptied  == left = {} /\ Registry # {}
    IN  /\ counts' = [t \in Tokens |-> IF t \in add THEN counts[t] + 1
                                       ELSE IF t \in remove \cap Registry THEN counts[t] - 1
                                       ELSE counts[t]]
        /\ wss' = IF connects THEN "connecting" ELSE wss
        /\ refresh' = (refresh \/ (fresh # {} /\ wss = "open"))
        /\ idle' = ((idle /\ add = {}) \/ (emptied /\ Active))
        /\ UNCHANGED <<frame, closing>>

HandleMessage ==
    /\ nudges # <<>>
    /\ nudges' = Tail(nudges)
    /\ IF Head(nudges).action = "subscribe"
       THEN Follow({Head(nudges).token}, {})
       ELSE Follow({}, {Head(nudges).token})
    /\ UNCHANGED <<serverVars, listingVars, intent, astray, replies, faults>>

\* A converge begins: at boot, on open, on "ready" and every 60 s.
ReadIntent ==
    /\ Len(replies) < MaxReplies
    /\ replies' = Append(replies, intent)
    /\ UNCHANGED <<serverVars, listingVars, redisVars>>
    /\ UNCHANGED <<counts, wss, frame, closing, refresh, idle, faults>>

\* Mutants: a converge that only prunes, and one that only adds.
ConvergePrunes ==
    /\ replies # <<>>
    /\ replies' = Tail(replies)
    /\ Follow({}, Registry \ Head(replies))
    /\ UNCHANGED <<serverVars, listingVars, redisVars, faults>>

ConvergeAdds ==
    /\ replies # <<>>
    /\ replies' = Tail(replies)
    /\ Follow(Head(replies) \ Registry, {})
    /\ UNCHANGED <<serverVars, listingVars, redisVars, faults>>

\* It goes on with the reply, compared with the registry of this moment.
Converge ==
    /\ replies # <<>>
    /\ replies' = Tail(replies)
    /\ Follow(Head(replies) \ Registry, Registry \ Head(replies))
    /\ UNCHANGED <<serverVars, listingVars, redisVars, faults>>

\* The frame names the whole registry, and nothing sent later counts.
OnOpen ==
    /\ wss = "connecting"
    /\ wss' = "open"
    /\ frame' = Registry
    /\ UNCHANGED <<serverVars, listingVars, redisVars>>
    /\ UNCHANGED <<replies, counts, closing, refresh, idle, faults>>

\* Mutant: the close that was asked for stays pending.
OnCloseKeeps ==
    /\ wss' = "reconnecting"
    /\ frame' = {}
    /\ UNCHANGED <<serverVars, listingVars, redisVars, replies, counts, closing, refresh, idle>>

OnClose ==
    /\ wss' = "reconnecting"
    /\ frame' = {}
    /\ closing' = FALSE
    /\ UNCHANGED <<serverVars, listingVars, redisVars, replies, counts, refresh, idle>>

RefreshCloses == closing /\ OnClose /\ UNCHANGED faults

\* Polymarket drops a connection that follows nothing.
DropsIdle == wss = "open" /\ frame = {} /\ OnClose /\ UNCHANGED faults

DropsConnection == Active /\ faults < MaxFaults /\ OnClose /\ faults' = faults + 1

ReconnectFires ==
    /\ wss = "reconnecting"
    /\ wss' = "connecting"
    /\ UNCHANGED <<serverVars, listingVars, redisVars>>
    /\ UNCHANGED <<replies, counts, frame, closing, refresh, idle, faults>>

RefreshFires ==
    /\ refresh
    /\ refresh' = FALSE
    /\ closing' = (closing \/ wss = "open")
    /\ UNCHANGED <<serverVars, listingVars, redisVars, replies, counts, wss, frame, idle, faults>>

IdleFires ==
    /\ idle
    /\ idle' = FALSE
    /\ IF Registry = {} /\ Active
       THEN wss' = "closed" /\ frame' = {} /\ closing' = FALSE
       ELSE UNCHANGED <<wss, frame, closing>>
    /\ UNCHANGED <<serverVars, listingVars, redisVars, replies, counts, refresh, faults>>

MirrorRestarts ==
    /\ faults < MaxFaults
    /\ faults' = faults + 1
    /\ nudges' = <<>> /\ replies' = <<>>
    /\ counts' = [t \in Tokens |-> 0]
    /\ wss' = "idle" /\ frame' = {}
    /\ closing' = FALSE /\ refresh' = FALSE /\ idle' = FALSE
    /\ UNCHANGED <<serverVars, listingVars, intent, astray>>

\* Pub/sub keeps nothing for a subscriber whose link is down.
LinkLost ==
    /\ nudges # <<>> /\ faults < MaxFaults
    /\ faults' = faults + 1
    /\ nudges' = <<>>
    /\ UNCHANGED <<serverVars, listingVars, intent, astray, mirrorVars>>

-----------------------------------------------------------------------------

Clients ==
    \/ \E s \in Sockets : OnConnection(s) \/ OnClientClose(s)
    \/ \E s \in Sockets, t \in Tokens : HandleSubscribe(s, t) \/ HandleUnsubscribe(s, t)
    \/ \E t \in Polled : TouchHttp(t) \/ SweepHttp(t)

Listings ==
    \/ \E m \in Markets : ReviewStarts(m)
    \/ \E r \in reviews : ReviewWrites(r) \/ ReviewWires(r) \/ ReviewFails(r)

Mirror ==
    \/ HandleMessage \/ ReadIntent \/ Converge
    \/ OnOpen \/ RefreshCloses \/ ReconnectFires \/ RefreshFires \/ IdleFires

Faults ==
    \/ ServerStops \/ MirrorRestarts \/ LinkLost
    \/ DropsIdle \/ DropsConnection

Next == Clients \/ Listings \/ Hydrate \/ Mirror \/ Faults

(* Timers fire, the event loops run, Redis and Polymarket answer.  Nothing *)
(* is assumed of clients, of keepalives, of listings or of faults.         *)
Fairness ==
    /\ WF_vars(Hydrate)
    /\ WF_vars(HandleMessage) /\ WF_vars(ReadIntent) /\ WF_vars(Converge)
    /\ WF_vars(OnOpen \/ RefreshCloses \/ ReconnectFires)
    /\ WF_vars(RefreshFires) /\ WF_vars(IdleFires)

Spec == Init /\ [][Next]_vars /\ Fairness

-----------------------------------------------------------------------------
(* Properties *)

\* Every variable keeps its type; a connection that is not open has no frame.
TypeOK ==
    /\ server \in {"up", "down"}
    /\ sockets \in [Sockets -> {"none", "up", "evicted"}]
    /\ subs \in [Sockets -> SUBSET Tokens]
    /\ refs \in [Tokens -> Nat]
    /\ touched \subseteq Tokens /\ intent \subseteq Tokens /\ astray \subseteq Tokens
    /\ listing \in [Markets -> Status] /\ reviews \subseteq Review
    /\ nudges \in Seq(Nudge) /\ Len(nudges) <= MaxNudges
    /\ replies \in Seq(SUBSET Tokens)
    /\ counts \in [Tokens -> Nat]
    /\ wss \in Wss /\ frame \subseteq Tokens
    /\ closing \in BOOLEAN /\ refresh \in BOOLEAN /\ idle \in BOOLEAN
    /\ faults \in 0..MaxFaults
    /\ wss # "open" => frame = {} /\ ~closing

\* The reference count of a token is the number of connected sockets that
\* hold it, through evictions followed by a late close event and through
\* restarts (socket.server.ts evict_existing, on_client_close): a count that
\* drifts keeps a feed for ever or cuts one off.
RefsMatchSockets ==
    \A t \in Tokens : refs[t] = Cardinality({s \in Sockets : sockets[s] = "up" /\ t \in subs[s]})

\* The durable intent names a token exactly while somebody is interested in
\* it, whichever of the sockets and the REST keepalive comes or goes first
\* (socket.subscriber.ts subscribe, unsubscribe, touch_http, sweep_http), from
\* the first write of the server that succeeds after any that failed and
\* after any that a listing made without looking at the references.
IntentMatchesInterest ==
    server = "up" => \A t \in Tokens \ astray : t \in intent <=> Wanted(t)

\* A token of the mirror's registry never sits behind a stopped socket, and
\* behind an open one it is in the frame or a reconnect is under way
\* (socket.market.ts subscribe, schedule_refresh_reconnect, idle close).
RegistryServed ==
    \A t \in Registry :
        /\ wss \notin {"idle", "closed"}
        /\ wss = "open" => t \in frame \/ refresh \/ closing

\* A token that stays in the intent, whoever put it there, is streamed in the
\* end, although nudges are lost, a reply of SMEMBERS is older than the nudges
\* handled before it, and processes and connections stop
\* (service.polymarket.control.ts converge).  Stated of the tokens that both
\* kinds of interest ask for: the others are a special case of them.
IntentIsStreamed == \A t \in Polled : t \in intent ~> (t \in frame \/ t \notin intent)

\* A token that stays out of the intent leaves the registry in the end,
\* although a converge and a nudge may both have counted it and a converge
\* takes back only one (service.polymarket.control.ts converge).
OthersAreReleased == \A t \in Polled : t \notin intent ~> (t \notin Registry \/ t \in intent)

=============================================================================
