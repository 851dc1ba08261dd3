CONSTANTS
    Tokens = {t1}
    Sockets = {s1, s2}
    Guests = {}
    Polled = {t1}
    Markets = {{t1}}
    MaxSubs = 1
    MaxNudges = 2
    MaxReviews = 1
    MaxReplies = 1
    MaxFaults = 1
SPECIFICATION Spec
INVARIANTS
    TypeOK
    RefsMatchSockets
    IntentMatchesInterest
    RegistryServed
PROPERTIES
    IntentIsStreamed
    OthersAreReleased
