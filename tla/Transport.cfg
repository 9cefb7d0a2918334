\* Every kind of client, two calls, a server that goes away once.
CONSTANTS
    Clients <- AllClients
    Calls = {c1, c2}
    NoCall = NoCall
    MaxBeats = 3
    MaxRetries = 2
    MaxOutages = 1
    Heartbeats = {h1, h2}
SPECIFICATION FairSpec
INVARIANTS
    MismatchFollowsFailure
PROPERTIES
    CleanLinkAnswersMatch
    CallsEnd
