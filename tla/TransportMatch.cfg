\* A worker of an asynchronous download.
CONSTANTS
    Clients <- AsyncWorkers
    Calls = {c1, c2}
    NoCall = NoCall
    MaxBeats = 3
    MaxRetries = 2
    MaxOutages = 1
    Heartbeats = {h1, h2}
SPECIFICATION Spec
CHECK_DEADLOCK FALSE
INVARIANT
    AnswersMatch
