\* Two threads share one client of a service with two servers; no message is lost.
CONSTANTS
    k1 = k1
    c1 = c1
    c2 = c2
    Clients = {k1}
    Callers = {c1, c2}
    ClientOf <- Shared
    Servers = {s1, s2}
    Timeouts = TRUE
    Lossy = FALSE
    MaxSeq = 2
SPECIFICATION FairSpec
INVARIANTS
    RegisteredBeforeReply
    PendingPointersLive
    AnswersMatch
PROPERTIES
    EveryRequestEnds
CHECK_DEADLOCK FALSE
