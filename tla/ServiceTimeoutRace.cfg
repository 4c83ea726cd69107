\* A caller whose call() timed out calls again.
CONSTANTS
    k1 = k1
    c1 = c1
    c2 = c2
    Clients = {k1}
    Callers = {c1}
    ClientOf <- Single
    Servers = {s1}
    Timeouts = TRUE
    Lossy = FALSE
    MaxSeq = 2
SPECIFICATION Spec
INVARIANTS
    CallGetsOwnResponse
CHECK_DEADLOCK FALSE
