\* Two nodes with a publisher thread each; two threads make calls.
CONSTANTS
    par = par
    fast = fast
    slow = slow
    shot = shot
    subscr = subscr
    Threads = {t1, t2}
    Parameters = {par}
    Periodic = {fast, slow}
    OneShot = {shot}
    Subscriptions = {subscr}
    Topology <- TwoNodes
    Period <- Rates
    MaxTime = 3
SPECIFICATION Spec
INVARIANTS
    ThreadsAreBacked
    FailureLeavesNothing
    RateKept
    CallsHaveExecutor
PROPERTIES
    CreateAndDestroyReturn
CHECK_DEADLOCK FALSE
