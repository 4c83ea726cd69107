\* A node with a publisher and a subscription; one thread spins, two make calls and one
\* of these exits.
CONSTANTS
    t1 = t1
    t2 = t2
    t3 = t3
    Threads = {t1, t2, t3}
    Spinners = {t1}
    Users = {t2, t3}
    Main = t2
    MaxHandle = 3
    MaxData = 2
    MaxSamples = 2
    EnvDomain = 300
    LocalhostOnly = TRUE
    Uri = FALSE
    InitCalls <- Calls
CONSTRAINT FollowedFurther
SPECIFICATION Spec
INVARIANTS
    OneLateCallback
    EntitiesAreKnown
    OverridesAreUsed
    CallbacksGone
    DestroyEndsSpin
CHECK_DEADLOCK FALSE
