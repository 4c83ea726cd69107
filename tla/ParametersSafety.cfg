\* Two application threads and one executor thread; one publish and one construction
\* of the core may fail, and the node may be dropped.
CONSTANTS
    a = a
    b = b
    none = none
    v1 = v1
    v2 = v2
    Names = {a, b, none}
    EmptyName = none
    Values = {v1, v2}
    NotSet = NotSet
    Undeclared = Undeclared
    Users = {u1, u2}
    Handlers = {h}
    NoThread = NoThread
    Requests <- SomeUnset
    MaxCalls = 4
    MaxFailures = 1
    MaxBroken = 1
    Droppable = TRUE
SPECIFICATION Spec
SYMMETRY UserSymmetry
INVARIANTS
    EventsFollowValues
    AcceptedMeansSet
    HandlersHaveCore
PROPERTIES
    ImplementsStore
CHECK_DEADLOCK FALSE
