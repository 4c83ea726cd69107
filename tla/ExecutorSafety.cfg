\* Two threads call the API concurrently with a spinner; one DDS call may fail.
CONSTANTS
    n1 = n1
    n2 = n2
    e1 = e1
    e2 = e2
    Nodes = {n1, n2}
    Entities = {e1}
    Owner <- OwnerSingle
    Users = {u1, u2}
    MaxTriggers = 5
    Batch = 1
    MaxFailures = 1
    Serial = FALSE
    MaxCalls = 3
    MaxData = 1
SYMMETRY UserSymmetry
SPECIFICATION Spec
INVARIANTS
    StaleIdsAreDead
    ChangeIsNoticed
    AttachedAreOfNodes
    CancelIsNotLost
    CancelEndsAtMostTwo
PROPERTIES
    RemovedNodesStaySilent
    SpinSomeDrains
CHECK_DEADLOCK FALSE
