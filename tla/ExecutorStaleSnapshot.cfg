\* An entity is created between the two reads of reconcile_locked.
CONSTANTS
    n1 = n1
    n2 = n2
    e1 = e1
    e2 = e2
    Nodes = {n1}
    Entities = {e1}
    Owner <- OwnerSingle
    Users = {u1, u2}
    MaxTriggers = 6
    Batch = 2
    MaxFailures = 0
    Serial = FALSE
    MaxCalls = 2
    MaxData = 1
SPECIFICATION Spec
INVARIANTS
    QuiescentIsCurrent
CHECK_DEADLOCK FALSE
