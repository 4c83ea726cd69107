\* All calls but cancel are made on the spinner's thread: what the docs promise of the attachment set.
CONSTANTS
    n1 = n1
    n2 = n2
    e1 = e1
    e2 = e2
    Nodes = {n1}
    Entities = {e1, e2}
    Owner <- OwnerTogether
    Users = {u1, u2}
    MaxTriggers = 3
    Batch = 1
    MaxFailures = 0
    Serial = TRUE
    MaxCalls = 2
    MaxData = 1
SPECIFICATION FairSpec
INVARIANTS
    QuiescentIsCurrent
PROPERTIES
    CancelStopsSpin
    DataIsHandled
    EntityIsAttached
CHECK_DEADLOCK FALSE
