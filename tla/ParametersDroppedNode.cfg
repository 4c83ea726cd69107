\* The node is dropped while a request is being served.
CONSTANTS
    a = a
    b = b
    none = none
    v1 = v1
    v2 = v2
    Names = {a, b, none}
    EmptyName = none
    Values = {v1}
    NotSet = NotSet
    Undeclared = Undeclared
    Users = {u1}
    Handlers = {h}
    NoThread = NoThread
    Requests <- TwoNames
    MaxCalls = 2
    MaxFailures = 0
    MaxBroken = 0
    Droppable = TRUE
SPECIFICATION Spec
INVARIANTS
    DispatchStaysSafe
CHECK_DEADLOCK FALSE
