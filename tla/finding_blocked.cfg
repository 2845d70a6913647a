SPECIFICATION Spec
CONSTANTS
    User = {u1, u2}
    Proc = {p1}
    Op = {"black", "chat", "resume"}
    Fault = {}
    MaxCalls = 4
    NoUser = NoUser
PROPERTY
    BlockedCannotOpen
CHECK_DEADLOCK FALSE
