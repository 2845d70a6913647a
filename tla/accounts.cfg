SPECIFICATION Spec
CONSTANTS
    User = {u1}
    Proc = {p1, p2}
    Name = {n1, n2}
    MaxCalls = 5
    NoUser = NoUser
SYMMETRY MCSymmetry
INVARIANTS
    AccountInv
    InfoFresh
    CardFresh
PROPERTIES
    DecisionsHold
    OneRegistration
CHECK_DEADLOCK FALSE
