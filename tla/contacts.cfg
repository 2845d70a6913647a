SPECIFICATION Spec
CONSTANTS
    User = {u1, u2}
    Proc = {p1, p2}
    Op = {"apply", "pass", "refuse", "blackApply", "delete", "black", "cancel", "friends", "chat", "resume", "deleteSession", "able", "disable", "deleteUser"}
    Fault = {"rollback", "crash"}
    MaxCalls = 4
    NoUser = NoUser
SYMMETRY MCSymmetry
INVARIANTS
    ContactInv
    MirroredContacts
    AgreedAreContacts
    OncePerPair
    NoSessionOfDisabled
    FriendsFresh
PROPERTIES
    ImplementsFriendship
    BlockHolds
CHECK_DEADLOCK FALSE
