SPECIFICATION Spec
CONSTANTS
    User = {u1, u2}
    Group = {g1}
    Conn = {c1, c2}
    Partition = {p1, p2}
    Roster <- MCRoster
    PartitionOf <- OwnPartition
    ChannelSize = 2
    MaxMsg = 2
    MaxStarts = 2
    Kind = {"Text", "Call"}
    Env = {"relogin", "gone", "kill"}
    NoUser = NoUser
    NoConn = NoConn
SYMMETRY OwnPartitionSymmetry
INVARIANTS
    InOrderOnce
    OncePerUser
    OnlyAudience
PROPERTY
    ImplementsDelivery
CHECK_DEADLOCK FALSE
