SPECIFICATION FairRestartSpec
CONSTANTS
    User = {u1, u2}
    Group = {}
    Conn = {c1}
    Partition = {p1}
    Roster <- MCRoster
    PartitionOf <- SamePartition
    ChannelSize = 1
    MaxMsg = 1
    MaxStarts = 2
    Kind = {"Text"}
    Env = {"kill"}
    NoUser = NoUser
    NoConn = NoConn
PROPERTY
    RecoveredAfterRestart
CHECK_DEADLOCK FALSE
