SPECIFICATION Spec
CONSTANTS
    User = {u1, u2}
    Group = {}
    Conn = {c1, c2}
    Partition = {p1}
    Roster <- MCRoster
    PartitionOf <- SamePartition
    ChannelSize = 1
    MaxMsg = 1
    MaxStarts = 1
    Kind = {"File"}
    Env = {"gone"}
    NoUser = NoUser
    NoConn = NoConn
INVARIANT
    SenderOnline
CHECK_DEADLOCK FALSE
