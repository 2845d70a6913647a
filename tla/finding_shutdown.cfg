SPECIFICATION FairSpec
CONSTANTS
    User = {u1, u2}
    Group = {}
    Conn = {c1}
    Partition = {p1}
    Roster <- MCRoster
    PartitionOf <- SamePartition
    ChannelSize = 1
    MaxMsg = 3
    MaxStarts = 1
    Kind = {"Text"}
    Env = {"gone", "quit"}
    NoUser = NoUser
    NoConn = NoConn
PROPERTY
    ShutdownCompletes
CHECK_DEADLOCK FALSE
