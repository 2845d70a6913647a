SPECIFICATION Spec
CONSTANTS
    User = {u1, u2}
    Group = {g1}
    Conn = {c1, c2}
    Partition = {p1}
    Roster <- MCRoster
    PartitionOf <- SamePartition
    ChannelSize = 1
    MaxMsg = 1
    MaxStarts = 1
    Kind = {"File", "Call", "Signal"}
    Env = {"relogin", "gone", "logout", "quit", "db"}
    NoUser = NoUser
    NoConn = NoConn
SYMMETRY ConnUserSymmetry
INVARIANTS
    HubInv
    NoSendOnClosedChannel
    SentWasWritten
    FoundUnlessOlderCloses
CHECK_DEADLOCK FALSE
