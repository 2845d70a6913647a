SPECIFICATION ConnectedSpec
CONSTANTS
    User = {u1, u2}
    Group = {}
    Conn = {c1, c2}
    Partition = {p1}
    Roster <- MCRoster
    PartitionOf <- SamePartition
    ChannelSize = 2
    MaxMsg = 2
    MaxStarts = 1
    Kind = {"Text"}
    Env = {"gone"}
    NoUser = NoUser
    NoConn = NoConn
PROPERTIES
    LoopsEnd
    ConsumerProgress
    BufferedIsWritten
    BacklogStored
CHECK_DEADLOCK FALSE
