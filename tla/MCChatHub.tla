----------------------------- MODULE MCChatHub -----------------------------
(***************************************************************************)
(* Instances of ChatHub for TLC.  Users, groups and connections are model  *)
(* values; every user is a member of every group.                          *)
(***************************************************************************)
EXTENDS HubDelivery, TLC

MCRoster == [g \in Group |-> User]

\* All keys hash to the same partition.
SamePartition == [u \in User |-> CHOOSE p \in Partition : TRUE]

\* Each user's messages are in a partition of their own.
OwnPartition ==
    CHOOSE f \in [User -> Partition] :
        \A u, v \in User : f[u] = f[v] => u = v

\* Connections are interchangeable: nothing chooses among them.  Users are too
\* when they share a partition.
ConnSymmetry == Permutations(Conn)
ConnUserSymmetry == Permutations(Conn) \cup Permutations(User)

\* With a partition each, users are interchangeable along with their partitions.
OwnPartitionSymmetry ==
    Permutations(Conn) \cup
    {f \in Permutations(User \cup Partition) :
        \A u \in User : f[u] \in User /\ f[OwnPartition[u]] = OwnPartition[f[u]]}

\* Both users have logged in and the consumer has joined: where Init leads by
\* Join, two Connect and two StartLoops.
ConnectedInit ==
    /\ owner = CHOOSE f \in [Conn -> User] : \A c, d \in Conn : f[c] = f[d] => c = d
    /\ outBefore = [c \in Conn |-> {}]
    /\ wire = [c \in Conn |-> "open"]
    /\ closeStep = [c \in Conn |-> "no"]
    /\ reader = [c \in Conn |-> "run"]
    /\ writer = [c \in Conn |-> "recv"]
    /\ buf = [c \in Conn |-> <<>>]
    /\ held = [c \in Conn |-> NoMsg]
    /\ written = [c \in Conn |-> <<>>]
    /\ logoutOf = [u \in User |-> NoConn]
    /\ registry = [u \in User |-> CHOOSE c \in Conn : owner[c] = u]
    /\ accepted = <<>>
    /\ log = EmptyTopic
    /\ hubPc = "read" /\ cur = NoMsg /\ todo = {} /\ target = NoConn
    /\ row = [m \in MsgId |-> "none"]
    /\ main = "serve" /\ cause = "none" /\ starts = 1

ConnectedSpec == ConnectedInit /\ [][Next]_vars /\ Fairness

=============================================================================
