---------------------------- MODULE HubDelivery ----------------------------
(***************************************************************************)
(* ChatHub implements Delivery: the state of the hub as Delivery sees it.  *)
(***************************************************************************)
EXTENDS ChatHub

\* Neither a user nor a partition is seen any more: what waits in the topic.
Waiting == UNION {Range(log[p]) : p \in Partition}

\* A message is addressed once its receivers are known.
Phase ==
    IF hubPc \in {"store", "members"} THEN "taken"
    ELSE IF hubPc \in {"lock", "push", "send", "invalidate"} THEN "addressed"
    ELSE "idle"

\* The user whose client has been looked up is still to be sent to.
Left == todo \cup (IF hubPc = "send" THEN {owner[target]} ELSE {})

Stored == {m \in MsgId : row[m] # "none"}

\* The message writeLoop has in hand is the head of the queue until written.
Queue == [c \in Conn |->
            (IF writer[c] = "write" THEN <<held[c]>> ELSE <<>>) \o buf[c]]

Promise == INSTANCE Delivery WITH
    Screen <- Conn, waiting <- Waiting, phase <- Phase, current <- cur,
    left <- Left, stored <- Stored, queue <- Queue, shown <- written

\* Whatever the goroutines of client.go and server.go do, and over logins,
\* failures, shutdowns and restarts, messages are accepted, handled, queued,
\* shown or lost only as Delivery allows: never twice, never out of their
\* sender's order, never to someone else.
ImplementsDelivery == Promise!Spec

-----------------------------------------------------------------------------
(* What it rests on                                                        *)

\* A partition holds messages of its senders only, by order of acceptance.
TopicOrdered ==
    \A p \in Partition :
        /\ \A i, j \in DOMAIN log[p] : i < j => log[p][i] < log[p][j]
        /\ \A m \in Range(log[p]) : PartitionOf[accepted[m].from] = p

\* Between two messages the consumer of server.go has nothing in hand; whoever
\* it is sending to is online and no longer among those still to be sent to;
\* only a text or a file is sent to the members of a group.
HandEmptied ==
    /\ hubPc \in {"join", "select", "read", "stopped"} => cur = NoMsg
    /\ hubPc \notin {"lock", "push", "send"} => todo = {}
    /\ hubPc = "send" => IsLive(target) /\ owner[target] \notin todo
    /\ hubPc = "members" => accepted[cur].kind \in {"Text", "File"}
    /\ main = "exit" => hubPc = "stopped"

\* Nothing is queued for a connection that is not served yet.
NothingQueuedEarly ==
    \A c \in Conn :
        /\ reader[c] = "off" => writer[c] = "off"
        /\ ~IsLive(c) => buf[c] = <<>>

\* The order of the topic, and a consumer and connections without leftovers:
\* the part of the hub's invariant that makes its steps those of Delivery.
TidyInv == TopicOrdered /\ HandEmptied /\ NothingQueuedEarly

=============================================================================
