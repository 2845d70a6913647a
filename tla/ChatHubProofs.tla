--------------------------- MODULE ChatHubProofs ---------------------------
(***************************************************************************)
(* Proofs about ChatHub, for any number of users, groups, connections and  *)
(* partitions, any capacity of SendBack, any bound on messages and starts, *)
(* and any choice of what the environment does.                            *)
(*                                                                         *)
(* HubInv is inductive.  NoSendOnClosedChannel needs TargetOpen (the       *)
(* client looked up stays open while the consumer holds the mutex), which  *)
(* needs RegistryOwned (a registered client has not left the registry      *)
(* yet), which needs LoopsOfLive (only an upgraded connection is closed).  *)
(***************************************************************************)
EXTENDS ChatHub, SequenceTheorems, TLAPS

\* The first state of the process satisfies the invariant.
LEMMA InitInv == Init => HubInv
  <1> USE HubAssumption
  <1> SUFFICES ASSUME Init PROVE HubInv
    OBVIOUS
  <1>1. TypeOK
    BY DEF Init, TypeOK, MsgId, NoMsg, EmptyTopic
  <1>2. RegistryOwned /\ TargetOpen /\ LoopsOfLive
    BY DEF Init, RegistryOwned, TargetOpen, LoopsOfLive, IsLive
  <1>3. InHandAccepted /\ MembersOfGroup
    BY DEF Init, InHandAccepted, MembersOfGroup, EmptyTopic
  <1>4. NoSendOnClosedChannel
    BY DEF Init, NoSendOnClosedChannel
  <1> QED
    BY <1>1, <1>2, <1>3, <1>4 DEF HubInv

\* The message the consumer works on is one Kafka accepted.
LEMMA CurrentMessage ==
    ASSUME TypeOK, InHandAccepted, hubPc \in {"store", "members", "push"}
    PROVE  accepted[cur] \in Message
  BY DEF TypeOK, InHandAccepted

\* What the consumer does after storing a Text or File message.
LEMMA GoToPushTyped ==
    ASSUME TypeOK, InHandAccepted, hubPc = "store", GoToPush(cur)
    PROVE  hubPc' \in {"members", "lock"} /\ todo' \subseteq User
  <1>1. accepted[cur].from \in User /\ accepted[cur].to \in User \cup Group
    BY CurrentMessage DEF Message
  <1>2. CASE ToGroup(cur)
    BY <1>2 DEF GoToPush, TypeOK
  <1>3. CASE ~ToGroup(cur)
    BY <1>1, <1>3 DEF GoToPush, ToGroup
  <1> QED
    BY <1>2, <1>3

\* Storing a message and marking it leave the status column in its domain.
LEMMA CreateTyped ==
    ASSUME TypeOK, NEW m, Create(m)
    PROVE  row' \in [MsgId -> {"none", "Unsent", "Sent"}]
  BY DEF TypeOK, Create

LEMMA MarkTyped ==
    ASSUME TypeOK, NEW c \in Conn, WriterMark(c)
    PROVE  row' \in [MsgId -> {"none", "Unsent", "Sent"}]
  <1>1. CASE row' = row
    BY <1>1 DEF TypeOK
  <1>2. CASE row' = [row EXCEPT ![held[c]] = IF @ = "none" THEN @ ELSE "Sent"]
    BY <1>2 DEF TypeOK
  <1> QED
    BY <1>1, <1>2 DEF WriterMark

\* A number put at the end of a sequence over 1..n keeps it one over 1..n.
LEMMA AppendBelow ==
    ASSUME NEW k \in Nat, NEW n \in Nat, n = k + 1, NEW s \in Seq(1..k)
    PROVE  s \in Seq(1..n) /\ Append(s, n) \in Seq(1..n)
  <1>1. s \in Seq(1..n)
    OBVIOUS
  <1> QED
    BY <1>1

\* Taking the head of a partition, or appending to one, leaves sequences of
\* accepted messages in the topic.
LEMMA AdvanceBelow ==
    ASSUME TypeOK, InHandAccepted, NEW p \in Partition, log[p] # <<>>, Advance(p)
    PROVE  /\ Head(log[p]) \in 1..Len(accepted)
           /\ \A q \in Partition : log'[q] \in Seq(1..Len(accepted))
  <1>1. log[p] \in Seq(1..Len(accepted))
    BY DEF InHandAccepted
  <1>2. /\ Head(log[p]) \in 1..Len(accepted)
        /\ Tail(log[p]) \in Seq(1..Len(accepted))
    BY <1>1, HeadTailProperties
  <1>3. \A q \in Partition : log'[q] = IF q = p THEN Tail(log[p]) ELSE log[q]
    BY DEF Advance, TypeOK
  <1> QED
    BY <1>2, <1>3 DEF InHandAccepted

LEMMA PublishBelow ==
    ASSUME TypeOK, InHandAccepted, NEW p \in Partition,
           log' = [log EXCEPT ![p] = Append(@, Len(accepted) + 1)]
    PROVE  \A q \in Partition : log'[q] \in Seq(1..(Len(accepted) + 1))
  <1>1. Len(accepted) \in Nat
    BY DEF TypeOK
  <1>2. \A q \in Partition :
          /\ log[q] \in Seq(1..(Len(accepted) + 1))
          /\ Append(log[q], Len(accepted) + 1) \in Seq(1..(Len(accepted) + 1))
    BY <1>1, AppendBelow DEF InHandAccepted
  <1>3. \A q \in Partition :
          log'[q] = IF q = p THEN Append(log[p], Len(accepted) + 1) ELSE log[q]
    BY DEF TypeOK
  <1> QED
    BY <1>2, <1>3

\* A message put into a channel with room keeps SendBack within its capacity.
LEMMA SendTyped ==
    ASSUME TypeOK, NEW c \in Conn, NEW m \in MsgId, HasRoom(c),
           buf' = [buf EXCEPT ![c] = Append(@, m)]
    PROVE  /\ buf' \in [Conn -> Seq(MsgId)]
           /\ \A d \in Conn : Len(buf'[d]) <= ChannelSize
  <1>1. /\ Append(buf[c], m) \in Seq(MsgId)
        /\ Len(Append(buf[c], m)) = Len(buf[c]) + 1
    BY DEF TypeOK
  <1>2. Len(Append(buf[c], m)) <= ChannelSize
    BY <1>1, HubAssumption DEF HasRoom, TypeOK
  <1>3. \A d \in Conn : buf'[d] = IF d = c THEN Append(buf[c], m) ELSE buf[d]
    BY DEF TypeOK
  <1>4. DOMAIN buf' = Conn /\ buf' = [d \in Conn |-> buf'[d]]
    BY DEF TypeOK
  <1> QED
    BY <1>1, <1>2, <1>3, <1>4 DEF TypeOK

\* When the process ends, for any reason but a send on a closed channel, its
\* goroutines go with it and the invariant holds of what is left.
LEMMA ExitInv ==
    ASSUME HubInv, ExitProcess, cause' \in {"none", "nilSender"}
    PROVE  HubInv'
  <1> USE HubAssumption DEF HubInv
  <1>1. TypeOK'
    <2>1. /\ wire' \in [Conn -> {"open", "gone"}]
          /\ closeStep' \in [Conn -> {"no", "remove", "conn", "chan", "done"}]
          /\ reader' \in [Conn -> {"off", "run", "close", "ended"}]
      BY DEF ExitProcess, Dead, TypeOK
    <2>2. /\ writer' \in [Conn -> {"off", "recv", "write", "mark", "close", "ended"}]
          /\ held' \in [Conn -> MsgId \cup {NoMsg}]
      BY DEF ExitProcess, Dead, TypeOK
    <2>3. buf' \in [Conn -> Seq(MsgId)] /\ \A c \in Conn : Len(buf'[c]) <= ChannelSize
      BY DEF ExitProcess, Dead, TypeOK
    <2> QED
      BY <2>1, <2>2, <2>3 DEF ExitProcess, TypeOK
  <1>2. RegistryOwned' /\ TargetOpen' /\ MembersOfGroup'
    BY DEF ExitProcess, RegistryOwned, TargetOpen, MembersOfGroup
  <1>3. LoopsOfLive'
    BY DEF ExitProcess, Dead, LoopsOfLive, IsLive
  <1>4. InHandAccepted'
    <2>1. \A c \in Conn : writer'[c] \in {"write", "mark"} => ~IsLive(c) /\ writer[c] = writer'[c]
      BY DEF ExitProcess, Dead
    <2>2. \A c \in Conn : writer'[c] \notin {"write", "mark"}
      BY <2>1 DEF LoopsOfLive
    <2> QED
      BY <2>2 DEF ExitProcess, InHandAccepted
  <1>5. NoSendOnClosedChannel'
    BY DEF NoSendOnClosedChannel
  <1> QED
    BY <1>1, <1>2, <1>3, <1>4, <1>5

\* The goroutines of a connection: start, closeOnce body, readLoop, writeLoop.
LEMMA ConnInv ==
    ASSUME HubInv, NEW c \in Conn, ConnStep(c)
    PROVE  HubInv'
  <1> USE HubAssumption DEF HubInv, TypeOK, RegistryOwned, TargetOpen, LoopsOfLive, InHandAccepted,
             MembersOfGroup, NoSendOnClosedChannel, IsLive, MsgId, NoMsg, Message,
             connVars, outVars, hubVars, procVars
  <1>1. CASE StartLoops(c)
    BY <1>1 DEF StartLoops
  <1>2. CASE CloseRemove(c)
    BY <1>2 DEF CloseRemove, RemoveClient, MutexFree
  <1>3. CASE CloseConn(c)
    BY <1>3 DEF CloseConn
  <1>4. CASE CloseChan(c)
    BY <1>4 DEF CloseChan
  <1>5. CASE ReaderError(c)
    BY <1>5 DEF ReaderError, EnterClose, Shut
  <1>6. CASE ReaderReturn(c)
    BY <1>6 DEF ReaderReturn, ChanClosed
  <1>7. CASE WriterTake(c)
    <2>1. Head(buf[c]) \in MsgId /\ Tail(buf[c]) \in Seq(MsgId)
      BY <1>7 DEF WriterTake
    <2>2. Len(Tail(buf[c])) <= ChannelSize
      BY <1>7 DEF WriterTake
    <2>3. TypeOK'
      BY <1>7, <2>1, <2>2 DEF WriterTake
    <2>4. InHandAccepted'
      BY <1>7, <2>1 DEF WriterTake
    <2>5. (RegistryOwned /\ TargetOpen /\ LoopsOfLive)'
      BY <1>7 DEF WriterTake
    <2> QED
      BY <1>7, <2>3, <2>4, <2>5 DEF WriterTake
  <1>8. CASE WriterSend(c)
    BY <1>8 DEF WriterSend, Shut
  <1>9. CASE WriterError(c)
    BY <1>9 DEF WriterError, EnterClose, Shut
  <1>10. CASE WriterMark(c)
    <2>1. row' \in [MsgId -> {"none", "Unsent", "Sent"}]
      BY <1>10, MarkTyped
    <2>2. TypeOK'
      BY <1>10, <2>1 DEF WriterMark
    <2>3. InHandAccepted'
      BY <1>10 DEF WriterMark
    <2> QED
      BY <1>10, <2>2, <2>3 DEF WriterMark
  <1>11. CASE WriterDrained(c)
    BY <1>11 DEF WriterDrained, ChanClosed
  <1>12. CASE WriterReturn(c)
    BY <1>12 DEF WriterReturn, ChanClosed
  <1> QED
    BY <1>1, <1>2, <1>3, <1>4, <1>5, <1>6, <1>7, <1>8, <1>9, <1>10, <1>11, <1>12 DEF ConnStep, Closer, ReadLoop, WriteLoop

\* The logout handler.
LEMMA LogoutInv ==
    ASSUME HubInv, NEW u \in User, LogoutStep(u)
    PROVE  HubInv'
  <1> USE HubAssumption DEF HubInv, TypeOK, RegistryOwned, TargetOpen, LoopsOfLive, InHandAccepted,
             MembersOfGroup, NoSendOnClosedChannel, IsLive, MsgId, NoMsg, Message,
             connVars, outVars, hubVars, procVars
  <1>1. CASE LogoutClose(u)
    BY <1>1 DEF LogoutClose, EnterClose
  <1>2. CASE LogoutReturn(u)
    BY <1>2 DEF LogoutReturn, ChanClosed
  <1> QED
    BY <1>1, <1>2 DEF LogoutStep

\* The consumer.
LEMMA ConsumerInv ==
    ASSUME HubInv, Consumer
    PROVE  HubInv'
  <1> USE HubAssumption DEF HubInv, TypeOK, RegistryOwned, TargetOpen, LoopsOfLive, InHandAccepted,
             MembersOfGroup, NoSendOnClosedChannel, IsLive, MsgId, NoMsg, Message,
             connVars, outVars, hubVars, procVars
  <1>1. CASE Join
    BY <1>1 DEF Join, EmptyTopic
  <1>2. CASE Select
    BY <1>2 DEF Select
  <1>3. ASSUME NEW p \in Partition, ReadMessage(p) PROVE HubInv'
    <2>1. log[p] # <<>> /\ Advance(p)
      BY <1>3 DEF ReadMessage
    <2>2. /\ Head(log[p]) \in 1..Len(accepted)
          /\ \A q \in Partition : log'[q] \in Seq(1..Len(accepted))
      BY <2>1, AdvanceBelow
    <2>3. Head(log[p]) \in MsgId /\ Tail(log[p]) \in Seq(MsgId)
      BY <1>3 DEF ReadMessage
    <2>4. TypeOK'
      BY <1>3, <2>3 DEF ReadMessage, Advance
    <2>5. InHandAccepted'
      <3>1. cur' \in 1..Len(accepted)
        BY <1>3, <2>2 DEF ReadMessage
      <3> QED
        BY <1>3, <2>2, <3>1 DEF ReadMessage
    <2>6. (RegistryOwned /\ TargetOpen /\ LoopsOfLive)'
      BY <1>3 DEF ReadMessage
    <2> QED
      BY <1>3, <2>4, <2>5, <2>6 DEF ReadMessage
  <1>4. CASE ReadCanceled
    BY <1>4 DEF ReadCanceled
  <1>5. CASE StoreText
    <2>1. accepted[cur] \in Message
      BY <1>5, CurrentMessage DEF StoreText
    <2>2. row' \in [MsgId -> {"none", "Unsent", "Sent"}]
      BY <1>5, CreateTyped DEF StoreText
    <2>3. hubPc' \in {"members", "lock"} /\ todo' \subseteq User
      BY <1>5, <2>1, GoToPushTyped DEF StoreText
    <2>4. TypeOK'
      BY <1>5, <2>2, <2>3 DEF StoreText
    <2>5. MembersOfGroup'
      BY <1>5 DEF StoreText, ToGroup, GoToPush
    <2>6. (RegistryOwned /\ TargetOpen /\ LoopsOfLive /\ InHandAccepted)'
      BY <1>5, <2>3 DEF StoreText
    <2> QED
      BY <1>5, <2>4, <2>5, <2>6 DEF StoreText
  <1>6. CASE StoreFile
    <2>1. accepted[cur] \in Message
      BY <1>6, CurrentMessage DEF StoreFile
    <2>2. row' \in [MsgId -> {"none", "Unsent", "Sent"}]
      BY <1>6, CreateTyped DEF StoreFile
    <2>3. hubPc' \in {"members", "lock"} /\ todo' \subseteq User
      BY <1>6, <2>1, GoToPushTyped DEF StoreFile
    <2>4. TypeOK'
      BY <1>6, <2>2, <2>3 DEF StoreFile
    <2>5. MembersOfGroup'
      BY <1>6 DEF StoreFile, ToGroup, GoToPush
    <2>6. (RegistryOwned /\ TargetOpen /\ LoopsOfLive /\ InHandAccepted)'
      BY <1>6, <2>3 DEF StoreFile
    <2> QED
      BY <1>6, <2>4, <2>5, <2>6 DEF StoreFile
  <1>7. CASE StoreAudioOrVideo
    <2>1. accepted[cur] \in Message
      BY <1>7, CurrentMessage DEF StoreAudioOrVideo
    <2>2. row' \in [MsgId -> {"none", "Unsent", "Sent"}]
      BY <1>7, CreateTyped DEF StoreAudioOrVideo
    <2>3. hubPc' \in {"select", "lock"} /\ todo' \subseteq User
      BY <1>7, <2>1 DEF StoreAudioOrVideo, ToGroup, CallTargets
    <2>4. TypeOK'
      BY <1>7, <2>2, <2>3 DEF StoreAudioOrVideo
    <2>5. MembersOfGroup'
      BY <1>7 DEF StoreAudioOrVideo, ToGroup, CallTargets
    <2>6. (RegistryOwned /\ TargetOpen /\ LoopsOfLive /\ InHandAccepted)'
      BY <1>7, <2>3 DEF StoreAudioOrVideo
    <2> QED
      BY <1>7, <2>4, <2>5, <2>6 DEF StoreAudioOrVideo
  <1>8. CASE ReadMembers
    BY <1>8 DEF ReadMembers
  <1>9. CASE Lock
    BY <1>9 DEF Lock
  <1>10. ASSUME NEW u \in User, SkipOffline(u) PROVE HubInv'
    BY <1>10 DEF SkipOffline, InTurn
  <1>11. ASSUME NEW u \in User, Lookup(u) PROVE HubInv'
    <2>1. CASE registry[u] = NoConn
      BY <1>11, <2>1, ExitInv DEF Lookup, Panic
    <2>2. CASE registry[u] # NoConn
      BY <1>11, <2>2 DEF Lookup, InTurn
    <2> QED
      BY <2>1, <2>2
  <1>12. CASE Send
    <2>1. target \in Conn /\ ~ChanClosed(target)
      BY <1>12 DEF Send, ChanClosed
    <2>2. cur \in MsgId /\ HasRoom(target)
      BY <1>12, <2>1 DEF Send
    <2>3. TypeOK'
      <3>1. /\ buf' \in [Conn -> Seq(MsgId)]
            /\ \A c \in Conn : Len(buf'[c]) <= ChannelSize
        BY <1>12, <2>1, <2>2, SendTyped DEF Send
      <3> QED
        BY <1>12, <2>1, <3>1 DEF Send
    <2>4. (RegistryOwned /\ TargetOpen /\ LoopsOfLive /\ InHandAccepted)'
      BY <1>12, <2>1 DEF Send
    <2> QED
      BY <1>12, <2>1, <2>3, <2>4 DEF Send
  <1>13. CASE Unlock
    BY <1>13 DEF Unlock, ToGroup
  <1>14. CASE Invalidate
    BY <1>14 DEF Invalidate
  <1> QED
    BY <1>1, <1>2, <1>3, <1>4, <1>5, <1>6, <1>7, <1>8, <1>9, <1>10, <1>11, <1>12, <1>13, <1>14 DEF Consumer

\* Clients, operator and failures.
LEMMA EnvironmentInv ==
    ASSUME HubInv, Environment
    PROVE  HubInv'
  <1> USE HubAssumption DEF HubInv, TypeOK, RegistryOwned, TargetOpen, LoopsOfLive, InHandAccepted,
             MembersOfGroup, NoSendOnClosedChannel, IsLive, MsgId, NoMsg, Message,
             connVars, outVars, hubVars, procVars
  <1>1. ASSUME NEW c \in Conn, NEW u \in User, Connect(c, u) PROVE HubInv'
    BY <1>1 DEF Connect, MutexFree
  <1>2. ASSUME NEW c \in Conn, NEW to \in User \cup Group, NEW kind \in Kind,
              Publish(c, to, kind)
       PROVE  HubInv'
    <2> DEFINE m == [from |-> owner[c], to |-> to, kind |-> kind]
               n == Len(accepted) + 1
    <2>1. m \in Message /\ n \in MsgId /\ PartitionOf[owner[c]] \in Partition
      BY <1>2 DEF Publish, Kinds
    <2>2. accepted' \in Seq(Message) /\ Len(accepted') = n
      BY <1>2, <2>1 DEF Publish
    <2>3. log' = [log EXCEPT ![PartitionOf[owner[c]]] = Append(@, n)]
      BY <1>2 DEF Publish, KeyPartition
    <2>4. log' \in [Partition -> Seq(MsgId)]
      BY <2>1, <2>3
    <2>5. \A p \in Partition : log'[p] \in Seq(1..n)
      BY <2>1, <2>3, PublishBelow
    <2>6. accepted'[cur] = accepted[cur] \/ cur \notin 1..Len(accepted)
      BY <1>2, <2>1 DEF Publish
    <2>7. TypeOK'
      <3>1. UNCHANGED <<connVars, outVars, buf, logoutOf, registry, hubVars, row, procVars>>
        BY <1>2 DEF Publish
      <3>2. accepted' \in Seq(Message) /\ Len(accepted') <= MaxMsg
        BY <1>2, <2>2 DEF Publish
      <3>3. outBefore' \in [Conn -> SUBSET Conn]
        BY <3>1
      <3>4. /\ owner' \in [Conn -> User \cup {NoUser}]
            /\ wire' \in [Conn -> {"open", "gone"}]
            /\ closeStep' \in [Conn -> {"no", "remove", "conn", "chan", "done"}]
            /\ reader' \in [Conn -> {"off", "run", "close", "ended"}]
            /\ writer' \in [Conn -> {"off", "recv", "write", "mark", "close", "ended"}]
            /\ buf' \in [Conn -> Seq(MsgId)] /\ \A d \in Conn : Len(buf'[d]) <= ChannelSize
            /\ held' \in [Conn -> MsgId \cup {NoMsg}] /\ written' \in [Conn -> Seq(MsgId)]
        BY <3>1
      <3>5. /\ logoutOf' \in [User -> Conn \cup {NoConn}]
            /\ registry' \in [User -> Conn \cup {NoConn}]
            /\ hubPc' = hubPc /\ cur' = cur /\ todo' = todo /\ target' = target
            /\ row' = row /\ main' = main /\ cause' = cause /\ starts' = starts
        BY <3>1
      <3> QED
        BY <2>4, <3>2, <3>3, <3>4, <3>5
    <2>8. InHandAccepted'
      BY <1>2, <2>2, <2>5 DEF Publish
    <2>9. (RegistryOwned /\ TargetOpen /\ LoopsOfLive /\ MembersOfGroup)'
      BY <1>2, <2>6 DEF Publish
    <2> QED
      BY <1>2, <2>7, <2>8, <2>9 DEF Publish
  <1>3. ASSUME NEW c \in Conn, PeerGone(c) PROVE HubInv'
    BY <1>3 DEF PeerGone
  <1>4. ASSUME NEW u \in User, LogoutGet(u) PROVE HubInv'
    <2>1. registry[u] \in Conn /\ IsLive(registry[u])
      BY <1>4 DEF LogoutGet
    <2>2. TypeOK'
      BY <1>4 DEF LogoutGet
    <2>3. LoopsOfLive'
      BY <1>4, <2>1 DEF LogoutGet
    <2> QED
      BY <1>4, <2>2, <2>3 DEF LogoutGet
  <1>5. CASE Quit
    BY <1>5 DEF Quit
  <1>6. CASE Kill
    BY <1>6, ExitInv DEF Kill
  <1>7. CASE Restart
    BY <1>7 DEF Restart, EmptyTopic
  <1> QED
    BY <1>1, <1>2, <1>3, <1>4, <1>5, <1>6, <1>7 DEF Environment

\* Shutdown in main.go.
LEMMA MainInv ==
    ASSUME HubInv, MainStep
    PROVE  HubInv'
  <1> USE HubAssumption DEF HubInv, TypeOK, RegistryOwned, TargetOpen, LoopsOfLive, InHandAccepted,
             MembersOfGroup, NoSendOnClosedChannel, IsLive, MsgId, NoMsg, Message,
             connVars, outVars, hubVars, procVars
  <1>1. CASE CloseKafka
    BY <1>1 DEF CloseKafka
  <1>2. CASE Exit
    BY <1>2, ExitInv DEF Exit
  <1> QED
    BY <1>1, <1>2 DEF MainStep

\* HubInv is inductive.
LEMMA StepInv == HubInv /\ [Next]_vars => HubInv'
  <1> SUFFICES ASSUME HubInv, [Next]_vars PROVE HubInv'
    OBVIOUS
  <1>1. CASE Next
    BY <1>1, ConnInv, LogoutInv, ConsumerInv, EnvironmentInv, MainInv DEF Next
  <1>2. CASE UNCHANGED vars
    BY <1>2 DEF vars, connVars, outVars, hubVars, procVars, HubInv, TypeOK,
                RegistryOwned, TargetOpen, LoopsOfLive, InHandAccepted,
                MembersOfGroup, NoSendOnClosedChannel, IsLive
  <1> QED
    BY <1>1, <1>2

\* In every reachable state of the hub the inductive invariant holds.
THEOREM Invariance == Spec => []HubInv
  BY InitInv, StepInv, PTL DEF Spec

\* Type correctness: the variables keep to their domains, so for instance no
\* SendBack ever holds more than CHANNEL_SIZE messages (client.go).
THEOREM TypeCorrect == Spec => []TypeOK
  <1>1. HubInv => TypeOK
    BY DEF HubInv
  <1> QED
    BY <1>1, Invariance, PTL

\* The consumer of server.go never sends on a closed SendBack, whatever logins,
\* logouts, failing loops and restarts do around it.
THEOREM ChannelSafety == Spec => []NoSendOnClosedChannel
  <1>1. HubInv => NoSendOnClosedChannel
    BY DEF HubInv
  <1> QED
    BY <1>1, Invariance, PTL

\* A connection never takes back what it wrote, and writing adds the message.
LEMMA WriteGrows ==
    ASSUME TypeOK, NEW c \in Conn, NEW m,
           written' = [written EXCEPT ![c] = Append(@, m)]
    PROVE  /\ m \in Range(written'[c])
           /\ \A d \in Conn : Range(written[d]) \subseteq Range(written'[d])
  <1> DEFINE s == written[c]
  <1>1. written'[c] = Append(s, m) /\ s \in Seq(MsgId)
    BY DEF TypeOK
  <1>2. \A d \in Conn : d # c => written'[d] = written[d]
    BY DEF TypeOK
  <1>3. Len(s) + 1 \in DOMAIN Append(s, m) /\ Append(s, m)[Len(s) + 1] = m
    BY <1>1
  <1>4. \A i \in DOMAIN s : i \in DOMAIN Append(s, m) /\ Append(s, m)[i] = s[i]
    BY <1>1
  <1>5. m \in Range(written'[c])
    BY <1>1, <1>3 DEF Range
  <1>6. Range(written[c]) \subseteq Range(written'[c])
    BY <1>1, <1>4 DEF Range
  <1> QED
    BY <1>2, <1>5, <1>6

\* A step that leaves the table and the wires alone, and in which no writeLoop
\* comes to its UPDATE, cannot make a row claim too much.
LEMMA SentStays ==
    ASSUME SentInv, UNCHANGED <<row, written>>,
           \A c \in Conn : writer'[c] = "mark" =>
               writer[c] = "mark" /\ held'[c] = held[c]
    PROVE  SentInv'
  BY DEF SentInv, SentWasWritten

\* The steps of writeLoop: the write comes before the mark.
LEMMA WriteLoopSent ==
    ASSUME HubInv, SentInv, NEW c \in Conn, WriteLoop(c)
    PROVE  SentInv'
  <1> USE DEF HubInv
  <1>1. CASE WriterSend(c)
    <2>1. /\ held[c] \in Range(written'[c])
          /\ \A d \in Conn : Range(written[d]) \subseteq Range(written'[d])
      BY <1>1, WriteGrows DEF WriterSend
    <2>2. row' = row /\ held' = held /\ \A d \in Conn : d # c => writer'[d] = writer[d]
      BY <1>1 DEF WriterSend, TypeOK
    <2> QED
      BY <2>1, <2>2 DEF SentInv, SentWasWritten
  <1>2. CASE WriterMark(c)
    <2>1. written' = written /\ held[c] \in Range(written[c])
      BY <1>2 DEF WriterMark, SentInv, outVars
    <2>2. \A m \in MsgId : row'[m] = "Sent" => row[m] = "Sent" \/ m = held[c]
      BY <1>2 DEF WriterMark, TypeOK
    <2>3. \A d \in Conn : writer'[d] = "mark" =>
            writer[d] = "mark" /\ held'[d] = held[d]
      BY <1>2 DEF WriterMark, TypeOK
    <2> QED
      BY <2>1, <2>2, <2>3 DEF SentInv, SentWasWritten
  <1>3. CASE WriterTake(c) \/ WriterError(c) \/ WriterDrained(c) \/ WriterReturn(c)
    <2>1. UNCHANGED <<row, written>>
      BY <1>3 DEF WriterTake, WriterError, WriterDrained, WriterReturn
    <2>2. \A d \in Conn : writer'[d] = "mark" =>
            writer[d] = "mark" /\ held'[d] = held[d]
      BY <1>3 DEF WriterTake, WriterError, WriterDrained, WriterReturn, TypeOK
    <2> QED
      BY <2>1, <2>2, SentStays
  <1> QED
    BY <1>1, <1>2, <1>3 DEF WriteLoop

\* A process that ends leaves the table and the wires as they are.
LEMMA ExitSent ==
    ASSUME HubInv, SentInv, ExitProcess
    PROVE  SentInv'
  <1>1. \A c \in Conn : writer'[c] \in {writer[c], "ended"}
    BY DEF ExitProcess, Dead
  <1>2. \A c \in Conn : writer'[c] = "mark" => writer[c] = "mark" /\ ~IsLive(c)
    BY DEF ExitProcess, Dead
  <1>3. \A c \in Conn : writer'[c] # "mark"
    BY <1>2 DEF HubInv, LoopsOfLive
  <1> QED
    BY <1>3, SentStays DEF ExitProcess

\* The consumer inserts rows as Unsent and otherwise leaves them alone.
LEMMA ConsumerSent ==
    ASSUME HubInv, SentInv, Consumer
    PROVE  SentInv'
  <1> USE DEF outVars
  <1>1. CASE StoreText \/ StoreFile \/ StoreAudioOrVideo
    <2>1. \A m \in MsgId : row'[m] = "Sent" => row[m] = "Sent"
      BY <1>1 DEF StoreText, StoreFile, StoreAudioOrVideo, Create, HubInv, TypeOK
    <2>2. UNCHANGED <<writer, held, written>>
      BY <1>1 DEF StoreText, StoreFile, StoreAudioOrVideo
    <2> QED
      BY <2>1, <2>2 DEF SentInv, SentWasWritten
  <1>2. CASE Join \/ Select \/ ReadCanceled \/ ReadMembers \/ Lock \/ Unlock \/ Invalidate
    <2>1. UNCHANGED <<row, writer, held, written>>
      BY <1>2 DEF Join, Select, ReadCanceled, ReadMembers, Lock, Unlock, Invalidate
    <2> QED
      BY <2>1, SentStays
  <1>3. ASSUME NEW p \in Partition, ReadMessage(p) PROVE SentInv'
    BY <1>3, SentStays DEF ReadMessage
  <1>4. ASSUME NEW u \in User, SkipOffline(u) PROVE SentInv'
    BY <1>4, SentStays DEF SkipOffline
  <1>5. ASSUME NEW u \in User, Lookup(u) PROVE SentInv'
    BY <1>5, SentStays, ExitSent DEF Lookup, Panic
  <1>6. CASE Send
    BY <1>6, SentStays, ExitSent DEF Send, Panic
  <1> QED
    BY <1>1, <1>2, <1>3, <1>4, <1>5, <1>6 DEF Consumer

\* Everything else leaves the rows and the wires alone.
LEMMA OtherSent ==
    ASSUME HubInv, SentInv,
           \/ Environment \/ MainStep
           \/ \E u \in User : LogoutStep(u)
           \/ \E c \in Conn : StartLoops(c) \/ Closer(c) \/ ReadLoop(c)
    PROVE  SentInv'
  <1> USE DEF outVars
  <1>1. CASE Kill \/ Exit
    BY <1>1, ExitSent DEF Kill, Exit
  <1>2. CASE Quit \/ Restart \/ CloseKafka
    BY <1>2, SentStays DEF Quit, Restart, CloseKafka
  <1>3. ASSUME NEW c \in Conn, NEW u \in User, Connect(c, u) PROVE SentInv'
    BY <1>3, SentStays DEF Connect
  <1>4. ASSUME NEW c \in Conn, NEW to \in User \cup Group, NEW kind \in Kind,
              Publish(c, to, kind)
       PROVE  SentInv'
    BY <1>4, SentStays DEF Publish
  <1>5. ASSUME NEW u \in User, LogoutGet(u) \/ LogoutStep(u) PROVE SentInv'
    BY <1>5, SentStays DEF LogoutGet, LogoutStep, LogoutClose, LogoutReturn
  <1>6. ASSUME NEW c \in Conn, PeerGone(c) \/ Closer(c) \/ ReadLoop(c) PROVE SentInv'
    BY <1>6, SentStays DEF PeerGone, Closer, CloseRemove, CloseConn, CloseChan,
                           ReadLoop, ReaderError, ReaderReturn
  <1>7. ASSUME NEW c \in Conn, StartLoops(c) PROVE SentInv'
    BY <1>7, SentStays DEF StartLoops, HubInv, TypeOK
  <1> QED
    BY <1>1, <1>2, <1>3, <1>4, <1>5, <1>6, <1>7 DEF Environment, MainStep

\* writeLoop of client.go marks a row only after the write of the message it has
\* in hand, and what is written stays so: SentWasWritten is inductive with it.
THEOREM SentInvariance == Spec => []SentInv
  <1>1. Init => SentInv
    BY DEF Init, SentInv, SentWasWritten
  <1>2. HubInv /\ SentInv /\ [Next]_vars => SentInv'
    <2> SUFFICES ASSUME HubInv, SentInv, [Next]_vars PROVE SentInv'
      OBVIOUS
    <2>1. CASE Next
      BY <2>1, WriteLoopSent, ConsumerSent, OtherSent DEF Next, ConnStep
    <2>2. CASE UNCHANGED vars
      BY <2>2, SentStays DEF vars, outVars
    <2> QED
      BY <2>1, <2>2
  <1> QED
    BY <1>1, <1>2, Invariance, PTL DEF Spec

\* A message row says Sent only if some connection wrote the message, whatever
\* fails: writes, database calls, peers, the process (client.go, writeLoop).
THEOREM SentSafety == Spec => []SentWasWritten
  <1>1. SentInv => SentWasWritten
    BY DEF SentInv
  <1> QED
    BY <1>1, SentInvariance, PTL

-----------------------------------------------------------------------------
(* Who can be found                                                        *)

\* FoundUnlessOlderCloses for every connection that is not being closed, served
\* or not: whatever empties an entry of the registry is a close of that user's.
FoundInv ==
    \A c \in Conn : IsLive(c) /\ closeStep[c] = "no" =>
        \/ registry[owner[c]] # NoConn
        \/ \E d \in Conn \ outBefore[c] : owner[d] = owner[c] /\ TakenOut(d)

\* A connection recorded as closed by the time of a login has been taken out of
\* the registry, so it is not the one whose close empties an entry later on.
BeforeInv == \A c \in Conn : \A d \in outBefore[c] : TakenOut(d)

\* What is being closed goes on being closed, and entries stay.
LEMMA FoundStays ==
    ASSUME FoundInv, BeforeInv, owner' = owner, registry' = registry, outBefore' = outBefore,
           \A c \in Conn :
               /\ closeStep'[c] = "no" => closeStep[c] = "no"
               /\ TakenOut(c) => closeStep'[c] \in {"conn", "chan", "done"},
           outBefore \in [Conn -> SUBSET Conn]
    PROVE  FoundInv' /\ BeforeInv'
  BY DEF FoundInv, BeforeInv, IsLive, TakenOut

\* The exit of the process closes every connection.
LEMMA ExitFound ==
    ASSUME BeforeInv, TypeOK, ExitProcess
    PROVE  FoundInv' /\ BeforeInv'
  <1>1. FoundInv'
    BY DEF ExitProcess, Dead, FoundInv, IsLive
  <1>2. BeforeInv'
    BY DEF ExitProcess, Dead, BeforeInv, IsLive, TakenOut, TypeOK
  <1> QED
    BY <1>1, <1>2

\* A login finds out which connections are closed already.
LEMMA ConnectFound ==
    ASSUME HubInv, FoundInv, BeforeInv, NEW c \in Conn, NEW u \in User, Connect(c, u)
    PROVE  FoundInv' /\ BeforeInv'
  <1> USE DEF HubInv, TypeOK
  <1>1. /\ owner' = [owner EXCEPT ![c] = u] /\ registry' = [registry EXCEPT ![u] = c]
        /\ outBefore' = [outBefore EXCEPT ![c] = {d \in Conn : TakenOut(d)}]
        /\ closeStep' = closeStep /\ owner[c] = NoUser /\ closeStep[c] = "no"
    BY DEF Connect, LoopsOfLive, IsLive
  <1>2. \A d \in Conn : IsLive(d)' => d = c \/ (IsLive(d) /\ owner'[d] = owner[d])
    BY <1>1 DEF IsLive
  <1>3. \A d \in Conn : TakenOut(d) => TakenOut(d)' /\ d # c /\ owner'[d] = owner[d]
    BY <1>1 DEF TakenOut
  <1>4. registry'[u] # NoConn /\ \A v \in User : registry[v] # NoConn => registry'[v] # NoConn
    BY <1>1, HubAssumption
  <1>5. ASSUME NEW d \in Conn, IsLive(d)', closeStep[d] = "no"
        PROVE  \/ registry'[owner'[d]] # NoConn
               \/ \E e \in Conn \ outBefore'[d] : owner'[e] = owner'[d] /\ TakenOut(e)'
    <2>1. CASE d = c
      BY <1>1, <1>4, <2>1
    <2>2. CASE d # c
      <3>1. IsLive(d) /\ owner'[d] = owner[d] /\ owner[d] \in User /\ outBefore'[d] = outBefore[d]
        BY <1>1, <1>2, <1>5, <2>2 DEF IsLive
      <3>2. \/ registry[owner[d]] # NoConn
            \/ \E e \in Conn \ outBefore[d] : owner[e] = owner[d] /\ TakenOut(e)
        BY <1>5, <3>1 DEF FoundInv
      <3> QED
        BY <1>3, <1>4, <3>1, <3>2
    <2> QED
      BY <2>1, <2>2
  <1>6. FoundInv'
    BY <1>1, <1>5 DEF FoundInv
  <1>7. BeforeInv'
    BY <1>1, <1>3 DEF BeforeInv
  <1> QED
    BY <1>6, <1>7

\* A close takes its user's entry out: for the user's other connections, of
\* which none registered after this one was taken out.
LEMMA RemoveFound ==
    ASSUME HubInv, FoundInv, BeforeInv, NEW c \in Conn, CloseRemove(c)
    PROVE  FoundInv' /\ BeforeInv'
  <1> USE DEF HubInv, TypeOK
  <1>1. /\ owner' = owner /\ registry' = [registry EXCEPT ![owner[c]] = NoConn]
        /\ outBefore' = outBefore
        /\ closeStep[c] = "remove" /\ closeStep' = [closeStep EXCEPT ![c] = "conn"]
    BY DEF CloseRemove, RemoveClient
  <1>2. \A d \in Conn : TakenOut(d) => TakenOut(d)'
    BY <1>1 DEF TakenOut
  <1>3. TakenOut(c)' /\ \A d \in Conn : c \notin outBefore[d]
    BY <1>1 DEF TakenOut, BeforeInv
  <1>4. ASSUME NEW d \in Conn, IsLive(d)', closeStep'[d] = "no"
        PROVE  \/ registry'[owner'[d]] # NoConn
               \/ \E e \in Conn \ outBefore'[d] : owner'[e] = owner'[d] /\ TakenOut(e)'
    <2>1. CASE owner[d] = owner[c]
      BY <1>1, <1>3, <2>1
    <2>2. CASE owner[d] # owner[c]
      <3>1. IsLive(d) /\ closeStep[d] = "no"
        BY <1>1, <1>4 DEF IsLive
      <3>2. \/ registry[owner[d]] # NoConn
            \/ \E e \in Conn \ outBefore[d] : owner[e] = owner[d] /\ TakenOut(e)
        BY <3>1 DEF FoundInv
      <3> QED
        BY <1>1, <1>2, <2>2, <3>1, <3>2 DEF IsLive
    <2> QED
      BY <2>1, <2>2
  <1> QED
    BY <1>1, <1>2, <1>4 DEF FoundInv, BeforeInv

\* Every other step leaves the entries and their record as they are, or is the
\* exit of the process.
LEMMA StepFound ==
    ASSUME HubInv, FoundInv, BeforeInv, [Next]_vars
    PROVE  FoundInv' /\ BeforeInv'
  <1> USE DEF HubInv, TypeOK, connVars, TakenOut
  <1>1. ASSUME NEW c \in Conn, NEW u \in User, Connect(c, u) PROVE FoundInv' /\ BeforeInv'
    BY <1>1, ConnectFound
  <1>2. ASSUME NEW c \in Conn, CloseRemove(c) PROVE FoundInv' /\ BeforeInv'
    BY <1>2, RemoveFound
  <1>3. ASSUME NEW c \in Conn,
              \/ CloseConn(c) \/ CloseChan(c) \/ ReadLoop(c) \/ WriteLoop(c)
              \/ StartLoops(c) \/ PeerGone(c)
        PROVE  FoundInv' /\ BeforeInv'
    BY <1>3, FoundStays
       DEF CloseConn, CloseChan, ReadLoop, ReaderError, ReaderReturn, WriteLoop,
           WriterTake, WriterSend, WriterError, WriterMark, WriterDrained,
           WriterReturn, StartLoops, PeerGone, EnterClose
  <1>4. ASSUME NEW u \in User, LogoutStep(u) \/ LogoutGet(u) PROVE FoundInv' /\ BeforeInv'
    BY <1>4, FoundStays
       DEF LogoutStep, LogoutClose, LogoutReturn, LogoutGet, EnterClose
  <1>5. CASE Kill \/ Exit \/ \E u \in User : Lookup(u) /\ registry[u] = NoConn
    BY <1>5, ExitFound DEF Kill, Exit, Lookup, Panic
  <1>6. CASE Send
    BY <1>6, ExitFound, FoundStays DEF Send, Panic
  <1>7. ASSUME NEW u \in User, SkipOffline(u) \/ (Lookup(u) /\ registry[u] # NoConn)
        PROVE  FoundInv' /\ BeforeInv'
    BY <1>7, FoundStays DEF SkipOffline, Lookup
  <1>8. CASE Join \/ Select \/ (\E p \in Partition : ReadMessage(p)) \/ ReadCanceled \/ Lock
                  \/ StoreText \/ StoreFile \/ StoreAudioOrVideo \/ ReadMembers
                  \/ Unlock \/ Invalidate \/ Quit \/ Restart \/ CloseKafka
    BY <1>8, FoundStays
       DEF Join, Select, ReadMessage, ReadCanceled, Lock, StoreText, StoreFile,
           StoreAudioOrVideo, ReadMembers, Unlock, Invalidate, Quit, Restart, CloseKafka
  <1>9. ASSUME NEW c \in Conn, NEW to \in User \cup Group, NEW kind \in Kind,
              Publish(c, to, kind)
        PROVE  FoundInv' /\ BeforeInv'
    BY <1>9, FoundStays DEF Publish
  <1>10. CASE UNCHANGED vars
    BY <1>10, FoundStays DEF vars
  <1> QED
    BY <1>1, <1>2, <1>3, <1>4, <1>5, <1>6, <1>7, <1>8, <1>9, <1>10
       DEF Next, Environment, ConnStep, Closer, Consumer, MainStep

\* A user who is online can be found, unless a close of another connection of
\* his went through RemoveClient after he had logged in (server.go deletes by
\* uuid): a connection closed in order before does nothing to the new one, nor
\* does any other order of logins, pushes, closes and exits.
THEOREM Found == Spec => []FoundUnlessOlderCloses
  <1>1. Init => FoundInv /\ BeforeInv
    BY DEF Init, FoundInv, BeforeInv, IsLive
  <1>2. HubInv /\ FoundInv => FoundUnlessOlderCloses
    <2>1. HubInv => \A c \in Conn : reader[c] = "run" => IsLive(c)
      BY DEF HubInv, LoopsOfLive
    <2> QED
      BY <2>1 DEF FoundInv, FoundUnlessOlderCloses
  <1> QED
    BY <1>1, <1>2, StepFound, Invariance, PTL DEF Spec

=============================================================================
