------------------------- MODULE HubDeliveryProofs -------------------------
(***************************************************************************)
(* ChatHub implements Delivery, for any users, groups, connections and     *)
(* partitions, any capacity and bounds, and any environment.               *)
(*                                                                         *)
(* Each step of ChatHub is a step of Delivery or a stutter in every state  *)
(* that satisfies HubInv and TidyInv.  TidyInv is where the design of the  *)
(* topic enters: a partition holds whole senders, by order of acceptance,  *)
(* so its head is the oldest message of its sender.                        *)
(***************************************************************************)
EXTENDS HubDelivery, ChatHubProofs

-----------------------------------------------------------------------------
(* TidyInv is inductive                                                    *)

\* Steps of the goroutines of a connection leave topic and consumer alone.
LEMMA TidyStays ==
    ASSUME TidyInv, UNCHANGED <<accepted, log, hubVars, main, owner>>,
           \A c \in Conn :
               /\ reader'[c] = "off" => reader[c] = "off" /\ writer'[c] = writer[c]
               /\ ~IsLive(c) => buf'[c] = buf[c]
    PROVE  TidyInv'
  BY DEF TidyInv, TopicOrdered, HandEmptied, NothingQueuedEarly, IsLive, hubVars

LEMMA ConnTidy ==
    ASSUME HubInv, TidyInv, NEW c \in Conn, ConnStep(c)
    PROVE  TidyInv'
  <1> USE DEF HubInv, TypeOK, connVars, outVars, procVars
  <1>1. CASE StartLoops(c)
    BY <1>1, TidyStays DEF StartLoops
  <1>2. CASE Closer(c) \/ ReaderError(c) \/ ReaderReturn(c)
    BY <1>2, TidyStays DEF Closer, CloseRemove, CloseConn, CloseChan,
                           ReaderError, ReaderReturn, Shut
  <1>3. CASE WriterTake(c) \/ WriterSend(c) \/ WriterError(c)
    BY <1>3, TidyStays DEF WriterTake, WriterSend, WriterError, LoopsOfLive,
                           TidyInv, NothingQueuedEarly
  <1>4. CASE WriterMark(c) \/ WriterDrained(c) \/ WriterReturn(c)
    BY <1>4, TidyStays DEF WriterMark, WriterDrained, WriterReturn,
                           TidyInv, NothingQueuedEarly
  <1> QED
    BY <1>1, <1>2, <1>3, <1>4 DEF ConnStep, ReadLoop, WriteLoop

\* The end of the process leaves no consumer and nothing queued.
LEMMA ExitTidy ==
    ASSUME HubInv, TidyInv, ExitProcess
    PROVE  TidyInv'
  <1>1. TopicOrdered'
    BY DEF ExitProcess, TidyInv, TopicOrdered
  <1>2. HandEmptied'
    BY DEF ExitProcess, HandEmptied
  <1>3. NothingQueuedEarly'
    BY DEF ExitProcess, Dead, TidyInv, NothingQueuedEarly, IsLive
  <1> QED
    BY <1>1, <1>2, <1>3 DEF TidyInv

\* Without a step of the topic, the consumer alone matters.
LEMMA HubTidy ==
    ASSUME TidyInv, UNCHANGED <<accepted, log, owner, reader, writer, buf>>, HandEmptied'
    PROVE  TidyInv'
  BY DEF TidyInv, TopicOrdered, NothingQueuedEarly, IsLive

\* Taking the head of a partition, or emptying the topic, keeps the order.
LEMMA TailOrdered ==
    ASSUME TypeOK, TopicOrdered, NEW p \in Partition, log[p] # <<>>, Advance(p),
           UNCHANGED accepted
    PROVE  TopicOrdered'
  <1> DEFINE s == log[p] t == Tail(s)
  <1>1. /\ DOMAIN s = 1..Len(s) /\ DOMAIN t = 1..(Len(s) - 1) /\ Len(s) \in Nat
        /\ \A i \in DOMAIN t : i + 1 \in DOMAIN s /\ t[i] = s[i + 1] /\ i \in Nat
    BY DEF TypeOK
  <1>2. log'[p] = t /\ \A q \in Partition \ {p} : log'[q] = log[q]
    BY DEF Advance, TypeOK
  <1> HIDE DEF t
  <1>3. \A i, j \in DOMAIN t : i < j => t[i] < t[j]
    BY <1>1 DEF TopicOrdered
  <1>4. Range(t) \subseteq Range(s)
    BY <1>1 DEF Range
  <1> QED
    BY <1>2, <1>3, <1>4 DEF TopicOrdered

LEMMA EmptyOrdered == log' = EmptyTopic => TopicOrdered'
  <1>1. DOMAIN <<>> = {} /\ Range(<<>>) = {}
    BY DEF Range
  <1> QED
    BY <1>1 DEF EmptyTopic, TopicOrdered

\* A new message is numbered after all others and goes to its sender's partition.
LEMMA PublishOrdered ==
    ASSUME HubInv, TopicOrdered, NEW msg \in Message, NEW n \in Nat,
           n = Len(accepted) + 1, accepted' = Append(accepted, msg),
           log' = [log EXCEPT ![PartitionOf[msg.from]] = Append(@, n)]
    PROVE  TopicOrdered'
  <1> USE DEF HubInv
  <1> DEFINE p == PartitionOf[msg.from]
             s == log[p]
             t == Append(s, n)
  <1>1. msg.from \in User /\ p \in Partition
    BY HubAssumption DEF Message
  <1>2. \A q \in Partition : log[q] \in Seq(1..Len(accepted)) /\ Range(log[q]) \subseteq 1..Len(accepted)
    BY DEF InHandAccepted, Range
  <1>3. /\ \A m \in 1..Len(accepted) : accepted'[m] = accepted[m] /\ m < n
        /\ accepted'[n] = msg
    BY DEF TypeOK
  <1>4. log'[p] = t /\ \A q \in Partition \ {p} : log'[q] = log[q]
    BY <1>1 DEF TypeOK
  <1>5. /\ DOMAIN t = DOMAIN s \cup {Len(s) + 1} /\ t[Len(s) + 1] = n
        /\ \A i \in DOMAIN s : t[i] = s[i] /\ s[i] \in 1..Len(accepted) /\ i \in Nat /\ i <= Len(s)
        /\ Len(s) \in Nat
    <2>1. s \in Seq(1..Len(accepted))
      BY <1>1, <1>2
    <2> HIDE DEF s
    <2> QED
      BY <2>1
  <1> HIDE DEF t, p
  <1>6. \A i, j \in DOMAIN t : i < j => t[i] < t[j]
    BY <1>1, <1>3, <1>5 DEF TopicOrdered
  <1>7. Range(t) = Range(s) \cup {n}
    BY <1>5 DEF Range
  <1>8. \A m \in Range(t) : PartitionOf[accepted'[m].from] = p
    BY <1>1, <1>2, <1>3, <1>7 DEF TopicOrdered, p
  <1>9. \A q \in Partition \ {p} : \A m \in Range(log[q]) : PartitionOf[accepted'[m].from] = q
    BY <1>2, <1>3 DEF TopicOrdered
  <1>10. \A q \in Partition \ {p} : \A i, j \in DOMAIN log[q] : i < j => log[q][i] < log[q][j]
    BY DEF TopicOrdered
  <1> HIDE DEF s
  <1>11. ASSUME NEW q \in Partition
         PROVE  /\ \A i, j \in DOMAIN log'[q] : i < j => log'[q][i] < log'[q][j]
                /\ \A m \in Range(log'[q]) : PartitionOf[accepted'[m].from] = q
    <2>1. CASE q = p
      BY <1>4, <1>6, <1>8, <2>1
    <2>2. CASE q # p
      BY <1>4, <1>9, <1>10, <2>2
    <2> QED
      BY <2>1, <2>2
  <1> QED
    BY <1>11 DEF TopicOrdered

LEMMA ConsumerTidy ==
    ASSUME HubInv, TidyInv, Consumer
    PROVE  TidyInv'
  <1> USE DEF HubInv, connVars, outVars, procVars, NoMsg
  <1>1. CASE Join
    <2>1. NothingQueuedEarly' /\ HandEmptied'
      BY <1>1 DEF Join, TidyInv, HandEmptied, NothingQueuedEarly, IsLive
    <2> QED
      BY <1>1, <2>1, EmptyOrdered DEF Join, TidyInv
  <1>2. CASE Select \/ ReadCanceled \/ Lock \/ Unlock \/ Invalidate
    <2>1. HandEmptied'
      BY <1>2 DEF Select, ReadCanceled, Lock, Unlock, Invalidate, TidyInv, HandEmptied
    <2> QED
      BY <1>2, <2>1, HubTidy DEF Select, ReadCanceled, Lock, Unlock, Invalidate
  <1>3. ASSUME NEW p \in Partition, ReadMessage(p) PROVE TidyInv'
    <2>1. NothingQueuedEarly' /\ HandEmptied'
      BY <1>3 DEF ReadMessage, TidyInv, HandEmptied, NothingQueuedEarly, IsLive
    <2> QED
      BY <1>3, <2>1, TailOrdered DEF ReadMessage, TidyInv
  <1>4. CASE StoreText \/ StoreFile \/ StoreAudioOrVideo
    <2>1. HandEmptied'
      BY <1>4 DEF StoreText, StoreFile, StoreAudioOrVideo, GoToPush, TidyInv, HandEmptied
    <2> QED
      BY <1>4, <2>1, HubTidy DEF StoreText, StoreFile, StoreAudioOrVideo
  <1>5. CASE ReadMembers
    BY <1>5, HubTidy DEF ReadMembers, TidyInv, HandEmptied
  <1>6. ASSUME NEW u \in User, SkipOffline(u) PROVE TidyInv'
    BY <1>6, HubTidy DEF SkipOffline, TidyInv, HandEmptied
  <1>7. ASSUME NEW u \in User, Lookup(u) PROVE TidyInv'
    <2>1. CASE registry[u] = NoConn
      BY <1>7, <2>1, ExitTidy DEF Lookup, Panic
    <2>2. CASE registry[u] # NoConn
      <3>1. owner[registry[u]] = u /\ u # NoUser
        BY <2>2, HubAssumption DEF RegistryOwned
      <3>2. HandEmptied'
        BY <1>7, <2>2, <3>1 DEF Lookup, TidyInv, HandEmptied, IsLive
      <3> QED
        BY <1>7, <2>2, <3>2, HubTidy DEF Lookup
    <2> QED
      BY <2>1, <2>2
  <1>8. CASE Send
    <2>1. CASE ChanClosed(target)
      BY <1>8, <2>1, ExitTidy DEF Send, Panic
    <2>2. CASE ~ChanClosed(target)
      <3>1. IsLive(target)
        BY <1>8 DEF Send, TidyInv, HandEmptied
      <3>2. NothingQueuedEarly'
        BY <1>8, <2>2, <3>1 DEF Send, TidyInv, NothingQueuedEarly, IsLive, TypeOK
      <3>3. TopicOrdered' /\ HandEmptied'
        BY <1>8, <2>2 DEF Send, TidyInv, TopicOrdered, HandEmptied
      <3> QED
        BY <3>2, <3>3 DEF TidyInv
    <2> QED
      BY <2>1, <2>2
  <1> QED
    BY <1>1, <1>2, <1>3, <1>4, <1>5, <1>6, <1>7, <1>8 DEF Consumer

LEMMA EnvironmentTidy ==
    ASSUME HubInv, TidyInv, Environment
    PROVE  TidyInv'
  <1> USE DEF HubInv, connVars, outVars, procVars
  <1>1. ASSUME NEW c \in Conn, NEW u \in User, Connect(c, u) PROVE TidyInv'
    <2>1. owner' = [owner EXCEPT ![c] = u] /\ hubPc # "send"
      BY <1>1 DEF Connect, MutexFree
    <2>2. TopicOrdered' /\ HandEmptied'
      BY <1>1, <2>1 DEF Connect, TidyInv, TopicOrdered, HandEmptied, hubVars
    <2>3. NothingQueuedEarly'
      BY <1>1, <2>1, HubAssumption DEF Connect, TidyInv, NothingQueuedEarly, IsLive, TypeOK
    <2> QED
      BY <2>2, <2>3 DEF TidyInv
  <1>2. ASSUME NEW c \in Conn, NEW to \in User \cup Group, NEW kind \in Kind,
              Publish(c, to, kind)
       PROVE  TidyInv'
    <2> DEFINE msg == [from |-> owner[c], to |-> to, kind |-> kind]
    <2>1. msg \in Message /\ Len(accepted) + 1 \in Nat
      BY <1>2, HubAssumption DEF Publish, LoopsOfLive, IsLive, TypeOK, Message, Kinds
    <2>2. TopicOrdered'
      BY <1>2, <2>1, PublishOrdered DEF Publish, KeyPartition, TidyInv
    <2>3. cur \in 1..Len(accepted) => accepted'[cur] = accepted[cur]
      BY <1>2, <2>1 DEF Publish, TypeOK
    <2>4. HandEmptied'
      BY <1>2, <2>3 DEF Publish, TidyInv, HandEmptied, InHandAccepted, hubVars, IsLive
    <2>5. NothingQueuedEarly'
      BY <1>2 DEF Publish, TidyInv, NothingQueuedEarly, IsLive
    <2> QED
      BY <2>2, <2>4, <2>5 DEF TidyInv
  <1>3. ASSUME NEW c \in Conn, PeerGone(c) PROVE TidyInv'
    BY <1>3, TidyStays DEF PeerGone
  <1>4. ASSUME NEW u \in User, LogoutGet(u) PROVE TidyInv'
    BY <1>4, TidyStays DEF LogoutGet
  <1>5. CASE Quit
    BY <1>5, HubTidy DEF Quit, TidyInv, HandEmptied, hubVars, IsLive
  <1>6. CASE Kill
    BY <1>6, ExitTidy DEF Kill
  <1>7. CASE Restart
    <2>1. NothingQueuedEarly' /\ HandEmptied'
      BY <1>7 DEF Restart, TidyInv, HandEmptied, NothingQueuedEarly, IsLive
    <2> QED
      BY <1>7, <2>1, EmptyOrdered DEF Restart, TidyInv
  <1> QED
    BY <1>1, <1>2, <1>3, <1>4, <1>5, <1>6, <1>7 DEF Environment

LEMMA OtherTidy ==
    ASSUME HubInv, TidyInv, MainStep \/ \E u \in User : LogoutStep(u)
    PROVE  TidyInv'
  <1> USE DEF connVars, outVars, procVars
  <1>1. CASE CloseKafka
    BY <1>1, HubTidy DEF CloseKafka, TidyInv, HandEmptied, hubVars, IsLive
  <1>2. CASE Exit
    BY <1>2, ExitTidy DEF Exit
  <1>3. ASSUME NEW u \in User, LogoutStep(u) PROVE TidyInv'
    BY <1>3, TidyStays DEF LogoutStep, LogoutClose, LogoutReturn
  <1> QED
    BY <1>1, <1>2, <1>3 DEF MainStep

LEMMA InitTidy == Init => TidyInv
  <1>1. DOMAIN <<>> = {} /\ Range(<<>>) = {}
    BY DEF Range
  <1> QED
    BY <1>1 DEF Init, EmptyTopic, TidyInv, TopicOrdered, HandEmptied, NothingQueuedEarly

LEMMA StepTidy == HubInv /\ TidyInv /\ [Next]_vars => TidyInv'
  <1> SUFFICES ASSUME HubInv, TidyInv, [Next]_vars PROVE TidyInv'
    OBVIOUS
  <1>1. CASE Next
    BY <1>1, ConnTidy, ConsumerTidy, EnvironmentTidy, OtherTidy DEF Next
  <1>2. CASE UNCHANGED vars
    BY <1>2, TidyStays DEF vars, connVars, outVars, procVars, hubVars
  <1> QED
    BY <1>1, <1>2

\* The topic holds each sender's messages in one partition by order of
\* acceptance, and nothing is left in the hands of the consumer (server.go) or
\* in a SendBack nobody serves, over closes, exits and restarts.
THEOREM Tidiness == Spec => []TidyInv
  BY InitTidy, StepTidy, Invariance, PTL DEF Spec

-----------------------------------------------------------------------------
(* Every step is one of Delivery or a stutter                              *)

\* Which part of the state of the hub each part of Delivery's is made of.
LEMMA SameTopic == UNCHANGED log => UNCHANGED Waiting
  BY DEF Waiting

LEMMA SameRows == UNCHANGED row => UNCHANGED Stored
  BY DEF Stored

LEMMA SameHand == UNCHANGED <<hubVars, owner>> => UNCHANGED <<Phase, cur, Left>>
  BY DEF Phase, Left, hubVars

LEMMA SameQueue == UNCHANGED <<outVars, buf>> => UNCHANGED <<Queue, written>>
  BY DEF Queue, outVars

\* The state of Delivery without the message being handled, and without the
\* queues and the wires.
LEMMA HandOnly ==
    UNCHANGED <<accepted, log, row, owner, outVars, buf>> =>
        UNCHANGED <<accepted, Waiting, Stored, owner, Queue, written>>
  BY SameTopic, SameRows, SameQueue

LEMMA ScreensOnly ==
    UNCHANGED <<accepted, log, row, owner, hubVars>> =>
        UNCHANGED <<accepted, Waiting, Phase, cur, Left, Stored, owner>>
  BY SameTopic, SameRows, SameHand

LEMMA Stutter ==
    UNCHANGED <<accepted, Waiting, Phase, cur, Left, Stored, owner, Queue, written>>
        => UNCHANGED Promise!vars
  BY DEF Promise!vars

Queued == \A c \in Conn : Queue[c] \in Seq(MsgId)

LEMMA QueueTyped == ASSUME HubInv PROVE Queued
  BY DEF HubInv, TypeOK, InHandAccepted, Queue, Queued

\* writeLoop: taking a message from SendBack is invisible, writing it shows it,
\* failing to write it loses it.
LEMMA ConnImplements ==
    ASSUME HubInv, NothingQueuedEarly, NEW c \in Conn, ConnStep(c)
    PROVE  [Promise!Next]_(Promise!vars)
  <1> USE DEF HubInv, TypeOK, connVars, procVars
  <1>1. CASE StartLoops(c)
    <2>1. Queue' = Queue
      BY <1>1 DEF StartLoops, Queue, NothingQueuedEarly
    <2> QED
      BY <1>1, <2>1, ScreensOnly, Stutter DEF StartLoops
  <1>2. CASE Closer(c) \/ ReadLoop(c)
    BY <1>2, ScreensOnly, SameQueue, Stutter
       DEF Closer, CloseRemove, CloseConn, CloseChan, ReadLoop, ReaderError, ReaderReturn
  <1>3. CASE WriterTake(c)
    <2>1. Queue'[c] = Queue[c]
      BY <1>3 DEF WriterTake, Queue, outVars
    <2>2. Queue' = Queue
      BY <1>3, <2>1 DEF WriterTake, Queue, outVars
    <2> QED
      BY <1>3, <2>2, ScreensOnly, Stutter DEF WriterTake
  <1>4. CASE WriterSend(c)
    <2>1. held[c] \in MsgId /\ buf[c] \in Seq(MsgId)
      BY <1>4 DEF WriterSend, InHandAccepted
    <2>2. Queue[c] = <<held[c]>> \o buf[c] /\ Queue'[c] = <<>> \o buf[c]
      BY <1>4 DEF WriterSend, Queue
    <2>3. Queue[c] # <<>> /\ Head(Queue[c]) = held[c] /\ Tail(Queue[c]) = Queue'[c]
      BY <2>1, <2>2
    <2>4. Queue' = [Queue EXCEPT ![c] = Tail(@)]
      BY <1>4, <2>3 DEF WriterSend, Queue
    <2>5. Promise!Show(c)
      BY <1>4, <2>3, <2>4, ScreensOnly DEF WriterSend, Promise!Show, Promise!handling
    <2> QED
      BY <2>5 DEF Promise!Next
  <1>5. CASE WriterError(c)
    <2>1. held[c] \in MsgId /\ buf[c] \in Seq(MsgId)
      BY <1>5 DEF WriterError, InHandAccepted
    <2>2. Queue[c] = <<held[c]>> \o buf[c] /\ Queue'[c] = <<>> \o buf[c]
      BY <1>5 DEF WriterError, Queue
    <2>3. Queue[c] # <<>> /\ Tail(Queue[c]) = Queue'[c]
      BY <2>1, <2>2
    <2>4. Queue' = [Queue EXCEPT ![c] = Tail(@)]
      BY <1>5, <2>3 DEF WriterError, Queue
    <2>5. Promise!Lose(c)
      BY <1>5, <2>3, <2>4, ScreensOnly DEF WriterError, Promise!Lose, Promise!handling
    <2> QED
      BY <2>5 DEF Promise!Next
  <1>6. CASE WriterMark(c)
    <2>1. Stored' = Stored
      BY <1>6 DEF WriterMark, Stored
    <2>2. Queue' = Queue
      BY <1>6 DEF WriterMark, Queue
    <2> QED
      BY <1>6, <2>1, <2>2, SameTopic, SameHand, Stutter DEF WriterMark
  <1>7. CASE WriterDrained(c) \/ WriterReturn(c)
    <2>1. Queue' = Queue
      BY <1>7 DEF WriterDrained, WriterReturn, Queue
    <2> QED
      BY <1>7, <2>1, ScreensOnly, Stutter DEF WriterDrained, WriterReturn
  <1> QED
    BY <1>1, <1>2, <1>3, <1>4, <1>5, <1>6, <1>7 DEF ConnStep, WriteLoop

\* The end of the process, for whatever reason, is a Stop.
LEMMA ExitImplements ==
    ASSUME HubInv, NothingQueuedEarly, ExitProcess
    PROVE  [Promise!Next]_(Promise!vars)
  <1>1. \A c \in Conn : writer'[c] # "write" /\ buf'[c] = <<>>
    BY DEF ExitProcess, Dead, NothingQueuedEarly, HubInv, LoopsOfLive
  <1>2. Queue' = [c \in Conn |-> <<>>]
    BY <1>1 DEF Queue
  <1>3. Phase' = "idle" /\ Left' = {}
    BY DEF ExitProcess, Phase, Left
  <1>4. Promise!Stop
    BY <1>2, <1>3, SameTopic, SameRows DEF ExitProcess, Promise!Stop, NoMsg
  <1> QED
    BY <1>4 DEF Promise!Next

\* The head of an ascending sequence is the least of its elements.
LEMMA HeadLeast ==
    ASSUME NEW s \in Seq(Nat), s # <<>>, \A i, j \in DOMAIN s : i < j => s[i] < s[j]
    PROVE  /\ Head(s) \in Nat /\ Range(s) = {Head(s)} \cup Range(Tail(s))
           /\ \A k \in Range(Tail(s)) : Head(s) < k
  <1> DEFINE t == Tail(s) m == Head(s)
  <1>1. /\ DOMAIN s = 1..Len(s) /\ DOMAIN t = 1..(Len(s) - 1) /\ Len(s) \in Nat \ {0}
        /\ \A i \in DOMAIN t : t[i] = s[i + 1]
        /\ m = s[1] /\ m \in Nat
    OBVIOUS
  <1> HIDE DEF t, m
  <1>2. /\ 1 \in DOMAIN s
        /\ \A i \in DOMAIN t : i + 1 \in DOMAIN s /\ 1 < i + 1
        /\ \A i \in DOMAIN s : i = 1 \/ (i - 1 \in DOMAIN t /\ i = (i - 1) + 1)
    BY <1>1
  <1>3. \A i \in DOMAIN s : s[i] = m \/ s[i] \in Range(t)
    <2> SUFFICES ASSUME NEW i \in DOMAIN s, i # 1 PROVE s[i] \in Range(t)
      BY <1>1
    <2>1. i - 1 \in DOMAIN t /\ s[i] = t[i - 1]
      BY <1>1, <1>2
    <2> QED
      BY <2>1 DEF Range
  <1>4. \A k \in Range(t) : k \in Range(s) /\ m < k
    <2> SUFFICES ASSUME NEW i \in DOMAIN t PROVE t[i] \in Range(s) /\ m < t[i]
      BY DEF Range
    <2>1. i + 1 \in DOMAIN s /\ t[i] = s[i + 1] /\ s[1] < s[i + 1]
      BY <1>1, <1>2
    <2> QED
      BY <1>1, <2>1 DEF Range
  <1>5. m \in Range(s)
    BY <1>1, <1>2 DEF Range
  <1>6. Range(s) = {m} \cup Range(t)
    BY <1>3, <1>4, <1>5 DEF Range
  <1> QED
    BY <1>1, <1>4, <1>6 DEF t, m

\* ReadMessage: the head of a partition is the oldest message of its sender.
LEMMA ReadImplements ==
    ASSUME HubInv, TidyInv, NEW p \in Partition, ReadMessage(p)
    PROVE  Promise!Take(cur')
  <1> USE DEF HubInv, TypeOK, TidyInv
  <1> DEFINE s == log[p] t == Tail(s) m == Head(s)
  <1>1. s \in Seq(Nat) /\ s # <<>>
    <2>1. s \in Seq(MsgId) /\ s # <<>>
      BY DEF ReadMessage
    <2> HIDE DEF s
    <2> QED
      BY <2>1, HubAssumption DEF MsgId
  <1>2. log'[p] = t /\ \A q \in Partition \ {p} : log'[q] = log[q]
    BY DEF ReadMessage, Advance
  <1>3. cur' = m /\ hubPc = "read" /\ hubPc' = "store"
    BY DEF ReadMessage
  <1>4. /\ \A i, j \in DOMAIN s : i < j => s[i] < s[j]
        /\ \A k \in Range(s) : PartitionOf[accepted[k].from] = p
        /\ \A q \in Partition : \A k \in Range(log[q]) : PartitionOf[accepted[k].from] = q
    BY DEF TopicOrdered
  <1> HIDE DEF s
  <1>5. /\ m \in Nat /\ m \in Range(s) /\ Range(s) = {m} \cup Range(t)
        /\ \A k \in Range(t) : m < k
    BY <1>1, <1>4, HeadLeast
  <1> HIDE DEF t, m
  <1>6. m \notin Range(t)
    BY <1>5
  <1>7. \A q \in Partition : m \in Range(log[q]) => q = p
    BY <1>4, <1>5
  <1>8. Waiting' = Waiting \ {m}
    <2>1. ASSUME NEW x \in Waiting' PROVE x \in Waiting \ {m}
      <3>1. PICK q \in Partition : x \in Range(log'[q])
        BY <2>1 DEF Waiting
      <3>2. CASE q = p
        BY <1>2, <1>5, <1>6, <3>1, <3>2 DEF Waiting, s
      <3>3. CASE q # p
        BY <1>2, <1>7, <3>1, <3>3 DEF Waiting
      <3> QED
        BY <3>2, <3>3
    <2>2. ASSUME NEW x \in Waiting \ {m} PROVE x \in Waiting'
      <3>1. PICK q \in Partition : x \in Range(log[q])
        BY <2>2 DEF Waiting
      <3>2. CASE q = p
        BY <1>2, <1>5, <2>2, <3>1, <3>2 DEF Waiting, s
      <3>3. CASE q # p
        <4>1. x \in Range(log'[q])
          BY <1>2, <3>1, <3>3
        <4> QED
          BY <4>1 DEF Waiting
      <3> QED
        BY <3>2, <3>3
    <2> QED
      BY <2>1, <2>2
  <1>9. m \in Waiting
    BY <1>5 DEF Waiting, s
  <1>10. \A w \in Waiting : accepted[w].from = accepted[m].from => m <= w
    <2> SUFFICES ASSUME NEW w \in Waiting, accepted[w].from = accepted[m].from
                 PROVE  m <= w
      OBVIOUS
    <2>1. PICK q \in Partition : w \in Range(log[q])
      BY DEF Waiting
    <2>2. q = p
      <3>1. PartitionOf[accepted[m].from] = p
        BY <1>4, <1>5
      <3>2. PartitionOf[accepted[w].from] = q
        BY <1>4, <2>1
      <3> QED
        BY <3>1, <3>2
    <2> QED
      BY <1>5, <2>1, <2>2 DEF s
  <1>11. Phase = "idle" /\ Phase' = "taken" /\ Left' = Left
    BY <1>3 DEF ReadMessage, Phase, Left, connVars
  <1> QED
    BY <1>3, <1>8, <1>9, <1>10, <1>11, SameRows, SameQueue
       DEF ReadMessage, Promise!Take, Promise!From, Promise!screens, connVars

\* The steps of the consumer that no one sees: nothing but its place changes.
LEMMA QuietImplements ==
    ASSUME UNCHANGED <<accepted, log, row, owner, outVars, buf>>,
           UNCHANGED <<Phase, cur, Left>>
    PROVE  [Promise!Next]_(Promise!vars)
  BY HandOnly, Stutter

\* Storing a message: it is addressed, let go, or its group's members are next.
LEMMA StoreImplements ==
    ASSUME HubInv, StoreText \/ StoreFile \/ StoreAudioOrVideo \/ ReadMembers,
           hubPc = "members" => accepted[cur].kind \in {"Text", "File"}
    PROVE  Promise!Prepare
  <1> USE DEF HubInv
  <1>1. /\ hubPc \in {"store", "members"} /\ Phase = "taken"
        /\ UNCHANGED <<accepted, log, owner, outVars, buf>>
    BY DEF StoreText, StoreFile, StoreAudioOrVideo, ReadMembers, Phase, connVars
  <1>2. accepted[cur] \in Message /\ cur \in MsgId
    BY <1>1, CurrentMessage, HubAssumption DEF InHandAccepted, TypeOK, MsgId
  <1>3. Stored' \in {Stored, Stored \cup {cur}}
    <2>1. row' = row \/ row' = [row EXCEPT ![cur] = "Unsent"]
      BY DEF StoreText, StoreFile, StoreAudioOrVideo, ReadMembers, Create
    <2> QED
      BY <1>2, <2>1 DEF Stored, TypeOK
  <1>4. \/ UNCHANGED <<Phase, cur, Left>>
        \/ /\ Phase' = "addressed" /\ UNCHANGED cur
           /\ Left' \in SUBSET Promise!Addressees(accepted[cur])
        \/ Phase' = "idle" /\ cur' = 0 /\ UNCHANGED Left
    <2>1. CASE StoreText \/ StoreFile
      BY <1>1, <1>2, <2>1 DEF StoreText, StoreFile, GoToPush, ToGroup, Phase, Left,
                              Promise!Addressees, Message
    <2>2. CASE StoreAudioOrVideo
      BY <1>1, <1>2, <2>2 DEF StoreAudioOrVideo, CallTargets, ToGroup, Phase, Left, NoMsg,
                              Promise!Addressees, Message
    <2>3. CASE ReadMembers
      <3>1. accepted[cur].to \in Group /\ accepted[cur].kind \in {"Text", "File"}
        BY <2>3 DEF ReadMembers, MembersOfGroup
      <3> QED
        BY <1>1, <2>3, <3>1 DEF ReadMembers, Phase, Left, Promise!Addressees
    <2> QED
      BY <2>1, <2>2, <2>3
  <1>5. UNCHANGED <<Waiting, Queue, written>>
    BY <1>1, SameTopic, SameQueue
  <1> QED
    BY <1>1, <1>3, <1>4, <1>5 DEF Promise!Prepare, Promise!handling, Promise!screens

\* A message put into SendBack is at the end of what its connection will write.
LEMMA SendImplements ==
    ASSUME HubInv, TidyInv, Send
    PROVE  [Promise!Next]_(Promise!vars)
  <1> USE DEF HubInv
  <1>1. CASE ChanClosed(target)
    BY <1>1, ExitImplements DEF Send, Panic, TidyInv
  <1>2. CASE ~ChanClosed(target)
    <2>1. /\ target \in Conn /\ hubPc = "send" /\ hubPc' = "push" /\ cur \in MsgId
          /\ owner[target] \notin todo
          /\ buf' = [buf EXCEPT ![target] = Append(@, cur)]
          /\ UNCHANGED <<connVars, outVars, accepted, log, cur, todo, row>>
      BY <1>2, HubAssumption
         DEF Send, TargetOpen, InHandAccepted, TypeOK, MsgId, TidyInv, HandEmptied
    <2>2. /\ Phase = "addressed" /\ Phase' = "addressed"
          /\ owner[target] \in Left /\ Left' = Left \ {owner[target]}
      BY <2>1 DEF Phase, Left, connVars
    <2>3. Queue' = [Queue EXCEPT ![target] = Append(@, cur)]
      <3>1. /\ buf[target] \in Seq(MsgId)
            /\ writer[target] = "write" => held[target] \in MsgId
        BY <2>1 DEF TypeOK, InHandAccepted
      <3>2. buf'[target] = Append(buf[target], cur)
        BY <2>1 DEF TypeOK
      <3>3. Queue'[target] = Append(Queue[target], cur)
        <4>1. CASE writer[target] = "write"
          <5>1. <<held[target]>> \o Append(buf[target], cur)
                  = Append(<<held[target]>> \o buf[target], cur)
            BY <2>1, <3>1, <4>1
          <5> QED
            BY <2>1, <3>2, <4>1, <5>1 DEF Queue, outVars
        <4>2. CASE writer[target] # "write"
          <5>1. <<>> \o Append(buf[target], cur) = Append(<<>> \o buf[target], cur)
            BY <2>1, <3>1
          <5> QED
            BY <2>1, <3>2, <4>2, <5>1 DEF Queue, outVars
        <4> QED
          BY <4>1, <4>2
      <3>4. \A c \in Conn \ {target} : Queue'[c] = Queue[c]
        BY <2>1 DEF Queue, outVars, TypeOK
      <3> QED
        BY <2>1, <3>3, <3>4 DEF Queue
    <2>4. Promise!Deliver(owner[target], target)
      BY <2>1, <2>2, <2>3, SameTopic, SameRows
         DEF Promise!Deliver, connVars, outVars
    <2> QED
      BY <2>1, <2>2, <2>4 DEF Promise!Next
  <1> QED
    BY <1>1, <1>2

LEMMA ConsumerImplements ==
    ASSUME HubInv, TidyInv, Consumer
    PROVE  [Promise!Next]_(Promise!vars)
  <1> USE DEF HubInv, TidyInv, connVars, NoMsg
  <1>1. CASE Join
    <2>1. Waiting' = {}
      BY <1>1 DEF Join, EmptyTopic, Waiting, Range
    <2>2. Promise!Forget
      BY <1>1, <2>1, SameRows, SameQueue
         DEF Join, Phase, Left, Promise!Forget, Promise!handling, Promise!screens
    <2> QED
      BY <2>2 DEF Promise!Next
  <1>2. CASE Select \/ ReadCanceled \/ Lock
    <2>1. UNCHANGED <<Phase, cur, Left>>
      BY <1>2 DEF Select, ReadCanceled, Lock, Phase, Left
    <2> QED
      BY <1>2, <2>1, QuietImplements DEF Select, ReadCanceled, Lock
  <1>3. ASSUME NEW p \in Partition, ReadMessage(p) PROVE [Promise!Next]_(Promise!vars)
    <2>1. Promise!Take(cur')
      BY <1>3, ReadImplements
    <2>2. cur' \in Waiting
      BY <2>1 DEF Promise!Take
    <2> QED
      BY <2>1, <2>2 DEF Promise!Next
  <1>4. CASE StoreText \/ StoreFile \/ StoreAudioOrVideo \/ ReadMembers
    BY <1>4, StoreImplements DEF HandEmptied, Promise!Next
  <1>5. ASSUME NEW u \in User, SkipOffline(u) PROVE [Promise!Next]_(Promise!vars)
    <2>1. u \in Left /\ Left' = Left \ {u} /\ Phase = "addressed" /\ Phase' = Phase
      BY <1>5 DEF SkipOffline, InTurn, Phase, Left
    <2>2. Promise!Skip(u)
      BY <1>5, <2>1, HandOnly DEF SkipOffline, Promise!Skip, Promise!screens
    <2> QED
      BY <2>1, <2>2 DEF Promise!Next
  <1>6. ASSUME NEW u \in User, Lookup(u) PROVE [Promise!Next]_(Promise!vars)
    <2>1. CASE registry[u] = NoConn
      BY <1>6, <2>1, ExitImplements DEF Lookup, Panic
    <2>2. CASE registry[u] # NoConn
      <3>1. owner[target'] = u /\ u \in todo
        BY <1>6, <2>2 DEF Lookup, InTurn, RegistryOwned
      <3>2. UNCHANGED <<Phase, cur, Left>>
        BY <1>6, <2>2, <3>1 DEF Lookup, Phase, Left
      <3> QED
        BY <1>6, <2>2, <3>2, QuietImplements DEF Lookup
    <2> QED
      BY <2>1, <2>2
  <1>7. CASE Send
    BY <1>7, SendImplements
  <1>8. CASE Unlock /\ ToGroup(cur)
    <2>1. UNCHANGED <<Phase, cur, Left>>
      BY <1>8 DEF Unlock, Phase, Left
    <2> QED
      BY <1>8, <2>1, QuietImplements DEF Unlock
  <1>9. CASE Invalidate \/ (Unlock /\ ~ToGroup(cur))
    <2>1. /\ Left = {} /\ Left' = {} /\ Phase = "addressed" /\ Phase' = "idle" /\ cur' = 0
      BY <1>9 DEF Invalidate, Unlock, HandEmptied, Phase, Left
    <2>2. Promise!Finish
      BY <1>9, <2>1, HandOnly DEF Invalidate, Unlock, Promise!Finish, Promise!screens
    <2> QED
      BY <2>2 DEF Promise!Next
  <1> QED
    BY <1>1, <1>2, <1>3, <1>4, <1>5, <1>6, <1>7, <1>8, <1>9 DEF Consumer

\* readLoop: a frame Kafka accepts waits in the topic.
LEMMA PublishImplements ==
    ASSUME HubInv, NEW c \in Conn, NEW to \in User \cup Group, NEW kind \in Kind,
           Publish(c, to, kind)
    PROVE  \E msg \in Promise!Message : Promise!Accept(msg)
  <1> USE DEF HubInv, TypeOK
  <1> DEFINE msg == [from |-> owner[c], to |-> to, kind |-> kind]
             p == PartitionOf[owner[c]]
             n == Len(accepted) + 1
  <1>1. owner[c] \in User /\ p \in Partition /\ msg \in Promise!Message
    BY HubAssumption DEF Publish, LoopsOfLive, IsLive, Promise!Message, Kinds
  <1>2. /\ log'[p] = Append(log[p], n) /\ \A q \in Partition \ {p} : log'[q] = log[q]
        /\ n \in MsgId
    <2>1. log' = [log EXCEPT ![p] = Append(@, n)] /\ Len(accepted) < MaxMsg
      BY DEF Publish, KeyPartition
    <2>2. n \in MsgId
      BY <2>1, HubAssumption DEF MsgId
    <2> HIDE DEF n, p
    <2> QED
      BY <1>1, <2>1, <2>2
  <1>3. Range(log'[p]) = Range(log[p]) \cup {n}
    <2> DEFINE s == log[p] t == log'[p]
    <2>1. s \in Seq(MsgId) /\ t = Append(s, n)
      BY <1>1, <1>2
    <2> HIDE DEF s, t, n, p
    <2>2. /\ DOMAIN t = DOMAIN s \cup {Len(s) + 1} /\ t[Len(s) + 1] = n
          /\ \A i \in DOMAIN s : t[i] = s[i]
      BY <2>1
    <2>3. Range(t) = Range(s) \cup {n}
      BY <2>2 DEF Range
    <2> QED
      BY <2>3 DEF s, t
  <1> HIDE DEF n, p
  <1>4. Waiting' = Waiting \cup {n}
    <2>1. ASSUME NEW x \in Waiting' PROVE x \in Waiting \cup {n}
      <3>1. PICK q \in Partition : x \in Range(log'[q])
        BY <2>1 DEF Waiting
      <3>2. x = n \/ x \in Range(log[q])
        BY <1>2, <1>3, <3>1
      <3> QED
        BY <3>2 DEF Waiting
    <2>2. ASSUME NEW x \in Waiting PROVE x \in Waiting'
      <3>1. PICK q \in Partition : x \in Range(log[q])
        BY DEF Waiting
      <3>2. x \in Range(log'[q])
        BY <1>2, <1>3, <3>1
      <3> QED
        BY <3>2 DEF Waiting
    <2>3. n \in Waiting'
      BY <1>1, <1>3 DEF Waiting
    <2> QED
      BY <2>1, <2>2, <2>3
  <1>5. Promise!Accept(msg)
    BY <1>4, SameRows, SameHand, SameQueue
       DEF Publish, Promise!Accept, Promise!handling, Promise!screens, connVars, n
  <1> QED
    BY <1>1, <1>5

\* Everything else: logins open a screen, exits stop, a restart forgets.
LEMMA OtherImplements ==
    ASSUME HubInv, TidyInv,
           Environment \/ MainStep \/ \E u \in User : LogoutStep(u)
    PROVE  [Promise!Next]_(Promise!vars)
  <1> USE DEF connVars, TidyInv
  <1>1. ASSUME NEW c \in Conn, NEW u \in User, Connect(c, u)
        PROVE  [Promise!Next]_(Promise!vars)
    <2>1. UNCHANGED <<Phase, cur, Left>>
      BY <1>1 DEF Connect, MutexFree, Phase, Left, hubVars
    <2>2. Promise!Open(c, u)
      BY <1>1, <2>1, SameTopic, SameRows, SameQueue
         DEF Connect, IsLive, Promise!Open, Promise!handling
    <2> QED
      BY <1>1, <2>2 DEF Promise!Next
  <1>2. ASSUME NEW c \in Conn, NEW to \in User \cup Group, NEW kind \in Kind,
              Publish(c, to, kind)
        PROVE  [Promise!Next]_(Promise!vars)
    BY <1>2, PublishImplements DEF Promise!Next
  <1>3. CASE (\E c \in Conn : PeerGone(c)) \/ (\E u \in User : LogoutGet(u) \/ LogoutStep(u))
    BY <1>3, ScreensOnly, SameQueue, Stutter
       DEF PeerGone, LogoutGet, LogoutStep, LogoutClose, LogoutReturn
  <1>4. CASE Quit \/ CloseKafka
    BY <1>4, ScreensOnly, SameQueue, Stutter DEF Quit, CloseKafka
  <1>5. CASE Kill \/ Exit
    BY <1>5, ExitImplements DEF Kill, Exit
  <1>6. CASE Restart
    <2>1. Waiting' = {}
      BY <1>6 DEF Restart, EmptyTopic, Waiting, Range
    <2>2. Promise!Forget
      BY <1>6, <2>1, SameRows, SameQueue
         DEF Restart, HandEmptied, Phase, Left,
             Promise!Forget, Promise!handling, Promise!screens
    <2> QED
      BY <2>2 DEF Promise!Next
  <1> QED
    BY <1>1, <1>2, <1>3, <1>4, <1>5, <1>6 DEF Environment, MainStep

LEMMA InitImplements == Init => Promise!Init
  <1> SUFFICES ASSUME Init PROVE Promise!Init
    OBVIOUS
  <1>1. Waiting = {}
    BY DEF Init, Waiting, EmptyTopic, Range
  <1>2. Phase = "idle" /\ Left = {} /\ Stored = {}
    BY DEF Init, Phase, Left, Stored
  <1>3. Queue = [c \in Conn |-> <<>>]
    BY DEF Init, Queue
  <1> QED
    BY <1>1, <1>2, <1>3 DEF Init, Promise!Init, NoMsg

LEMMA StepImplements ==
    HubInv /\ TidyInv /\ [Next]_vars => [Promise!Next]_(Promise!vars)
  <1> SUFFICES ASSUME HubInv, TidyInv, [Next]_vars PROVE [Promise!Next]_(Promise!vars)
    OBVIOUS
  <1>1. CASE Next
    BY <1>1, ConnImplements, ConsumerImplements, OtherImplements DEF Next, TidyInv
  <1>2. CASE UNCHANGED vars
    BY <1>2, ScreensOnly, SameQueue, Stutter DEF vars, connVars
  <1> QED
    BY <1>1, <1>2

\* The hub of client.go, server.go and main.go implements what Delivery says:
\* its goroutines, mutex, channels and partitions, over closes, failed writes
\* and database calls, exits and restarts, allow nothing else to be seen.
THEOREM Implements == Spec => ImplementsDelivery
  BY InitImplements, StepImplements, Invariance, Tidiness, PTL
     DEF Spec, ImplementsDelivery, Promise!Spec

-----------------------------------------------------------------------------
(* What it promises holds of the hub                                       *)

\* DeliveryProofs, of the same view of the hub.
Facts == INSTANCE DeliveryProofs WITH
    Screen <- Conn, waiting <- Waiting, phase <- Phase, current <- cur,
    left <- Left, stored <- Stored, queue <- Queue, shown <- written

LEMMA FactsInit == Promise!Init => Facts!Init
  BY DEF Promise!Init, Facts!Init

LEMMA FactsStep == [Promise!Next]_(Promise!vars) => [Facts!Next]_(Facts!vars)
  <1>1. UNCHANGED Promise!vars => UNCHANGED Facts!vars
    BY DEF Promise!vars, Facts!vars
  <1>2. Promise!Next => Facts!Next
    BY DEF Promise!Next, Facts!Next,
       Promise!Open, Promise!Accept, Promise!Take, Promise!Prepare, Promise!Skip,
       Promise!Deliver, Promise!Finish, Promise!Show, Promise!Lose, Promise!Stop,
       Promise!Forget, Promise!Message, Promise!From, Promise!Addressees,
       Promise!handling, Promise!screens,
       Facts!Open, Facts!Accept, Facts!Take, Facts!Prepare, Facts!Skip,
       Facts!Deliver, Facts!Finish, Facts!Show, Facts!Lose, Facts!Stop,
       Facts!Forget, Facts!Message, Facts!From, Facts!Addressees,
       Facts!handling, Facts!screens
  <1> QED
    BY <1>1, <1>2

LEMMA Delivers == Spec => []Facts!DeliveryInv
  <1>1. Facts!Sound
    BY HubAssumption DEF Facts!Sound
  <1>2. Facts!Spec => []Facts!DeliveryInv
    BY <1>1, Facts!Holds
  <1> QED
    BY <1>2, FactsInit, FactsStep, Implements, PTL
       DEF Facts!Spec, Promise!Spec, ImplementsDelivery

\* What a connection has been given is what it has shown and then its queue.
LEMMA GivenShownQueued ==
    ASSUME HubInv, NEW c \in Conn
    PROVE  /\ written[c] \in Seq(MsgId) /\ Queue[c] \in Seq(MsgId)
           /\ Given(c) = written[c] \o Queue[c]
  <1> DEFINE w == written[c]
             h == IF writer[c] = "write" THEN <<held[c]>> ELSE <<>>
             b == buf[c]
  <1>1. w \in Seq(MsgId) /\ h \in Seq(MsgId) /\ b \in Seq(MsgId)
    BY DEF HubInv, TypeOK, InHandAccepted
  <1>2. Queue[c] = h \o b /\ Given(c) = (w \o h) \o b
    BY DEF Queue, Given
  <1> HIDE DEF w, h, b
  <1>3. h \o b \in Seq(MsgId)
    BY <1>1, ConcatProperties
  <1>4. (w \o h) \o b = w \o (h \o b)
    BY <1>1, ConcatAssociative
  <1> QED
    BY <1>1, <1>2, <1>3, <1>4 DEF w

LEMMA ConcatElems ==
    ASSUME NEW S, NEW s \in Seq(S), NEW t \in Seq(S)
    PROVE  /\ Range(s \o t) = Facts!Elems(s) \cup Facts!Elems(t)
           /\ \A i \in DOMAIN (s \o t) :
               \/ i \in DOMAIN s /\ (s \o t)[i] = s[i]
               \/ /\ i - Len(s) \in DOMAIN t /\ i > Len(s)
                  /\ (s \o t)[i] = t[i - Len(s)]
  <1> DEFINE r == s \o t
  <1>1. /\ DOMAIN r = 1..(Len(s) + Len(t)) /\ DOMAIN s = 1..Len(s) /\ DOMAIN t = 1..Len(t)
        /\ Len(s) \in Nat /\ Len(t) \in Nat
        /\ \A i \in DOMAIN r : r[i] = IF i <= Len(s) THEN s[i] ELSE t[i - Len(s)]
    BY ConcatProperties
  <1> HIDE DEF r
  <1>2. \A i \in DOMAIN r :
           \/ i \in DOMAIN s /\ r[i] = s[i]
           \/ i - Len(s) \in DOMAIN t /\ i > Len(s) /\ r[i] = t[i - Len(s)]
    BY <1>1
  <1>3. \A i \in DOMAIN s : i \in DOMAIN r /\ r[i] = s[i]
    BY <1>1
  <1>4. \A i \in DOMAIN t : i + Len(s) \in DOMAIN r /\ r[i + Len(s)] = t[i]
    BY <1>1
  <1>5. Range(r) = Facts!Elems(s) \cup Facts!Elems(t)
    <2>1. \A x \in Range(r) : x \in Facts!Elems(s) \cup Facts!Elems(t)
      BY <1>2 DEF Range, Facts!Elems
    <2>2. \A x \in Facts!Elems(s) : x \in Range(r)
      BY <1>3 DEF Range, Facts!Elems
    <2>3. \A x \in Facts!Elems(t) : x \in Range(r)
      BY <1>4 DEF Range, Facts!Elems
    <2> QED
      BY <2>1, <2>2, <2>3
  <1> QED
    BY <1>2, <1>5 DEF r

LEMMA GivenElems ==
    ASSUME HubInv, NEW c \in Conn
    PROVE  Range(Given(c)) = Facts!GivenTo(c)
  <1> DEFINE s == written[c] t == Queue[c]
  <1>1. s \in Seq(MsgId) /\ t \in Seq(MsgId) /\ Given(c) = s \o t
    BY GivenShownQueued
  <1>2. Facts!GivenTo(c) = Facts!Elems(s) \cup Facts!Elems(t)
    BY DEF Facts!GivenTo
  <1> HIDE DEF s, t
  <1>3. Range(s \o t) = Facts!Elems(s) \cup Facts!Elems(t)
    BY <1>1, ConcatElems
  <1> QED
    BY <1>1, <1>2, <1>3

\* Each connection gets a sender's messages in the order in which Kafka
\* accepted them and none twice, over relogins, failures and restarts, by way
\* of one partition per sender, one consumer and one channel (server.go).
THEOREM Order == Spec => []InOrderOnce
  <1>1. HubInv /\ Facts!Ordered => InOrderOnce
    <2> SUFFICES ASSUME HubInv, Facts!Ordered, NEW c \in Conn,
                        NEW i \in DOMAIN Given(c), NEW j \in DOMAIN Given(c), i < j,
                        accepted[Given(c)[i]].from = accepted[Given(c)[j]].from
                 PROVE  Given(c)[i] < Given(c)[j]
      BY DEF InOrderOnce
    <2> DEFINE s == written[c] t == Queue[c] r == s \o t
    <2>1. s \in Seq(MsgId) /\ t \in Seq(MsgId) /\ Given(c) = r
      BY GivenShownQueued
    <2>2. \A k, l \in DOMAIN s : k < l => Facts!InOrder(s[k], s[l])
      BY DEF Facts!Ordered, Facts!Ascending
    <2>3. \A k, l \in DOMAIN t : k < l => Facts!InOrder(t[k], t[l])
      BY DEF Facts!Ordered, Facts!Ascending
    <2>4. \A k \in DOMAIN s, l \in DOMAIN t : Facts!InOrder(s[k], t[l])
      BY DEF Facts!Ordered, Facts!Elems
    <2>5. /\ DOMAIN s \subseteq Nat /\ DOMAIN t \subseteq Nat /\ Len(s) \in Nat
          /\ \A k \in DOMAIN s : k <= Len(s)
      BY <2>1
    <2>6. \A k \in DOMAIN r :
             \/ k \in DOMAIN s /\ r[k] = s[k]
             \/ k - Len(s) \in DOMAIN t /\ k > Len(s) /\ r[k] = t[k - Len(s)]
      BY <2>1, ConcatElems
    <2>7. i \in Nat /\ j \in Nat
      <3>1. r \in Seq(MsgId)
        BY <2>1, ConcatProperties
      <3> HIDE DEF r
      <3> QED
        BY <2>1, <3>1
    <2> HIDE DEF s, t, r
    <2>8. Facts!InOrder(r[i], r[j])
      <3>1. CASE i \in DOMAIN s /\ r[i] = s[i]
        BY <2>1, <2>2, <2>4, <2>6, <3>1
      <3>2. CASE i - Len(s) \in DOMAIN t /\ i > Len(s) /\ r[i] = t[i - Len(s)]
        <4>1. j - Len(s) \in DOMAIN t /\ r[j] = t[j - Len(s)]
          BY <2>1, <2>5, <2>6, <2>7, <3>2
        <4>2. i - Len(s) < j - Len(s)
          BY <2>5, <2>7
        <4> QED
          BY <2>3, <3>2, <4>1, <4>2
      <3> QED
        BY <2>1, <2>6, <3>1, <3>2
    <2> QED
      BY <2>1, <2>8 DEF Facts!InOrder, Facts!From
  <1>2. Facts!DeliveryInv => Facts!Ordered
    BY DEF Facts!DeliveryInv
  <1> QED
    BY <1>1, <1>2, Delivers, Invariance, PTL

\* No message is put on two connections of a user: he is looked up once.
THEOREM OneCopy == Spec => []OncePerUser
  <1>1. HubInv /\ Facts!Once => OncePerUser
    BY GivenElems DEF Facts!Once, OncePerUser
  <1>2. Facts!DeliveryInv => Facts!Once
    BY DEF Facts!DeliveryInv
  <1> QED
    BY <1>1, <1>2, Delivers, Invariance, PTL

\* What a connection is given is meant for its user, whoever comes and goes
\* between the look at the message and the push (server.go).
THEOREM AudienceOnly == Spec => []OnlyAudience
  <1>1. HubInv /\ Facts!Directed => OnlyAudience
    <2>1. ASSUME NEW m PROVE Facts!Addressees(accepted[m]) \subseteq Audience(m)
      <3>1. CASE accepted[m].kind \in {"Call", "Signal"} /\ accepted[m].to \in Group
        BY <3>1, HubAssumption DEF Facts!Addressees
      <3>2. CASE accepted[m].kind \in {"Call", "Signal"} /\ accepted[m].to \notin Group
        BY <3>2 DEF Facts!Addressees, Audience, ToGroup
      <3>3. CASE accepted[m].kind \notin {"Call", "Signal"} /\ accepted[m].to \in Group
        BY <3>3 DEF Facts!Addressees, Audience, ToGroup
      <3>4. CASE accepted[m].kind \notin {"Call", "Signal"} /\ accepted[m].to \notin Group
        BY <3>4 DEF Facts!Addressees, Audience, ToGroup
      <3> QED
        BY <3>1, <3>2, <3>3, <3>4
    <2> QED
      BY <2>1, GivenElems DEF Facts!Directed, OnlyAudience
  <1>2. Facts!DeliveryInv => Facts!Directed
    BY DEF Facts!DeliveryInv
  <1> QED
    BY <1>1, <1>2, Delivers, Invariance, PTL

=============================================================================
