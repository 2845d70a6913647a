------------------------------ MODULE ChatHub ------------------------------
(***************************************************************************)
(* The chat hub: websocket connections (internal/service/chat/client.go),  *)
(* the registry of online users and the single Kafka consumer that stores  *)
(* and fans out messages (internal/service/chat/server.go), the chat topic *)
(* (internal/service/kafka) and the life of the process (cmd/main.go).     *)
(*                                                                         *)
(* One process of the model per goroutine: readLoop and writeLoop of every *)
(* connection, the sync.Once body of Client.close, an HTTP logout handler  *)
(* per user, the consumer and main.  The consumer keeps the registry mutex *)
(* over several blocking steps; every other holder takes and releases it   *)
(* in one step, so "the mutex is free" means "the consumer is not pushing".*)
(* Inputs are those of the web client: the sender of a frame is the owner  *)
(* of the connection and no one writes to himself.                         *)
(***************************************************************************)
EXTENDS Naturals, Sequences, Functions

CONSTANTS
    User, Group,    \* the ids beginning with 'U' and with 'G'
    Conn,           \* the websocket connections that may be accepted
    Partition,      \* the partitions of the chat topic
    Roster,         \* Roster[g]: the rows of group_member for group g
    PartitionOf,    \* the Hash balancer: a user's messages share a partition
    ChannelSize,    \* constants.CHANNEL_SIZE, the capacity of SendBack
    MaxMsg,         \* bound: messages accepted by Kafka
    MaxStarts,      \* bound: starts of the process
    Kind,           \* the message kinds clients send
    Env,            \* what the environment may do, see EnvEvents
    NoUser, NoConn  \* the absent user, the nil *Client

\* "Text" and "File" are the types of those names.  An AudioOrVideo message is
\* a "Call" when it is one of the PROXY events that are stored, else a "Signal".
Kinds == {"Text", "File", "Call", "Signal"}

\* relogin: a user connects while an older connection of his is not closed;
\* gone: a peer or its network goes away; logout: POST /user/wsLogout;
\* db: a database call fails; quit: SIGTERM; kill: the process dies.
EnvEvents == {"relogin", "gone", "logout", "db", "quit", "kill"}

ASSUME HubAssumption ==
    /\ NoUser \notin User
    /\ NoConn \notin Conn
    /\ User \cap Group = {}
    /\ Roster \in [Group -> SUBSET User]
    /\ PartitionOf \in [User -> Partition]
    /\ ChannelSize \in Nat \ {0}
    /\ MaxMsg \in Nat
    /\ MaxStarts \in Nat
    /\ Kind \subseteq Kinds
    /\ Env \subseteq EnvEvents

VARIABLES
    owner,      \* Client.Uuid of each connection, NoUser before the upgrade
    wire,       \* "gone" once the peer or its network went away
    outBefore,  \* record: the connections closed already when this one registered
    closeStep,  \* how far the closeOnce body got: next step, or "no" / "done"
    reader,     \* readLoop
    writer,     \* writeLoop
    buf,        \* SendBack
    held,       \* the message writeLoop took from SendBack and has in hand
    written,    \* messages that WriteMessage put on the wire, in order
    logoutOf,   \* the client the logout handler of a user holds
    registry,   \* KafkaServer.Clients
    accepted,   \* every message Kafka accepted; its index is its identity
    log,        \* the unconsumed part of each partition
    hubPc, cur, \* the consumer and the message it handles
    todo,       \* the users it still has to push to
    target,     \* the client it is sending to
    row,        \* status column of the message row, "none" without a row
    main,       \* cmd/main.go: "serve", "cancel", "closed", "exit"
    cause,      \* the panic that ended the process
    starts      \* starts of the process so far

connVars == <<owner, outBefore, wire, closeStep, reader>>
outVars  == <<writer, held, written>>
hubVars  == <<hubPc, cur, todo, target>>
procVars == <<main, cause, starts>>
vars == <<connVars, outVars, buf, logoutOf, registry, accepted, log, hubVars,
          row, procVars>>

MsgId == 1..MaxMsg
NoMsg == 0
Message == [from: User, to: User \cup Group, kind: Kinds]

\* Mutant: no committed offset, a new consumer reads everything again.
ReplayedTopic ==
    [p \in Partition |-> SelectSeq([i \in 1..Len(accepted) |-> i],
                                  LAMBDA m : PartitionOf[accepted[m].from] = p)]

\* A topic, or what a new consumer sees of one: nothing yet.
EmptyTopic == [p \in Partition |-> <<>>]

IsLive(c) == owner[c] # NoUser
Up == main # "exit"
\* Mutant: GetClient, AddClient and RemoveClient do without the mutex.
NoMutex == TRUE

MutexFree == hubPc \notin {"push", "send"}
\* Conn.Close() has been called: reads and writes on the connection fail.
Shut(c) == closeStep[c] \in {"chan", "done"}
\* RemoveClient has been called, or the process that knew the connection ended.
TakenOut(c) == closeStep[c] \in {"conn", "chan", "done"}
\* close(SendBack) has been called.
ChanClosed(c) == closeStep[c] = "done"

Init ==
    /\ owner = [c \in Conn |-> NoUser]
    /\ outBefore = [c \in Conn |-> {}]
    /\ wire = [c \in Conn |-> "open"]
    /\ closeStep = [c \in Conn |-> "no"]
    /\ reader = [c \in Conn |-> "off"]
    /\ writer = [c \in Conn |-> "off"]
    /\ buf = [c \in Conn |-> <<>>]
    /\ held = [c \in Conn |-> NoMsg]
    /\ written = [c \in Conn |-> <<>>]
    /\ logoutOf = [u \in User |-> NoConn]
    /\ registry = [u \in User |-> NoConn]
    /\ accepted = <<>>
    /\ log = EmptyTopic
    /\ hubPc = "join" /\ cur = NoMsg /\ todo = {} /\ target = NoConn
    /\ row = [m \in MsgId |-> "none"]
    /\ main = "serve" /\ cause = "none" /\ starts = 1

-----------------------------------------------------------------------------
(* Connections                                                             *)

\* NewClientInit up to AddClient, which overwrites an older entry of the user.
Connect(c, u) ==
    /\ Up /\ MutexFree
    /\ ~IsLive(c)
    /\ "relogin" \in Env \/ \A d \in Conn : owner[d] = u => closeStep[d] = "done"
    /\ owner' = [owner EXCEPT ![c] = u]
    /\ registry' = [registry EXCEPT ![u] = c]
    /\ outBefore' = [outBefore EXCEPT ![c] = {d \in Conn : TakenOut(d)}]
    /\ UNCHANGED <<wire, closeStep, reader, outVars, buf, logoutOf, accepted,
                   log, hubVars, row, procVars>>

\* The rest of NewClientInit: the welcome frame (its failure is only logged)
\* and the two goroutines.
StartLoops(c) ==
    /\ IsLive(c) /\ reader[c] = "off"
    /\ reader' = [reader EXCEPT ![c] = "run"]
    /\ writer' = [writer EXCEPT ![c] = "recv"]
    /\ UNCHANGED <<owner, outBefore, wire, closeStep, held, written, buf, logoutOf,
                   registry, accepted, log, hubVars, row, procVars>>

\* The browser closes the socket or its network fails.
PeerGone(c) ==
    /\ "gone" \in Env
    /\ IsLive(c) /\ wire[c] = "open"
    /\ wire' = [wire EXCEPT ![c] = "gone"]
    /\ UNCHANGED <<owner, outBefore, closeStep, reader, outVars, buf, logoutOf, registry,
                   accepted, log, hubVars, row, procVars>>

\* Mutant: closed by a flag that says "closing", not by sync.Once: who calls
\* close after the body has finished runs it again.
EnterCloseAgain(c) ==
    closeStep' = [closeStep EXCEPT ![c] = IF @ \in {"no", "done"} THEN "remove" ELSE @]

\* A goroutine calls Client.close: the first one runs the Once body.
EnterClose(c) ==
    closeStep' = [closeStep EXCEPT ![c] = IF @ = "no" THEN "remove" ELSE @]

\* Mutant: the client stays registered.
RemoveNothing(c) == UNCHANGED registry

\* RemoveClient deletes whatever client is registered for the uuid.
RemoveClient(c) == registry' = [registry EXCEPT ![owner[c]] = NoConn]

CloseRemove(c) ==
    /\ closeStep[c] = "remove" /\ MutexFree
    /\ RemoveClient(c)
    /\ closeStep' = [closeStep EXCEPT ![c] = "conn"]
    /\ UNCHANGED <<owner, outBefore, wire, reader, outVars, buf, logoutOf, accepted, log,
                   hubVars, row, procVars>>

CloseConn(c) ==
    /\ closeStep[c] = "conn"
    /\ closeStep' = [closeStep EXCEPT ![c] = "chan"]
    /\ UNCHANGED <<owner, outBefore, wire, reader, outVars, buf, logoutOf, registry,
                   accepted, log, hubVars, row, procVars>>

CloseChan(c) ==
    /\ closeStep[c] = "chan"
    /\ closeStep' = [closeStep EXCEPT ![c] = "done"]
    /\ UNCHANGED <<owner, outBefore, wire, reader, outVars, buf, logoutOf, registry,
                   accepted, log, hubVars, row, procVars>>

\* ClientLogout: look the client up under the read lock ...
LogoutGet(u) ==
    /\ "logout" \in Env /\ Up /\ MutexFree
    /\ logoutOf[u] = NoConn /\ registry[u] # NoConn
    /\ logoutOf' = [logoutOf EXCEPT ![u] = registry[u]]
    /\ UNCHANGED <<connVars, outVars, buf, registry, accepted, log, hubVars,
                   row, procVars>>

\* ... send the farewell, close the client (joining a close under way) ...
LogoutClose(u) ==
    /\ logoutOf[u] # NoConn /\ closeStep[logoutOf[u]] = "no"
    /\ EnterClose(logoutOf[u])
    /\ UNCHANGED <<owner, outBefore, wire, reader, outVars, buf, logoutOf, registry,
                   accepted, log, hubVars, row, procVars>>

\* ... and answer when the Once body has finished.
LogoutReturn(u) ==
    /\ logoutOf[u] # NoConn /\ ChanClosed(logoutOf[u])
    /\ logoutOf' = [logoutOf EXCEPT ![u] = NoConn]
    /\ UNCHANGED <<connVars, outVars, buf, registry, accepted, log, hubVars,
                   row, procVars>>

-----------------------------------------------------------------------------
(* readLoop and writeLoop                                                  *)

\* Mutant: the key is the receiver, not the sender.
KeyByReceiver(c, to) == PartitionOf[IF to \in User THEN to ELSE owner[c]]

\* The partition of a frame read on c: its key is the Uuid of the client.
KeyPartition(c, to) == PartitionOf[owner[c]]

\* A frame is read and WriteMessages succeeds.  Frames already received are
\* still read after the peer went away.  A frame Kafka refuses is dropped
\* with a log line, which changes nothing here.
Publish(c, to, kind) ==
    /\ reader[c] = "run" /\ ~Shut(c)
    /\ main # "closed" /\ Len(accepted) < MaxMsg
    /\ to # owner[c]
    /\ accepted' = Append(accepted, [from |-> owner[c], to |-> to, kind |-> kind])
    /\ log' = [log EXCEPT ![KeyPartition(c, to)] = Append(@, Len(accepted) + 1)]
    /\ UNCHANGED <<connVars, outVars, buf, logoutOf, registry, hubVars, row,
                   procVars>>

\* Mutant: no deferred close in readLoop.
ReaderErrorNoClose(c) ==
    /\ reader[c] = "run"
    /\ wire[c] = "gone" \/ Shut(c)
    /\ reader' = [reader EXCEPT ![c] = "ended"]
    /\ UNCHANGED <<owner, outBefore, wire, closeStep, outVars, buf, logoutOf, registry,
                   accepted, log, hubVars, row, procVars>>

\* ReadMessage fails; the deferred close runs.
ReaderError(c) ==
    /\ reader[c] = "run"
    /\ wire[c] = "gone" \/ Shut(c)
    /\ reader' = [reader EXCEPT ![c] = "close"]
    /\ EnterClose(c)
    /\ UNCHANGED <<owner, outBefore, wire, outVars, buf, logoutOf, registry, accepted,
                   log, hubVars, row, procVars>>

ReaderReturn(c) ==
    /\ reader[c] = "close" /\ ChanClosed(c)
    /\ reader' = [reader EXCEPT ![c] = "ended"]
    /\ UNCHANGED <<owner, outBefore, wire, closeStep, outVars, buf, logoutOf, registry,
                   accepted, log, hubVars, row, procVars>>

\* range SendBack yields the next message; a closed channel is drained first.
WriterTake(c) ==
    /\ writer[c] = "recv" /\ buf[c] # <<>>
    /\ held' = [held EXCEPT ![c] = Head(buf[c])]
    /\ buf' = [buf EXCEPT ![c] = Tail(buf[c])]
    /\ writer' = [writer EXCEPT ![c] = "write"]
    /\ UNCHANGED <<connVars, written, logoutOf, registry, accepted, log,
                   hubVars, row, procVars>>

\* WriteMessage succeeds, which it may do for a while after the peer left.
WriterSend(c) ==
    /\ writer[c] = "write" /\ ~Shut(c)
    /\ written' = [written EXCEPT ![c] = Append(@, held[c])]
    /\ writer' = [writer EXCEPT ![c] = "mark"]
    /\ UNCHANGED <<connVars, held, buf, logoutOf, registry, accepted, log,
                   hubVars, row, procVars>>

\* Mutant: no return after a failed write.
WriterErrorIgnored(c) ==
    /\ writer[c] = "write"
    /\ wire[c] = "gone" \/ Shut(c)
    /\ writer' = [writer EXCEPT ![c] = "mark"]
    /\ UNCHANGED <<connVars, held, written, buf, logoutOf, registry, accepted,
                   log, hubVars, row, procVars>>

\* WriteMessage fails: the message in hand and the rest of SendBack are lost.
WriterError(c) ==
    /\ writer[c] = "write"
    /\ wire[c] = "gone" \/ Shut(c)
    /\ held' = [held EXCEPT ![c] = NoMsg]
    /\ writer' = [writer EXCEPT ![c] = "close"]
    /\ EnterClose(c)
    /\ UNCHANGED <<owner, outBefore, wire, reader, written, buf, logoutOf, registry,
                   accepted, log, hubVars, row, procVars>>

\* Mutant: writeLoop handles one message only.
WriterMarkReturns(c) ==
    /\ writer[c] = "mark"
    /\ row' = [row EXCEPT ![held[c]] = IF @ = "none" THEN @ ELSE "Sent"]
    /\ held' = [held EXCEPT ![c] = NoMsg]
    /\ writer' = [writer EXCEPT ![c] = "ended"]
    /\ UNCHANGED <<connVars, written, buf, logoutOf, registry, accepted, log,
                   hubVars, procVars>>

\* UPDATE message SET status = Sent; it touches no row if there is none, and
\* its failure is only logged.
WriterMark(c) ==
    /\ writer[c] = "mark"
    /\ \/ row' = [row EXCEPT ![held[c]] = IF @ = "none" THEN @ ELSE "Sent"]
       \/ "db" \in Env /\ UNCHANGED row
    /\ held' = [held EXCEPT ![c] = NoMsg]
    /\ writer' = [writer EXCEPT ![c] = "recv"]
    /\ UNCHANGED <<connVars, written, buf, logoutOf, registry, accepted, log,
                   hubVars, procVars>>

\* The range ends once the closed channel is empty; the deferred close runs.
WriterDrained(c) ==
    /\ writer[c] = "recv" /\ buf[c] = <<>> /\ ChanClosed(c)
    /\ writer' = [writer EXCEPT ![c] = "close"]
    /\ UNCHANGED <<connVars, held, written, buf, logoutOf, registry, accepted,
                   log, hubVars, row, procVars>>

WriterReturn(c) ==
    /\ writer[c] = "close" /\ ChanClosed(c)
    /\ writer' = [writer EXCEPT ![c] = "ended"]
    /\ UNCHANGED <<connVars, held, written, buf, logoutOf, registry, accepted,
                   log, hubVars, row, procVars>>

-----------------------------------------------------------------------------
(* The process: exit of any kind takes every goroutine with it             *)

Dead(f, v) == [c \in Conn |-> IF IsLive(c) THEN v ELSE f[c]]

ExitProcess ==
    /\ main' = "exit"
    /\ wire' = Dead(wire, "gone")
    /\ closeStep' = Dead(closeStep, "done")
    /\ reader' = Dead(reader, "ended")
    /\ writer' = Dead(writer, "ended")
    /\ held' = Dead(held, NoMsg)
    /\ buf' = Dead(buf, <<>>)
    /\ registry' = [u \in User |-> NoConn]
    /\ logoutOf' = [u \in User |-> NoConn]
    /\ hubPc' = "stopped" /\ cur' = NoMsg /\ todo' = {} /\ target' = NoConn
    /\ UNCHANGED <<owner, outBefore, written, accepted, log, row, starts>>

\* The consumer panics: Start's deferred recover logs with zlog.Fatal, which
\* ends the process.
Panic(why) == cause' = why /\ ExitProcess

\* The process is killed or its machine fails.
\* Bound: the last process of a behaviour is not killed.
Kill ==
    /\ "kill" \in Env /\ Up /\ starts < MaxStarts
    /\ ExitProcess
    /\ UNCHANGED cause

\* SIGINT or SIGTERM: rootCancel.
Quit ==
    /\ "quit" \in Env /\ main = "serve"
    /\ main' = "cancel"
    /\ UNCHANGED <<connVars, outVars, buf, logoutOf, registry, accepted, log,
                   hubVars, row, cause, starts>>

\* wg.Wait returns when the consumer has; then KafkaService.Close.
CloseKafka ==
    /\ main = "cancel" /\ hubPc = "stopped"
    /\ main' = "closed"
    /\ UNCHANGED <<connVars, outVars, buf, logoutOf, registry, accepted, log,
                   hubVars, row, cause, starts>>

\* srv.Shutdown (which leaves hijacked connections alone), the other Close
\* calls, and main returns.
Exit == main = "closed" /\ ExitProcess /\ UNCHANGED cause

\* A new process: init of the kafka package deletes and recreates the topic.
Restart ==
    /\ main = "exit" /\ starts < MaxStarts
    /\ main' = "serve" /\ hubPc' = "join" /\ starts' = starts + 1
    /\ log' = EmptyTopic
    /\ UNCHANGED <<connVars, outVars, buf, logoutOf, registry, accepted, cur,
                   todo, target, row, cause>>

-----------------------------------------------------------------------------
(* The consumer, KafkaServer.Start                                         *)

\* The reader gets its partitions with StartOffset LastOffset: what the topic
\* holds by then is not read.
Join ==
    /\ hubPc = "join"
    /\ log' = EmptyTopic
    /\ hubPc' = "read"
    /\ UNCHANGED <<connVars, outVars, buf, logoutOf, registry, accepted, cur,
                   todo, target, row, procVars>>

\* The top of the loop: ctx.Done or another ReadMessage.
Select ==
    /\ hubPc = "select"
    /\ hubPc' = IF main = "serve" THEN "read" ELSE "stopped"
    /\ UNCHANGED <<connVars, outVars, buf, logoutOf, registry, accepted, log,
                   cur, todo, target, row, procVars>>

\* Mutant: the offset stays where it is.
AdvanceNot(p) == UNCHANGED log

\* Mutant: the offset moves to the end of the partition.
AdvanceToEnd(p) == log' = [log EXCEPT ![p] = <<>>]

Advance(p) == log' = [log EXCEPT ![p] = Tail(@)]

ReadMessage(p) ==
    /\ hubPc = "read" /\ log[p] # <<>>
    /\ cur' = Head(log[p])
    /\ Advance(p)
    /\ hubPc' = "store"
    /\ UNCHANGED <<connVars, outVars, buf, logoutOf, registry, accepted, todo,
                   target, row, procVars>>

\* ReadMessage returns context.Canceled.
ReadCanceled ==
    /\ hubPc \in {"join", "read"} /\ main # "serve"
    /\ hubPc' = "stopped"
    /\ UNCHANGED <<connVars, outVars, buf, logoutOf, registry, accepted, log,
                   cur, todo, target, row, procVars>>

\* GormDB.Create of the message with status Unsent; a failure is only logged.
Create(m) ==
    \/ row' = [row EXCEPT ![m] = "Unsent"]
    \/ "db" \in Env /\ UNCHANGED row

ToGroup(m) == accepted[m].to \in Group

\* After a Text or File message is stored: a group's members are read next, a
\* user's message goes to its receiver and back to its sender.
GoToPush(m) ==
    IF ToGroup(m)
    THEN hubPc' = "members" /\ UNCHANGED todo
    ELSE hubPc' = "lock" /\ todo' = {accepted[m].from, accepted[m].to}

StoreText ==
    /\ hubPc = "store" /\ accepted[cur].kind = "Text"
    /\ Create(cur) /\ GoToPush(cur)
    /\ UNCHANGED <<connVars, outVars, buf, logoutOf, registry, accepted, log,
                   cur, target, procVars>>

StoreFile ==
    /\ hubPc = "store" /\ accepted[cur].kind = "File"
    /\ Create(cur) /\ GoToPush(cur)
    /\ UNCHANGED <<connVars, outVars, buf, logoutOf, registry, accepted, log,
                   cur, target, procVars>>

\* Mutant: a call is echoed like a text.
CallTargetsEchoed(m) == {accepted[m].from, accepted[m].to}

\* A call is not echoed: the sender would see two of it.
CallTargets(m) == {accepted[m].to}

\* AudioOrVideo: only call events are stored, only users are pushed to, and
\* there is no echo.
StoreAudioOrVideo ==
    /\ hubPc = "store" /\ accepted[cur].kind \in {"Call", "Signal"}
    /\ IF accepted[cur].kind = "Call" THEN Create(cur) ELSE UNCHANGED row
    /\ IF ToGroup(cur)
       THEN hubPc' = "select" /\ cur' = NoMsg /\ UNCHANGED todo
       ELSE hubPc' = "lock" /\ todo' = CallTargets(cur) /\ UNCHANGED cur
    /\ UNCHANGED <<connVars, outVars, buf, logoutOf, registry, accepted, log,
                   target, procVars>>

\* The members of the group are read before the lock is taken; a failed query
\* yields no members.
ReadMembers ==
    /\ hubPc = "members"
    /\ \/ todo' = Roster[accepted[cur].to]
       \/ "db" \in Env /\ todo' = {}
    /\ hubPc' = "lock"
    /\ UNCHANGED <<connVars, outVars, buf, logoutOf, registry, accepted, log,
                   cur, target, row, procVars>>

\* k.mutex.Lock(); every other holder releases it in the step it takes it.
Lock ==
    /\ hubPc = "lock"
    /\ hubPc' = "push"
    /\ UNCHANGED <<connVars, outVars, buf, logoutOf, registry, accepted, log,
                   cur, todo, target, row, procVars>>

\* For a user's message the echo comes after the receiver's copy; the members
\* of a group come in any order, the sender among them.
InTurn(u) == u \in todo /\ (u # accepted[cur].from \/ ToGroup(cur) \/ todo = {u})

\* Mutant: the consumer waits for a receiver who is offline.
SkipNobody(u) == FALSE

\* A receiver who is not registered is skipped.
SkipOffline(u) ==
    /\ hubPc = "push" /\ InTurn(u)
    /\ u # accepted[cur].from /\ registry[u] = NoConn
    /\ todo' = todo \ {u}
    /\ UNCHANGED <<connVars, outVars, buf, logoutOf, registry, accepted, log,
                   hubPc, cur, target, row, procVars>>

\* The client to send to is looked up.  The sender's own is used without
\* looking whether there is one.
Lookup(u) ==
    /\ hubPc = "push" /\ InTurn(u)
    /\ IF registry[u] = NoConn
       THEN u = accepted[cur].from /\ Panic("nilSender")
       ELSE /\ target' = registry[u]
            /\ todo' = todo \ {u}
            /\ hubPc' = "send"
            /\ UNCHANGED <<connVars, outVars, buf, logoutOf, registry,
                           accepted, log, cur, row, procVars>>

HasRoom(c) == Len(buf[c]) < ChannelSize

\* client.SendBack <- messageBack: blocks, the mutex held, while the channel
\* is full, and panics if it is closed.
Send ==
    /\ hubPc = "send"
    /\ IF ChanClosed(target)
       THEN Panic("closedChannel")
       ELSE /\ HasRoom(target)
            /\ buf' = [buf EXCEPT ![target] = Append(@, cur)]
            /\ target' = NoConn
            /\ hubPc' = "push"
            /\ UNCHANGED <<connVars, outVars, logoutOf, registry, accepted,
                           log, cur, todo, row, procVars>>

\* k.mutex.Unlock(); for a group the cached history is dropped next.
Unlock ==
    /\ hubPc = "push" /\ todo = {}
    /\ IF ToGroup(cur)
       THEN hubPc' = "invalidate" /\ UNCHANGED cur
       ELSE hubPc' = "select" /\ cur' = NoMsg
    /\ UNCHANGED <<connVars, outVars, buf, logoutOf, registry, accepted, log,
                   todo, target, row, procVars>>

\* DelKeyIfExists("group_messagelist_" + group): the key itself is no state
\* of this module, the step is where a crash can fall.
Invalidate ==
    /\ hubPc = "invalidate"
    /\ hubPc' = "select" /\ cur' = NoMsg
    /\ UNCHANGED <<connVars, outVars, buf, logoutOf, registry, accepted, log,
                   todo, target, row, procVars>>

-----------------------------------------------------------------------------

\* The sync.Once body, run by whichever goroutine called close first.
Closer(c) == CloseRemove(c) \/ CloseConn(c) \/ CloseChan(c)

ReadLoop(c) == ReaderError(c) \/ ReaderReturn(c)

WriteLoop(c) ==
    \/ WriterTake(c) \/ WriterSend(c) \/ WriterError(c) \/ WriterMark(c)
    \/ WriterDrained(c) \/ WriterReturn(c)

ConnStep(c) == StartLoops(c) \/ Closer(c) \/ ReadLoop(c) \/ WriteLoop(c)

LogoutStep(u) == LogoutClose(u) \/ LogoutReturn(u)

Consumer ==
    \/ Join \/ Select \/ (\E p \in Partition : ReadMessage(p)) \/ ReadCanceled
    \/ StoreText \/ StoreFile \/ StoreAudioOrVideo \/ ReadMembers
    \/ Lock \/ (\E u \in User : SkipOffline(u) \/ Lookup(u)) \/ Send
    \/ Unlock \/ Invalidate

MainStep == CloseKafka \/ Exit

\* What users, the operator and failures do.
Environment ==
    \/ \E c \in Conn, u \in User : Connect(c, u)
    \/ \E c \in Conn, to \in User \cup Group, kind \in Kind : Publish(c, to, kind)
    \/ \E c \in Conn : PeerGone(c)
    \/ \E u \in User : LogoutGet(u)
    \/ Quit \/ Kill \/ Restart

Next ==
    \/ Environment
    \/ \E c \in Conn : ConnStep(c)
    \/ \E u \in User : LogoutStep(u)
    \/ Consumer
    \/ MainStep

Spec == Init /\ [][Next]_vars

\* The Go scheduler runs every goroutine that can run, and a blocked Lock gets
\* the mutex (messages are bounded, so the consumer frees it for good).  A
\* write to a websocket has no deadline: that it returns assumes that the peer
\* reads or its connection is reset.
Fairness ==
    /\ \A c \in Conn :
        /\ WF_vars(StartLoops(c))
        /\ WF_vars(Closer(c))
        /\ WF_vars(ReadLoop(c))
        /\ WF_vars(WriteLoop(c))
    /\ \A u \in User : WF_vars(LogoutStep(u))
    /\ WF_vars(Consumer)
    /\ WF_vars(MainStep)

FairSpec == Spec /\ Fairness

\* A supervisor starts the process again.
FairRestartSpec == FairSpec /\ WF_vars(Restart)

-----------------------------------------------------------------------------
(* Safety                                                                  *)

\* Every variable keeps to its domain: the states client.go, server.go and
\* main.go can put their objects in.
TypeOK ==
    /\ owner \in [Conn -> User \cup {NoUser}]
    /\ outBefore \in [Conn -> SUBSET Conn]
    /\ wire \in [Conn -> {"open", "gone"}]
    /\ closeStep \in [Conn -> {"no", "remove", "conn", "chan", "done"}]
    /\ reader \in [Conn -> {"off", "run", "close", "ended"}]
    /\ writer \in [Conn -> {"off", "recv", "write", "mark", "close", "ended"}]
    /\ buf \in [Conn -> Seq(MsgId)]
    /\ \A c \in Conn : Len(buf[c]) <= ChannelSize
    /\ held \in [Conn -> MsgId \cup {NoMsg}]
    /\ written \in [Conn -> Seq(MsgId)]
    /\ logoutOf \in [User -> Conn \cup {NoConn}]
    /\ registry \in [User -> Conn \cup {NoConn}]
    /\ accepted \in Seq(Message) /\ Len(accepted) <= MaxMsg
    /\ log \in [Partition -> Seq(MsgId)]
    /\ hubPc \in {"join", "select", "read", "store", "members", "lock", "push",
                  "send", "invalidate", "stopped"}
    /\ cur \in MsgId \cup {NoMsg}
    /\ todo \subseteq User
    /\ target \in Conn \cup {NoConn}
    /\ row \in [MsgId -> {"none", "Unsent", "Sent"}]
    /\ main \in {"serve", "cancel", "closed", "exit"}
    /\ cause \in {"none", "nilSender", "closedChannel"}
    /\ starts \in Nat

\* No push ever meets a closed SendBack (a panic, hence the end of the
\* process): server.go sends under the mutex to registered clients only, and
\* close() of client.go leaves the registry, under the mutex, before it closes
\* the channel, whoever calls it and however often.
NoSendOnClosedChannel == cause # "closedChannel"

\* The registry of server.go maps a user to a connection of that user which
\* close() has not taken out yet, so its SendBack is open.
RegistryOwned ==
    \A u \in User : registry[u] # NoConn =>
        /\ owner[registry[u]] = u
        /\ closeStep[registry[u]] \in {"no", "remove"}

\* The client the consumer looked up still has its SendBack open when the
\* message is sent: nobody gets past RemoveClient while the consumer holds k.mutex.
TargetOpen ==
    hubPc = "send" =>
        target \in Conn /\ closeStep[target] \in {"no", "remove"}

\* Only the goroutines of an upgraded connection close it or work on it.
LoopsOfLive ==
    /\ \A c \in Conn : ~IsLive(c) =>
        closeStep[c] = "no" /\ reader[c] = "off" /\ writer[c] = "off"
    /\ \A u \in User : logoutOf[u] # NoConn => IsLive(logoutOf[u])

\* What waits in the topic, and what the consumer and the write loops have in
\* hand, are messages Kafka accepted.
InHandAccepted ==
    /\ \A p \in Partition : log[p] \in Seq(1..Len(accepted))
    /\ hubPc \in {"store", "members", "lock", "push", "send", "invalidate"} =>
        cur \in 1..Len(accepted)
    /\ \A c \in Conn : writer[c] \in {"write", "mark"} => held[c] \in MsgId

\* A group message is between ReadMembers and Invalidate only if its receiver
\* is a group, as the switch on ReceiveId[0] in server.go has it.
MembersOfGroup == hubPc = "members" => accepted[cur].to \in Group

\* The inductive invariant behind the safety theorems of ChatHubProofs.
HubInv ==
    /\ TypeOK
    /\ RegistryOwned
    /\ TargetOpen
    /\ LoopsOfLive
    /\ InHandAccepted
    /\ MembersOfGroup
    /\ NoSendOnClosedChannel

\* Messages c has been given, oldest first: written, in hand, or in SendBack.
Given(c) ==
    written[c] \o (IF writer[c] = "write" THEN <<held[c]>> ELSE <<>>) \o buf[c]

\* A connection is given the messages of one sender in the order in which
\* Kafka accepted them, and none twice: one partition per sender, one consumer
\* and one channel per connection, over relogins and restarts.
InOrderOnce ==
    \A c \in Conn : \A i, j \in DOMAIN Given(c) :
        /\ i < j
        /\ accepted[Given(c)[i]].from = accepted[Given(c)[j]].from
        => Given(c)[i] < Given(c)[j]

\* A user with several connections is given a message on one of them only.
OncePerUser ==
    \A c, d \in Conn : c # d /\ owner[c] = owner[d] =>
        Range(Given(c)) \cap Range(Given(d)) = {}

\* Whom server.go means to reach: calls go to the receiver alone ("two
\* start_call" would show otherwise), the rest also back to the sender.
Audience(m) ==
    CASE accepted[m].kind \in {"Call", "Signal"} -> {accepted[m].to} \cap User
      [] ToGroup(m) -> Roster[accepted[m].to]
      [] OTHER -> {accepted[m].from, accepted[m].to}

\* No connection is given a message its owner is not an addressee of, however
\* the registry changed between the store and the push.
OnlyAudience ==
    \A c \in Conn : \A m \in Range(Given(c)) : owner[c] \in Audience(m)

\* Status Sent (writeLoop of client.go) means that some connection wrote it.
SentWasWritten ==
    \A m \in MsgId : row[m] = "Sent" =>
        \E c \in Conn : m \in Range(written[c])

\* SentWasWritten with what makes it inductive: the UPDATE of writeLoop comes
\* after the write of the message it has in hand.
SentInv ==
    /\ SentWasWritten
    /\ \A c \in Conn : writer[c] = "mark" => held[c] \in Range(written[c])

\* A served connection that nobody closes can be found in the registry, unless
\* another connection of its user was taken out of it after this one had
\* registered: server.go deletes by uuid, so that the late close of an older
\* connection deregisters the newer one.  A connection that was closed before
\* this one registered takes nothing out any more: close() of client.go runs
\* once, whoever calls it later.
FoundUnlessOlderCloses ==
    \A c \in Conn :
        reader[c] = "run" /\ wire[c] = "open" /\ closeStep[c] = "no" =>
            \/ registry[owner[c]] # NoConn
            \/ \E d \in Conn \ outBefore[c] : owner[d] = owner[c] /\ TakenOut(d)

\* "The sender is certainly online": the echo finds the sender's client.
SenderOnline == cause # "nilSender"

-----------------------------------------------------------------------------
(* Liveness, under FairSpec                                                *)

\* The consumer of server.go gets done with every message it has read and
\* comes back for another, unless the process ends.
ConsumerProgress ==
    hubPc \notin {"join", "read", "stopped"} ~> hubPc \in {"read", "stopped"}

\* Both loops of a connection whose peer went away end: no goroutine of
\* client.go is left behind on it.
LoopsEnd ==
    \A c \in Conn :
        wire[c] = "gone" ~> reader[c] = "ended" /\ writer[c] = "ended"

\* What is in SendBack is written, unless the connection is being closed.
BufferedIsWritten ==
    \A c \in Conn, m \in MsgId :
        m \in Range(buf[c]) ~> m \in Range(written[c]) \/ closeStep[c] # "no"

\* A message waiting in the topic of a joined consumer gets its row, unless
\* the process is told to stop or ends.
BacklogStored ==
    \A m \in MsgId :
        /\ \E p \in Partition : m \in Range(log[p])
        /\ hubPc \notin {"join", "stopped"} /\ accepted[m].kind # "Signal"
        ~> row[m] # "none" \/ main # "serve"

\* "Offsets are recorded, for recovery": a message that waits in the topic
\* when the process dies is consumed, and stored, by the next one.
RecoveredAfterRestart ==
    \A m \in MsgId :
        /\ \E p \in Partition : m \in Range(log[p])
        /\ hubPc \notin {"join", "stopped"} /\ accepted[m].kind # "Signal"
        ~> row[m] # "none"

\* "All resources are released, the program exits": after SIGTERM the consumer
\* returns, wg.Wait of main.go with it, and the process ends.
ShutdownCompletes == main = "cancel" ~> main = "exit"

=============================================================================
