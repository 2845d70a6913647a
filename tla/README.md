# go-chat-server: TLA+ models, model checking and proofs

This directory verifies the server side of the chat system in `src/`: a Go
server that accepts websocket connections, passes every chat message through a
Kafka topic to one consumer, stores it with GORM and fans it out to the
connections of its addressees, and a set of HTTP services for users, contacts,
groups, sessions and message history, with redis caches beside the database.

`PROJECT.json` lists the components, the runs, the source lines behind every
definition (`map`), the findings, the hazards and the theorems.

    tlc -config hub_close.cfg MCChatHub.tla      # any run: its .cfg and its module
    tlapm HubDeliveryProofs.tla                  # any module of proofs

| Module | About | Proofs | Runs (module `MC...`) |
|---|---|---|---|
| `ChatHub` | connections, consumer, topic, process | `ChatHubProofs` | `hub_close`, `hub_live`, `finding_sender`, `finding_recovery`, `finding_shutdown` |
| `Delivery`, `HubDelivery` | what the hub promises about messages, and that `ChatHub` implements it | `DeliveryProofs`, `HubDeliveryProofs` | `hub_order` |
| `GroupMembership` | groups, members, the stored count, their keys | `GroupProofs` | `finding_count` |
| `AtomicGroups`, `GroupAtomicity` | what requests about groups promise, and that `GroupMembership` implements it | `GroupProofs` | `group_race` |
| `GroupRaces` | which races and failures leave a wrong key of a group in redis | `GroupProofs` | `group_race` |
| `GroupHistory` | messages of groups: the consumer beside `GroupMembership` and the readers of the history | `HistoryProofs` | `group_history` |
| `Contacts` | contacts, applications and sessions between users | `ContactProofs`, `SerialProofs` | `finding_blocked` |
| `Friendship`, `ContactFriendship` | what requests about contacts promise when they come one at a time, and that `Contacts` implements it | `SerialProofs` | `contacts` |
| `Accounts` | users and the two keys that show them | `AccountProofs` | `accounts` |

## 1. Inventory

| Component | Source (`src/internal/...`) | State | Operations |
|---|---|---|---|
| Chat hub | `service/chat/client.go`, `service/chat/server.go` | `Clients` (uuid → client) and its mutex; per client `Conn`, `SendBack` (capacity 100), `closeOnce`; two goroutines per client; one consumer | `NewClientInit`, `readLoop`, `writeLoop`, `close`, `ClientLogout`, `Start`, `AddClient`, `RemoveClient`, `GetClient` |
| Chat topic | `service/kafka/kafka_service.go` | the topic, its partitions, the group's offsets | `init` (recreate, reader, writer), `Close` |
| Process life | `cmd/main.go` | root context, wait group | start, SIGTERM, ordered shutdown |
| Sessions | `service/gorm/session_service.go` | table `session`; keys `session_…`, `session_list_…`, `group_session_list_…` | open, check, create, list, delete |
| Contacts and applications | `service/gorm/user_contact_service.go` | tables `user_contact`, `contact_apply`; keys `contact_user_list_…`, `contact_info_…` | apply, pass, refuse, black, cancel black, delete, lists |
| Groups and membership | `service/gorm/group_info_service.go` | tables `group_info` (with a member count), `group_member`; keys `group_info_…`, `group_memberlist_…`, `my_joined_group_list_…`, … | create, enter, leave, dismiss, remove members, update, set status, delete |
| Users | `service/gorm/user_info_service.go` | table `user_info`; keys `user_info_…`, `contact_info_…` | register, login, update, enable, disable, delete, set admin |
| Message history and uploads | `service/gorm/message_service.go` | table `message`; key `group_messagelist_…`; files | lists, uploads |
| Redis access | `service/redis` | none of its own | get, set, delete by key, by pattern, by prefix |
| Database, HTTP, configuration, logging, models, web client | `dao`, `https_server`, `src/api`, `config`, `src/pkg`, `model`, `dto`, `src/web` | none that lasts | wiring; the web client determines which requests are legal |

**How they interact.** A browser logs in over HTTP and upgrades to a websocket
(`ws_controller.go` → `NewClientInit`): the client is put in the registry and
its two goroutines start. `readLoop` writes each frame to the topic, keyed by
the client's uuid, and waits for the acknowledgement. The consumer reads the
topic, inserts the row, takes the registry mutex, sends to the `SendBack`
channel of each addressee, and releases the mutex. `writeLoop` writes what is in
`SendBack` to the socket and marks the row Sent. Every failure of either loop,
and the HTTP logout, go through `close`: leave the registry (under the mutex),
close the socket, close the channel. The services share the database and the
redis keys with the hub: the consumer reads `group_member`, which the group
service changes, and drops `group_messagelist_…`, which the message service
fills; deleting users or groups touches contacts, sessions, memberships and the
keys of all of them.

**What is hard.** The hub: goroutines that share a registry under a mutex which
one of them holds across blocking sends; close called from three sides; a
lookup whose result outlives a trip through Kafka and the database; a shutdown
that waits for a goroutine that may be blocked; a restart that recreates the
topic. The services: check-then-act without locks or unique keys, reads in one
snapshot written back in full in another transaction, caches filled after and
dropped before a concurrent commit, transactions left open on an error path.

**What makes each component correct.**

* Hub: a push never meets a closed channel; the registry holds connections of
  the right user, and every served one; each connection gets the messages meant
  for its user, in each sender's order, once; Sent means written; the
  consumer gets done with every message, the loops of a lost connection end, a
  shutdown ends the process.
* Topic: order per sender; what was accepted is consumed, also after a restart.
* Sessions: one session per pair; none with a blocked contact or a disabled
  user; a deleted one is not opened again.
* Contacts: a relation exists in both directions or in neither, once, with
  statuses that match; an application that was agreed to is between contacts; a
  black-listed one stays so; the cached list shows the contacts.
* Groups: the stored count is the number of members; the owner is a member; a
  dismissed group stays dismissed and empty; contacts agree with memberships;
  redis shows what the tables hold once requests are done.
* Users: what redis shows of a user is his row; only the administrator changes
  his status; one registration of a telephone wins.
* History: a cached list contains what was stored before it was read; a message
  goes to those who are members when it is sent.

The hazards in `PROJECT.json` say, line by line, where these can go wrong, and
which property covers each.

## 2. How the project is built

The hub, the topic and the process are one module, since the hazards are between
them. What they promise together is stated once more without them, in
`Delivery`, and `HubDelivery` shows that `ChatHub` implements it: order, one
copy per user and the audience are then proved about nine simple actions and
carried over to the hub. In the same way `AtomicGroups` states what a caller of the
group service may rely on, and `GroupAtomicity` shows that its transactions
give him that; and `Friendship` states what users get from the requests about
contacts, which `ContactFriendship` shows for histories in which these come one at a
time.

The services are one module per set of tables that one transaction writes:
`GroupMembership` (groups, members, the contacts and applications of groups),
`Contacts` (the user half of the same tables, and sessions), `Accounts` (users
and the keys that show them). Deleting users concerns all three, and each has the
part about its tables. `GroupHistory` composes the consumer's path for group
messages and the history's readers with `GroupMembership`, which it extends: every
step of a request about groups is a step of it, along with the messages that step
deletes.

All service models share one view of a request: it is *called*, *reads*, perhaps
*locks*, *commits*, and does its *redis* steps one by one; anything of any
other request may come between two of these. The writes of a transaction become
visible in one step, at its commit. A read error of redis is treated by the code as
a miss, so every lookup may miss although the key is there.

Each module states its inductive invariant (`HubInv`, `GroupInv`, `HistoryInv`,
`ContactInv`, `AccountInv`), which TLC checks on the instance of a run and the prover
shows for all constants. Those that only strengthen single properties of a run
(`SentInv`, `TidyInv`, `CoherentInv`, `RaceInv`, `ReadersTrue`, `SerialInv`,
`OtherEnds`, `DeliveryInv`) are left to the prover. Where the code does not keep a property in every
interleaving, the module says under which condition it does, by a ghost variable
(`raced`, `stale`, `clean`, `late`, `doubt`) or a constant (`Alone`), instead of dropping the
interleaving, and a finding shows the case that is left out where a line of the
repository promises it. `stale`, `late` and `doubt` end with the next put, drop or expiry
of the key. `raced` and `clean` do not end: the properties that have them are about
histories without overlapping writers so far, and section 6 and 7 say so. Three records
of what happened (`outBefore`, `stranded`, `purged`) serve to say *since when* something is
excused: a connection that was out of the registry before another one registered, or
messages taken after a deletion, excuse nothing.

## 3. ChatHub

### State and code

| Variable | Code |
|---|---|
| `owner[c]` | `Client.Uuid`; `NoUser` for a connection not yet accepted. A closed connection keeps its owner |
| `outBefore[c]` | record, no code: which connections were out of the registry already, closed in order or with an earlier process, when `c` registered |
| `wire[c]` | whether the peer is still there |
| `closeStep[c]` | progress of the `closeOnce` body: `no`, then `remove` (before `RemoveClient`), `conn` (before `Conn.Close`), `chan` (before `close(SendBack)`), `done` |
| `reader[c]`, `writer[c]` | program counters of `readLoop` and `writeLoop` |
| `buf[c]`, `held[c]` | `SendBack`, and the message `writeLoop` has taken from it |
| `written[c]` | frames on the wire; never shrinks, so a property can compare with it |
| `logoutOf[u]` | the client that the HTTP logout of `u` has looked up |
| `registry` | `KafkaServer.Clients`; `NoConn` is a missing key, hence a nil `*Client` |
| `accepted` | every message Kafka acknowledged; a message is its index |
| `log[p]` | what the consumer has not read of partition `p` |
| `hubPc`, `cur`, `todo`, `target` | the consumer: where it is, its message, whom it still has to push to, and the client it is sending to |
| `row` | `Message.Status`, `none` while there is no row |
| `main`, `cause`, `starts` | `cmd/main.go`, the panic that ended the process, how often it was started |

Goroutines interleave between any two steps that touch shared state or block.
The consumer holds the mutex from `Lock` to `Unlock`, over `SkipOffline`,
`Lookup` and the blocking `Send`; everyone else (`AddClient`, `RemoveClient`,
`GetClient`) takes and releases it in one step, so `MutexFree` is a guard and no
variable is needed for the lock.

* **Connections.** `Connect` is `NewClientInit` up to `AddClient`, which
  overwrites; `StartLoops` is the rest. `EnterClose` is the call of `close` by
  `readLoop`, `writeLoop` or a logout: the first starts the Once body
  (`CloseRemove`, `CloseConn`, `CloseChan`), the others wait until it is done
  (`ReaderReturn`, `WriterReturn`, `LogoutReturn`), as `sync.Once` has it.
  `RemoveClient` deletes by uuid, whoever is registered under it.
* **Loops.** `Publish` is a frame read and acknowledged by Kafka. Reads fail once
  the peer is gone or the socket is closed, though frames that had arrived may
  still be read; writes may succeed for a while after the peer left.
  `writeLoop` returns at a failed write, leaving the rest of its channel.
* **Consumer.** One action per stage: the row (`StoreText`, `StoreFile`,
  `StoreAudioOrVideo`), the members of a group (`ReadMembers`), the lock, then
  the receiver and the echo to the sender (`InTurn`), or the members in any
  order. A missing receiver is skipped; the sender's client is used without
  looking, and a nil one is a panic. `Panic` ends the process because the deferred
  `recover` logs with `zlog.Fatal`.
* **Process.** `Quit` (SIGTERM), `CloseKafka` after the consumer returned,
  `Exit`; `Kill` at any moment; `Restart` recreates the topic and `Join` starts at
  its end (`LastOffset`).

### Abstractions

A message is its sender, addressee and kind. Inputs are what the web client
sends: `send_id` is the connection's owner, nobody writes to himself, ids start
with `U` or `G`. Left out: the welcome and farewell frames (written directly to
the socket, their failures are only logged), the avatar path helper, frames that
are not JSON or that Kafka refuses (dropped with a log line), the voice type
(no branch of `Start` handles it). `Text` and `File` follow the same control and
are both kept because their code is written twice. A `Call` is an AudioOrVideo
message whose type is stored, a `Signal` one that is not; neither is pushed when
sent to a group. The roster of a group is a constant here; `GroupHistory` has it
change. A failed read of the members yields none. The order in which the members
of a group come from the database is arbitrary.

### Bounds

`MaxMsg` (messages Kafka accepts) and `MaxStarts` (starts of the process) are
guards of the model; the last process of a behaviour is not killed, so that
liveness under restart is about a process that is given time. `Conn`
bounds the connections ever accepted, `ChannelSize` stands for 100. Each run
names the environment events it allows (`Env`). Two connections are what it takes
for every hazard listed: sender and receiver, or an older and a newer connection
of one user. One or two messages and a capacity of one or two reach the full
channel, the reordering and the message left behind. Deadlock is not
checked: once the inputs are used up, a hub with nothing to do waits, and a
process that exited stays so.

### Fairness

`FairSpec` assumes that each goroutine which can run does, one weak fairness
per goroutine: every loop, every Once body, every logout, the consumer and
`main`. Nothing is assumed of users, peers, signals or failures. Two assumptions
are hidden in it. A blocked `Lock` gets the mutex eventually (the Go mutex
hands over to a waiter after a millisecond; with finitely many messages the
consumer also frees it for good). A write to a socket returns: there is no
write deadline in the code, so this needs a peer that reads or a connection that
is reset. `FairRestartSpec` adds a supervisor that starts the process again.
`ConnectedSpec` is `FairSpec` from the state in which the consumer has joined and
two users are connected, which `Init` leads to; it spares `hub_live` the logins.

### Runs

| Run | Instance | Checks | Shows |
|---|---|---|---|
| `hub_close` | 2 users, 2 connections, a group, 1 message: file, call or signal; relogin, logout, lost peers, failing database, SIGTERM | `HubInv`, `NoSendOnClosedChannel`, `SentWasWritten`, `FoundUnlessOlderCloses` | The inductive invariant of the proofs holds; a row is Sent only if its message was written, also when updates fail; a served user is found unless another connection of his was taken out of the registry after this one had registered; one that was out before (`outBefore`) is no excuse |
| `hub_order` | 2 starts of the process, 2 messages (text, call), 2 connections, 2 partitions, room for 2, a group; relogin, lost peers, kill | `ImplementsDelivery`, `InOrderOnce`, `OncePerUser`, `OnlyAudience` | The hub implements `Delivery`. Order per sender; nothing twice, not on two connections of a user nor after a restart; calls are not echoed |
| `hub_live` | 2 connected users, 2 texts, room for both; lost peers | `LoopsEnd`, `ConsumerProgress`, `BufferedIsWritten`, `BacklogStored` | No goroutine is left on a lost connection, the consumer gets done with each message, what is buffered is written, what waits is stored |
| `finding_*` | see section 8 | one property each | a counterexample |

The largest is `hub_close`, 4.9 million distinct states; `hub_order` has 3.5 million.
`hub_live` takes a capacity no smaller than `MaxMsg`, that is, fewer pending messages than
`CHANNEL_SIZE`: with a full channel its properties fail, which is
`finding_shutdown`. Symmetry is used in safety runs only: connections are
interchangeable, and users, along with their partitions in `hub_order`.

## 4. Delivery: what the hub promises

`Delivery` knows users, screens and messages. A message is accepted, waits, is
taken (the oldest of its sender first), perhaps stored, addressed to some of its
addressees, put into the queue of one screen of each or of none, and shown from
there. It may be lost: while it waits, when the topic is recreated; in a queue,
when the screen fails; under way, when the process ends. It is never repeated,
reordered or misdirected: `Ordered`, `Once`, `Directed`.

`HubDelivery` maps the state of `ChatHub` to it:

| `Delivery` | `ChatHub` |
|---|---|
| `Screen`, `owner`, `shown` | `Conn`, `owner`, `written` |
| `waiting` | what any partition holds |
| `phase`, `current` | from `hubPc`: `taken` at `store` and `members`, `addressed` from `lock` to `invalidate`; `cur` |
| `left` | `todo`, and while the consumer is in `send` the owner of its target |
| `stored` | the messages with a row |
| `queue[c]` | the message `writeLoop` holds until it is written, then `SendBack` |

| Step of `ChatHub` | Step of `Delivery` |
|---|---|
| `Connect` | `Open` |
| `Publish` | `Accept` |
| `ReadMessage` | `Take` |
| `StoreText`, `StoreFile`, `StoreAudioOrVideo`, `ReadMembers` | `Prepare` |
| `SkipOffline`, `Send` | `Skip`, `Deliver` |
| `Lookup` | stutter; `Stop` if it panics |
| `Unlock`, `Invalidate` | `Finish`, or stutter before the key is dropped |
| `WriterSend`, `WriterError` | `Show`, `Lose` |
| `Kill`, `Exit` | `Stop` |
| `Join`, `Restart` | `Forget` |
| all others: `StartLoops`, closing, `WriterTake`, `WriterMark`, logouts, signals | stutter |

## 5. Groups: GroupMembership, AtomicGroups, GroupRaces and GroupHistory

### State and code of GroupMembership

| Variable | Code |
|---|---|
| `group[g]` | the row of `group_info`: `state` is `none` (no row), `live`, or `dead` (`deleted_at` set); `owner`, `cnt` (`member_cnt`), `status` |
| `member[g]` | the rows of `group_member`, whose primary key is (group, user) |
| `contact[g][u]` | how many rows of `user_contact` user `u` has for the group: the table has no key that limits it |
| `applied[g]` | who has a row in `contact_apply` for the group |
| `deleted` | soft-deleted users; `Revive` takes a user out again |
| `stranded[g]` | record, no code: members whose account was deleted by a `DeleteUsers` that had not listed `g`, so that they stayed |
| `lock[g]` | the request whose transaction holds the row of the group |
| `info`, `card`, `list` | redis: `group_info_`, `contact_info_`, `group_memberlist_`; a key that is not there is not in the domain |
| `tx[p]` | a request: where it is, what it is about, the rows and members it has read, the redis steps it still has to do |
| `calls` | requests made, bounded by `MaxCalls` |

A request is *called*, *reads* (where it reads before it locks), *locks*,
*commits* and does its *redis* steps one by one.

* `LockGroup` is `SELECT ... FOR UPDATE` with the checks after it: it waits for
  the row, finds it if it is live, and keeps it in `tx[p].row`. A check that
  fails is `Refuse`: the rollback and the reply.
* `LeaveCommit`, `RemoveCommit`, `EnterCommit`, `PassCommit`, `DissolveCommit`
  are everything from there to the commit, and save the row **as it was read**
  with its count changed, as `tx.Save(&group)` does.
* `PassRead` fixes the snapshot in which `PassContactApply` later counts the
  members: its first statement reads the application without a lock. `Insert`
  has the primary key of `group_member` refuse whom the snapshot did not show.
  `EnterGroupDirectly` locks first, so its count is of the latest state.
* `UpdateRead` and `UpdateCommit` have no lock between them. `Save` of a row that
  has been soft-deleted meanwhile updates nothing and falls back to an upsert, so
  the commit writes `deleted_at` too.
* `DeleteUsersRead` is the snapshot of a user's groups, `DeleteUsersLock` the lock
  of one of them, joined ones first, and `DeleteUsersCommit` the commit: the
  groups he owns are buried, in the others he is counted out if he is still
  there.
* `Revive` is a deleted user who registers again with his telephone, or whose
  `UpdateUserInfo` saves a row it read before the deletion: the same uuid has an
  account again, and nothing of what the deletion took with it.
* `PutInfo`, `PutCard`, `PutList`, `DropKeys` are the redis steps after a commit,
  or after a miss in `GetGroupInfo` and `GetGroupMemberList`. The latter makes three
  queries, each with a snapshot of its own: the group (`GetGroupMemberList`), its
  members (`QueryMembers`), those of them who have an account (`ReadNames`). A
  dismissal between the first two has it put an empty list for a group that is
  gone. `Expire` is the time to live of a key.
* `Rollback` is a failing statement, a lock wait that times out, a deadlock
  victim or a panic; `Crash` the death of the process after the commit;
  `RedisFails` an error of redis, which is only logged.
* `Alone` names the operations that are not called beside another request;
  with `Alone = {}` every two requests may overlap.

### AtomicGroups: what the operations promise

`AtomicGroups` has groups, members, applicants, users and requests, and neither
transactions nor locks nor caches. A request is invoked, has its effect in one
step, with its checks true of the groups in that very state, and ends; it may also
end without an effect. Deleting a user is the exception the code makes:
it *lists* the groups he is in and later leaves exactly those, if all of them are still
there, so that he stays in one he enters in between. A deleted user may register
again (`Revive`) and is the same user.

`GroupAtomicity` maps `GroupMembership` to it. The view of a group is its row
without the count, which `CountMatches` is about; a request is `called` until its
commit, and `done` from there to its answer; a deletion is `listed` once it has its
snapshot. Commits, and the reads that miss the caches, are effects; locks, snapshots
and redis steps stutter; refusals, rollbacks, crashes and answers are `End`.

### GroupRaces: when redis is wrong

Redis is written after the commit and without the row lock, so no key of a group is
certain to be true while other requests run. `GroupRaces` records why one may not be,
without changing or preventing a step:

* `late`: what `p` is about to put has been overtaken by a commit of another request, or
  by a user who registers again, since `p` committed or read it (`Outdates`: for a list,
  which is read by three queries, what the queries already made have read);
* `doubt`: the key was put by someone late; or its last put or drop was lost, with a
  redis error or with the process; or it is a list, and a member was deleted who stays
  in the group because his deletion did not know of it (`Missed`); or it is a list and
  such a member registers again (`Revive`).

A later put that is not late, a drop, or the expiry of the key ends the doubt.
`TrueUnlessRaced` says that there is no other way: once all requests are served, a
key that is not in doubt shows what the tables hold. Hence a forgotten drop, or one
placed so that it misses a key, is not excused by concurrency.

### State and code of GroupHistory

| Variable | Code |
|---|---|
| `message` | the rows of table `message` that are sent to groups: id, group, sender, and whether it is a call (`Sent`) |
| `history` | redis `group_messagelist_`: the messages a cached list has |
| `hub` | the consumer and the message it is at: after the INSERT (`stored`), after it has read the members (`push`) |
| `fetch[r]` | a request of `GetGroupMessageList` between its query and its SET |
| `taken` | messages the consumer took, bounded by `MaxMsg` |
| `purged[u]` | record: how many messages had been taken when those of `u` were last deleted with his account |
| `stale` | ghost: groups whose key was written by a reader that had read before the last message, or was not dropped because redis failed |

`Store`, `ReadMembers` and `Invalidate` are the three accesses of the consumer to
the database and to redis; the push to those online, between the last two, is
`ChatHub`'s. `StoreCall` is the branch for calls: one to a group is stored (its start
and its answers; other signals are not) and nothing else happens, so the key
`group_messagelist_` stays and a list cached before the call misses it. No line
promises otherwise, but `HistoryComplete` can only be claimed of texts and files
(`Written`). `FetchRead` and `FetchPut` are the two halves of a miss. `GroupStep` is
a step of `GroupMembership`, with the messages that dismissing a group or
deleting a user deletes, at the commit (`DeletedBy`). Those stay in the cached lists:
no request about groups drops the key. `HistoryTrue` says how far that can be seen:
the deleted messages in a list of a group that goes on are those of users whose account
was deleted, from before that (`purged`), and they stay in it when the user registers
again; the list of a dismissed group is still served until it expires. The comment at `server.go:187` and `:296`
admits the race that `stale` marks ("写回可能不同步"). A crash of the consumer before
it drops the key leaves what a failed drop leaves.

### Abstractions

The writes of a transaction become visible in one step, at its commit; nobody can
see them before (REPEATABLE READ), and whoever needs the row waits for it. Only
locks on rows of `group_info` are kept: rows of the other tables are written
under them, except by `DeleteUsers`, whose commit writes contacts and
applications of other groups in one step, and by `ApplyContact`. Gap locks can only
make requests wait or roll back, which `Rollback` allows at any time. Names,
notices, avatars and the mode of joining are left out, as are the lists of a
user's groups and the sessions with groups. A user is a
legal caller while he has an account, and group ids are those of groups that
existed. `RemoveGroupMembers` is called with the owner's id as `owner_id`, as the
web client does. The administrator's calls take one group or one user each.

### Bounds and runs

| Run | Instance | Checks | Shows |
|---|---|---|---|
| `group_race` | 2 users, 1 group, 2 requests at a time, 4 in all; every operation, `Alone = {"update"}`; rollbacks, crashes, redis errors, keys that expire; `RaceSpec`, which records races | `GroupInv`, `CountMatches`, `OwnerIsMember`, `DismissedEmpty`, `ContactsMatch`, `DismissedStays`, `ImplementsAtomicGroups`, `TrueUnlessRaced` | Races of any two operations but `UpdateGroupInfo` leave the tables in agreement; each request has its effect at one instant; a wrong key is the work of a named race, failure or deletion |
| `group_history` | 2 users, 1 group, 1 request about groups at a time, 4 in all, which may be rolled back; beside them the consumer with 1 message and 1 reader of the history; keys expire | `CacheCoherent`, `HistoryInv`, `HistoryComplete`, `HistoryTrue`, `FanOut` | Each operation drops or rewrites every key it makes stale; a cached history misses no text or file unless its reader was late or the drop failed; what it shows beyond the table was deleted with its sender's account, or its group is gone; a message goes to members of the time between its row and the read of the members |
| `finding_count` | create, enter, update; `Alone = {}`; 2 at a time, 3 in all | `CountMatches` | a counterexample |

One call creates the group, one may bring in the second user, and two race: that
is what `MaxCalls = 4` is for. One group is enough: requests on different
groups share neither a row nor a key, except for `DeleteUsers`, which treats each
of the user's groups alike; for races of deletions that lock several, and for the keys they drop, there
are the proofs, for any number. The same goes for the single message of
`group_history`: the proofs are for any number of messages, groups and readers.
`CacheCoherent` is about requests served one after the other; for two at a time there
is `TrueUnlessRaced`. `group_race` has 1.1 million distinct states, `group_history`
3.8 million. Users, groups and requests are interchangeable. Deadlock
is not checked: calls run out, and a request that waits for a row held by another
one that waits is ended by `Rollback` only where the run has it.

## 6. Contacts: Contacts and Friendship

### State and code

| Variable | Code |
|---|---|
| `status[u]` | `user_info.status`; `deleted` for a user whose row is |
| `contact` | table `user_contact` between users; a row is its place, which is its id |
| `apply`, `session` | tables `contact_apply` and `session` between users; `live` is no `deleted_at` |
| `friends` | redis `contact_user_list_`: whom a cached list shows |
| `chats`, `opened` | redis `session_list_` and `session_<send>_<receive>` |
| `tx[p]` | a request of `a` about `b`: where it is, the rows `i`, `j` and the list `got` it has read, the redis steps left |
| `clean` | ghost: so far one request at a time, no crash, and no relation overlooked because the query for it failed |

No table has a unique key over its two users and no request takes a lock before
it decides. `ApplyRead`, `PassRead`, `AnswerRead` and `CancelRead` are the reads and
checks of `ApplyContact`, `PassContactApply`, `RefuseContactApply` with
`BlackApply`, and `CancelBlackContact`; the corresponding commits save the rows
that were read, all columns, and so revive a row that was buried meanwhile.
`PassBlind` is the pass whose query for an existing contact fails: only a relation
that is found rolls it back, any error is taken for "not found", and it goes on to
insert a second one; the history is not `clean` from there. `Revive` is a deleted user
who registers again under the same uuid, or whom a stale save of `UpdateUserInfo`
brings back.
`DeleteContact`, `BlackContact`, `DisableUsers` and `DeleteUsers` change whatever
rows match when they run. `PassCommit` appends both directions of a relation
together: the ids of rows that concurrent passes insert interleave, but the
n-th of the rows from one to the other are of the same pass as the n-th of the
rows back, so numbering them pairwise loses nothing. `GetUserList` fills the list
of contacts. A session is opened from a contact (`chat`: `CheckContact`,
`CheckUser`, then `OpenSession`) or from the list of sessions (`resume`: `ListHit`
or `ListMiss` and `CacheList`, then `OpenSession`, without a check, as the web
client does it). `FindSession` has the query that fails fall through with an empty
session, as the code does; `CreateRead` and `CreateSession` are the new session.
`First` orders by primary key: the oldest row of `user_contact`, any row of the
tables with random keys.

Requests come from what a user's client may still show: contacts,
applications and sessions that are or were there. Initially two users are
strangers, or contacts by an application. Names, messages of applications and
unread counts are left out; so are applications and sessions with groups (the
former are in `GroupMembership`).

### Friendship: what the requests promise

`Friendship` has accounts, for each two users at most one relation, one application
each way and one session each way, and the request that is served, and neither tables
nor soft deletion nor redis. A request begins, has its effect in one step, once, if the
conditions it was to check hold *in that very state*, and ends; it may also end without
an effect. What the code does not look at is not a condition there either: `Agree` asks
for an application, in whatever state; `Block` may be of someone who blocks already;
`Open` says nothing of the relation, because a session of a list is opened without a
look at it.

`ContactFriendship` maps `Contacts` to it: a relation or an application is the set of
the states of the live rows of its two users, so two live rows of different states,
or a row revived beside another, would not be one of `Friendship`. A request is `done`
from its commit on, or once it has found a list or a session. Reads before a commit,
redis steps and expiring keys stutter, and refusals, rollbacks and answers are `End`.
`ImplementsFriendship` demands this of the steps of `clean` histories; with two
requests at once it fails, by two passes that both insert the relation, and with one at
a time by a pass that does not see the relation because its query fails.

### Bounds and runs

| Run | Instance | Checks | Shows |
|---|---|---|---|
| `contacts` | 2 users, 2 requests at a time, 4 in all, all fourteen operations; rollbacks, crashes, keys that expire | `ContactInv`, `MirroredContacts`, `AgreedAreContacts`, `OncePerPair`, `NoSessionOfDisabled`, `FriendsFresh`, `BlockHolds`, `ImplementsFriendship` | Relations stay mirrored and agreed applications between contacts, in every interleaving. While requests come one at a time and no query for a relation fails: one relation, one application each way and one session per pair, no session of a disabled user, a fresh list, a block that who is only blocked cannot lift, and each request does to its users what `Friendship` says, once, or nothing |
| `finding_blocked` | 1 request at a time: black, chat, resume | `BlockedCannotOpen` | a counterexample |

Two users are all that a relation, an application or a session is about; four
requests are apply, pass and two more, or, from two contacts, four. `OncePerPair`
is stated for `clean` histories because two passes, or two openings, at once do
insert twice, and so does `PassBlind`: nothing in the tables prevents it, and no line
says otherwise. `MirroredContacts` and `AgreedAreContacts` hold in all histories.
`BlockHolds` allows what `BlackContact` does when the blocked one blocks back: the
two rows swap their roles, and he may then cancel. In other histories a cancellation
that has read the block before that frees both without being allowed to.

## 7. Accounts

### State and code

| Variable | Code |
|---|---|
| `row[u]` | the row of `user_info` with telephone `u`, deleted or not: the telephone is unique over both and a registration revives a deleted row |
| `info`, `card` | redis `user_info_` and `contact_info_` |
| `tx[p]` | a request: where it is, the row it has read and later wrote, the redis steps left |
| `raced` | ghost: users whose row changed while another request held what it had read of it, or a write to whose keys was lost |

`Lookup` is the GET of `GetUserInfo` and `GetContactInfo`; `Login`, `GetUserInfo`
and `GetContactInfo` read the row and fill the keys. `RegisterRead` and `Register`
are the query and the insert, which the unique index may refuse, or the revival of
the deleted row as it was read. `UpdateRead` and `UpdateUserInfo` have no lock
between them, and `tx.Save` writes every column: on a row deleted meanwhile it
updates nothing, falls back to an upsert, and the user is back. `Decide` is the
one statement of `AbleUsers`, `DisableUsers`, `SetAdmin` and `DeleteUsers` about this
table. `RedisFails` goes on with the next key, except in `Login`, which returns.

A profile is one name. Passwords are known by the call that set them, hashes and
tokens are left out, `Rollback` includes the wrong password.

### Bounds and run

`accounts`: 1 telephone, 2 requests at a time, 2 names, 5 requests in all, every
operation; rollbacks, crashes, redis errors, keys that expire. It checks
`AccountInv` with `InfoFresh` and `CardFresh` (unless writers of a user overlapped
or a write to redis was lost, the keys show his row, however many readers come and
fail), `DecisionsHold` and `OneRegistration`. Users share no
row and no key, so one is enough. Five requests are a registration, three that set
up a state, and one beside the last.

Whether a disabled user is in the cache at all is not among the properties: `Login`
puts his card there whatever his status, against the comment at
`user_info_service.go:627` (section 8). `CardFresh` says that the card shows his name.

## 8. Findings

* **`finding_sender`** (`SenderOnline`). `server.go` says the sender of a
  message is certainly online (line 246) and uses his client unchecked. His
  connection may close after Kafka has the message: the nil client panics, and
  `zlog.Fatal` in the deferred `recover` ends the process. What a send to a
  registered client on its way out does is fine; only the missing check hurts.
* **`finding_recovery`** (`RecoveredAfterRestart`). The comment on the consumer
  group says offsets are kept for recovery; `init` deletes the topic, so what
  was accepted and not consumed is lost, even under a supervisor.
* **`finding_shutdown`** (`ShutdownCompletes`). Once a `SendBack` is full (100
  messages for a peer that reads slowly; one in the run) and the peer's
  connection fails, its `writeLoop` goes to `RemoveClient` and waits for the
  mutex the consumer holds while it waits for room in that channel. Nobody can
  log in, log out or receive any more, and `wg.Wait` of `main` does not return.
* **`finding_count`** (`CountMatches`). `UpdateGroupInfo` reads the group without
  a lock and saves every column. A member who enters between the two is not in
  the count that is stored; in the same way a member who left is counted again,
  a disabled group is enabled, and a dismissed one is back without members.
* **`finding_blocked`** (`BlockedCannotOpen`). `user_contact_service.go:34` says
  that a session with a contact who blocks cannot be opened. `BlackContact` deletes
  the sessions and leaves the keys that show them; a session of the cached
  list is opened after the block, because `OpenSession` looks at the key first
  and never at the relation.

Two more lines are contradicted by straight-line code, which the models have and for
which there is no run:

* `server.go:140` says that a message is echoed to its sender to make sure that it is
  stored. An error of the INSERT is only logged (108-110, `Create`): the message is pushed
  and echoed all the same, and no row exists. So no property claims that what is shown
  was stored.
* `user_info_service.go:627` says that enabling a user need not drop `contact_info_`, as
  disabled users are not in the cache. `Login` looks at no status and puts the card of a
  disabled user there (line 79): register, disable, log in. `GetContactInfo` then serves
  it until it expires (`user_contact_service.go:121-126`), and refuses the same user when
  the key is missing (189-192).

What holds beside them: `MemberCount`, for all operations but `UpdateGroupInfo`
beside another; `FoundUnlessOlderCloses`, by which only the late close of another
connection of his, which deletes the newer one's entry by uuid, makes an online user
unreachable.

## 9. Proofs

Every theorem is for all values of the constants: any number of users, groups,
connections, concurrent requests and messages, under every failure of the module,
and whatever the bounds. The only assumptions are the named ones of the modules
(ids of users and groups are disjoint, the absent values are not among the others,
capacities are positive, operations are known ones), which TLC evaluates, and the
premises given here.

### ChatHub

| Theorem | States |
|---|---|
| `Invariance` | `HubInv` is an invariant |
| `TypeCorrect` | `TypeOK`, in particular no `SendBack` beyond its capacity |
| `ChannelSafety` | `NoSendOnClosedChannel`: no push panics on a closed channel |
| `SentInvariance`, `SentSafety` | `SentInv`, and from it `SentWasWritten` |
| `Found` | `FoundUnlessOlderCloses` |

`NoSendOnClosedChannel` is not inductive: whether `Send` panics
depends on the target. `TargetOpen` says the target has not got past
`RemoveClient`. It is preserved because `CloseRemove` needs the mutex while the
consumer is in `send`, and established by `Lookup` because `RegistryOwned` says
that a registered connection has not got past `RemoveClient` either. That in turn
needs the entry of `u` to be a connection of `u` (so that the removal by uuid
removes at least the closing client's own entry, if it is still there) and
`Connect` to register a connection nobody has closed, which is
`LoopsOfLive`. `InHandAccepted` and `MembersOfGroup` keep the message in hand
well defined. Their conjunction `HubInv` is inductive; `ConnInv`, `LogoutInv`,
`ConsumerInv`, `EnvironmentInv` and `MainInv` prove the step, one case per
action, `ExitInv` the exits shared by panics, kills and shutdown. `SentWasWritten` is
strengthened to `SentInv` (a loop about to mark has written what it holds)
and rests on `WriteGrows`. `FoundUnlessOlderCloses` is strengthened to `FoundInv`,
which is about every connection nobody closes, served or not, with `BeforeInv`: what was
out when a connection registered stays out, because the Once body is not run again. A
removal (`RemoveFound`) is then by a connection that was not in `outBefore` of those
that it deregisters.

### Delivery and its implementation

| Theorem | States |
|---|---|
| `Delivered` (`DeliveryProofs`) | `Ordered`, `Once`, `Directed` of the abstract delivery |
| `Tidiness` (`HubDeliveryProofs`) | `TidyInv` |
| `Implements` | `ImplementsDelivery`: every behaviour of `ChatHub` is one of `Delivery` |
| `Order`, `OneCopy`, `AudienceOnly` | `InOrderOnce`, `OncePerUser`, `OnlyAudience` of the hub |

`Ordered` is not inductive: that a message may be put at the end of a queue needs
that nothing later of its sender has been given out before. `Behind` says so, of
what waits as of what is handled, and that the message in hand is on no screen of
a user it is still to be sent to. The refinement is a step simulation in
the states that satisfy `HubInv` and `TidyInv`. The essential step is
`ReadImplements`: the head of a partition is the oldest waiting message of its
sender, because a partition holds all messages of a sender (the key) in the order
of their acceptance (`TopicOrdered`); `SendImplements` needs that the target is
registered, hence its owner's. `FactsStep` carries the theorems about
`Delivery` over, and `GivenElems` relates its queues to what the hub's properties
are about.

### GroupMembership

All theorems have the premise `UpdatesAlone`: `UpdateGroupInfo` is not called, or
not beside another request; `finding_count` refutes them without.

| Theorem | States |
|---|---|
| `GroupInvariance` | `GroupInv` is an invariant |
| `MemberCount` | `CountMatches` |
| `OwnersStay` | `OwnerIsMember` |
| `DismissedIsEmpty` | `DismissedEmpty` |
| `ContactsFollow` | `ContactsMatch`: everywhere but for the `stranded` |
| `DismissedFinal` | `DismissedStays` |
| `Atomicity` | `ImplementsAtomicGroups`: every behaviour of `GroupMembership` is one of `AtomicGroups` |
| `RacesKnown` | `RaceInv`, of `RaceSpec` |
| `CachesTrueUnlessRaced` | `TrueUnlessRaced`, of `RaceSpec` |
| `CachesFollow` | `CoherentInv` |
| `CachesCoherent` | `CacheCoherent` |

The last two are about requests served one after the other (`Proc = {P}`), of
which none is cut short after its commit and no redis call fails (`Fault` has
neither `"crash"` nor `"redis"`); they may be rolled back, and keys expire.

The tables' invariants are not inductive: a commit saves a row that
was read earlier. `HoldsRow` says that a request about to commit holds the lock
of its row, or is an update and alone, that the row it has read is the stored one
and that its checks still hold; `HoldsRows` says the same for the groups
`DeleteUsers` has locked so far, and `Undisturbed` what being alone means.
They survive the steps of others because nobody writes a row or the members of a
group that someone else has locked: `LeavesOthers` states what a step leaves alone,
and `OthersKeep` draws the conclusion once for all actions. `LocksInside`
(locks are held inside a transaction, on live rows) and `CreatesFresh` (the id of
a group being created is nobody else's) are what `CreateGroup`, which takes no
lock, and the dismissals rest on. What the commits have in common is
`CommitKeeps`: the row written is one the request may write (`Writes`), nothing
else changes (`Confined`), and the new row agrees with the new members and
contacts (`Agrees`); each operation then shows these three, with `CountedDown`
for those that count members out. `DeleteUsersStep`, which writes several groups,
is proved by itself. `RefuseKeeps` covers refusals, rollbacks and crashes.
`DismissedFinal` follows because a request about to commit holds a live row.

`Atomicity` is a step simulation in the states that satisfy `GroupInv`. Its
instant is the commit, and what it takes is that the checks, made when the row was
locked, are true *there*: `HoldsRow` again, which also carries that who leaves is a
member and not the owner, that who dismisses is, and that a group into which an
application is passed has not been disabled. That nobody enters twice is the
primary key in `Insert`. `CommitImplements` maps the commit to one
group, `DeleteUserImplements` the one to many: each listed group is locked, hence
live, and those owned at the snapshot are those owned at the commit. `Unseen` covers
the steps nobody sees.

`RaceInv` is `CoherentInv` for any number of requests: a key that is there is true,
or in doubt, or *somebody* will still put or drop it; and what a request has left to
put is true or it is late. `RaceKeeps` says what a step of `p` has to show for
this. `OthersPut` is the part about the other requests: what they have left to put
stays true unless the step changes it, and then `Overtakes` makes them late.
`TableStep` is for the steps before redis: whatever a commit changes is in the keys
it still has to put or drop, or is `Missed`, which only a deletion has. `ReviveRaces` is
for users who come back. `RedisRaces`
is for the puts and drops: a key whose last pending write is done is true, or was
put late. `CommitSaves` and `SavesLeave` describe the commits once for both this
argument and the sequential one. `RacesAreRuns` shows that recording races restricts
nothing, so `GroupInv` may be used.

`CacheCoherent` says nothing while a request is served, so it is strengthened to
`CoherentInv`: a key is true, or is about a group of the request and one of its
remaining steps (`Pending`) puts or drops it; and what it has left to put is true
(`WritesTruth`), for which the row and the members as read have to be those stored.
`Saves` and `CommitSaves` say once, for all commits to one group, that the steps they
leave cover every key they make stale; the interesting parts of `Saves` are its last
two, that a commit which leaves `contact_info_` or `group_memberlist_` alone has
not changed what they show. So enabling a group may leave its card alone because
a disabled group has none, and creating one its list because a new group has
none. `DeleteUsersCoherent` needs that the deletion has read *all* groups of the
user. `RedisWrites` is what the redis steps have in common.

### GroupHistory

| Theorem | States |
|---|---|
| `HistoryInvariance` | `HistoryInv` is an invariant |
| `ListsComplete` | `HistoryComplete` |
| `AudienceOfMessage` | `FanOut` |
| `ListsTrue` | `HistoryTrue`, if `UpdatesAlone` |
| `GroupsBesideMessages` | `GroupMembership!Spec`: the composition does to groups only what the service does |
| `AtomicBesideMessages` | `ImplementsAtomicGroups` of the composition |
| `CachesBesideMessages` | `CoherentInv` and `CacheCoherent` of the composition, one request at a time |

The first three have no premise about `GroupMembership`: its steps only delete messages, which cannot
make a list incomplete, and change members, which `was` and `always` follow
(`GroupStepKeeps`). `HistoryComplete` is strengthened by `ReadersComplete`: a reader
whose list misses a text or a file knows that it is late. `StoreKeeps` is where a new
one makes readers late, while a call (`StoreCallKeeps`) concerns neither; `FetchPutKeeps`
is where a late reader makes the key stale.
`GroupsBesideMessages` and the two after it carry theorems of `GroupProofs`, with
their premises, over to the composition. So does the proof of `ListsTrue`:
`HistoryTrue` is strengthened by `ReadersTrue`, the same of what a reader is about to
put, and a list once true stays true (`TrueOfStays`) because a commit that deletes
messages buries their group, which does not come back (`DeadRowStays`, which is why no
`UpdateGroupInfo` may run beside others), or deletes those of a sender taken so far,
which `purged` records (`GoneWithReason`) and never forgets (`PurgedGrows`).

### Contacts

| Theorem | States |
|---|---|
| `ContactsInvariance` | `ContactInv` is an invariant |
| `RelationsMirrored` | `MirroredContacts` |
| `AgreedSafety` | `AgreedAreContacts` |

No lock protects a relation, and none is needed: every commit changes both rows
of a relation, alike. `BuryMirrored`, `BlackenMirrored`, `NewMirrored` and
`CancelMirrored` show it for each way to write the table; the last needs that a
cancellation has read two rows of *one* relation (`HoldsRows`), which is so
because it takes the first in each direction and rows come in pairs. A stale save
revives both or none. `AgreedAreContacts` follows from `PassCommit` inserting what
it agrees to, and from everyone who buries relations burying applications too.

`SerialProofs` is about `clean` histories, in which nothing else runs beside a
request, none is cut short by a crash and no pass overlooks a relation because its
query failed; requests may still be rolled back, deleted users register again between
them, and keys expire at any time.

| Theorem | States |
|---|---|
| `Serially` | `SerialInv` is an invariant |
| `OneOfEach` | `OncePerPair` |
| `NoStraySessions` | `NoSessionOfDisabled` |
| `ListsFresh` | `FriendsFresh` |
| `BlackListed` | `BlackApplyHolds`: a black-listed application stays one until it is agreed to or deleted |
| `Blocked` | `BlockHolds` |
| `Friends` | `ImplementsFriendship` |

None of these is inductive by itself: between its read and its commit a request
relies on what it has read. `UpToDate` says that this is still so (no relation
yet where one is passed, no session where one is created, no black-listed row
where an application is renewed), and `SerialInv` that nobody else runs who could
change it. A wrong list of contacts is one that the request being served will
still drop (`Drops`), and a list about to be put is the true one. `SerialStep`
says once what a step has to show, `CommitSerial` and `ReadSerial` what of it is
left for a commit and for a read; `HeadAndTail` relates the redis steps before and
after one of them. In `PassSerial` only one direction of the relation has been
looked at: that the other is absent too is `MirroredContacts`. `Blocked` needs both
again: of the two rows a cancellation saves, the first is still the caller's own
`BLACK` one (`UpToDate`), so the second, its mirror, is not.

`Friends` is a step simulation in the states that satisfy `ContactInv`, `SerialInv` and
`OtherEnds` (a session is between two different users, and a request that is about to
open one is a `chat` or `resume` about somebody else, for which the lists in redis must
not show a user to himself). Three groups of lemmas carry it. `SaveStates`,
`AppendStates`, `BuryStates`, `PartedStates`, `GoneStates` say what each way to write a
table does to the states of the live rows, given that there was at most one
(`Singles`, from `SerialInv`). `Asks`, `Answers`, `Agrees`, `Parts`, `Blocks`,
`Unblocks`, `Opens`, `Closes`, `AccountsChange` show for each commit that the condition
of its `Friendship` action holds, from `UpToDate`, and that its effect is the action's;
here the mirrored rows matter again, since the code looks at one direction of a
relation and writes both (`BothLive`). `ServesOne`, `ServesNext`, `Silent`, `Effective`
and `Finishes` relate the place a request is at to what `Friendship` knows of it.

### Accounts

| Theorem | States |
|---|---|
| `AccountsInvariance` | `AccountInv` is an invariant |
| `InfosFresh`, `CardsFresh` | `InfoFresh`, `CardFresh` |
| `DecisionsSafety` | `DecisionsHold` |
| `RegistrationSafety` | `OneRegistration` |

The freshness of the keys rests on `HoldsCurrent`: as long as a user is not
`raced`, every request about him holds his row as it is, so that what it writes to
redis is true. A commit changes the row under the others exactly when it marks the
user (`CommitKeeps`); `RedisStepKeeps` shows that a key is true once its last
pending write is done. The two step properties follow from which commits can
write what (`WritersOfRow`, `RowsWritten`).

### Only model-checked

Liveness under fairness is out of the prover's reach: `LoopsEnd`,
`ConsumerProgress`, `BufferedIsWritten`, `BacklogStored`. Every safety property that
a passing run checks is proved.

## 10. Not modelled

* **Sessions with groups** and their list, and the lists of a user's groups
  (`LoadMyGroup`, `LoadMyJoinedGroup`): the code of the modelled ones on other
  keys, `group_session_list_`, `contact_mygroup_list_` and `my_joined_group_list_`. That
  every operation drops or rewrites these keys where it should is not checked.
* **Single queries**: the administrator's lists of users and groups,
  `GetNewContactList` and `GetAddGroupList`, and `GetMessageList`, which has no
  cache. They change nothing.
* **Uploads** are file I/O; the names of files and avatars matter to no property.
* **Kafka** is external: rebalancing among consumers and the failover of brokers
  cannot occur with the one consumer and are not modelled. The topic is never
  lost but by the program's own recreation of it.
* **Redis and MySQL** are external: a statement or a command happens or fails. A
  deletion by prefix is one step here, where the code scans in batches.
* **Data races** in the sense of the Go memory model: every access to the
  registry uses the mutex, and `SendBack` is a channel.
* HTTP routing and binding, configuration, logging, password hashing and id
  generation, and the migration at start have no state that a property is
  about. The web client is the environment: it determines which requests are
  legal.
