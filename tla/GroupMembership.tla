-------------------------- MODULE GroupMembership --------------------------
(***************************************************************************)
(* Groups, their members and the member count that is stored beside them:  *)
(* group_info_service.go, the group half of PassContactApply and the       *)
(* deletion of users, run by concurrent requests on MySQL (REPEATABLE      *)
(* READ) with redis keys filled and dropped after the commit.              *)
(*                                                                         *)
(* A transaction's writes become visible at its commit, in one step. What  *)
(* can come between its statements is kept apart: a read without a lock    *)
(* sees the snapshot of the transaction, SELECT ... FOR UPDATE waits for   *)
(* the row and sees its latest version, and a row once read is saved as it *)
(* was read. group_member has the primary key (group, user); user_contact  *)
(* has no key beyond its id.                                               *)
(***************************************************************************)
EXTENDS Integers, FiniteSets, Sequences

CONSTANTS User, Group, Proc,   \* users, group ids, concurrent requests
          Op,                  \* the operations that are called
          Alone,               \* those nobody calls beside another request
          Fault,               \* failures: subset of {"rollback", "crash", "redis"}
          MaxCalls,            \* bound: requests ever made
          NoUser, NoGroup, NoProc

Ops == {"create", "enter", "pass", "leave", "remove", "dismiss", "delete",
        "enable", "disable", "update", "deleteUser", "getInfo", "getList"}

ASSUME GroupAssumption ==
  /\ IsFiniteSet(User) /\ Op \subseteq Ops /\ Alone \subseteq Ops /\ MaxCalls \in Nat
  /\ NoUser \notin User /\ NoGroup \notin Group /\ NoProc \notin Proc

VARIABLES group,    \* table group_info: [Group -> Row]
          member,   \* table group_member: who is in a group
          contact,  \* table user_contact: how many rows a user has for a group
          applied,  \* table contact_apply: who has an application to a group
          deleted,  \* users soft-deleted
          stranded, \* record: members whose account was deleted without their leaving
          lock,     \* the request that holds the row lock of a group
          info, card, list, \* redis: group_info_, contact_info_, group_memberlist_
          tx,       \* the requests being served
          calls     \* requests made so far

db == <<group, member, contact, applied, deleted, stranded>>
redis == <<info, card, list>>
vars == <<db, lock, redis, tx, calls>>

Row == [state: {"none", "live", "dead"}, owner: User \cup {NoUser},
        cnt: Nat, status: {"NORMAL", "DISABLE"}]
NoRow == [state |-> "none", owner |-> NoUser, cnt |-> 0, status |-> "NORMAL"]

\* GORM leaves a row with deleted_at out of every query that is not Unscoped.
Live(g) == group[g].state = "live"
Owned(u) == {g \in Group : Live(g) /\ group[g].owner = u}
Joined(u) == {g \in Group : u \in member[g]}

Idle == [pc |-> "idle", op |-> "none", g |-> NoGroup, u |-> NoUser, us |-> {},
         row |-> [g \in Group |-> NoRow],  \* rows as read (as saved, after the commit)
         seen |-> {},                      \* members as read
         joined |-> {}, owned |-> {},      \* DeleteUsers: memberships as read
         todo |-> <<>>]                    \* redis steps still to be done

InitDb == /\ group = [g \in Group |-> NoRow]
          /\ member = [g \in Group |-> {}]
          /\ contact = [g \in Group |-> [u \in User |-> 0]]
          /\ applied = [g \in Group |-> {}]
          /\ deleted = {} /\ stranded = [g \in Group |-> {}]

Init == /\ InitDb
        /\ lock = [g \in Group |-> NoProc]
        /\ info = << >> /\ card = << >> /\ list = << >>
        /\ tx = [p \in Proc |-> Idle]
        /\ calls = 0

-----------------------------------------------------------------------------
(* Requests. A user acts while he has an account; a group is known by its   *)
(* id, which may be that of a group dismissed meanwhile.                    *)

EntryPc(op) == IF op \in {"pass", "update", "deleteUser", "getInfo", "getList"}
               THEN "read" ELSE "lock"

Account(u) == u \in User \ deleted
Known(g) == g \in Group /\ group[g].state # "none"
\* "G" + uuid.NewString(): an id nobody has used.
Fresh(g) == /\ g \in Group /\ group[g].state = "none"
            /\ \A p \in Proc : ~(tx[p].op = "create" /\ tx[p].g = g)

Legal(op, g, u, us) ==
  \/ op = "create" /\ Fresh(g) /\ Account(u) /\ us = {}
  \/ op \in {"enter", "pass", "leave", "dismiss"} /\ Known(g) /\ Account(u) /\ us = {}
  \/ op = "remove" /\ Known(g) /\ u = NoUser /\ us # {}
  \/ op \in {"delete", "enable", "disable", "update", "getInfo", "getList"}
     /\ Known(g) /\ u = NoUser /\ us = {}
  \/ op = "deleteUser" /\ g = NoGroup /\ Account(u) /\ us = {}

\* The state of request p becomes t.
Becomes(p, t) == tx' = [tx EXCEPT ![p] = t]

\* Beside which request op would run although one of the two is to run alone.
Disturbs(p, op) ==
  \E q \in Proc \ {p} : tx[q].pc # "idle" /\ (op \in Alone \/ tx[q].op \in Alone)

Call(p) ==
  /\ tx[p].pc = "idle" /\ calls < MaxCalls
  /\ \E op \in Op, g \in Group \cup {NoGroup}, u \in User \cup {NoUser}, us \in SUBSET User :
       /\ Legal(op, g, u, us) /\ ~Disturbs(p, op)
       /\ Becomes(p, [Idle EXCEPT !.pc = EntryPc(op), !.op = op,
                                 !.g = g, !.u = u, !.us = us])
  /\ calls' = calls + 1
  /\ UNCHANGED <<db, lock, redis>>

\* ApplyContact: it reads the group and adds the application without a lock,
\* so an application may also reach a group that is no longer there.
Apply(g, u) ==
  /\ "pass" \in Op /\ Known(g) /\ Account(u) /\ u \notin applied[g]
  /\ applied' = [applied EXCEPT ![g] = @ \cup {u}]
  /\ UNCHANGED <<group, member, contact, deleted, stranded, lock, redis, tx, calls>>

\* Register with the telephone of a deleted account brings that account back,
\* under the same uuid and with nothing of what was deleted along with it; so does
\* UpdateUserInfo, when it had read the row before the deletion and saves it after.
Revive(u) ==
  /\ u \in deleted
  /\ deleted' = deleted \ {u}
  /\ UNCHANGED <<group, member, contact, applied, stranded, lock, redis, tx, calls>>

-----------------------------------------------------------------------------
(* Transactions.                                                            *)

\* Mutant: the rows are read without FOR UPDATE.
NoForUpdate(p, g) == TRUE
RowFree(p, g) == lock[g] \in {p, NoProc}
Unlocked(p) == [g \in Group |-> IF lock[g] = p THEN NoProc ELSE lock[g]]
Locked(p) == {g \in Group : lock[g] = p}

\* Mutant: an early return leaves the transaction open.
ReturnOnly(p) ==
  /\ Becomes(p, Idle)
  /\ UNCHANGED <<db, lock, redis, calls>>
\* The early returns: tx.Rollback and an error to the caller.
Refuse(p) ==
  /\ Becomes(p, Idle)
  /\ lock' = Unlocked(p)
  /\ UNCHANGED <<db, redis, calls>>

\* SELECT ... FOR UPDATE of the group's row, and the checks that follow it.
LockGroup(p, op, ok, seen) ==
  LET g == tx[p].g IN
  /\ tx[p].pc = "lock" /\ tx[p].op = op /\ RowFree(p, g)
  /\ \/ /\ Live(g) /\ ok
        /\ lock' = [lock EXCEPT ![g] = p]
        /\ Becomes(p, [tx[p] EXCEPT !.pc = "commit", !.row[g] = group[g], !.seen = seen])
        /\ UNCHANGED <<db, redis, calls>>
     \/ ~(Live(g) /\ ok) /\ Refuse(p)

At(p, op) == tx[p].pc = "commit" /\ tx[p].op = op

\* The commit of what was done to one group, whose row is saved as r.
CommitRow(p, g, r, steps) ==
  /\ group' = [group EXCEPT ![g] = r]
  /\ lock' = Unlocked(p)
  /\ Becomes(p, [tx[p] EXCEPT !.pc = "redis", !.row[g] = r, !.todo = steps])
  /\ UNCHANGED <<deleted, redis, calls>>

\* if group.MemberCnt > 0 { group.MemberCnt-- }, n times
CountDown(r, n) == [r EXCEPT !.cnt = IF @ > n THEN @ - n ELSE 0]
CountUp(r) == [r EXCEPT !.cnt = @ + 1]

\* Mutant: the contacts stay.
DropMembersOnly(g, us) ==
  /\ member' = [member EXCEPT ![g] = @ \ us]
  /\ stranded' = [stranded EXCEPT ![g] = @ \ us]
  /\ applied' = [applied EXCEPT ![g] = @ \ us]
  /\ UNCHANGED contact
\* The rows of a user in group_member, user_contact and contact_apply.
DropUsers(g, us) ==
  /\ member' = [member EXCEPT ![g] = @ \ us]
  /\ stranded' = [stranded EXCEPT ![g] = @ \ us]
  /\ contact' = [contact EXCEPT ![g] = [u \in User |-> IF u \in us THEN 0 ELSE @[u]]]
  /\ applied' = [applied EXCEPT ![g] = @ \ us]
AddUser(g, u) ==
  /\ member' = [member EXCEPT ![g] = @ \cup {u}]
  /\ contact' = [contact EXCEPT ![g][u] = @ + 1]
  /\ UNCHANGED stranded

CreateGroup(p) ==
  LET g == tx[p].g
      u == tx[p].u
  IN /\ tx[p].pc = "lock" /\ tx[p].op = "create"
     /\ AddUser(g, u)
     /\ CommitRow(p, g, [state |-> "live", owner |-> u, cnt |-> 1, status |-> "NORMAL"],
                  <<"info", "card">>)
     /\ UNCHANGED applied

\* Mutant: the owner may leave too.
LeaveAnyone(p) == LET g == tx[p].g IN
  LockGroup(p, "leave", tx[p].u \in member[g], {})
LeaveLock(p) == LET g == tx[p].g IN
  LockGroup(p, "leave", group[g].owner # tx[p].u /\ tx[p].u \in member[g], {})
\* Mutant: group_memberlist_ is not dropped.
LeaveKeepsList(p) ==
  LET g == tx[p].g IN
  /\ At(p, "leave")
  /\ DropUsers(g, {tx[p].u})
  /\ CommitRow(p, g, CountDown(tx[p].row[g], 1), <<"info", "card">>)
LeaveCommit(p) ==
  LET g == tx[p].g IN
  /\ At(p, "leave")
  /\ DropUsers(g, {tx[p].u})
  /\ CommitRow(p, g, CountDown(tx[p].row[g], 1), <<"dropList", "info", "card">>)

\* req.OwnerId is the owner: RemoveGroupMembers does not check it.
RemoveLock(p) == LET g == tx[p].g IN
  LockGroup(p, "remove", group[g].owner \notin tx[p].us /\ tx[p].us \cap member[g] # {}, member[g])
RemoveCommit(p) ==
  LET g == tx[p].g
      toDelete == tx[p].us \cap tx[p].seen
  IN /\ At(p, "remove")
     /\ DropUsers(g, toDelete)
     /\ CommitRow(p, g, CountDown(tx[p].row[g], Cardinality(toDelete)),
                  <<"info", "card", "dropList">>)

\* Mutant: group_member has no key on (group, user).
InsertAnyway(p, steps) ==
  LET g == tx[p].g IN
  AddUser(g, tx[p].u) /\ CommitRow(p, g, CountUp(tx[p].row[g]), steps)
\* The primary key of group_member refuses a second row of the user.
Insert(p, steps) ==
  LET g == tx[p].g
      u == tx[p].u
  IN \/ u \notin member[g] /\ AddUser(g, u)
        /\ CommitRow(p, g, CountUp(tx[p].row[g]), steps)
     \/ u \in member[g] /\ Refuse(p)

\* Mutant: the group is read without the lock, as in UpdateGroupInfo.
EnterUnlocked(p) ==
  LET g == tx[p].g IN
  /\ tx[p].pc = "lock" /\ tx[p].op = "enter" /\ Live(g) /\ tx[p].u \notin member[g]
  /\ Becomes(p, [tx[p] EXCEPT !.pc = "commit", !.row[g] = group[g]])
  /\ UNCHANGED <<db, lock, redis, calls>>
\* Count(&exists) comes after the lock, so its snapshot is the latest state.
EnterLock(p) == LET g == tx[p].g IN
  LockGroup(p, "enter", tx[p].u \notin member[g], {})
EnterCommit(p) ==
  /\ At(p, "enter")
  /\ Insert(p, <<"info", "card", "dropList">>)
  /\ UNCHANGED applied

\* Here the application is read first: the members are counted in that snapshot.
PassRead(p) ==
  /\ tx[p].pc = "read" /\ tx[p].op = "pass"
  /\ \/ /\ tx[p].u \in applied[tx[p].g]
        /\ Becomes(p, [tx[p] EXCEPT !.pc = "lock", !.seen = member[tx[p].g]])
        /\ UNCHANGED <<db, lock, redis, calls>>
     \/ tx[p].u \notin applied[tx[p].g] /\ Refuse(p)
PassLock(p) == LET g == tx[p].g IN
  LockGroup(p, "pass", group[g].status = "NORMAL" /\ tx[p].u \notin tx[p].seen, tx[p].seen)
\* Saving an application deleted meanwhile inserts it again.
PassCommit(p) ==
  LET g == tx[p].g IN
  /\ At(p, "pass")
  /\ Insert(p, <<"info", "card", "dropList">>)
  /\ applied' = IF tx[p].u \in member[g] THEN applied
                ELSE [applied EXCEPT ![g] = @ \cup {tx[p].u}]

Buried(r) == [r EXCEPT !.state = "dead"]

DismissLock(p) == LockGroup(p, "dismiss", group[tx[p].g].owner = tx[p].u, {})
DeleteLock(p) == LockGroup(p, "delete", TRUE, {})
DissolveCommit(p) ==
  LET g == tx[p].g IN
  /\ At(p, "dismiss") \/ At(p, "delete")
  /\ DropUsers(g, User)
  /\ CommitRow(p, g, Buried(group[g]), <<"dropInfo", "dropCard", "dropList">>)

\* One UPDATE of the column; it waits for the row like every writer.
SetGroupsStatus(p) ==
  LET g == tx[p].g
      status == IF tx[p].op = "disable" THEN "DISABLE" ELSE "NORMAL"
  IN /\ tx[p].pc = "lock" /\ tx[p].op \in {"enable", "disable"} /\ RowFree(p, g)
     /\ CommitRow(p, g, IF Live(g) THEN [group[g] EXCEPT !.status = status] ELSE group[g],
                  IF tx[p].op = "disable" THEN <<"dropInfo", "dropCard">> ELSE <<"dropInfo">>)
     /\ UNCHANGED <<member, contact, applied, stranded>>

\* A read without a lock, then Save: every column as read, deleted_at included,
\* since Save turns into an upsert when the row to update is soft-deleted.
UpdateRead(p) ==
  LET g == tx[p].g IN
  /\ tx[p].pc = "read" /\ tx[p].op = "update"
  /\ \/ /\ Live(g)
        /\ Becomes(p, [tx[p] EXCEPT !.pc = "commit", !.row[g] = group[g]])
        /\ UNCHANGED <<db, lock, redis, calls>>
     \/ ~Live(g) /\ Refuse(p)
UpdateCommit(p) ==
  LET g == tx[p].g IN
  /\ At(p, "update") /\ RowFree(p, g)
  /\ CommitRow(p, g, tx[p].row[g], <<"info", "card">>)
  /\ UNCHANGED <<member, contact, applied, stranded>>

-----------------------------------------------------------------------------
(* DeleteUsers of one user: his memberships in a snapshot, then the rows of *)
(* the groups one after another, first those he joined.                     *)

DeleteUsersRead(p) ==
  LET u == tx[p].u IN
  /\ tx[p].pc = "read" /\ tx[p].op = "deleteUser"
  /\ Becomes(p, [tx[p] EXCEPT !.pc = "lock", !.owned = Owned(u),
                                 !.joined = Joined(u) \ Owned(u)])
  /\ UNCHANGED <<db, lock, redis, calls>>

DeleteUsersLock(p, g) ==
  /\ tx[p].pc = "lock" /\ tx[p].op = "deleteUser" /\ RowFree(p, g)
  /\ \/ g \in tx[p].joined \ Locked(p)
     \/ g \in tx[p].owned \ Locked(p) /\ tx[p].joined \subseteq Locked(p)
  /\ \/ /\ Live(g)
        /\ lock' = [lock EXCEPT ![g] = p]
        /\ Becomes(p, [tx[p] EXCEPT !.row[g] = group[g]])
        /\ UNCHANGED <<db, redis, calls>>
     \/ ~Live(g) /\ Refuse(p)

DeleteUsersCommit(p) ==
  LET u == tx[p].u
      left == {g \in tx[p].joined : u \in member[g]}
      gone == tx[p].owned
      NewRow(g) == IF g \in gone THEN Buried(group[g])
                   ELSE IF g \in left THEN CountDown(tx[p].row[g], 1) ELSE group[g]
  IN /\ tx[p].pc = "lock" /\ tx[p].op = "deleteUser"
     /\ tx[p].joined \cup tx[p].owned \subseteq Locked(p)
     /\ group' = [g \in Group |-> NewRow(g)]
     /\ member' = [g \in Group |-> IF g \in gone THEN {}
                                   ELSE IF g \in left THEN member[g] \ {u} ELSE member[g]]
     /\ contact' = [g \in Group |-> [x \in User |-> IF g \in gone \/ x = u THEN 0
                                                    ELSE contact[g][x]]]
     /\ applied' = [g \in Group |-> IF g \in gone THEN {} ELSE applied[g] \ {u}]
     /\ deleted' = deleted \cup {u}
     /\ stranded' = [g \in Group |-> IF g \in gone THEN {}
                                     ELSE IF g \in left THEN stranded[g] \ {u}
                                     ELSE stranded[g] \cup (member[g] \cap {u})]
     /\ lock' = Unlocked(p)
     /\ Becomes(p, [tx[p] EXCEPT !.pc = "redis", !.todo = <<"dropList", "dropInfo", "dropCard">>])
     /\ UNCHANGED <<redis, calls>>

-----------------------------------------------------------------------------
(* Reading through the caches, and the redis steps after a commit.          *)

\* GetGroupInfo and CheckGroupAddMode: a hit changes nothing, an error of redis
\* counts as a miss.
GetGroupInfo(p) ==
  LET g == tx[p].g IN
  /\ tx[p].pc = "read" /\ tx[p].op = "getInfo"
  /\ \/ /\ Live(g)
        /\ Becomes(p, [tx[p] EXCEPT !.pc = "redis", !.row[g] = group[g],
                                       !.todo = <<"info", "card">>])
        /\ UNCHANGED <<db, lock, redis, calls>>
     \/ (g \in DOMAIN info \/ ~Live(g)) /\ Refuse(p)

\* The group, its members and the users with an account among them: three
\* queries, each with a snapshot of its own.
GetGroupMemberList(p) ==
  LET g == tx[p].g IN
  /\ tx[p].pc = "read" /\ tx[p].op = "getList"
  /\ \/ /\ Live(g)
        /\ Becomes(p, [tx[p] EXCEPT !.pc = "redis", !.todo = <<"members", "names", "list">>])
        /\ UNCHANGED <<db, lock, redis, calls>>
     \/ (g \in DOMAIN list \/ ~Live(g)) /\ Refuse(p)

Put(cache, g, v) == [x \in DOMAIN cache \cup {g} |-> IF x = g THEN v ELSE cache[x]]
Drop(cache, gs) == [x \in DOMAIN cache \ gs |-> cache[x]]
\* Mutant: the keys of the groups that go with their owner are forgotten.
AffectedJoined(p) == IF tx[p].op = "deleteUser" THEN tx[p].joined ELSE {tx[p].g}
Affected(p) == IF tx[p].op = "deleteUser" THEN tx[p].joined \cup tx[p].owned ELSE {tx[p].g}

Done(p, step, t) ==
  /\ tx[p].pc = "redis" /\ tx[p].todo # << >> /\ Head(tx[p].todo) = step
  /\ Becomes(p, [t EXCEPT !.todo = Tail(@)])
  /\ UNCHANGED <<db, lock, calls>>

PutInfo(p) == LET r == tx[p].row[tx[p].g] IN
  /\ Done(p, "info", tx[p])
  /\ info' = Put(info, tx[p].g, [cnt |-> r.cnt, status |-> r.status])
  /\ UNCHANGED <<card, list>>
\* contact_info_ is kept for groups in normal state only.
PutCard(p) == LET r == tx[p].row[tx[p].g] IN
  /\ Done(p, "card", tx[p])
  /\ card' = IF r.status = "NORMAL" THEN Put(card, tx[p].g, r.cnt) ELSE Drop(card, {tx[p].g})
  /\ UNCHANGED <<info, list>>
\* A group dismissed since it was looked up has no members to be found.
QueryMembers(p) ==
  /\ tx[p].op = "getList"
  /\ Done(p, "members", [tx[p] EXCEPT !.seen = member[tx[p].g]])
  /\ UNCHANGED redis
ReadNames(p) ==
  /\ Done(p, "names", [tx[p] EXCEPT !.seen = @ \ deleted])
  /\ UNCHANGED redis
PutList(p) ==
  /\ Done(p, "list", tx[p])
  /\ list' = Put(list, tx[p].g, tx[p].seen)
  /\ UNCHANGED <<info, card>>
DropKeys(p) ==
  \/ Done(p, "dropInfo", tx[p]) /\ info' = Drop(info, Affected(p)) /\ UNCHANGED <<card, list>>
  \/ Done(p, "dropCard", tx[p]) /\ card' = Drop(card, Affected(p)) /\ UNCHANGED <<info, list>>
  \/ Done(p, "dropList", tx[p]) /\ list' = Drop(list, Affected(p)) /\ UNCHANGED <<info, card>>

Reply(p) ==
  /\ tx[p].pc = "redis" /\ tx[p].todo = << >>
  /\ Becomes(p, Idle)
  /\ UNCHANGED <<db, lock, redis, calls>>

-----------------------------------------------------------------------------
(* Failures, and keys that reach their time to live.                        *)

\* A failed statement, a lock wait that times out, a deadlock victim, a panic.
Rollback(p) ==
  /\ "rollback" \in Fault /\ tx[p].pc \in {"read", "lock", "commit"}
  /\ Refuse(p)

\* The process dies, or the connection is lost, after the commit; a query for the
\* list of members that fails ends that request in the same way.
Crash(p) ==
  /\ "crash" \in Fault /\ tx[p].pc = "redis" /\ tx[p].todo # << >>
  /\ Refuse(p)

\* An error of redis is logged, and the next step follows.
RedisFails(p) ==
  /\ "redis" \in Fault
  /\ \E step \in {"info", "card", "list", "dropInfo", "dropCard", "dropList"} :
       Done(p, step, tx[p])
  /\ UNCHANGED redis

Expire(g) ==
  /\ \/ g \in DOMAIN info /\ info' = Drop(info, {g}) /\ UNCHANGED <<card, list>>
     \/ g \in DOMAIN card /\ card' = Drop(card, {g}) /\ UNCHANGED <<info, list>>
     \/ g \in DOMAIN list /\ list' = Drop(list, {g}) /\ UNCHANGED <<info, card>>
  /\ UNCHANGED <<db, lock, tx, calls>>

Transaction(p) ==
  \/ CreateGroup(p)
  \/ LeaveLock(p) \/ LeaveCommit(p)
  \/ RemoveLock(p) \/ RemoveCommit(p)
  \/ EnterLock(p) \/ EnterCommit(p)
  \/ PassRead(p) \/ PassLock(p) \/ PassCommit(p)
  \/ DismissLock(p) \/ DeleteLock(p) \/ DissolveCommit(p)
  \/ SetGroupsStatus(p)
  \/ UpdateRead(p) \/ UpdateCommit(p)
  \/ DeleteUsersRead(p) \/ (\E g \in Group : DeleteUsersLock(p, g)) \/ DeleteUsersCommit(p)

Redis(p) ==
  \/ GetGroupInfo(p) \/ GetGroupMemberList(p)
  \/ PutInfo(p) \/ PutCard(p) \/ QueryMembers(p) \/ ReadNames(p) \/ PutList(p)
  \/ DropKeys(p) \/ Reply(p)

Failure(p) == Rollback(p) \/ Crash(p) \/ RedisFails(p)

Next ==
  \/ \E p \in Proc : Call(p) \/ Transaction(p) \/ Redis(p) \/ Failure(p)
  \/ \E g \in Group, u \in User : Apply(g, u)
  \/ \E u \in User : Revive(u)
  \/ \E g \in Group : Expire(g)

Spec == Init /\ [][Next]_vars
-----------------------------------------------------------------------------
(* Properties.                                                              *)

Steps == {"info", "card", "members", "names", "list", "dropInfo", "dropCard", "dropList"}

TxState == [pc: {"idle", "read", "lock", "commit", "redis"}, op: Ops \cup {"none"},
            g: Group \cup {NoGroup}, u: User \cup {NoUser}, us: SUBSET User,
            row: [Group -> Row], seen: SUBSET User,
            joined: SUBSET Group, owned: SUBSET Group,
            todo: Seq(Steps)]

\* The type invariant, of the tables, the locks and the requests.
TypeOK ==
  /\ group \in [Group -> Row]
  /\ member \in [Group -> SUBSET User]
  /\ contact \in [Group -> [User -> Nat]]
  /\ applied \in [Group -> SUBSET User]
  /\ deleted \subseteq User /\ stranded \in [Group -> SUBSET User]
  /\ lock \in [Group -> Proc \cup {NoProc}]
  /\ tx \in [Proc -> TxState]
  /\ calls \in 0..MaxCalls

\* The number of members stored with a group is the number of its members,
\* whatever enters, leaves, removals and deletions of accounts run at once.
CountMatches == \A g \in Group : Live(g) => group[g].cnt = Cardinality(member[g])

\* The owner of a group is among its members: he cannot leave, be removed or
\* lose his account while the group goes on.
OwnerIsMember == \A g \in Group : Live(g) => group[g].owner \in member[g]

\* A dismissed group has no members and is in nobody's contacts: no request
\* that began before the dismissal adds a row to it afterwards.
DismissedEmpty == \A g \in Group : ~Live(g) =>
  member[g] = {} /\ \A u \in User : contact[g][u] = 0

\* A member has the group in his contacts once, everyone else does not have it,
\* although user_contact has no unique key. The exception is a member stranded by
\* the deletion of his account, which deletes all his contacts but his memberships
\* only of the groups it had listed: he entered this one in between, and has no
\* contact until he leaves or is removed, also once he has registered again.
ContactsMatch == \A g \in Group :
  /\ stranded[g] \subseteq member[g]
  /\ \A u \in User : contact[g][u] = IF u \in member[g] \ stranded[g] THEN 1 ELSE 0

\* A dismissed group never comes back, and its row is not written again.
DismissedStays == [][\A g \in Group : group[g].state = "dead" => group'[g] = group[g]]_vars

\* What redis holds of g is what the tables hold.
InfoTrue(g) == Live(g) /\ info[g] = [cnt |-> group[g].cnt, status |-> group[g].status]
CardTrue(g) == Live(g) /\ group[g].status = "NORMAL" /\ card[g] = group[g].cnt
ListTrue(g) == Live(g) /\ list[g] = member[g] \ deleted

\* The three kinds of keys, the step that drops one, and the groups that have one.
Kinds == {"info", "card", "list"}
DropOf == [info |-> "dropInfo", card |-> "dropCard", list |-> "dropList"]
Keys(kind) == IF kind = "info" THEN DOMAIN info
              ELSE IF kind = "card" THEN DOMAIN card ELSE DOMAIN list
KeyTrue(kind, g) == IF kind = "info" THEN InfoTrue(g)
                    ELSE IF kind = "card" THEN CardTrue(g) ELSE ListTrue(g)

\* When no request is being served, every key that is there is true. (Of
\* requests served one after the other, without failures.)
CacheCoherent == (\A p \in Proc : tx[p] = Idle) =>
  \A kind \in Kinds : \A g \in Keys(kind) : KeyTrue(kind, g)

(* What makes it inductive. *)

\* The redis steps p has left, and whether one of some steps is still to come
\* for the key of g.
StepsLeft(p) == {tx[p].todo[k] : k \in DOMAIN tx[p].todo}
Pending(p, g, steps) == g \in Affected(p) /\ steps \cap StepsLeft(p) # {}

\* What p is about to put is true once it has read what it still has to read
\* (names of deleted users are out of a list when its turn comes), DeleteUsers
\* knows all groups of its user, and who is about to become a member has an account.
WritesTruth(p) ==
  LET t == tx[p] IN
  /\ t.todo # << >> => t.pc = "redis"
  /\ {"info", "card"} \cap StepsLeft(p) # {} =>
       t.op # "deleteUser" /\ Live(t.g) /\ t.row[t.g] = group[t.g]
  /\ "list" \in StepsLeft(p) =>
       /\ t.op # "deleteUser" /\ Live(t.g)
       /\ Head(t.todo) = "members" \/ t.seen = member[t.g]
  /\ t.pc = "lock" /\ t.op = "deleteUser" => Joined(t.u) \subseteq t.joined \cup t.owned
  /\ t.pc \in {"read", "lock", "commit"} => t.u \notin deleted

\* Members have accounts, and a key is true, or p will still put or drop it.
CoherentInv == (\A g \in Group : member[g] \cap deleted = {}) /\ \A p \in Proc :
  /\ WritesTruth(p)
  /\ \A kind \in Kinds : \A g \in Keys(kind) :
       g \in Group /\ (KeyTrue(kind, g) \/ Pending(p, g, {kind, DropOf[kind]}))

(* What makes these inductive, when updates run alone.                      *)

\* A request names the group and the user its operation is about.
WellFormed(p) == tx[p].pc # "idle" =>
  /\ tx[p].op \in Op
  /\ tx[p].op # "deleteUser" => tx[p].g \in Group
  /\ tx[p].op \in {"create", "enter", "pass", "leave", "dismiss", "deleteUser"} =>
       tx[p].u \in User

\* The id of a group about to be created is used by nobody else.
CreatesFresh(p) == tx[p].pc = "lock" /\ tx[p].op = "create" =>
  /\ group[tx[p].g].state = "none"
  /\ \A q \in Proc \ {p} : ~(tx[q].pc = "lock" /\ tx[q].op = "create" /\ tx[q].g = tx[p].g)

\* Locks are held in a transaction only, on rows that are found.
LocksInside(p) == \A g \in Group : lock[g] = p => Live(g) /\ tx[p].pc \in {"lock", "commit"}

\* While a request runs that is to run alone, no other does.
Undisturbed(p) == tx[p].pc # "idle" /\ tx[p].op \in Alone =>
  \A q \in Proc \ {p} : tx[q].pc = "idle"

\* A request about to commit holds the lock of a live group's row, or is an
\* update and runs alone; the row it has read is still the stored one, and its
\* checks still hold.
HoldsRow(p) == LET g == tx[p].g IN
  tx[p].pc = "commit" =>
    /\ tx[p].op \in {"enter", "pass", "leave", "remove", "dismiss", "delete", "update"}
    /\ IF tx[p].op = "update" THEN "update" \in Alone ELSE lock[g] = p
    /\ Live(g) /\ tx[p].row[g] = group[g]
    /\ tx[p].op = "leave" => group[g].owner # tx[p].u /\ tx[p].u \in member[g]
    /\ tx[p].op = "remove" => group[g].owner \notin tx[p].us /\ tx[p].seen = member[g]
    /\ tx[p].op = "pass" => group[g].status = "NORMAL"
    /\ tx[p].op = "dismiss" => group[g].owner = tx[p].u

\* The same for each group that DeleteUsers has locked so far.
HoldsRows(p) == tx[p].pc = "lock" /\ tx[p].op = "deleteUser" =>
  /\ \A g \in tx[p].joined \cup tx[p].owned : lock[g] = p => tx[p].row[g] = group[g]
  /\ \A g \in tx[p].joined : group[g].state # "none" /\ group[g].owner # tx[p].u
  /\ \A g \in tx[p].owned : group[g].state # "none" /\ group[g].owner = tx[p].u

Requests == \A p \in Proc : WellFormed(p) /\ CreatesFresh(p) /\ LocksInside(p)
                            /\ HoldsRow(p) /\ HoldsRows(p) /\ Undisturbed(p)

\* The inductive invariant: the tables agree with each other, and every request
\* holds what its checks were made on.
GroupInv == TypeOK /\ CountMatches /\ OwnerIsMember /\ DismissedEmpty /\ ContactsMatch /\ Requests
=============================================================================
