---------------------------- MODULE GroupProofs ----------------------------
(***************************************************************************)
(* Proofs about GroupMembership, for any users, groups, concurrent         *)
(* requests, failures and bound, as long as UpdateGroupInfo runs alone: it *)
(* is the one operation that writes a group's row without having locked it *)
(* when it read it.                                                        *)
(*                                                                         *)
(* Requests is what makes the tables' invariants inductive: the row a      *)
(* request is about to save is the stored one (HoldsRow, HoldsRows),       *)
(* because nobody changes a row that another request has locked.           *)
(***************************************************************************)
EXTENDS GroupAtomicity, GroupRaces, FiniteSetTheorems, TLAPS

\* No UpdateGroupInfo runs beside another request.
UpdatesAlone == "update" \in Op => "update" \in Alone

Tables == CountMatches /\ OwnerIsMember /\ DismissedEmpty /\ ContactsMatch

\* What a step of request p leaves to the others: their state, their locks, the
\* rows and members they have locked, the owners, the ids they have reserved.
LeavesOthers(p) ==
  /\ \A q \in Proc \ {p} : tx'[q] = tx[q]
  /\ \A q \in Proc \ {p}, g \in Group : lock'[g] = q => lock[g] = q
  /\ \A q \in Proc \ {p}, g \in Group : lock[g] = q =>
       lock'[g] = q /\ group'[g] = group[g] /\ member'[g] = member[g]
  /\ \A g \in Group : group[g].state # "none" =>
       group'[g].state # "none" /\ group'[g].owner = group[g].owner
  /\ \A q \in Proc \ {p} : tx[q].pc = "lock" /\ tx[q].op = "create" =>
       /\ group'[tx[q].g].state = group[tx[q].g].state
       /\ ~(tx'[p].pc = "lock" /\ tx'[p].op = "create" /\ tx'[p].g = tx[q].g)
  /\ tx[p].pc = "idle" => group' = group
  /\ tx'[p].pc # "idle" =>
       ~Disturbs(p, tx'[p].op) \/ (tx[p].pc # "idle" /\ tx'[p].op = tx[p].op)

Own(p) == WellFormed(p) /\ CreatesFresh(p) /\ LocksInside(p) /\ HoldsRow(p) /\ HoldsRows(p)

\* The steps of a request keep the invariant of every other one.
LEMMA OthersKeep ==
    ASSUME TypeOK, Requests, NEW p \in Proc, LeavesOthers(p), Own(p)'
    PROVE  Requests'
  <1>6. \A q \in Proc : Undisturbed(q)'
    <2> SUFFICES ASSUME NEW q \in Proc, tx'[q].pc # "idle", tx'[q].op \in Alone,
                        NEW r \in Proc \ {q}
                 PROVE  tx'[r].pc = "idle"
      BY DEF Undisturbed
    <2>1. \A x \in Proc : Undisturbed(x)
      BY DEF Requests
    <2>2. CASE q # p /\ r # p
      BY <2>1, <2>2 DEF Undisturbed, LeavesOthers
    <2>3. CASE q = p \/ r = p
      BY <2>1, <2>3 DEF Undisturbed, LeavesOthers, Disturbs
    <2> QED
      BY <2>2, <2>3
  <1> SUFFICES ASSUME NEW q \in Proc, q # p PROVE Own(q)'
    BY <1>6 DEF Requests, Own
  <1>0. Own(q) /\ tx'[q] = tx[q] /\ tx[q] \in TxState
    BY DEF Requests, Own, LeavesOthers, TypeOK
  <1>1. WellFormed(q)'
    BY <1>0 DEF Own, WellFormed
  <1>2. CreatesFresh(q)'
    BY <1>0 DEF Own, CreatesFresh, LeavesOthers
  <1>3. HoldsRow(q)'
    <2>1. SUFFICES ASSUME tx[q].pc = "commit" PROVE HoldsRow(q)'
      BY <1>0 DEF HoldsRow
    <2>2. tx[q].g \in Group
      BY <1>0, <2>1 DEF Own, WellFormed, HoldsRow
    <2>3. CASE tx[q].op # "update"
      BY <1>0, <2>1, <2>2, <2>3 DEF Own, HoldsRow, LeavesOthers, Live
    <2>4. CASE tx[q].op = "update"
      <3>1. "update" \in Alone /\ tx[q].row[tx[q].g] = group[tx[q].g] /\ Live(tx[q].g)
        BY <1>0, <2>1, <2>4 DEF Own, HoldsRow
      <3>2. tx[p].pc = "idle"
        BY <2>1, <2>4, <3>1 DEF Requests, Undisturbed
      <3>3. group' = group
        BY <3>2 DEF LeavesOthers
      <3> QED
        BY <1>0, <2>4, <3>1, <3>3 DEF HoldsRow, Live
    <2> QED
      BY <2>3, <2>4
  <1>4. HoldsRows(q)'
    BY <1>0 DEF Own, HoldsRows, LeavesOthers, Live, TxState
  <1>5. LocksInside(q)'
    BY <1>0 DEF Own, LocksInside, LeavesOthers, Live
  <1> QED
    BY <1>1, <1>2, <1>3, <1>4, <1>5 DEF Own

\* The tables agree when nothing in them changes.
LEMMA SameTables ==
    ASSUME Tables, UNCHANGED db
    PROVE  Tables'
  BY DEF Tables, db, CountMatches, OwnerIsMember, DismissedEmpty, ContactsMatch, Live

\* The records of the other requests stay, and all of them stay records.
LEMMA BecomesTyped ==
    ASSUME TypeOK, NEW p \in Proc, NEW t \in TxState, Becomes(p, t)
    PROVE  /\ tx' \in [Proc -> TxState] /\ tx'[p] = t
           /\ \A q \in Proc \ {p} : tx'[q] = tx[q]
  BY DEF TypeOK, Becomes

\* What a request has left to do in redis is a sequence of redis steps.
LEMMA TodoTyped ==
    /\ <<"info", "card">> \in Seq(Steps)
    /\ <<"members", "names", "list">> \in Seq(Steps)
    /\ <<"dropList", "info", "card">> \in Seq(Steps)
    /\ <<"info", "card", "dropList">> \in Seq(Steps)
    /\ <<"dropInfo", "dropCard", "dropList">> \in Seq(Steps)
    /\ <<"dropList", "dropInfo", "dropCard">> \in Seq(Steps)
    /\ <<"dropInfo", "dropCard">> \in Seq(Steps)
    /\ <<"dropInfo">> \in Seq(Steps)
  BY DEF Steps

LEMMA IdleTyped == Idle \in TxState
  BY DEF Idle, TxState, NoRow, Row

\* A request that ends, refused or done, gives up its locks and leaves no trace.
LEMMA RefuseKeeps ==
    ASSUME GroupInv, NEW p \in Proc, Refuse(p)
    PROVE  GroupInv'
  <1> USE GroupAssumption
  <1>0. Becomes(p, Idle) /\ lock' = Unlocked(p)
        /\ UNCHANGED db /\ calls' = calls /\ TypeOK /\ Tables /\ Requests
    BY DEF Refuse, GroupInv, Tables
  <1>2. TypeOK'
    BY <1>0, IdleTyped, BecomesTyped DEF TypeOK, Unlocked, db
  <1>3. tx'[p] = Idle /\ Idle.pc = "idle" /\ \A q \in Proc \ {p} : tx'[q] = tx[q]
    BY <1>0, IdleTyped, BecomesTyped DEF Idle
  <1>4. Own(p)'
    BY <1>0, <1>3 DEF TypeOK, Unlocked, Own, LocksInside, WellFormed, CreatesFresh, HoldsRow, HoldsRows
  <1>5. LeavesOthers(p)
    BY <1>0, <1>3 DEF LeavesOthers, TypeOK, Unlocked, db
  <1> QED
    BY <1>0, <1>2, <1>4, <1>5, OthersKeep, SameTables DEF GroupInv, Tables

\* A step that changes no table: the request goes on, perhaps with one more lock.
LEMMA LocalStep ==
    ASSUME GroupInv, NEW p \in Proc, NEW t \in TxState, Becomes(p, t),
           UNCHANGED db, calls' \in 0..MaxCalls,
           \/ lock' = lock
           \/ \E g \in Group : RowFree(p, g) /\ lock' = [lock EXCEPT ![g] = p],
           t.pc = "lock" /\ t.op = "create" => Fresh(t.g),
           ~Disturbs(p, t.op) \/ (tx[p].pc # "idle" /\ tx[p].op = t.op),
           Own(p)'
    PROVE  GroupInv'
  <1> USE GroupAssumption
  <1>1. TypeOK /\ Tables /\ Requests
    BY DEF GroupInv, Tables
  <1>2. /\ tx' \in [Proc -> TxState] /\ tx'[p] = t
        /\ \A q \in Proc \ {p} : tx'[q] = tx[q]
    BY <1>1, BecomesTyped
  <1>3. TypeOK'
    BY <1>1, <1>2 DEF TypeOK, db
  <1>4. LeavesOthers(p)
    BY <1>1, <1>2 DEF LeavesOthers, TypeOK, RowFree, db, Fresh
  <1> QED
    BY <1>1, <1>3, <1>4, OthersKeep, SameTables DEF GroupInv, Tables

\* A step from outside a transaction to the redis steps, or between them.
LEMMA RedisStep ==
    ASSUME GroupInv, NEW p \in Proc, NEW t \in TxState, Becomes(p, t),
           UNCHANGED <<db, lock, calls>>, tx[p].pc \in {"read", "redis"},
           t.pc = "redis", t.op = tx[p].op, t.g = tx[p].g, t.u = tx[p].u
    PROVE  GroupInv'
  <1>1. TypeOK /\ Own(p) /\ calls \in 0..MaxCalls
    BY DEF GroupInv, TypeOK, Requests, Own
  <1>2. tx'[p] = t
    BY <1>1, BecomesTyped
  <1>3. Own(p)'
    BY <1>1, <1>2 DEF Own, WellFormed, CreatesFresh, LocksInside, HoldsRow, HoldsRows
  <1> QED
    BY <1>1, <1>3, LocalStep

LEMMA CallStep ==
    ASSUME GroupInv, NEW p \in Proc, Call(p)
    PROVE  GroupInv'
  <1> USE GroupAssumption
  <1>1. TypeOK
    BY DEF GroupInv
  <1>2. PICK op \in Op, g \in Group \cup {NoGroup}, u \in User \cup {NoUser}, us \in SUBSET User :
          /\ Legal(op, g, u, us) /\ ~Disturbs(p, op)
          /\ Becomes(p, [Idle EXCEPT !.pc = EntryPc(op), !.op = op, !.g = g, !.u = u, !.us = us])
    BY DEF Call
  <1> DEFINE t == [Idle EXCEPT !.pc = EntryPc(op), !.op = op, !.g = g, !.u = u, !.us = us]
  <1>3. op \in Ops /\ EntryPc(op) \in {"read", "lock"}
    BY DEF EntryPc
  <1>4. t \in TxState
    BY <1>3, IdleTyped DEF TxState
  <1>5. /\ t.op = op /\ t.g = g /\ t.u = u /\ t.joined = {} /\ t.owned = {}
        /\ t.pc \in {"read", "lock"}
    BY <1>3 DEF Idle
  <1> HIDE DEF t
  <1>6. tx'[p] = t
    BY <1>1, <1>2, <1>4, BecomesTyped DEF t
  <1>7. UNCHANGED <<db, lock>> /\ calls' \in 0..MaxCalls
    BY <1>1 DEF Call, TypeOK
  <1>8. op = "create" => Fresh(g) /\ u \in User
    BY <1>2 DEF Legal, Account
  <1>9. WellFormed(p)'
    BY <1>2, <1>5, <1>6 DEF WellFormed, Legal, Known, Fresh, Account
  <1>10. CreatesFresh(p)'
    <2>1. \A q \in Proc \ {p} : tx'[q] = tx[q]
      BY <1>1, <1>2, <1>4, BecomesTyped DEF t
    <2> QED
      BY <2>1, <1>5, <1>6, <1>7, <1>8 DEF CreatesFresh, Fresh, db
  <1>11. \A h \in Group : lock'[h] # p
    BY <1>7 DEF GroupInv, Requests, LocksInside, Call
  <1>12. Own(p)'
    BY <1>5, <1>6, <1>9, <1>10, <1>11 DEF Own, HoldsRow, HoldsRows, LocksInside
  <1> QED
    BY <1>2, <1>4, <1>5, <1>7, <1>8, <1>12, LocalStep DEF t

\* An application is no part of what the invariant relates.
LEMMA ApplyStep ==
    ASSUME GroupInv, NEW g \in Group, NEW u \in User, Apply(g, u)
    PROVE  GroupInv'
  <1>1. TypeOK'
    BY DEF GroupInv, TypeOK, Apply
  <1>2. Tables'
    BY DEF GroupInv, Tables, Apply, CountMatches, OwnerIsMember, DismissedEmpty,
           ContactsMatch, Live
  <1>3. Requests'
    BY DEF GroupInv, Requests, Apply, WellFormed, CreatesFresh, HoldsRow, HoldsRows, LocksInside,
           Undisturbed, Live
  <1> QED
    BY <1>1, <1>2, <1>3 DEF GroupInv, Tables

\* Who has an account matters to no table: a user comes back as what he left.
LEMMA ReviveStep ==
    ASSUME GroupInv, NEW u \in User, Revive(u)
    PROVE  GroupInv'
  <1>1. TypeOK'
    BY DEF GroupInv, TypeOK, Revive
  <1>2. Tables'
    BY DEF GroupInv, Tables, Revive, CountMatches, OwnerIsMember, DismissedEmpty,
           ContactsMatch, Live
  <1>3. Requests'
    BY DEF GroupInv, Requests, Revive, WellFormed, CreatesFresh, HoldsRow, HoldsRows, LocksInside,
           Undisturbed, Live
  <1> QED
    BY <1>1, <1>2, <1>3 DEF GroupInv, Tables

LEMMA ExpireStep ==
    ASSUME GroupInv, NEW g \in Group, Expire(g)
    PROVE  GroupInv'
  <1>1. UNCHANGED <<db, lock, tx, calls>>
    BY DEF Expire
  <1> QED
    BY <1>1 DEF db, GroupInv, TypeOK, CountMatches, OwnerIsMember, DismissedEmpty,
                ContactsMatch, Live, Requests, WellFormed, CreatesFresh, HoldsRow, HoldsRows,
                LocksInside, Undisturbed

\* The steps that read before they lock.
LEMMA ReadStep ==
    ASSUME GroupInv, NEW p \in Proc,
           \/ PassRead(p) \/ DeleteUsersRead(p) \/ GetGroupInfo(p) \/ GetGroupMemberList(p)
    PROVE  GroupInv'
  <1> USE GroupAssumption
  <1>1. TypeOK /\ Tables
    BY DEF GroupInv, Tables
  <1>2. tx[p] \in TxState /\ Own(p) /\ calls \in 0..MaxCalls
    BY DEF GroupInv, TypeOK, Requests, Own
  <1>3. ASSUME PassRead(p), ~Refuse(p) PROVE GroupInv'
    <2> DEFINE t == [tx[p] EXCEPT !.pc = "lock", !.seen = member[tx[p].g]]
    <2>1. Becomes(p, t) /\ UNCHANGED <<db, lock, calls>> /\ tx[p].pc = "read" /\ tx[p].op = "pass"
      BY <1>3 DEF PassRead
    <2>2. t \in TxState
      BY <1>1, <1>2, <2>1 DEF TxState, TypeOK, Own, WellFormed
    <2>3. t.pc = "lock" /\ t.op = "pass" /\ t.g = tx[p].g /\ t.u = tx[p].u
      BY <1>2, <2>1 DEF TxState
    <2> HIDE DEF t
    <2>4. tx'[p] = t
      BY <1>1, <2>1, <2>2, BecomesTyped
    <2>5. Own(p)'
      BY <1>2, <2>1, <2>3, <2>4
      DEF Own, WellFormed, CreatesFresh, LocksInside, HoldsRow, HoldsRows
    <2> QED
      BY <1>2, <2>1, <2>2, <2>3, <2>5, LocalStep
  <1>4. ASSUME DeleteUsersRead(p) PROVE GroupInv'
    <2> DEFINE u == tx[p].u
               t == [tx[p] EXCEPT !.pc = "lock", !.owned = Owned(u),
                                  !.joined = Joined(u) \ Owned(u)]
    <2>1. /\ Becomes(p, t) /\ UNCHANGED <<db, lock, calls>>
          /\ tx[p].pc = "read" /\ tx[p].op = "deleteUser"
      BY <1>4 DEF DeleteUsersRead
    <2>2. t \in TxState
      BY <1>2 DEF TxState, Owned, Joined
    <2>3. /\ t.pc = "lock" /\ t.op = "deleteUser" /\ t.u = u
          /\ t.joined = Joined(u) \ Owned(u) /\ t.owned = Owned(u)
      BY <1>2, <2>1 DEF TxState
    <2> HIDE DEF t
    <2>4. /\ \A g \in Joined(u) \ Owned(u) : group[g].state # "none" /\ group[g].owner # u
          /\ \A g \in Owned(u) : group[g].state # "none" /\ group[g].owner = u
      BY <1>1 DEF Joined, Owned, Live, Tables, DismissedEmpty
    <2>5. \A g \in t.joined \cup t.owned : g \in Group
      BY <2>2 DEF TxState
    <2>6. tx'[p] = t
      BY <1>1, <2>1, <2>2, BecomesTyped
    <2>7. Own(p)'
      BY <1>2, <2>1, <2>3, <2>4, <2>5, <2>6
      DEF Own, WellFormed, CreatesFresh, LocksInside, HoldsRow, HoldsRows, db
    <2> QED
      BY <1>2, <2>1, <2>2, <2>3, <2>7, LocalStep
  <1>5. ASSUME GetGroupInfo(p), ~Refuse(p) PROVE GroupInv'
    <2> DEFINE t == [tx[p] EXCEPT !.pc = "redis", !.row[tx[p].g] = group[tx[p].g],
                                  !.todo = <<"info", "card">>]
    <2>1. Becomes(p, t) /\ UNCHANGED <<db, lock, calls>> /\ tx[p].pc = "read" /\ tx[p].op = "getInfo"
      BY <1>5 DEF GetGroupInfo
    <2>2. t \in TxState
      BY <1>1, <1>2, <2>1, TodoTyped DEF TxState, TypeOK, Own, WellFormed
    <2>3. t.pc = "redis" /\ t.op = tx[p].op /\ t.g = tx[p].g /\ t.u = tx[p].u
      BY <1>2 DEF TxState
    <2> QED
      BY <2>1, <2>2, <2>3, RedisStep
  <1>6. ASSUME GetGroupMemberList(p), ~Refuse(p) PROVE GroupInv'
    <2> DEFINE t == [tx[p] EXCEPT !.pc = "redis", !.todo = <<"members", "names", "list">>]
    <2>1. Becomes(p, t) /\ UNCHANGED <<db, lock, calls>> /\ tx[p].pc = "read" /\ tx[p].op = "getList"
      BY <1>6 DEF GetGroupMemberList
    <2>2. t \in TxState
      BY <1>1, <1>2, <2>1, TodoTyped DEF TxState, TypeOK, Own, WellFormed
    <2>3. t.pc = "redis" /\ t.op = tx[p].op /\ t.g = tx[p].g /\ t.u = tx[p].u
      BY <1>2 DEF TxState
    <2> QED
      BY <2>1, <2>2, <2>3, RedisStep
  <1> QED
    BY <1>3, <1>4, <1>5, <1>6, RefuseKeeps

\* The redis steps change the caches, which no table depends on.
LEMMA RedisStepKeeps ==
    ASSUME GroupInv, NEW p \in Proc,
           \/ PutInfo(p) \/ PutCard(p) \/ QueryMembers(p) \/ ReadNames(p) \/ PutList(p)
           \/ DropKeys(p) \/ RedisFails(p)
    PROVE  GroupInv'
  <1>1. tx[p] \in TxState /\ TypeOK
    BY DEF GroupInv, TypeOK
  <1>2. SUFFICES ASSUME NEW step, NEW t \in TxState, Done(p, step, t),
                        t.pc = tx[p].pc, t.op = tx[p].op, t.g = tx[p].g, t.u = tx[p].u,
                        t.todo = tx[p].todo
                 PROVE  GroupInv'
    <2>1. ASSUME ReadNames(p) PROVE GroupInv'
      <3> DEFINE t == [tx[p] EXCEPT !.seen = @ \ deleted]
      <3>1. t \in TxState /\ t.pc = tx[p].pc /\ t.op = tx[p].op /\ t.g = tx[p].g
            /\ t.u = tx[p].u /\ t.todo = tx[p].todo
        BY <1>1 DEF TxState
      <3>2. Done(p, "names", t)
        BY <2>1 DEF ReadNames
      <3> QED
        BY <1>2, <3>1, <3>2
    <2>2. ASSUME NEW step, Done(p, step, tx[p]) PROVE GroupInv'
      BY <1>1, <1>2, <2>2
    <2>3. ASSUME QueryMembers(p) PROVE GroupInv'
      <3> DEFINE t == [tx[p] EXCEPT !.seen = member[tx[p].g]]
      <3>1. Done(p, "members", t) /\ tx[p].pc = "redis" /\ tx[p].op = "getList"
        BY <2>3 DEF QueryMembers, Done
      <3>2. tx[p].g \in Group
        BY <3>1 DEF GroupInv, Requests, WellFormed
      <3>3. t \in TxState /\ t.pc = tx[p].pc /\ t.op = tx[p].op /\ t.g = tx[p].g
            /\ t.u = tx[p].u /\ t.todo = tx[p].todo
        BY <1>1, <3>2 DEF TxState, TypeOK
      <3> QED
        BY <1>2, <3>1, <3>3
    <2> QED
      BY <2>1, <2>2, <2>3 DEF PutInfo, PutCard, PutList, DropKeys, RedisFails
  <1> DEFINE s == [t EXCEPT !.todo = Tail(@)]
  <1>3. t.todo \in Seq(Steps) /\ t.todo # << >> /\ tx[p].pc = "redis"
        /\ Becomes(p, s) /\ UNCHANGED <<db, lock, calls>>
    BY <1>2 DEF Done, TxState
  <1>4. Tail(t.todo) \in Seq(Steps)
    BY <1>3
  <1>5. s \in TxState
    BY <1>4 DEF TxState
  <1>6. s.pc = "redis" /\ s.op = tx[p].op /\ s.g = tx[p].g /\ s.u = tx[p].u
    BY <1>2, <1>3 DEF TxState
  <1> QED
    BY <1>3, <1>5, <1>6, RedisStep

LEMMA ReplyStep ==
    ASSUME GroupInv, NEW p \in Proc, Reply(p)
    PROVE  GroupInv'
  <1>1. TypeOK /\ tx[p].pc = "redis" /\ \A g \in Group : lock[g] # p
    BY DEF GroupInv, Reply, Requests, LocksInside
  <1>2. lock' = Unlocked(p)
    BY <1>1 DEF Reply, TypeOK, Unlocked
  <1>3. Refuse(p)
    BY <1>2 DEF Reply, Refuse
  <1> QED
    BY <1>3, RefuseKeeps

\* Locking a group's row: what is read is the row, and the check was made on it.
LEMMA LockGroupKeeps ==
    ASSUME GroupInv, NEW p \in Proc,
           NEW op \in {"leave", "remove", "enter", "pass", "dismiss", "delete"},
           NEW ok, NEW seen, LockGroup(p, op, ok, seen),
           tx[p].g \in Group => seen \in SUBSET User,
           ok /\ op = "leave" => group[tx[p].g].owner # tx[p].u /\ tx[p].u \in member[tx[p].g],
           ok /\ op = "remove" =>
             group[tx[p].g].owner \notin tx[p].us /\ seen = member[tx[p].g],
           ok /\ op = "pass" => group[tx[p].g].status = "NORMAL",
           ok /\ op = "dismiss" => group[tx[p].g].owner = tx[p].u
    PROVE  GroupInv'
  <1> USE GroupAssumption
  <1> DEFINE g == tx[p].g
  <1>1. TypeOK /\ tx[p] \in TxState /\ Own(p) /\ calls \in 0..MaxCalls
    BY DEF GroupInv, TypeOK, Requests, Own
  <1>2. SUFFICES ASSUME ~Refuse(p) PROVE GroupInv'
    BY RefuseKeeps
  <1> DEFINE t == [tx[p] EXCEPT !.pc = "commit", !.row[g] = group[g], !.seen = seen]
  <1>3. /\ tx[p].pc = "lock" /\ tx[p].op = op /\ RowFree(p, g) /\ Live(g) /\ ok
        /\ lock' = [lock EXCEPT ![g] = p] /\ Becomes(p, t) /\ UNCHANGED <<db, calls>>
    BY <1>2 DEF LockGroup
  <1>4. g \in Group
    BY <1>1, <1>3 DEF Own, WellFormed
  <1>5. t \in TxState
    BY <1>1, <1>4 DEF TxState, TypeOK
  <1>6. /\ t.pc = "commit" /\ t.op = op /\ t.g = g /\ t.u = tx[p].u /\ t.us = tx[p].us
        /\ t.row[g] = group[g] /\ t.seen = seen
    BY <1>1, <1>3, <1>4 DEF TxState
  <1> HIDE DEF t
  <1>7. tx'[p] = t
    BY <1>1, <1>3, <1>5, BecomesTyped
  <1>8. HoldsRow(p)'
    BY <1>1, <1>2, <1>3, <1>4, <1>6, <1>7 DEF HoldsRow, TypeOK, db, Live
  <1>9. Own(p)'
    BY <1>1, <1>3, <1>4, <1>6, <1>7, <1>8
    DEF Own, WellFormed, CreatesFresh, LocksInside, HoldsRows, Live, db, TypeOK
  <1> QED
    BY <1>1, <1>3, <1>4, <1>5, <1>6, <1>9, LocalStep

LEMMA LockStep ==
    ASSUME GroupInv, NEW p \in Proc,
           \/ LeaveLock(p) \/ RemoveLock(p) \/ EnterLock(p) \/ PassLock(p)
           \/ DismissLock(p) \/ DeleteLock(p)
    PROVE  GroupInv'
  <1> DEFINE g == tx[p].g
  <1>1. g \in Group => member[g] \in SUBSET User
    BY DEF GroupInv, TypeOK
  <1>2. tx[p].seen \in SUBSET User
    BY DEF GroupInv, TypeOK, TxState
  <1>3. CASE LeaveLock(p)
    BY <1>3, LockGroupKeeps DEF LeaveLock
  <1>4. CASE RemoveLock(p)
    BY <1>1, <1>4, LockGroupKeeps DEF RemoveLock
  <1>5. CASE EnterLock(p)
    BY <1>5, LockGroupKeeps DEF EnterLock
  <1>6. CASE PassLock(p)
    BY <1>2, <1>6, LockGroupKeeps DEF PassLock
  <1>7. CASE DismissLock(p)
    BY <1>7, LockGroupKeeps DEF DismissLock
  <1>8. CASE DeleteLock(p)
    BY <1>8, LockGroupKeeps DEF DeleteLock
  <1> QED
    BY <1>3, <1>4, <1>5, <1>6, <1>7, <1>8

\* Request p may save the row of g as r: it is alone on the row, keeps the owner,
\* and brings the row into being only if it is creating the group.
Writes(p, g, r) ==
  /\ g \in Group /\ g = tx[p].g /\ tx[p].pc # "idle" /\ RowFree(p, g) /\ r \in Row
  /\ group[g].state # "none" => r.state # "none" /\ r.owner = group[g].owner
  /\ group[g].state = "none" =>
       r.state = "none" \/ (tx[p].pc = "lock" /\ tx[p].op = "create")

\* The step changes what is stored of members, contacts and applications for g only.
Confined(g) ==
  /\ member' \in [Group -> SUBSET User] /\ contact' \in [Group -> [User -> Nat]]
  /\ applied' \in [Group -> SUBSET User] /\ stranded' \in [Group -> SUBSET User]
  /\ \A h \in Group : h # g =>
       member'[h] = member[h] /\ contact'[h] = contact[h] /\ stranded'[h] = stranded[h]

\* The contacts of g agree with its members afterwards.
Contacted(g) ==
  /\ stranded'[g] \subseteq member'[g]
  /\ \A u \in User : contact'[g][u] = IF u \in member'[g] \ stranded'[g] THEN 1 ELSE 0

\* What is stored for g afterwards agrees with its row r.
Agrees(g, r) ==
  /\ r.state = "live" => r.cnt = Cardinality(member'[g]) /\ r.owner \in member'[g]
  /\ r.state # "live" => member'[g] = {}
  /\ Contacted(g)

LEMMA OneGroup ==
    ASSUME TypeOK, Tables, NEW g \in Group, NEW r, Confined(g), Agrees(g, r),
           group' = [group EXCEPT ![g] = r], deleted' = deleted
    PROVE  Tables'
  <1>1. \A h \in Group : group'[h] = IF h = g THEN r ELSE group[h]
    BY DEF TypeOK
  <1>2. CountMatches'
    BY <1>1 DEF Tables, CountMatches, Live, Confined, Agrees
  <1>3. OwnerIsMember'
    BY <1>1 DEF Tables, OwnerIsMember, Live, Confined, Agrees
  <1>4. DismissedEmpty'
    BY <1>1 DEF Tables, DismissedEmpty, Live, Confined, Agrees, Contacted
  <1>5. ContactsMatch'
    BY <1>1 DEF Tables, ContactsMatch, Confined, Agrees, Contacted
  <1> QED
    BY <1>2, <1>3, <1>4, <1>5 DEF Tables

\* A commit to one group keeps the invariant.
LEMMA CommitKeeps ==
    ASSUME GroupInv, NEW p \in Proc, NEW g, NEW r, NEW steps \in Seq(Steps),
           CommitRow(p, g, r, steps), Writes(p, g, r), Confined(g), Agrees(g, r)
    PROVE  GroupInv'
  <1> USE GroupAssumption
  <1>1. /\ TypeOK /\ Tables /\ Requests
        /\ tx[p] \in TxState /\ Own(p)
    BY DEF GroupInv, Tables, TypeOK, Requests, Own
  <1>0. /\ g \in Group /\ g = tx[p].g /\ tx[p].pc # "idle" /\ RowFree(p, g) /\ r \in Row
        /\ group[g].state # "none" => r.state # "none" /\ r.owner = group[g].owner
        /\ group[g].state = "none" =>
             r.state = "none" \/ (tx[p].pc = "lock" /\ tx[p].op = "create")
    BY DEF Writes
  <1>10. /\ member' \in [Group -> SUBSET User] /\ contact' \in [Group -> [User -> Nat]]
         /\ applied' \in [Group -> SUBSET User] /\ stranded' \in [Group -> SUBSET User]
         /\ \A h \in Group : h # g => member'[h] = member[h]
    BY DEF Confined
  <1> DEFINE t == [tx[p] EXCEPT !.pc = "redis", !.row[g] = r, !.todo = steps]
  <1>2. /\ group' = [group EXCEPT ![g] = r] /\ lock' = Unlocked(p) /\ Becomes(p, t)
        /\ deleted' = deleted /\ calls' = calls
    BY DEF CommitRow
  <1>3. t \in TxState
    BY <1>0, <1>1 DEF TxState, Writes
  <1>4. t.pc = "redis" /\ t.op = tx[p].op /\ t.g = tx[p].g /\ t.u = tx[p].u
    BY <1>0, <1>1 DEF TxState, Writes
  <1> HIDE DEF t
  <1>5. /\ tx' \in [Proc -> TxState] /\ tx'[p] = t
        /\ \A q \in Proc \ {p} : tx'[q] = tx[q]
    BY <1>1, <1>2, <1>3, BecomesTyped
  <1>6. TypeOK'
    BY <1>0, <1>1, <1>2, <1>5, <1>10 DEF TypeOK, Unlocked
  <1>7. Tables'
    BY <1>0, <1>1, <1>2, OneGroup
  <1>8. Own(p)'
    BY <1>0, <1>1, <1>2, <1>4, <1>5
    DEF Own, WellFormed, CreatesFresh, LocksInside, HoldsRow, HoldsRows, Unlocked, TypeOK
  <1>9. LeavesOthers(p)
    <2>1. \A h \in Group : /\ group'[h] = IF h = g THEN r ELSE group[h]
                           /\ lock'[h] = IF lock[h] = p THEN NoProc ELSE lock[h]
      BY <1>0, <1>1, <1>2 DEF TypeOK, Unlocked
    <2>2. lock[g] \in {p, NoProc}
      BY <1>0 DEF RowFree
    <2>3. ASSUME NEW q \in Proc \ {p}, tx[q].pc = "lock", tx[q].op = "create"
          PROVE  group'[tx[q].g].state = group[tx[q].g].state
      <3>1. tx[q].g \in Group /\ group[tx[q].g].state = "none"
        BY <1>1, <2>3 DEF Requests, WellFormed, CreatesFresh
      <3>2. CASE tx[q].g # g
        BY <2>1, <3>1, <3>2
      <3>3. CASE tx[q].g = g /\ r.state = "none"
        BY <2>1, <3>1, <3>3
      <3>4. CASE tx[q].g = g /\ tx[p].pc = "lock" /\ tx[p].op = "create"
        BY <1>0, <1>1, <2>3, <3>4 DEF Own, CreatesFresh
      <3> QED
        BY <1>0, <3>1, <3>2, <3>3, <3>4
    <2>4. ASSUME NEW q \in Proc \ {p}, NEW h \in Group
          PROVE  /\ lock'[h] = q => lock[h] = q
                 /\ lock[h] = q =>
                      lock'[h] = q /\ group'[h] = group[h] /\ member'[h] = member[h]
      <3>1. lock[h] = q => h # g
        BY <2>2, GroupAssumption
      <3>2. lock[h] = q => member'[h] = member[h]
        BY <1>10, <3>1
      <3>3. lock[h] = q => group'[h] = group[h] /\ lock'[h] = q
        BY <2>1, <3>1
      <3>4. lock'[h] = q => lock[h] = q
        <4>1. lock'[h] = IF lock[h] = p THEN NoProc ELSE lock[h]
          BY <2>1
        <4>2. q # NoProc
          BY GroupAssumption
        <4> QED
          BY <4>1, <4>2
      <3> QED
        BY <3>2, <3>3, <3>4
    <2>5. \A h \in Group : group[h].state # "none" =>
            group'[h].state # "none" /\ group'[h].owner = group[h].owner
      BY <1>0, <2>1
    <2> QED
      BY <1>0, <1>4, <1>5, <2>3, <2>4, <2>5 DEF LeavesOthers
  <1> QED
    BY <1>1, <1>6, <1>7, <1>8, <1>9, OthersKeep DEF GroupInv, Tables

\* What dropping users leaves of a group, and what adding one makes of it.
LEMMA DropUsersFacts ==
    ASSUME TypeOK, Tables, NEW g \in Group, NEW us, DropUsers(g, us)
    PROVE  /\ Confined(g)
           /\ member'[g] = member[g] \ us
           /\ Contacted(g)
  <1>1. /\ member' \in [Group -> SUBSET User] /\ applied' \in [Group -> SUBSET User]
        /\ \A h \in Group : h # g => member'[h] = member[h]
        /\ member'[g] = member[g] \ us
    BY DEF DropUsers, TypeOK
  <1>3. /\ stranded' \in [Group -> SUBSET User] /\ stranded'[g] = stranded[g] \ us
        /\ \A h \in Group : h # g => stranded'[h] = stranded[h]
    BY DEF DropUsers, TypeOK
  <1>2. /\ contact' \in [Group -> [User -> Nat]]
        /\ \A h \in Group : h # g => contact'[h] = contact[h]
        /\ \A u \in User : contact'[g][u] = IF u \in us THEN 0 ELSE contact[g][u]
    BY DEF DropUsers, TypeOK
  <1>4. Contacted(g)
    BY <1>1, <1>2, <1>3 DEF Tables, ContactsMatch, Contacted
  <1> QED
    BY <1>1, <1>2, <1>3, <1>4 DEF Confined

LEMMA AddUserFacts ==
    ASSUME TypeOK, Tables, NEW g \in Group, NEW u \in User, u \notin member[g], AddUser(g, u),
           applied' \in [Group -> SUBSET User]
    PROVE  /\ Confined(g)
           /\ member'[g] = member[g] \cup {u}
           /\ Contacted(g)
  <1>1. /\ member' \in [Group -> SUBSET User]
        /\ \A h \in Group : h # g => member'[h] = member[h]
        /\ member'[g] = member[g] \cup {u}
    BY DEF AddUser, TypeOK
  <1>2. /\ contact' \in [Group -> [User -> Nat]]
        /\ \A h \in Group : h # g => contact'[h] = contact[h]
        /\ \A x \in User : contact'[g][x] = IF x = u THEN contact[g][u] + 1 ELSE contact[g][x]
    BY DEF AddUser, TypeOK
  <1>3. stranded' = stranded /\ stranded \in [Group -> SUBSET User] /\ u \notin stranded[g]
    BY DEF AddUser, TypeOK, Tables, ContactsMatch
  <1>4. Contacted(g)
    BY <1>1, <1>2, <1>3 DEF Tables, ContactsMatch, Contacted
  <1> QED
    BY <1>1, <1>2, <1>3, <1>4 DEF Confined

\* The members of a group are finitely many, so they can be counted.
LEMMA MembersFinite ==
    ASSUME TypeOK, NEW g \in Group
    PROVE  IsFiniteSet(member[g]) /\ Cardinality(member[g]) \in Nat
  <1>1. member[g] \in SUBSET User
    BY DEF TypeOK
  <1>2. IsFiniteSet(member[g])
    BY <1>1, GroupAssumption, FS_Subset
  <1> QED
    BY <1>2, FS_CardinalityType

\* Nobody has a lock on the row of a group that is not there.
LEMMA CreateStep ==
    ASSUME GroupInv, NEW p \in Proc, CreateGroup(p)
    PROVE  GroupInv'
  <1> DEFINE g == tx[p].g
             u == tx[p].u
             r == [state |-> "live", owner |-> u, cnt |-> 1, status |-> "NORMAL"]
  <1>1. TypeOK /\ Tables /\ Own(p)
    BY DEF GroupInv, Tables, Requests, Own
  <1>2. tx[p].pc = "lock" /\ tx[p].op = "create" /\ AddUser(g, u) /\ applied' = applied
        /\ CommitRow(p, g, r, <<"info", "card">>)
    BY DEF CreateGroup
  <1>3. g \in Group /\ u \in User /\ group[g].state = "none"
    BY <1>1, <1>2 DEF Own, WellFormed, CreatesFresh
  <1>4. member[g] \cup {u} = {u} /\ u \notin member[g]
    BY <1>1, <1>3 DEF Tables, DismissedEmpty, Live
  <1>5. RowFree(p, g)
    <2>1. lock[g] \in Proc \cup {NoProc}
      BY <1>1, <1>3 DEF TypeOK
    <2>2. \A q \in Proc : lock[g] # q
      BY <1>3 DEF GroupInv, Requests, LocksInside, Live
    <2> QED
      BY <2>1, <2>2 DEF RowFree
  <1>6. r \in Row /\ r.state = "live" /\ r.owner = u /\ r.cnt = 1
    BY <1>3 DEF Row
  <1>7. Writes(p, g, r)
    BY <1>2, <1>3, <1>5, <1>6 DEF Writes
  <1>8. applied' \in [Group -> SUBSET User]
    BY <1>1, <1>2 DEF TypeOK
  <1>9. Confined(g) /\ member'[g] = {u} /\ Contacted(g)
    BY <1>1, <1>2, <1>3, <1>4, <1>8, AddUserFacts
  <1>10. Agrees(g, r)
    BY <1>6, <1>9, FS_Singleton DEF Agrees
  <1> QED
    BY <1>2, <1>7, <1>9, <1>10, TodoTyped, CommitKeeps

\* What a request knows of its group when it commits.
LEMMA AtCommit ==
    ASSUME GroupInv, NEW p \in Proc, NEW op, At(p, op)
    PROVE  /\ TypeOK /\ Tables /\ tx[p] \in TxState /\ Own(p) /\ tx[p].g \in Group
           /\ tx[p].op = op /\ tx[p].pc = "commit"
           /\ (op # "update" => RowFree(p, tx[p].g))
           /\ tx[p].row[tx[p].g] = group[tx[p].g] /\ Live(tx[p].g)
           /\ group[tx[p].g] \in Row
           /\ group[tx[p].g].cnt = Cardinality(member[tx[p].g])
           /\ group[tx[p].g].owner \in member[tx[p].g]
           /\ IsFiniteSet(member[tx[p].g]) /\ Cardinality(member[tx[p].g]) \in Nat
           /\ (op \in {"enter", "pass", "leave"} => tx[p].u \in User)
  <1> DEFINE g == tx[p].g
  <1>1. TypeOK /\ Tables /\ tx[p] \in TxState /\ Own(p) /\ tx[p].op = op /\ tx[p].pc = "commit"
    BY DEF GroupInv, TypeOK, Tables, Requests, Own, At
  <1>2. g \in Group /\ (op \in {"enter", "pass", "leave"} => tx[p].u \in User)
    BY <1>1 DEF Own, WellFormed, HoldsRow
  <1>3. (op # "update" => lock[g] = p) /\ tx[p].row[g] = group[g] /\ Live(g)
    BY <1>1, <1>2 DEF Own, HoldsRow
  <1>4. group[g] \in Row
    BY <1>1, <1>2 DEF TypeOK
  <1>5. group[g].cnt = Cardinality(member[g]) /\ group[g].owner \in member[g]
    BY <1>1, <1>2, <1>3 DEF Tables, CountMatches, OwnerIsMember
  <1>6. IsFiniteSet(member[g]) /\ Cardinality(member[g]) \in Nat
    BY <1>1, <1>2, MembersFinite
  <1> QED
    BY <1>1, <1>2, <1>3, <1>4, <1>5, <1>6 DEF RowFree

\* Counting down by as many as leave keeps the count, since they were members.
LEMMA CountedDown ==
    ASSUME NEW r \in Row, NEW M, IsFiniteSet(M), r.cnt = Cardinality(M), r.state = "live",
           NEW S \in SUBSET M, r.owner \in M \ S
    PROVE  LET d == CountDown(r, Cardinality(S))
           IN  d \in Row /\ d.state = "live" /\ d.owner = r.owner /\ d.cnt = Cardinality(M \ S)
  <1> DEFINE n == Cardinality(S)
             d == CountDown(r, n)
  <1>1. M \cap S = S /\ IsFiniteSet(S)
    BY FS_Subset
  <1>2. n \in Nat /\ Cardinality(M) \in Nat /\ n <= Cardinality(M)
    BY <1>1, FS_CardinalityType, FS_Subset
  <1>3. Cardinality(M \ S) = Cardinality(M) - n
    BY <1>1, FS_Difference
  <1> HIDE DEF n
  <1>4. d = [r EXCEPT !.cnt = IF r.cnt > n THEN r.cnt - n ELSE 0]
    BY DEF CountDown
  <1>5. d.cnt = IF r.cnt > n THEN r.cnt - n ELSE 0
    BY <1>4 DEF Row
  <1>6. d.cnt = r.cnt - n
    BY <1>2, <1>5
  <1>7. d \in Row /\ d.state = "live" /\ d.owner = r.owner
    BY <1>2, <1>4, <1>6 DEF Row
  <1> QED
    BY <1>3, <1>6, <1>7 DEF n

LEMMA LeaveStep ==
    ASSUME GroupInv, NEW p \in Proc, LeaveCommit(p)
    PROVE  GroupInv'
  <1> DEFINE g == tx[p].g
             r == CountDown(group[g], 1)
             S == {tx[p].u}
  <1>1. At(p, "leave") /\ DropUsers(g, S)
        /\ CommitRow(p, g, CountDown(tx[p].row[g], 1), <<"dropList", "info", "card">>)
    BY DEF LeaveCommit
  <1>2. /\ TypeOK /\ Tables /\ Own(p) /\ g \in Group /\ tx[p].op = "leave" /\ tx[p].pc = "commit"
        /\ RowFree(p, g) /\ tx[p].row[g] = group[g] /\ Live(g) /\ group[g] \in Row
        /\ group[g].cnt = Cardinality(member[g]) /\ group[g].owner \in member[g]
        /\ IsFiniteSet(member[g])
    BY <1>1, AtCommit
  <1>3. group[g].owner # tx[p].u /\ tx[p].u \in member[g]
    BY <1>2 DEF Own, HoldsRow
  <1>4. Cardinality(S) = 1 /\ S \in SUBSET member[g]
    BY <1>3, FS_Singleton
  <1>5. r \in Row /\ r.state = "live" /\ r.owner = group[g].owner
        /\ r.cnt = Cardinality(member[g] \ S)
    BY <1>2, <1>3, <1>4, CountedDown DEF Live
  <1>6. Confined(g) /\ member'[g] = member[g] \ S /\ Contacted(g)
    BY <1>1, <1>2, DropUsersFacts
  <1>7. CommitRow(p, g, r, <<"dropList", "info", "card">>)
    BY <1>1, <1>2
  <1> HIDE DEF r
  <1>8. Writes(p, g, r)
    BY <1>2, <1>5 DEF Writes, Live
  <1>9. Agrees(g, r)
    BY <1>2, <1>3, <1>5, <1>6 DEF Agrees
  <1> QED
    BY <1>6, <1>7, <1>8, <1>9, TodoTyped, CommitKeeps

LEMMA RemoveStep ==
    ASSUME GroupInv, NEW p \in Proc, RemoveCommit(p)
    PROVE  GroupInv'
  <1> DEFINE g == tx[p].g
             S == tx[p].us \cap tx[p].seen
             r == CountDown(group[g], Cardinality(S))
  <1>1. At(p, "remove") /\ DropUsers(g, S)
        /\ CommitRow(p, g, CountDown(tx[p].row[g], Cardinality(S)), <<"info", "card", "dropList">>)
    BY DEF RemoveCommit
  <1>2. /\ TypeOK /\ Tables /\ Own(p) /\ g \in Group /\ tx[p].op = "remove" /\ tx[p].pc = "commit"
        /\ RowFree(p, g) /\ tx[p].row[g] = group[g] /\ Live(g) /\ group[g] \in Row
        /\ group[g].cnt = Cardinality(member[g]) /\ group[g].owner \in member[g]
        /\ IsFiniteSet(member[g])
    BY <1>1, AtCommit
  <1>3. group[g].owner \notin S /\ S \in SUBSET member[g]
    BY <1>2 DEF Own, HoldsRow
  <1>4. r \in Row /\ r.state = "live" /\ r.owner = group[g].owner
        /\ r.cnt = Cardinality(member[g] \ S)
    BY <1>2, <1>3, CountedDown DEF Live
  <1>5. Confined(g) /\ member'[g] = member[g] \ S /\ Contacted(g)
    BY <1>1, <1>2, DropUsersFacts
  <1>6. CommitRow(p, g, r, <<"info", "card", "dropList">>)
    BY <1>1, <1>2
  <1> HIDE DEF r
  <1>7. Writes(p, g, r)
    BY <1>2, <1>4 DEF Writes, Live
  <1>8. Agrees(g, r)
    BY <1>2, <1>3, <1>4, <1>5 DEF Agrees
  <1> QED
    BY <1>5, <1>6, <1>7, <1>8, TodoTyped, CommitKeeps

\* Of EnterGroupDirectly and PassContactApply: the count grows with the members.
LEMMA InsertStep ==
    ASSUME GroupInv, NEW p \in Proc, NEW op \in {"enter", "pass"}, At(p, op),
           NEW steps \in Seq(Steps), Insert(p, steps),
           tx[p].g \in Group /\ tx[p].u \in User => applied' \in [Group -> SUBSET User]
    PROVE  GroupInv'
  <1> DEFINE g == tx[p].g
             u == tx[p].u
             r == CountUp(group[g])
  <1>1. SUFFICES ASSUME ~Refuse(p) PROVE GroupInv'
    BY RefuseKeeps
  <1>2. /\ TypeOK /\ Tables /\ g \in Group /\ tx[p].pc = "commit" /\ u \in User
        /\ RowFree(p, g) /\ tx[p].row[g] = group[g] /\ Live(g) /\ group[g] \in Row
        /\ group[g].cnt = Cardinality(member[g]) /\ group[g].owner \in member[g]
        /\ IsFiniteSet(member[g]) /\ Cardinality(member[g]) \in Nat
    BY AtCommit
  <1>3. u \notin member[g] /\ AddUser(g, u) /\ CommitRow(p, g, r, steps)
    BY <1>1, <1>2 DEF Insert
  <1>4. applied' \in [Group -> SUBSET User]
    BY <1>2
  <1>5. Cardinality(member[g] \cup {u}) = Cardinality(member[g]) + 1
    <2>1. IsFiniteSet(member[g]) /\ u \notin member[g]
      BY <1>2, <1>3
    <2> QED
      BY <2>1, FS_AddElement
  <1>6. r \in Row /\ r.state = "live" /\ r.owner = group[g].owner
        /\ r.cnt = Cardinality(member[g]) + 1
    BY <1>2 DEF CountUp, Row, Live
  <1>7. Confined(g) /\ member'[g] = member[g] \cup {u} /\ Contacted(g)
    BY <1>2, <1>3, <1>4, AddUserFacts
  <1> HIDE DEF r
  <1>8. Writes(p, g, r)
    BY <1>2, <1>6 DEF Writes, Live
  <1>9. Agrees(g, r)
    BY <1>2, <1>5, <1>6, <1>7 DEF Agrees
  <1> QED
    BY <1>3, <1>7, <1>8, <1>9, CommitKeeps

LEMMA EnterStep ==
    ASSUME GroupInv, NEW p \in Proc, EnterCommit(p) \/ PassCommit(p)
    PROVE  GroupInv'
  <1>1. applied \in [Group -> SUBSET User]
    BY DEF GroupInv, TypeOK
  <1>2. CASE EnterCommit(p)
    <2>1. At(p, "enter") /\ Insert(p, <<"info", "card", "dropList">>) /\ applied' = applied
      BY <1>2 DEF EnterCommit
    <2> QED
      BY <1>1, <2>1, TodoTyped, InsertStep
  <1>3. CASE PassCommit(p)
    <2>1. At(p, "pass") /\ Insert(p, <<"info", "card", "dropList">>)
      BY <1>3 DEF PassCommit
    <2>2. tx[p].g \in Group /\ tx[p].u \in User => applied' \in [Group -> SUBSET User]
      BY <1>1, <1>3 DEF PassCommit
    <2> QED
      BY <2>1, <2>2, TodoTyped, InsertStep
  <1> QED
    BY <1>2, <1>3

\* A dissolved group keeps its row, and nothing else.
LEMMA DissolveStep ==
    ASSUME GroupInv, NEW p \in Proc, DissolveCommit(p)
    PROVE  GroupInv'
  <1> DEFINE g == tx[p].g
             r == Buried(group[g])
  <1>1. PICK op \in {"dismiss", "delete"} : At(p, op)
    BY DEF DissolveCommit
  <1>2. DropUsers(g, User) /\ CommitRow(p, g, r, <<"dropInfo", "dropCard", "dropList">>)
    BY DEF DissolveCommit
  <1>3. /\ TypeOK /\ Tables /\ g \in Group /\ tx[p].pc = "commit"
        /\ RowFree(p, g) /\ group[g] \in Row /\ group[g].state = "live"
    BY <1>1, AtCommit DEF Live
  <1>4. Confined(g) /\ member'[g] = member[g] \ User /\ Contacted(g)
    BY <1>2, <1>3, DropUsersFacts
  <1>5. member'[g] = {}
    BY <1>3, <1>4 DEF TypeOK
  <1>6. r \in Row /\ r.state = "dead" /\ r.owner = group[g].owner
    BY <1>3 DEF Buried, Row
  <1> HIDE DEF r
  <1>7. Writes(p, g, r)
    BY <1>3, <1>6 DEF Writes
  <1>8. Agrees(g, r)
    BY <1>4, <1>5, <1>6 DEF Agrees
  <1> QED
    BY <1>2, <1>4, <1>7, <1>8, TodoTyped, CommitKeeps

\* Only the status of a live group changes: one UPDATE, which waits for the row.
LEMMA StatusStep ==
    ASSUME GroupInv, NEW p \in Proc, SetGroupsStatus(p)
    PROVE  GroupInv'
  <1> DEFINE g == tx[p].g
             status == IF tx[p].op = "disable" THEN "DISABLE" ELSE "NORMAL"
             r == IF Live(g) THEN [group[g] EXCEPT !.status = status] ELSE group[g]
             steps == IF tx[p].op = "disable" THEN <<"dropInfo", "dropCard">>
                                              ELSE <<"dropInfo">>
  <1>1. TypeOK /\ Tables /\ Own(p)
    BY DEF GroupInv, Tables, Requests, Own
  <1>2. /\ tx[p].pc = "lock" /\ tx[p].op \in {"enable", "disable"} /\ RowFree(p, g)
        /\ CommitRow(p, g, r, steps) /\ UNCHANGED <<member, contact, applied, stranded>>
    BY DEF SetGroupsStatus
  <1>3. g \in Group /\ group[g] \in Row
    BY <1>1, <1>2 DEF Own, WellFormed, TypeOK
  <1>4. r \in Row /\ r.state = group[g].state /\ r.owner = group[g].owner /\ r.cnt = group[g].cnt
    BY <1>3 DEF Row
  <1>5. steps \in Seq(Steps)
    BY TodoTyped
  <1> HIDE DEF r, steps
  <1>6. Writes(p, g, r)
    BY <1>2, <1>3, <1>4 DEF Writes
  <1>7. Confined(g)
    BY <1>1, <1>2 DEF Confined, TypeOK
  <1>8. Agrees(g, r)
    BY <1>1, <1>2, <1>3, <1>4 DEF Agrees, Contacted, Tables, CountMatches, OwnerIsMember,
                                  DismissedEmpty, ContactsMatch, Live
  <1> QED
    BY <1>2, <1>5, <1>6, <1>7, <1>8, CommitKeeps

\* An update that runs alone saves the row as it is stored.
LEMMA UpdateReadStep ==
    ASSUME UpdatesAlone, GroupInv, NEW p \in Proc, UpdateRead(p)
    PROVE  GroupInv'
  <1> DEFINE g == tx[p].g
             t == [tx[p] EXCEPT !.pc = "commit", !.row[g] = group[g]]
  <1>1. SUFFICES ASSUME ~Refuse(p) PROVE GroupInv'
    BY RefuseKeeps
  <1>2. /\ TypeOK /\ Own(p) /\ tx[p] \in TxState /\ calls \in 0..MaxCalls
    BY DEF GroupInv, TypeOK, Requests, Own
  <1>3. /\ tx[p].pc = "read" /\ tx[p].op = "update" /\ Live(g)
        /\ Becomes(p, t) /\ UNCHANGED <<db, lock, redis, calls>>
    BY <1>1 DEF UpdateRead
  <1>4. g \in Group /\ "update" \in Alone
    BY <1>2, <1>3 DEF Own, WellFormed, UpdatesAlone
  <1>5. t \in TxState
    BY <1>2, <1>4 DEF TxState, TypeOK
  <1>6. /\ t.pc = "commit" /\ t.op = "update" /\ t.g = g /\ t.u = tx[p].u
        /\ t.row[g] = group[g]
    BY <1>2, <1>3, <1>4 DEF TxState
  <1> HIDE DEF t
  <1>7. tx'[p] = t
    BY <1>2, <1>3, <1>5, BecomesTyped
  <1>8. Own(p)'
    BY <1>2, <1>3, <1>4, <1>6, <1>7
    DEF Own, WellFormed, CreatesFresh, LocksInside, HoldsRow, HoldsRows, Live, db
  <1> QED
    BY <1>2, <1>3, <1>5, <1>6, <1>8, LocalStep

LEMMA UpdateCommitStep ==
    ASSUME GroupInv, NEW p \in Proc, UpdateCommit(p)
    PROVE  GroupInv'
  <1> DEFINE g == tx[p].g
             r == group[g]
  <1>1. At(p, "update") /\ RowFree(p, g) /\ UNCHANGED <<member, contact, applied, stranded>>
        /\ CommitRow(p, g, tx[p].row[g], <<"info", "card">>)
    BY DEF UpdateCommit
  <1>2. /\ TypeOK /\ Tables /\ g \in Group /\ tx[p].pc = "commit" /\ r \in Row
        /\ tx[p].row[g] = r /\ Live(g)
    BY <1>1, AtCommit
  <1>3. Writes(p, g, r)
    BY <1>1, <1>2 DEF Writes, Live
  <1>4. Confined(g)
    BY <1>1, <1>2 DEF Confined, TypeOK
  <1>5. Agrees(g, r)
    BY <1>1, <1>2 DEF Agrees, Contacted, Tables, CountMatches, OwnerIsMember,
                          ContactsMatch, Live
  <1> QED
    BY <1>1, <1>2, <1>3, <1>4, <1>5, TodoTyped, CommitKeeps

\* Rolled back before the commit, or dead after it.
LEMMA FailureStep ==
    ASSUME GroupInv, NEW p \in Proc, Failure(p)
    PROVE  GroupInv'
  BY RefuseKeeps, RedisStepKeeps DEF Failure, Rollback, Crash

\* Deleting a user locks one more of his groups: the row is read as it is stored.
LEMMA DeleteUsersLockStep ==
    ASSUME GroupInv, NEW p \in Proc, NEW g \in Group, DeleteUsersLock(p, g)
    PROVE  GroupInv'
  <1> DEFINE t == [tx[p] EXCEPT !.row[g] = group[g]]
  <1>1. SUFFICES ASSUME ~Refuse(p) PROVE GroupInv'
    BY RefuseKeeps
  <1>2. /\ TypeOK /\ Own(p) /\ tx[p] \in TxState /\ calls \in 0..MaxCalls /\ group[g] \in Row
    BY DEF GroupInv, TypeOK, Requests, Own
  <1>3. /\ tx[p].pc = "lock" /\ tx[p].op = "deleteUser" /\ RowFree(p, g) /\ Live(g)
        /\ lock' = [lock EXCEPT ![g] = p] /\ Becomes(p, t) /\ UNCHANGED <<db, calls>>
    BY <1>1 DEF DeleteUsersLock
  <1>4. t \in TxState
    BY <1>2 DEF TxState
  <1>5. /\ t.pc = "lock" /\ t.op = "deleteUser" /\ t.g = tx[p].g /\ t.u = tx[p].u
        /\ t.joined = tx[p].joined /\ t.owned = tx[p].owned
        /\ \A h \in Group : t.row[h] = IF h = g THEN group[g] ELSE tx[p].row[h]
        /\ t.joined \cup t.owned \subseteq Group
    BY <1>2, <1>3 DEF TxState
  <1> HIDE DEF t
  <1>6. tx'[p] = t
    BY <1>2, <1>3, <1>4, BecomesTyped
  <1>7. \A h \in Group : lock'[h] = IF h = g THEN p ELSE lock[h]
    BY <1>2, <1>3 DEF TypeOK
  <1>8. WellFormed(p)' /\ CreatesFresh(p)' /\ HoldsRow(p)'
    BY <1>2, <1>3, <1>5, <1>6 DEF Own, WellFormed, CreatesFresh, HoldsRow
  <1>9. LocksInside(p)'
    BY <1>2, <1>3, <1>5, <1>6, <1>7 DEF Own, LocksInside, Live, db
  <1>10. HoldsRows(p)'
    BY <1>2, <1>3, <1>5, <1>6, <1>7 DEF Own, HoldsRows, db
  <1>11. Own(p)'
    BY <1>8, <1>9, <1>10 DEF Own
  <1> QED
    BY <1>2, <1>3, <1>4, <1>5, <1>11, LocalStep

\* The commit of DeleteUsers: the groups he owns are buried, those he joined lose
\* him, and every row it writes is one it has locked.
LEMMA DeleteUsersStep ==
    ASSUME GroupInv, NEW p \in Proc, DeleteUsersCommit(p)
    PROVE  GroupInv'
  <1> DEFINE u == tx[p].u
             gone == tx[p].owned
             left == {g \in tx[p].joined : u \in member[g]}
             steps == <<"dropList", "dropInfo", "dropCard">>
             t == [tx[p] EXCEPT !.pc = "redis", !.todo = steps]
  <1>1. /\ TypeOK /\ Tables /\ Requests /\ Own(p) /\ tx[p] \in TxState
    BY DEF GroupInv, Tables, TypeOK, Requests, Own
  <1>2. /\ tx[p].pc = "lock" /\ tx[p].op = "deleteUser"
        /\ tx[p].joined \cup gone \subseteq Locked(p)
        /\ deleted' = deleted \cup {u} /\ lock' = Unlocked(p) /\ calls' = calls
        /\ Becomes(p, t)
    BY DEF DeleteUsersCommit
  <1>3. u \in User
    BY <1>1, <1>2 DEF Own, WellFormed
  <1>4. \A h \in Group : h \in gone \cup left => lock[h] = p /\ Live(h)
    BY <1>1, <1>2 DEF Locked, Own, LocksInside
  <1>5. \A h \in Group : lock'[h] = IF lock[h] = p THEN NoProc ELSE lock[h]
    BY <1>2 DEF Unlocked
  <1>6. \A h \in Group :
          /\ member'[h] = IF h \in gone THEN {}
                          ELSE IF h \in left THEN member[h] \ {u} ELSE member[h]
          /\ \A x \in User : contact'[h][x] = IF h \in gone \/ x = u THEN 0 ELSE contact[h][x]
          /\ stranded'[h] = IF h \in gone THEN {}
                            ELSE IF h \in left THEN stranded[h] \ {u}
                            ELSE stranded[h] \cup (member[h] \cap {u})
    BY DEF DeleteUsersCommit
  <1>7. \A h \in Group : h \in left =>
          tx[p].row[h] = group[h] /\ group[h].owner # u /\ u \in member[h]
    BY <1>1, <1>2, <1>4 DEF Own, HoldsRows
  <1>8. \A h \in Group :
          group'[h] = IF h \in gone THEN Buried(group[h])
                      ELSE IF h \in left THEN CountDown(group[h], 1) ELSE group[h]
    BY <1>7 DEF DeleteUsersCommit
  <1>9. \A h \in Group : h \in gone =>
          group'[h] \in Row /\ group'[h].state = "dead" /\ group'[h].owner = group[h].owner
    BY <1>1, <1>8 DEF Buried, Row, TypeOK
  <1>10. ASSUME NEW h \in Group, h \in left, h \notin gone
         PROVE  /\ group'[h] \in Row /\ group'[h].state = "live"
                /\ group'[h].owner = group[h].owner /\ group'[h].owner \in member'[h]
                /\ group'[h].cnt = Cardinality(member'[h])
    <2>1. /\ group[h] \in Row /\ group[h].state = "live" /\ group[h].owner \in member[h]
          /\ group[h].cnt = Cardinality(member[h])
      BY <1>1, <1>4, <1>10 DEF TypeOK, Tables, CountMatches, OwnerIsMember, Live
    <2>2. IsFiniteSet(member[h])
      BY <1>1, MembersFinite
    <2>3. Cardinality({u}) = 1 /\ {u} \in SUBSET member[h] /\ group[h].owner \in member[h] \ {u}
      BY <1>7, <1>10, <2>1, FS_Singleton
    <2>4. LET d == CountDown(group[h], 1)
          IN  d \in Row /\ d.state = "live" /\ d.owner = group[h].owner
              /\ d.cnt = Cardinality(member[h] \ {u})
      BY <2>1, <2>2, <2>3, CountedDown
    <2>5. group'[h] = CountDown(group[h], 1) /\ member'[h] = member[h] \ {u}
      BY <1>6, <1>8, <1>10
    <2> QED
      BY <2>3, <2>4, <2>5
  <1>11. \A h \in Group : h \notin gone /\ h \notin left =>
           group'[h] = group[h] /\ member'[h] = member[h]
    BY <1>6, <1>8
  <1>12. t \in TxState /\ t.pc = "redis" /\ t.op = tx[p].op /\ t.g = tx[p].g /\ t.u = u
    BY <1>1, <1>2, TodoTyped DEF TxState
  <1> HIDE DEF gone, left, t, u
  <1>13. /\ tx' \in [Proc -> TxState] /\ tx'[p] = t
         /\ \A q \in Proc \ {p} : tx'[q] = tx[q]
    BY <1>1, <1>2, <1>12, BecomesTyped
  <1>14. TypeOK'
    <2>1. group' \in [Group -> Row]
      <3>1. \A h \in Group : group'[h] \in Row
        BY <1>1, <1>9, <1>10, <1>11 DEF TypeOK
      <3> QED
        BY <3>1 DEF DeleteUsersCommit
    <2>2. member' \in [Group -> SUBSET User]
      <3>1. \A h \in Group : member'[h] \in SUBSET User
        BY <1>1, <1>6 DEF TypeOK
      <3> QED
        BY <3>1 DEF DeleteUsersCommit
    <2>3. contact' \in [Group -> [User -> Nat]] /\ applied' \in [Group -> SUBSET User]
      BY <1>1 DEF DeleteUsersCommit, TypeOK
    <2>4. lock' \in [Group -> Proc \cup {NoProc}]
      BY <1>1, <1>2 DEF Unlocked, TypeOK
    <2>5. stranded' \in [Group -> SUBSET User]
      <3>1. \A h \in Group : stranded'[h] \in SUBSET User
        BY <1>1, <1>6 DEF TypeOK
      <3> QED
        BY <3>1 DEF DeleteUsersCommit
    <2> QED
      BY <1>1, <1>2, <1>3, <1>13, <2>1, <2>2, <2>3, <2>4, <2>5 DEF TypeOK
  <1>15. Tables'
    <2>1. CountMatches'
      BY <1>1, <1>9, <1>10, <1>11 DEF Tables, CountMatches, Live
    <2>2. OwnerIsMember'
      BY <1>1, <1>9, <1>10, <1>11 DEF Tables, OwnerIsMember, Live
    <2>3. DismissedEmpty'
      <3> SUFFICES ASSUME NEW h \in Group, ~Live(h)'
                   PROVE  member'[h] = {} /\ \A x \in User : contact'[h][x] = 0
        BY DEF DismissedEmpty
      <3>1. CASE h \in gone
        BY <1>6, <3>1
      <3>2. CASE h \in left /\ h \notin gone
        BY <1>10, <3>2 DEF Live
      <3>3. CASE h \notin gone /\ h \notin left
        <4>1. group'[h] = group[h] /\ member'[h] = member[h]
          BY <1>11, <3>3
        <4>2. member[h] = {} /\ \A x \in User : contact[h][x] = 0
          BY <1>1, <4>1 DEF Tables, DismissedEmpty, Live
        <4>3. \A x \in User : contact'[h][x] = IF h \in gone \/ x = u THEN 0 ELSE contact[h][x]
          BY <1>6
        <4> QED
          BY <4>1, <4>2, <4>3
      <3> QED
        BY <3>1, <3>2, <3>3
    <2>4. ContactsMatch'
      <3> SUFFICES ASSUME NEW h \in Group
                   PROVE  /\ stranded'[h] \subseteq member'[h]
                          /\ \A x \in User : contact'[h][x] =
                                           IF x \in member'[h] \ stranded'[h] THEN 1 ELSE 0
        BY DEF ContactsMatch
      <3>1. /\ stranded[h] \subseteq member[h]
            /\ \A x \in User : contact[h][x] = IF x \in member[h] \ stranded[h] THEN 1 ELSE 0
        BY <1>1 DEF Tables, ContactsMatch
      <3>2. CASE h \in gone
        BY <1>6, <3>2
      <3>3. CASE h \in left /\ h \notin gone
        <4>1. /\ member'[h] = member[h] \ {u} /\ stranded'[h] = stranded[h] \ {u}
              /\ \A x \in User : contact'[h][x] = IF x = u THEN 0 ELSE contact[h][x]
          BY <1>6, <3>3
        <4> QED
          BY <3>1, <4>1
      <3>4. CASE h \notin left /\ h \notin gone
        <4>1. /\ member'[h] = member[h] /\ stranded'[h] = stranded[h] \cup (member[h] \cap {u})
              /\ \A x \in User : contact'[h][x] = IF x = u THEN 0 ELSE contact[h][x]
          BY <1>6, <3>4
        <4> QED
          BY <3>1, <4>1
      <3> QED
        BY <3>2, <3>3, <3>4
    <2> QED
      BY <2>1, <2>2, <2>3, <2>4 DEF Tables
  <1>16. Own(p)'
    <2>1. \A h \in Group : lock'[h] # p
      BY <1>5, GroupAssumption
    <2>2. WellFormed(p)'
      BY <1>1, <1>2, <1>12, <1>13 DEF Own, WellFormed, u
    <2> QED
      BY <1>12, <1>13, <2>1, <2>2
      DEF Own, CreatesFresh, LocksInside, HoldsRow, HoldsRows
  <1>17. LeavesOthers(p)
    <2>1. ASSUME NEW q \in Proc \ {p}, NEW h \in Group
          PROVE  /\ lock'[h] = q => lock[h] = q
                 /\ lock[h] = q =>
                      lock'[h] = q /\ group'[h] = group[h] /\ member'[h] = member[h]
      <3>1. lock[h] = q => h \notin gone /\ h \notin left
        BY <1>4
      <3>2. q # NoProc /\ q # p
        BY GroupAssumption
      <3>3. lock[h] = q => group'[h] = group[h] /\ member'[h] = member[h]
        BY <1>11, <3>1
      <3>4. (lock'[h] = q => lock[h] = q) /\ (lock[h] = q => lock'[h] = q)
        BY <1>5, <3>2
      <3> QED
        BY <3>3, <3>4
    <2>2. \A h \in Group : group[h].state # "none" =>
            group'[h].state # "none" /\ group'[h].owner = group[h].owner
      BY <1>9, <1>10, <1>11
    <2>3. ASSUME NEW q \in Proc \ {p}, tx[q].pc = "lock", tx[q].op = "create"
          PROVE  group'[tx[q].g].state = group[tx[q].g].state
      <3>1. tx[q].g \in Group /\ group[tx[q].g].state = "none"
        BY <1>1, <2>3 DEF Requests, WellFormed, CreatesFresh
      <3>2. tx[q].g \notin gone /\ tx[q].g \notin left
        BY <1>4, <3>1 DEF Live
      <3> QED
        BY <1>11, <3>1, <3>2
    <2> QED
      BY <1>2, <1>12, <1>13, <2>1, <2>2, <2>3 DEF LeavesOthers
  <1> QED
    BY <1>1, <1>14, <1>15, <1>16, <1>17, OthersKeep DEF GroupInv, Tables

LEMMA InitHolds ==
    ASSUME Init
    PROVE  GroupInv
  <1> USE GroupAssumption
  <1>1. NoRow \in Row
    BY DEF NoRow, Row
  <1>2. TypeOK
    BY <1>1, IdleTyped DEF Init, InitDb, TypeOK
  <1>3. CountMatches /\ OwnerIsMember /\ DismissedEmpty /\ ContactsMatch
    BY DEF Init, InitDb, NoRow, CountMatches, OwnerIsMember, DismissedEmpty, ContactsMatch, Live
  <1>4. Requests
    <2> SUFFICES ASSUME NEW p \in Proc PROVE Own(p) /\ Undisturbed(p)
      BY DEF Requests, Own
    <2>1. tx[p] = Idle /\ Idle.pc = "idle" /\ \A g \in Group : lock[g] # p
      BY DEF Init, Idle
    <2> QED
      BY <2>1 DEF Own, WellFormed, CreatesFresh, LocksInside, HoldsRow, HoldsRows, Undisturbed
  <1> QED
    BY <1>2, <1>3, <1>4 DEF GroupInv

\* Every step keeps the invariant: requests in every phase, failures, and the
\* steps that belong to no request.
LEMMA StepHolds ==
    ASSUME UpdatesAlone, GroupInv, [Next]_vars
    PROVE  GroupInv'
  <1>1. ASSUME NEW p \in Proc, Transaction(p) PROVE GroupInv'
    BY <1>1, CreateStep, LockStep, LeaveStep, RemoveStep, EnterStep, ReadStep, DissolveStep,
       StatusStep, UpdateReadStep, UpdateCommitStep, DeleteUsersLockStep, DeleteUsersStep
    DEF Transaction
  <1>2. ASSUME NEW p \in Proc, Redis(p) PROVE GroupInv'
    BY <1>2, ReadStep, RedisStepKeeps, ReplyStep DEF Redis
  <1>3. ASSUME NEW p \in Proc, Call(p) PROVE GroupInv'
    BY <1>3, CallStep
  <1>4. ASSUME NEW p \in Proc, Failure(p) PROVE GroupInv'
    BY <1>4, FailureStep
  <1>5. CASE UNCHANGED vars
    BY <1>5 DEF vars, db, redis, GroupInv, TypeOK, CountMatches, OwnerIsMember, DismissedEmpty,
                ContactsMatch, Live, Requests, WellFormed, CreatesFresh, HoldsRow, HoldsRows,
                LocksInside, Undisturbed
  <1> QED
    BY <1>1, <1>2, <1>3, <1>4, <1>5, ApplyStep, ReviveStep, ExpireStep DEF Next

\* While UpdateGroupInfo runs alone, the tables of groups agree with each other
\* and every request holds the lock of the rows its checks were made on, for any
\* number of users, groups and concurrent requests and under every failure.
THEOREM GroupInvariance ==
    ASSUME UpdatesAlone
    PROVE  Spec => []GroupInv
  <1>1. Init => GroupInv
    BY InitHolds
  <1>2. GroupInv /\ [Next]_vars => GroupInv'
    BY StepHolds
  <1> QED
    BY <1>1, <1>2, PTL DEF Spec

\* The member count of a group (group_info.member_cnt) is the number of its rows in
\* group_member after every commit of concurrent enters, leaves, removals,
\* dismissals and deletions of users.
THEOREM MemberCount ==
    ASSUME UpdatesAlone
    PROVE  Spec => []CountMatches
  <1>1. GroupInv => CountMatches
    BY DEF GroupInv
  <1> QED
    BY <1>1, GroupInvariance, PTL

\* The owner of a group, whom LeaveGroup and RemoveGroupMembers spare, stays among
\* its members, in concurrent removals and dismissals too.
THEOREM OwnersStay ==
    ASSUME UpdatesAlone
    PROVE  Spec => []OwnerIsMember
  <1>1. GroupInv => OwnerIsMember
    BY DEF GroupInv
  <1> QED
    BY <1>1, GroupInvariance, PTL

\* A group that was dismissed or deleted, or whose owner was, has no members left
\* and is in nobody's contacts: whoever was about to enter finds it gone.
THEOREM DismissedIsEmpty ==
    ASSUME UpdatesAlone
    PROVE  Spec => []DismissedEmpty
  <1>1. GroupInv => DismissedEmpty
    BY DEF GroupInv
  <1> QED
    BY <1>1, GroupInvariance, PTL

\* user_contact agrees with group_member, without a unique key on it, but for the
\* members whose account was deleted in between: they have no contact until they
\* leave, also when they have an account again.
THEOREM ContactsFollow ==
    ASSUME UpdatesAlone
    PROVE  Spec => []ContactsMatch
  <1>1. GroupInv => ContactsMatch
    BY DEF GroupInv
  <1> QED
    BY <1>1, GroupInvariance, PTL

\* A commit to another row leaves the row of g alone.
LEMMA OtherRow ==
    ASSUME TypeOK, NEW p \in Proc, NEW h, NEW r, NEW steps, CommitRow(p, h, r, steps),
           NEW g \in Group, g # h
    PROVE  group'[g] = group[g]
  BY DEF TypeOK, CommitRow

\* What is refused or only locked, and what is done in redis, writes no table.
LEMMA NoWrite ==
    ASSUME NEW p \in Proc,
           \/ Call(p) \/ Redis(p) \/ Failure(p)
           \/ LeaveLock(p) \/ RemoveLock(p) \/ EnterLock(p) \/ PassLock(p) \/ DismissLock(p)
           \/ DeleteLock(p) \/ PassRead(p) \/ UpdateRead(p) \/ DeleteUsersRead(p)
           \/ \E g \in Group : DeleteUsersLock(p, g)
    PROVE  group' = group
  <1>1. ASSUME Redis(p) PROVE group' = group
    BY <1>1 DEF Redis, GetGroupInfo, GetGroupMemberList, PutInfo, PutCard, QueryMembers,
                ReadNames, PutList, DropKeys, Reply, Done, Refuse, db
  <1>2. ASSUME Failure(p) PROVE group' = group
    BY <1>2 DEF Failure, Rollback, Crash, RedisFails, Done, Refuse, db
  <1> QED
    BY <1>1, <1>2 DEF Call, LeaveLock, RemoveLock, EnterLock, PassLock, DismissLock,
                      DeleteLock, LockGroup, PassRead, UpdateRead, DeleteUsersRead, DeleteUsersLock, Refuse, db

LEMMA DeadRow ==
    ASSUME UpdatesAlone, GroupInv, NEW p \in Proc, Transaction(p),
           NEW g \in Group, group[g].state = "dead"
    PROVE  group'[g] = group[g]
  <1>1. TypeOK /\ Own(p)
    BY DEF GroupInv, Requests, Own
  <1>2. ASSUME NEW op, At(p, op) PROVE g # tx[p].g
    BY <1>2, AtCommit DEF Live
  <1>3. CASE CreateGroup(p)
    <2>1. g # tx[p].g
      BY <1>1, <1>3 DEF CreateGroup, Own, CreatesFresh
    <2> QED
      BY <1>1, <1>3, <2>1, OtherRow DEF CreateGroup
  <1>4. CASE LeaveCommit(p)
    BY <1>1, <1>2, <1>4, OtherRow DEF LeaveCommit
  <1>5. CASE RemoveCommit(p)
    BY <1>1, <1>2, <1>5, OtherRow DEF RemoveCommit
  <1>6. CASE EnterCommit(p) \/ PassCommit(p)
    <2>1. g # tx[p].g
      BY <1>2, <1>6 DEF EnterCommit, PassCommit
    <2>2. Insert(p, <<"info", "card", "dropList">>)
      BY <1>6 DEF EnterCommit, PassCommit
    <2> QED
      BY <1>1, <2>1, <2>2, OtherRow DEF Insert, Refuse, db
  <1>7. CASE DissolveCommit(p)
    BY <1>1, <1>2, <1>7, OtherRow DEF DissolveCommit
  <1>8. CASE SetGroupsStatus(p)
    <2>1. CASE g # tx[p].g
      BY <1>1, <1>8, <2>1, OtherRow DEF SetGroupsStatus
    <2>2. CASE g = tx[p].g
      BY <1>1, <1>8, <2>2 DEF SetGroupsStatus, CommitRow, Live, TypeOK
    <2> QED
      BY <2>1, <2>2
  <1>9. CASE DeleteUsersCommit(p)
    <2>1. g \notin tx[p].joined \cup tx[p].owned
      BY <1>1, <1>9 DEF DeleteUsersCommit, Locked, Own, LocksInside, Live
    <2> QED
      BY <1>9, <2>1 DEF DeleteUsersCommit
  <1>10. CASE UpdateCommit(p)
    BY <1>1, <1>2, <1>10, OtherRow DEF UpdateCommit
  <1> QED
    BY <1>3, <1>4, <1>5, <1>6, <1>7, <1>8, <1>9, <1>10, NoWrite DEF Transaction

LEMMA DeadRowStays ==
    ASSUME UpdatesAlone, GroupInv, [Next]_vars, NEW g \in Group, group[g].state = "dead"
    PROVE  group'[g] = group[g]
  <1>1. ASSUME NEW p \in Proc, Transaction(p) PROVE group'[g] = group[g]
    BY <1>1, DeadRow
  <1>2. ASSUME NEW p \in Proc, Call(p) \/ Redis(p) \/ Failure(p) PROVE group' = group
    BY <1>2, NoWrite
  <1>3. ASSUME NEW h \in Group, NEW u \in User, Apply(h, u) PROVE group' = group
    BY <1>3 DEF Apply
  <1>4. ASSUME NEW h \in Group, Expire(h) PROVE group' = group
    BY <1>4 DEF Expire, db
  <1>5. ASSUME NEW u \in User, Revive(u) PROVE group' = group
    BY <1>5 DEF Revive
  <1> QED
    BY <1>1, <1>2, <1>3, <1>4, <1>5 DEF Next, vars, db

\* A group that is dismissed stays dismissed: no request that read it before writes
\* its row afterwards, which Save would do with every column.
THEOREM DismissedFinal ==
    ASSUME UpdatesAlone
    PROVE  Spec => DismissedStays
  <1>1. GroupInv /\ [Next]_vars =>
          [\A g \in Group : group[g].state = "dead" => group'[g] = group[g]]_vars
    BY DeadRowStays
  <1>2. Spec => []GroupInv
    BY GroupInvariance
  <1> QED
    BY <1>1, <1>2, PTL DEF Spec, DismissedStays
-----------------------------------------------------------------------------
(* GroupMembership implements AtomicGroups.                                   *)

LEMMA ViewFacts ==
    ASSUME NEW r
    PROVE  View(r).state = r.state /\ View(r).owner = r.owner /\ View(r).status = r.status
  BY DEF View

LEMMA SeenFacts ==
    ASSUME NEW t
    PROVE  /\ Seen(t).pc = Phase(t) /\ Seen(t).op = t.op /\ Seen(t).g = t.g
           /\ Seen(t).u = t.u /\ Seen(t).us = t.us /\ Seen(t).known = t.joined \cup t.owned
  BY DEF Seen

\* A request as AtomicGroups sees it.
LEMMA RequestFacts ==
    ASSUME NEW p \in Proc
    PROVE  /\ Requested[p].pc = Phase(tx[p]) /\ Requested[p].op = tx[p].op
           /\ Requested[p].g = tx[p].g /\ Requested[p].u = tx[p].u
           /\ Requested[p].us = tx[p].us /\ Requested[p].known = tx[p].joined \cup tx[p].owned
  <1>1. Requested[p] = Seen(tx[p])
    BY DEF Requested
  <1> QED
    BY <1>1, SeenFacts

\* And a group.
LEMMA GroupFacts ==
    ASSUME NEW g \in Group
    PROVE  /\ Groups[g].state = group[g].state /\ Groups[g].owner = group[g].owner
           /\ Groups[g].status = group[g].status /\ (Atomic!Live(g) <=> Live(g))
  <1>1. Groups[g] = View(group[g])
    BY DEF Groups
  <1> QED
    BY <1>1, ViewFacts DEF Atomic!Live, Live

LEMMA RequestBecomes ==
    ASSUME TypeOK, NEW p \in Proc, NEW t, Becomes(p, t)
    PROVE  Requested' = [Requested EXCEPT ![p] = Seen(t)]
  BY DEF TypeOK, Becomes, Requested

\* What a caller does not see.
LEMMA Unseen ==
    ASSUME TypeOK, NEW p \in Proc, NEW t, Becomes(p, t), UNCHANGED db, Phase(t) = Phase(tx[p]),
           t.op = tx[p].op, t.g = tx[p].g, t.u = tx[p].u, t.us = tx[p].us,
           t.joined \cup t.owned = tx[p].joined \cup tx[p].owned
    PROVE  UNCHANGED Atomic!vars
  <1>1. Seen(t) = Seen(tx[p])
    BY DEF Seen
  <1>2. Requested' = Requested
    BY <1>1, RequestBecomes DEF Requested
  <1> QED
    BY <1>2 DEF Atomic!vars, db, Groups

LEMMA EndImplements ==
    ASSUME TypeOK, NEW p \in Proc, tx[p].pc # "idle", Becomes(p, Idle), UNCHANGED db
    PROVE  Atomic!End(p)
  <1>1. Seen(Idle) = Atomic!Idle
    BY DEF Seen, Phase, Idle, Atomic!Idle, Atomic!Request
  <1>2. Requested' = [Requested EXCEPT ![p] = Atomic!Idle]
    BY <1>1, RequestBecomes
  <1>3. Requested[p].pc # "idle" /\ p \in DOMAIN Requested
    BY RequestFacts DEF Phase, Requested
  <1>4. Requested'[p].pc = "idle"
    BY <1>2, <1>3 DEF Atomic!Idle, Atomic!Request
  <1> QED
    BY <1>2, <1>3, <1>4 DEF Atomic!End, db, Groups

LEMMA RefuseImplements ==
    ASSUME TypeOK, NEW p \in Proc, tx[p].pc # "idle", Refuse(p)
    PROVE  Atomic!End(p)
  BY EndImplements DEF Refuse

LEMMA CallImplements ==
    ASSUME TypeOK, NEW p \in Proc, Call(p)
    PROVE  Atomic!Invoke(p)
  <1>1. PICK op \in Op, g \in Group \cup {NoGroup}, u \in User \cup {NoUser}, us \in SUBSET User :
          /\ Legal(op, g, u, us)
          /\ Becomes(p, [Idle EXCEPT !.pc = EntryPc(op), !.op = op, !.g = g, !.u = u, !.us = us])
    BY DEF Call
  <1> DEFINE t == [Idle EXCEPT !.pc = EntryPc(op), !.op = op, !.g = g, !.u = u, !.us = us]
             s == Atomic!Request("called", op, g, u, us)
  <1>2. Seen(t) = s
    <2>1. /\ t.pc = EntryPc(op) /\ t.op = op /\ t.g = g /\ t.u = u /\ t.us = us
          /\ t.joined = {} /\ t.owned = {}
      BY DEF Idle
    <2>2. s = [pc |-> "called", op |-> op, g |-> g, u |-> u, us |-> us, known |-> {}]
      BY DEF Atomic!Request
    <2> HIDE DEF t, s
    <2>3. Phase(t) = "called"
      BY <2>1 DEF Phase, EntryPc
    <2>4. {} \cup {} = {}
      OBVIOUS
    <2> QED
      BY <2>1, <2>2, <2>3, <2>4 DEF Seen
  <1>3. s.pc = "called"
    BY DEF Atomic!Request
  <1>4. Requested' = [Requested EXCEPT ![p] = s]
    BY <1>1, <1>2, RequestBecomes
  <1>5. p \in DOMAIN Requested
    BY DEF Requested
  <1>6. Requested[p].pc = "idle"
    BY RequestFacts DEF Call, Phase
  <1>7. Atomic!Legal(op, g, u, us)
    <2>1. \A h \in Group : Known(h) <=> Atomic!Known(h)
      BY GroupFacts DEF Known, Atomic!Known
    <2>2. Fresh(g) => Atomic!Fresh(g)
      BY GroupFacts, RequestFacts DEF Fresh, Atomic!Fresh
    <2>3. Account(u) <=> Atomic!Account(u)
      BY DEF Account, Atomic!Account
    <2> QED
      BY <1>1, <2>1, <2>2, <2>3 DEF Legal, Atomic!Legal, Known
  <1> HIDE DEF s
  <1>8. Requested'[p].pc = "called"
    BY <1>3, <1>4, <1>5
  <1>9. op \in Atomic!Ops
    BY GroupAssumption DEF Ops, Atomic!Ops
  <1>10. UNCHANGED <<Groups, member, applied, deleted>>
    BY DEF Call, db, Groups
  <1> QED
    BY <1>4, <1>6, <1>7, <1>8, <1>9, <1>10 DEF Atomic!Invoke, s

LEMMA ApplyImplements ==
    ASSUME NEW g \in Group, NEW u \in User, Apply(g, u)
    PROVE  Atomic!Apply(g, u)
  <1>1. Atomic!Known(g) /\ Atomic!Account(u)
    BY GroupFacts DEF Apply, Known, Account, Atomic!Known, Atomic!Account
  <1> QED
    BY <1>1 DEF Apply, Atomic!Apply, Groups, Requested

LEMMA ReviveImplements ==
    ASSUME NEW u \in User, Revive(u)
    PROVE  Atomic!Revive(u)
  BY DEF Revive, Atomic!Revive, Groups, Requested

\* Locking rows, and reading before that, are seen by nobody.
LEMMA LocksImplement ==
    ASSUME TypeOK, NEW p \in Proc,
           \/ LeaveLock(p) \/ RemoveLock(p) \/ EnterLock(p) \/ PassRead(p) \/ PassLock(p)
           \/ DismissLock(p) \/ DeleteLock(p) \/ UpdateRead(p)
           \/ \E g \in Group : DeleteUsersLock(p, g)
    PROVE  Atomic!End(p) \/ UNCHANGED Atomic!vars
  <1>0. tx[p] \in TxState
    BY DEF TypeOK
  <1>1. CASE Refuse(p)
    <2>1. tx[p].pc # "idle"
      BY DEF LeaveLock, RemoveLock, EnterLock, PassRead, PassLock, DismissLock, DeleteLock,
             UpdateRead, LockGroup, DeleteUsersLock
    <2> QED
      BY <1>1, <2>1, RefuseImplements
  <1> SUFFICES ASSUME ~Refuse(p) PROVE UNCHANGED Atomic!vars
    BY <1>1
  <1>2. ASSUME NEW op \in {"leave", "remove", "enter", "pass", "dismiss", "delete"}, NEW ok,
               NEW seen, LockGroup(p, op, ok, seen)
        PROVE  UNCHANGED Atomic!vars
    <2> DEFINE t == [tx[p] EXCEPT !.pc = "commit", !.row[tx[p].g] = group[tx[p].g], !.seen = seen]
    <2>1. Becomes(p, t) /\ UNCHANGED db /\ tx[p].pc = "lock" /\ tx[p].op = op
      BY <1>2 DEF LockGroup
    <2>2. /\ t.pc = "commit" /\ t.op = tx[p].op /\ t.g = tx[p].g /\ t.u = tx[p].u
          /\ t.us = tx[p].us /\ t.joined = tx[p].joined /\ t.owned = tx[p].owned
      BY <1>0 DEF TxState
    <2> HIDE DEF t
    <2>3. Phase(t) = Phase(tx[p])
      BY <2>1, <2>2 DEF Phase
    <2> QED
      BY <2>1, <2>2, <2>3, Unseen
  <1>3. CASE PassRead(p)
    <2> DEFINE t == [tx[p] EXCEPT !.pc = "lock", !.seen = member[tx[p].g]]
    <2>1. Becomes(p, t) /\ UNCHANGED db /\ tx[p].pc = "read" /\ tx[p].op = "pass"
      BY <1>3 DEF PassRead
    <2>2. /\ t.pc = "lock" /\ t.op = tx[p].op /\ t.g = tx[p].g /\ t.u = tx[p].u
          /\ t.us = tx[p].us /\ t.joined = tx[p].joined /\ t.owned = tx[p].owned
      BY <1>0 DEF TxState
    <2> HIDE DEF t
    <2>3. Phase(t) = Phase(tx[p])
      BY <2>1, <2>2 DEF Phase
    <2> QED
      BY <2>1, <2>2, <2>3, Unseen
  <1>4. CASE UpdateRead(p)
    <2> DEFINE t == [tx[p] EXCEPT !.pc = "commit", !.row[tx[p].g] = group[tx[p].g]]
    <2>1. Becomes(p, t) /\ UNCHANGED db /\ tx[p].pc = "read" /\ tx[p].op = "update"
      BY <1>4 DEF UpdateRead
    <2>2. /\ t.pc = "commit" /\ t.op = tx[p].op /\ t.g = tx[p].g /\ t.u = tx[p].u
          /\ t.us = tx[p].us /\ t.joined = tx[p].joined /\ t.owned = tx[p].owned
      BY <1>0 DEF TxState
    <2> HIDE DEF t
    <2>3. Phase(t) = Phase(tx[p])
      BY <2>1, <2>2 DEF Phase
    <2> QED
      BY <2>1, <2>2, <2>3, Unseen
  <1>5. ASSUME NEW g \in Group, DeleteUsersLock(p, g)
        PROVE  UNCHANGED Atomic!vars
    <2> DEFINE t == [tx[p] EXCEPT !.row[g] = group[g]]
    <2>1. Becomes(p, t) /\ UNCHANGED db
      BY <1>5 DEF DeleteUsersLock
    <2>2. /\ t.pc = tx[p].pc /\ t.op = tx[p].op /\ t.g = tx[p].g /\ t.u = tx[p].u
          /\ t.us = tx[p].us /\ t.joined = tx[p].joined /\ t.owned = tx[p].owned
      BY <1>0 DEF TxState
    <2> HIDE DEF t
    <2>3. Phase(t) = Phase(tx[p])
      BY <2>2 DEF Phase
    <2> QED
      BY <2>1, <2>2, <2>3, Unseen
  <1> QED
    BY <1>2, <1>3, <1>4, <1>5 DEF LeaveLock, RemoveLock, EnterLock, PassLock, DismissLock, DeleteLock

\* The groups of a user, as DeleteUsers lists them: his own are among those he is in.
LEMMA ListImplements ==
    ASSUME GroupInv, NEW p \in Proc, DeleteUsersRead(p)
    PROVE  Atomic!ListGroups(p)
  <1> DEFINE u == tx[p].u
             t == [tx[p] EXCEPT !.pc = "lock", !.owned = Owned(u), !.joined = Joined(u) \ Owned(u)]
  <1>1. TypeOK /\ tx[p] \in TxState /\ OwnerIsMember
    BY DEF GroupInv, TypeOK
  <1>2. Becomes(p, t) /\ UNCHANGED db /\ tx[p].pc = "read" /\ tx[p].op = "deleteUser"
    BY DEF DeleteUsersRead
  <1>3. /\ t.pc = "lock" /\ t.op = tx[p].op /\ t.g = tx[p].g /\ t.u = tx[p].u
        /\ t.us = tx[p].us /\ t.joined = Joined(u) \ Owned(u) /\ t.owned = Owned(u)
    BY <1>1 DEF TxState
  <1> HIDE DEF t
  <1>4. t.joined \cup t.owned = {g \in Group : u \in member[g]}
    <2>1. Owned(u) \subseteq Joined(u)
      BY <1>1 DEF Owned, Joined, OwnerIsMember
    <2> QED
      BY <1>3, <2>1 DEF Joined
  <1>5. Seen(t) = [Requested[p] EXCEPT !.pc = "listed", !.known = {g \in Group : u \in member[g]}]
    <2>1. Requested[p] = Seen(tx[p])
      BY DEF Requested
    <2>2. Phase(t) = "listed"
      BY <1>2, <1>3 DEF Phase
    <2> DEFINE K == {g \in Group : u \in member[g]}
               r == Requested[p]
    <2>3. Seen(t) = [pc |-> "listed", op |-> r.op, g |-> r.g, u |-> r.u, us |-> r.us, known |-> K]
      BY <1>3, <1>4, <2>2, RequestFacts DEF Seen
    <2>4. r = [pc |-> r.pc, op |-> r.op, g |-> r.g, u |-> r.u, us |-> r.us, known |-> r.known]
      BY <2>1 DEF Seen
    <2> HIDE DEF K, r
    <2>5. Seen(t) = [r EXCEPT !.pc = "listed", !.known = K]
      <3> DEFINE l == [r EXCEPT !.pc = "listed"]
      <3>1. l = [pc |-> "listed", op |-> r.op, g |-> r.g, u |-> r.u, us |-> r.us,
                 known |-> r.known]
        BY <2>4
      <3> HIDE DEF l
      <3>2. Seen(t) = [l EXCEPT !.known = K]
        BY <2>3, <3>1
      <3> QED
        BY <3>2 DEF l
    <2> QED
      BY <2>5 DEF r, K
  <1>6. Requested' = [Requested EXCEPT ![p] = Seen(t)] /\ p \in DOMAIN Requested
    BY <1>1, <1>2, RequestBecomes DEF Requested
  <1>7. Requested[p].pc = "called" /\ Requested[p].op = "deleteUser" /\ Requested[p].u = u
    BY <1>2, RequestFacts DEF Phase
  <1>8. UNCHANGED <<Groups, member, applied, deleted>>
    BY <1>2 DEF db, Groups
  <1> QED
    BY <1>5, <1>6, <1>7, <1>8 DEF Atomic!ListGroups

-----------------------------------------------------------------------------
(* The commits take effect.                                                   *)

Effects(p, op, pc) ==
  /\ Requested[p].op = op /\ Requested[p].pc = pc
  /\ Requested' = [Requested EXCEPT ![p].pc = "done"]

LEMMA TakesEffect ==
    ASSUME TypeOK, NEW p \in Proc, NEW t, Becomes(p, t), t.pc = "redis",
           t.op = tx[p].op, t.g = tx[p].g, t.u = tx[p].u, t.us = tx[p].us,
           t.joined = tx[p].joined, t.owned = tx[p].owned
    PROVE  Effects(p, tx[p].op, Phase(tx[p]))
  <1>1. Requested[p] = Seen(tx[p]) /\ p \in DOMAIN Requested
    BY DEF Requested
  <1>2. Seen(t) = [Requested[p] EXCEPT !.pc = "done"]
    <2> DEFINE r == Requested[p]
    <2>1. Phase(t) = "done"
      BY DEF Phase
    <2>2. /\ Seen(t) = [pc |-> "done", op |-> r.op, g |-> r.g, u |-> r.u, us |-> r.us,
                        known |-> r.known]
      BY <2>1, RequestFacts DEF Seen
    <2>3. r = [pc |-> r.pc, op |-> r.op, g |-> r.g, u |-> r.u, us |-> r.us, known |-> r.known]
      BY <1>1 DEF Seen
    <2> HIDE DEF r
    <2> QED
      BY <2>2, <2>3 DEF r
  <1>3. Requested' = [Requested EXCEPT ![p].pc = "done"]
    BY <1>1, <1>2, RequestBecomes
  <1> QED
    BY <1>3, RequestFacts DEF Effects

\* The commit to one group, of a request that has not taken effect yet.
LEMMA CommitImplements ==
    ASSUME TypeOK, NEW p \in Proc, NEW g, NEW r, NEW steps, CommitRow(p, g, r, steps),
           tx[p].pc \in {"lock", "commit"}, tx[p].op # "deleteUser"
    PROVE  /\ Effects(p, tx[p].op, "called")
           /\ Groups' = [Groups EXCEPT ![g] = View(r)] /\ deleted' = deleted
  <1> DEFINE t == [tx[p] EXCEPT !.pc = "redis", !.row[g] = r, !.todo = steps]
  <1>1. /\ group' = [group EXCEPT ![g] = r] /\ Becomes(p, t) /\ deleted' = deleted
    BY DEF CommitRow
  <1>2. /\ t.pc = "redis" /\ t.op = tx[p].op /\ t.g = tx[p].g /\ t.u = tx[p].u
        /\ t.us = tx[p].us /\ t.joined = tx[p].joined /\ t.owned = tx[p].owned
    BY DEF TypeOK, TxState
  <1>3. Phase(tx[p]) = "called"
    BY DEF Phase
  <1>4. Groups' = [Groups EXCEPT ![g] = View(r)]
    BY <1>1 DEF Groups, TypeOK
  <1> HIDE DEF t
  <1> QED
    BY <1>1, <1>2, <1>3, <1>4, TakesEffect

\* A row that differs in its count only.
LEMMA SameView ==
    ASSUME NEW g \in Group, NEW r, r.state = group[g].state, r.owner = group[g].owner,
           r.status = group[g].status
    PROVE  [Groups EXCEPT ![g] = View(r)] = Groups
  BY DEF Groups, View

LEMMA Counted ==
    ASSUME NEW r \in Row, NEW n
    PROVE  /\ CountDown(r, n).state = r.state /\ CountDown(r, n).owner = r.owner
           /\ CountDown(r, n).status = r.status
           /\ CountUp(r).state = r.state /\ CountUp(r).owner = r.owner
           /\ CountUp(r).status = r.status
  BY DEF CountDown, CountUp, Row

LEMMA CreateImplements ==
    ASSUME GroupInv, NEW p \in Proc, CreateGroup(p)
    PROVE  Atomic!Effect(p)
  <1> DEFINE g == tx[p].g
             u == tx[p].u
             r == [state |-> "live", owner |-> u, cnt |-> 1, status |-> "NORMAL"]
  <1>1. /\ tx[p].pc = "lock" /\ tx[p].op = "create" /\ g \in Group /\ TypeOK /\ DismissedEmpty
        /\ group[g].state = "none"
    BY DEF CreateGroup, GroupInv, Requests, WellFormed, CreatesFresh
  <1>2. AddUser(g, u) /\ CommitRow(p, g, r, <<"info", "card">>) /\ applied' = applied
    BY DEF CreateGroup
  <1>3. View(r) = [state |-> "live", owner |-> u, status |-> "NORMAL"]
    BY DEF View
  <1> HIDE DEF r
  <1>4. /\ Effects(p, "create", "called") /\ deleted' = deleted
        /\ Groups' = [Groups EXCEPT ![g] = [state |-> "live", owner |-> u, status |-> "NORMAL"]]
    BY <1>1, <1>2, <1>3, CommitImplements
  <1>5. member' = [member EXCEPT ![g] = {u}]
    BY <1>1, <1>2 DEF AddUser, DismissedEmpty, Live, TypeOK
  <1>6. Groups[g].state = "none" /\ Requested[p].g = g /\ Requested[p].u = u
    BY <1>1, GroupFacts, RequestFacts
  <1> QED
    BY <1>2, <1>4, <1>5, <1>6 DEF Effects, Atomic!Effect, Atomic!Is, Atomic!Create

\* Entering, and passing an application: the lock has kept the status.
LEMMA InsertImplements ==
    ASSUME GroupInv, NEW p \in Proc, EnterCommit(p) \/ PassCommit(p)
    PROVE  Atomic!End(p) \/ Atomic!Effect(p)
  <1> DEFINE g == tx[p].g
             u == tx[p].u
             r == CountUp(group[g])
             steps == <<"info", "card", "dropList">>
  <1>1. PICK op \in {"enter", "pass"} : At(p, op) /\ Insert(p, steps)
    BY DEF EnterCommit, PassCommit
  <1>2. /\ TypeOK /\ g \in Group /\ tx[p].pc = "commit" /\ tx[p].op = op /\ Own(p)
        /\ tx[p].row[g] = group[g] /\ Live(g) /\ group[g] \in Row
    BY <1>1, AtCommit
  <1> SUFFICES ASSUME ~Refuse(p) PROVE Atomic!Effect(p)
    BY <1>2, RefuseImplements
  <1>3. u \notin member[g] /\ AddUser(g, u) /\ CommitRow(p, g, r, steps)
    BY <1>1, <1>2 DEF Insert
  <1>4. [Groups EXCEPT ![g] = View(r)] = Groups
    BY <1>2, Counted, SameView
  <1> HIDE DEF r, steps
  <1>5. Effects(p, op, "called") /\ Groups' = Groups /\ deleted' = deleted
    BY <1>2, <1>3, <1>4, CommitImplements
  <1>6. Atomic!Live(g) /\ Requested[p].g = g /\ Requested[p].u = u
        /\ Groups[g].status = group[g].status
    BY <1>2, GroupFacts, RequestFacts
  <1>7. Atomic!Join(g, u)
    BY <1>3, <1>6 DEF Atomic!Join, AddUser
  <1>8. CASE EnterCommit(p)
    <2>1. op = "enter" /\ applied' = applied
      BY <1>2, <1>8 DEF EnterCommit, At
    <2> QED
      BY <1>5, <1>6, <1>7, <2>1 DEF Effects, Atomic!Effect, Atomic!Is, Atomic!Enter
  <1>9. CASE PassCommit(p)
    <2>1. op = "pass" /\ applied' = [applied EXCEPT ![g] = @ \cup {u}]
      BY <1>2, <1>3, <1>9 DEF PassCommit, At
    <2>2. group[g].status = "NORMAL"
      BY <1>2, <2>1 DEF Own, HoldsRow
    <2> QED
      BY <1>5, <1>6, <1>7, <2>1, <2>2 DEF Effects, Atomic!Effect, Atomic!Is, Atomic!Pass
  <1> QED
    BY <1>8, <1>9

LEMMA PartImplements ==
    ASSUME GroupInv, NEW p \in Proc, LeaveCommit(p) \/ RemoveCommit(p)
    PROVE  Atomic!Effect(p)
  <1> DEFINE g == tx[p].g
  <1>1. PICK op \in {"leave", "remove"} : At(p, op)
    BY DEF LeaveCommit, RemoveCommit
  <1>2. /\ TypeOK /\ g \in Group /\ tx[p].pc = "commit" /\ tx[p].op = op /\ Own(p)
        /\ tx[p].row[g] = group[g] /\ Live(g) /\ group[g] \in Row
    BY <1>1, AtCommit
  <1>3. /\ Atomic!Live(g) /\ Requested[p].g = g /\ Requested[p].u = tx[p].u
        /\ Requested[p].us = tx[p].us /\ Groups[g].owner = group[g].owner
    BY <1>2, GroupFacts, RequestFacts
  <1>4. ASSUME NEW n, NEW steps, CommitRow(p, g, CountDown(tx[p].row[g], n), steps)
        PROVE  Effects(p, op, "called") /\ Groups' = Groups /\ deleted' = deleted
    <2>1. CommitRow(p, g, CountDown(group[g], n), steps)
      BY <1>2, <1>4
    <2> DEFINE r == CountDown(group[g], n)
    <2>2. [Groups EXCEPT ![g] = View(r)] = Groups
      BY <1>2, Counted, SameView
    <2> HIDE DEF r
    <2> QED
      BY <1>2, <2>1, <2>2, CommitImplements DEF r
  <1>5. CASE LeaveCommit(p)
    <2>1. /\ op = "leave" /\ DropUsers(g, {tx[p].u})
          /\ CommitRow(p, g, CountDown(tx[p].row[g], 1), <<"dropList", "info", "card">>)
      BY <1>2, <1>5 DEF LeaveCommit, At
    <2>2. group[g].owner # tx[p].u /\ tx[p].u \in member[g]
      BY <1>2, <2>1 DEF Own, HoldsRow
    <2>3. Atomic!Part(g, {tx[p].u})
      BY <1>3, <2>1, <2>2 DEF Atomic!Part, DropUsers
    <2> QED
      BY <1>3, <1>4, <2>1, <2>3 DEF Effects, Atomic!Effect, Atomic!Is, Atomic!Leave
  <1>6. CASE RemoveCommit(p)
    <2> DEFINE S == tx[p].us \cap tx[p].seen
    <2>1. /\ op = "remove" /\ DropUsers(g, S)
          /\ CommitRow(p, g, CountDown(tx[p].row[g], Cardinality(S)), <<"info", "card", "dropList">>)
      BY <1>2, <1>6 DEF RemoveCommit, At
    <2>2. group[g].owner \notin tx[p].us /\ S = tx[p].us \cap member[g]
      BY <1>2, <2>1 DEF Own, HoldsRow
    <2> HIDE DEF S
    <2>3. Atomic!Part(g, tx[p].us \cap member[g])
      BY <1>3, <2>1, <2>2 DEF Atomic!Part, DropUsers
    <2> QED
      BY <1>3, <1>4, <2>1, <2>2, <2>3 DEF Effects, Atomic!Effect, Atomic!Is, Atomic!Remove
  <1> QED
    BY <1>5, <1>6

LEMMA DissolveImplements ==
    ASSUME GroupInv, NEW p \in Proc, DissolveCommit(p)
    PROVE  Atomic!Effect(p)
  <1> DEFINE g == tx[p].g
             r == Buried(group[g])
  <1>1. PICK op \in {"dismiss", "delete"} : At(p, op)
    BY DEF DissolveCommit
  <1>2. /\ TypeOK /\ g \in Group /\ tx[p].pc = "commit" /\ tx[p].op = op /\ Own(p)
        /\ Live(g) /\ group[g] \in Row
    BY <1>1, AtCommit
  <1>3. DropUsers(g, User) /\ CommitRow(p, g, r, <<"dropInfo", "dropCard", "dropList">>)
    BY DEF DissolveCommit
  <1>4. [Groups EXCEPT ![g] = View(r)] = [Groups EXCEPT ![g].state = "dead"]
    BY <1>2 DEF Groups, View, Buried, Row
  <1> HIDE DEF r
  <1>5. /\ Effects(p, op, "called") /\ Groups' = [Groups EXCEPT ![g].state = "dead"]
        /\ deleted' = deleted
    BY <1>2, <1>3, <1>4, CommitImplements
  <1>6. /\ Atomic!Live(g) /\ Requested[p].g = g /\ Requested[p].u = tx[p].u
        /\ Groups[g].owner = group[g].owner
    BY <1>2, GroupFacts, RequestFacts
  <1>7. op = "dismiss" => group[g].owner = tx[p].u
    BY <1>2 DEF Own, HoldsRow
  <1>8. member' = [member EXCEPT ![g] = {}] /\ applied' = [applied EXCEPT ![g] = {}]
    BY <1>2, <1>3 DEF DropUsers, TypeOK
  <1> QED
    BY <1>5, <1>6, <1>7, <1>8 DEF Effects, Atomic!Effect, Atomic!Is, Atomic!Dissolve

LEMMA StatusImplements ==
    ASSUME GroupInv, NEW p \in Proc, SetGroupsStatus(p)
    PROVE  Atomic!Effect(p)
  <1> DEFINE g == tx[p].g
             status == IF tx[p].op = "disable" THEN "DISABLE" ELSE "NORMAL"
             r == IF Live(g) THEN [group[g] EXCEPT !.status = status] ELSE group[g]
             steps == IF tx[p].op = "disable" THEN <<"dropInfo", "dropCard">> ELSE <<"dropInfo">>
  <1>1. /\ tx[p].pc = "lock" /\ tx[p].op \in {"enable", "disable"}
        /\ CommitRow(p, g, r, steps) /\ UNCHANGED <<member, applied>>
    BY DEF SetGroupsStatus
  <1>2. TypeOK /\ g \in Group /\ group[g] \in Row
    BY <1>1 DEF GroupInv, TypeOK, Requests, WellFormed
  <1>3. [Groups EXCEPT ![g] = View(r)] =
          IF Live(g) THEN [Groups EXCEPT ![g].status = status] ELSE Groups
    BY <1>2 DEF Groups, View, Row
  <1> HIDE DEF r, steps
  <1>4. /\ Effects(p, tx[p].op, "called") /\ deleted' = deleted
        /\ Groups' = IF Live(g) THEN [Groups EXCEPT ![g].status = status] ELSE Groups
    BY <1>1, <1>2, <1>3, CommitImplements
  <1>5. (Atomic!Live(g) <=> Live(g)) /\ Requested[p].g = g
    BY <1>2, GroupFacts, RequestFacts
  <1> QED
    BY <1>1, <1>4, <1>5 DEF Effects, Atomic!Effect, Atomic!Is, Atomic!SetStatus

\* An update that runs alone changes nothing of what a group is.
LEMMA UpdateImplements ==
    ASSUME GroupInv, NEW p \in Proc, UpdateCommit(p)
    PROVE  Atomic!Effect(p)
  <1> DEFINE g == tx[p].g
  <1>1. At(p, "update")
    BY DEF UpdateCommit
  <1>2. /\ TypeOK /\ g \in Group /\ tx[p].pc = "commit" /\ tx[p].op = "update"
        /\ tx[p].row[g] = group[g] /\ Live(g)
    BY <1>1, AtCommit
  <1>3. CommitRow(p, g, group[g], <<"info", "card">>) /\ UNCHANGED <<member, applied>>
    BY <1>2 DEF UpdateCommit
  <1>4. [Groups EXCEPT ![g] = View(group[g])] = Groups
    BY <1>2, SameView
  <1>5. Effects(p, "update", "called") /\ Groups' = Groups /\ deleted' = deleted
    BY <1>2, <1>3, <1>4, CommitImplements
  <1>6. Atomic!Live(g) /\ Requested[p].g = g
    BY <1>2, GroupFacts, RequestFacts
  <1> QED
    BY <1>3, <1>5, <1>6 DEF Effects, Atomic!Effect, Atomic!Is, Atomic!Touch

LEMMA GetImplements ==
    ASSUME GroupInv, NEW p \in Proc, GetGroupInfo(p) \/ GetGroupMemberList(p)
    PROVE  Atomic!End(p) \/ Atomic!Effect(p)
  <1> DEFINE g == tx[p].g
  <1>1. /\ TypeOK /\ tx[p] \in TxState /\ g \in Group /\ tx[p].pc = "read"
        /\ tx[p].op \in {"getInfo", "getList"}
    BY DEF GetGroupInfo, GetGroupMemberList, GroupInv, TypeOK, Requests, WellFormed
  <1> SUFFICES ASSUME ~Refuse(p) PROVE Atomic!Effect(p)
    BY <1>1, RefuseImplements
  <1>2. PICK t : /\ Becomes(p, t) /\ UNCHANGED db /\ Live(g)
                 /\ t.pc = "redis" /\ t.op = tx[p].op /\ t.g = tx[p].g /\ t.u = tx[p].u
                 /\ t.us = tx[p].us /\ t.joined = tx[p].joined /\ t.owned = tx[p].owned
    <2>1. CASE GetGroupInfo(p)
      <3> DEFINE t == [tx[p] EXCEPT !.pc = "redis", !.row[g] = group[g], !.todo = <<"info", "card">>]
      <3>1. Becomes(p, t) /\ UNCHANGED db /\ Live(g)
        BY <2>1 DEF GetGroupInfo
      <3>2. /\ t.pc = "redis" /\ t.op = tx[p].op /\ t.g = tx[p].g /\ t.u = tx[p].u
            /\ t.us = tx[p].us /\ t.joined = tx[p].joined /\ t.owned = tx[p].owned
        BY <1>1 DEF TxState
      <3> HIDE DEF t
      <3> QED
        BY <3>1, <3>2
    <2>2. CASE GetGroupMemberList(p)
      <3> DEFINE t == [tx[p] EXCEPT !.pc = "redis", !.todo = <<"members", "names", "list">>]
      <3>1. Becomes(p, t) /\ UNCHANGED db /\ Live(g)
        BY <2>2 DEF GetGroupMemberList
      <3>2. /\ t.pc = "redis" /\ t.op = tx[p].op /\ t.g = tx[p].g /\ t.u = tx[p].u
            /\ t.us = tx[p].us /\ t.joined = tx[p].joined /\ t.owned = tx[p].owned
        BY <1>1 DEF TxState
      <3> HIDE DEF t
      <3> QED
        BY <3>1, <3>2
    <2> QED
      BY <2>1, <2>2
  <1>3. Phase(tx[p]) = "called"
    BY <1>1 DEF Phase
  <1>4. Effects(p, tx[p].op, "called")
    BY <1>1, <1>2, <1>3, TakesEffect
  <1>5. Atomic!Live(g) /\ Requested[p].g = g
    BY <1>1, <1>2, GroupFacts, RequestFacts
  <1>6. UNCHANGED <<Groups, member, applied, deleted>>
    BY <1>2 DEF db, Groups
  <1> QED
    BY <1>1, <1>4, <1>5, <1>6 DEF Effects, Atomic!Effect, Atomic!Is, Atomic!Touch

\* All the groups DeleteUsers listed are locked, so they are still there, and those
\* he owned then he owns now.
LEMMA DeleteUserImplements ==
    ASSUME GroupInv, NEW p \in Proc, DeleteUsersCommit(p)
    PROVE  Atomic!Effect(p)
  <1> DEFINE u == tx[p].u
             known == tx[p].joined \cup tx[p].owned
             gone == tx[p].owned
             left == {g \in tx[p].joined : u \in member[g]}
             t == [tx[p] EXCEPT !.pc = "redis", !.todo = <<"dropList", "dropInfo", "dropCard">>]
             own == {g \in known : Groups[g].owner = u}
  <1>1. /\ TypeOK /\ Own(p) /\ tx[p] \in TxState /\ tx[p].pc = "lock" /\ tx[p].op = "deleteUser"
        /\ known \subseteq Group
    BY DEF GroupInv, TypeOK, TxState, Requests, Own, DeleteUsersCommit
  <1>2. Becomes(p, t) /\ deleted' = deleted \cup {u} /\ known \subseteq Locked(p)
    BY DEF DeleteUsersCommit
  <1>3. /\ t.pc = "redis" /\ t.op = tx[p].op /\ t.g = tx[p].g /\ t.u = u
        /\ t.us = tx[p].us /\ t.joined = tx[p].joined /\ t.owned = tx[p].owned
    BY <1>1 DEF TxState
  <1> HIDE DEF t
  <1>4. Phase(tx[p]) = "listed"
    BY <1>1 DEF Phase
  <1>5. Effects(p, "deleteUser", "listed")
    BY <1>1, <1>2, <1>3, <1>4, TakesEffect
  <1>6. \A g \in known : lock[g] = p /\ Live(g) /\ tx[p].row[g] = group[g]
    BY <1>1, <1>2 DEF Locked, Own, LocksInside, HoldsRows
  <1>7. own = gone
    <2>1. /\ \A g \in tx[p].owned : group[g].owner = u
          /\ \A g \in tx[p].joined : group[g].owner # u
      BY <1>1 DEF Own, HoldsRows
    <2> QED
      BY <1>1, <2>1, GroupFacts
  <1> HIDE DEF own
  <1>8. Groups' = [g \in Group |-> IF g \in own THEN [Groups[g] EXCEPT !.state = "dead"]
                                                ELSE Groups[g]]
    <2>1. ASSUME NEW g \in Group
          PROVE  View(group[g])' = IF g \in gone THEN [View(group[g]) EXCEPT !.state = "dead"]
                                                 ELSE View(group[g])
      <3>0. group[g] \in Row
        BY <1>1 DEF TypeOK
      <3>1. CASE g \in gone
        <4>1. group'[g] = Buried(group[g])
          BY <3>1 DEF DeleteUsersCommit
        <4> QED
          BY <3>0, <3>1, <4>1 DEF View, Buried, Row
      <3>2. CASE g \notin gone /\ g \in left
        <4>1. group'[g] = CountDown(group[g], 1)
          BY <1>6, <3>2 DEF DeleteUsersCommit
        <4> QED
          BY <3>0, <3>2, <4>1, Counted DEF View
      <3>3. CASE g \notin gone /\ g \notin left
        <4>1. group'[g] = group[g]
          BY <3>3 DEF DeleteUsersCommit
        <4> QED
          BY <3>3, <4>1 DEF View
      <3> QED
        BY <3>1, <3>2, <3>3
    <2> QED
      BY <1>7, <2>1 DEF Groups
  <1>9. member' = [g \in Group |-> IF g \in own THEN {}
                                   ELSE IF g \in known THEN member[g] \ {u} ELSE member[g]]
    <2>1. member' = [g \in Group |-> IF g \in gone THEN {}
                                     ELSE IF g \in left THEN member[g] \ {u} ELSE member[g]]
      BY DEF DeleteUsersCommit
    <2>2. \A g \in Group \ gone : g \in known \ left => member[g] \ {u} = member[g]
      BY <1>1
    <2> QED
      BY <1>7, <2>1, <2>2
  <1>10. applied' = [g \in Group |-> IF g \in own THEN {} ELSE applied[g] \ {u}]
    BY <1>7 DEF DeleteUsersCommit
  <1>11. \A g \in known : Atomic!Live(g)
    BY <1>1, <1>6, GroupFacts
  <1>12. Requested[p].u = u /\ Requested[p].known = known
    BY RequestFacts
  <1> HIDE DEF known, u
  <1> QED
    BY <1>2, <1>5, <1>8, <1>9, <1>10, <1>11, <1>12 
    DEF Effects, Atomic!Effect, Atomic!Is, Atomic!DeleteUser, own

-----------------------------------------------------------------------------

\* What comes after the commit, in redis, is seen by nobody.
LEMMA RedisImplements ==
    ASSUME GroupInv, NEW p \in Proc,
           \/ PutInfo(p) \/ PutCard(p) \/ QueryMembers(p) \/ ReadNames(p) \/ PutList(p)
           \/ DropKeys(p) \/ RedisFails(p)
    PROVE  UNCHANGED Atomic!vars
  <1>0. TypeOK /\ tx[p] \in TxState
    BY DEF GroupInv, TypeOK
  <1>1. ASSUME NEW step, NEW seen, Done(p, step, [tx[p] EXCEPT !.seen = seen])
        PROVE  UNCHANGED Atomic!vars
    <2> DEFINE t == [[tx[p] EXCEPT !.seen = seen] EXCEPT !.todo = Tail(@)]
    <2>1. Becomes(p, t) /\ UNCHANGED db
      BY <1>1 DEF Done
    <2>2. /\ t.pc = tx[p].pc /\ t.op = tx[p].op /\ t.g = tx[p].g /\ t.u = tx[p].u
          /\ t.us = tx[p].us /\ t.joined = tx[p].joined /\ t.owned = tx[p].owned
      BY <1>0 DEF TxState
    <2> HIDE DEF t
    <2>3. Phase(t) = Phase(tx[p])
      BY <2>2 DEF Phase
    <2> QED
      BY <1>0, <2>1, <2>2, <2>3, Unseen
  <1>2. [tx[p] EXCEPT !.seen = tx[p].seen] = tx[p]
    BY <1>0 DEF TxState
  <1>3. ASSUME NEW step, Done(p, step, tx[p]) PROVE UNCHANGED Atomic!vars
    BY <1>1, <1>2, <1>3
  <1>4. CASE ReadNames(p) \/ QueryMembers(p)
    BY <1>1, <1>4 DEF ReadNames, QueryMembers
  <1> QED
    BY <1>3, <1>4 DEF PutInfo, PutCard, PutList, DropKeys, RedisFails

\* Every step of GroupMembership is one of AtomicGroups, or a stutter.
LEMMA StepImplements ==
    ASSUME GroupInv, [Next]_vars
    PROVE  [Atomic!Next]_(Atomic!vars)
  <1>0. TypeOK
    BY DEF GroupInv
  <1> DEFINE ByRequest(p) == \/ Atomic!Invoke(p) \/ Atomic!ListGroups(p)
                         \/ Atomic!Effect(p) \/ Atomic!End(p)
  <1>1. ASSUME NEW p \in Proc, Call(p) PROVE ByRequest(p)
    BY <1>0, <1>1, CallImplements
  <1>2. ASSUME NEW p \in Proc, Transaction(p) PROVE ByRequest(p) \/ UNCHANGED Atomic!vars
    BY <1>0, <1>2, CreateImplements, LocksImplement, PartImplements, InsertImplements,
       DissolveImplements, StatusImplements, UpdateImplements, ListImplements,
       DeleteUserImplements
    DEF Transaction
  <1>3. ASSUME NEW p \in Proc, Redis(p) PROVE ByRequest(p) \/ UNCHANGED Atomic!vars
    <2>1. CASE Reply(p)
      BY <1>0, <2>1, EndImplements DEF Reply
    <2> QED
      BY <1>3, <2>1, GetImplements, RedisImplements DEF Redis
  <1>4. ASSUME NEW p \in Proc, Failure(p) PROVE ByRequest(p) \/ UNCHANGED Atomic!vars
    <2>1. CASE Rollback(p) \/ Crash(p)
      BY <1>0, <2>1, RefuseImplements DEF Rollback, Crash
    <2> QED
      BY <1>4, <2>1, RedisImplements DEF Failure
  <1>5. ASSUME NEW p \in Proc, ByRequest(p) PROVE Atomic!Next
    BY <1>5 DEF Atomic!Next
  <1>6. ASSUME NEW g \in Group, NEW u \in User, Apply(g, u) PROVE Atomic!Next
    BY <1>6, ApplyImplements DEF Atomic!Next
  <1>7. ASSUME NEW g \in Group, Expire(g) PROVE UNCHANGED Atomic!vars
    BY <1>7 DEF Expire, db, Atomic!vars, Groups, Requested
  <1>8. CASE UNCHANGED vars
    BY <1>8 DEF vars, db, Atomic!vars, Groups, Requested
  <1>9. ASSUME NEW u \in User, Revive(u) PROVE Atomic!Next
    BY <1>9, ReviveImplements DEF Atomic!Next
  <1> HIDE DEF ByRequest
  <1> QED
    BY <1>1, <1>2, <1>3, <1>4, <1>5, <1>6, <1>7, <1>8, <1>9 DEF Next

\* While UpdateGroupInfo runs alone, the operations on groups are atomic: each takes
\* effect at most once, at one instant between its call and its answer, with its
\* checks true of the groups of that instant, for any number of requests and under
\* every failure.
THEOREM Atomicity ==
    ASSUME UpdatesAlone
    PROVE  Spec => ImplementsAtomicGroups
  <1>1. Init => Atomic!Init
    <2> SUFFICES ASSUME Init PROVE Atomic!Init
      OBVIOUS
    <2>1. Groups = [g \in Group |-> [state |-> "none", owner |-> NoUser, status |-> "NORMAL"]]
      BY DEF Init, InitDb, Groups, View, NoRow
    <2>2. Requested = [p \in Proc |-> Atomic!Idle]
      BY DEF Init, Requested, Seen, Phase, Idle, Atomic!Idle, Atomic!Request
    <2> QED
      BY <2>1, <2>2 DEF Init, InitDb, Atomic!Init
  <1>2. GroupInv /\ [Next]_vars => [Atomic!Next]_(Atomic!vars)
    BY StepImplements
  <1>3. Spec => []GroupInv
    BY GroupInvariance
  <1> QED
    BY <1>1, <1>2, <1>3, PTL DEF Spec, ImplementsAtomicGroups, Atomic!Spec

-----------------------------------------------------------------------------
(* What the steps of a request leave to be done in redis.                     *)

\* Members of one group only are changed, and only u is new.
LEMMA OneGroupOnly ==
    ASSUME TypeOK, NEW g \in Group, NEW u, (\E us : DropUsers(g, us)) \/ AddUser(g, u)
    PROVE  /\ \A x \in Group \ {g} : member'[x] = member[x]
           /\ member'[g] \subseteq member[g] \cup {u}
  BY DEF TypeOK, DropUsers, AddUser

\* The steps the commits leave, as sets.
LEMMA LeftSets ==
    ASSUME NEW a, NEW b, NEW c
    PROVE  /\ {<<a>>[k] : k \in DOMAIN <<a>>} = {a}
           /\ {<<a, b>>[k] : k \in DOMAIN <<a, b>>} = {a, b}
           /\ {<<a, b, c>>[k] : k \in DOMAIN <<a, b, c>>} = {a, b, c}
  <1>1. DOMAIN <<a>> = {1} /\ DOMAIN <<a, b>> = {1, 2} /\ DOMAIN <<a, b, c>> = {1, 2, 3}
    OBVIOUS
  <1> QED
    BY <1>1

\* The first redis step and those that are left.
LEMMA HeadAndTail ==
    ASSUME NEW s \in Seq(Steps), s # << >>
    PROVE  {s[k] : k \in DOMAIN s} = {Head(s)} \cup {Tail(s)[k] : k \in DOMAIN Tail(s)}
  <1> DEFINE n == Len(s)
             r == Tail(s)
  <1>1. /\ n \in Nat /\ n >= 1 /\ DOMAIN s = 1..n
        /\ DOMAIN r = 1..(n - 1)
        /\ Head(s) = s[1] /\ \A k \in 1..(n - 1) : r[k] = s[k + 1]
    OBVIOUS
  <1> HIDE DEF n, r
  <1>2. ASSUME NEW k \in DOMAIN s PROVE s[k] \in {Head(s)} \cup {r[m] : m \in DOMAIN r}
    <2>1. CASE k = 1
      BY <1>1, <2>1
    <2>2. CASE k # 1
      <3>1. k - 1 \in DOMAIN r /\ r[k - 1] = s[k]
        BY <1>1, <2>2
      <3> QED
        BY <3>1
    <2> QED
      BY <2>1, <2>2
  <1>3. ASSUME NEW k \in DOMAIN r PROVE r[k] \in {s[m] : m \in DOMAIN s}
    <2>1. k + 1 \in DOMAIN s /\ r[k] = s[k + 1]
      BY <1>1
    <2> QED
      BY <2>1
  <1>4. Head(s) \in {s[m] : m \in DOMAIN s}
    BY <1>1
  <1> QED
    BY <1>2, <1>3, <1>4 DEF r

\* What p has left to put and to drop depends on p alone.
LEMMA SameLeft ==
    ASSUME NEW p, tx'[p] = tx[p]
    PROVE  /\ StepsLeft(p)' = StepsLeft(p) /\ PutsLeft(p)' = PutsLeft(p)
           /\ KeysLeft(p)' = KeysLeft(p)
  BY DEF StepsLeft, PutsLeft, KeysLeft, Pending, Affected

LEMMA NothingLeft ==
    ASSUME NEW p, tx[p].todo = << >>
    PROVE  StepsLeft(p) = {} /\ PutsLeft(p) = {} /\ KeysLeft(p) = {}
  BY DEF StepsLeft, PutsLeft, KeysLeft, Pending

\* A key stays true when nothing changes that it shows.
LEMMA TrueStays ==
    ASSUME NEW kind \in Kinds, NEW g, ~Changes(kind, g), redis' = redis, KeyTrue(kind, g)
    PROVE  KeyTrue(kind, g)'
  BY DEF Kinds, Changes, KeyTrue, InfoTrue, CardTrue, ListTrue, Live, redis

LEMMA SameKeys ==
    ASSUME redis' = redis
    PROVE  Present' = Present /\ \A kind : Keys(kind)' = Keys(kind)
  BY DEF redis, Keys, Present

\* A request that is called, or ends.
LEMMA IdleQuiet == Idle.todo = << >>
  BY DEF Idle

\* The commit of one group's row: steps puts or drops every key it makes wrong.
Saves(p, r, steps) == LET g == tx[p].g IN
  /\ CommitRow(p, g, r, steps)
  /\ g \in Group /\ tx[p].op # "deleteUser" /\ tx[p].pc \in {"lock", "commit"}
  /\ \A x \in Group \ {g} : member'[x] = member[x]
  /\ member'[g] \subseteq member[g] \cup {tx[p].u}
  /\ \/ /\ steps \in {<<"info", "card">>, <<"dropList", "info", "card">>,
                      <<"info", "card", "dropList">>}
        /\ r.state = "live"
     \/ steps \in {<<"dropInfo", "dropCard", "dropList">>, <<"dropInfo", "dropCard">>,
                   <<"dropInfo">>}
  /\ steps = <<"dropInfo">> /\ CardTrue(g) =>
       r.state = "live" /\ r.status = "NORMAL" /\ r.cnt = group[g].cnt
  /\ steps \in {<<"info", "card">>, <<"dropInfo", "dropCard">>, <<"dropInfo">>} /\ ListTrue(g) =>
       r.state = "live" /\ member'[g] = member[g]

\* Every commit but that of DeleteUsers is one, or a refusal.
LEMMA CommitSaves ==
    ASSUME GroupInv, NEW p \in Proc, ~Refuse(p),
           \/ CreateGroup(p) \/ LeaveCommit(p) \/ RemoveCommit(p) \/ EnterCommit(p)
           \/ PassCommit(p) \/ DissolveCommit(p) \/ SetGroupsStatus(p) \/ UpdateCommit(p)
    PROVE  \E r, steps : Saves(p, r, steps)
  <1> DEFINE g == tx[p].g
  <1>1. /\ tx[p] \in TxState /\ TypeOK /\ tx[p].pc \in {"lock", "commit"}
        /\ tx[p].op \notin {"none", "deleteUser"} /\ tx[p].pc # "idle"
    BY DEF CreateGroup, LeaveCommit, RemoveCommit, EnterCommit, PassCommit, DissolveCommit,
           SetGroupsStatus, UpdateCommit, At, GroupInv, TypeOK
  <1>2. g \in Group
    BY <1>1 DEF GroupInv, Requests, WellFormed
  <1>3. group[g] \in Row
    BY <1>1, <1>2 DEF TypeOK
  <1>4. \A n : CountDown(group[g], n).state = group[g].state /\ CountUp(group[g]).state = group[g].state
    BY <1>3 DEF CountDown, CountUp, Row
  <1>5. ASSUME CreateGroup(p) PROVE \E r, steps : Saves(p, r, steps)
    <2> DEFINE r == [state |-> "live", owner |-> tx[p].u, cnt |-> 1, status |-> "NORMAL"]
    <2>1. AddUser(g, tx[p].u) /\ CommitRow(p, g, r, <<"info", "card">>) /\ r.state = "live"
      BY <1>5 DEF CreateGroup
    <2>2. (\A x \in Group \ {g} : member'[x] = member[x])
          /\ member'[g] \subseteq member[g] \cup {tx[p].u}
      BY <1>1, <1>2, <2>1, OneGroupOnly
    <2>3. group[g].state = "none"
      BY <1>5 DEF CreateGroup, GroupInv, Requests, CreatesFresh
    <2> HIDE DEF r
    <2> QED
      BY <1>1, <1>2, <2>1, <2>2, <2>3 DEF Saves, ListTrue, Live
  <1>6. ASSUME LeaveCommit(p) \/ RemoveCommit(p) \/ EnterCommit(p) \/ PassCommit(p)
        PROVE  \E r, steps : Saves(p, r, steps)
    <2>1. PICK op \in {"leave", "remove", "enter", "pass"} : At(p, op)
      BY <1>6 DEF LeaveCommit, RemoveCommit, EnterCommit, PassCommit
    <2>2. tx[p].row[g] = group[g] /\ group[g].state = "live"
      BY <2>1, AtCommit DEF Live
    <2>3. PICK r, steps : /\ CommitRow(p, g, r, steps) /\ r.state = "live"
                          /\ steps \in {<<"dropList", "info", "card">>, <<"info", "card", "dropList">>}
                          /\ (\E us : DropUsers(g, us)) \/ AddUser(g, tx[p].u)
      BY <1>4, <1>6, <2>2 DEF LeaveCommit, RemoveCommit, EnterCommit, PassCommit, Insert
    <2>4. (\A x \in Group \ {g} : member'[x] = member[x])
          /\ member'[g] \subseteq member[g] \cup {tx[p].u}
      BY <1>1, <1>2, <2>3, OneGroupOnly
    <2> QED
      BY <1>1, <1>2, <2>3, <2>4 DEF Saves
  <1>7. ASSUME DissolveCommit(p) PROVE \E r, steps : Saves(p, r, steps)
    <2>1. DropUsers(g, User)
          /\ CommitRow(p, g, Buried(group[g]), <<"dropInfo", "dropCard", "dropList">>)
      BY <1>7 DEF DissolveCommit
    <2>2. (\A x \in Group \ {g} : member'[x] = member[x])
          /\ member'[g] \subseteq member[g] \cup {tx[p].u}
      BY <1>1, <1>2, <2>1, OneGroupOnly
    <2> QED
      BY <1>1, <1>2, <2>1, <2>2 DEF Saves
  <1>8. ASSUME UpdateCommit(p) PROVE \E r, steps : Saves(p, r, steps)
    <2>1. tx[p].row[g] = group[g] /\ group[g].state = "live"
      BY <1>8, AtCommit DEF UpdateCommit, Live
    <2>2. CommitRow(p, g, group[g], <<"info", "card">>) /\ member' = member
      BY <1>8, <2>1 DEF UpdateCommit
    <2> QED
      BY <1>1, <1>2, <2>1, <2>2 DEF Saves
  <1>9. ASSUME SetGroupsStatus(p) PROVE \E r, steps : Saves(p, r, steps)
    <2> DEFINE r == IF Live(g)
                    THEN [group[g] EXCEPT !.status = IF tx[p].op = "disable" THEN "DISABLE"
                                                     ELSE "NORMAL"]
                    ELSE group[g]
               steps == IF tx[p].op = "disable" THEN <<"dropInfo", "dropCard">> ELSE <<"dropInfo">>
    <2>1. CommitRow(p, g, r, steps) /\ member' = member /\ r.state = group[g].state
          /\ r.cnt = group[g].cnt
          /\ (Live(g) /\ tx[p].op # "disable" => r.status = "NORMAL")
      BY <1>3, <1>9 DEF SetGroupsStatus, Row
    <2>2. steps = <<"dropInfo", "dropCard">> \/ (steps = <<"dropInfo">> /\ tx[p].op # "disable")
      OBVIOUS
    <2> HIDE DEF r, steps
    <2>3. (\A x \in Group \ {g} : member'[x] = member[x])
          /\ member'[g] \subseteq member[g] \cup {tx[p].u}
      BY <2>1
    <2>4. CASE steps = <<"dropInfo", "dropCard">>
      BY <1>1, <1>2, <2>1, <2>3, <2>4 DEF Saves, ListTrue, Live
    <2>5. CASE steps = <<"dropInfo">> /\ tx[p].op # "disable"
      BY <1>1, <1>2, <2>1, <2>3, <2>5 DEF Saves, ListTrue, CardTrue, Live
    <2> QED
      BY <2>2, <2>4, <2>5
  <1> QED
    BY <1>5, <1>6, <1>7, <1>8, <1>9

\* What such a commit leaves to put or to drop, and which keys stay true.
LEMMA SavesLeave ==
    ASSUME TypeOK, NEW p \in Proc, NEW r, NEW steps, Saves(p, r, steps)
    PROVE  LET g == tx[p].g IN
           /\ tx'[p].pc = "redis" /\ tx'[p].op # "deleteUser" /\ tx'[p].g = g
           /\ tx'[p].row[g] = group'[g] /\ \A q \in Proc \ {p} : tx'[q] = tx[q]
           /\ tx'[p].todo = steps /\ deleted' = deleted /\ redis' = redis
           /\ Affected(p) = {g} /\ Affected(p)' = {g}
           /\ "list" \notin StepsLeft(p)'
           /\ {"info", "card"} \cap StepsLeft(p)' # {} => group'[g].state = "live"
           /\ \A kind \in Kinds : KeyTrue(kind, g) =>
                KeyTrue(kind, g)' \/ {kind, DropOf[kind]} \cap StepsLeft(p)' # {}
           /\ \A x \in Group \ {g} : group'[x] = group[x] /\ member'[x] = member[x]
           /\ member'[g] \subseteq member[g] \cup {tx[p].u}
  <1> DEFINE g == tx[p].g
             t == [tx[p] EXCEPT !.pc = "redis", !.row[g] = r, !.todo = steps]
             left == {steps[k] : k \in DOMAIN steps}
  <1>1. tx[p] \in TxState /\ g \in Group /\ tx[p].op # "deleteUser"
    BY DEF TypeOK, Saves
  <1>2. t.pc = "redis" /\ t.row[g] = r /\ t.todo = steps /\ t.g = g /\ t.op = tx[p].op
    BY <1>1 DEF TxState
  <1>3. /\ Becomes(p, t) /\ group' = [group EXCEPT ![g] = r] /\ UNCHANGED <<deleted, redis>>
        /\ \A x \in Group \ {g} : member'[x] = member[x]
        /\ member'[g] \subseteq member[g] \cup {tx[p].u}
    BY DEF Saves, CommitRow
  <1> HIDE DEF t
  <1>4. tx'[p] = t /\ \A q \in Proc \ {p} : tx'[q] = tx[q]
    BY <1>3 DEF Becomes, TypeOK
  <1>5. group'[g] = r /\ \A x \in Group \ {g} : group'[x] = group[x]
    BY <1>1, <1>3 DEF TypeOK
  <1>6. StepsLeft(p)' = left
    BY <1>2, <1>4 DEF StepsLeft
  <1>7. Affected(p) = {g} /\ Affected(p)' = {g}
    BY <1>1, <1>2, <1>4 DEF Affected
  <1>8. /\ "list" \notin left /\ {"info", "dropInfo"} \cap left # {}
        /\ {"info", "card"} \cap left # {} => r.state = "live"
        /\ {"card", "dropCard"} \cap left # {} \/ steps = <<"dropInfo">>
        /\ \/ "dropList" \in left
           \/ steps \in {<<"info", "card">>, <<"dropInfo", "dropCard">>, <<"dropInfo">>}
    <2>1. \/ steps = <<"info", "card">> /\ left = {"info", "card"} /\ r.state = "live"
          \/ left = {"dropList", "info", "card"} /\ r.state = "live"
          \/ left = {"info", "card", "dropList"} /\ r.state = "live"
          \/ left = {"dropInfo", "dropCard", "dropList"}
          \/ steps = <<"dropInfo", "dropCard">> /\ left = {"dropInfo", "dropCard"}
          \/ steps = <<"dropInfo">> /\ left = {"dropInfo"}
      BY LeftSets DEF Saves
    <2> HIDE DEF left
    <2> QED
      BY <2>1
  <1> HIDE DEF left
  <1>9. steps = <<"dropInfo">> /\ CardTrue(g) => CardTrue(g)'
    BY <1>2, <1>3, <1>4, <1>5 DEF Saves, CardTrue, Live, redis
  <1>10. steps \in {<<"info", "card">>, <<"dropInfo", "dropCard">>, <<"dropInfo">>} =>
           (ListTrue(g) => ListTrue(g)')
    BY <1>2, <1>3, <1>4, <1>5 DEF Saves, ListTrue, Live, redis
  <1>11. ASSUME NEW kind \in Kinds, KeyTrue(kind, g)
         PROVE  KeyTrue(kind, g)' \/ {kind, DropOf[kind]} \cap StepsLeft(p)' # {}
    BY <1>6, <1>8, <1>9, <1>10, <1>11 DEF Kinds, DropOf, KeyTrue
  <1> QED
    BY <1>1, <1>2, <1>3, <1>4, <1>5, <1>6, <1>7, <1>8, <1>11

\* The reads and the locks leave tables and redis alone, and nothing to be done.
LEMMA ReadsOnly ==
    ASSUME TypeOK, NEW p \in Proc, ~Refuse(p),
           \/ LeaveLock(p) \/ RemoveLock(p) \/ EnterLock(p) \/ PassRead(p) \/ PassLock(p)
           \/ DismissLock(p) \/ DeleteLock(p) \/ UpdateRead(p)
           \/ DeleteUsersRead(p) \/ \E g \in Group : DeleteUsersLock(p, g)
    PROVE  \E t : /\ Becomes(p, t) /\ UNCHANGED <<db, redis>>
                  /\ t.todo = tx[p].todo /\ t.op = tx[p].op /\ t.u = tx[p].u
  <1>1. tx[p] \in TxState
    BY DEF TypeOK
  <1>2. ASSUME NEW op, NEW ok, NEW seen, LockGroup(p, op, ok, seen)
        PROVE  \E t : /\ Becomes(p, t) /\ UNCHANGED <<db, redis>>
                      /\ t.todo = tx[p].todo /\ t.op = tx[p].op /\ t.u = tx[p].u
    <2> DEFINE t == [tx[p] EXCEPT !.pc = "commit", !.row[tx[p].g] = group[tx[p].g], !.seen = seen]
    <2>1. Becomes(p, t) /\ UNCHANGED <<db, redis>>
      BY <1>2 DEF LockGroup
    <2>2. t.todo = tx[p].todo /\ t.op = tx[p].op /\ t.u = tx[p].u
      BY <1>1 DEF TxState
    <2> HIDE DEF t
    <2> QED
      BY <2>1, <2>2
  <1>3. ASSUME PassRead(p)
        PROVE  \E t : /\ Becomes(p, t) /\ UNCHANGED <<db, redis>>
                      /\ t.todo = tx[p].todo /\ t.op = tx[p].op /\ t.u = tx[p].u
    <2> DEFINE t == [tx[p] EXCEPT !.pc = "lock", !.seen = member[tx[p].g]]
    <2>1. Becomes(p, t) /\ UNCHANGED <<db, redis>>
      BY <1>3 DEF PassRead
    <2>2. t.todo = tx[p].todo /\ t.op = tx[p].op /\ t.u = tx[p].u
      BY <1>1 DEF TxState
    <2> HIDE DEF t
    <2> QED
      BY <2>1, <2>2
  <1>5. ASSUME UpdateRead(p)
        PROVE  \E t : /\ Becomes(p, t) /\ UNCHANGED <<db, redis>>
                      /\ t.todo = tx[p].todo /\ t.op = tx[p].op /\ t.u = tx[p].u
    <2> DEFINE t == [tx[p] EXCEPT !.pc = "commit", !.row[tx[p].g] = group[tx[p].g]]
    <2>1. Becomes(p, t) /\ UNCHANGED <<db, redis>>
      BY <1>5 DEF UpdateRead
    <2>2. t.todo = tx[p].todo /\ t.op = tx[p].op /\ t.u = tx[p].u
      BY <1>1 DEF TxState
    <2> HIDE DEF t
    <2> QED
      BY <2>1, <2>2
  <1>6. ASSUME DeleteUsersRead(p)
        PROVE  \E t : /\ Becomes(p, t) /\ UNCHANGED <<db, redis>>
                      /\ t.todo = tx[p].todo /\ t.op = tx[p].op /\ t.u = tx[p].u
    <2> DEFINE t == [tx[p] EXCEPT !.pc = "lock", !.owned = Owned(tx[p].u),
                                  !.joined = Joined(tx[p].u) \ Owned(tx[p].u)]
    <2>1. Becomes(p, t) /\ UNCHANGED <<db, redis>>
      BY <1>6 DEF DeleteUsersRead
    <2>2. t.todo = tx[p].todo /\ t.op = tx[p].op /\ t.u = tx[p].u
      BY <1>1 DEF TxState
    <2> HIDE DEF t
    <2> QED
      BY <2>1, <2>2
  <1>7. ASSUME NEW g \in Group, DeleteUsersLock(p, g)
        PROVE  \E t : /\ Becomes(p, t) /\ UNCHANGED <<db, redis>>
                      /\ t.todo = tx[p].todo /\ t.op = tx[p].op /\ t.u = tx[p].u
    <2> DEFINE t == [tx[p] EXCEPT !.row[g] = group[g]]
    <2>1. Becomes(p, t) /\ UNCHANGED <<db, redis>>
      BY <1>7 DEF DeleteUsersLock
    <2>2. t.todo = tx[p].todo /\ t.op = tx[p].op /\ t.u = tx[p].u
      BY <1>1 DEF TxState
    <2> HIDE DEF t
    <2> QED
      BY <2>1, <2>2
  <1>8. CASE LeaveLock(p)
    BY <1>2, <1>8 DEF LeaveLock
  <1>9. CASE RemoveLock(p)
    BY <1>2, <1>9 DEF RemoveLock
  <1>10. CASE EnterLock(p)
    BY <1>2, <1>10 DEF EnterLock
  <1>11. CASE PassLock(p)
    BY <1>2, <1>11 DEF PassLock
  <1>12. CASE DismissLock(p) \/ DeleteLock(p)
    BY <1>2, <1>12 DEF DismissLock, DeleteLock
  <1> QED
    BY <1>3, <1>5, <1>6, <1>7, <1>8, <1>9, <1>10, <1>11, <1>12

\* A redis step that is done is no longer left, and nothing else changes but redis
\* and, when names are read, the list to be put.
LEMMA StepDone ==
    ASSUME TypeOK, NEW p \in Proc, NEW step, NEW seen,
           Done(p, step, [tx[p] EXCEPT !.seen = seen])
    PROVE  /\ tx[p].pc = "redis" /\ Head(tx[p].todo) = step /\ tx[p].todo # << >>
           /\ tx'[p].pc = "redis" /\ tx'[p].op = tx[p].op /\ tx'[p].g = tx[p].g
           /\ tx'[p].row = tx[p].row /\ tx'[p].seen = seen /\ tx'[p].u = tx[p].u
           /\ tx'[p].todo = Tail(tx[p].todo)
           /\ StepsLeft(p) = {step} \cup StepsLeft(p)'
           /\ Affected(p)' = Affected(p)
           /\ UNCHANGED <<group, member, deleted>>
           /\ \A q \in Proc \ {p} : tx'[q] = tx[q]
  <1> DEFINE old == tx[p]
             mid == [old EXCEPT !.seen = seen]
             t == [mid EXCEPT !.todo = Tail(mid.todo)]
  <1>1. /\ old.pc = "redis" /\ old.todo # << >> /\ Head(old.todo) = step
        /\ Becomes(p, t) /\ UNCHANGED db /\ old \in TxState
    BY DEF Done, TypeOK
  <1>2. /\ t.pc = "redis" /\ t.op = old.op /\ t.g = old.g /\ t.row = old.row
        /\ t.joined = old.joined /\ t.owned = old.owned /\ t.seen = seen /\ t.u = old.u
        /\ t.todo = Tail(old.todo) /\ old.todo \in Seq(Steps)
    BY <1>1 DEF TxState
  <1> HIDE DEF t, mid
  <1>3. tx'[p] = t /\ \A q \in Proc \ {p} : tx'[q] = tx[q]
    BY <1>1 DEF Becomes, TypeOK
  <1>4. StepsLeft(p) = {step} \cup StepsLeft(p)'
    <2> DEFINE s == old.todo
    <2>1. s \in Seq(Steps) /\ s # << >> /\ Head(s) = step
          /\ StepsLeft(p) = {s[k] : k \in DOMAIN s}
          /\ StepsLeft(p)' = {Tail(s)[k] : k \in DOMAIN Tail(s)}
      BY <1>1, <1>2, <1>3 DEF StepsLeft
    <2> HIDE DEF s
    <2> QED
      BY <2>1, HeadAndTail
  <1>5. Affected(p)' = Affected(p)
    BY <1>2, <1>3 DEF Affected
  <1> QED
    BY <1>1, <1>2, <1>3, <1>4, <1>5 DEF db

\* What p is to put of a kind is the truth.
HasTruth(p, kind) == LET t == tx[p] IN
  t.g \in Group /\ Live(t.g)
  /\ IF kind = "list" THEN t.seen = member[t.g] \ deleted ELSE t.row[t.g] = group[t.g]

\* What p has read of the members after the step.
SeenAfter(p, step) == IF step = "members" THEN member[tx[p].g]
                      ELSE IF step = "names" THEN tx[p].seen \ deleted ELSE tx[p].seen

\* A key that is there afterwards is the one p has put, or was there before and is
\* not one that p was to drop or to put in this step.
LEMMA RedisWrites ==
    ASSUME TypeOK, NEW p \in Proc,
           \/ PutInfo(p) \/ PutCard(p) \/ QueryMembers(p) \/ ReadNames(p) \/ PutList(p)
           \/ DropKeys(p),
           tx[p].op = "deleteUser" => {"info", "card", "list"} \cap StepsLeft(p) = {}
    PROVE  \E step, seen :
           /\ Done(p, step, [tx[p] EXCEPT !.seen = seen])
           /\ seen = SeenAfter(p, step)
           /\ \A kind \in Kinds : \A g \in Keys(kind)' :
                \/ /\ g \in Keys(kind) /\ (KeyTrue(kind, g) => KeyTrue(kind, g)')
                   /\ step \notin {kind, DropOf[kind]} \/ g \notin Affected(p)
                \/ g = tx[p].g /\ step = kind /\ (HasTruth(p, kind) => KeyTrue(kind, g)')
  <1> DEFINE Kept(step, kind, g) ==
               /\ g \in Keys(kind) /\ (KeyTrue(kind, g) => KeyTrue(kind, g)')
               /\ step \notin {kind, DropOf[kind]} \/ g \notin Affected(p)
             Was(step, kind, g) ==
               g = tx[p].g /\ step = kind /\ (HasTruth(p, kind) => KeyTrue(kind, g)')
             Good(step, seen) ==
               /\ Done(p, step, [tx[p] EXCEPT !.seen = seen])
               /\ seen = SeenAfter(p, step)
               /\ \A kind \in Kinds : \A g \in Keys(kind)' : Kept(step, kind, g) \/ Was(step, kind, g)
  <1>1. tx[p] \in TxState
    BY DEF TypeOK
  <1>2. ASSUME NEW step, Done(p, step, tx[p])
        PROVE  /\ Done(p, step, [tx[p] EXCEPT !.seen = tx[p].seen])
               /\ step \notin {"members", "names"} => SeenAfter(p, step) = tx[p].seen
               /\ step \in StepsLeft(p) /\ UNCHANGED <<group, member, deleted>>
    <2>1. [tx[p] EXCEPT !.seen = tx[p].seen] = tx[p]
      BY <1>1 DEF TxState
    <2>2. Done(p, step, [tx[p] EXCEPT !.seen = tx[p].seen])
      BY <1>2, <2>1
    <2> QED
      BY <2>2, StepDone DEF SeenAfter
  <1>3. /\ Kinds = {"info", "card", "list"}
        /\ DropOf["info"] = "dropInfo" /\ DropOf["card"] = "dropCard" /\ DropOf["list"] = "dropList"
    BY DEF Kinds, DropOf
  <1>4. /\ Keys("info") = DOMAIN info /\ Keys("card") = DOMAIN card /\ Keys("list") = DOMAIN list
        /\ Keys("info")' = DOMAIN info' /\ Keys("card")' = DOMAIN card' /\ Keys("list")' = DOMAIN list'
    BY DEF Keys
  <1> SUFFICES \E step, seen : Good(step, seen)
    OBVIOUS
  <1> DEFINE g == tx[p].g
             r == tx[p].row[g]
  <1>5. \A gs : /\ DOMAIN Drop(info, gs) = DOMAIN info \ gs
                /\ DOMAIN Drop(card, gs) = DOMAIN card \ gs
                /\ DOMAIN Drop(list, gs) = DOMAIN list \ gs
                /\ \A x \in DOMAIN info \ gs : Drop(info, gs)[x] = info[x]
                /\ \A x \in DOMAIN card \ gs : Drop(card, gs)[x] = card[x]
                /\ \A x \in DOMAIN list \ gs : Drop(list, gs)[x] = list[x]
    BY DEF Drop
  <1>6. ASSUME UNCHANGED <<group, member, deleted>>
        PROVE  /\ \A x : info'[x] = info[x] => (InfoTrue(x) => InfoTrue(x)')
               /\ \A x : card'[x] = card[x] => (CardTrue(x) => CardTrue(x)')
               /\ \A x : list'[x] = list[x] => (ListTrue(x) => ListTrue(x)')
    BY <1>6 DEF InfoTrue, CardTrue, ListTrue, Live
  <1>7. \A x : /\ KeyTrue("info", x) = InfoTrue(x) /\ KeyTrue("info", x)' = InfoTrue(x)'
               /\ KeyTrue("card", x) = CardTrue(x) /\ KeyTrue("card", x)' = CardTrue(x)'
               /\ KeyTrue("list", x) = ListTrue(x) /\ KeyTrue("list", x)' = ListTrue(x)'
    BY DEF KeyTrue
  <1>8. ASSUME NEW step, NEW seen, Done(p, step, [tx[p] EXCEPT !.seen = seen]),
               seen = SeenAfter(p, step),
               \/ info' = info /\ step \notin {"info", "dropInfo"}
               \/ \A x \in DOMAIN info' : Kept(step, "info", x) \/ Was(step, "info", x),
               \/ card' = card /\ step \notin {"card", "dropCard"}
               \/ \A x \in DOMAIN card' : Kept(step, "card", x) \/ Was(step, "card", x),
               \/ list' = list /\ step \notin {"list", "dropList"}
               \/ \A x \in DOMAIN list' : Kept(step, "list", x) \/ Was(step, "list", x)
        PROVE  \E st, sn : Good(st, sn)
    <2>1. UNCHANGED <<group, member, deleted>>
      BY <1>8, StepDone
    <2>2. ASSUME NEW x \in Keys("info")' PROVE Kept(step, "info", x) \/ Was(step, "info", x)
      BY <1>3, <1>4, <1>6, <1>7, <1>8, <2>1
    <2>3. ASSUME NEW x \in Keys("card")' PROVE Kept(step, "card", x) \/ Was(step, "card", x)
      BY <1>3, <1>4, <1>6, <1>7, <1>8, <2>1
    <2>4. ASSUME NEW x \in Keys("list")' PROVE Kept(step, "list", x) \/ Was(step, "list", x)
      BY <1>3, <1>4, <1>6, <1>7, <1>8, <2>1
    <2> HIDE DEF Kept, Was
    <2>5. Good(step, seen)
      BY <1>3, <1>8, <2>2, <2>3, <2>4
    <2> QED
      BY <2>5
  <1>9. /\ \A kind : HasTruth(p, kind) = 
              (/\ g \in Group /\ Live(g)
               /\ IF kind = "list" THEN tx[p].seen = member[g] \ deleted ELSE r = group[g])
        /\ tx[p].op # "deleteUser" => Affected(p) = {g}
    BY DEF HasTruth, Affected
  <1> HIDE DEF g, r, Good
  <1>10. CASE PutInfo(p)
    <2>1. /\ Done(p, "info", tx[p]) /\ UNCHANGED <<card, list>>
          /\ info' = Put(info, g, [cnt |-> r.cnt, status |-> r.status])
      BY <1>10 DEF PutInfo, g, r
    <2>2. Affected(p) = {g} /\ UNCHANGED <<group, member, deleted>>
      BY <1>2, <1>9, <2>1
    <2>3. ASSUME NEW x \in DOMAIN info'
          PROVE  Kept("info", "info", x) \/ Was("info", "info", x)
      <3>1. DOMAIN info' = DOMAIN info \cup {g} /\ info'[g] = [cnt |-> r.cnt, status |-> r.status]
            /\ \A y \in DOMAIN info \ {g} : info'[y] = info[y]
        BY <2>1 DEF Put
      <3>2. CASE x = g
        <4>1. HasTruth(p, "info") => InfoTrue(x)'
          BY <1>9, <2>2, <3>1, <3>2 DEF InfoTrue, Live
        <4> QED
          BY <1>7, <3>2, <4>1 DEF g
      <3>3. CASE x # g
        BY <1>3, <1>4, <1>6, <1>7, <2>2, <3>1, <3>3
      <3> QED
        BY <3>2, <3>3
    <2> HIDE DEF Kept, Was
    <2> QED
      BY <1>2, <1>8, <2>1, <2>3
  <1>11. CASE PutCard(p)
    <2>1. /\ Done(p, "card", tx[p]) /\ UNCHANGED <<info, list>>
          /\ card' = IF r.status = "NORMAL" THEN Put(card, g, r.cnt) ELSE Drop(card, {g})
      BY <1>11 DEF PutCard, g, r
    <2>2. Affected(p) = {g} /\ UNCHANGED <<group, member, deleted>>
      BY <1>2, <1>9, <2>1
    <2>4. r.status = "NORMAL" => /\ DOMAIN card' = DOMAIN card \cup {g} /\ card'[g] = r.cnt
                                 /\ \A y \in DOMAIN card \ {g} : card'[y] = card[y]
      BY <2>1 DEF Put
    <2>5. r.status # "NORMAL" => /\ DOMAIN card' = DOMAIN card \ {g}
                                 /\ \A y \in DOMAIN card \ {g} : card'[y] = card[y]
      BY <1>5, <2>1
    <2>3. ASSUME NEW x \in DOMAIN card'
          PROVE  Kept("card", "card", x) \/ Was("card", "card", x)
      <3>1. CASE x = g
        <4>1. r.status = "NORMAL" /\ card'[g] = r.cnt
          BY <2>4, <2>5, <3>1
        <4>2. HasTruth(p, "card") => CardTrue(x)'
          BY <1>9, <2>2, <3>1, <4>1 DEF CardTrue, Live
        <4> QED
          BY <1>7, <3>1, <4>2 DEF g
      <3>2. CASE x # g
        <4>1. x \in DOMAIN card /\ card'[x] = card[x]
          BY <2>4, <2>5, <3>2
        <4> QED
          BY <1>3, <1>4, <1>6, <1>7, <2>2, <3>2, <4>1
      <3> QED
        BY <3>1, <3>2
    <2> HIDE DEF Kept, Was
    <2> QED
      BY <1>2, <1>8, <2>1, <2>3
  <1>12. CASE PutList(p)
    <2>1. Done(p, "list", tx[p]) /\ UNCHANGED <<info, card>> /\ list' = Put(list, g, tx[p].seen)
      BY <1>12 DEF PutList, g
    <2>2. Affected(p) = {g} /\ UNCHANGED <<group, member, deleted>>
      BY <1>2, <1>9, <2>1
    <2>3. ASSUME NEW x \in DOMAIN list'
          PROVE  Kept("list", "list", x) \/ Was("list", "list", x)
      <3>1. DOMAIN list' = DOMAIN list \cup {g} /\ list'[g] = tx[p].seen
            /\ \A y \in DOMAIN list \ {g} : list'[y] = list[y]
        BY <2>1 DEF Put
      <3>2. CASE x = g
        <4>1. HasTruth(p, "list") => ListTrue(x)'
          BY <1>9, <2>2, <3>1, <3>2 DEF ListTrue, Live
        <4> QED
          BY <1>7, <3>2, <4>1 DEF g
      <3>3. CASE x # g
        BY <1>3, <1>4, <1>6, <1>7, <2>2, <3>1, <3>3
      <3> QED
        BY <3>2, <3>3
    <2> HIDE DEF Kept, Was
    <2> QED
      BY <1>2, <1>8, <2>1, <2>3
  <1>13. CASE ReadNames(p)
    <2> DEFINE names == tx[p].seen \ deleted
    <2>1. Done(p, "names", [tx[p] EXCEPT !.seen = names]) /\ info' = info /\ card' = card /\ list' = list
      BY <1>13 DEF ReadNames, redis
    <2>2. names = SeenAfter(p, "names")
      BY DEF SeenAfter
    <2> HIDE DEF Kept, Was, names
    <2> QED
      BY <1>8, <2>1, <2>2
  <1>15. CASE QueryMembers(p)
    <2> DEFINE now == member[tx[p].g]
    <2>1. Done(p, "members", [tx[p] EXCEPT !.seen = now]) /\ info' = info /\ card' = card /\ list' = list
      BY <1>15 DEF QueryMembers, redis
    <2>2. now = SeenAfter(p, "members")
      BY DEF SeenAfter
    <2> HIDE DEF Kept, Was, now
    <2> QED
      BY <1>8, <2>1, <2>2
  <1>14. CASE DropKeys(p)
    <2>1. ASSUME NEW x, x \notin Affected(p), UNCHANGED <<group, member, deleted>>
          PROVE  /\ x \in DOMAIN info /\ info'[x] = info[x] => Kept("dropInfo", "info", x)
                 /\ x \in DOMAIN card /\ card'[x] = card[x] => Kept("dropCard", "card", x)
                 /\ x \in DOMAIN list /\ list'[x] = list[x] => Kept("dropList", "list", x)
      BY <1>4, <1>6, <1>7, <2>1
    <2> HIDE DEF Kept, Was
    <2>2. CASE Done(p, "dropInfo", tx[p]) /\ info' = Drop(info, Affected(p)) /\ UNCHANGED <<card, list>>
      <3>2. /\ UNCHANGED <<group, member, deleted>> /\ DOMAIN info' = DOMAIN info \ Affected(p)
            /\ \A x \in DOMAIN info \ Affected(p) : info'[x] = info[x]
        BY <1>2, <1>5, <2>2
      <3>1. \A x \in DOMAIN info' : Kept("dropInfo", "info", x)
        BY <2>1, <3>2
      <3> QED
        BY <1>2, <1>8, <2>2, <3>1
    <2>3. CASE Done(p, "dropCard", tx[p]) /\ card' = Drop(card, Affected(p)) /\ UNCHANGED <<info, list>>
      <3>2. /\ UNCHANGED <<group, member, deleted>> /\ DOMAIN card' = DOMAIN card \ Affected(p)
            /\ \A x \in DOMAIN card \ Affected(p) : card'[x] = card[x]
        BY <1>2, <1>5, <2>3
      <3>1. \A x \in DOMAIN card' : Kept("dropCard", "card", x)
        BY <2>1, <3>2
      <3> QED
        BY <1>2, <1>8, <2>3, <3>1
    <2>4. CASE Done(p, "dropList", tx[p]) /\ list' = Drop(list, Affected(p)) /\ UNCHANGED <<info, card>>
      <3>2. /\ UNCHANGED <<group, member, deleted>> /\ DOMAIN list' = DOMAIN list \ Affected(p)
            /\ \A x \in DOMAIN list \ Affected(p) : list'[x] = list[x]
        BY <1>2, <1>5, <2>4
      <3>1. \A x \in DOMAIN list' : Kept("dropList", "list", x)
        BY <2>1, <3>2
      <3> QED
        BY <1>2, <1>8, <2>4, <3>1
    <2> QED
      BY <1>14, <2>2, <2>3, <2>4 DEF DropKeys
  <1> QED
    BY <1>10, <1>11, <1>12, <1>13, <1>14, <1>15

LEMMA DeleteUsersLeaves ==
    ASSUME TypeOK, NEW p \in Proc, DeleteUsersCommit(p)
    PROVE  /\ tx'[p].pc = "redis" /\ tx'[p].op = "deleteUser" /\ redis' = redis
           /\ StepsLeft(p)' = {"dropList", "dropInfo", "dropCard"} /\ Affected(p)' = Affected(p)
           /\ \A q \in Proc \ {p} : tx'[q] = tx[q]
  <1> DEFINE t == [tx[p] EXCEPT !.pc = "redis", !.todo = <<"dropList", "dropInfo", "dropCard">>]
  <1>1. tx[p] \in TxState /\ tx[p].op = "deleteUser" /\ Becomes(p, t) /\ redis' = redis
    BY DEF DeleteUsersCommit, TypeOK
  <1>2. /\ t.pc = "redis" /\ t.todo = <<"dropList", "dropInfo", "dropCard">>
        /\ t.op = "deleteUser" /\ t.joined = tx[p].joined /\ t.owned = tx[p].owned
    BY <1>1 DEF TxState
  <1> HIDE DEF t
  <1>3. tx'[p] = t /\ \A q \in Proc \ {p} : tx'[q] = tx[q]
    BY <1>1 DEF Becomes, TypeOK
  <1>4. StepsLeft(p)' = {"dropList", "dropInfo", "dropCard"} /\ Affected(p)' = Affected(p)
    BY <1>1, <1>2, <1>3, LeftSets DEF StepsLeft, Affected
  <1> QED
    BY <1>1, <1>2, <1>3, <1>4

\* Keys of tables that do not change stay true while they are there.
LEMMA SameDb ==
    ASSUME UNCHANGED <<group, member, deleted>>, redis' = redis
    PROVE  \A kind \in Kinds : \A g \in Keys(kind)' :
             g \in Keys(kind) /\ (KeyTrue(kind, g) => KeyTrue(kind, g)')
  BY SameKeys, TrueStays DEF Changes, Live

LEMMA ExpireDrops ==
    ASSUME NEW x, Expire(x)
    PROVE  /\ UNCHANGED <<group, member, deleted, tx>>
           /\ \A kind \in Kinds : \A g \in Keys(kind)' :
                g \in Keys(kind) /\ (KeyTrue(kind, g) => KeyTrue(kind, g)')
  <1>1. UNCHANGED <<group, member, deleted, tx>>
    BY DEF Expire, db
  <1>2. \A cache : /\ DOMAIN Drop(cache, {x}) \subseteq DOMAIN cache
                   /\ \A g \in DOMAIN Drop(cache, {x}) : Drop(cache, {x})[g] = cache[g]
    BY DEF Drop
  <1>3. /\ info' \in {info, Drop(info, {x})} /\ card' \in {card, Drop(card, {x})}
        /\ list' \in {list, Drop(list, {x})}
    BY DEF Expire
  <1>4. /\ \A g \in DOMAIN info' : g \in DOMAIN info /\ info'[g] = info[g]
        /\ \A g \in DOMAIN card' : g \in DOMAIN card /\ card'[g] = card[g]
        /\ \A g \in DOMAIN list' : g \in DOMAIN list /\ list'[g] = list[g]
    BY <1>2, <1>3
  <1>5. \A kind \in Kinds : \A g \in Keys(kind)' :
          g \in Keys(kind) /\ (KeyTrue(kind, g) => KeyTrue(kind, g)')
    BY <1>1, <1>4 DEF Kinds, Keys, KeyTrue, InfoTrue, CardTrue, ListTrue, Live
  <1> QED
    BY <1>1, <1>5

-----------------------------------------------------------------------------
(* The keys in redis, of requests served one after the other. P is the one    *)
(* request there ever is.                                                     *)

\* A request that has nothing left to do in redis finds all keys true.
LEMMA AllTrue ==
    ASSUME CoherentInv, NEW P \in Proc, tx[P].todo = << >>
    PROVE  \A kind \in Kinds : \A g \in Keys(kind) : g \in Group /\ KeyTrue(kind, g)
  BY NothingLeft DEF CoherentInv, Pending

LEMMA TodoOnlyInRedis ==
    ASSUME CoherentInv, NEW P \in Proc, tx[P].pc # "redis"
    PROVE  tx[P].todo = << >>
  BY DEF CoherentInv, WritesTruth

\* What a step that writes neither the tables nor redis must show.
LEMMA ReadCoherent ==
    ASSUME CoherentInv, NEW P, Proc = {P}, tx[P].todo = << >>,
           UNCHANGED <<group, member, deleted>>, redis' = redis, WritesTruth(P)'
    PROVE  CoherentInv'
  <1>1. \A kind \in Kinds : \A g \in Keys(kind)' : g \in Group /\ KeyTrue(kind, g)'
    BY AllTrue, SameKeys, TrueStays DEF Changes, Live
  <1> QED
    BY <1>1 DEF CoherentInv

\* The same for one after which nothing is to be done in redis.
LEMMA QuietCoherent ==
    ASSUME GroupInv, CoherentInv, NEW P, Proc = {P}, tx[P].todo = << >>, NEW t, Becomes(P, t),
           UNCHANGED <<group, member, deleted, redis>>, t.todo = << >>,
           t.pc = "lock" /\ t.op = "deleteUser" => Joined(t.u) \subseteq t.joined \cup t.owned,
           t.pc \in {"read", "lock", "commit"} => t.u \notin deleted
    PROVE  CoherentInv'
  <1>1. tx'[P] = t
    BY DEF Becomes, GroupInv, TypeOK
  <1>2. WritesTruth(P)'
    BY <1>1 DEF WritesTruth, StepsLeft, Joined
  <1> QED
    BY <1>2, ReadCoherent

LEMMA RefuseCoherent ==
    ASSUME GroupInv, CoherentInv, NEW P, Proc = {P}, tx[P].todo = << >>, Refuse(P)
    PROVE  CoherentInv'
  <1>1. Idle.todo = << >> /\ Idle.pc = "idle"
    BY DEF Idle
  <1> QED
    BY <1>1, QuietCoherent DEF Refuse, db

LEMMA CallCoherent ==
    ASSUME GroupInv, CoherentInv, NEW P, Proc = {P}, Call(P)
    PROVE  CoherentInv'
  <1>1. PICK op, g, u, us :
          /\ Legal(op, g, u, us)
          /\ Becomes(P, [Idle EXCEPT !.pc = EntryPc(op), !.op = op, !.g = g, !.u = u, !.us = us])
    BY DEF Call
  <1> DEFINE t == [Idle EXCEPT !.pc = EntryPc(op), !.op = op, !.g = g, !.u = u, !.us = us]
  <1>2. t.todo = << >> /\ t.op = op /\ t.pc = EntryPc(op) /\ t.u = u
    BY DEF Idle
  <1>5. u \notin deleted
    BY <1>1, GroupAssumption DEF Legal, Account, GroupInv, TypeOK
  <1>3. op = "deleteUser" => EntryPc(op) # "lock"
    BY DEF EntryPc
  <1>4. tx[P].todo = << >> /\ UNCHANGED <<group, member, deleted, redis>>
    BY TodoOnlyInRedis DEF Call, db
  <1> HIDE DEF t
  <1> QED
    BY <1>1, <1>2, <1>3, <1>4, <1>5, QuietCoherent DEF t

\* The reads and the locks of the transactions.
LEMMA LocksCoherent ==
    ASSUME GroupInv, CoherentInv, NEW P, Proc = {P},
           \/ LeaveLock(P) \/ RemoveLock(P) \/ EnterLock(P) \/ PassRead(P) \/ PassLock(P)
           \/ DismissLock(P) \/ DeleteLock(P) \/ UpdateRead(P)
    PROVE  CoherentInv'
  <1>1. tx[P].pc \in {"read", "lock"} /\ tx[P].op # "deleteUser"
    BY DEF LeaveLock, RemoveLock, EnterLock, PassRead, PassLock, DismissLock, DeleteLock,
           UpdateRead, LockGroup
  <1>2. tx[P].todo = << >> /\ TypeOK /\ tx[P].u \notin deleted
    BY <1>1, TodoOnlyInRedis DEF GroupInv, CoherentInv, WritesTruth
  <1>3. CASE Refuse(P)
    BY <1>2, <1>3, RefuseCoherent
  <1>4. CASE ~Refuse(P)
    <2>1. PICK t : /\ Becomes(P, t) /\ UNCHANGED <<db, redis>>
                   /\ t.todo = tx[P].todo /\ t.op = tx[P].op /\ t.u = tx[P].u
      BY <1>2, <1>4, ReadsOnly
    <2> QED
      BY <1>1, <1>2, <2>1, QuietCoherent DEF db
  <1> QED
    BY <1>3, <1>4

\* DeleteUsers reads the user's groups, and nobody changes them afterwards.
LEMMA DeleteUsersReads ==
    ASSUME GroupInv, CoherentInv, NEW P, Proc = {P},
           DeleteUsersRead(P) \/ \E g \in Group : DeleteUsersLock(P, g)
    PROVE  CoherentInv'
  <1>1. tx[P].todo = << >> /\ tx[P] \in TxState /\ tx[P].u \notin deleted
    BY TodoOnlyInRedis DEF DeleteUsersRead, DeleteUsersLock, GroupInv, TypeOK, CoherentInv, WritesTruth
  <1>2. CASE Refuse(P)
    BY <1>1, <1>2, RefuseCoherent
  <1>3. CASE DeleteUsersRead(P)
    <2> DEFINE u == tx[P].u
               t == [tx[P] EXCEPT !.pc = "lock", !.owned = Owned(u), !.joined = Joined(u) \ Owned(u)]
    <2>1. t.todo = << >> /\ t.u = u /\ t.owned = Owned(u) /\ t.joined = Joined(u) \ Owned(u)
      BY <1>1 DEF TxState
    <2>2. Becomes(P, t) /\ UNCHANGED <<group, member, deleted, redis>>
      BY <1>3 DEF DeleteUsersRead, db
    <2> HIDE DEF t
    <2>3. Joined(t.u) \subseteq t.joined \cup t.owned
      BY <2>1
    <2> QED
      BY <1>1, <2>1, <2>2, <2>3, QuietCoherent
  <1>4. ASSUME NEW g \in Group, DeleteUsersLock(P, g), ~Refuse(P)
        PROVE  CoherentInv'
    <2> DEFINE t == [tx[P] EXCEPT !.row[g] = group[g]]
    <2>1. /\ t.todo = << >> /\ t.u = tx[P].u /\ t.owned = tx[P].owned /\ t.joined = tx[P].joined
      BY <1>1 DEF TxState
    <2>2. Becomes(P, t) /\ UNCHANGED <<group, member, deleted, redis>>
      BY <1>4 DEF DeleteUsersLock, db
    <2>3. Joined(tx[P].u) \subseteq tx[P].joined \cup tx[P].owned
      BY <1>4 DEF CoherentInv, WritesTruth, DeleteUsersLock
    <2> HIDE DEF t
    <2> QED
      BY <1>1, <2>1, <2>2, <2>3, QuietCoherent
  <1> QED
    BY <1>2, <1>3, <1>4

\* What is put after a miss is what has just been read.
LEMMA MissCoherent ==
    ASSUME GroupInv, CoherentInv, NEW P, Proc = {P}, GetGroupInfo(P) \/ GetGroupMemberList(P)
    PROVE  CoherentInv'
  <1> DEFINE g == tx[P].g
  <1>1. tx[P].todo = << >> /\ tx[P] \in TxState /\ g \in Group /\ tx[P].op \in {"getInfo", "getList"}
    BY TodoOnlyInRedis DEF GetGroupInfo, GetGroupMemberList, GroupInv, TypeOK, Requests, WellFormed
  <1>2. CASE Refuse(P)
    BY <1>1, <1>2, RefuseCoherent
  <1>3. CASE GetGroupInfo(P) /\ ~Refuse(P)
    <2> DEFINE t == [tx[P] EXCEPT !.pc = "redis", !.row[g] = group[g], !.todo = <<"info", "card">>]
    <2>1. /\ t.pc = "redis" /\ t.todo = <<"info", "card">> /\ t.op = tx[P].op /\ t.g = g
          /\ t.row[g] = group[g]
      BY <1>1 DEF TxState
    <2>2. Becomes(P, t) /\ Live(g) /\ UNCHANGED <<group, member, deleted, redis>>
      BY <1>3 DEF GetGroupInfo, db
    <2> HIDE DEF t
    <2>3. tx'[P] = t
      BY <2>2 DEF Becomes, GroupInv, TypeOK
    <2>4. StepsLeft(P)' = {"info", "card"}
      BY <2>1, <2>3 DEF StepsLeft
    <2>5. WritesTruth(P)'
      BY <1>1, <2>1, <2>2, <2>3, <2>4 DEF WritesTruth, Live
    <2> QED
      BY <1>1, <2>2, <2>5, ReadCoherent
  <1>4. CASE GetGroupMemberList(P) /\ ~Refuse(P)
    <2> DEFINE t == [tx[P] EXCEPT !.pc = "redis", !.todo = <<"members", "names", "list">>]
    <2>1. /\ t.pc = "redis" /\ t.todo = <<"members", "names", "list">> /\ t.op = tx[P].op
          /\ t.g = g /\ Head(t.todo) = "members"
      BY <1>1 DEF TxState
    <2>2. Becomes(P, t) /\ Live(g) /\ UNCHANGED <<group, member, deleted, redis>>
      BY <1>4 DEF GetGroupMemberList, db
    <2> HIDE DEF t
    <2>3. tx'[P] = t
      BY <2>2 DEF Becomes, GroupInv, TypeOK
    <2>4. StepsLeft(P)' = {"members", "names", "list"}
      BY <2>1, <2>3, LeftSets DEF StepsLeft
    <2>5. WritesTruth(P)'
      BY <1>1, <2>1, <2>2, <2>3, <2>4 DEF WritesTruth, Live
    <2> QED
      BY <1>1, <2>2, <2>5, ReadCoherent
  <1> QED
    BY <1>2, <1>3, <1>4

\* A commit to one group: each key of it that it makes stale is put or dropped.
LEMMA SavesCoherent ==
    ASSUME GroupInv, CoherentInv, NEW P, Proc = {P}, NEW r, NEW steps, Saves(P, r, steps)
    PROVE  CoherentInv'
  <1> DEFINE g == tx[P].g
  <1>1. /\ tx'[P].pc = "redis" /\ tx'[P].op # "deleteUser" /\ tx'[P].g = g
        /\ tx'[P].row[g] = group'[g] /\ deleted' = deleted /\ redis' = redis
        /\ Affected(P)' = {g} /\ "list" \notin StepsLeft(P)'
        /\ {"info", "card"} \cap StepsLeft(P)' # {} => group'[g].state = "live"
        /\ \A kind \in Kinds : KeyTrue(kind, g) =>
             KeyTrue(kind, g)' \/ {kind, DropOf[kind]} \cap StepsLeft(P)' # {}
        /\ \A x \in Group \ {g} : group'[x] = group[x] /\ member'[x] = member[x]
        /\ member'[g] \subseteq member[g] \cup {tx[P].u}
    BY SavesLeave DEF GroupInv
  <1>2. tx[P].todo = << >> /\ tx[P].u \notin deleted
    BY TodoOnlyInRedis DEF Saves, CoherentInv, WritesTruth
  <1>5. \A x \in Group : member'[x] \cap deleted' = {}
    BY <1>1, <1>2 DEF CoherentInv
  <1>3. WritesTruth(P)'
    BY <1>1 DEF WritesTruth, Live
  <1>4. ASSUME NEW kind \in Kinds, NEW x \in Keys(kind)'
        PROVE  x \in Group /\ (KeyTrue(kind, x)' \/ Pending(P, x, {kind, DropOf[kind]})')
    <2>1. x \in Group /\ KeyTrue(kind, x)
      BY <1>1, <1>2, <1>4, AllTrue, SameKeys
    <2>2. CASE x = g
      BY <1>1, <2>1, <2>2 DEF Pending
    <2>3. CASE x # g
      BY <1>1, <2>1, <2>3, TrueStays DEF Changes, Live
    <2> QED
      BY <2>1, <2>2, <2>3
  <1> QED
    BY <1>3, <1>4, <1>5 DEF CoherentInv

LEMMA CommitCoherent ==
    ASSUME GroupInv, CoherentInv, NEW P, Proc = {P},
           \/ CreateGroup(P) \/ LeaveCommit(P) \/ RemoveCommit(P) \/ EnterCommit(P)
           \/ PassCommit(P) \/ DissolveCommit(P) \/ SetGroupsStatus(P) \/ UpdateCommit(P)
    PROVE  CoherentInv'
  <1>1. tx[P].todo = << >>
    BY TodoOnlyInRedis DEF CreateGroup, LeaveCommit, RemoveCommit, EnterCommit, PassCommit,
           DissolveCommit, SetGroupsStatus, UpdateCommit, At
  <1> QED
    BY <1>1, RefuseCoherent, CommitSaves, SavesCoherent

\* Deleting a user drops the keys of all groups he was in, which are all whose
\* list shows him.
LEMMA DeleteUsersCoherent ==
    ASSUME GroupInv, CoherentInv, NEW P, Proc = {P}, DeleteUsersCommit(P)
    PROVE  CoherentInv'
  <1>1. /\ tx[P].todo = << >> /\ tx[P] \in TxState /\ tx[P].pc = "lock" /\ tx[P].op = "deleteUser"
    BY TodoOnlyInRedis DEF DeleteUsersCommit, GroupInv, TypeOK
  <1>2. /\ tx'[P].pc = "redis" /\ tx'[P].op = "deleteUser" /\ redis' = redis
        /\ StepsLeft(P)' = {"dropList", "dropInfo", "dropCard"} /\ Affected(P)' = Affected(P)
    BY DeleteUsersLeaves DEF GroupInv
  <1>3. WritesTruth(P)'
    BY <1>2 DEF WritesTruth
  <1>6. \A x \in Group : member'[x] \cap deleted' = {}
    <2>1. Joined(tx[P].u) \subseteq tx[P].joined \cup tx[P].owned
      BY <1>1 DEF CoherentInv, WritesTruth
    <2> QED
      BY <2>1 DEF CoherentInv, DeleteUsersCommit, Joined
  <1>4. ASSUME NEW x \in Group \ Affected(P), NEW kind \in Kinds PROVE ~Changes(kind, x)
    <2>1. group'[x] = group[x] /\ member'[x] = member[x] /\ deleted' = deleted \cup {tx[P].u}
      BY <1>1, <1>4 DEF DeleteUsersCommit, Affected
    <2>2. tx[P].u \notin member[x]
      BY <1>1, <1>4 DEF CoherentInv, WritesTruth, Joined, Affected
    <2> QED
      BY <2>1, <2>2 DEF Changes, Live
  <1>5. ASSUME NEW kind \in Kinds, NEW x \in Keys(kind)'
        PROVE  x \in Group /\ (KeyTrue(kind, x)' \/ Pending(P, x, {kind, DropOf[kind]})')
    <2>1. x \in Group /\ KeyTrue(kind, x)
      BY <1>1, <1>2, <1>5, AllTrue, SameKeys
    <2>2. CASE x \in Affected(P)
      <3>1. DropOf[kind] \in {"dropList", "dropInfo", "dropCard"}
        BY DEF Kinds, DropOf
      <3> QED
        BY <1>2, <2>1, <2>2, <3>1 DEF Pending
    <2>3. CASE x \notin Affected(P)
      BY <1>2, <1>4, <2>1, <2>3, TrueStays
    <2> QED
      BY <2>1, <2>2, <2>3
  <1> QED
    BY <1>3, <1>5, <1>6 DEF CoherentInv

\* A put writes what is stored, since what is left to put is true; a drop takes
\* the keys of all groups of the request.
LEMMA RedisStepsCoherent ==
    ASSUME GroupInv, CoherentInv, NEW P, Proc = {P},
           \/ PutInfo(P) \/ PutCard(P) \/ QueryMembers(P) \/ ReadNames(P) \/ PutList(P)
           \/ DropKeys(P)
    PROVE  CoherentInv'
  <1>1. WritesTruth(P) /\ TypeOK
    BY DEF CoherentInv, GroupInv
  <1>2. tx[P].op = "deleteUser" => {"info", "card", "list"} \cap StepsLeft(P) = {}
    BY <1>1 DEF WritesTruth
  <1>3. PICK step, seen :
           /\ Done(P, step, [tx[P] EXCEPT !.seen = seen])
           /\ seen = SeenAfter(P, step)
           /\ \A kind \in Kinds : \A g \in Keys(kind)' :
                \/ /\ g \in Keys(kind) /\ (KeyTrue(kind, g) => KeyTrue(kind, g)')
                   /\ step \notin {kind, DropOf[kind]} \/ g \notin Affected(P)
                \/ g = tx[P].g /\ step = kind /\ (HasTruth(P, kind) => KeyTrue(kind, g)')
    BY <1>1, <1>2, RedisWrites
  <1>4. /\ tx[P].pc = "redis" /\ Head(tx[P].todo) = step
        /\ tx'[P].pc = "redis" /\ tx'[P].op = tx[P].op /\ tx'[P].g = tx[P].g
        /\ tx'[P].row = tx[P].row /\ tx'[P].seen = seen
        /\ StepsLeft(P) = {step} \cup StepsLeft(P)' /\ Affected(P)' = Affected(P)
        /\ UNCHANGED <<group, member, deleted>>
    BY <1>1, <1>3, StepDone
  <1>5. WritesTruth(P)'
    <2>1. {"info", "card"} \cap StepsLeft(P)' # {} =>
            /\ tx[P].op # "deleteUser" /\ group'[tx[P].g].state = "live"
            /\ tx[P].row[tx[P].g] = group'[tx[P].g]
      BY <1>1, <1>4 DEF WritesTruth, Live
    <2>2. ASSUME "list" \in StepsLeft(P)'
          PROVE  /\ tx[P].op # "deleteUser" /\ group'[tx[P].g].state = "live"
                 /\ tx[P].g \in Group /\ seen = member'[tx[P].g]
      <3>1. /\ tx[P].op # "deleteUser" /\ Live(tx[P].g)
            /\ step = "members" \/ tx[P].seen = member[tx[P].g]
        BY <1>1, <1>4, <2>2 DEF WritesTruth
      <3>2. tx[P].g \in Group
        BY <1>4, <3>1 DEF GroupInv, Requests, WellFormed
      <3>3. member[tx[P].g] \cap deleted = {}
        BY <3>2 DEF CoherentInv
      <3> QED
        BY <1>3, <1>4, <3>1, <3>2, <3>3 DEF Live, SeenAfter
    <2> QED
      BY <1>4, <2>1, <2>2 DEF WritesTruth, Live
  <1>8. \A g \in Group : member'[g] \cap deleted' = {}
    BY <1>4 DEF CoherentInv
  <1>6. ASSUME NEW kind \in Kinds, step = kind
        PROVE  tx[P].g \in Group /\ HasTruth(P, kind)
    <2>1. kind \in StepsLeft(P) /\ kind \in {"info", "card", "list"}
      BY <1>4, <1>6 DEF Kinds
    <2>2. tx[P].g \in Group
      BY <1>1, <1>4, <2>1 DEF WritesTruth, GroupInv, Requests, WellFormed
    <2>3. member[tx[P].g] \cap deleted = {}
      BY <2>2 DEF CoherentInv
    <2> QED
      BY <1>1, <1>4, <1>6, <2>1, <2>2, <2>3 DEF WritesTruth, HasTruth
  <1>7. ASSUME NEW kind \in Kinds, NEW g \in Keys(kind)'
        PROVE  g \in Group /\ (KeyTrue(kind, g)' \/ Pending(P, g, {kind, DropOf[kind]})')
    <2>1. CASE g = tx[P].g /\ step = kind /\ (HasTruth(P, kind) => KeyTrue(kind, g)')
      BY <1>6, <2>1
    <2>2. CASE /\ g \in Keys(kind) /\ (KeyTrue(kind, g) => KeyTrue(kind, g)')
               /\ step \notin {kind, DropOf[kind]} \/ g \notin Affected(P)
      <3>1. g \in Group /\ (KeyTrue(kind, g) \/ Pending(P, g, {kind, DropOf[kind]}))
        BY <2>2 DEF CoherentInv
      <3> QED
        BY <1>4, <2>2, <3>1 DEF Pending
    <2> QED
      BY <1>3, <1>7, <2>1, <2>2
  <1> QED
    BY <1>5, <1>7, <1>8 DEF CoherentInv

\* A request ends, or rolls back, with nothing left to do in redis.
LEMMA EndsCoherent ==
    ASSUME GroupInv, CoherentInv, NEW P, Proc = {P}, Fault \cap {"crash", "redis"} = {},
           Reply(P) \/ Failure(P)
    PROVE  CoherentInv'
  <1>1. CASE Reply(P)
    <2>1. Idle.todo = << >> /\ Idle.pc = "idle"
      BY DEF Idle
    <2> QED
      BY <1>1, <2>1, QuietCoherent DEF Reply, db
  <1>2. CASE Failure(P)
    <2>1. Rollback(P)
      BY <1>2 DEF Failure, Crash, RedisFails
    <2> QED
      BY <2>1, TodoOnlyInRedis, RefuseCoherent DEF Rollback
  <1> QED
    BY <1>1, <1>2

\* What leaves the requests and the tables alone may only take keys away.
LEMMA OutsideCoherent ==
    ASSUME CoherentInv, UNCHANGED <<group, member, deleted, tx>>,
           \A kind \in Kinds : \A g \in Keys(kind)' :
             g \in Keys(kind) /\ (KeyTrue(kind, g) => KeyTrue(kind, g)')
    PROVE  CoherentInv'
  <1>1. ASSUME NEW p \in Proc PROVE WritesTruth(p)'
    <2>1. WritesTruth(p) /\ StepsLeft(p)' = StepsLeft(p)
      BY SameLeft DEF CoherentInv
    <2>2. Joined(tx[p].u)' = Joined(tx[p].u)
      BY DEF Joined
    <2> QED
      BY <2>1, <2>2 DEF WritesTruth, Live
  <1>2. \A p \in Proc : \A x, steps : Pending(p, x, steps)' = Pending(p, x, steps)
    BY DEF Pending, StepsLeft, Affected
  <1> QED
    BY <1>1, <1>2 DEF CoherentInv

\* A user who registers again was a member of nothing.
LEMMA ReviveCoherent ==
    ASSUME CoherentInv, NEW u \in User, Revive(u)
    PROVE  CoherentInv'
  <1>1. UNCHANGED <<group, member, tx>> /\ redis' = redis /\ deleted' \subseteq deleted
    BY DEF Revive
  <1>2. \A g \in Group : member'[g] \cap deleted' = {} /\ member[g] \ deleted' = member[g] \ deleted
    BY <1>1 DEF CoherentInv
  <1>3. ASSUME NEW p \in Proc PROVE WritesTruth(p)'
    <2>1. WritesTruth(p) /\ StepsLeft(p)' = StepsLeft(p)
      BY <1>1, SameLeft DEF CoherentInv
    <2>2. Joined(tx[p].u)' = Joined(tx[p].u)
      BY <1>1 DEF Joined
    <2> QED
      BY <1>1, <2>1, <2>2 DEF WritesTruth, Live
  <1>4. \A p \in Proc : \A x, steps : Pending(p, x, steps)' = Pending(p, x, steps)
    BY <1>1 DEF Pending, StepsLeft, Affected
  <1>5. \A kind \in Kinds, g \in Group : ~Changes(kind, g)
    BY <1>1, <1>2 DEF Changes, Live
  <1>6. ASSUME NEW p \in Proc, NEW kind \in Kinds, NEW g \in Keys(kind)'
        PROVE  g \in Group /\ (KeyTrue(kind, g)' \/ Pending(p, g, {kind, DropOf[kind]})')
    <2>1. g \in Group /\ (KeyTrue(kind, g) \/ Pending(p, g, {kind, DropOf[kind]}))
      BY <1>1, SameKeys DEF CoherentInv
    <2> QED
      BY <1>1, <1>4, <1>5, <2>1, TrueStays
  <1> QED
    BY <1>2, <1>3, <1>6 DEF CoherentInv

LEMMA CoherentStep ==
    ASSUME GroupInv, CoherentInv, NEW P, Proc = {P}, Fault \cap {"crash", "redis"} = {},
           [Next]_vars
    PROVE  CoherentInv'
  <1>1. CASE Call(P)
    BY <1>1, CallCoherent
  <1>2. CASE Transaction(P)
    BY <1>2, LocksCoherent, CommitCoherent, DeleteUsersReads, DeleteUsersCoherent DEF Transaction
  <1>3. CASE Redis(P)
    BY <1>3, MissCoherent, RedisStepsCoherent, EndsCoherent DEF Redis
  <1>4. CASE Failure(P)
    BY <1>4, EndsCoherent
  <1>5. ASSUME NEW g \in Group, NEW u \in User, Apply(g, u) PROVE CoherentInv'
    BY <1>5, SameDb, OutsideCoherent DEF Apply
  <1>6. ASSUME NEW g \in Group, Expire(g) PROVE CoherentInv'
    BY <1>6, ExpireDrops, OutsideCoherent
  <1>7. CASE UNCHANGED vars
    BY <1>7, SameDb, OutsideCoherent DEF vars, db
  <1> QED
    BY <1>1, <1>2, <1>3, <1>4, <1>5, <1>6, <1>7, ReviveCoherent DEF Next

\* Of requests served one after the other, without a crash or an error of redis,
\* each key in redis is at all times what the tables hold or about to be put or
\* dropped, whatever transactions roll back and keys expire.
THEOREM CachesFollow ==
    ASSUME UpdatesAlone, NEW P, Proc = {P}, Fault \cap {"crash", "redis"} = {}
    PROVE  Spec => []CoherentInv
  <1>1. Init => CoherentInv
    BY DEF Init, InitDb, CoherentInv, WritesTruth, StepsLeft, Idle, Keys
  <1>2. GroupInv /\ CoherentInv /\ [Next]_vars => CoherentInv'
    BY CoherentStep
  <1>3. Spec => []GroupInv
    BY GroupInvariance
  <1> QED
    BY <1>1, <1>2, <1>3, PTL DEF Spec

\* When none is being served, group_info_, contact_info_ and group_memberlist_
\* hold what group_info and group_member hold.
THEOREM CachesCoherent ==
    ASSUME UpdatesAlone, NEW P, Proc = {P}, Fault \cap {"crash", "redis"} = {}
    PROVE  Spec => []CacheCoherent
  <1>1. CoherentInv => CacheCoherent
    BY IdleQuiet, AllTrue DEF CacheCoherent
  <1>2. Spec => []CoherentInv
    BY CachesFollow
  <1> QED
    BY <1>1, <1>2, PTL

-----------------------------------------------------------------------------
(* The keys in redis, of any number of requests at once.                      *)

\* Whoever has read before p's step is late, or has read what is still so.
LEMMA OthersPut ==
    ASSUME NEW p, NEW q \in Proc \ {p}, PutsTruth(q), tx'[q] = tx[q], Overtakes(p)
    PROVE  PutsTruth(q)'
  <1> DEFINE t == tx[q]
  <1>1. PutsLeft(q)' = PutsLeft(q) /\ PutsLeft(q) \subseteq Kinds
    BY SameLeft DEF PutsLeft
  <1>2. \A kind \in PutsLeft(q) : <<q, kind>> \in late \/ Outdates(q, kind) => <<q, kind>> \in late'
    BY <1>1 DEF Overtakes
  <1>3. ASSUME NEW kind \in {"info", "card"} \cap PutsLeft(q), <<q, kind>> \notin late'
        PROVE  group'[t.g].state = "live" /\ t.row[t.g] = group'[t.g]
    <2>1. Live(t.g) /\ t.row[t.g] = group[t.g] /\ ~Outdates(q, kind)
      BY <1>2, <1>3 DEF PutsTruth
    <2> QED
      BY <1>3, <2>1 DEF Outdates, Changes, Live
  <1>4. ASSUME "list" \in PutsLeft(q), <<q, "list">> \notin late'
        PROVE  /\ group'[t.g].state = "live"
               /\ \/ t.todo = <<"members", "names", "list">>
                  \/ t.todo = <<"names", "list">> /\ t.seen = member'[t.g]
                  \/ t.todo = <<"list">> /\ t.seen = member'[t.g] \ deleted'
    <2>1. /\ Live(t.g) /\ ~Outdates(q, "list")
          /\ \/ t.todo = <<"members", "names", "list">>
             \/ t.todo = <<"names", "list">> /\ t.seen = member[t.g]
             \/ t.todo = <<"list">> /\ t.seen = member[t.g] \ deleted
      BY <1>2, <1>4 DEF PutsTruth
    <2>2. CASE t.todo = <<"members", "names", "list">>
      <3>1. StepsLeft(q) = {"members", "names", "list"}
        BY <2>2, LeftSets DEF StepsLeft
      <3> QED
        BY <2>1, <2>2, <3>1 DEF Outdates, Live
    <2>3. CASE t.todo = <<"names", "list">> /\ t.seen = member[t.g]
      <3>1. StepsLeft(q) = {"names", "list"}
        BY <2>3, LeftSets DEF StepsLeft
      <3>2. Live(t.g)' = Live(t.g) /\ member'[t.g] = member[t.g]
        BY <2>1, <3>1 DEF Outdates
      <3> QED
        BY <2>1, <2>3, <3>2 DEF Live
    <2>4. CASE t.todo = <<"list">> /\ t.seen = member[t.g] \ deleted
      <3>1. StepsLeft(q) = {"list"}
        BY <2>4, LeftSets DEF StepsLeft
      <3>2. Live(t.g)' = Live(t.g) /\ member'[t.g] \ deleted' = member[t.g] \ deleted
        BY <2>1, <3>1 DEF Outdates, Changes
      <3> QED
        BY <2>1, <2>4, <3>2 DEF Live
    <2> QED
      BY <2>1, <2>2, <2>3, <2>4
  <1> QED
    BY <1>1, <1>3, <1>4 DEF PutsTruth, Live

\* What the step of request p must show.
LEMMA RaceKeeps ==
    ASSUME RaceInv, NEW p \in Proc, \A q \in Proc \ {p} : tx'[q] = tx[q], Overtakes(p),
           doubt' \subseteq Present', PutsTruth(p)',
           \A kind \in Kinds : \A g \in Keys(kind)' :
             \/ g \in Group /\ (<<kind, g>> \in doubt' \/ KeyTrue(kind, g)' \/ <<kind, g>> \in KeysLeft(p)')
             \/ /\ g \in Keys(kind)
                /\ <<kind, g>> \in doubt => <<kind, g>> \in doubt'
                /\ KeyTrue(kind, g) => <<kind, g>> \in doubt' \/ KeyTrue(kind, g)' \/ <<kind, g>> \in KeysLeft(p)'
                /\ <<kind, g>> \in KeysLeft(p) => <<kind, g>> \in doubt' \/ <<kind, g>> \in KeysLeft(p)'
    PROVE  RaceInv'
  <1>1. late' \subseteq Proc \X Kinds
    BY DEF Overtakes
  <1>2. \A q \in Proc : PutsTruth(q)'
    BY OthersPut DEF RaceInv
  <1>3. ASSUME NEW kind \in Kinds, NEW g \in Keys(kind)'
        PROVE  /\ g \in Group
               /\ <<kind, g>> \in doubt' \/ KeyTrue(kind, g)' \/ \E q \in Proc : <<kind, g>> \in KeysLeft(q)'
    <2>1. ASSUME NEW q \in Proc \ {p}, <<kind, g>> \in KeysLeft(q)
          PROVE  <<kind, g>> \in KeysLeft(q)'
      BY <2>1, SameLeft
    <2>2. g \in Keys(kind) =>
            /\ g \in Group
            /\ <<kind, g>> \in doubt \/ KeyTrue(kind, g) \/ \E q \in Proc : <<kind, g>> \in KeysLeft(q)
      BY DEF RaceInv
    <2> QED
      BY <1>3, <2>1, <2>2
  <1> QED
    BY <1>1, <1>2, <1>3 DEF RaceInv

\* A step before the redis steps: what it changes in the tables is to be put or
\* dropped by p, or comes into doubt.
LEMMA TableStep ==
    ASSUME RaceInv, NEW p \in Proc, \A q \in Proc \ {p} : tx'[q] = tx[q], Overtakes(p),
           tx[p].todo = << >>, redis' = redis,
           doubt \subseteq doubt', doubt' \subseteq Present,
           Missed(p) \cap Present \subseteq doubt', PutsTruth(p)',
           \A kind \in Kinds, g \in Group \ Affected(p) : Changes(kind, g) => <<kind, g>> \in Missed(p),
           \A kind \in Kinds, g \in Affected(p) : KeyTrue(kind, g) =>
             \/ ~Changes(kind, g) \/ KeyTrue(kind, g)' \/ <<kind, g>> \in KeysLeft(p)'
    PROVE  RaceInv'
  <1>1. Present' = Present /\ \A kind : Keys(kind)' = Keys(kind)
    BY SameKeys
  <1>2. KeysLeft(p) = {}
    BY NothingLeft
  <1>3. ASSUME NEW kind \in Kinds, NEW g \in Keys(kind), KeyTrue(kind, g)
        PROVE  <<kind, g>> \in doubt' \/ KeyTrue(kind, g)' \/ <<kind, g>> \in KeysLeft(p)'
    <2>1. g \in Group /\ <<kind, g>> \in Present
      BY DEF RaceInv, Present
    <2>2. CASE ~Changes(kind, g)
      BY <1>3, <2>2, TrueStays
    <2>3. CASE Changes(kind, g) /\ g \notin Affected(p)
      BY <2>1, <2>3
    <2>4. CASE Changes(kind, g) /\ g \in Affected(p)
      BY <1>3, <2>4
    <2> QED
      BY <2>2, <2>3, <2>4
  <1> QED
    BY <1>1, <1>2, <1>3, RaceKeeps

\* Nothing is changed in the tables, and nothing to be done in redis.
LEMMA QuietStep ==
    ASSUME TypeOK, RaceInv, NEW p \in Proc, NEW t, Becomes(p, t), Overtakes(p), tx[p].todo = << >>,
           t.todo = << >>, UNCHANGED <<group, member, deleted, redis>>,
           \/ Doubtful(doubt \cup Missed(p)) \/ Doubtful((doubt \ Settled(p)) \cup PutLate(p))
           \/ Doubtful(doubt \cup Settled(p))
    PROVE  RaceInv'
  <1>1. tx'[p] = t /\ \A q \in Proc \ {p} : tx'[q] = tx[q]
    BY DEF Becomes, TypeOK
  <1>2. \A kind, g : ~Changes(kind, g)
    BY DEF Changes, Live
  <1>3. Missed(p) = {} /\ Settled(p) = {} /\ PutLate(p) = {}
    BY <1>2, NothingLeft DEF Missed, ListsChanged, Settled, PutLate
  <1>4. doubt' = doubt /\ doubt' \subseteq Present
    BY <1>3, SameKeys DEF RaceInv, Doubtful
  <1>5. PutsTruth(p)'
    BY <1>1 DEF PutsTruth, PutsLeft, StepsLeft
  <1> QED
    BY <1>1, <1>2, <1>3, <1>4, <1>5, TableStep

LEMMA TodoInRedis ==
    ASSUME RaceInv, NEW p \in Proc, tx[p].pc # "redis"
    PROVE  tx[p].todo = << >>
  BY DEF RaceInv, PutsTruth

LEMMA CallRaces ==
    ASSUME TypeOK, RaceInv, NEW p \in Proc, Call(p), RequestStep(p)
    PROVE  RaceInv'
  <1>1. PICK op, g, u, us :
          Becomes(p, [Idle EXCEPT !.pc = EntryPc(op), !.op = op, !.g = g, !.u = u, !.us = us])
    BY DEF Call
  <1> DEFINE t == [Idle EXCEPT !.pc = EntryPc(op), !.op = op, !.g = g, !.u = u, !.us = us]
  <1>2. t.todo = << >>
    BY DEF Idle
  <1>3. tx[p].todo = << >> /\ UNCHANGED <<group, member, deleted, redis>>
    BY TodoInRedis DEF Call, db
  <1> HIDE DEF t
  <1> QED
    BY <1>1, <1>2, <1>3, QuietStep DEF t, RequestStep

\* Locks, reads, refusals and answers.
LEMMA QuietRaces ==
    ASSUME TypeOK, RaceInv, NEW p \in Proc, RequestStep(p),
           \/ LeaveLock(p) \/ RemoveLock(p) \/ EnterLock(p) \/ PassRead(p) \/ PassLock(p)
           \/ DismissLock(p) \/ DeleteLock(p) \/ UpdateRead(p)
           \/ DeleteUsersRead(p) \/ \E g \in Group : DeleteUsersLock(p, g)
           \/ tx[p].todo = << >> /\ (Refuse(p) \/ Reply(p))
    PROVE  RaceInv'
  <1>1. CASE tx[p].todo = << >> /\ (Refuse(p) \/ Reply(p))
    BY <1>1, IdleQuiet, QuietStep DEF Refuse, Reply, RequestStep, db
  <1>2. CASE ~(Refuse(p) \/ Reply(p))
    <2>1. tx[p].todo = << >>
      BY <1>2, TodoInRedis DEF LeaveLock, RemoveLock, EnterLock, PassRead, PassLock, DismissLock,
             DeleteLock, UpdateRead, DeleteUsersRead, DeleteUsersLock, LockGroup
    <2>2. PICK t : /\ Becomes(p, t) /\ UNCHANGED <<db, redis>>
                   /\ t.todo = tx[p].todo /\ t.op = tx[p].op
      BY <1>2, ReadsOnly
    <2> QED
      BY <2>1, <2>2, QuietStep DEF RequestStep, db
  <1>3. CASE tx[p].todo # << >>
    BY <1>3, TodoInRedis DEF LeaveLock, RemoveLock, EnterLock, PassRead, PassLock, DismissLock,
           DeleteLock, UpdateRead, DeleteUsersRead, DeleteUsersLock, LockGroup
  <1>4. CASE (Refuse(p) \/ Reply(p)) /\ tx[p].todo = << >>
    BY <1>1, <1>4
  <1> QED
    BY <1>2, <1>3, <1>4

\* The commit of a group's row.
LEMMA SavesRace ==
    ASSUME TypeOK, RaceInv, NEW p \in Proc, NEW r, NEW steps, Saves(p, r, steps), Overtakes(p),
           Doubtful(doubt \cup Missed(p))
    PROVE  RaceInv'
  <1> DEFINE g == tx[p].g
  <1>1. /\ tx'[p].pc = "redis" /\ tx'[p].op # "deleteUser" /\ tx'[p].g = g
        /\ tx'[p].row[g] = group'[g] /\ \A q \in Proc \ {p} : tx'[q] = tx[q]
        /\ deleted' = deleted /\ redis' = redis
        /\ Affected(p) = {g} /\ Affected(p)' = {g}
        /\ "list" \notin StepsLeft(p)'
        /\ {"info", "card"} \cap StepsLeft(p)' # {} => group'[g].state = "live"
        /\ \A kind \in Kinds : KeyTrue(kind, g) =>
             KeyTrue(kind, g)' \/ {kind, DropOf[kind]} \cap StepsLeft(p)' # {}
    BY SavesLeave
  <1>2. tx[p].todo = << >> /\ g \in Group
    BY TodoInRedis DEF Saves
  <1>3. PutsTruth(p)'
    BY <1>1, <1>2 DEF PutsTruth, PutsLeft, Live
  <1>4. \A kind \in Kinds : KeyTrue(kind, g) => KeyTrue(kind, g)' \/ <<kind, g>> \in KeysLeft(p)'
    BY <1>1, <1>2 DEF KeysLeft, Pending
  <1>5. Present' = Present
    BY <1>1, SameKeys
  <1>6. doubt \subseteq doubt' /\ doubt' \subseteq Present /\ Missed(p) \cap Present \subseteq doubt'
    BY <1>5 DEF Doubtful, RaceInv
  <1>7. \A kind \in Kinds, x \in Group \ Affected(p) : ~Changes(kind, x)
    <2>1. \A x \in Group \ {g} : group'[x] = group[x] /\ member'[x] = member[x]
      BY SavesLeave
    <2> QED
      BY <1>1, <2>1 DEF Changes, Live
  <1> QED
    BY <1>1, <1>2, <1>3, <1>4, <1>6, <1>7, TableStep

\* DeleteUsers drops the keys of all groups it knew; the lists of others that
\* showed the user come into doubt.
LEMMA DeleteUsersRaces ==
    ASSUME TypeOK, RaceInv, NEW p \in Proc, DeleteUsersCommit(p), Overtakes(p),
           Doubtful(doubt \cup Missed(p))
    PROVE  RaceInv'
  <1>1. tx[p].todo = << >> /\ tx[p] \in TxState /\ tx[p].op = "deleteUser"
    BY TodoInRedis DEF DeleteUsersCommit, TypeOK
  <1>5. /\ tx'[p].pc = "redis" /\ tx'[p].op = "deleteUser" /\ redis' = redis
        /\ StepsLeft(p)' = {"dropList", "dropInfo", "dropCard"} /\ Affected(p)' = Affected(p)
        /\ \A q \in Proc \ {p} : tx'[q] = tx[q]
    BY DeleteUsersLeaves
  <1>6. PutsTruth(p)'
    BY <1>5 DEF PutsTruth, PutsLeft, Kinds
  <1>7. \A kind \in Kinds, g \in Affected(p) : <<kind, g>> \in KeysLeft(p)'
    <2>1. Affected(p) \subseteq Group
      BY <1>1 DEF Affected, TxState
    <2>2. \A kind \in Kinds : DropOf[kind] \in {"dropList", "dropInfo", "dropCard"}
      BY DEF Kinds, DropOf
    <2> QED
      BY <1>5, <2>1, <2>2 DEF KeysLeft, Pending
  <1>8. doubt \subseteq doubt' /\ doubt' \subseteq Present /\ Missed(p) \cap Present \subseteq doubt'
    BY <1>5, SameKeys DEF Doubtful, RaceInv
  <1>9. ASSUME NEW kind \in Kinds, NEW g \in Group \ Affected(p), Changes(kind, g)
        PROVE  <<kind, g>> \in Missed(p)
    <2>1. g \notin tx[p].joined \cup tx[p].owned
      BY <1>1 DEF Affected
    <2>2. group'[g] = group[g]
      BY <2>1 DEF DeleteUsersCommit
    <2>3. kind = "list"
      BY <1>9, <2>2 DEF Changes
    <2> QED
      BY <1>1, <1>9, <2>1, <2>3 DEF Missed, ListsChanged
  <1> QED
    BY <1>1, <1>5, <1>6, <1>7, <1>8, <1>9, TableStep

\* A miss puts what it has just read.
LEMMA MissRaces ==
    ASSUME GroupInv, RaceInv, NEW p \in Proc, GetGroupInfo(p) \/ GetGroupMemberList(p), ~Refuse(p),
           Overtakes(p), Doubtful((doubt \ Settled(p)) \cup PutLate(p))
    PROVE  RaceInv'
  <1> DEFINE g == tx[p].g
  <1>1. /\ tx[p].todo = << >> /\ tx[p] \in TxState /\ g \in Group /\ TypeOK
        /\ tx[p].op \in {"getInfo", "getList"}
    BY TodoInRedis DEF GetGroupInfo, GetGroupMemberList, GroupInv, TypeOK, Requests, WellFormed
  <1>2. UNCHANGED <<group, member, deleted, redis>> /\ Live(g)
    BY DEF GetGroupInfo, GetGroupMemberList, db
  <1>3. PutsTruth(p)' /\ \A q \in Proc \ {p} : tx'[q] = tx[q]
    <2>1. CASE GetGroupInfo(p)
      <3> DEFINE t == [tx[p] EXCEPT !.pc = "redis", !.row[g] = group[g], !.todo = <<"info", "card">>]
      <3>1. /\ t.pc = "redis" /\ t.todo = <<"info", "card">> /\ t.op = "getInfo" /\ t.g = g
            /\ t.row[g] = group[g]
        BY <1>1, <2>1 DEF TxState, GetGroupInfo
      <3>2. Becomes(p, t)
        BY <2>1 DEF GetGroupInfo
      <3> HIDE DEF t
      <3>3. tx'[p] = t /\ \A q \in Proc \ {p} : tx'[q] = tx[q]
        BY <1>1, <3>2 DEF Becomes, TypeOK
      <3>4. StepsLeft(p)' = {"info", "card"}
        BY <3>1, <3>3, LeftSets DEF StepsLeft
      <3> QED
        BY <1>1, <1>2, <3>1, <3>3, <3>4 DEF PutsTruth, PutsLeft, Live
    <2>2. CASE GetGroupMemberList(p)
      <3> DEFINE t == [tx[p] EXCEPT !.pc = "redis", !.todo = <<"members", "names", "list">>]
      <3>1. /\ t.pc = "redis" /\ t.todo = <<"members", "names", "list">> /\ t.op = "getList"
            /\ t.g = g
        BY <1>1, <2>2 DEF TxState, GetGroupMemberList
      <3>2. Becomes(p, t)
        BY <2>2 DEF GetGroupMemberList
      <3> HIDE DEF t
      <3>3. tx'[p] = t /\ \A q \in Proc \ {p} : tx'[q] = tx[q]
        BY <1>1, <3>2 DEF Becomes, TypeOK
      <3>4. StepsLeft(p)' = {"members", "names", "list"}
        BY <3>1, <3>3, LeftSets DEF StepsLeft
      <3> QED
        BY <1>1, <1>2, <3>1, <3>3, <3>4 DEF PutsTruth, PutsLeft, Live
    <2> QED
      BY <2>1, <2>2
  <1>4. \A kind, x : ~Changes(kind, x)
    BY <1>2 DEF Changes, Live
  <1>5. doubt' = doubt /\ doubt' \subseteq Present /\ Missed(p) = {}
    BY <1>1, <1>2, <1>4, NothingLeft, SameKeys DEF Doubtful, RaceInv, Settled, PutLate, Missed,
                                                          ListsChanged
  <1> QED
    BY <1>1, <1>2, <1>3, <1>4, <1>5, TableStep

\* A redis step that is done leaves what is still to be put true or late.
LEMMA DonePuts ==
    ASSUME NEW p \in Proc, TypeOK, PutsTruth(p), NEW step, NEW seen,
           Done(p, step, [tx[p] EXCEPT !.seen = seen]), Overtakes(p),
           seen = SeenAfter(p, step)
    PROVE  PutsTruth(p)'
  <1>1. /\ Head(tx[p].todo) = step /\ tx'[p].pc = "redis" /\ tx'[p].op = tx[p].op
        /\ tx'[p].g = tx[p].g /\ tx'[p].row = tx[p].row /\ tx'[p].seen = seen
        /\ tx'[p].todo = Tail(tx[p].todo)
        /\ StepsLeft(p) = {step} \cup StepsLeft(p)'
        /\ group' = group /\ member' = member /\ deleted' = deleted
    <2>1. Head(tx[p].todo) = step /\ tx'[p].pc = "redis" /\ tx'[p].op = tx[p].op
      BY StepDone
    <2>2. tx'[p].g = tx[p].g
      BY StepDone
    <2>3. tx'[p].todo = Tail(tx[p].todo) /\ StepsLeft(p) = {step} \cup StepsLeft(p)'
      BY StepDone
    <2>4. group' = group /\ member' = member /\ deleted' = deleted
      BY StepDone
    <2>5. tx'[p].row = tx[p].row
      BY StepDone
    <2>6. tx'[p].seen = seen
      <3> DEFINE mid == [tx[p] EXCEPT !.seen = seen]
                 t == [mid EXCEPT !.todo = Tail(mid.todo)]
      <3>1. Becomes(p, t) /\ tx[p] \in TxState
        BY DEF Done, TypeOK
      <3>2. t.seen = seen
        BY <3>1 DEF TxState
      <3> HIDE DEF t, mid
      <3> QED
        BY <3>1, <3>2 DEF Becomes, TypeOK
    <2> QED
      BY <2>1, <2>2, <2>3, <2>4, <2>5, <2>6
  <1>2. PutsLeft(p)' \subseteq PutsLeft(p) /\ PutsLeft(p)' \subseteq Kinds
    BY <1>1 DEF PutsLeft
  <1>3. \A kind \in PutsLeft(p)' : <<p, kind>> \in late => <<p, kind>> \in late'
    BY <1>2 DEF Overtakes
  <1>4. ASSUME NEW kind \in {"info", "card"} \cap PutsLeft(p)', <<p, kind>> \notin late'
        PROVE  group'[tx[p].g].state = "live" /\ tx'[p].row[tx[p].g] = group'[tx[p].g]
    BY <1>1, <1>2, <1>3, <1>4 DEF PutsTruth, Live
  <1>5. ASSUME "list" \in PutsLeft(p)', <<p, "list">> \notin late'
        PROVE  /\ group'[tx[p].g].state = "live"
               /\ \/ tx'[p].todo = <<"names", "list">> /\ seen = member'[tx[p].g]
                  \/ tx'[p].todo = <<"list">> /\ seen = member'[tx[p].g] \ deleted'
    <2> DEFINE todo == tx[p].todo
    <2>1. /\ Live(tx[p].g)
          /\ \/ todo = <<"members", "names", "list">>
             \/ todo = <<"names", "list">> /\ tx[p].seen = member[tx[p].g]
             \/ todo = <<"list">> /\ tx[p].seen = member[tx[p].g] \ deleted
      BY <1>1, <1>2, <1>3, <1>5 DEF PutsTruth
    <2>2. CASE todo = <<"members", "names", "list">>
      <3>1. Head(todo) = "members" /\ Tail(todo) = <<"names", "list">>
        BY <2>2
      <3> QED
        BY <1>1, <2>1, <3>1 DEF SeenAfter, Live
    <2>3. CASE todo = <<"names", "list">> /\ tx[p].seen = member[tx[p].g]
      <3>1. Head(todo) = "names" /\ Tail(todo) = <<"list">>
        BY <2>3
      <3> QED
        BY <1>1, <2>1, <2>3, <3>1 DEF SeenAfter, Live
    <2>4. CASE todo = <<"list">>
      <3>1. Tail(todo) = << >>
        BY <2>4
      <3>2. StepsLeft(p)' = {}
        BY <1>1, <3>1 DEF StepsLeft
      <3> QED
        BY <1>5, <3>2 DEF PutsLeft
    <2> QED
      BY <2>1, <2>2, <2>3, <2>4
  <1> QED
    BY <1>1, <1>2, <1>4, <1>5 DEF PutsTruth, Live

LEMMA RedisRaces ==
    ASSUME TypeOK, RaceInv, NEW p \in Proc,
           \/ PutInfo(p) \/ PutCard(p) \/ QueryMembers(p) \/ ReadNames(p) \/ PutList(p)
           \/ DropKeys(p),
           Overtakes(p), Doubtful((doubt \ Settled(p)) \cup PutLate(p))
    PROVE  RaceInv'
  <1>1. PutsTruth(p)
    BY DEF RaceInv
  <1>2. tx[p].op = "deleteUser" => {"info", "card", "list"} \cap StepsLeft(p) = {}
    BY <1>1 DEF PutsTruth, PutsLeft, Kinds
  <1>3. PICK step, seen :
           /\ Done(p, step, [tx[p] EXCEPT !.seen = seen])
           /\ seen = SeenAfter(p, step)
           /\ \A kind \in Kinds : \A g \in Keys(kind)' :
                \/ /\ g \in Keys(kind) /\ (KeyTrue(kind, g) => KeyTrue(kind, g)')
                   /\ step \notin {kind, DropOf[kind]} \/ g \notin Affected(p)
                \/ g = tx[p].g /\ step = kind /\ (HasTruth(p, kind) => KeyTrue(kind, g)')
    BY <1>2, RedisWrites
  <1>4. /\ Head(tx[p].todo) = step /\ StepsLeft(p) = {step} \cup StepsLeft(p)'
        /\ Affected(p)' = Affected(p) /\ deleted' = deleted
        /\ \A q \in Proc \ {p} : tx'[q] = tx[q]
    BY <1>3, StepDone
  <1>5. PutsTruth(p)'
    BY <1>1, <1>3, DonePuts
  <1>6. ASSUME NEW kind \in Kinds, NEW g \in Keys(kind)',
               step \notin {kind, DropOf[kind]} \/ g \notin Affected(p)
        PROVE  <<kind, g>> \in KeysLeft(p) => <<kind, g>> \in KeysLeft(p)'
    BY <1>4, <1>6 DEF KeysLeft, Pending
  <1>7. ASSUME NEW kind \in Kinds, NEW g \in Keys(kind), g \in Keys(kind)',
               <<kind, g>> \in KeysLeft(p) => <<kind, g>> \in KeysLeft(p)',
               <<kind, g>> \in doubt
        PROVE  <<kind, g>> \in doubt'
    <2>1. <<kind, g>> \in Present'
      BY <1>7 DEF Present, RaceInv
    <2> QED
      BY <1>7, <2>1 DEF Settled, Doubtful
  <1>8. ASSUME NEW kind \in Kinds, NEW g \in Keys(kind)', g = tx[p].g, step = kind,
               HasTruth(p, kind) => KeyTrue(kind, g)'
        PROVE  /\ g \in Group
               /\ <<kind, g>> \in doubt' \/ KeyTrue(kind, g)' \/ <<kind, g>> \in KeysLeft(p)'
    <2>1. kind \in PutsLeft(p) /\ tx[p].op # "deleteUser" /\ g \in Group /\ Affected(p) = {g}
      BY <1>1, <1>4, <1>8 DEF PutsLeft, PutsTruth, Affected
    <2>2. <<kind, g>> \in KeysLeft(p) /\ <<kind, g>> \in Present'
      BY <1>4, <1>8, <2>1 DEF KeysLeft, Pending, Present
    <2>3. <<p, kind>> \in late \/ HasTruth(p, kind)
      <3>1. CASE kind = "list"
        <4>1. Head(tx[p].todo) = "list"
          BY <1>4, <1>8, <3>1
        <4>2. tx[p].todo \notin {<<"members", "names", "list">>, <<"names", "list">>}
          BY <4>1
        <4> QED
          BY <1>1, <2>1, <3>1, <4>2 DEF PutsTruth, HasTruth
      <3>2. CASE kind \in {"info", "card"}
        BY <1>1, <1>8, <2>1, <3>2 DEF PutsTruth, HasTruth
      <3> QED
        BY <3>1, <3>2 DEF Kinds
    <2> QED
      BY <1>8, <2>1, <2>2, <2>3 DEF Settled, PutLate, Doubtful
  <1>9. doubt' \subseteq Present'
    BY DEF Doubtful
  <1> QED
    BY <1>3, <1>4, <1>5, <1>6, <1>7, <1>8, <1>9, RaceKeeps

\* A redis step that fails, and all that is left when the process dies, leaves the
\* keys as they are, and in doubt.
LEMMA FailsRace ==
    ASSUME TypeOK, RaceInv, NEW p \in Proc, Crash(p) \/ RedisFails(p),
           Overtakes(p), Doubtful(doubt \cup Settled(p))
    PROVE  RaceInv'
  <1>1. /\ \A q \in Proc \ {p} : tx'[q] = tx[q]
        /\ UNCHANGED <<group, member, deleted>> /\ redis' = redis /\ PutsTruth(p)'
    <2>1. CASE Crash(p)
      <3>1. tx'[p] = Idle /\ \A q \in Proc \ {p} : tx'[q] = tx[q]
        BY <2>1 DEF Crash, Refuse, Becomes, TypeOK
      <3>2. PutsTruth(p)'
        BY <3>1 DEF PutsTruth, PutsLeft, StepsLeft, Idle
      <3> QED
        BY <2>1, <3>1, <3>2 DEF Crash, Refuse, db
    <2>2. CASE RedisFails(p)
      <3>1. PICK step \in {"info", "card", "list", "dropInfo", "dropCard", "dropList"} :
              Done(p, step, tx[p])
        BY <2>2 DEF RedisFails
      <3>2. [tx[p] EXCEPT !.seen = tx[p].seen] = tx[p]
        BY DEF TypeOK, TxState
      <3>3. Done(p, step, [tx[p] EXCEPT !.seen = tx[p].seen])
        BY <3>1, <3>2
      <3>4. PutsTruth(p)'
        <4>1. tx[p].seen = SeenAfter(p, step)
          BY <3>1 DEF SeenAfter
        <4> QED
          BY <3>3, <4>1, DonePuts DEF RaceInv
      <3> QED
        BY <2>2, <3>3, <3>4, StepDone DEF RedisFails
    <2> QED
      BY <2>1, <2>2
  <1>2. Present' = Present /\ \A kind : Keys(kind)' = Keys(kind)
    BY <1>1, SameKeys
  <1>3. ASSUME NEW kind \in Kinds, NEW g \in Keys(kind)
        PROVE  KeyTrue(kind, g) => KeyTrue(kind, g)'
    BY <1>1, TrueStays DEF Changes, Live
  <1>4. ASSUME NEW kind \in Kinds, NEW g \in Keys(kind), <<kind, g>> \in KeysLeft(p)
        PROVE  <<kind, g>> \in doubt' \/ <<kind, g>> \in KeysLeft(p)'
    <2>1. <<kind, g>> \in Present'
      BY <1>2 DEF Present, RaceInv
    <2> QED
      BY <1>4, <2>1 DEF Settled, Doubtful
  <1>5. doubt \subseteq doubt' /\ doubt' \subseteq Present'
    BY <1>2 DEF Doubtful, RaceInv
  <1> QED
    BY <1>1, <1>2, <1>3, <1>4, <1>5, RaceKeeps

\* Applications and keys that expire.
LEMMA OutsideRaces ==
    ASSUME RaceInv, UNCHANGED <<group, member, deleted, tx, late>>, doubt' = doubt \cap Present',
           \A kind \in Kinds : \A g \in Keys(kind)' :
             g \in Keys(kind) /\ (KeyTrue(kind, g) => KeyTrue(kind, g)')
    PROVE  RaceInv'
  <1>1. ASSUME NEW p \in Proc
        PROVE  PutsTruth(p)' /\ KeysLeft(p)' = KeysLeft(p)
    <2>1. PutsTruth(p) /\ PutsLeft(p)' = PutsLeft(p) /\ KeysLeft(p)' = KeysLeft(p)
      BY SameLeft DEF RaceInv
    <2> QED
      BY <2>1 DEF PutsTruth, Live
  <1>2. ASSUME NEW kind \in Kinds, NEW g \in Keys(kind)'
        PROVE  /\ g \in Group
               /\ <<kind, g>> \in doubt' \/ KeyTrue(kind, g)' \/ \E q \in Proc : <<kind, g>> \in KeysLeft(q)'
    <2>1. /\ g \in Keys(kind) /\ g \in Group
          /\ <<kind, g>> \in doubt \/ KeyTrue(kind, g) \/ \E q \in Proc : <<kind, g>> \in KeysLeft(q)
      BY <1>2 DEF RaceInv
    <2>2. <<kind, g>> \in Present'
      BY <1>2, <2>1 DEF Present
    <2> QED
      BY <1>1, <1>2, <2>1, <2>2
  <1> QED
    BY <1>1, <1>2 DEF RaceInv

\* A user who registers again: the lists that are to show him come into doubt.
LEMMA ReviveRaces ==
    ASSUME RaceInv, NEW u \in User, Revive(u), Doubtful(doubt \cup ListsChanged), Overtakes(NoProc)
    PROVE  RaceInv'
  <1>1. UNCHANGED <<group, member, tx>> /\ redis' = redis
    BY DEF Revive
  <1>2. Present' = Present /\ \A kind : Keys(kind)' = Keys(kind)
    BY <1>1, SameKeys
  <1>3. ASSUME NEW p \in Proc PROVE PutsTruth(p)' /\ KeysLeft(p)' = KeysLeft(p)
    <2>1. p \in Proc \ {NoProc} /\ PutsTruth(p) /\ tx'[p] = tx[p]
      BY <1>1, GroupAssumption DEF RaceInv
    <2> QED
      BY <2>1, OthersPut, SameLeft
  <1>4. ASSUME NEW kind \in Kinds, NEW g \in Keys(kind)
        PROVE  /\ g \in Group /\ <<kind, g>> \in Present
               /\ <<kind, g>> \in doubt \/ KeyTrue(kind, g) \/ \E p \in Proc : <<kind, g>> \in KeysLeft(p)
    BY DEF RaceInv, Present
  <1>5. ASSUME NEW kind \in Kinds, NEW g \in Keys(kind), KeyTrue(kind, g)
        PROVE  <<kind, g>> \in doubt' \/ KeyTrue(kind, g)'
    <2>1. CASE ~Changes(kind, g)
      BY <1>1, <1>5, <2>1, TrueStays
    <2>2. CASE Changes(kind, g)
      <3>1. kind = "list"
        BY <1>1, <2>2 DEF Changes
      <3> QED
        BY <1>2, <1>4, <2>2, <3>1 DEF ListsChanged, Doubtful
    <2> QED
      BY <2>1, <2>2
  <1>6. late' \subseteq Proc \X Kinds /\ doubt' \subseteq Present'
    BY DEF Overtakes, Doubtful
  <1>7. doubt \subseteq doubt'
    BY <1>2 DEF Doubtful, RaceInv
  <1> QED
    BY <1>2, <1>3, <1>4, <1>5, <1>6, <1>7 DEF RaceInv

LEMMA RaceStep ==
    ASSUME GroupInv, RaceInv, [RaceNext]_<<vars, raceVars>>
    PROVE  RaceInv'
  <1>1. TypeOK
    BY DEF GroupInv
  <1>2. ASSUME NEW p \in Proc, RequestStep(p) PROVE RaceInv'
    <2>0. Overtakes(p)
      BY <1>2 DEF RequestStep
    <2>1. CASE Call(p)
      BY <1>1, <1>2, <2>1, CallRaces
    <2>2. CASE Transaction(p) /\ Doubtful(doubt \cup Missed(p))
      <3>1. CASE \/ CreateGroup(p) \/ LeaveCommit(p) \/ RemoveCommit(p) \/ EnterCommit(p)
                 \/ PassCommit(p) \/ DissolveCommit(p) \/ SetGroupsStatus(p) \/ UpdateCommit(p)
        <4>1. tx[p].todo = << >>
          BY <3>1, TodoInRedis DEF CreateGroup, LeaveCommit, RemoveCommit, EnterCommit, PassCommit,
                 DissolveCommit, SetGroupsStatus, UpdateCommit, At
        <4>2. CASE Refuse(p)
          BY <1>1, <1>2, <4>1, <4>2, QuietRaces
        <4>3. CASE ~Refuse(p)
          BY <1>1, <2>0, <2>2, <3>1, <4>3, CommitSaves, SavesRace
        <4> QED
          BY <4>2, <4>3
      <3>2. CASE DeleteUsersCommit(p)
        BY <1>1, <2>0, <2>2, <3>2, DeleteUsersRaces
      <3> QED
        BY <1>1, <1>2, <2>2, <3>1, <3>2, QuietRaces DEF Transaction
    <2>3. CASE Redis(p) /\ Doubtful((doubt \ Settled(p)) \cup PutLate(p))
      <3>1. CASE (GetGroupInfo(p) \/ GetGroupMemberList(p)) /\ ~Refuse(p)
        BY <2>0, <2>3, <3>1, MissRaces
      <3>2. CASE (GetGroupInfo(p) \/ GetGroupMemberList(p)) /\ Refuse(p)
        <4>1. tx[p].todo = << >>
          BY <3>2, TodoInRedis DEF GetGroupInfo, GetGroupMemberList
        <4> QED
          BY <1>1, <1>2, <3>2, <4>1, QuietRaces
      <3>3. CASE Reply(p)
        <4>1. tx[p].todo = << >>
          BY <3>3 DEF Reply
        <4> QED
          BY <1>1, <1>2, <3>3, <4>1, QuietRaces
      <3> QED
        BY <1>1, <2>0, <2>3, <3>1, <3>2, <3>3, RedisRaces DEF Redis
    <2>4. CASE Failure(p) /\ Doubtful(doubt \cup Settled(p))
      <3>1. CASE Rollback(p)
        <4>1. tx[p].todo = << >> /\ Refuse(p)
          BY <3>1, TodoInRedis DEF Rollback
        <4> QED
          BY <1>1, <1>2, <4>1, QuietRaces
      <3> QED
        BY <1>1, <2>0, <2>4, <3>1, FailsRace DEF Failure
    <2> QED
      BY <1>2, <2>1, <2>2, <2>3, <2>4 DEF RequestStep
  <1>3. ASSUME NEW g \in Group, NEW u \in User, Apply(g, u), UNCHANGED raceVars PROVE RaceInv'
    <2>1. UNCHANGED <<group, member, deleted, tx, late>> /\ redis' = redis /\ doubt' = doubt
      BY <1>3 DEF Apply, raceVars
    <2> QED
      BY <2>1, SameDb, SameKeys, OutsideRaces DEF RaceInv
  <1>4. ASSUME NEW g \in Group, Expire(g), Doubtful(doubt), late' = late PROVE RaceInv'
    BY <1>4, ExpireDrops, OutsideRaces DEF Doubtful
  <1>5. CASE UNCHANGED <<vars, raceVars>>
    <2>1. UNCHANGED <<group, member, deleted, tx, late>> /\ redis' = redis /\ doubt' = doubt
      BY <1>5 DEF vars, db, raceVars
    <2> QED
      BY <2>1, SameDb, SameKeys, OutsideRaces DEF RaceInv
  <1> QED
    BY <1>2, <1>3, <1>4, <1>5, ReviveRaces DEF RaceNext

\* The record of races restricts nothing.
LEMMA RacesAreRuns == RaceSpec => Spec
  <1>1. RaceInit => Init
    BY DEF RaceInit
  <1>2. [RaceNext]_<<vars, raceVars>> => [Next]_vars
    BY DEF RaceNext, RequestStep, Next
  <1> QED
    BY <1>1, <1>2, PTL DEF RaceSpec, Spec

\* Of any number of requests at once, under every failure, a key in redis is true, or
\* in doubt for one of the reasons that GroupRaces names, or about to be put or dropped.
THEOREM RacesKnown ==
    ASSUME UpdatesAlone
    PROVE  RaceSpec => []RaceInv
  <1>1. RaceInit => RaceInv
    BY DEF RaceInit, Init, RaceInv, PutsTruth, PutsLeft, StepsLeft, Idle, Keys
  <1>2. GroupInv /\ RaceInv /\ [RaceNext]_<<vars, raceVars>> => RaceInv'
    BY RaceStep
  <1>3. Spec => []GroupInv
    BY GroupInvariance
  <1> QED
    BY <1>1, <1>2, <1>3, RacesAreRuns, PTL DEF RaceSpec

\* When no request is being served, group_info_, contact_info_ and group_memberlist_
\* are true unless a named race or failure befell them.
THEOREM CachesTrueUnlessRaced ==
    ASSUME UpdatesAlone
    PROVE  RaceSpec => []TrueUnlessRaced
  <1>1. RaceInv => TrueUnlessRaced
    <2> SUFFICES ASSUME RaceInv, \A p \in Proc : tx[p] = Idle PROVE TrueUnlessRaced
      BY DEF TrueUnlessRaced
    <2>1. \A p \in Proc : KeysLeft(p) = {}
      BY IdleQuiet, NothingLeft
    <2> QED
      BY <2>1 DEF RaceInv, TrueUnlessRaced
  <1>2. RaceSpec => []RaceInv
    BY RacesKnown
  <1> QED
    BY <1>1, <1>2, PTL
=============================================================================
