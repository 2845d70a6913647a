------------------------------ MODULE Contacts ------------------------------
(***************************************************************************)
(* Contacts between users, the applications that lead to them, and the     *)
(* sessions they open: the user half of user_contact_service.go,           *)
(* session_service.go, and what enabling, disabling and deleting users in  *)
(* user_info_service.go does to all three.                                 *)
(*                                                                         *)
(* No table has a unique key over its two users and no request takes a     *)
(* lock before it decides: a transaction reads its snapshot, and at the    *)
(* commit its UPDATEs and DELETEs apply to the rows as they are by then.   *)
(* Between the two any other request may commit.  The commit is one step:  *)
(* a writer that meets another one's rows waits or is rolled back.  A row  *)
(* is named by its place in its table, its id in user_contact.             *)
(***************************************************************************)
EXTENDS Naturals, Sequences, FiniteSets

CONSTANTS User, Proc,  \* users, requests served at the same time
          Op,          \* the operations that are called
          Fault,       \* failures: subset of {"rollback", "crash"}
          MaxCalls,    \* bound: requests ever made
          NoUser

Ops == {"apply", "pass", "refuse", "blackApply", "delete", "black", "cancel",
        "friends", "chat", "resume", "deleteSession",
        "able", "disable", "deleteUser"}

ASSUME ContactsAssumption ==
  /\ NoUser \notin User /\ Op \subseteq Ops /\ MaxCalls \in Nat

VARIABLES status,  \* user_info.status of each user, "deleted" without a row
          contact, \* table user_contact, of users only
          apply,   \* table contact_apply
          session, \* table session
          friends, \* redis contact_user_list_: whom a cached list shows
          chats,   \* redis session_list_: the same for sessions
          opened,  \* redis session_<send>_<receive>: the session it holds
          tx,      \* the requests being served
          calls,   \* requests made so far
          clean    \* so far one request at a time, no crash, and no relation
                   \* overlooked because the query for it failed

db == <<status, contact, apply, session>>
redis == <<friends, chats, opened>>
vars == <<db, redis, tx, calls, clean>>

ContactRow == [user: User, peer: User, live: BOOLEAN,
               status: {"NORMAL", "BLACK", "BE_BLACK"}]
ApplyRow == [user: User, peer: User, live: BOOLEAN,
             status: {"PENDING", "AGREE", "REFUSE", "BLACK"}]
SessionRow == [user: User, peer: User, live: BOOLEAN]

\* The rows of a table, ids or live ones, from a to b.
Rows(table, a, b) == {i \in DOMAIN table : table[i].user = a /\ table[i].peer = b}
LiveRows(table, a, b) == {i \in Rows(table, a, b) : table[i].live}
\* First orders by the primary key: the oldest contact.  (Applications and
\* sessions have random keys: any of them.)
IsFirst(i, s) == i \in s /\ \A j \in s : i <= j

\* Soft deletion of the rows in s.
Bury(table, s) ==
  [i \in DOMAIN table |-> [table[i] EXCEPT !.live = @ /\ i \notin s]]
Between(table, a, b) == Rows(table, a, b) \cup Rows(table, b, a)
Of(table, u) == {i \in DOMAIN table : u \in {table[i].user, table[i].peer}}
\* tx.Save of the row i, read before: all its columns, deleted_at included.
Save(table, i, s) ==
  [table EXCEPT ![i] = [user |-> @.user, peer |-> @.peer, live |-> TRUE, status |-> s]]

\* A request of a about b.
Request(pc, op, a, b) ==
  [pc |-> pc, op |-> op, a |-> a, b |-> b,
   i |-> 0, j |-> 0,  \* rows read
   got |-> {},        \* the list read
   todo |-> << >>]    \* redis steps still to be done
Idle == Request("idle", "none", NoUser, NoUser)

\* Two strangers, or two who have become contacts by an application.
Init ==
  /\ status = [u \in User |-> "NORMAL"]
  /\ \/ contact = << >> /\ apply = << >>
     \/ \E a, b \in User : a # b /\
          LET Row(x, y, s) == [user |-> x, peer |-> y, status |-> s, live |-> TRUE] IN
          /\ contact = <<Row(a, b, "NORMAL"), Row(b, a, "NORMAL")>>
          /\ apply = <<Row(b, a, "AGREE")>>
  /\ session = << >>
  /\ friends = << >> /\ chats = << >> /\ opened = << >>
  /\ tx = [p \in Proc |-> Idle]
  /\ calls = 0 /\ clean = TRUE

-----------------------------------------------------------------------------
(* Requests.  What the web client shows may be stale: it lets a user act on  *)
(* contacts, applications and sessions that once were there.                 *)

EntryPc(op) ==
  CASE op \in {"delete", "black", "deleteSession", "able", "disable", "deleteUser"} -> "commit"
    [] op = "chat" -> "check"
    [] op = "resume" -> "list"
    [] OTHER -> "read"

Legal(op, a, b) ==
  /\ status[a] # "deleted" /\ a # b
  /\ \/ op = "apply" /\ b \in User
     \/ op \in {"pass", "refuse", "blackApply"} /\ Rows(apply, b, a) # {}
     \/ op \in {"delete", "black", "cancel", "chat"} /\ Rows(contact, a, b) # {}
     \/ op = "deleteSession" /\ Rows(session, a, b) # {}
     \/ op \in {"friends", "resume", "able", "disable", "deleteUser"} /\ b = NoUser

\* The state of request p becomes t.
Becomes(p, t) == tx' = [tx EXCEPT ![p] = t]

\* One more request keeps the histories the claims about clean are of.
OneAtATime == clean /\ \A q \in Proc : tx[q].pc = "idle"

Call(p) ==
  /\ tx[p].pc = "idle" /\ calls < MaxCalls
  /\ \E op \in Op, a \in User, b \in User \cup {NoUser} :
       /\ Legal(op, a, b)
       /\ Becomes(p, Request(EntryPc(op), op, a, b))
  /\ calls' = calls + 1
  /\ clean' = OneAtATime
  /\ UNCHANGED <<db, redis>>

At(p, pc, op) == tx[p].pc = pc /\ tx[p].op = op

\* An early return, after the rollback.
Refuse(p) == Becomes(p, Idle) /\ UNCHANGED <<db, redis, calls, clean>>

\* A read after which p goes on as t.
Reads(p, t) == Becomes(p, t) /\ UNCHANGED <<db, redis, calls, clean>>

\* After the commit: the redis steps.
Committed(p, steps) ==
  /\ Becomes(p, [tx[p] EXCEPT !.pc = "redis", !.todo = steps])
  /\ UNCHANGED <<redis, calls, clean>>

-----------------------------------------------------------------------------
(* Applications                                                              *)

\* Mutant: a black-listed application can be renewed.
ApplyReadAny(p) ==
  /\ At(p, "read", "apply")
  /\ LET s == LiveRows(apply, tx[p].a, tx[p].b) IN
     \E i \in IF s = {} THEN {0} ELSE s : Reads(p, [tx[p] EXCEPT !.pc = "commit", !.i = i])

\* ApplyContact: the user applied to, and the application there may be.
ApplyRead(p) ==
  /\ At(p, "read", "apply")
  /\ LET s == LiveRows(apply, tx[p].a, tx[p].b) IN
     \/ status[tx[p].b] # "NORMAL" /\ Refuse(p)
     \/ \E i \in s : apply[i].status = "BLACK" /\ Refuse(p)
     \/ /\ status[tx[p].b] = "NORMAL"
        /\ \E i \in IF s = {} THEN {0} ELSE {j \in s : apply[j].status # "BLACK"} :
             Reads(p, [tx[p] EXCEPT !.pc = "commit", !.i = i])

ApplyCommit(p) ==
  /\ At(p, "commit", "apply")
  /\ apply' = IF tx[p].i = 0
              THEN Append(apply, [user |-> tx[p].a, peer |-> tx[p].b,
                                  status |-> "PENDING", live |-> TRUE])
              ELSE Save(apply, tx[p].i, "PENDING")
  /\ Committed(p, << >>)
  /\ UNCHANGED <<status, contact, session>>

\* Mutant: PassContactApply does not look for an existing contact.
PassReadAny(p) ==
  /\ At(p, "read", "pass")
  /\ \/ LiveRows(apply, tx[p].b, tx[p].a) = {} /\ Refuse(p)
     \/ \E i \in LiveRows(apply, tx[p].b, tx[p].a) :
          Reads(p, [tx[p] EXCEPT !.pc = "commit", !.i = i])

\* PassContactApply of a user: whatever the state of the application, unless
\* the two are contacts already.
PassRead(p) ==
  /\ At(p, "read", "pass")
  /\ LET s == LiveRows(apply, tx[p].b, tx[p].a)
         ok == status[tx[p].b] = "NORMAL" /\ LiveRows(contact, tx[p].a, tx[p].b) = {}
     IN \/ (s = {} \/ ~ok) /\ Refuse(p)
        \/ ok /\ \E i \in s : Reads(p, [tx[p] EXCEPT !.pc = "commit", !.i = i])

\* The query for an existing contact fails: any error is taken for "not found", and
\* the request goes on to insert a second relation.
PassBlind(p) ==
  /\ At(p, "read", "pass") /\ "rollback" \in Fault
  /\ status[tx[p].b] = "NORMAL" /\ LiveRows(contact, tx[p].a, tx[p].b) # {}
  /\ \E i \in LiveRows(apply, tx[p].b, tx[p].a) :
       Becomes(p, [tx[p] EXCEPT !.pc = "commit", !.i = i])
  /\ clean' = FALSE
  /\ UNCHANGED <<db, redis, calls>>

\* Mutant: only the list of the one who passes is dropped.
BefriendDropsOne(p) == Committed(p, <<"dropA">>)
Befriended(p) == Committed(p, <<"dropA", "dropB">>)

Normal(a, b) == [user |-> a, peer |-> b, status |-> "NORMAL", live |-> TRUE]

PassCommit(p) ==
  /\ At(p, "commit", "pass")
  /\ apply' = Save(apply, tx[p].i, "AGREE")
  /\ contact' = contact \o <<Normal(tx[p].a, tx[p].b), Normal(tx[p].b, tx[p].a)>>
  /\ Befriended(p)
  /\ UNCHANGED <<status, session>>

\* RefuseContactApply and BlackApply.
AnswerRead(p) ==
  /\ At(p, "read", "refuse") \/ At(p, "read", "blackApply")
  /\ LET s == LiveRows(apply, tx[p].b, tx[p].a)
         ok(i) == IF tx[p].op = "refuse" THEN apply[i].status = "PENDING"
                  ELSE apply[i].status # "BLACK"
     IN \/ (s = {} \/ \E i \in s : ~ok(i)) /\ Refuse(p)
        \/ \E i \in s : ok(i) /\ Reads(p, [tx[p] EXCEPT !.pc = "commit", !.i = i])

AnswerCommit(p) ==
  /\ At(p, "commit", "refuse") \/ At(p, "commit", "blackApply")
  /\ apply' = Save(apply, tx[p].i, IF tx[p].op = "refuse" THEN "REFUSE" ELSE "BLACK")
  /\ Committed(p, << >>)
  /\ UNCHANGED <<status, contact, session>>

-----------------------------------------------------------------------------
(* Contacts                                                                  *)

\* Mutant: the applications of the two stay.
DeleteKeepsApply(p) ==
  /\ At(p, "commit", "delete")
  /\ contact' = Bury(contact, Between(contact, tx[p].a, tx[p].b))
  /\ session' = Bury(session, Between(session, tx[p].a, tx[p].b))
  /\ Committed(p, <<"dropA", "dropB">>)
  /\ UNCHANGED <<status, apply>>

\* Relation, sessions and applications, in both directions.
DeleteContact(p) ==
  /\ At(p, "commit", "delete")
  /\ contact' = Bury(contact, Between(contact, tx[p].a, tx[p].b))
  /\ session' = Bury(session, Between(session, tx[p].a, tx[p].b))
  /\ apply' = Bury(apply, Between(apply, tx[p].a, tx[p].b))
  /\ Committed(p, <<"dropA", "dropB">>)
  /\ UNCHANGED status

\* Mutant: the other direction is forgotten.
BlackenOne(a, b) ==
  [i \in DOMAIN contact |->
     IF i \in LiveRows(contact, a, b) THEN [contact[i] EXCEPT !.status = "BLACK"]
     ELSE contact[i]]
Blacken(a, b) ==
  [i \in DOMAIN contact |->
     IF i \in LiveRows(contact, a, b) THEN [contact[i] EXCEPT !.status = "BLACK"]
     ELSE IF i \in LiveRows(contact, b, a) THEN [contact[i] EXCEPT !.status = "BE_BLACK"]
     ELSE contact[i]]

\* Whatever the state of the relation was; the sessions go.
BlackContact(p) ==
  /\ At(p, "commit", "black")
  /\ contact' = Blacken(tx[p].a, tx[p].b)
  /\ session' = Bury(session, Between(session, tx[p].a, tx[p].b))
  /\ Committed(p, <<"dropA", "dropB">>)
  /\ UNCHANGED <<status, apply>>

\* Mutant: any relation that is blocked, from whichever side.
UnblockableAny(i, j) == contact[i].status # "NORMAL"
Unblockable(i, j) == contact[i].status = "BLACK" /\ contact[j].status = "BE_BLACK"

CancelRead(p) ==
  /\ At(p, "read", "cancel")
  /\ LET s == LiveRows(contact, tx[p].a, tx[p].b)
         t == LiveRows(contact, tx[p].b, tx[p].a)
     IN \/ (s = {} \/ t = {}) /\ Refuse(p)
        \/ \E i \in s, j \in t :
             /\ IsFirst(i, s) /\ IsFirst(j, t)
             /\ IF Unblockable(i, j)
                THEN Reads(p, [tx[p] EXCEPT !.pc = "commit", !.i = i, !.j = j])
                ELSE Refuse(p)

\* Mutant: only the row of the one who blocked is saved.
CancelSavesOne(p) ==
  /\ At(p, "commit", "cancel")
  /\ contact' = Save(contact, tx[p].i, "NORMAL")
  /\ Committed(p, <<"dropA", "dropB">>)
  /\ UNCHANGED <<status, apply, session>>
CancelCommit(p) ==
  /\ At(p, "commit", "cancel")
  /\ contact' = Save(Save(contact, tx[p].i, "NORMAL"), tx[p].j, "NORMAL")
  /\ Committed(p, <<"dropA", "dropB">>)
  /\ UNCHANGED <<status, apply, session>>

\* Whom u has as contacts, blocked ones too.
ContactsOf(u) == {v \in User : LiveRows(contact, u, v) # {}}

\* GetUserList: a hit changes nothing; here and below an error of redis counts
\* as a miss.
GetUserList(p) ==
  /\ At(p, "read", "friends")
  /\ \/ tx[p].a \in DOMAIN friends /\ Refuse(p)
     \/ Reads(p, [tx[p] EXCEPT !.pc = "redis", !.got = ContactsOf(tx[p].a),
                               !.todo = <<"putFriends">>])

-----------------------------------------------------------------------------
(* Sessions                                                                  *)

\* CheckOpenSessionAllowed, two queries: the relation ...
CheckContact(p) ==
  /\ tx[p].pc = "check"
  /\ LET s == LiveRows(contact, tx[p].a, tx[p].b) IN
     \/ s = {} /\ Refuse(p)
     \/ \E i \in s : /\ IsFirst(i, s)
                     /\ IF contact[i].status = "NORMAL"
                        THEN Reads(p, [tx[p] EXCEPT !.pc = "checkUser"])
                        ELSE Refuse(p)

\* ... and the user.  The client opens the session when both are fine.
CheckUser(p) ==
  /\ tx[p].pc = "checkUser"
  /\ IF status[tx[p].b] = "NORMAL" THEN Reads(p, [tx[p] EXCEPT !.pc = "open"])
     ELSE Refuse(p)

\* GetUserSessionList, and the user opens a session it shows, which the client
\* does without a check.
ListHit(p) ==
  /\ tx[p].pc = "list" /\ tx[p].a \in DOMAIN chats
  /\ \E b \in chats[tx[p].a] : Reads(p, [tx[p] EXCEPT !.pc = "open", !.b = b])

ReceiversOf(u) == {v \in User : LiveRows(session, u, v) # {}}

\* An empty list is not cached.
ListMiss(p) ==
  /\ tx[p].pc = "list"
  /\ IF ReceiversOf(tx[p].a) = {} THEN Refuse(p)
     ELSE Reads(p, [tx[p] EXCEPT !.pc = "cacheList", !.got = ReceiversOf(tx[p].a)])

Put(cache, k, v) == [x \in DOMAIN cache \cup {k} |-> IF x = k THEN v ELSE cache[x]]
Drop(cache, ks) == [x \in DOMAIN cache \ ks |-> cache[x]]

CacheList(p) ==
  /\ tx[p].pc = "cacheList"
  /\ chats' = Put(chats, tx[p].a, tx[p].got)
  /\ \E b \in tx[p].got : Becomes(p, [tx[p] EXCEPT !.pc = "open", !.b = b])
  /\ UNCHANGED <<db, friends, opened, calls, clean>>

\* OpenSession: the key ...
OpenSession(p) ==
  /\ tx[p].pc = "open"
  /\ \/ <<tx[p].a, tx[p].b>> \in DOMAIN opened /\ Reads(p, [tx[p] EXCEPT !.pc = "opened"])
     \/ Reads(p, [tx[p] EXCEPT !.pc = "find"])

\* ... then the table, where a failed query finds an empty session ...
FindSession(p) ==
  /\ tx[p].pc = "find"
  /\ LET s == LiveRows(session, tx[p].a, tx[p].b) IN
     \/ s = {} /\ Reads(p, [tx[p] EXCEPT !.pc = "create"])
     \/ \E i \in s \cup (IF "rollback" \in Fault THEN {0} ELSE {}) :
          Reads(p, [tx[p] EXCEPT !.pc = "redis", !.i = i, !.todo = <<"putOpened">>])

\* ... or a new session, CreateSession, if neither user is disabled.
CreateRead(p) ==
  /\ tx[p].pc = "create"
  /\ IF status[tx[p].a] = "NORMAL" /\ status[tx[p].b] = "NORMAL"
     THEN Reads(p, [tx[p] EXCEPT !.pc = "insert"]) ELSE Refuse(p)

CreateSession(p) ==
  /\ tx[p].pc = "insert"
  /\ session' = Append(session, [user |-> tx[p].a, peer |-> tx[p].b, live |-> TRUE])
  /\ Becomes(p, [tx[p] EXCEPT !.pc = "redis", !.i = Len(session) + 1,
                              !.todo = <<"putOpened", "dropChats">>])
  /\ UNCHANGED <<status, contact, apply, redis, calls, clean>>

DeleteSession(p) ==
  /\ At(p, "commit", "deleteSession")
  /\ \E i \in Rows(session, tx[p].a, tx[p].b) :
       IF session[i].live
       THEN /\ session' = Bury(session, {i})
            /\ Committed(p, <<"dropOpened", "dropChats">>)
            /\ UNCHANGED <<status, contact, apply>>
       ELSE Refuse(p)

-----------------------------------------------------------------------------
(* Users: AbleUsers, DisableUsers and DeleteUsers of one                     *)

AbleUsers(p) ==
  /\ At(p, "commit", "able")
  /\ status' = [status EXCEPT ![tx[p].a] = IF @ = "deleted" THEN @ ELSE "NORMAL"]
  /\ Committed(p, <<"dropFriends">>)
  /\ UNCHANGED <<contact, apply, session>>

\* Mutant: the sessions stay.
DisableKeepsSessions(p) ==
  /\ At(p, "commit", "disable")
  /\ status' = [status EXCEPT ![tx[p].a] = IF @ = "deleted" THEN @ ELSE "DISABLE"]
  /\ Committed(p, <<"dropFriends">>)
  /\ UNCHANGED <<contact, apply, session>>
\* The cached sessions stay.
DisableUsers(p) ==
  /\ At(p, "commit", "disable")
  /\ status' = [status EXCEPT ![tx[p].a] = IF @ = "deleted" THEN @ ELSE "DISABLE"]
  /\ session' = Bury(session, Of(session, tx[p].a))
  /\ Committed(p, <<"dropFriends">>)
  /\ UNCHANGED <<contact, apply>>

DeleteUsers(p) ==
  /\ At(p, "commit", "deleteUser")
  /\ status' = [status EXCEPT ![tx[p].a] = "deleted"]
  /\ session' = Bury(session, Of(session, tx[p].a))
  /\ contact' = Bury(contact, Of(contact, tx[p].a))
  /\ apply' = Bury(apply, Of(apply, tx[p].a))
  /\ Committed(p, <<"dropFriends", "dropSessions">>)

\* Register with the telephone of a deleted account brings it back, enabled and under
\* the same uuid, with nothing of what was deleted along with it.  UpdateUserInfo does
\* the same when it had read the account before the deletion, and saves its row as read.
Revive(u) ==
  /\ status[u] = "deleted"
  /\ \/ status' = [status EXCEPT ![u] = "NORMAL"] /\ clean' = OneAtATime
     \/ \E s \in {"NORMAL", "DISABLE"} : status' = [status EXCEPT ![u] = s] /\ clean' = FALSE
  /\ UNCHANGED <<contact, apply, session, redis, tx, calls>>

-----------------------------------------------------------------------------
(* Redis steps, failures, and keys that reach their time to live             *)

\* What a step leaves of the three families of keys.
RedisStep(p) ==
  LET a == tx[p].a
      b == tx[p].b
      step == Head(tx[p].todo)
      keys == {k \in DOMAIN opened : a \in {k[1], k[2]}}
  IN /\ tx[p].pc = "redis" /\ tx[p].todo # << >>
     /\ Becomes(p, [tx[p] EXCEPT !.todo = Tail(@)])
     /\ friends' = CASE step = "putFriends" -> Put(friends, a, tx[p].got)
                     [] step = "dropA" -> Drop(friends, {a})
                     [] step = "dropB" -> Drop(friends, {b})
                     [] step = "dropFriends" -> << >>
                     [] OTHER -> friends
     /\ chats' = CASE step = "dropChats" -> Drop(chats, {a})
                   [] step = "dropSessions" -> << >>
                   [] OTHER -> chats
     /\ opened' = CASE step = "putOpened" -> Put(opened, <<a, b>>, tx[p].i)
                    [] step = "dropOpened" -> Drop(opened, {<<a, b>>})
                    [] step = "dropSessions" -> Drop(opened, keys)
                    [] OTHER -> opened
     /\ UNCHANGED <<db, calls, clean>>

\* The request has been served.
Reply(p) ==
  /\ \/ tx[p].pc = "opened"
     \/ tx[p].pc = "redis" /\ tx[p].todo = << >> /\ tx[p].op \notin {"chat", "resume"}
  /\ Refuse(p)

\* A session has been found or created.
Opened(p) ==
  /\ tx[p].pc = "redis" /\ tx[p].todo = << >> /\ tx[p].op \in {"chat", "resume"}
  /\ Reads(p, [tx[p] EXCEPT !.pc = "opened"])

\* A failed statement, a deadlock, a lock wait that times out.
Rollback(p) ==
  /\ "rollback" \in Fault /\ tx[p].pc \in {"read", "commit", "create", "insert"}
  /\ Refuse(p)

\* The process dies after the commit, or redis fails.
Crash(p) ==
  /\ "crash" \in Fault /\ tx[p].pc = "redis" /\ tx[p].todo # << >>
  /\ Becomes(p, Idle) /\ clean' = FALSE
  /\ UNCHANGED <<db, redis, calls>>

Expire ==
  /\ \/ \E u \in DOMAIN friends : friends' = Drop(friends, {u}) /\ UNCHANGED <<chats, opened>>
     \/ \E u \in DOMAIN chats : chats' = Drop(chats, {u}) /\ UNCHANGED <<friends, opened>>
     \/ \E k \in DOMAIN opened : opened' = Drop(opened, {k}) /\ UNCHANGED <<friends, chats>>
  /\ UNCHANGED <<db, tx, calls, clean>>

Applications(p) ==
  \/ ApplyRead(p) \/ ApplyCommit(p) \/ PassRead(p) \/ PassBlind(p) \/ PassCommit(p)
  \/ AnswerRead(p) \/ AnswerCommit(p)

Relations(p) ==
  \/ DeleteContact(p) \/ BlackContact(p) \/ CancelRead(p) \/ CancelCommit(p)
  \/ GetUserList(p)

Sessions(p) ==
  \/ CheckContact(p) \/ CheckUser(p) \/ ListHit(p) \/ ListMiss(p) \/ CacheList(p)
  \/ OpenSession(p) \/ FindSession(p) \/ CreateRead(p) \/ CreateSession(p)
  \/ DeleteSession(p) \/ Opened(p)

Users(p) == AbleUsers(p) \/ DisableUsers(p) \/ DeleteUsers(p)

Next ==
  \/ \E p \in Proc : \/ Call(p) \/ Applications(p) \/ Relations(p) \/ Sessions(p)
                     \/ Users(p) \/ RedisStep(p) \/ Reply(p) \/ Rollback(p) \/ Crash(p)
  \/ \E u \in User : Revive(u)
  \/ Expire

Spec == Init /\ [][Next]_vars

-----------------------------------------------------------------------------
(* Properties                                                                *)

Steps == {"putFriends", "dropA", "dropB", "dropFriends",
          "putOpened", "dropOpened", "dropChats", "dropSessions"}

TxState == [pc: {"idle", "read", "commit", "check", "checkUser", "list", "cacheList",
                 "open", "find", "create", "insert", "redis", "opened"},
            op: Ops \cup {"none"}, a: User \cup {NoUser}, b: User \cup {NoUser},
            i: Nat, j: Nat, got: SUBSET User, todo: Seq(Steps)]

\* A cached list of sessions shows users.
ChatLists == \A u \in DOMAIN chats : chats[u] \subseteq User

\* The type invariant, of the tables, the requests and the lists they use.
TypeOK ==
  /\ status \in [User -> {"NORMAL", "DISABLE", "deleted"}]
  /\ contact \in Seq(ContactRow)
  /\ apply \in Seq(ApplyRow)
  /\ session \in Seq(SessionRow)
  /\ tx \in [Proc -> TxState]
  /\ ChatLists

\* The row inserted together with row i.
Peer(i) == IF i % 2 = 1 THEN i + 1 ELSE i - 1
OtherSide(s) == IF s = "BLACK" THEN "BE_BLACK" ELSE IF s = "BE_BLACK" THEN "BLACK" ELSE s
Mirror(r) == [user |-> r.peer, peer |-> r.user, live |-> r.live, status |-> OtherSide(r.status)]

\* Every relation exists in both directions or in neither, and is normal on
\* both sides or blocked on one and being blocked on the other: whatever passes,
\* blocks, cancellations and deletions run at once, without any lock.
MirroredContacts ==
  \A i \in DOMAIN contact :
    Peer(i) \in DOMAIN contact /\ contact[Peer(i)] = Mirror(contact[i])

\* An application marked as agreed to is one between contacts.
AgreedAreContacts ==
  \A i \in DOMAIN apply : apply[i].live /\ apply[i].status = "AGREE" =>
    LiveRows(contact, apply[i].peer, apply[i].user) # {}

(* What makes these inductive.                                               *)

\* Who a request is from and about.
WellFormed(t) ==
  /\ t.pc # "idle" => t.a \in User /\ t.op \in Op
  /\ t.op \in {"apply", "pass", "refuse", "blackApply", "delete", "black",
              "cancel", "chat", "deleteSession"} => t.b \in User /\ t.b # t.a
  /\ t.pc \in {"open", "find", "create", "insert"} => t.b \in User
  /\ t.pc \in {"list", "cacheList"} => t.op = "resume"
  /\ t.pc \in {"check", "checkUser"} => t.op = "chat"

\* A request about to commit has read rows of its two users, a cancellation
\* the two rows of one relation.
HoldsRows(t, applies, contacts) ==
  t.pc = "commit" =>
    /\ t.op \in {"pass", "refuse", "blackApply"} => t.i \in Rows(applies, t.b, t.a)
    /\ t.op = "apply" => t.i = 0 \/ t.i \in Rows(applies, t.a, t.b)
    /\ t.op = "cancel" => t.i \in Rows(contacts, t.a, t.b) /\ t.j = Peer(t.i)

\* The inductive invariant: relations are mirrored, and requests save the rows
\* they mean to.
ContactInv ==
  /\ TypeOK /\ MirroredContacts /\ AgreedAreContacts
  /\ \A p \in Proc : WellFormed(tx[p]) /\ HoldsRows(tx[p], apply, contact)

(* The claims that say "one at a time" are about the histories clean allows: none
   overlaps another, none is cut short, and no query for an existing relation fails. *)

\* As long as requests come one at a time, and no relation is overlooked because the
\* query for it failed, two users have one relation, one application in each direction
\* and one session each: First is the only one.  No key of the tables says so.
OncePerPair == clean =>
  \A a, b \in User : \A table \in {contact, apply, session} :
    Cardinality(LiveRows(table, a, b)) <= 1

\* As long as requests come one at a time, a disabled or deleted user has no
\* session, on either side, and none left when his account comes back.
NoSessionOfDisabled == clean =>
  \A i \in DOMAIN session : session[i].live =>
    status[session[i].user] = "NORMAL" /\ status[session[i].peer] = "NORMAL"

\* When requests come one at a time and none is being served, a cached list of
\* contacts shows the contacts there are.
FriendsFresh == clean /\ (\A p \in Proc : tx[p] = Idle) =>
  \A u \in DOMAIN friends : friends[u] = ContactsOf(u)

\* One request at a time, a black-listed application stays one until it is
\* agreed to or deleted: applying again does not help.
BlackApplyHolds == [][clean' =>
  \A i \in DOMAIN apply : apply[i].live /\ apply[i].status = "BLACK" =>
    ~apply'[i].live \/ apply'[i].status \in {"BLACK", "AGREE"}]_vars

\* One request at a time, a block lasts as long as the relation, until the one who
\* blocks cancels it or is blocked in his turn: who is only blocked cannot lift it.
BlockHolds == [][clean' =>
  \A i \in DOMAIN contact : contact[i].live /\ contact[i].status = "BLACK" =>
    \/ ~contact'[i].live
    \/ "BLACK" \in {contact'[i].status, contact'[Peer(i)].status}
    \/ \E p \in Proc : tx[p].op = "cancel" /\ tx[p].a = contact[i].user
                                         /\ tx[p].b = contact[i].peer]_vars

(* What makes these inductive.                                               *)

AtMostOne(s) == \A i, j \in s : i = j
\* The redis steps a request has left, and whose list of contacts they drop.
StepsLeft(t) == {t.todo[k] : k \in DOMAIN t.todo}
Drops(t, u) == \/ "dropA" \in StepsLeft(t) /\ u = t.a
               \/ "dropB" \in StepsLeft(t) /\ u = t.b
               \/ "dropFriends" \in StepsLeft(t)

\* What a request that runs alone has read is still so.
UpToDate(t) ==
  /\ t.pc \in {"read", "commit"} => status[t.a] # "deleted"
  /\ t.pc = "commit" =>
       /\ t.op \in {"apply", "pass"} => status[t.b] = "NORMAL"
       /\ t.op = "apply" =>
            IF t.i = 0 THEN LiveRows(apply, t.a, t.b) = {}
            ELSE t.i \in LiveRows(apply, t.a, t.b) /\ apply[t.i].status # "BLACK"
       /\ t.op \in {"pass", "refuse", "blackApply"} => t.i \in LiveRows(apply, t.b, t.a)
       /\ t.op = "pass" => LiveRows(contact, t.a, t.b) = {}
       /\ t.op = "refuse" => apply[t.i].status = "PENDING"
       /\ t.op = "cancel" => contact[t.i].live /\ contact[t.j].live /\ contact[t.i].status = "BLACK"
  /\ t.pc \in {"create", "insert"} => LiveRows(session, t.a, t.b) = {}
  /\ t.pc = "insert" => status[t.a] = "NORMAL" /\ status[t.b] = "NORMAL"
  /\ "putFriends" \in StepsLeft(t) => t.got = ContactsOf(t.a)

\* Requests come one at a time, each finds what it has read unchanged, and a
\* cached list of contacts is true or about to be dropped.
SerialInv == clean =>
  /\ \A p, q \in Proc : tx[p].pc # "idle" /\ tx[q].pc # "idle" => p = q
  /\ \A p \in Proc : UpToDate(tx[p]) /\ (tx[p].todo # << >> => tx[p].pc = "redis")
  /\ \A a, b \in User : /\ AtMostOne(LiveRows(contact, a, b))
                        /\ AtMostOne(LiveRows(apply, a, b))
                        /\ AtMostOne(LiveRows(session, a, b))
  /\ NoSessionOfDisabled
  /\ \A u \in DOMAIN friends :
       friends[u] = ContactsOf(u) \/ \E p \in Proc : Drops(tx[p], u)

\* "If he is blocked, a popup says so and no session opens": no session is
\* opened between two users one of whom blocks the other, not even when
\* requests come one at a time.
BlockedCannotOpen == [][\A p \in Proc :
  clean' /\ tx[p].pc # "opened" /\ tx'[p].pc = "opened" =>
    \A i \in LiveRows(contact, tx[p].a, tx[p].b) : contact[i].status = "NORMAL"]_vars

=============================================================================
