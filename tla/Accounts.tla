------------------------------ MODULE Accounts ------------------------------
(***************************************************************************)
(* Accounts of users, user_info_service.go, and the two redis keys that    *)
(* show them: user_info_ (what the user and the administrator see, status  *)
(* included) and contact_info_ (the card other users see), which           *)
(* GetContactInfo of user_contact_service.go fills too.                    *)
(*                                                                         *)
(* The telephone is unique over all rows, deleted ones included, and a     *)
(* registration revives the deleted row of its telephone: a user has one   *)
(* row for good, and is identified with it.  No request locks a row that   *)
(* it read; UpdateUserInfo and a revival save the row as they read it.     *)
(***************************************************************************)
EXTENDS Naturals, Sequences

CONSTANTS User, Proc,  \* telephones, requests served at the same time
          Name,        \* what a profile may say
          MaxCalls,    \* bound: requests ever made
          NoUser

ASSUME AccountsAssumption == NoUser \notin User /\ Name # {} /\ MaxCalls \in Nat

VARIABLES row,    \* table user_info, by telephone
          info,   \* redis user_info_
          card,   \* redis contact_info_
          tx,     \* the requests being served
          calls,  \* requests made so far
          raced   \* users whose row changed while another request held what it
                  \* had read of it, or a write to whose keys was lost

vars == <<row, info, card, tx, calls, raced>>

Reads == {"login", "get", "contactInfo"}
Decisions == {"able", "disable", "setAdmin", "delete"}
Ops == Reads \cup {"register", "update"} \cup Decisions

\* by is the call that set the password.
Row == [state: {"none", "live", "dead"}, status: {"NORMAL", "DISABLE"},
        admin: BOOLEAN, name: Name, by: Nat]

\* What user_info_ shows of a row.
View(r) == [status |-> r.status, admin |-> r.admin, name |-> r.name]

NoRow == [state |-> "none", status |-> "NORMAL", admin |-> FALSE,
          name |-> CHOOSE n \in Name : TRUE, by |-> 0]

Request(pc, op, u, name, id) ==
  [pc |-> pc, op |-> op, u |-> u, name |-> name, id |-> id,
   row |-> NoRow,     \* the row read, then the row written
   todo |-> << >>]    \* redis steps still to be done
Idle == Request("idle", "none", NoUser, NoRow.name, 0)

Init ==
  /\ row = [u \in User |-> NoRow]
  /\ info = << >> /\ card = << >>
  /\ tx = [p \in Proc |-> Idle]
  /\ calls = 0 /\ raced = {}

-----------------------------------------------------------------------------

\* Whoever has the web client open may have been deleted meanwhile.
Call(p) ==
  /\ tx[p].pc = "idle" /\ calls < MaxCalls
  /\ \E op \in Ops, u \in User, name \in Name :
       /\ op # "register" => row[u].state # "none"
       /\ op \in {"register", "update"} \/ name = NoRow.name
       /\ tx' = [tx EXCEPT ![p] =
            Request(CASE op \in {"get", "contactInfo"} -> "lookup"
                      [] op \in {"login", "register", "update"} -> "read"
                      [] OTHER -> "decide", op, u, name, calls + 1)]
  /\ calls' = calls + 1
  /\ UNCHANGED <<row, info, card, raced>>

\* An early return, after the rollback if there is a transaction.
Refuse(p) ==
  /\ tx' = [tx EXCEPT ![p] = Idle]
  /\ UNCHANGED <<row, info, card, calls, raced>>

\* p goes on with the row r, which it has read, and these redis steps.
GoOn(p, pc, r, steps) ==
  /\ tx' = [tx EXCEPT ![p] = [@ EXCEPT !.pc = pc, !.row = r, !.todo = steps]]
  /\ UNCHANGED <<row, info, card, calls, raced>>

\* The key is looked up first; an error of redis counts as a miss.
Lookup(p) ==
  /\ tx[p].pc = "lookup"
  /\ \/ tx[p].u \in DOMAIN (IF tx[p].op = "get" THEN info ELSE card) /\ Refuse(p)
     \/ GoOn(p, "read", NoRow, << >>)

At(p, pc, op) == tx[p].pc = pc /\ tx[p].op = op
\* Mutant: the query is Unscoped.
FoundUnscoped(p) == row[tx[p].u].state # "none"
Found(p) == row[tx[p].u].state = "live"

\* Login does not look at the status.
Login(p) ==
  /\ At(p, "read", "login")
  /\ IF Found(p) THEN GoOn(p, "redis", row[tx[p].u], <<"putInfo", "putCard">>)
     ELSE Refuse(p)

\* The card of a disabled user is dropped.
ShowRow(r) == <<"putInfo", IF r.status = "NORMAL" THEN "putCard" ELSE "dropCard">>

GetUserInfo(p) ==
  /\ At(p, "read", "get")
  /\ IF Found(p) THEN GoOn(p, "redis", row[tx[p].u], ShowRow(row[tx[p].u]))
     ELSE Refuse(p)

GetContactInfo(p) ==
  /\ At(p, "read", "contactInfo")
  /\ IF Found(p) THEN GoOn(p, "redis", row[tx[p].u],
          IF row[tx[p].u].status = "DISABLE" THEN <<"putInfo">> ELSE <<"putInfo", "putCard">>)
     ELSE Refuse(p)

-----------------------------------------------------------------------------
(* Writes                                                                    *)

\* Someone else's request about u has read the row of u.
Held(p, u) == \E q \in Proc \ {p} : tx[q].u = u /\ tx[q].pc \in {"commit", "redis"}

\* The commit: the row of the request's user becomes r.
Commit(p, r, steps) ==
  /\ row' = [row EXCEPT ![tx[p].u] = r]
  /\ tx' = [tx EXCEPT ![p] = [@ EXCEPT !.pc = "redis", !.row = r, !.todo = steps]]
  /\ raced' = IF Held(p, tx[p].u) /\ r # row[tx[p].u] THEN raced \cup {tx[p].u} ELSE raced
  /\ UNCHANGED <<info, card, calls>>

RegisterRead(p) ==
  /\ At(p, "read", "register")
  /\ IF Found(p) THEN Refuse(p) ELSE GoOn(p, "commit", row[tx[p].u], << >>)

\* Mutant: a row inserted meanwhile is no obstacle.
MayInsertAnyway(p) == tx[p].row.state = "none"
\* The telephone of a new row is still nobody's: the unique index.
MayInsert(p) == tx[p].row.state = "none" /\ row[tx[p].u].state = "none"

\* A new row, or the deleted one as it was read with what registering sets: an
\* administrator is one again.
Register(p) ==
  /\ At(p, "commit", "register")
  /\ LET new == [tx[p].row EXCEPT !.state = "live", !.status = "NORMAL",
                                  !.name = tx[p].name, !.by = tx[p].id]
     IN IF MayInsert(p) \/ tx[p].row.state = "dead"
        THEN Commit(p, new, <<"putInfo", "putCard">>)
        ELSE Refuse(p)

UpdateRead(p) ==
  /\ At(p, "read", "update")
  /\ IF Found(p) THEN GoOn(p, "commit", row[tx[p].u], << >>) ELSE Refuse(p)

\* Mutant: the status is not part of what was read.
SavedRowEnabled(p) == [tx[p].row EXCEPT !.name = tx[p].name, !.status = "NORMAL"]
\* tx.Save writes every column as it was read; a row deleted meanwhile is back.
SavedRow(p) == [tx[p].row EXCEPT !.name = tx[p].name]

\* Mutant: the card is left to time out.
UpdateKeepsCard(p) ==
  /\ At(p, "commit", "update")
  /\ Commit(p, SavedRow(p), <<"putInfo">>)
UpdateUserInfo(p) ==
  /\ At(p, "commit", "update")
  /\ Commit(p, SavedRow(p), ShowRow(SavedRow(p)))

\* Mutant: the administrator's list does not change, so nothing is dropped.
KeysKept(op) == IF op \in {"disable", "delete"} THEN <<"dropInfo", "dropCard">> ELSE << >>
\* Enabling relies on the card not being cached.
KeysDropped(op) ==
  IF op \in {"disable", "delete"} THEN <<"dropInfo", "dropCard">> ELSE <<"dropInfo">>

\* AbleUsers, DisableUsers, SetAdmin, DeleteUsers: one statement each about
\* user_info, which skips deleted rows.
Decide(p) ==
  /\ tx[p].pc = "decide"
  /\ LET r == row[tx[p].u] IN
     \E on \in IF tx[p].op = "setAdmin" THEN BOOLEAN ELSE {r.admin} :
       Commit(p, IF r.state # "live" THEN r
                 ELSE CASE tx[p].op = "able" -> [r EXCEPT !.status = "NORMAL"]
                        [] tx[p].op = "disable" -> [r EXCEPT !.status = "DISABLE"]
                        [] tx[p].op = "setAdmin" -> [r EXCEPT !.admin = on]
                        [] tx[p].op = "delete" -> [r EXCEPT !.state = "dead"],
              KeysDropped(tx[p].op))

-----------------------------------------------------------------------------
(* Redis steps, failures, keys that reach their time to live                 *)

Put(cache, k, v) == [x \in DOMAIN cache \cup {k} |-> IF x = k THEN v ELSE cache[x]]
Drop(cache, k) == [x \in DOMAIN cache \ {k} |-> cache[x]]

RedisStep(p) ==
  LET u == tx[p].u
      step == Head(tx[p].todo)
  IN /\ tx[p].pc = "redis" /\ tx[p].todo # << >>
     /\ tx' = [tx EXCEPT ![p].todo = Tail(@)]
     /\ info' = CASE step = "putInfo" -> Put(info, u, View(tx[p].row))
                  [] step = "dropInfo" -> Drop(info, u)
                  [] OTHER -> info
     /\ card' = CASE step = "putCard" -> Put(card, u, tx[p].row.name)
                  [] step = "dropCard" -> Drop(card, u)
                  [] OTHER -> card
     /\ UNCHANGED <<row, calls, raced>>

\* A write to redis by p is lost: a reader would have written what was read.
Lost(p) == raced' = IF tx[p].op \in Reads THEN raced ELSE raced \cup {tx[p].u}

\* An error of redis is logged; Login returns.
RedisFails(p) ==
  /\ tx[p].pc = "redis" /\ tx[p].todo # << >>
  /\ tx' = [tx EXCEPT ![p].todo = IF tx[p].op = "login" THEN << >> ELSE Tail(@)]
  /\ Lost(p)
  /\ UNCHANGED <<row, info, card, calls>>

Reply(p) == tx[p].pc = "redis" /\ tx[p].todo = << >> /\ Refuse(p)

\* A failed statement or commit; a wrong password.
Rollback(p) == tx[p].pc \in {"read", "commit", "decide"} /\ Refuse(p)

\* The process dies between the commit and a redis step.
Crash(p) ==
  /\ tx[p].pc = "redis" /\ tx[p].todo # << >>
  /\ tx' = [tx EXCEPT ![p] = Idle]
  /\ Lost(p)
  /\ UNCHANGED <<row, info, card, calls>>

Expire ==
  /\ \/ \E u \in DOMAIN info : info' = Drop(info, u) /\ UNCHANGED card
     \/ \E u \in DOMAIN card : card' = Drop(card, u) /\ UNCHANGED info
  /\ UNCHANGED <<row, tx, calls, raced>>

Step(p) ==
  \/ Call(p) \/ Lookup(p) \/ Login(p) \/ GetUserInfo(p) \/ GetContactInfo(p)
  \/ RegisterRead(p) \/ Register(p) \/ UpdateRead(p) \/ UpdateUserInfo(p) \/ Decide(p)
  \/ RedisStep(p) \/ RedisFails(p) \/ Reply(p) \/ Rollback(p) \/ Crash(p)

Next == (\E p \in Proc : Step(p)) \/ Expire

Spec == Init /\ [][Next]_vars

-----------------------------------------------------------------------------
(* Properties                                                                *)

Steps == {"putInfo", "putCard", "dropInfo", "dropCard"}

TxState == [pc: {"idle", "lookup", "read", "commit", "decide", "redis"},
            op: Ops \cup {"none"}, u: User \cup {NoUser}, name: Name, id: Nat,
            row: Row, todo: Seq(Steps)]

TypeOK ==
  /\ row \in [User -> Row]
  /\ DOMAIN info \subseteq User /\ DOMAIN card \subseteq User
  /\ tx \in [Proc -> TxState]
  /\ calls \in Nat
  /\ raced \subseteq User

\* A writer of the row of u has yet to write or drop the key.
Pending(u, steps) ==
  \E p \in Proc : /\ tx[p].u = u /\ tx[p].op \notin Reads
                 /\ \E i \in DOMAIN tx[p].todo : tx[p].todo[i] \in steps

\* Unless writers of a user overlapped or a write to redis was lost, user_info_
\* shows the row, and nobody who was deleted, as soon as no writer is about to
\* change the key: readers may come, and fail, at any time.
InfoFresh ==
  \A u \in DOMAIN info \ raced : ~Pending(u, {"putInfo", "dropInfo"}) =>
    row[u].state = "live" /\ info[u] = View(row[u])

\* The same for the card, which enabling and setting the rights may leave.
CardFresh ==
  \A u \in DOMAIN card \ raced : ~Pending(u, {"putCard", "dropCard"}) =>
    row[u].state = "live" /\ card[u] = row[u].name

\* Without a race, requests hold the row as it is.
HoldsCurrent ==
  \A p \in Proc : tx[p].pc \in {"commit", "redis"} /\ tx[p].u \notin raced =>
    tx[p].row = row[tx[p].u]

\* A request being served is about a user; what it has found before a commit.
HoldsFound ==
  \A p \in Proc : tx[p].pc # "idle" =>
    /\ tx[p].u \in User
    /\ tx[p].pc = "decide" <=> tx[p].op \in Decisions /\ tx[p].pc # "redis"
    /\ tx[p].pc = "commit" => \/ tx[p].op = "update" /\ tx[p].row.state = "live"
                              \/ tx[p].op = "register" /\ tx[p].row.state # "live"

\* Only what follows a read or a commit goes to redis, only a live row, and the
\* card of a disabled user only at a login.
ShowsLive ==
  \A p \in Proc : tx[p].todo # << >> =>
    /\ tx[p].pc = "redis"
    /\ \A i \in DOMAIN tx[p].todo :
         /\ tx[p].todo[i] \in {"putInfo", "putCard"} => tx[p].row.state = "live"
         /\ tx[p].todo[i] = "putCard" =>
              tx[p].op = "login" \/ tx[p].row.status = "NORMAL"

\* The inductive invariant.
AccountInv ==
  TypeOK /\ InfoFresh /\ CardFresh /\ HoldsCurrent /\ HoldsFound /\ ShowsLive

\* Only the administrator changes the status and the rights of a user, and only
\* a registration brings back one who was deleted, unless a request writes a
\* row it read before the last change.
DecisionsHold == [][\A u \in User :
  \/ row'[u].state # "live"
  \/ row[u].state = "live" /\ row'[u].status = row[u].status /\ row'[u].admin = row[u].admin
  \/ \E p \in Proc : /\ tx[p].u = u /\ tx'[p] # tx[p]
                     /\ \/ tx[p].op \in Decisions
                        \/ tx[p].op = "register" /\ row[u].state # "live"
                        \/ tx[p].pc = "commit" /\ tx[p].row # row[u]]_vars

\* One of several registrations of a telephone wins, and the others fail, unless
\* they revive a deleted account: then the last one overwrites the password.
OneRegistration == [][\A u \in User :
  row[u].state = "live" /\ row'[u].by # row[u].by =>
    \E p \in Proc : tx[p].u = u /\ tx[p].op \in {"register", "update"}
                    /\ tx[p].row.state # "none" /\ tx[p].row # row[u]]_vars

=============================================================================
