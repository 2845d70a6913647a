---------------------------- MODULE AccountProofs ----------------------------
(***************************************************************************)
(* Proofs about Accounts, for any number of users and of requests served   *)
(* at the same time: what redis shows of a user whose writers did not      *)
(* overlap, who may undo a decision of the administrator, and who wins a   *)
(* registration.                                                           *)
(*                                                                         *)
(* A key is fresh, or a writer has yet to write or drop it.  What is       *)
(* written is fresh because, without a race, every request holds the row   *)
(* as it is (HoldsCurrent): the commit that would change that marks the    *)
(* user as raced.                                                          *)
(***************************************************************************)
EXTENDS Accounts, TLAPS

\* What the invariant asks of one request.
Fine(t, r, bad) ==
  /\ t.pc \in {"commit", "redis"} /\ t.u \notin bad => t.row = r[t.u]
  /\ t.pc # "idle" =>
       /\ t.u \in User
       /\ t.pc = "decide" <=> t.op \in Decisions /\ t.pc # "redis"
       /\ t.pc = "commit" => \/ t.op = "update" /\ t.row.state = "live"
                             \/ t.op = "register" /\ t.row.state # "live"
  /\ t.todo # << >> =>
       /\ t.pc = "redis"
       /\ \A i \in DOMAIN t.todo :
            /\ t.todo[i] \in {"putInfo", "putCard"} => t.row.state = "live"
            /\ t.todo[i] = "putCard" => t.op = "login" \/ t.row.status = "NORMAL"

LEMMA AllFine ==
  (\A p \in Proc : Fine(tx[p], row, raced)) <=> HoldsCurrent /\ HoldsFound /\ ShowsLive
  BY DEF Fine, HoldsCurrent, HoldsFound, ShowsLive

LEMMA AllFineNext ==
  (\A p \in Proc : Fine(tx'[p], row', raced')) => HoldsCurrent' /\ HoldsFound' /\ ShowsLive'
  BY DEF Fine, HoldsCurrent, HoldsFound, ShowsLive

\* The default row and an idle request.
LEMMA Defaults ==
  ASSUME AccountsAssumption
  PROVE  /\ NoRow \in Row /\ Idle \in TxState /\ << >> \in Seq(Steps)
         /\ \A r, bad : Fine(Idle, r, bad)
  <1>1. NoRow.name \in Name
    <2>1. (CHOOSE n \in Name : TRUE) \in Name
      BY DEF AccountsAssumption
    <2> QED
      BY <2>1 DEF NoRow
  <1>2. NoRow \in Row
    BY <1>1 DEF NoRow, Row
  <1>3. << >> \in Seq(Steps)
    OBVIOUS
  <1>4. /\ Idle = [pc |-> "idle", op |-> "none", u |-> NoUser, name |-> NoRow.name, id |-> 0,
                   row |-> NoRow, todo |-> << >>]
    BY DEF Idle, Request
  <1>5. Idle \in TxState
    BY <1>1, <1>2, <1>3, <1>4 DEF TxState
  <1>6. \A r, bad : Fine(Idle, r, bad)
    BY <1>4 DEF Fine
  <1> QED
    BY <1>2, <1>3, <1>5, <1>6

\* A request of p that becomes t and writes neither the table nor redis: it had
\* nothing to write, or only what it read, or its user counts as raced now.
LEMMA MoveKeeps ==
  ASSUME AccountInv, NEW p \in Proc, NEW t \in TxState, tx' = [tx EXCEPT ![p] = t],
         UNCHANGED <<row, info, card>>, calls' \in Nat,
         raced' \subseteq User, raced \subseteq raced',
         tx[p].todo = << >> \/ tx[p].op \in Reads \/ tx[p].u \in raced',
         Fine(t, row, raced')
  PROVE  AccountInv'
  <1>1. tx \in [Proc -> TxState] /\ row' = row /\ info' = info /\ card' = card
    BY DEF AccountInv, TypeOK
  <1>2. tx' \in [Proc -> TxState] /\ \A q \in Proc : tx'[q] = IF q = p THEN t ELSE tx[q]
    BY <1>1
  <1>3. TypeOK'
    BY <1>1, <1>2 DEF AccountInv, TypeOK
  <1>4. ASSUME NEW u \in User \ raced', NEW S, Pending(u, S) PROVE Pending(u, S)'
    <2>1. PICK q \in Proc : /\ tx[q].u = u /\ tx[q].op \notin Reads
                            /\ \E i \in DOMAIN tx[q].todo : tx[q].todo[i] \in S
      BY <1>4 DEF Pending
    <2>2. q # p
      BY <2>1
    <2> QED
      BY <1>2, <2>1, <2>2 DEF Pending
  <1>5. InfoFresh' /\ CardFresh'
    BY <1>1, <1>3, <1>4 DEF AccountInv, InfoFresh, CardFresh, TypeOK
  <1>6. ASSUME NEW q \in Proc PROVE Fine(tx'[q], row', raced')
    <2>1. Fine(tx[q], row, raced)
      BY AllFine DEF AccountInv
    <2>2. Fine(tx[q], row, raced')
      BY <2>1 DEF Fine
    <2> QED
      BY <1>1, <1>2, <2>2
  <1> QED
    BY <1>3, <1>5, <1>6, AllFineNext DEF AccountInv

-----------------------------------------------------------------------------

\* The commit of p makes the row of its user r, and redis is written after it.
LEMMA CommitKeeps ==
  ASSUME AccountInv, NEW p \in Proc, NEW r \in Row, NEW steps \in Seq(Steps),
         Commit(p, r, steps), tx[p].op \notin Reads, tx[p].pc \in {"commit", "decide"},
         \A i \in DOMAIN steps : /\ steps[i] \in {"putInfo", "putCard"} => r.state = "live"
                                 /\ steps[i] = "putCard" => r.status = "NORMAL",
         \E i \in DOMAIN steps : steps[i] \in {"putInfo", "dropInfo"},
         \/ \E i \in DOMAIN steps : steps[i] \in {"putCard", "dropCard"}
         \/ r.state = row[tx[p].u].state /\ r.name = row[tx[p].u].name
  PROVE  AccountInv'
  <1> DEFINE me == tx[p].u
             t == [tx[p] EXCEPT !.pc = "redis", !.row = r, !.todo = steps]
  <1>1. TypeOK /\ tx \in [Proc -> TxState] /\ row \in [User -> Row] /\ tx[p] \in TxState
    BY DEF AccountInv, TypeOK
  <1>2. /\ row' = [row EXCEPT ![me] = r] /\ tx' = [tx EXCEPT ![p] = t]
        /\ info' = info /\ card' = card /\ calls' = calls
        /\ raced' = IF Held(p, me) /\ r # row[me] THEN raced \cup {me} ELSE raced
    BY DEF Commit
  <1>3. me \in User /\ tx[p].todo = << >>
    BY <1>1 DEF AccountInv, HoldsFound, ShowsLive
  <1>4. /\ t \in TxState /\ t.pc = "redis" /\ t.row = r /\ t.todo = steps
        /\ t.u = me /\ t.op = tx[p].op
    BY <1>1 DEF TxState
  <1> HIDE DEF t
  <1>5. /\ \A q \in Proc : tx'[q] = IF q = p THEN t ELSE tx[q]
        /\ tx' \in [Proc -> TxState]
    BY <1>1, <1>2, <1>4
  <1>6. /\ \A u \in User : row'[u] = IF u = me THEN r ELSE row[u]
        /\ row' \in [User -> Row]
    BY <1>1, <1>2
  <1>7. raced \subseteq raced' /\ raced' \subseteq User
    BY <1>1, <1>2, <1>3 DEF TypeOK
  <1>8. TypeOK'
    BY <1>1, <1>2, <1>5, <1>6, <1>7 DEF TypeOK
  <1>9. ASSUME NEW u, NEW S, Pending(u, S) PROVE Pending(u, S)'
    <2>1. PICK q \in Proc : /\ tx[q].u = u /\ tx[q].op \notin Reads
                            /\ \E i \in DOMAIN tx[q].todo : tx[q].todo[i] \in S
      BY <1>9 DEF Pending
    <2>2. q # p
      BY <1>3, <2>1
    <2> QED
      BY <1>5, <2>1, <2>2 DEF Pending
  <1>10. ASSUME NEW u, u = me, NEW S, \E i \in DOMAIN steps : steps[i] \in S
         PROVE  Pending(u, S)'
    <2>1. /\ tx'[p].u = u /\ tx'[p].op \notin Reads
          /\ \E i \in DOMAIN tx'[p].todo : tx'[p].todo[i] \in S
      BY <1>4, <1>5, <1>10
    <2> QED
      BY <2>1 DEF Pending
  <1>11. InfoFresh'
    <2> SUFFICES ASSUME NEW u \in DOMAIN info \ raced', ~Pending(u, {"putInfo", "dropInfo"})'
                 PROVE  row'[u].state = "live" /\ info[u] = View(row'[u])
      BY <1>2 DEF InfoFresh, View
    <2>1. u \in User /\ u \notin raced
      BY <1>1, <1>7 DEF TypeOK
    <2>2. u # me
      BY <1>10
    <2>3. ~Pending(u, {"putInfo", "dropInfo"})
      BY <1>9
    <2> QED
      BY <1>6, <2>1, <2>2, <2>3 DEF AccountInv, InfoFresh
  <1>12. CardFresh'
    <2> SUFFICES ASSUME NEW u \in DOMAIN card \ raced', ~Pending(u, {"putCard", "dropCard"})'
                 PROVE  row'[u].state = "live" /\ card[u] = row'[u].name
      BY <1>2 DEF CardFresh
    <2>1. u \in User /\ u \notin raced
      BY <1>1, <1>7 DEF TypeOK
    <2>2. u # me \/ (r.state = row[me].state /\ r.name = row[me].name)
      <3>1. u = me => ~\E i \in DOMAIN steps : steps[i] \in {"putCard", "dropCard"}
        BY <1>10
      <3> QED
        BY <3>1
    <2>3. ~Pending(u, {"putCard", "dropCard"})
      BY <1>9
    <2>4. row[u].state = "live" /\ card[u] = row[u].name
      BY <2>1, <2>3 DEF AccountInv, CardFresh
    <2> QED
      BY <1>6, <2>1, <2>2, <2>4
  <1>13. ASSUME NEW q \in Proc PROVE Fine(tx'[q], row', raced')
    <2>1. CASE q = p
      BY <1>3, <1>4, <1>5, <1>6, <2>1 DEF Fine
    <2>2. CASE q # p
      <3>1. Fine(tx[q], row, raced) /\ tx'[q] = tx[q] /\ tx[q] \in TxState
        BY <1>1, <1>5, <2>2, AllFine DEF AccountInv
      <3>2. ASSUME tx[q].pc \in {"commit", "redis"}, tx[q].u \notin raced'
            PROVE  tx[q].row = row'[tx[q].u]
        <4>1. tx[q].row = row[tx[q].u] /\ tx[q].u \in User
          BY <1>7, <3>1, <3>2 DEF Fine
        <4>2. CASE tx[q].u = me
          <5>1. Held(p, me)
            BY <2>2, <3>2, <4>2 DEF Held
          <5>2. r = row[me]
            BY <1>2, <3>2, <4>2, <5>1
          <5> QED
            BY <1>6, <4>1, <4>2, <5>2
        <4>3. CASE tx[q].u # me
          BY <1>6, <4>1, <4>3
        <4> QED
          BY <4>2, <4>3
      <3> QED
        BY <3>1, <3>2 DEF Fine
    <2> QED
      BY <2>1, <2>2
  <1> QED
    BY <1>8, <1>11, <1>12, <1>13, AllFineNext DEF AccountInv

\* A redis step of p: what it writes is the row of a live user, if no other
\* writer has changed it since p read it.
LEMMA RedisStepKeeps ==
  ASSUME AccountInv, NEW p \in Proc, RedisStep(p)
  PROVE  AccountInv'
  <1> DEFINE me == tx[p].u
             todo == tx[p].todo
             t == [tx[p] EXCEPT !.todo = Tail(todo)]
  <1>1. TypeOK /\ tx \in [Proc -> TxState] /\ row \in [User -> Row] /\ tx[p] \in TxState
    BY DEF AccountInv, TypeOK
  <1>2. /\ row' = row /\ tx' = [tx EXCEPT ![p] = t] /\ calls' = calls /\ raced' = raced
        /\ tx[p].pc = "redis" /\ todo # << >>
        /\ info' = CASE Head(todo) = "putInfo" -> Put(info, me, View(tx[p].row))
                     [] Head(todo) = "dropInfo" -> Drop(info, me)
                     [] OTHER -> info
        /\ card' = CASE Head(todo) = "putCard" -> Put(card, me, tx[p].row.name)
                     [] Head(todo) = "dropCard" -> Drop(card, me)
                     [] OTHER -> card
    BY <1>1 DEF RedisStep
  <1>3. todo \in Seq(Steps)
    BY <1>1 DEF TxState
  <1>4. /\ Tail(todo) \in Seq(Steps) /\ 1 \in DOMAIN todo /\ Head(todo) = todo[1]
        /\ \A i \in DOMAIN Tail(todo) : i + 1 \in DOMAIN todo /\ Tail(todo)[i] = todo[i + 1]
        /\ \A i \in DOMAIN todo : i = 1 \/ (i - 1 \in DOMAIN Tail(todo) /\ Tail(todo)[i - 1] = todo[i])
    <2> DEFINE s == todo
    <2> HIDE DEF s
    <2>1. s \in Seq(Steps) /\ s # << >>
      BY <1>2, <1>3 DEF s
    <2>2. /\ Tail(s) \in Seq(Steps) /\ DOMAIN s = 1 .. Len(s) /\ Len(s) \in Nat \ {0}
          /\ Head(s) = s[1] /\ Len(Tail(s)) = Len(s) - 1
          /\ \A i \in 1 .. Len(s) - 1 : Tail(s)[i] = s[i + 1]
      BY <2>1
    <2>3. DOMAIN Tail(s) = 1 .. Len(s) - 1
      BY <2>2
    <2>4. \A i \in DOMAIN s : i = 1 \/ (i - 1 \in 1 .. Len(s) - 1 /\ (i - 1) + 1 = i)
      BY <2>2
    <2>5. 1 \in DOMAIN s /\ \A i \in 1 .. Len(s) - 1 : i + 1 \in DOMAIN s
      BY <2>2
    <2>6. \A i \in DOMAIN s : i = 1 \/ (i - 1 \in DOMAIN Tail(s) /\ Tail(s)[i - 1] = s[i])
      BY <2>2, <2>3, <2>4
    <2> QED
      BY <2>2, <2>3, <2>5, <2>6 DEF s
  <1>5. me \in User /\ (me \notin raced => tx[p].row = row[me])
    BY <1>2 DEF AccountInv, HoldsFound, HoldsCurrent
  <1>6. Head(todo) \in {"putInfo", "putCard"} => tx[p].row.state = "live"
    BY <1>2, <1>4 DEF AccountInv, ShowsLive
  <1>7. /\ t \in TxState /\ t.pc = tx[p].pc /\ t.row = tx[p].row /\ t.todo = Tail(todo)
        /\ t.u = me /\ t.op = tx[p].op
    BY <1>1, <1>4 DEF TxState
  <1> HIDE DEF t
  <1>8. /\ \A q \in Proc : tx'[q] = IF q = p THEN t ELSE tx[q]
        /\ tx' \in [Proc -> TxState]
    BY <1>1, <1>2, <1>7
  <1>9. /\ DOMAIN info' \subseteq User /\ DOMAIN card' \subseteq User
        /\ \A u \in DOMAIN info' : u # me => u \in DOMAIN info /\ info'[u] = info[u]
        /\ \A u \in DOMAIN card' : u # me => u \in DOMAIN card /\ card'[u] = card[u]
    BY <1>1, <1>2, <1>5 DEF TypeOK, Put, Drop
  <1>10. TypeOK'
    BY <1>1, <1>2, <1>8, <1>9 DEF TypeOK
  \* Only the step that was taken is pending no more.
  <1>11. ASSUME NEW u, NEW S, Pending(u, S), u # me \/ Head(todo) \notin S
         PROVE  Pending(u, S)'
    <2>1. PICK q \in Proc : /\ tx[q].u = u /\ tx[q].op \notin Reads
                            /\ \E i \in DOMAIN tx[q].todo : tx[q].todo[i] \in S
      BY <1>11 DEF Pending
    <2>2. CASE q # p
      BY <1>8, <2>1, <2>2 DEF Pending
    <2>3. CASE q = p
      <3>1. PICK i \in DOMAIN todo : todo[i] \in S
        BY <2>1, <2>3
      <3>2. i - 1 \in DOMAIN Tail(todo) /\ Tail(todo)[i - 1] \in S
        BY <1>4, <1>11, <2>1, <2>3, <3>1
      <3>3. /\ tx'[p].u = u /\ tx'[p].op \notin Reads
            /\ \E j \in DOMAIN tx'[p].todo : tx'[p].todo[j] \in S
        BY <1>7, <1>8, <2>1, <2>3, <3>2
      <3> QED
        BY <3>3 DEF Pending
    <2> QED
      BY <2>2, <2>3
  <1>12. InfoFresh'
    <2> SUFFICES ASSUME NEW u \in DOMAIN info' \ raced, ~Pending(u, {"putInfo", "dropInfo"})'
                 PROVE  row[u].state = "live" /\ info'[u] = View(row[u])
      BY <1>2 DEF InfoFresh, View
    <2>1. CASE u = me /\ Head(todo) = "putInfo"
      <3>1. info'[u] = View(tx[p].row)
        BY <1>2, <2>1 DEF Put
      <3> QED
        BY <1>5, <1>6, <2>1, <3>1
    <2>2. CASE u = me /\ Head(todo) = "dropInfo"
      <3>1. u \notin DOMAIN info'
        BY <1>2, <2>2 DEF Drop
      <3> QED
        BY <3>1
    <2>3. CASE u # me \/ Head(todo) \notin {"putInfo", "dropInfo"}
      <3>1. u \in DOMAIN info /\ info'[u] = info[u]
        BY <1>2, <1>9, <2>3
      <3>2. ~Pending(u, {"putInfo", "dropInfo"})
        BY <1>11, <2>3
      <3> QED
        BY <3>1, <3>2 DEF AccountInv, InfoFresh
    <2> QED
      BY <2>1, <2>2, <2>3
  <1>13. CardFresh'
    <2> SUFFICES ASSUME NEW u \in DOMAIN card' \ raced, ~Pending(u, {"putCard", "dropCard"})'
                 PROVE  row[u].state = "live" /\ card'[u] = row[u].name
      BY <1>2 DEF CardFresh
    <2>1. CASE u = me /\ Head(todo) = "putCard"
      <3>1. card'[u] = tx[p].row.name
        BY <1>2, <2>1 DEF Put
      <3> QED
        BY <1>5, <1>6, <2>1, <3>1
    <2>2. CASE u = me /\ Head(todo) = "dropCard"
      <3>1. u \notin DOMAIN card'
        BY <1>2, <2>2 DEF Drop
      <3> QED
        BY <3>1
    <2>3. CASE u # me \/ Head(todo) \notin {"putCard", "dropCard"}
      <3>1. u \in DOMAIN card /\ card'[u] = card[u]
        BY <1>2, <1>9, <2>3
      <3>2. ~Pending(u, {"putCard", "dropCard"})
        BY <1>11, <2>3
      <3> QED
        BY <3>1, <3>2 DEF AccountInv, CardFresh
    <2> QED
      BY <2>1, <2>2, <2>3
  <1>14. ASSUME NEW q \in Proc PROVE Fine(tx'[q], row', raced')
    <2>1. Fine(tx[q], row, raced)
      BY AllFine DEF AccountInv
    <2>2. CASE q # p
      BY <1>2, <1>8, <2>1, <2>2
    <2>3. CASE q = p
      <3>1. \A i \in DOMAIN t.todo :
              /\ t.todo[i] \in {"putInfo", "putCard"} => t.row.state = "live"
              /\ t.todo[i] = "putCard" => t.op = "login" \/ t.row.status = "NORMAL"
        BY <1>2, <1>4, <1>7, <2>1, <2>3 DEF Fine
      <3>2. Fine(t, row, raced)
        BY <1>2, <1>7, <2>1, <2>3, <3>1 DEF Fine
      <3> QED
        BY <1>2, <1>8, <2>3, <3>2
    <2> QED
      BY <2>2, <2>3
  <1> QED
    BY <1>10, <1>12, <1>13, <1>14, AllFineNext DEF AccountInv

\* A key that times out was not stale any more.
LEMMA ExpireKeeps ==
  ASSUME AccountInv, Expire
  PROVE  AccountInv'
  <1>1. UNCHANGED <<row, tx, calls, raced>>
    BY DEF Expire
  <1>2. /\ DOMAIN info' \subseteq DOMAIN info /\ \A u \in DOMAIN info' : info'[u] = info[u]
        /\ DOMAIN card' \subseteq DOMAIN card /\ \A u \in DOMAIN card' : card'[u] = card[u]
    BY DEF Expire, Drop
  <1>3. TypeOK'
    BY <1>1, <1>2 DEF AccountInv, TypeOK
  <1>4. \A u, S : Pending(u, S)' <=> Pending(u, S)
    BY <1>1 DEF Pending
  <1>5. InfoFresh' /\ CardFresh'
    BY <1>1, <1>2, <1>4 DEF AccountInv, InfoFresh, CardFresh, View
  <1>6. HoldsCurrent' /\ HoldsFound' /\ ShowsLive'
    BY <1>1 DEF AccountInv, HoldsCurrent, HoldsFound, ShowsLive
  <1> QED
    BY <1>3, <1>5, <1>6 DEF AccountInv

-----------------------------------------------------------------------------

\* Lists of redis steps.
LEMMA OneStep ==
  ASSUME NEW a \in Steps
  PROVE  <<a>> \in Seq(Steps) /\ DOMAIN <<a>> = {1} /\ <<a>>[1] = a /\ <<a>> # << >>
  OBVIOUS

LEMMA TwoSteps ==
  ASSUME NEW a \in Steps, NEW b \in Steps
  PROVE  /\ <<a, b>> \in Seq(Steps) /\ DOMAIN <<a, b>> = {1, 2}
         /\ <<a, b>>[1] = a /\ <<a, b>>[2] = b /\ <<a, b>> # << >>
  OBVIOUS

LEMMA ShowRowSteps ==
  ASSUME NEW r
  PROVE  \E b \in {"putCard", "dropCard"} : /\ ShowRow(r) = <<"putInfo", b>> /\ b \in Steps
                                            /\ b = "putCard" => r.status = "NORMAL"
  BY DEF ShowRow, Steps

\* A request that ends with nothing more to write.
LEMMA RefuseKeeps ==
  ASSUME AccountInv, NEW p \in Proc, tx[p].todo = << >>, Refuse(p)
  PROVE  AccountInv'
  <1>1. Idle \in TxState /\ Fine(Idle, row, raced')
    BY AccountsAssumption, Defaults
  <1> QED
    BY <1>1, MoveKeeps DEF Refuse, AccountInv, TypeOK

\* A request that has read its row, or found nothing cached.
LEMMA GoOnKeeps ==
  ASSUME AccountInv, NEW p \in Proc, tx[p].pc \in {"lookup", "read"},
         NEW pc \in {"read", "commit", "redis"}, NEW r \in Row, NEW steps \in Seq(Steps),
         GoOn(p, pc, r, steps),
         pc \in {"commit", "redis"} => r = row[tx[p].u],
         pc = "commit" => \/ tx[p].op = "update" /\ r.state = "live"
                          \/ tx[p].op = "register" /\ r.state # "live",
         steps # << >> => pc = "redis" /\ r.state = "live",
         \A i \in DOMAIN steps : steps[i] = "putCard" => tx[p].op = "login" \/ r.status = "NORMAL"
  PROVE  AccountInv'
  <1> DEFINE t == [tx[p] EXCEPT !.pc = pc, !.row = r, !.todo = steps]
  <1>1. tx[p] \in TxState /\ tx \in [Proc -> TxState]
    BY DEF AccountInv, TypeOK
  <1>2. /\ t \in TxState /\ t.pc = pc /\ t.row = r /\ t.todo = steps
        /\ t.u = tx[p].u /\ t.op = tx[p].op
    BY <1>1 DEF TxState
  <1>3. tx' = [tx EXCEPT ![p] = t] /\ UNCHANGED <<row, info, card, calls, raced>>
    BY DEF GoOn
  <1> HIDE DEF t
  <1>4. tx[p].todo = << >> /\ tx[p].u \in User /\ tx[p].op \notin Decisions
    BY DEF AccountInv, HoldsFound, ShowsLive
  <1>5. Fine(t, row, raced')
    BY <1>2, <1>3, <1>4 DEF Fine
  <1>6. calls' \in Nat /\ raced' \subseteq User /\ raced \subseteq raced'
    BY <1>3 DEF AccountInv, TypeOK
  <1> QED
    BY <1>2, <1>3, <1>4, <1>5, <1>6, MoveKeeps

\* One lemma per action.
LEMMA CallKeeps ==
  ASSUME AccountInv, NEW p \in Proc, Call(p)
  PROVE  AccountInv'
  <1>1. PICK op \in Ops, u \in User, name \in Name :
          tx' = [tx EXCEPT ![p] =
            Request(CASE op \in {"get", "contactInfo"} -> "lookup"
                      [] op \in {"login", "register", "update"} -> "read"
                      [] OTHER -> "decide", op, u, name, calls + 1)]
    BY DEF Call
  <1> DEFINE pc == CASE op \in {"get", "contactInfo"} -> "lookup"
                     [] op \in {"login", "register", "update"} -> "read"
                     [] OTHER -> "decide"
             t == Request(pc, op, u, name, calls + 1)
  <1>2. calls \in Nat /\ raced \subseteq User
    BY DEF AccountInv, TypeOK
  <1>3. /\ pc \in {"lookup", "read", "decide"}
        /\ pc = "decide" <=> op \in Decisions
    BY DEF Ops, Reads, Decisions
  <1> HIDE DEF pc
  <1>4. NoRow \in Row /\ << >> \in Seq(Steps)
    BY AccountsAssumption, Defaults
  <1>5. t = [pc |-> pc, op |-> op, u |-> u, name |-> name, id |-> calls + 1,
             row |-> NoRow, todo |-> << >>]
    BY DEF Request
  <1> HIDE DEF t
  <1>6. t \in TxState
    BY <1>2, <1>3, <1>4, <1>5 DEF TxState
  <1>7. Fine(t, row, raced')
    BY <1>3, <1>5 DEF Fine
  <1>8. UNCHANGED <<row, info, card, raced>> /\ tx[p].pc = "idle" /\ calls' \in Nat
    BY <1>2 DEF Call
  <1>9. tx[p].todo = << >>
    BY <1>8 DEF AccountInv, ShowsLive
  <1>10. tx' = [tx EXCEPT ![p] = t]
    BY <1>1 DEF t, pc
  <1> QED
    BY <1>2, <1>6, <1>7, <1>8, <1>9, <1>10, MoveKeeps

LEMMA ReadsKeep ==
  ASSUME AccountInv, NEW p \in Proc,
         \/ Lookup(p) \/ Login(p) \/ GetUserInfo(p) \/ GetContactInfo(p)
         \/ RegisterRead(p) \/ UpdateRead(p)
  PROVE  AccountInv'
  <1>1. tx[p].pc \in {"lookup", "read"}
    BY DEF Lookup, Login, GetUserInfo, GetContactInfo, RegisterRead, UpdateRead, At
  <1>2. tx[p].todo = << >> /\ tx[p].u \in User /\ row[tx[p].u] \in Row
    BY <1>1 DEF AccountInv, TypeOK, HoldsFound, ShowsLive
  <1>3. Refuse(p) => AccountInv'
    BY <1>2, RefuseKeeps
  <1>4. Found(p) <=> row[tx[p].u].state = "live"
    BY DEF Found
  <1>5. NoRow \in Row /\ << >> \in Seq(Steps) /\ DOMAIN << >> = {}
    <2>1. DOMAIN << >> = {}
      OBVIOUS
    <2> QED
      BY <2>1, AccountsAssumption, Defaults
  <1>6. /\ <<"putInfo">> \in Seq(Steps) /\ <<"putInfo", "putCard">> \in Seq(Steps)
        /\ ShowRow(row[tx[p].u]) \in Seq(Steps)
    <2>1. "putInfo" \in Steps /\ "putCard" \in Steps
      BY DEF Steps
    <2>2. <<"putInfo">> \in Seq(Steps) /\ <<"putInfo", "putCard">> \in Seq(Steps)
      BY <2>1
    <2>3. PICK b \in Steps : ShowRow(row[tx[p].u]) = <<"putInfo", b>>
      BY ShowRowSteps
    <2> QED
      BY <2>1, <2>2, <2>3
  <1>7. ASSUME NEW steps \in Seq(Steps), Found(p), GoOn(p, "redis", row[tx[p].u], steps),
               \A i \in DOMAIN steps : steps[i] = "putCard" =>
                 tx[p].op = "login" \/ row[tx[p].u].status = "NORMAL"
        PROVE  AccountInv'
    BY <1>1, <1>2, <1>4, <1>7, GoOnKeeps
  <1>8. CASE Lookup(p)
    BY <1>1, <1>3, <1>5, <1>8, GoOnKeeps DEF Lookup
  <1>9. CASE Login(p)
    BY <1>3, <1>6, <1>7, <1>9 DEF Login, At
  <1>10. CASE GetUserInfo(p)
    <2>1. \A i \in DOMAIN ShowRow(row[tx[p].u]) :
            ShowRow(row[tx[p].u])[i] = "putCard" => row[tx[p].u].status = "NORMAL"
      BY DEF ShowRow
    <2> QED
      BY <1>3, <1>6, <1>7, <1>10, <2>1 DEF GetUserInfo
  <1>11. CASE GetContactInfo(p)
    <2>1. CASE row[tx[p].u].status = "DISABLE"
      <3>1. \A i \in DOMAIN <<"putInfo">> : <<"putInfo">>[i] # "putCard"
        OBVIOUS
      <3> QED
        BY <1>3, <1>6, <1>7, <1>11, <2>1, <3>1 DEF GetContactInfo
    <2>2. CASE row[tx[p].u].status # "DISABLE"
      <3>1. row[tx[p].u].status = "NORMAL"
        BY <1>2, <2>2 DEF Row
      <3> QED
        BY <1>3, <1>6, <1>7, <1>11, <2>2, <3>1 DEF GetContactInfo
    <2> QED
      BY <2>1, <2>2
  <1>12. CASE RegisterRead(p)
    <2>1. CASE Found(p)
      BY <1>3, <1>12, <2>1 DEF RegisterRead
    <2>2. CASE ~Found(p)
      <3>1. GoOn(p, "commit", row[tx[p].u], << >>) /\ tx[p].op = "register"
        BY <1>12, <2>2 DEF RegisterRead, At
      <3> QED
        BY <1>1, <1>2, <1>4, <1>5, <2>2, <3>1, GoOnKeeps
    <2> QED
      BY <2>1, <2>2
  <1>13. CASE UpdateRead(p)
    <2>1. CASE ~Found(p)
      BY <1>3, <1>13, <2>1 DEF UpdateRead
    <2>2. CASE Found(p)
      <3>1. GoOn(p, "commit", row[tx[p].u], << >>) /\ tx[p].op = "update"
        BY <1>13, <2>2 DEF UpdateRead, At
      <3> QED
        BY <1>1, <1>2, <1>4, <1>5, <2>2, <3>1, GoOnKeeps
    <2> QED
      BY <2>1, <2>2
  <1> QED
    BY <1>8, <1>9, <1>10, <1>11, <1>12, <1>13

LEMMA RegisterKeeps ==
  ASSUME AccountInv, NEW p \in Proc, Register(p)
  PROVE  AccountInv'
  <1> DEFINE new == [tx[p].row EXCEPT !.state = "live", !.status = "NORMAL",
                                      !.name = tx[p].name, !.by = tx[p].id]
             steps == <<"putInfo", "putCard">>
  <1>1. tx[p].pc = "commit" /\ tx[p].op = "register" /\ tx[p] \in TxState
    BY DEF Register, At, AccountInv, TypeOK
  <1>2. CASE Refuse(p)
    <2>1. tx[p].todo = << >>
      BY <1>1 DEF AccountInv, ShowsLive
    <2> QED
      BY <1>2, <2>1, RefuseKeeps
  <1>3. CASE Commit(p, new, steps)
    <2>1. new \in Row /\ new.state = "live" /\ new.status = "NORMAL"
      BY <1>1 DEF TxState, Row
    <2>2. "putInfo" \in Steps /\ "putCard" \in Steps
      BY DEF Steps
    <2>3. /\ steps \in Seq(Steps) /\ 1 \in DOMAIN steps /\ 2 \in DOMAIN steps
          /\ steps[1] = "putInfo" /\ steps[2] = "putCard"
      BY <2>2, TwoSteps
    <2>4. tx[p].op \notin Reads
      BY <1>1 DEF Reads
    <2> HIDE DEF new, steps
    <2>5. /\ \E i \in DOMAIN steps : steps[i] \in {"putInfo", "dropInfo"}
          /\ \E i \in DOMAIN steps : steps[i] \in {"putCard", "dropCard"}
      BY <2>3
    <2> QED
      BY <1>1, <1>3, <2>1, <2>3, <2>4, <2>5, CommitKeeps
  <1> QED
    BY <1>2, <1>3 DEF Register

LEMMA UpdateKeeps ==
  ASSUME AccountInv, NEW p \in Proc, UpdateUserInfo(p)
  PROVE  AccountInv'
  <1> DEFINE new == SavedRow(p)
             steps == ShowRow(SavedRow(p))
  <1>1. tx[p].pc = "commit" /\ tx[p].op = "update" /\ tx[p] \in TxState
    BY DEF UpdateUserInfo, At, AccountInv, TypeOK
  <1>2. Commit(p, new, steps)
    BY DEF UpdateUserInfo
  <1>3. tx[p].row.state = "live"
    BY <1>1 DEF AccountInv, HoldsFound
  <1>4. new \in Row /\ new.state = "live"
    BY <1>1, <1>3 DEF SavedRow, TxState, Row
  <1>5. PICK b \in {"putCard", "dropCard"} : /\ steps = <<"putInfo", b>> /\ b \in Steps
                                             /\ b = "putCard" => new.status = "NORMAL"
    BY ShowRowSteps
  <1>6. "putInfo" \in Steps
    BY DEF Steps
  <1>7. /\ steps \in Seq(Steps) /\ 1 \in DOMAIN steps /\ 2 \in DOMAIN steps
        /\ DOMAIN steps = {1, 2} /\ steps[1] = "putInfo" /\ steps[2] = b
        /\ \A i \in DOMAIN steps : steps[i] = "putCard" => new.status = "NORMAL"
    BY <1>5, <1>6, TwoSteps
  <1>8. tx[p].op \notin Reads
    BY <1>1 DEF Reads
  <1> HIDE DEF new, steps
  <1>9. /\ \E i \in DOMAIN steps : steps[i] \in {"putInfo", "dropInfo"}
        /\ \E i \in DOMAIN steps : steps[i] \in {"putCard", "dropCard"}
    BY <1>5, <1>7
  <1> QED
    BY <1>1, <1>2, <1>4, <1>7, <1>8, <1>9, CommitKeeps

\* What one decision makes of a row.
Decided(r, op, on) ==
  IF r.state # "live" THEN r
  ELSE CASE op = "able" -> [r EXCEPT !.status = "NORMAL"]
         [] op = "disable" -> [r EXCEPT !.status = "DISABLE"]
         [] op = "setAdmin" -> [r EXCEPT !.admin = on]
         [] op = "delete" -> [r EXCEPT !.state = "dead"]

LEMMA DecidedRow ==
  ASSUME NEW r \in Row, NEW op \in Decisions, NEW on \in BOOLEAN
  PROVE  /\ Decided(r, op, on) \in Row
         /\ op \notin {"disable", "delete"} =>
              Decided(r, op, on).state = r.state /\ Decided(r, op, on).name = r.name
  <1>1. CASE op = "able"
    BY <1>1 DEF Decided, Row
  <1>2. CASE op = "disable"
    BY <1>2 DEF Decided, Row
  <1>3. CASE op = "setAdmin"
    BY <1>3 DEF Decided, Row
  <1>4. CASE op = "delete"
    BY <1>4 DEF Decided, Row
  <1> QED
    BY <1>1, <1>2, <1>3, <1>4 DEF Decisions

LEMMA DecideKeeps ==
  ASSUME AccountInv, NEW p \in Proc, Decide(p)
  PROVE  AccountInv'
  <1> DEFINE r == row[tx[p].u]
             steps == KeysDropped(tx[p].op)
  <1>1. tx[p].pc = "decide" /\ tx[p] \in TxState
    BY DEF Decide, AccountInv, TypeOK
  <1>2. tx[p].u \in User /\ tx[p].op \in Decisions
    BY <1>1 DEF AccountInv, HoldsFound
  <1>3. r \in Row /\ r.admin \in BOOLEAN
    BY <1>2 DEF AccountInv, TypeOK, Row
  <1>4. PICK on \in BOOLEAN : Commit(p, Decided(r, tx[p].op, on), steps)
    <2>1. PICK on \in IF tx[p].op = "setAdmin" THEN BOOLEAN ELSE {r.admin} :
            Commit(p, Decided(r, tx[p].op, on), steps)
      BY DEF Decide, Decided
    <2>2. on \in BOOLEAN
      BY <1>3
    <2> QED
      BY <2>1, <2>2
  <1> DEFINE new == Decided(r, tx[p].op, on)
  <1>5. "dropInfo" \in Steps /\ "dropCard" \in Steps /\ tx[p].op \notin Reads
    BY <1>2 DEF Steps, Reads, Decisions
  <1>6. /\ steps \in Seq(Steps) /\ 1 \in DOMAIN steps /\ steps[1] = "dropInfo"
        /\ \A i \in DOMAIN steps : steps[i] \in {"dropInfo", "dropCard"}
        /\ tx[p].op \in {"disable", "delete"} => 2 \in DOMAIN steps /\ steps[2] = "dropCard"
    <2>1. CASE tx[p].op \in {"disable", "delete"}
      BY <1>5, <2>1, TwoSteps DEF KeysDropped
    <2>2. CASE tx[p].op \notin {"disable", "delete"}
      BY <1>5, <2>2, OneStep DEF KeysDropped
    <2> QED
      BY <2>1, <2>2
  <1>7. new \in Row
    BY <1>2, <1>3, DecidedRow
  <1> HIDE DEF steps
  <1>8. /\ \E i \in DOMAIN steps : steps[i] \in {"putInfo", "dropInfo"}
        /\ \A i \in DOMAIN steps : steps[i] \notin {"putInfo", "putCard"}
    BY <1>6
  <1>9. \/ \E i \in DOMAIN steps : steps[i] \in {"putCard", "dropCard"}
        \/ new.state = r.state /\ new.name = r.name
    <2>1. CASE tx[p].op \in {"disable", "delete"}
      BY <1>6, <2>1
    <2>2. CASE tx[p].op \notin {"disable", "delete"}
      BY <1>2, <1>3, <2>2, DecidedRow
    <2> QED
      BY <2>1, <2>2
  <1> HIDE DEF new
  <1>10. Commit(p, new, steps)
    BY <1>4 DEF new
  <1> QED
    BY <1>1, <1>5, <1>6, <1>7, <1>8, <1>9, <1>10, CommitKeeps

LEMMA FailuresKeep ==
  ASSUME AccountInv, NEW p \in Proc, RedisFails(p) \/ Crash(p) \/ Reply(p) \/ Rollback(p)
  PROVE  AccountInv'
  <1>1. tx[p] \in TxState /\ tx \in [Proc -> TxState] /\ raced \subseteq User /\ calls \in Nat
    BY DEF AccountInv, TypeOK
  <1>2. CASE Reply(p)
    BY <1>2, RefuseKeeps DEF Reply
  <1>3. CASE Rollback(p)
    <2>1. tx[p].todo = << >>
      BY <1>3 DEF Rollback, AccountInv, ShowsLive
    <2> QED
      BY <1>3, <2>1, RefuseKeeps DEF Rollback
  <1>4. ASSUME tx[p].pc = "redis", Lost(p)
        PROVE  /\ tx[p].u \in User /\ raced \subseteq raced' /\ raced' \subseteq User
               /\ tx[p].op \in Reads \/ tx[p].u \in raced'
    BY <1>1, <1>4 DEF AccountInv, HoldsFound, Lost
  <1>5. CASE Crash(p)
    <2>1. Idle \in TxState /\ Fine(Idle, row, raced')
      BY AccountsAssumption, Defaults
    <2>2. /\ tx[p].pc = "redis" /\ Lost(p) /\ tx' = [tx EXCEPT ![p] = Idle]
          /\ UNCHANGED <<row, info, card, calls>>
      BY <1>5 DEF Crash
    <2> QED
      BY <1>1, <1>4, <2>1, <2>2, MoveKeeps
  <1>6. CASE RedisFails(p)
    <2> DEFINE rest == IF tx[p].op = "login" THEN << >> ELSE Tail(tx[p].todo)
               t == [tx[p] EXCEPT !.todo = rest]
    <2>1. /\ tx[p].pc = "redis" /\ Lost(p) /\ tx[p].todo # << >> /\ tx' = [tx EXCEPT ![p] = t]
          /\ UNCHANGED <<row, info, card, calls>>
      BY <1>1, <1>6 DEF RedisFails
    <2>2. tx[p].todo \in Seq(Steps)
      BY <1>1 DEF TxState
    <2>3. /\ rest \in Seq(Steps)
          /\ \A i \in DOMAIN rest : \E j \in DOMAIN tx[p].todo : rest[i] = tx[p].todo[j]
      <3> DEFINE s == tx[p].todo
      <3> HIDE DEF s
      <3>1. s \in Seq(Steps) /\ s # << >>
        BY <2>1, <2>2 DEF s
      <3>2. /\ Tail(s) \in Seq(Steps)
            /\ \A i \in DOMAIN Tail(s) : i + 1 \in DOMAIN s /\ Tail(s)[i] = s[i + 1]
        BY <3>1
      <3>3. << >> \in Seq(Steps) /\ DOMAIN << >> = {}
        OBVIOUS
      <3> QED
        BY <3>2, <3>3 DEF s
    <2> HIDE DEF rest
    <2>4. /\ t \in TxState /\ t.pc = "redis" /\ t.row = tx[p].row /\ t.todo = rest
          /\ t.u = tx[p].u /\ t.op = tx[p].op
      BY <1>1, <2>1, <2>3 DEF TxState
    <2> HIDE DEF t
    <2>5. Fine(tx[p], row, raced)
      BY AllFine DEF AccountInv
    <2>6. \A i \in DOMAIN t.todo :
            /\ t.todo[i] \in {"putInfo", "putCard"} => t.row.state = "live"
            /\ t.todo[i] = "putCard" => t.op = "login" \/ t.row.status = "NORMAL"
      BY <2>1, <2>3, <2>4, <2>5 DEF Fine
    <2>7. Fine(t, row, raced')
      BY <1>4, <2>1, <2>4, <2>5, <2>6 DEF Fine
    <2> QED
      BY <1>1, <1>4, <2>1, <2>4, <2>7, MoveKeeps
  <1> QED
    BY <1>2, <1>3, <1>5, <1>6

-----------------------------------------------------------------------------

LEMMA AccountInit == Init => AccountInv
  <1> SUFFICES ASSUME Init PROVE AccountInv
    OBVIOUS
  <1>1. NoRow \in Row /\ Idle \in TxState
    BY AccountsAssumption, Defaults
  <1>2. TypeOK
    BY <1>1 DEF Init, TypeOK
  <1>3. \A p \in Proc : Fine(tx[p], row, raced)
    BY AccountsAssumption, Defaults DEF Init
  <1>4. DOMAIN info = {} /\ DOMAIN card = {}
    BY DEF Init
  <1>5. InfoFresh /\ CardFresh
    BY <1>4 DEF InfoFresh, CardFresh
  <1> QED
    BY <1>2, <1>3, <1>5, AllFine DEF AccountInv

LEMMA AccountStep == AccountInv /\ [Next]_vars => AccountInv'
  <1> SUFFICES ASSUME AccountInv, [Next]_vars PROVE AccountInv'
    OBVIOUS
  <1>1. CASE UNCHANGED vars
    BY <1>1 DEF vars, AccountInv, TypeOK, InfoFresh, CardFresh, Pending, View,
                HoldsCurrent, HoldsFound, ShowsLive
  <1>2. CASE Expire
    BY <1>2, ExpireKeeps
  <1>3. ASSUME NEW p \in Proc, Step(p) PROVE AccountInv'
    BY <1>3, CallKeeps, ReadsKeep, RegisterKeeps, UpdateKeeps, DecideKeeps, RedisStepKeeps,
       FailuresKeep DEF Step
  <1> QED
    BY <1>1, <1>2, <1>3 DEF Next

\* The rows, the requests and the keys stay as AccountInv says: Login, GetUserInfo,
\* GetContactInfo, Register, UpdateUserInfo and the administrator's statements.
THEOREM AccountsInvariance == Spec => []AccountInv
  <1>1. Init => AccountInv
    BY AccountInit
  <1>2. AccountInv /\ [Next]_vars => AccountInv'
    BY AccountStep
  <1> QED
    BY <1>1, <1>2, PTL DEF Spec

\* Unless writers of a user overlapped or a write to redis was lost, user_info_
\* shows the row of a live user as soon as no writer is about to change the key.
THEOREM InfosFresh == Spec => []InfoFresh
  <1>1. AccountInv => InfoFresh
    BY DEF AccountInv
  <1> QED
    BY <1>1, AccountsInvariance, PTL

\* The same for contact_info_, which enabling a user and setting his rights leave:
\* neither changes what it shows.
THEOREM CardsFresh == Spec => []CardFresh
  <1>1. AccountInv => CardFresh
    BY DEF AccountInv
  <1> QED
    BY <1>1, AccountsInvariance, PTL

-----------------------------------------------------------------------------
(* What one step may do                                                      *)

\* Who changes a row: a registration, an update or a statement of the
\* administrator about that user.
LEMMA WritersOfRow ==
  ASSUME AccountInv, [Next]_vars, NEW u \in User, row'[u] # row[u]
  PROVE  \E p \in Proc : /\ tx[p].u = u /\ tx'[p] # tx[p] /\ row' = [row EXCEPT ![u] = row'[u]]
                         /\ Register(p) \/ UpdateUserInfo(p) \/ Decide(p)
  <1>1. ~UNCHANGED vars /\ ~Expire
    BY DEF vars, Expire
  <1>2. PICK p \in Proc : Step(p)
    BY <1>1 DEF Next
  <1>3. Register(p) \/ UpdateUserInfo(p) \/ Decide(p)
    BY <1>2 DEF Step, Call, Lookup, Login, GetUserInfo, GetContactInfo, RegisterRead, UpdateRead,
                GoOn, Refuse, RedisStep, RedisFails, Reply, Rollback, Crash
  <1>4. PICK r, steps : Commit(p, r, steps)
    BY <1>3 DEF Register, UpdateUserInfo, Decide, Refuse
  <1>5. tx \in [Proc -> TxState] /\ row \in [User -> Row] /\ tx[p].pc # "redis"
    BY <1>3 DEF AccountInv, TypeOK, Register, UpdateUserInfo, Decide, At
  <1>6. tx'[p].pc = "redis"
    BY <1>4, <1>5 DEF Commit, TxState
  <1>7. row' = [row EXCEPT ![tx[p].u] = r]
    BY <1>4 DEF Commit
  <1>8. u = tx[p].u
    BY <1>5, <1>7
  <1> QED
    BY <1>3, <1>5, <1>6, <1>7, <1>8

\* What they make of it.
LEMMA RowsWritten ==
  ASSUME AccountInv, NEW p \in Proc, NEW u \in User, tx[p].u = u, row'[u] # row[u]
  PROVE  /\ Register(p) => /\ tx[p].pc = "commit" /\ tx[p].op = "register"
                           /\ row[u].state = "live" => tx[p].row.state = "dead"
         /\ UpdateUserInfo(p) => /\ tx[p].pc = "commit" /\ tx[p].op = "update"
                                 /\ tx[p].row.state = "live"
                                 /\ row'[u].status = tx[p].row.status
                                 /\ row'[u].admin = tx[p].row.admin /\ row'[u].by = tx[p].row.by
         /\ Decide(p) => tx[p].op \in Decisions /\ row'[u].by = row[u].by
  <1>1. /\ tx[p] \in TxState /\ row \in [User -> Row] /\ row[u] \in Row /\ tx[p].row \in Row
    BY DEF AccountInv, TypeOK, TxState
  <1>2. ASSUME Register(p)
        PROVE  /\ tx[p].pc = "commit" /\ tx[p].op = "register"
               /\ row[u].state = "live" => tx[p].row.state = "dead"
    BY <1>2 DEF Register, At, MayInsert, Refuse
  <1>3. ASSUME UpdateUserInfo(p)
        PROVE  /\ tx[p].pc = "commit" /\ tx[p].op = "update"
               /\ tx[p].row.state = "live"
               /\ row'[u].status = tx[p].row.status
               /\ row'[u].admin = tx[p].row.admin /\ row'[u].by = tx[p].row.by
    <2>1. tx[p].pc = "commit" /\ tx[p].op = "update"
      BY <1>3 DEF UpdateUserInfo, At
    <2>2. row'[u] = SavedRow(p)
      BY <1>1, <1>3 DEF UpdateUserInfo, Commit
    <2>3. tx[p].row.state = "live"
      BY <2>1 DEF AccountInv, HoldsFound
    <2> QED
      BY <1>1, <2>1, <2>2, <2>3 DEF SavedRow, Row
  <1>4. ASSUME Decide(p)
        PROVE  tx[p].op \in Decisions /\ row'[u].by = row[u].by
    <2>1. tx[p].op \in Decisions
      BY <1>4 DEF Decide, AccountInv, HoldsFound
    <2>2. PICK on : Commit(p, Decided(row[u], tx[p].op, on), KeysDropped(tx[p].op))
      BY <1>4 DEF Decide, Decided
    <2>3. row'[u] = Decided(row[u], tx[p].op, on)
      BY <1>1, <2>2 DEF Commit
    <2>4. Decided(row[u], tx[p].op, on).by = row[u].by
      BY <1>1, <2>1 DEF Decided, Row, Decisions
    <2> QED
      BY <2>1, <2>3, <2>4
  <1> QED
    BY <1>2, <1>3, <1>4

\* Only the administrator changes status and rights, and only a registration
\* brings back who was deleted, unless tx.Save writes a row read before the
\* last change.
THEOREM DecisionsSafety == Spec => DecisionsHold
  <1>1. ASSUME AccountInv, [Next]_vars, NEW u \in User
        PROVE  \/ row'[u].state # "live"
               \/ /\ row[u].state = "live" /\ row'[u].status = row[u].status
                  /\ row'[u].admin = row[u].admin
               \/ \E p \in Proc : /\ tx[p].u = u /\ tx'[p] # tx[p]
                                  /\ \/ tx[p].op \in Decisions
                                     \/ tx[p].op = "register" /\ row[u].state # "live"
                                     \/ tx[p].pc = "commit" /\ tx[p].row # row[u]
    <2>1. CASE row'[u] = row[u]
      BY <2>1
    <2>2. CASE row'[u] # row[u]
      <3>1. PICK p \in Proc : /\ tx[p].u = u /\ tx'[p] # tx[p]
                              /\ Register(p) \/ UpdateUserInfo(p) \/ Decide(p)
        BY <1>1, <2>2, WritersOfRow
      <3> QED
        BY <1>1, <2>2, <3>1, RowsWritten
    <2> QED
      BY <2>1, <2>2
  <1>2. AccountInv /\ [Next]_vars =>
          [\A u \in User :
            \/ row'[u].state # "live"
            \/ row[u].state = "live" /\ row'[u].status = row[u].status /\ row'[u].admin = row[u].admin
            \/ \E p \in Proc : /\ tx[p].u = u /\ tx'[p] # tx[p]
                               /\ \/ tx[p].op \in Decisions
                                  \/ tx[p].op = "register" /\ row[u].state # "live"
                                  \/ tx[p].pc = "commit" /\ tx[p].row # row[u]]_vars
    BY <1>1
  <1> QED
    BY <1>2, AccountsInvariance, PTL DEF Spec, DecisionsHold

\* The password of a live account is overwritten only by a request that found
\* the account deleted, or by an update that read it before.
THEOREM RegistrationSafety == Spec => OneRegistration
  <1>1. ASSUME AccountInv, [Next]_vars, NEW u \in User,
               row[u].state = "live", row'[u].by # row[u].by
        PROVE  \E p \in Proc : tx[p].u = u /\ tx[p].op \in {"register", "update"}
                               /\ tx[p].row.state # "none" /\ tx[p].row # row[u]
    <2>1. row'[u] # row[u]
      BY <1>1
    <2>2. PICK p \in Proc : /\ tx[p].u = u
                            /\ Register(p) \/ UpdateUserInfo(p) \/ Decide(p)
      BY <1>1, <2>1, WritersOfRow
    <2> QED
      BY <1>1, <2>1, <2>2, RowsWritten
  <1>2. AccountInv /\ [Next]_vars =>
          [\A u \in User :
            row[u].state = "live" /\ row'[u].by # row[u].by =>
              \E p \in Proc : tx[p].u = u /\ tx[p].op \in {"register", "update"}
                              /\ tx[p].row.state # "none" /\ tx[p].row # row[u]]_vars
    BY <1>1
  <1> QED
    BY <1>2, AccountsInvariance, PTL DEF Spec, OneRegistration

=============================================================================
