---------------------------- MODULE SerialProofs ----------------------------
(***************************************************************************)
(* Proofs about Contacts while requests come one at a time, none is cut    *)
(* short by a crash, and no relation is overlooked because the query for   *)
(* it failed (clean), for any number of users: one relation, one           *)
(* application each way and one session per pair, no session of a disabled *)
(* user, a list of contacts that is true, blocks and a black list that     *)
(* hold; and that Contacts then implements Friendship.                     *)
(*                                                                         *)
(* None of this is protected by a key or a lock: what a request has read   *)
(* is still so when it commits only because nobody else runs (SerialInv).  *)
(***************************************************************************)
EXTENDS ContactProofs, ContactFriendship, FiniteSetTheorems

\* The parts of SerialInv that are about the tables and the cached lists.
Singles ==
  \A a, b \in User : /\ AtMostOne(LiveRows(contact, a, b))
                     /\ AtMostOne(LiveRows(apply, a, b))
                     /\ AtMostOne(LiveRows(session, a, b))
NoStrays ==
  \A i \in DOMAIN session : session[i].live =>
    status[session[i].user] = "NORMAL" /\ status[session[i].peer] = "NORMAL"

-----------------------------------------------------------------------------
(* The tables                                                                *)

\* Live rows after a deletion, a save of a live row, and an insertion.
LEMMA BuryLive ==
  ASSUME NEW R \in {ContactRow, ApplyRow, SessionRow}, NEW table \in Seq(R), NEW s, NEW a, NEW b
  PROVE  LiveRows(Bury(table, s), a, b) = LiveRows(table, a, b) \ s
  <1>1. /\ DOMAIN Bury(table, s) = DOMAIN table
        /\ \A i \in DOMAIN table :
              Bury(table, s)[i] = [table[i] EXCEPT !.live = table[i].live /\ i \notin s]
    BY BuryTable
  <1>2. \A i \in DOMAIN table : table[i] \in R
    BY ElementOfSeq
  <1>3. ASSUME NEW i \in DOMAIN table
        PROVE  /\ Bury(table, s)[i].live = (table[i].live /\ i \notin s)
               /\ Bury(table, s)[i].user = table[i].user /\ Bury(table, s)[i].peer = table[i].peer
    <2>1. CASE R = ContactRow
      BY <1>1, <1>2, <2>1 DEF ContactRow
    <2>2. CASE R = ApplyRow
      BY <1>1, <1>2, <2>2 DEF ApplyRow
    <2>3. CASE R = SessionRow
      BY <1>1, <1>2, <2>3 DEF SessionRow
    <2> QED
      BY <2>1, <2>2, <2>3
  <1> QED
    BY <1>1, <1>3 DEF LiveRows, Rows

LEMMA SaveLive ==
  ASSUME NEW table, NEW i \in DOMAIN table, NEW s, NEW a, NEW b, table[i].live
  PROVE  LiveRows(Save(table, i, s), a, b) = LiveRows(table, a, b)
  BY DEF LiveRows, Rows, Save

LEMMA AppendLive ==
  ASSUME NEW R, NEW table \in Seq(R), NEW r \in R, NEW a, NEW b
  PROVE  LiveRows(Append(table, r), a, b) =
           LiveRows(table, a, b) \cup
           (IF r.live /\ r.user = a /\ r.peer = b THEN {Len(table) + 1} ELSE {})
  <1> DEFINE new == Append(table, r)
  <1>1. /\ DOMAIN new = DOMAIN table \cup {Len(table) + 1}
        /\ Len(table) + 1 \notin DOMAIN table
        /\ \A i \in DOMAIN table : new[i] = table[i]
        /\ new[Len(table) + 1] = r
    OBVIOUS
  <1> HIDE DEF new
  <1> QED
    BY <1>1 DEF LiveRows, Rows

\* Both directions of a relation are live, or none.
LEMMA BothLive ==
  ASSUME ContactInv, NEW a, NEW b, NEW i \in LiveRows(contact, a, b)
  PROVE  Peer(i) \in LiveRows(contact, b, a) /\ contact[Peer(i)].status = OtherSide(contact[i].status)
  <1>1. i \in DOMAIN contact /\ contact[i].user = a /\ contact[i].peer = b /\ contact[i].live
    BY DEF LiveRows, Rows
  <1>2. Peer(i) \in DOMAIN contact /\ contact[Peer(i)] = Mirror(contact[i])
    BY <1>1 DEF ContactInv, MirroredContacts
  <1> QED
    BY <1>1, <1>2 DEF LiveRows, Rows, Mirror

\* A deletion leaves at most one row where there was at most one, and so does
\* an insertion where there was none.
LEMMA FewerRows ==
  ASSUME NEW s, NEW t, s \subseteq t, AtMostOne(t)
  PROVE  AtMostOne(s)
  BY DEF AtMostOne

-----------------------------------------------------------------------------
(* The requests                                                              *)

\* Nobody but the request that moves is being served.
LEMMA OthersIdle ==
  ASSUME SerialInv, clean, NEW p \in Proc, tx[p].pc # "idle"
  PROVE  \A q \in Proc \ {p} : tx[q].pc = "idle" /\ tx[q].todo = << >>
  BY DEF SerialInv

LEMMA IdleUpToDate ==
  ASSUME NEW t, t.pc = "idle", t.todo = << >>
  PROVE  UpToDate(t) /\ StepsLeft(t) = {} /\ \A u : ~Drops(t, u)
  BY DEF UpToDate, StepsLeft, Drops

\* What a step of a request must show.
LEMMA SerialStep ==
  ASSUME ContactInv, SerialInv, clean, NEW p \in Proc, NEW t, tx[p].pc # "idle", Becomes(p, t),
         Singles', NoStrays', UpToDate(tx[p])', tx'[p].todo # << >> => tx'[p].pc = "redis",
         \A u \in DOMAIN friends' : friends'[u] = ContactsOf(u)' \/ Drops(tx'[p], u)
  PROVE  SerialInv'
  <1>1. \A q \in Proc \ {p} : tx'[q] = tx[q]
    BY DEF Becomes, ContactInv, TypeOK
  <1>2. \A q \in Proc \ {p} : tx'[q].pc = "idle" /\ tx'[q].todo = << >>
    BY <1>1, OthersIdle
  <1>3. ASSUME NEW q \in Proc \ {p} PROVE UpToDate(tx[q])'
    BY <1>2, <1>3 DEF UpToDate, StepsLeft
  <1>4. \A u \in DOMAIN friends' :
          friends'[u] = ContactsOf(u)' \/ \E q \in Proc : Drops(tx'[q], u)
    OBVIOUS
  <1>5. \A q, r \in Proc : tx'[q].pc # "idle" /\ tx'[r].pc # "idle" => q = r
    BY <1>2
  <1>6. \A q \in Proc : UpToDate(tx[q])' /\ (tx'[q].todo # << >> => tx'[q].pc = "redis")
    BY <1>2, <1>3
  <1> QED
    BY <1>4, <1>5, <1>6 DEF SerialInv, Singles, NoStrays, NoSessionOfDisabled, Drops, StepsLeft

\* The same for a step that leaves tables and lists of contacts alone.
LEMMA ReadSerial ==
  ASSUME ContactInv, SerialInv, clean, NEW p \in Proc, NEW t, tx[p].pc # "idle", Becomes(p, t),
         UNCHANGED <<db, friends>>, tx[p].todo = << >>,
         UpToDate(t), t.todo # << >> => t.pc = "redis"
  PROVE  SerialInv'
  <1>1. tx'[p] = t
    BY DEF Becomes, ContactInv, TypeOK
  <1>2. UpToDate(tx[p])'
    BY <1>1 DEF UpToDate, StepsLeft, ContactsOf, LiveRows, Rows, db
  <1>3. Singles' /\ NoStrays'
    <2>1. Singles /\ NoStrays
      BY DEF SerialInv, Singles, NoStrays, NoSessionOfDisabled
    <2> QED
      BY <2>1 DEF Singles, NoStrays, AtMostOne, LiveRows, Rows, db
  <1>4. ASSUME NEW u \in DOMAIN friends' PROVE friends'[u] = ContactsOf(u)'
    <2>1. \A q \in Proc : ~Drops(tx[q], u)
      BY OthersIdle DEF Drops, StepsLeft
    <2>2. friends[u] = ContactsOf(u)
      BY <2>1 DEF SerialInv
    <2> QED
      BY <2>2 DEF ContactsOf, LiveRows, Rows, db
  <1> QED
    BY <1>1, <1>2, <1>3, <1>4, SerialStep

\* A request that is over, or has not begun to commit or to answer: nothing to
\* be up to date with.
LEMMA NothingHeld ==
  ASSUME NEW t, t.pc \notin {"read", "commit", "create", "insert"}, t.todo = << >>
  PROVE  UpToDate(t)
  BY DEF UpToDate, StepsLeft

LEMMA RefuseSerial ==
  ASSUME ContactInv, SerialInv, clean, NEW p \in Proc, tx[p].pc # "idle", tx[p].todo = << >>,
         Refuse(p)
  PROVE  SerialInv'
  <1>1. Idle.pc = "idle" /\ Idle.todo = << >>
    BY DEF Idle, Request
  <1> QED
    BY <1>1, NothingHeld, ReadSerial DEF Refuse, redis

\* A request that reads and goes on.
LEMMA ReadsSerial ==
  ASSUME ContactInv, SerialInv, clean, NEW p \in Proc, NEW t, tx[p].pc \notin {"idle", "redis"},
         Reads(p, t), UpToDate(t), t.todo # << >> => t.pc = "redis"
  PROVE  SerialInv'
  <1>1. tx[p].todo = << >>
    BY DEF SerialInv
  <1> QED
    BY <1>1, ReadSerial DEF Reads, redis

\* What a commit must show.
LEMMA CommitSerial ==
  ASSUME ContactInv, SerialInv, clean, NEW p \in Proc, NEW t, tx[p].pc \notin {"idle", "redis"},
         Becomes(p, t), UNCHANGED friends, Singles', NoStrays',
         t.pc = "redis", "putFriends" \notin StepsLeft(t),
         \A u \in DOMAIN friends : ContactsOf(u)' = ContactsOf(u) \/ Drops(t, u)
  PROVE  SerialInv'
  <1>1. tx'[p] = t
    BY DEF Becomes, ContactInv, TypeOK
  <1>2. UpToDate(tx[p])'
    BY <1>1 DEF UpToDate, StepsLeft
  <1>3. ASSUME NEW u \in DOMAIN friends'
        PROVE  friends'[u] = ContactsOf(u)' \/ Drops(tx'[p], u)
    <2>1. \A q \in Proc : tx[q].todo = << >>
      BY OthersIdle DEF SerialInv
    <2>2. \A q \in Proc : ~Drops(tx[q], u)
      BY <2>1 DEF Drops, StepsLeft
    <2>3. friends[u] = ContactsOf(u)
      BY <2>2 DEF SerialInv
    <2> QED
      BY <1>1, <1>3, <2>3
  <1> QED
    BY <1>1, <1>2, <1>3, SerialStep

-----------------------------------------------------------------------------
(* The steps                                                                 *)

LEMMA InitSerial == Init => SerialInv
  <1> SUFFICES ASSUME Init PROVE SerialInv
    OBVIOUS
  <1>1. \A p \in Proc : tx[p] = Idle /\ Idle.pc = "idle" /\ Idle.todo = << >>
    BY DEF Init, Idle, Request
  <1>2. \A p \in Proc : UpToDate(tx[p])
    BY <1>1, IdleUpToDate
  <1>3. session = << >> /\ friends = << >>
    BY DEF Init
  <1>4. \A a, b \in User : LiveRows(session, a, b) = {}
    BY <1>3 DEF LiveRows, Rows
  <1>5. \A a, b \in User : AtMostOne(LiveRows(contact, a, b)) /\ AtMostOne(LiveRows(apply, a, b))
    <2>1. CASE contact = << >> /\ apply = << >>
      BY <2>1 DEF LiveRows, Rows, AtMostOne
    <2>2. ASSUME NEW a \in User, NEW b \in User, a # b,
                 contact = <<[user |-> a, peer |-> b, status |-> "NORMAL", live |-> TRUE],
                             [user |-> b, peer |-> a, status |-> "NORMAL", live |-> TRUE]>>,
                 apply = <<[user |-> b, peer |-> a, status |-> "AGREE", live |-> TRUE]>>
          PROVE  \A x, y \in User : /\ AtMostOne(LiveRows(contact, x, y))
                                    /\ AtMostOne(LiveRows(apply, x, y))
      <3>1. DOMAIN contact = {1, 2} /\ DOMAIN apply = {1}
        BY <2>2
      <3>2. contact[1].user = a /\ contact[2].user = b
        BY <2>2
      <3> QED
        BY <2>2, <3>1, <3>2 DEF LiveRows, Rows, AtMostOne
    <2> QED
      BY <2>1, <2>2 DEF Init
  <1> QED
    BY <1>1, <1>2, <1>3, <1>4, <1>5 DEF SerialInv, NoSessionOfDisabled, AtMostOne

\* A new request, while no other is being served, begins with nothing read.
LEMMA CallSerial ==
  ASSUME ContactInv, SerialInv, NEW p \in Proc, Call(p) PROVE SerialInv'
  <1> SUFFICES ASSUME clean' PROVE SerialInv'
    BY DEF SerialInv
  <1>1. clean /\ \A q \in Proc : tx[q].pc = "idle" /\ tx[q].todo = << >>
    BY DEF Call, OneAtATime, SerialInv
  <1>2. PICK op \in Op, a \in User, b \in User \cup {NoUser} :
          Becomes(p, Request(EntryPc(op), op, a, b)) /\ status[a] # "deleted"
    BY DEF Call, Legal
  <1> DEFINE t == Request(EntryPc(op), op, a, b)
  <1>3. /\ t.pc = EntryPc(op) /\ t.op = op /\ t.a = a /\ t.todo = << >>
        /\ EntryPc(op) \notin {"create", "insert"}
        /\ op \in {"apply", "pass", "refuse", "blackApply", "cancel"} => EntryPc(op) # "commit"
    BY DEF Request, EntryPc
  <1> HIDE DEF t
  <1>4. tx'[p] = t /\ \A q \in Proc \ {p} : tx'[q] = tx[q]
    BY <1>2 DEF Becomes, ContactInv, TypeOK, t
  <1>5. \A q \in Proc : UpToDate(tx[q])' /\ tx'[q].todo = << >>
    <2>1. UNCHANGED status
      BY DEF Call, db
    <2> QED
      BY <1>1, <1>2, <1>3, <1>4, <2>1 DEF UpToDate, StepsLeft
  <1>6. \A u \in DOMAIN friends : friends[u] = ContactsOf(u)
    BY <1>1 DEF SerialInv, Drops, StepsLeft
  <1>7. UNCHANGED <<db, friends>>
    BY DEF Call, redis
  <1>8. \A u \in DOMAIN friends' : friends'[u] = ContactsOf(u)'
    BY <1>6, <1>7 DEF ContactsOf, LiveRows, Rows, db
  <1>9. Singles' /\ NoStrays'
    <2>1. Singles /\ NoStrays
      BY <1>1 DEF SerialInv, Singles, NoStrays, NoSessionOfDisabled
    <2> QED
      BY <1>7, <2>1 DEF Singles, NoStrays, AtMostOne, LiveRows, Rows, db
  <1>10. \A q, r \in Proc : tx'[q].pc # "idle" /\ tx'[r].pc # "idle" => q = r
    BY <1>1, <1>4
  <1> QED
    BY <1>5, <1>8, <1>9, <1>10 DEF SerialInv, Singles, NoStrays, NoSessionOfDisabled

\* An account comes back between two requests: what was deleted along with it stays so.
LEMMA ReviveSerial ==
  ASSUME ContactInv, SerialInv, NEW v \in User, Revive(v), clean' PROVE SerialInv'
  <1>1. clean /\ \A q \in Proc : tx[q].pc = "idle" /\ tx[q].todo = << >>
    BY DEF Revive, OneAtATime, SerialInv
  <1>2. /\ UNCHANGED <<contact, apply, session, tx, friends>>
        /\ \A x \in User : status[x] = "NORMAL" => status'[x] = "NORMAL"
    BY DEF Revive, redis, ContactInv, TypeOK
  <1>3. \A q \in Proc : UpToDate(tx[q])' /\ tx'[q].todo = << >>
    BY <1>1, <1>2 DEF UpToDate, StepsLeft
  <1>4. \A u \in DOMAIN friends : friends[u] = ContactsOf(u)
    BY <1>1 DEF SerialInv, Drops, StepsLeft
  <1>5. \A u \in DOMAIN friends' : friends'[u] = ContactsOf(u)'
    BY <1>2, <1>4 DEF ContactsOf, LiveRows, Rows
  <1>6. Singles' /\ NoStrays'
    <2>1. Singles /\ NoStrays
      BY <1>1 DEF SerialInv, Singles, NoStrays, NoSessionOfDisabled
    <2>2. \A i \in DOMAIN session : session[i].user \in User /\ session[i].peer \in User
      BY RowTypes DEF ContactInv, SessionRow
    <2> QED
      BY <1>2, <2>1, <2>2 DEF Singles, NoStrays, AtMostOne, LiveRows, Rows
  <1>7. \A q, r \in Proc : tx'[q].pc # "idle" /\ tx'[r].pc # "idle" => q = r
    BY <1>1, <1>2
  <1> QED
    BY <1>3, <1>5, <1>6, <1>7 DEF SerialInv, Singles, NoStrays, NoSessionOfDisabled

\* The reads of the requests about applications and contacts.
LEMMA RelationReads ==
  ASSUME ContactInv, SerialInv, clean, NEW p \in Proc,
         \/ ApplyRead(p) \/ PassRead(p) \/ AnswerRead(p) \/ CancelRead(p) \/ GetUserList(p)
  PROVE  SerialInv'
  <1>1. tx[p].pc = "read" /\ tx[p].todo = << >> /\ tx[p] \in TxState
    BY Mover DEF ApplyRead, PassRead, AnswerRead, CancelRead, GetUserList, At, SerialInv
  <1>0. status[tx[p].a] # "deleted"
    BY <1>1 DEF SerialInv, UpToDate
  <1>2. CASE Refuse(p)
    BY <1>1, <1>2, RefuseSerial
  <1>3. CASE ApplyRead(p) /\ ~Refuse(p)
    <2> DEFINE s == LiveRows(apply, tx[p].a, tx[p].b)
    <2>1. PICK i \in IF s = {} THEN {0} ELSE {j \in s : apply[j].status # "BLACK"} :
            /\ Reads(p, [tx[p] EXCEPT !.pc = "commit", !.i = i])
            /\ status[tx[p].b] = "NORMAL"
      BY <1>3 DEF ApplyRead
    <2> DEFINE t == [tx[p] EXCEPT !.pc = "commit", !.i = i]
    <2>2. /\ t.pc = "commit" /\ t.op = "apply" /\ t.a = tx[p].a /\ t.b = tx[p].b
          /\ t.i = i /\ t.todo = << >>
      BY <1>1, <1>3 DEF TxState, ApplyRead, At
    <2>3. IF i = 0 THEN s = {} ELSE i \in s /\ apply[i].status # "BLACK"
      <3>1. 0 \notin s
        BY RowTypes DEF LiveRows, Rows, ContactInv
      <3> QED
        BY <2>1, <3>1
    <2> HIDE DEF t
    <2>4. UpToDate(t)
      BY <1>0, <2>1, <2>2, <2>3 DEF UpToDate, StepsLeft
    <2> QED
      BY <1>1, <2>1, <2>2, <2>4, ReadsSerial DEF t
  <1>4. CASE (PassRead(p) \/ AnswerRead(p)) /\ ~Refuse(p)
    <2>1. PICK i \in LiveRows(apply, tx[p].b, tx[p].a) :
            /\ Reads(p, [tx[p] EXCEPT !.pc = "commit", !.i = i])
            /\ tx[p].op \in {"pass", "refuse", "blackApply"}
            /\ tx[p].op = "pass" => /\ LiveRows(contact, tx[p].a, tx[p].b) = {}
                                    /\ status[tx[p].b] = "NORMAL"
            /\ tx[p].op = "refuse" => apply[i].status = "PENDING"
      BY <1>4 DEF PassRead, AnswerRead, At
    <2> DEFINE t == [tx[p] EXCEPT !.pc = "commit", !.i = i]
    <2>2. /\ t.pc = "commit" /\ t.op = tx[p].op /\ t.a = tx[p].a /\ t.b = tx[p].b
          /\ t.i = i /\ t.todo = << >>
      BY <1>1 DEF TxState
    <2> HIDE DEF t
    <2>3. UpToDate(t)
      BY <1>0, <2>1, <2>2 DEF UpToDate, StepsLeft
    <2> QED
      BY <1>1, <2>1, <2>2, <2>3, ReadsSerial DEF t
  <1>5. CASE CancelRead(p) /\ ~Refuse(p)
    <2>1. PICK i \in LiveRows(contact, tx[p].a, tx[p].b), j \in LiveRows(contact, tx[p].b, tx[p].a) :
            /\ Reads(p, [tx[p] EXCEPT !.pc = "commit", !.i = i, !.j = j])
            /\ contact[i].status = "BLACK"
      BY <1>5 DEF CancelRead, Unblockable
    <2> DEFINE t == [tx[p] EXCEPT !.pc = "commit", !.i = i, !.j = j]
    <2>2. /\ t.pc = "commit" /\ t.op = "cancel" /\ t.a = tx[p].a
          /\ t.i = i /\ t.j = j /\ t.todo = << >>
      BY <1>1, <1>5 DEF TxState, CancelRead, At
    <2> HIDE DEF t
    <2>3. UpToDate(t)
      BY <1>0, <2>1, <2>2 DEF UpToDate, StepsLeft, LiveRows
    <2> QED
      BY <1>1, <2>1, <2>2, <2>3, ReadsSerial DEF t
  <1>6. CASE GetUserList(p) /\ ~Refuse(p)
    <2> DEFINE t == [tx[p] EXCEPT !.pc = "redis", !.got = ContactsOf(tx[p].a),
                                  !.todo = <<"putFriends">>]
    <2>1. Reads(p, t)
      BY <1>6 DEF GetUserList
    <2>2. t.pc = "redis" /\ t.a = tx[p].a /\ t.got = ContactsOf(tx[p].a)
      BY <1>1 DEF TxState
    <2> HIDE DEF t
    <2>3. UpToDate(t)
      BY <2>2 DEF UpToDate
    <2> QED
      BY <1>1, <2>1, <2>2, <2>3, ReadsSerial
  <1> QED
    BY <1>2, <1>3, <1>4, <1>5, <1>6

\* Opening a session: it is created only after none has been found, for two
\* users who are not disabled.
LEMMA SessionReads ==
  ASSUME ContactInv, SerialInv, clean, NEW p \in Proc,
         \/ CheckContact(p) \/ CheckUser(p) \/ ListHit(p) \/ ListMiss(p) \/ CacheList(p)
         \/ OpenSession(p) \/ FindSession(p) \/ CreateRead(p) \/ Opened(p)
  PROVE  SerialInv'
  <1>1. tx[p].pc # "idle" /\ tx[p].todo = << >> /\ tx[p] \in TxState
    BY Mover DEF CheckContact, CheckUser, ListHit, ListMiss, CacheList, OpenSession,
                 FindSession, CreateRead, Opened, SerialInv
  <1>2. CASE Refuse(p)
    BY <1>1, <1>2, RefuseSerial
  <1>3. CASE \/ CheckContact(p) /\ ~Refuse(p)
             \/ CheckUser(p) /\ ~Refuse(p)
             \/ OpenSession(p) \/ Opened(p)
    <2>1. PICK pc \in {"checkUser", "open", "opened", "find"} : Reads(p, [tx[p] EXCEPT !.pc = pc])
      BY <1>3 DEF CheckContact, CheckUser, OpenSession, Opened
    <2> DEFINE t == [tx[p] EXCEPT !.pc = pc]
    <2>2. t.pc = pc /\ t.todo = << >>
      BY <1>1 DEF TxState
    <2> QED
      BY <1>1, <2>1, <2>2, NothingHeld, ReadSerial DEF Reads, redis
  <1>4. CASE (ListHit(p) \/ ListMiss(p) \/ CacheList(p)) /\ ~Refuse(p)
    <2>1. PICK t : /\ Becomes(p, t) /\ UNCHANGED <<db, friends>>
                   /\ t.pc \in {"open", "cacheList"} /\ t.todo = tx[p].todo
      <3>1. ASSUME NEW b PROVE /\ [tx[p] EXCEPT !.pc = "open", !.b = b].pc = "open"
                               /\ [tx[p] EXCEPT !.pc = "open", !.b = b].todo = tx[p].todo
        BY <1>1 DEF TxState
      <3>2. ASSUME NEW g PROVE /\ [tx[p] EXCEPT !.pc = "cacheList", !.got = g].pc = "cacheList"
                               /\ [tx[p] EXCEPT !.pc = "cacheList", !.got = g].todo = tx[p].todo
        BY <1>1 DEF TxState
      <3>3. CASE ListHit(p) \/ CacheList(p)
        <4>1. PICK b : Becomes(p, [tx[p] EXCEPT !.pc = "open", !.b = b]) /\ UNCHANGED <<db, friends>>
          BY <3>3 DEF ListHit, CacheList, Reads, redis
        <4> QED
          BY <3>1, <4>1
      <3>4. CASE ListMiss(p)
        BY <1>4, <3>2, <3>4 DEF ListMiss, Reads, redis
      <3> QED
        BY <1>4, <3>3, <3>4
    <2> QED
      BY <1>1, <2>1, NothingHeld, ReadSerial
  <1>5. CASE FindSession(p)
    <2>1. CASE /\ LiveRows(session, tx[p].a, tx[p].b) = {}
               /\ Reads(p, [tx[p] EXCEPT !.pc = "create"])
      <3> DEFINE t == [tx[p] EXCEPT !.pc = "create"]
      <3>1. t.pc = "create" /\ t.todo = << >> /\ t.a = tx[p].a /\ t.b = tx[p].b
        BY <1>1 DEF TxState
      <3> HIDE DEF t
      <3>2. UpToDate(t)
        BY <2>1, <3>1 DEF UpToDate, StepsLeft
      <3> QED
        BY <1>1, <2>1, <3>1, <3>2, ReadSerial DEF Reads, redis, t
    <2>2. ASSUME NEW i, Reads(p, [tx[p] EXCEPT !.pc = "redis", !.i = i, !.todo = <<"putOpened">>])
          PROVE  SerialInv'
      <3> DEFINE t == [tx[p] EXCEPT !.pc = "redis", !.i = i, !.todo = <<"putOpened">>]
      <3>1. t.pc = "redis" /\ t.todo = <<"putOpened">>
        BY <1>1 DEF TxState
      <3> HIDE DEF t
      <3>2. UpToDate(t)
        BY <3>1 DEF UpToDate, StepsLeft
      <3> QED
        BY <1>1, <2>2, <3>1, <3>2, ReadSerial DEF Reads, redis, t
    <2> QED
      BY <1>5, <2>1, <2>2 DEF FindSession
  <1>6. CASE CreateRead(p) /\ ~Refuse(p)
    <2> DEFINE t == [tx[p] EXCEPT !.pc = "insert"]
    <2>1. Reads(p, t) /\ status[tx[p].a] = "NORMAL" /\ status[tx[p].b] = "NORMAL"
          /\ tx[p].pc = "create"
      BY <1>6 DEF CreateRead
    <2>2. LiveRows(session, tx[p].a, tx[p].b) = {}
      BY <2>1 DEF SerialInv, UpToDate
    <2>3. t.pc = "insert" /\ t.todo = << >> /\ t.a = tx[p].a /\ t.b = tx[p].b
      BY <1>1 DEF TxState
    <2> HIDE DEF t
    <2>4. UpToDate(t)
      BY <2>1, <2>2, <2>3 DEF UpToDate, StepsLeft
    <2> QED
      BY <1>1, <2>1, <2>3, <2>4, ReadSerial DEF Reads, redis
  <1> QED
    BY <1>2, <1>3, <1>4, <1>5, <1>6

-----------------------------------------------------------------------------
(* The commits                                                               *)

LEMMA Now ==
  ASSUME ContactInv, SerialInv, clean
  PROVE  /\ Singles /\ NoStrays /\ TypeOK /\ \A p \in Proc : UpToDate(tx[p])
         /\ contact \in Seq(ContactRow) /\ apply \in Seq(ApplyRow) /\ session \in Seq(SessionRow)
  BY DEF SerialInv, Singles, NoStrays, NoSessionOfDisabled, ContactInv, TypeOK

\* Fewer sessions of the same users, whose status is what it was or normal.
LEMMA BurySessions ==
  ASSUME ContactInv, SerialInv, clean, NEW s, session' = Bury(session, s),
         \A i \in DOMAIN session \ s :
           /\ status[session[i].user] = "NORMAL" => status'[session[i].user] = "NORMAL"
           /\ status[session[i].peer] = "NORMAL" => status'[session[i].peer] = "NORMAL"
  PROVE  /\ NoStrays'
         /\ \A a, b \in User : AtMostOne(LiveRows(session', a, b))
  <1>1. \A a, b \in User : AtMostOne(LiveRows(session, a, b) \ s)
    BY Now DEF Singles, AtMostOne
  <1>2. \A a, b \in User : AtMostOne(LiveRows(session', a, b))
    BY <1>1, Now, BuryLive
  <1>3. /\ DOMAIN session' = DOMAIN session
        /\ \A i \in DOMAIN session :
             session'[i] = [session[i] EXCEPT !.live = session[i].live /\ i \notin s]
    BY Now, BuryTable
  <1>4. \A i \in DOMAIN session : session[i] \in SessionRow
    BY Now, ElementOfSeq
  <1>5. ASSUME NEW i \in DOMAIN session', session'[i].live
        PROVE  status'[session'[i].user] = "NORMAL" /\ status'[session'[i].peer] = "NORMAL"
    <2>1. i \in DOMAIN session /\ session[i] \in SessionRow
      BY <1>3, <1>4
    <2>2. /\ session'[i].user = session[i].user /\ session'[i].peer = session[i].peer
          /\ session'[i].live = (session[i].live /\ i \notin s)
      BY <1>3, <2>1 DEF SessionRow
    <2>3. session[i].live /\ i \notin s
      BY <1>5, <2>2
    <2> QED
      BY <2>1, <2>2, <2>3, Now DEF NoStrays
  <1> QED
    BY <1>2, <1>5 DEF NoStrays

\* Someone's contacts, when the rows from him are what they were.
LEMMA SameContacts ==
  ASSUME NEW u, \A v \in User : LiveRows(contact', u, v) = LiveRows(contact, u, v)
  PROVE  ContactsOf(u)' = ContactsOf(u)
  BY DEF ContactsOf

LEMMA DeleteSerial ==
  ASSUME ContactInv, SerialInv, clean, NEW p \in Proc, DeleteContact(p)
  PROVE  SerialInv'
  <1> DEFINE t == [tx[p] EXCEPT !.pc = "redis", !.todo = <<"dropA", "dropB">>]
             a == tx[p].a
             b == tx[p].b
  <1>1. tx[p].pc = "commit" /\ tx[p] \in TxState
    BY Mover DEF DeleteContact, At
  <1>2. /\ t.pc = "redis" /\ t.todo = <<"dropA", "dropB">> /\ t.a = a /\ t.b = b
    BY <1>1 DEF TxState
  <1>3. /\ contact' = Bury(contact, Between(contact, a, b))
        /\ session' = Bury(session, Between(session, a, b))
        /\ apply' = Bury(apply, Between(apply, a, b))
        /\ Becomes(p, t) /\ UNCHANGED <<status, friends>>
    BY DEF DeleteContact, Committed, redis
  <1> HIDE DEF t, a, b
  <1>4. NoStrays' /\ \A x, y \in User : AtMostOne(LiveRows(session', x, y))
    BY <1>3, BurySessions
  <1>5. \A x, y \in User : AtMostOne(LiveRows(contact', x, y)) /\ AtMostOne(LiveRows(apply', x, y))
    BY <1>3, Now, BuryLive, FewerRows DEF Singles
  <1>6. StepsLeft(t) = {"dropA", "dropB"}
    BY <1>2 DEF StepsLeft
  <1>7. ASSUME NEW u \in DOMAIN friends, ~Drops(t, u)
        PROVE  ContactsOf(u)' = ContactsOf(u)
    <2>1. u # a /\ u # b
      BY <1>2, <1>6, <1>7 DEF Drops
    <2>2. ASSUME NEW v \in User PROVE LiveRows(contact', u, v) = LiveRows(contact, u, v)
      <3>1. LiveRows(contact', u, v) = LiveRows(contact, u, v) \ Between(contact, a, b)
        BY <1>3, Now, BuryLive
      <3>2. LiveRows(contact, u, v) \cap Between(contact, a, b) = {}
        BY <2>1 DEF LiveRows, Rows, Between
      <3> QED
        BY <3>1, <3>2
    <2> QED
      BY <2>2, SameContacts
  <1> QED
    BY <1>1, <1>2, <1>3, <1>4, <1>5, <1>6, <1>7, CommitSerial DEF Singles

LEMMA BlackSerial ==
  ASSUME ContactInv, SerialInv, clean, NEW p \in Proc, BlackContact(p)
  PROVE  SerialInv'
  <1> DEFINE t == [tx[p] EXCEPT !.pc = "redis", !.todo = <<"dropA", "dropB">>]
             a == tx[p].a
             b == tx[p].b
  <1>1. tx[p].pc = "commit" /\ tx[p] \in TxState
    BY Mover DEF BlackContact, At
  <1>2. /\ t.pc = "redis" /\ t.todo = <<"dropA", "dropB">>
    BY <1>1 DEF TxState
  <1>3. /\ contact' = Blacken(a, b)
        /\ session' = Bury(session, Between(session, a, b))
        /\ Becomes(p, t) /\ UNCHANGED <<status, apply, friends>>
    BY DEF BlackContact, Committed, redis
  <1> HIDE DEF t, a, b
  <1>4. NoStrays' /\ \A x, y \in User : AtMostOne(LiveRows(session', x, y))
    BY <1>3, BurySessions
  <1>5. ASSUME NEW x, NEW y PROVE LiveRows(contact', x, y) = LiveRows(contact, x, y)
    <2>1. DOMAIN contact' = DOMAIN contact
      BY <1>3 DEF Blacken
    <2>2. ASSUME NEW i \in DOMAIN contact
          PROVE  /\ contact'[i].user = contact[i].user /\ contact'[i].peer = contact[i].peer
                 /\ contact'[i].live = contact[i].live
      BY <1>3, RowTypes DEF Blacken, ContactRow, ContactInv
    <2> QED
      BY <2>1, <2>2 DEF LiveRows, Rows
  <1>6. \A x, y \in User : AtMostOne(LiveRows(contact', x, y)) /\ AtMostOne(LiveRows(apply', x, y))
    BY <1>3, <1>5, Now DEF Singles
  <1>7. \A u : ContactsOf(u)' = ContactsOf(u)
    BY <1>5, SameContacts
  <1>8. "putFriends" \notin StepsLeft(t)
    BY <1>2 DEF StepsLeft
  <1> QED
    BY <1>1, <1>2, <1>3, <1>4, <1>6, <1>7, <1>8, CommitSerial DEF Singles

\* A cancellation saves two rows that are live.
LEMMA CancelSerial ==
  ASSUME ContactInv, SerialInv, clean, NEW p \in Proc, CancelCommit(p)
  PROVE  SerialInv'
  <1> DEFINE t == [tx[p] EXCEPT !.pc = "redis", !.todo = <<"dropA", "dropB">>]
             i == tx[p].i
             j == tx[p].j
  <1>1. /\ tx[p].pc = "commit" /\ tx[p] \in TxState /\ tx[p].op = "cancel"
        /\ i \in DOMAIN contact /\ j \in DOMAIN contact
    BY Mover DEF CancelCommit, At, HoldsRows, Rows, MirroredContacts
  <1>2. contact[i].live /\ contact[j].live
    <2>1. contact[i].live /\ contact[j].live
      BY <1>1, Now DEF UpToDate
    <2> QED
      BY <1>1, <2>1, RowTypes DEF ContactInv, ContactRow
  <1>3. /\ t.pc = "redis" /\ t.todo = <<"dropA", "dropB">>
    BY <1>1 DEF TxState
  <1>4. /\ contact' = Save(Save(contact, i, "NORMAL"), j, "NORMAL")
        /\ Becomes(p, t) /\ UNCHANGED <<status, apply, session, friends>>
    BY DEF CancelCommit, Committed, redis
  <1> HIDE DEF t, i, j
  <1>5. ASSUME NEW x, NEW y PROVE LiveRows(contact', x, y) = LiveRows(contact, x, y)
    <2> DEFINE m == Save(contact, i, "NORMAL")
    <2>1. LiveRows(m, x, y) = LiveRows(contact, x, y)
      BY <1>1, <1>2, SaveLive
    <2>2. j \in DOMAIN m /\ m[j].live
      BY <1>1, <1>2 DEF Save
    <2> HIDE DEF m
    <2>3. LiveRows(Save(m, j, "NORMAL"), x, y) = LiveRows(m, x, y)
      BY <2>2, SaveLive
    <2> QED
      BY <1>4, <2>1, <2>3 DEF m
  <1>6. Singles' /\ NoStrays'
    BY <1>4, <1>5, Now DEF Singles, NoStrays
  <1>7. \A u : ContactsOf(u)' = ContactsOf(u)
    BY <1>5, SameContacts
  <1>8. "putFriends" \notin StepsLeft(t)
    BY <1>3 DEF StepsLeft
  <1> QED
    BY <1>1, <1>3, <1>4, <1>6, <1>7, <1>8, CommitSerial

\* A commit that leaves contacts alone: the lists stay true.
LEMMA OtherSerial ==
  ASSUME ContactInv, SerialInv, clean, NEW p \in Proc, NEW t, tx[p].pc \notin {"idle", "redis"},
         Becomes(p, t), UNCHANGED <<friends, contact>>, t.pc = "redis",
         t.todo \in {<< >>, <<"dropFriends">>, <<"putOpened", "dropChats">>,
                     <<"dropOpened", "dropChats">>},
         \A x, y \in User : AtMostOne(LiveRows(apply', x, y)) /\ AtMostOne(LiveRows(session', x, y)),
         NoStrays'
  PROVE  SerialInv'
  <1>1. "putFriends" \notin StepsLeft(t)
    BY DEF StepsLeft
  <1>2. \A u : ContactsOf(u)' = ContactsOf(u)
    BY SameContacts
  <1>3. Singles'
    BY Now DEF Singles
  <1> QED
    BY <1>1, <1>2, <1>3, CommitSerial

LEMMA ApplySerial ==
  ASSUME ContactInv, SerialInv, clean, NEW p \in Proc, ApplyCommit(p)
  PROVE  SerialInv'
  <1> DEFINE t == [tx[p] EXCEPT !.pc = "redis", !.todo = << >>]
             a == tx[p].a
             b == tx[p].b
             i == tx[p].i
             r == [user |-> a, peer |-> b, status |-> "PENDING", live |-> TRUE]
  <1>1. /\ tx[p].pc = "commit" /\ tx[p] \in TxState /\ tx[p].op = "apply"
        /\ a \in User /\ b \in User
    BY Mover DEF ApplyCommit, At, WellFormed
  <1>2. IF i = 0 THEN LiveRows(apply, a, b) = {} ELSE i \in LiveRows(apply, a, b)
    BY <1>1, Now DEF UpToDate
  <1>3. t.pc = "redis" /\ t.todo = << >>
    BY <1>1 DEF TxState
  <1>4. /\ apply' = IF i = 0 THEN Append(apply, r) ELSE Save(apply, i, "PENDING")
        /\ Becomes(p, t) /\ UNCHANGED <<status, contact, session, friends>>
    BY DEF ApplyCommit, Committed, redis
  <1>5. r \in ApplyRow /\ r.live = TRUE /\ r.user = a /\ r.peer = b
    BY <1>1 DEF ApplyRow
  <1> HIDE DEF t, i, r, a, b
  <1>6. ASSUME NEW x \in User, NEW y \in User PROVE AtMostOne(LiveRows(apply', x, y))
    <2>1. CASE i = 0
      <3>1. LiveRows(apply', x, y) =
              LiveRows(apply, x, y) \cup (IF a = x /\ b = y THEN {Len(apply) + 1} ELSE {})
        BY <1>4, <1>5, <2>1, Now, AppendLive
      <3> QED
        BY <1>2, <2>1, <3>1, Now DEF Singles, AtMostOne
    <2>2. CASE i # 0
      <3>1. i \in DOMAIN apply /\ apply[i].live
        BY <1>2, <2>2, RowTypes DEF LiveRows, Rows, ContactInv, ApplyRow
      <3>2. LiveRows(apply', x, y) = LiveRows(apply, x, y)
        BY <1>4, <2>2, <3>1, SaveLive
      <3> QED
        BY <3>2, Now DEF Singles
    <2> QED
      BY <2>1, <2>2
  <1>7. NoStrays' /\ \A x, y \in User : AtMostOne(LiveRows(session', x, y))
    BY <1>4, Now DEF NoStrays, Singles
  <1> QED
    BY <1>1, <1>3, <1>4, <1>6, <1>7, OtherSerial

LEMMA AnswerSerial ==
  ASSUME ContactInv, SerialInv, clean, NEW p \in Proc, AnswerCommit(p)
  PROVE  SerialInv'
  <1> DEFINE t == [tx[p] EXCEPT !.pc = "redis", !.todo = << >>]
             i == tx[p].i
             s == IF tx[p].op = "refuse" THEN "REFUSE" ELSE "BLACK"
  <1>1. tx[p].pc = "commit" /\ tx[p] \in TxState /\ tx[p].op \in {"refuse", "blackApply"}
    BY Mover DEF AnswerCommit, At
  <1>2. i \in DOMAIN apply /\ apply[i].live
    <2>1. i \in LiveRows(apply, tx[p].b, tx[p].a)
      BY <1>1, Now DEF UpToDate
    <2> QED
      BY <2>1, RowTypes DEF LiveRows, Rows, ContactInv, ApplyRow
  <1>3. t.pc = "redis" /\ t.todo = << >>
    BY <1>1 DEF TxState
  <1>4. /\ apply' = Save(apply, i, s)
        /\ Becomes(p, t) /\ UNCHANGED <<status, contact, session, friends>>
    BY DEF AnswerCommit, Committed, redis
  <1> HIDE DEF t, i, s
  <1>5. \A x, y \in User : AtMostOne(LiveRows(apply', x, y))
    BY <1>2, <1>4, SaveLive, Now DEF Singles
  <1>6. NoStrays' /\ \A x, y \in User : AtMostOne(LiveRows(session', x, y))
    BY <1>4, Now DEF NoStrays, Singles
  <1> QED
    BY <1>1, <1>3, <1>4, <1>5, <1>6, OtherSerial

\* The two who become contacts were not, in either direction.
LEMMA PassSerial ==
  ASSUME ContactInv, SerialInv, clean, NEW p \in Proc, PassCommit(p)
  PROVE  SerialInv'
  <1> DEFINE t == [tx[p] EXCEPT !.pc = "redis", !.todo = <<"dropA", "dropB">>]
             a == tx[p].a
             b == tx[p].b
             i == tx[p].i
             n == Len(contact)
  <1>1. /\ tx[p].pc = "commit" /\ tx[p] \in TxState /\ tx[p].op = "pass"
        /\ a \in User /\ b \in User /\ b # a
    BY Mover DEF PassCommit, At, WellFormed
  <1>2. i \in LiveRows(apply, b, a) /\ LiveRows(contact, a, b) = {}
    BY <1>1, Now DEF UpToDate
  <1>3. t.pc = "redis" /\ t.todo = <<"dropA", "dropB">> /\ t.a = a /\ t.b = b
    BY <1>1 DEF TxState
  <1>4. /\ apply' = Save(apply, i, "AGREE")
        /\ contact' = contact \o <<Normal(a, b), Normal(b, a)>>
        /\ Becomes(p, t) /\ UNCHANGED <<status, session, friends>>
    BY DEF PassCommit, Befriended, Committed, redis
  <1>5. /\ n \in Nat /\ DOMAIN contact = 1..n /\ DOMAIN contact' = 1..(n + 2)
        /\ \A k \in 1..n : contact'[k] = contact[k]
        /\ contact'[n + 1] = Normal(a, b) /\ contact'[n + 2] = Normal(b, a)
    <2>1. contact \in Seq(ContactRow) /\ Normal(a, b) \in ContactRow /\ Normal(b, a) \in ContactRow
      BY <1>1, Now DEF Normal, ContactRow
    <2> QED
      BY <1>4, <2>1
  <1> HIDE DEF t, a, b, i, n
  <1>6. \A x, y : LiveRows(contact', x, y) =
          LiveRows(contact, x, y) \cup (IF x = a /\ y = b THEN {n + 1} ELSE {})
                                  \cup (IF x = b /\ y = a THEN {n + 2} ELSE {})
    <2>1. /\ DOMAIN contact' = DOMAIN contact \cup {n + 1, n + 2}
          /\ n + 1 \notin DOMAIN contact /\ n + 2 \notin DOMAIN contact /\ n + 1 # n + 2
          /\ \A k \in DOMAIN contact : contact'[k] = contact[k]
      BY <1>5
    <2>2. /\ contact'[n + 1].user = a /\ contact'[n + 1].peer = b /\ contact'[n + 1].live
          /\ contact'[n + 2].user = b /\ contact'[n + 2].peer = a /\ contact'[n + 2].live
      BY <1>5 DEF Normal
    <2> QED
      BY <2>1, <2>2 DEF LiveRows, Rows
  <1>7. LiveRows(contact, b, a) = {}
    BY <1>2, BothLive
  <1>8. \A x, y \in User : AtMostOne(LiveRows(contact', x, y))
    BY <1>1, <1>2, <1>6, <1>7, Now DEF Singles, AtMostOne
  <1>9. i \in DOMAIN apply /\ apply[i].live
    BY <1>2 DEF LiveRows, Rows
  <1>10. \A x, y \in User : AtMostOne(LiveRows(apply', x, y))
    BY <1>4, <1>9, SaveLive, Now DEF Singles
  <1>11. NoStrays' /\ \A x, y \in User : AtMostOne(LiveRows(session', x, y))
    BY <1>4, Now DEF NoStrays, Singles
  <1>12. StepsLeft(t) = {"dropA", "dropB"}
    BY <1>3 DEF StepsLeft
  <1>13. ASSUME NEW u \in DOMAIN friends, ~Drops(t, u)
        PROVE  ContactsOf(u)' = ContactsOf(u)
    <2>1. u # a /\ u # b
      BY <1>3, <1>12, <1>13 DEF Drops
    <2>2. ASSUME NEW v \in User PROVE LiveRows(contact', u, v) = LiveRows(contact, u, v)
      BY <1>6, <2>1
    <2> QED
      BY <2>2, SameContacts
  <1> QED
    BY <1>1, <1>3, <1>4, <1>8, <1>10, <1>11, <1>12, <1>13, CommitSerial DEF Singles

\* A session is created for two who have none and are not disabled.
LEMMA CreateSerial ==
  ASSUME ContactInv, SerialInv, clean, NEW p \in Proc, CreateSession(p)
  PROVE  SerialInv'
  <1> DEFINE n == Len(session) + 1
             t == [tx[p] EXCEPT !.pc = "redis", !.i = n, !.todo = <<"putOpened", "dropChats">>]
             a == tx[p].a
             b == tx[p].b
             r == [user |-> a, peer |-> b, live |-> TRUE]
  <1>1. tx[p].pc = "insert" /\ tx[p] \in TxState /\ a \in User /\ b \in User
    BY Mover DEF CreateSession, WellFormed
  <1>2. LiveRows(session, a, b) = {} /\ status[a] = "NORMAL" /\ status[b] = "NORMAL"
    BY <1>1, Now DEF UpToDate
  <1>3. t.pc = "redis" /\ t.todo = <<"putOpened", "dropChats">>
    BY <1>1 DEF TxState
  <1>4. /\ session' = Append(session, r) /\ Becomes(p, t)
        /\ UNCHANGED <<status, contact, apply, friends>>
    BY DEF CreateSession, redis
  <1>5. r \in SessionRow /\ r.live /\ r.user = a /\ r.peer = b
    BY <1>1 DEF SessionRow
  <1>6. /\ DOMAIN session' = DOMAIN session \cup {n}
        /\ \A k \in DOMAIN session : session'[k] = session[k]
        /\ session'[n] = r
    BY <1>4, Now
  <1> HIDE DEF t, r, a, b
  <1>7. ASSUME NEW x \in User, NEW y \in User PROVE AtMostOne(LiveRows(session', x, y))
    <2>1. LiveRows(session', x, y) =
            LiveRows(session, x, y) \cup (IF a = x /\ b = y THEN {Len(session) + 1} ELSE {})
      BY <1>4, <1>5, Now, AppendLive
    <2> QED
      BY <1>2, <2>1, Now DEF Singles, AtMostOne
  <1> HIDE DEF n
  <1>8. NoStrays'
    BY <1>2, <1>4, <1>5, <1>6, Now DEF NoStrays
  <1>9. \A x, y \in User : AtMostOne(LiveRows(apply', x, y))
    BY <1>4, Now DEF Singles
  <1> QED
    BY <1>1, <1>3, <1>4, <1>7, <1>8, <1>9, OtherSerial

LEMMA DeleteSessionSerial ==
  ASSUME ContactInv, SerialInv, clean, NEW p \in Proc, DeleteSession(p)
  PROVE  SerialInv'
  <1>1. tx[p].pc = "commit" /\ tx[p] \in TxState /\ tx[p].todo = << >>
    BY Mover DEF DeleteSession, At, SerialInv
  <1>2. CASE Refuse(p)
    BY <1>1, <1>2, RefuseSerial
  <1>3. CASE ~Refuse(p)
    <2> DEFINE t == [tx[p] EXCEPT !.pc = "redis", !.todo = <<"dropOpened", "dropChats">>]
    <2>1. PICK i : session' = Bury(session, {i}) /\ Becomes(p, t)
                   /\ UNCHANGED <<status, contact, apply, friends>>
      BY <1>3 DEF DeleteSession, Committed, redis
    <2>2. t.pc = "redis" /\ t.todo = <<"dropOpened", "dropChats">>
      BY <1>1 DEF TxState
    <2> HIDE DEF t
    <2>3. NoStrays' /\ \A x, y \in User : AtMostOne(LiveRows(session', x, y))
      BY <2>1, BurySessions
    <2>4. \A x, y \in User : AtMostOne(LiveRows(apply', x, y))
      BY <2>1, Now DEF Singles
    <2> QED
      BY <1>1, <2>1, <2>2, <2>3, <2>4, OtherSerial
  <1> QED
    BY <1>2, <1>3

\* Who is disabled or deleted loses the sessions; with an account go the
\* relations and applications, and every cached list.
LEMMA UsersSerial ==
  ASSUME ContactInv, SerialInv, clean, NEW p \in Proc,
         AbleUsers(p) \/ DisableUsers(p) \/ DeleteUsers(p)
  PROVE  SerialInv'
  <1> DEFINE a == tx[p].a
  <1>1. tx[p].pc = "commit" /\ tx[p] \in TxState /\ a \in User
        /\ status \in [User -> {"NORMAL", "DISABLE", "deleted"}]
    BY Mover DEF AbleUsers, DisableUsers, DeleteUsers, At, TypeOK
  <1>2. CASE AbleUsers(p)
    <2> DEFINE t == [tx[p] EXCEPT !.pc = "redis", !.todo = <<"dropFriends">>]
    <2>1. t.pc = "redis" /\ t.todo = <<"dropFriends">>
      BY <1>1 DEF TxState
    <2>2. Becomes(p, t) /\ UNCHANGED <<friends, contact, apply, session>>
      BY <1>2 DEF AbleUsers, Committed, redis
    <2> HIDE DEF t
    <2>3. \A u \in User : status[u] = "NORMAL" => status'[u] = "NORMAL"
      BY <1>1, <1>2 DEF AbleUsers
    <2>4. \A i \in DOMAIN session : session[i].user \in User /\ session[i].peer \in User
      BY Now, RowTypes DEF SessionRow
    <2>5. NoStrays'
      BY <2>2, <2>3, <2>4, Now DEF NoStrays
    <2>6. \A x, y \in User : AtMostOne(LiveRows(apply', x, y)) /\ AtMostOne(LiveRows(session', x, y))
      BY <2>2, Now DEF Singles
    <2> QED
      BY <1>1, <2>1, <2>2, <2>5, <2>6, OtherSerial
  <1>3. CASE DisableUsers(p) \/ DeleteUsers(p)
    <2>1. session' = Bury(session, Of(session, a))
      BY <1>3 DEF DisableUsers, DeleteUsers
    <2>2. \A u \in User \ {a} : status'[u] = status[u]
      BY <1>1, <1>3 DEF DisableUsers, DeleteUsers
    <2>3. ASSUME NEW i \in DOMAIN session \ Of(session, a)
          PROVE  /\ session[i].user \in User \ {a} /\ session[i].peer \in User \ {a}
      <3>1. session[i] \in SessionRow
        BY Now, RowTypes
      <3> QED
        BY <3>1 DEF SessionRow, Of
    <2>4. NoStrays' /\ \A x, y \in User : AtMostOne(LiveRows(session', x, y))
      BY <2>1, <2>2, <2>3, BurySessions
    <2>5. CASE DisableUsers(p)
      <3> DEFINE t == [tx[p] EXCEPT !.pc = "redis", !.todo = <<"dropFriends">>]
      <3>1. t.pc = "redis" /\ t.todo = <<"dropFriends">>
        BY <1>1 DEF TxState
      <3>2. Becomes(p, t) /\ UNCHANGED <<friends, contact, apply>>
        BY <2>5 DEF DisableUsers, Committed, redis
      <3> HIDE DEF t
      <3>3. \A x, y \in User : AtMostOne(LiveRows(apply', x, y))
        BY <3>2, Now DEF Singles
      <3> QED
        BY <1>1, <2>4, <3>1, <3>2, <3>3, OtherSerial
    <2>6. CASE DeleteUsers(p)
      <3> DEFINE t == [tx[p] EXCEPT !.pc = "redis", !.todo = <<"dropFriends", "dropSessions">>]
      <3>1. t.pc = "redis" /\ t.todo = <<"dropFriends", "dropSessions">>
        BY <1>1 DEF TxState
      <3>2. /\ contact' = Bury(contact, Of(contact, a)) /\ apply' = Bury(apply, Of(apply, a))
            /\ Becomes(p, t) /\ UNCHANGED friends
        BY <2>6 DEF DeleteUsers, Committed, redis
      <3> HIDE DEF t, a
      <3>3. \A x, y \in User : AtMostOne(LiveRows(contact', x, y)) /\ AtMostOne(LiveRows(apply', x, y))
        BY <3>2, Now, BuryLive, FewerRows DEF Singles
      <3>4. StepsLeft(t) = {"dropFriends", "dropSessions"}
        BY <3>1 DEF StepsLeft
      <3>5. \A u : Drops(t, u)
        BY <3>4 DEF Drops
      <3> QED
        BY <1>1, <2>4, <3>1, <3>2, <3>3, <3>4, <3>5, CommitSerial DEF Singles
    <2> QED
      BY <1>3, <2>5, <2>6
  <1> QED
    BY <1>2, <1>3

-----------------------------------------------------------------------------
(* After the commit, and at any time                                         *)

\* The first redis step and those that are left.
LEMMA HeadAndTail ==
  ASSUME NEW t \in TxState, t.todo # << >>
  PROVE  /\ StepsLeft(t) = {Head(t.todo)} \cup StepsLeft([t EXCEPT !.todo = Tail(t.todo)])
         /\ Tail(t.todo) \in Seq(Steps)
         /\ [t EXCEPT !.todo = Tail(t.todo)].todo = Tail(t.todo)
  <1> DEFINE s == t.todo
             n == Len(s)
             r == Tail(s)
  <1>1. s \in Seq(Steps)
    BY DEF TxState
  <1>2. /\ n \in Nat /\ n >= 1 /\ DOMAIN s = 1..n
        /\ r \in Seq(Steps) /\ Len(r) = n - 1 /\ DOMAIN r = 1..(n - 1)
        /\ Head(s) = s[1] /\ \A k \in 1..(n - 1) : r[k] = s[k + 1]
    BY <1>1
  <1>3. [t EXCEPT !.todo = r].todo = r
    BY DEF TxState
  <1> HIDE DEF s, n, r
  <1>4. {s[k] : k \in DOMAIN s} = {Head(s)} \cup {r[k] : k \in DOMAIN r}
    <2>1. ASSUME NEW k \in DOMAIN s PROVE s[k] \in {Head(s)} \cup {r[m] : m \in DOMAIN r}
      <3>1. CASE k = 1
        BY <1>2, <3>1
      <3>2. CASE k # 1
        <4>1. k - 1 \in DOMAIN r /\ r[k - 1] = s[k]
          BY <1>2, <3>2
        <4> QED
          BY <4>1
      <3> QED
        BY <3>1, <3>2
    <2>2. ASSUME NEW k \in DOMAIN r PROVE r[k] \in {s[m] : m \in DOMAIN s}
      <3>1. k + 1 \in DOMAIN s /\ r[k] = s[k + 1]
        BY <1>2
      <3> QED
        BY <3>1
    <2>3. Head(s) \in {s[m] : m \in DOMAIN s}
      BY <1>2
    <2> QED
      BY <2>1, <2>2, <2>3
  <1> QED
    BY <1>2, <1>3, <1>4 DEF StepsLeft, s, r

\* A list is put as it was read, which is as it still is; what a step drops is
\* no longer there to be wrong.
LEMMA RedisSerial ==
  ASSUME ContactInv, SerialInv, clean, NEW p \in Proc, RedisStep(p)
  PROVE  SerialInv'
  <1> DEFINE t == [tx[p] EXCEPT !.todo = Tail(tx[p].todo)]
             step == Head(tx[p].todo)
             a == tx[p].a
             b == tx[p].b
  <1>1. tx[p].pc = "redis" /\ tx[p].todo # << >> /\ tx[p] \in TxState
    BY Mover DEF RedisStep
  <1>2. /\ StepsLeft(tx[p]) = {step} \cup StepsLeft(t)
    BY <1>1, HeadAndTail
  <1>3. t.pc = "redis" /\ t.a = a /\ t.b = b /\ t.got = tx[p].got
    BY <1>1 DEF TxState
  <1>4. Becomes(p, t) /\ UNCHANGED db
    BY DEF RedisStep
  <1>5. friends' = CASE step = "putFriends" -> Put(friends, a, tx[p].got)
                     [] step = "dropA" -> Drop(friends, {a})
                     [] step = "dropB" -> Drop(friends, {b})
                     [] step = "dropFriends" -> << >>
                     [] OTHER -> friends
    BY DEF RedisStep
  <1>6. "putFriends" \in StepsLeft(tx[p]) => tx[p].got = ContactsOf(a)
    BY Now DEF UpToDate
  <1>7. tx'[p] = t
    BY <1>4 DEF Becomes, ContactInv, TypeOK
  <1>8. \A u : ContactsOf(u)' = ContactsOf(u)
    BY <1>4 DEF ContactsOf, LiveRows, Rows, db
  <1> HIDE DEF t, step, a, b
  <1>9. UpToDate(t)
    BY <1>2, <1>3, <1>6 DEF UpToDate
  <1>10. UpToDate(tx[p])'
    BY <1>4, <1>7, <1>9 DEF UpToDate, StepsLeft, ContactsOf, LiveRows, Rows, db
  <1>11. Singles' /\ NoStrays'
    <2>1. Singles /\ NoStrays
      BY Now
    <2> QED
      BY <1>4, <2>1 DEF Singles, NoStrays, AtMostOne, LiveRows, Rows, db
  <1>12. ASSUME NEW u \in DOMAIN friends PROVE friends[u] = ContactsOf(u) \/ Drops(tx[p], u)
    <2>1. \A q \in Proc \ {p} : ~Drops(tx[q], u)
      BY <1>1, OthersIdle DEF Drops, StepsLeft
    <2> QED
      BY <2>1 DEF SerialInv
  <1>13. ASSUME NEW u \in DOMAIN friends' PROVE friends'[u] = ContactsOf(u) \/ Drops(t, u)
    <2>1. CASE step = "putFriends"
      <3>1. friends' = Put(friends, a, tx[p].got) /\ tx[p].got = ContactsOf(a)
        BY <1>2, <1>5, <1>6, <2>1
      <3>2. CASE u = a
        BY <3>1, <3>2 DEF Put
      <3>3. CASE u # a
        <4>1. u \in DOMAIN friends /\ friends'[u] = friends[u]
          BY <3>1, <3>3 DEF Put
        <4> QED
          BY <1>2, <1>3, <1>12, <2>1, <4>1 DEF Drops, a, b
      <3> QED
        BY <3>2, <3>3
    <2>2. CASE step # "putFriends"
      <3>1. u \in DOMAIN friends /\ friends'[u] = friends[u]
        BY <1>5, <2>2 DEF Drop
      <3>2. /\ step = "dropA" => u # a
            /\ step = "dropB" => u # b
            /\ step # "dropFriends"
        BY <1>5 DEF Drop
      <3> QED
        BY <1>2, <1>3, <1>12, <3>1, <3>2 DEF Drops, a, b
    <2> QED
      BY <2>1, <2>2
  <1>14. \A u \in DOMAIN friends' : friends'[u] = ContactsOf(u)' \/ Drops(tx'[p], u)
    BY <1>7, <1>8, <1>13
  <1> QED
    BY <1>1, <1>3, <1>4, <1>7, <1>10, <1>11, <1>14, SerialStep

LEMMA ExpireSerial == ASSUME SerialInv, clean, Expire PROVE SerialInv'
  <1>1. UNCHANGED <<status, contact, apply, session, tx>>
    BY DEF Expire, db
  <1>2. \A u \in DOMAIN friends' : u \in DOMAIN friends /\ friends'[u] = friends[u]
    BY DEF Expire, Drop
  <1>3. \A u \in DOMAIN friends' : friends'[u] = ContactsOf(u)' \/ \E p \in Proc : Drops(tx'[p], u)
    BY <1>1, <1>2 DEF SerialInv, ContactsOf, LiveRows, Rows
  <1>4. \A p \in Proc : UpToDate(tx[p])'
    BY <1>1 DEF SerialInv, UpToDate, StepsLeft, ContactsOf, LiveRows, Rows
  <1>5. \A a, b \in User : /\ AtMostOne(LiveRows(contact', a, b))
                           /\ AtMostOne(LiveRows(apply', a, b))
                           /\ AtMostOne(LiveRows(session', a, b))
    BY <1>1 DEF SerialInv
  <1>6. NoSessionOfDisabled'
    BY <1>1 DEF SerialInv, NoSessionOfDisabled
  <1>7. \A p, q \in Proc : tx'[p].pc # "idle" /\ tx'[q].pc # "idle" => p = q
    BY <1>1 DEF SerialInv
  <1>8. \A p \in Proc : tx'[p].todo # << >> => tx'[p].pc = "redis"
    BY <1>1 DEF SerialInv
  <1> QED
    BY <1>3, <1>4, <1>5, <1>6, <1>7, <1>8 DEF SerialInv, Drops, StepsLeft

\* A request that ends, answered or rolled back.
LEMMA EndSerial ==
  ASSUME ContactInv, SerialInv, clean, NEW p \in Proc, Reply(p) \/ Rollback(p)
  PROVE  SerialInv'
  <1>1. tx[p].pc # "idle" /\ tx[p].todo = << >> /\ Refuse(p)
    BY DEF Reply, Rollback, SerialInv
  <1> QED
    BY <1>1, RefuseSerial

\* Every step keeps the invariant: the one that ends the serial history has
\* nothing to show.
LEMMA StepSerial == ASSUME ContactInv, SerialInv, [Next]_vars PROVE SerialInv'
  <1> SUFFICES ASSUME clean' PROVE SerialInv'
    BY DEF SerialInv
  <1>1. CASE UNCHANGED vars
    <2>1. UNCHANGED <<status, contact, apply, session, tx, friends, clean>>
      BY <1>1 DEF vars, db, redis
    <2> QED
      BY <2>1 DEF SerialInv, NoSessionOfDisabled, UpToDate, Drops, StepsLeft,
                  ContactsOf, LiveRows, Rows, AtMostOne
  <1>2. ASSUME NEW p \in Proc, Call(p) PROVE SerialInv'
    BY <1>2, CallSerial
  <1>3. CASE Expire
    <2>1. clean
      BY <1>3 DEF Expire
    <2> QED
      BY <1>3, <2>1, ExpireSerial
  <1>4. ASSUME NEW p \in Proc, Applications(p) PROVE SerialInv'
    <2>1. clean
      BY <1>4 DEF Applications, ApplyRead, ApplyCommit, PassRead, PassCommit, AnswerRead,
                  AnswerCommit, PassBlind, Reads, Refuse, Befriended, Committed
    <2>2. ~PassBlind(p)
      BY DEF PassBlind
    <2> QED
      BY <1>4, <2>1, <2>2, RelationReads, ApplySerial, PassSerial, AnswerSerial DEF Applications
  <1>5. ASSUME NEW p \in Proc, Relations(p) PROVE SerialInv'
    <2>1. clean
      BY <1>5 DEF Relations, DeleteContact, BlackContact, CancelRead, CancelCommit, GetUserList,
                  Reads, Refuse, Committed
    <2> QED
      BY <1>5, <2>1, RelationReads, DeleteSerial, BlackSerial, CancelSerial DEF Relations
  <1>6. ASSUME NEW p \in Proc, Sessions(p) PROVE SerialInv'
    <2>1. clean
      BY <1>6 DEF Sessions, CheckContact, CheckUser, ListHit, ListMiss, CacheList, OpenSession,
                  FindSession, CreateRead, CreateSession, DeleteSession, Opened,
                  Reads, Refuse, Committed
    <2> QED
      BY <1>6, <2>1, SessionReads, CreateSerial, DeleteSessionSerial DEF Sessions
  <1>7. ASSUME NEW p \in Proc, Users(p) PROVE SerialInv'
    <2>1. clean
      BY <1>7 DEF Users, AbleUsers, DisableUsers, DeleteUsers, Committed
    <2> QED
      BY <1>7, <2>1, UsersSerial DEF Users
  <1>8. ASSUME NEW p \in Proc, RedisStep(p) PROVE SerialInv'
    <2>1. clean
      BY <1>8 DEF RedisStep
    <2> QED
      BY <1>8, <2>1, RedisSerial
  <1>9. ASSUME NEW p \in Proc, Reply(p) \/ Rollback(p) PROVE SerialInv'
    <2>1. clean
      BY <1>9 DEF Reply, Rollback, Refuse
    <2> QED
      BY <1>9, <2>1, EndSerial
  <1>10. ASSUME NEW p \in Proc, Crash(p) PROVE SerialInv'
    BY <1>10 DEF Crash
  <1>11. ASSUME NEW u \in User, Revive(u) PROVE SerialInv'
    BY <1>11, ReviveSerial
  <1> QED
    BY <1>1, <1>2, <1>3, <1>4, <1>5, <1>6, <1>7, <1>8, <1>9, <1>10, <1>11 DEF Next

\* As long as requests come one at a time, each finds what it has read
\* unchanged when it commits, and a cached list of contacts is true or about to
\* be dropped.
THEOREM Serially == Spec => []SerialInv
  <1>1. ContactInv /\ SerialInv /\ [Next]_vars => SerialInv'
    BY StepSerial
  <1> QED
    BY <1>1, InitSerial, ContactsInvariance, PTL DEF Spec

-----------------------------------------------------------------------------
(* What that gives                                                           *)

LEMMA FewMembers ==
  ASSUME NEW s, AtMostOne(s)
  PROVE  Cardinality(s) <= 1
  <1>1. CASE s = {}
    BY <1>1, FS_EmptySet
  <1>2. CASE s # {}
    <2>1. PICK x : s = {x}
      BY <1>2 DEF AtMostOne
    <2> QED
      BY <2>1, FS_Singleton
  <1> QED
    BY <1>1, <1>2

\* One relation, one application each way and one session per pair, as long as
\* requests come one at a time, although no key says so.
THEOREM OneOfEach == Spec => []OncePerPair
  <1>1. SerialInv => OncePerPair
    <2> SUFFICES ASSUME SerialInv, clean, NEW a \in User, NEW b \in User,
                        NEW table \in {contact, apply, session}
                 PROVE  Cardinality(LiveRows(table, a, b)) <= 1
      BY DEF OncePerPair
    <2>1. AtMostOne(LiveRows(table, a, b))
      BY DEF SerialInv
    <2> QED
      BY <2>1, FewMembers
  <1> QED
    BY <1>1, Serially, PTL

\* Nobody who is disabled or deleted has a session, on either side, as long as
\* requests come one at a time.
THEOREM NoStraySessions == Spec => []NoSessionOfDisabled
  <1>1. SerialInv => NoSessionOfDisabled
    BY DEF SerialInv, NoSessionOfDisabled
  <1> QED
    BY <1>1, Serially, PTL

\* With no request being served, a cached list of contacts shows the contacts
\* there are.
THEOREM ListsFresh == Spec => []FriendsFresh
  <1>1. SerialInv => FriendsFresh
    <2> SUFFICES ASSUME SerialInv, clean, \A p \in Proc : tx[p] = Idle, NEW u \in DOMAIN friends
                 PROVE  friends[u] = ContactsOf(u)
      BY DEF FriendsFresh
    <2>1. ASSUME NEW p \in Proc PROVE ~Drops(tx[p], u)
      <3>1. tx[p].pc = "idle" /\ tx[p].todo = << >>
        BY DEF Idle, Request
      <3> QED
        BY <3>1, IdleUpToDate
    <2> QED
      BY <2>1 DEF SerialInv
  <1> QED
    BY <1>1, Serially, PTL

\* Steps that change applications while requests come one at a time.
LEMMA BlackStays ==
  ASSUME ContactInv, SerialInv, [Next]_vars, clean', NEW i \in DOMAIN apply,
         apply[i].live, apply[i].status = "BLACK"
  PROVE  ~apply'[i].live \/ apply'[i].status \in {"BLACK", "AGREE"}
  <1>1. CASE UNCHANGED apply
    BY <1>1
  <1>2. ASSUME NEW p \in Proc, ApplyCommit(p)
        PROVE  apply'[i].status = "BLACK"
    <2>1. clean /\ tx[p].pc = "commit" /\ tx[p].op = "apply"
      BY <1>2 DEF ApplyCommit, Committed, At
    <2>2. IF tx[p].i = 0 THEN TRUE ELSE apply[tx[p].i].status # "BLACK"
      BY <2>1, Now DEF UpToDate
    <2>3. CASE tx[p].i = 0
      <3> DEFINE r == [user |-> tx[p].a, peer |-> tx[p].b, status |-> "PENDING", live |-> TRUE]
      <3>1. apply' = Append(apply, r) /\ apply \in Seq(ApplyRow)
        BY <1>2, <2>1, <2>3, Now DEF ApplyCommit
      <3> HIDE DEF r
      <3>2. apply'[i] = apply[i]
        BY <3>1
      <3> QED
        BY <3>2
    <2>4. CASE tx[p].i # 0
      <3>1. apply' = Save(apply, tx[p].i, "PENDING") /\ i # tx[p].i
        BY <1>2, <2>2, <2>4 DEF ApplyCommit
      <3> QED
        BY <3>1 DEF Save
    <2> QED
      BY <2>3, <2>4
  <1>3. ASSUME NEW p \in Proc, PassCommit(p)
        PROVE  apply'[i].status \in {"BLACK", "AGREE"}
    BY <1>3 DEF PassCommit, Save
  <1>4. ASSUME NEW p \in Proc, AnswerCommit(p)
        PROVE  apply'[i].status = "BLACK"
    <2>1. clean /\ tx[p].pc = "commit" /\ (tx[p].op = "refuse" => apply[tx[p].i].status = "PENDING")
      <3>1. clean /\ tx[p].pc = "commit"
        BY <1>4 DEF AnswerCommit, Committed, At
      <3> QED
        BY <3>1, Now DEF UpToDate
    <2>2. tx[p].op = "refuse" => i # tx[p].i
      BY <2>1
    <2> QED
      BY <1>4, <2>2 DEF AnswerCommit, Save
  <1>5. ASSUME NEW s, apply' = Bury(apply, s)
        PROVE  apply'[i].status = "BLACK"
    <2>1. apply[i] \in ApplyRow
      BY RowTypes DEF ContactInv
    <2> QED
      BY <1>5, <2>1 DEF Bury, ApplyRow
  <1>6. ASSUME NEW p \in Proc, DeleteContact(p) \/ DeleteUsers(p)
        PROVE  apply'[i].status = "BLACK"
    BY <1>5, <1>6 DEF DeleteContact, DeleteUsers
  <1>7. ASSUME NEW p \in Proc,
               \/ Call(p) \/ ApplyRead(p) \/ PassRead(p) \/ PassBlind(p) \/ AnswerRead(p)
               \/ BlackContact(p) \/ CancelRead(p) \/ CancelCommit(p) \/ GetUserList(p)
               \/ Sessions(p) \/ AbleUsers(p) \/ DisableUsers(p)
               \/ RedisStep(p) \/ Reply(p) \/ Rollback(p) \/ Crash(p)
        PROVE  UNCHANGED apply
    <2>1. CASE Sessions(p)
      BY <2>1 DEF Sessions, CheckContact, CheckUser, ListHit, ListMiss, CacheList, OpenSession,
                  FindSession, CreateRead, CreateSession, DeleteSession, Opened, Reads, Refuse, db
    <2> QED
      BY <1>7, <2>1 DEF Call, ApplyRead, PassRead, PassBlind, AnswerRead, BlackContact, CancelRead,
                        CancelCommit, GetUserList, AbleUsers, DisableUsers, RedisStep, Reply,
                        Rollback, Crash, Reads, Refuse, db
  <1>8. CASE Expire \/ UNCHANGED vars \/ \E u \in User : Revive(u)
    BY <1>1, <1>8 DEF Expire, Revive, vars, db
  <1> QED
    BY <1>1, <1>2, <1>3, <1>4, <1>6, <1>7, <1>8 DEF Next, Applications, Relations, Users

\* One request at a time, a black-listed application stays one until it is
\* agreed to or deleted.
THEOREM BlackListed == Spec => BlackApplyHolds
  <1>1. ContactInv /\ SerialInv /\ [Next]_vars =>
          [clean' => \A i \in DOMAIN apply : apply[i].live /\ apply[i].status = "BLACK" =>
             ~apply'[i].live \/ apply'[i].status \in {"BLACK", "AGREE"}]_vars
    BY BlackStays
  <1> QED
    BY <1>1, ContactsInvariance, Serially, PTL DEF Spec, BlackApplyHolds

\* Steps that change relations while requests come one at a time.
LEMMA BlockStays ==
  ASSUME ContactInv, SerialInv, [Next]_vars, clean', NEW i \in DOMAIN contact,
         contact[i].live, contact[i].status = "BLACK"
  PROVE  \/ ~contact'[i].live
         \/ "BLACK" \in {contact'[i].status, contact'[Peer(i)].status}
         \/ \E p \in Proc : tx[p].op = "cancel" /\ tx[p].a = contact[i].user
                                              /\ tx[p].b = contact[i].peer
  <1>0. /\ \A k \in DOMAIN contact : contact[k] \in ContactRow /\ k \in Nat
        /\ Peer(i) \in DOMAIN contact /\ contact[Peer(i)] = Mirror(contact[i])
    BY RowTypes DEF ContactInv, MirroredContacts
  <1>1. CASE contact'[i] = contact[i]
    BY <1>1
  <1>2. ASSUME NEW s, contact' = Bury(contact, s)
        PROVE  contact'[i].status = "BLACK"
    BY <1>0, <1>2 DEF Bury, ContactRow
  <1>3. ASSUME NEW p \in Proc, DeleteContact(p) \/ DeleteUsers(p)
        PROVE  contact'[i].status = "BLACK"
    BY <1>2, <1>3 DEF DeleteContact, DeleteUsers
  <1>4. ASSUME NEW p \in Proc, PassCommit(p)
        PROVE  contact'[i] = contact[i]
    <2> DEFINE new == <<Normal(tx[p].a, tx[p].b), Normal(tx[p].b, tx[p].a)>>
    <2>1. contact' = contact \o new /\ contact \in Seq(ContactRow) /\ new \in Seq({new[1], new[2]})
      BY <1>4 DEF PassCommit, ContactInv, TypeOK
    <2> HIDE DEF new
    <2> QED
      BY <2>1
  \* Who is blocked back now blocks: the row of the other side says so.
  <1>5. ASSUME NEW p \in Proc, BlackContact(p)
        PROVE  "BLACK" \in {contact'[i].status, contact'[Peer(i)].status}
    <2> DEFINE a == tx[p].a
               b == tx[p].b
    <2>1. contact' = Blacken(a, b)
      BY <1>5 DEF BlackContact
    <2>2. CASE i \in LiveRows(contact, a, b)
      BY <1>0, <2>1, <2>2 DEF Blacken, ContactRow
    <2>3. CASE i \in LiveRows(contact, b, a)
      <3>1. Peer(i) \in LiveRows(contact, a, b)
        BY <2>3, BothLive
      <3>2. contact'[Peer(i)].status = "BLACK"
        BY <1>0, <2>1, <3>1 DEF Blacken, ContactRow
      <3> QED
        BY <3>2
    <2>4. CASE i \notin LiveRows(contact, a, b) \cup LiveRows(contact, b, a)
      BY <2>1, <2>4 DEF Blacken
    <2> QED
      BY <2>2, <2>3, <2>4
  \* The two rows of a cancellation: the first is of the one who cancels and blocks,
  \* the second is not black.
  <1>6. ASSUME NEW p \in Proc, CancelCommit(p)
        PROVE  \/ contact'[i] = contact[i]
               \/ tx[p].op = "cancel" /\ tx[p].a = contact[i].user /\ tx[p].b = contact[i].peer
    <2>1. clean /\ tx[p].pc = "commit" /\ tx[p].op = "cancel"
      BY <1>6 DEF CancelCommit, Committed, At
    <2>2. tx[p].i \in Rows(contact, tx[p].a, tx[p].b) /\ tx[p].j = Peer(tx[p].i)
      BY <2>1 DEF ContactInv, HoldsRows
    <2>3. contact[tx[p].i].status = "BLACK"
      BY <2>1, Now DEF UpToDate
    <2>4. contact[tx[p].j].status # "BLACK"
      <3>1. contact[tx[p].j] = Mirror(contact[tx[p].i])
        BY <2>2 DEF ContactInv, MirroredContacts, Rows
      <3>2. Mirror(contact[tx[p].i]).status = OtherSide("BLACK")
        BY <2>3 DEF Mirror
      <3> QED
        BY <3>1, <3>2 DEF OtherSide
    <2>5. contact' = Save(Save(contact, tx[p].i, "NORMAL"), tx[p].j, "NORMAL")
      BY <1>6 DEF CancelCommit
    <2>6. CASE i = tx[p].i
      BY <2>1, <2>2, <2>6 DEF Rows
    <2>7. CASE i # tx[p].i
      BY <2>4, <2>5, <2>7 DEF Save
    <2> QED
      BY <2>6, <2>7
  <1>7. ASSUME NEW p \in Proc,
               \/ Call(p) \/ ApplyRead(p) \/ ApplyCommit(p) \/ PassRead(p) \/ PassBlind(p)
               \/ AnswerRead(p) \/ AnswerCommit(p) \/ CancelRead(p) \/ GetUserList(p)
               \/ Sessions(p) \/ AbleUsers(p) \/ DisableUsers(p)
               \/ RedisStep(p) \/ Reply(p) \/ Rollback(p) \/ Crash(p)
        PROVE  UNCHANGED contact
    <2>1. CASE Sessions(p)
      BY <2>1 DEF Sessions, CheckContact, CheckUser, ListHit, ListMiss, CacheList, OpenSession,
                  FindSession, CreateRead, CreateSession, DeleteSession, Opened, Reads, Refuse, db
    <2> QED
      BY <1>7, <2>1 DEF Call, ApplyRead, ApplyCommit, PassRead, PassBlind, AnswerRead, AnswerCommit,
                        CancelRead, GetUserList, AbleUsers, DisableUsers, RedisStep, Reply,
                        Rollback, Crash, Reads, Refuse, db
  <1>8. CASE Expire \/ UNCHANGED vars \/ \E u \in User : Revive(u)
    BY <1>1, <1>8 DEF Expire, Revive, vars, db
  <1> QED
    BY <1>1, <1>3, <1>4, <1>5, <1>6, <1>7, <1>8 DEF Next, Applications, Relations, Users

\* One request at a time, BlackContact and CancelBlackContact leave a block with those
\* who block: it goes with the relation, or the one who blocks lifts it.
THEOREM Blocked == Spec => BlockHolds
  <1>1. ContactInv /\ SerialInv /\ [Next]_vars =>
          [clean' => \A i \in DOMAIN contact : contact[i].live /\ contact[i].status = "BLACK" =>
             \/ ~contact'[i].live
             \/ "BLACK" \in {contact'[i].status, contact'[Peer(i)].status}
             \/ \E p \in Proc : tx[p].op = "cancel" /\ tx[p].a = contact[i].user
                                                  /\ tx[p].b = contact[i].peer]_vars
    BY BlockStays
  <1> QED
    BY <1>1, ContactsInvariance, Serially, PTL DEF Spec, BlockHolds

-----------------------------------------------------------------------------
(* What Contacts does to the relations of users, Friendship says             *)

\* Nobody is opening a session with himself, sees one in his list or has one.
WithAnother(t) ==
  /\ t.pc \in {"open", "find", "create", "insert"} => t.b # t.a /\ t.op \in {"chat", "resume"}
  /\ t.pc = "cacheList" => t.a \notin t.got
OtherEnds ==
  /\ \A i \in DOMAIN session : session[i].user # session[i].peer
  /\ \A u \in DOMAIN chats : u \notin chats[u]
  /\ \A p \in Proc : WithAnother(tx[p])

\* Sessions keep their users, and a new one is between the two of its request.
LEMMA SessionEnds ==
  ASSUME ContactInv, OtherEnds, [Next]_vars, NEW i \in DOMAIN session'
  PROVE  session'[i].user # session'[i].peer
  <1>1. CASE UNCHANGED session
    BY <1>1 DEF OtherEnds
  <1>2. ASSUME NEW s, session' = Bury(session, s)
        PROVE  session'[i].user # session'[i].peer
    <2>1. /\ session \in Seq(SessionRow) /\ \A k \in DOMAIN session : session[k] \in SessionRow
      BY RowTypes DEF ContactInv, TypeOK
    <2>2. /\ i \in DOMAIN session
          /\ session'[i] = [session[i] EXCEPT !.live = session[i].live /\ i \notin s]
      BY <1>2 DEF Bury
    <2>3. session'[i].user = session[i].user /\ session'[i].peer = session[i].peer
      BY <2>1, <2>2 DEF SessionRow
    <2> QED
      BY <2>2, <2>3 DEF OtherEnds
  <1>3. ASSUME NEW p \in Proc, CreateSession(p)
        PROVE  session'[i].user # session'[i].peer
    <2> DEFINE r == [user |-> tx[p].a, peer |-> tx[p].b, live |-> TRUE]
    <2>1. r.user # r.peer
      BY <1>3 DEF CreateSession, OtherEnds, WithAnother
    <2>2. session' = Append(session, r) /\ session \in Seq(SessionRow)
      BY <1>3 DEF CreateSession, ContactInv, TypeOK
    <2> HIDE DEF r
    <2>3. (i \in DOMAIN session /\ session'[i] = session[i]) \/ session'[i] = r
      BY <2>2
    <2> QED
      BY <2>1, <2>3 DEF OtherEnds
  <1>4. ASSUME NEW p \in Proc,
               \/ Call(p) \/ Applications(p) \/ RedisStep(p)
               \/ Reply(p) \/ Rollback(p) \/ Crash(p)
        PROVE  UNCHANGED session
    BY <1>4 DEF Call, Applications, ApplyRead, ApplyCommit, PassRead, PassBlind, PassCommit,
                AnswerRead, AnswerCommit, RedisStep, Reply, Rollback, Crash, Reads, Refuse, db
  <1>5. ASSUME NEW p \in Proc, Relations(p) \/ Users(p) \/ DeleteSession(p)
        PROVE  UNCHANGED session \/ \E s : session' = Bury(session, s)
    BY <1>5 DEF Relations, DeleteContact, BlackContact, CancelRead, CancelCommit, GetUserList,
                Users, AbleUsers, DisableUsers, DeleteUsers, DeleteSession, Reads, Refuse, db
  <1>6. ASSUME NEW p \in Proc, Sessions(p), ~DeleteSession(p), ~CreateSession(p)
        PROVE  UNCHANGED session
    BY <1>6 DEF Sessions, CheckContact, CheckUser, ListHit, ListMiss, CacheList, OpenSession,
                FindSession, CreateRead, Opened, Reads, Refuse, db
  <1>7. CASE Expire \/ UNCHANGED vars \/ \E u \in User : Revive(u)
    BY <1>1, <1>7 DEF Expire, Revive, vars, db
  <1> QED
    BY <1>1, <1>2, <1>3, <1>4, <1>5, <1>6, <1>7 DEF Next

\* A list is put as it was read.
LEMMA ChatEnds ==
  ASSUME ContactInv, OtherEnds, [Next]_vars, NEW u \in DOMAIN chats'
  PROVE  u \notin chats'[u]
  <1>1. CASE UNCHANGED chats
    BY <1>1 DEF OtherEnds
  <1>2. ASSUME NEW p \in Proc, CacheList(p) PROVE u \notin chats'[u]
    BY <1>2 DEF CacheList, Put, OtherEnds, WithAnother
  <1>3. ASSUME NEW p \in Proc, RedisStep(p) PROVE u \notin chats'[u]
    <2>1. chats' = chats \/ chats' = << >> \/ chats' = Drop(chats, {tx[p].a})
      BY <1>3 DEF RedisStep
    <2>2. u \in DOMAIN chats /\ chats'[u] = chats[u]
      BY <2>1 DEF Drop
    <2> QED
      BY <2>2 DEF OtherEnds
  <1>4. CASE Expire
    <2>1. u \in DOMAIN chats /\ chats'[u] = chats[u]
      BY <1>4 DEF Expire, Drop
    <2> QED
      BY <2>1 DEF OtherEnds
  <1>5. ASSUME NEW p \in Proc,
               \/ Call(p) \/ Applications(p) \/ Relations(p) \/ Users(p)
               \/ Reply(p) \/ Rollback(p) \/ Crash(p)
        PROVE  UNCHANGED chats
    BY <1>5 DEF Call, Applications, ApplyRead, ApplyCommit, PassRead, PassBlind, PassCommit,
                AnswerRead, AnswerCommit, Relations, DeleteContact, BlackContact, CancelRead, CancelCommit,
                GetUserList, Users, AbleUsers, DisableUsers, DeleteUsers,
                Reply, Rollback, Crash, Reads, Refuse, Befriended, Committed, redis
  <1>6. ASSUME NEW p \in Proc, Sessions(p), ~CacheList(p)
        PROVE  UNCHANGED chats
    BY <1>6 DEF Sessions, CheckContact, CheckUser, ListHit, ListMiss, OpenSession,
                FindSession, CreateRead, CreateSession, DeleteSession, Opened, Reads, Refuse, Committed, redis
  <1>7. CASE UNCHANGED vars \/ \E v \in User : Revive(v)
    BY <1>1, <1>7 DEF vars, Revive, redis
  <1> QED
    BY <1>1, <1>2, <1>3, <1>4, <1>5, <1>6, <1>7 DEF Next

\* A request opens what its list shows, or what it was called for.
LEMMA RequestEnds ==
  ASSUME ContactInv, OtherEnds, [Next]_vars, NEW q \in Proc
  PROVE  WithAnother(tx'[q])
  <1>0. WithAnother(tx[q])
    BY DEF OtherEnds
  <1>1. CASE UNCHANGED tx
    BY <1>0, <1>1
  <1>2. ASSUME NEW p \in Proc, NEW t, Becomes(p, t), WithAnother(t)
        PROVE  WithAnother(tx'[q])
    BY <1>0, <1>2 DEF Becomes, ContactInv, TypeOK
  <1>3. ASSUME NEW p \in Proc, NEW t, Becomes(p, t),
               t.pc \in {"idle", "commit", "read", "check", "list", "checkUser", "redis", "opened"}
        PROVE  WithAnother(tx'[q])
    BY <1>2, <1>3 DEF WithAnother
  <1>4. ASSUME NEW p \in Proc, tx[p].pc # "idle"
        PROVE  tx[p] \in TxState /\ WellFormed(tx[p]) /\ WithAnother(tx[p])
    BY <1>4, Mover DEF OtherEnds
  <1>5. Idle.pc = "idle"
    BY DEF Idle, Request
  <1>6. ASSUME NEW p \in Proc, Refuse(p) PROVE WithAnother(tx'[q])
    <2>1. Becomes(p, Idle)
      BY <1>6 DEF Refuse
    <2> QED
      BY <1>3, <1>5, <2>1
  <1>7. ASSUME NEW p \in Proc, tx[p].pc # "idle", NEW steps, Committed(p, steps) PROVE WithAnother(tx'[q])
    <2>1. [tx[p] EXCEPT !.pc = "redis", !.todo = steps].pc = "redis"
      BY <1>4, <1>7 DEF TxState
    <2> QED
      BY <1>3, <1>7, <2>1 DEF Committed
  <1>8. ASSUME NEW p \in Proc, Call(p) PROVE WithAnother(tx'[q])
    <2>1. PICK op \in Op, a \in User, b \in User \cup {NoUser} : Becomes(p, Request(EntryPc(op), op, a, b))
      BY <1>8 DEF Call
    <2>2. Request(EntryPc(op), op, a, b).pc \in {"commit", "read", "check", "list"}
      BY DEF Request, EntryPc
    <2> QED
      BY <1>3, <2>1, <2>2
  <1>9. ASSUME NEW p \in Proc, tx[p].pc # "idle", NEW pc,
               Becomes(p, [tx[p] EXCEPT !.pc = pc]),
               pc # "cacheList",
               pc \in {"open", "find", "create", "insert"} =>
                 tx[p].b # tx[p].a /\ tx[p].op \in {"chat", "resume"}
        PROVE  WithAnother(tx'[q])
    <2> DEFINE t == [tx[p] EXCEPT !.pc = pc]
    <2>1. t.pc = pc /\ t.a = tx[p].a /\ t.b = tx[p].b /\ t.op = tx[p].op
      BY <1>4, <1>9 DEF TxState
    <2>2. WithAnother(t)
      BY <1>9, <2>1 DEF WithAnother
    <2> QED
      BY <1>2, <1>9, <2>2
  <1>10. ASSUME NEW p \in Proc,
                \/ CheckContact(p) \/ CheckUser(p) \/ OpenSession(p) \/ CreateRead(p) \/ Opened(p)
         PROVE  WithAnother(tx'[q])
    <2>1. CASE Refuse(p)
      BY <1>6, <2>1
    <2>2. CASE ~Refuse(p)
      <3>1. PICK pc \in {"checkUser", "open", "find", "insert", "opened"} :
              /\ Becomes(p, [tx[p] EXCEPT !.pc = pc]) /\ tx[p].pc # "idle"
              /\ pc \in {"open", "find", "insert"} => tx[p].pc \in {"open", "create", "checkUser"}
        BY <1>10, <2>2 DEF CheckContact, CheckUser, OpenSession, CreateRead, Opened, Reads
      <3>2. tx[p].pc \in {"open", "create", "checkUser"} =>
              tx[p].b # tx[p].a /\ tx[p].op \in {"chat", "resume"}
        BY <1>4, <3>1 DEF WellFormed, WithAnother
      <3> QED
        BY <1>9, <3>1, <3>2
    <2> QED
      BY <2>1, <2>2
  <1>11. ASSUME NEW p \in Proc, ListHit(p) \/ CacheList(p) PROVE WithAnother(tx'[q])
    <2>1. PICK b : /\ Becomes(p, [tx[p] EXCEPT !.pc = "open", !.b = b]) /\ b # tx[p].a
                   /\ tx[p].pc \in {"list", "cacheList"}
      <3>1. tx[p].pc = "cacheList" => tx[p].a \notin tx[p].got
        BY DEF OtherEnds, WithAnother
      <3>2. tx[p].a \in DOMAIN chats => tx[p].a \notin chats[tx[p].a]
        BY DEF OtherEnds
      <3> QED
        BY <1>11, <3>1, <3>2 DEF ListHit, CacheList, Reads
    <2> DEFINE t == [tx[p] EXCEPT !.pc = "open", !.b = b]
    <2>2. t.pc = "open" /\ t.a = tx[p].a /\ t.b = b /\ t.op = "resume"
      BY <1>4, <2>1 DEF TxState, WellFormed
    <2>3. WithAnother(t)
      BY <2>1, <2>2 DEF WithAnother
    <2> QED
      BY <1>2, <2>1, <2>3
  <1>12. ASSUME NEW p \in Proc, ListMiss(p) PROVE WithAnother(tx'[q])
    <2>1. CASE Refuse(p)
      BY <1>6, <2>1
    <2>2. CASE ~Refuse(p)
      <3> DEFINE t == [tx[p] EXCEPT !.pc = "cacheList", !.got = ReceiversOf(tx[p].a)]
      <3>1. Becomes(p, t) /\ tx[p].pc # "idle"
        BY <1>12, <2>2 DEF ListMiss, Reads
      <3>2. t.pc = "cacheList" /\ t.a = tx[p].a /\ t.got = ReceiversOf(tx[p].a)
        BY <1>4, <3>1 DEF TxState
      <3>3. tx[p].a \notin ReceiversOf(tx[p].a)
        BY DEF ReceiversOf, LiveRows, Rows, OtherEnds
      <3>4. WithAnother(t)
        BY <3>2, <3>3 DEF WithAnother
      <3> QED
        BY <1>2, <3>1, <3>4
    <2> QED
      BY <2>1, <2>2
  <1>13. ASSUME NEW p \in Proc, FindSession(p) PROVE WithAnother(tx'[q])
    <2>1. tx[p].pc # "idle" /\ tx[p].b # tx[p].a /\ tx[p].op \in {"chat", "resume"}
      BY <1>13 DEF FindSession, OtherEnds, WithAnother
    <2>2. CASE Becomes(p, [tx[p] EXCEPT !.pc = "create"])
      BY <1>9, <2>1, <2>2
    <2>3. ASSUME NEW i, Becomes(p, [tx[p] EXCEPT !.pc = "redis", !.i = i, !.todo = <<"putOpened">>])
          PROVE  WithAnother(tx'[q])
      <3>1. [tx[p] EXCEPT !.pc = "redis", !.i = i, !.todo = <<"putOpened">>].pc = "redis"
        BY <1>4, <2>1 DEF TxState
      <3> QED
        BY <1>3, <2>3, <3>1
    <2> QED
      BY <1>13, <2>2, <2>3 DEF FindSession, Reads
  <1>14. ASSUME NEW p \in Proc, CreateSession(p) \/ RedisStep(p) PROVE WithAnother(tx'[q])
    <2>1. PICK t : Becomes(p, t) /\ t.pc = "redis"
      <3>1. tx[p].pc # "idle"
        BY <1>14 DEF CreateSession, RedisStep
      <3>2. ASSUME NEW n, NEW s PROVE [tx[p] EXCEPT !.pc = "redis", !.i = n, !.todo = s].pc = "redis"
        BY <1>4, <3>1 DEF TxState
      <3>3. [tx[p] EXCEPT !.todo = Tail(@)].pc = tx[p].pc
        BY <1>4, <3>1 DEF TxState
      <3> QED
        BY <1>14, <3>2, <3>3 DEF CreateSession, RedisStep
    <2> QED
      BY <1>3, <2>1
  <1>15. ASSUME NEW p \in Proc,
                \/ ApplyRead(p) \/ PassRead(p) \/ PassBlind(p) \/ AnswerRead(p)
                \/ CancelRead(p) \/ GetUserList(p)
         PROVE  WithAnother(tx'[q])
    <2>1. CASE Refuse(p)
      BY <1>6, <2>1
    <2>2. CASE ~Refuse(p)
      <3>1. tx[p].pc # "idle"
        BY <1>15 DEF ApplyRead, PassRead, PassBlind, AnswerRead, CancelRead, GetUserList, At
      <3>2. CASE ApplyRead(p) \/ PassRead(p) \/ PassBlind(p) \/ AnswerRead(p)
        <4>1. PICK i : Becomes(p, [tx[p] EXCEPT !.pc = "commit", !.i = i])
          BY <2>2, <3>2 DEF ApplyRead, PassRead, PassBlind, AnswerRead, Reads
        <4> DEFINE t == [tx[p] EXCEPT !.pc = "commit", !.i = i]
        <4>2. t.pc = "commit"
          BY <1>4, <3>1 DEF TxState
        <4> HIDE DEF t
        <4> QED
          BY <1>3, <4>1, <4>2 DEF t
      <3>3. CASE CancelRead(p)
        <4>1. PICK i, j : Becomes(p, [tx[p] EXCEPT !.pc = "commit", !.i = i, !.j = j])
          BY <2>2, <3>3 DEF CancelRead, Reads
        <4> DEFINE t == [tx[p] EXCEPT !.pc = "commit", !.i = i, !.j = j]
        <4>2. t.pc = "commit"
          BY <1>4, <3>1 DEF TxState
        <4> HIDE DEF t
        <4> QED
          BY <1>3, <4>1, <4>2 DEF t
      <3>4. CASE GetUserList(p)
        <4> DEFINE t == [tx[p] EXCEPT !.pc = "redis", !.got = ContactsOf(tx[p].a),
                                      !.todo = <<"putFriends">>]
        <4>1. Becomes(p, t)
          BY <2>2, <3>4 DEF GetUserList, Reads
        <4>2. t.pc = "redis"
          BY <1>4, <3>1 DEF TxState
        <4> HIDE DEF t
        <4> QED
          BY <1>3, <4>1, <4>2
      <3> QED
        BY <1>15, <3>2, <3>3, <3>4
    <2> QED
      BY <2>1, <2>2
  <1>16. ASSUME NEW p \in Proc,
                \/ ApplyCommit(p) \/ PassCommit(p) \/ AnswerCommit(p) \/ DeleteContact(p) \/ BlackContact(p)
                \/ CancelCommit(p) \/ DeleteSession(p) \/ AbleUsers(p) \/ DisableUsers(p) \/ DeleteUsers(p)
         PROVE  WithAnother(tx'[q])
    <2>1. tx[p].pc = "commit" /\ (Refuse(p) \/ \E steps : Committed(p, steps))
      BY <1>16 DEF ApplyCommit, PassCommit, Befriended, AnswerCommit, DeleteContact, BlackContact,
                   CancelCommit, DeleteSession, AbleUsers, DisableUsers, DeleteUsers, At
    <2> QED
      BY <1>6, <1>7, <2>1
  <1>17. ASSUME NEW p \in Proc, Reply(p) \/ Rollback(p) \/ Crash(p) PROVE WithAnother(tx'[q])
    <2>1. Becomes(p, Idle)
      BY <1>17 DEF Reply, Rollback, Crash, Refuse
    <2> QED
      BY <1>3, <1>5, <2>1
  <1>18. CASE Expire \/ UNCHANGED vars \/ \E u \in User : Revive(u)
    BY <1>1, <1>18 DEF Expire, Revive, vars
  <1>19. ASSUME NEW p \in Proc, Applications(p) \/ Relations(p) \/ Users(p) PROVE WithAnother(tx'[q])
    BY <1>15, <1>16, <1>19 DEF Applications, Relations, Users
  <1>20. ASSUME NEW p \in Proc, Sessions(p) PROVE WithAnother(tx'[q])
    BY <1>10, <1>11, <1>12, <1>13, <1>14, <1>16, <1>20 DEF Sessions
  <1>21. ASSUME NEW p \in Proc, RedisStep(p) PROVE WithAnother(tx'[q])
    BY <1>14, <1>21
  <1> QED
    BY <1>8, <1>17, <1>18, <1>19, <1>20, <1>21 DEF Next

\* In every reachable state, sessions are between two users.
LEMMA OtherEndsAlways == Spec => []OtherEnds
  <1>1. Init => OtherEnds
    <2> SUFFICES ASSUME Init PROVE OtherEnds
      OBVIOUS
    <2>1. /\ session = << >> /\ chats = << >>
          /\ \A p \in Proc : tx[p].pc = "idle"
      BY DEF Init, Idle, Request
    <2> QED
      BY <2>1 DEF OtherEnds, WithAnother
  <1>2. ContactInv /\ OtherEnds /\ [Next]_vars => OtherEnds'
    BY SessionEnds, ChatEnds, RequestEnds DEF OtherEnds
  <1> QED
    BY <1>1, <1>2, ContactsInvariance, PTL DEF Spec

-----------------------------------------------------------------------------
(* The tables as Friendship sees them                                      *)

\* What the live rows say after the change of one row or of a pair of them.
LEMMA OneStates ==
  ASSUME NEW table, NEW new, NEW a \in User, NEW b \in User,
         \A x, y \in User : (x = a /\ y = b) \/ StatesOf(new, x, y) = StatesOf(table, x, y)
  PROVE  States(new) = Social!One(States(table), a, b, StatesOf(new, a, b))
  BY DEF States, Social!One

LEMMA BothStates ==
  ASSUME NEW table, NEW new, NEW a \in User, NEW b \in User, a # b,
         \A x, y \in User : (x = a /\ y = b) \/ (x = b /\ y = a)
                             \/ StatesOf(new, x, y) = StatesOf(table, x, y)
  PROVE  States(new) =
           Social!Both(States(table), a, b, StatesOf(new, a, b), StatesOf(new, b, a))
  <1> DEFINE s == StatesOf(new, a, b)
             t == StatesOf(new, b, a)
  <1> DEFINE f == States(table)
             g == Social!Both(f, a, b, s, t)
  <1>1. /\ f = [x \in User |-> f[x]] /\ \A x \in User : f[x] = [y \in User |-> StatesOf(table, x, y)]
        /\ States(new) = [x \in User |-> [y \in User |-> StatesOf(new, x, y)]]
    BY DEF States
  <1> HIDE DEF f
  <1>2. g = [x \in User |-> IF x = a THEN [f[a] EXCEPT ![b] = s]
                            ELSE IF x = b THEN [f[b] EXCEPT ![a] = t] ELSE f[x]]
    BY <1>1 DEF Social!Both
  <1>3. ASSUME NEW x \in User
        PROVE  [y \in User |-> StatesOf(new, x, y)] = IF x = a THEN [f[a] EXCEPT ![b] = s]
                                                      ELSE IF x = b THEN [f[b] EXCEPT ![a] = t] ELSE f[x]
    <2>1. CASE x = a
      BY <1>1, <2>1
    <2>2. CASE x = b
      BY <1>1, <2>2
    <2>3. CASE x # a /\ x # b
      BY <1>1, <2>3
    <2> QED
      BY <2>1, <2>2, <2>3
  <1> HIDE DEF g
  <1> QED
    BY <1>1, <1>2, <1>3 DEF f, g

\* A save changes one status, an insertion adds one, a deletion takes some away.
LEMMA SaveStates ==
  ASSUME NEW table, NEW a, NEW b, NEW i \in LiveRows(table, a, b), AtMostOne(LiveRows(table, a, b)),
         NEW s, NEW x, NEW y
  PROVE  StatesOf(Save(table, i, s), x, y) = IF x = a /\ y = b THEN {s} ELSE StatesOf(table, x, y)
  <1> DEFINE new == Save(table, i, s)
  <1>1. i \in DOMAIN table /\ table[i].user = a /\ table[i].peer = b /\ table[i].live
    BY DEF LiveRows, Rows
  <1>2. LiveRows(new, x, y) = LiveRows(table, x, y)
    BY <1>1, SaveLive
  <1>3. new[i].status = s /\ \A k \in DOMAIN table \ {i} : new[k] = table[k]
    BY <1>1 DEF Save
  <1> HIDE DEF new
  <1>4. CASE x = a /\ y = b
    <2>1. LiveRows(new, x, y) = {i}
      BY <1>2, <1>4 DEF AtMostOne
    <2> QED
      BY <1>3, <1>4, <2>1 DEF StatesOf, new
  <1>5. CASE ~(x = a /\ y = b)
    <2>1. \A k \in LiveRows(table, x, y) : new[k] = table[k]
      BY <1>1, <1>3, <1>5 DEF LiveRows, Rows
    <2> QED
      BY <1>2, <1>5, <2>1 DEF StatesOf, new
  <1> QED
    BY <1>4, <1>5

LEMMA AppendStates ==
  ASSUME NEW R, NEW table \in Seq(R), NEW r \in R, r.live, NEW x, NEW y
  PROVE  StatesOf(Append(table, r), x, y) =
           StatesOf(table, x, y) \cup (IF x = r.user /\ y = r.peer THEN {r.status} ELSE {})
  <1> DEFINE new == Append(table, r)
             n == Len(table) + 1
  <1>1. /\ new[n] = r /\ \A k \in DOMAIN table : new[k] = table[k]
    OBVIOUS
  <1>2. LiveRows(new, x, y) =
          LiveRows(table, x, y) \cup (IF r.user = x /\ r.peer = y THEN {n} ELSE {})
    BY AppendLive
  <1> HIDE DEF new, n
  <1>3. \A k \in LiveRows(table, x, y) : new[k] = table[k]
    BY <1>1 DEF LiveRows, Rows
  <1>4. StatesOf(new, x, y) = {new[k].status : k \in LiveRows(new, x, y)}
    BY DEF StatesOf
  <1>5. StatesOf(table, x, y) = {new[k].status : k \in LiveRows(table, x, y)}
    BY <1>3 DEF StatesOf
  <1>6. CASE x = r.user /\ y = r.peer
    <2> DEFINE L == LiveRows(table, x, y)
    <2>1. StatesOf(new, x, y) = {new[k].status : k \in L \cup {n}}
      BY <1>2, <1>4, <1>6
    <2> HIDE DEF L
    <2>2. {new[k].status : k \in L \cup {n}} = {new[k].status : k \in L} \cup {new[n].status}
      OBVIOUS
    <2> QED
      BY <1>1, <1>5, <1>6, <2>1, <2>2 DEF new, L
  <1>7. CASE ~(x = r.user /\ y = r.peer)
    BY <1>2, <1>4, <1>5, <1>7 DEF new
  <1> QED
    BY <1>6, <1>7

LEMMA BuryStates ==
  ASSUME NEW R \in {ContactRow, ApplyRow}, NEW table \in Seq(R), NEW s, NEW x, NEW y
  PROVE  StatesOf(Bury(table, s), x, y) = {table[i].status : i \in LiveRows(table, x, y) \ s}
  <1> DEFINE new == Bury(table, s)
  <1>1. LiveRows(new, x, y) = LiveRows(table, x, y) \ s
    BY BuryLive
  <1>2. ASSUME NEW i \in DOMAIN table PROVE new[i].status = table[i].status
    <2>1. new[i] = [table[i] EXCEPT !.live = table[i].live /\ i \notin s]
      BY BuryTable
    <2>2. table[i] \in R
      BY ElementOfSeq
    <2>3. CASE R = ContactRow
      BY <2>1, <2>2, <2>3 DEF ContactRow
    <2>4. CASE R = ApplyRow
      BY <2>1, <2>2, <2>4 DEF ApplyRow
    <2> QED
      BY <2>3, <2>4
  <1> HIDE DEF new
  <1>3. \A i \in LiveRows(table, x, y) : new[i].status = table[i].status
    BY <1>2 DEF LiveRows, Rows
  <1>4. StatesOf(new, x, y) = {new[i].status : i \in LiveRows(table, x, y) \ s}
    BY <1>1 DEF StatesOf
  <1> QED
    BY <1>3, <1>4 DEF new

\* Nothing is left between two users, or of one.
LEMMA PartedStates ==
  ASSUME NEW R \in {ContactRow, ApplyRow}, NEW table \in Seq(R),
         NEW a \in User, NEW b \in User, a # b, NEW new, new = Bury(table, Between(table, a, b))
  PROVE  States(new) = Social!Both(States(table), a, b, {}, {})
  <1>1. ASSUME NEW x \in User, NEW y \in User
        PROVE  StatesOf(new, x, y) = IF x = a /\ y = b THEN {}
                                     ELSE IF x = b /\ y = a THEN {}
                                     ELSE StatesOf(table, x, y)
    <2>1. StatesOf(new, x, y) = {table[i].status : i \in LiveRows(table, x, y) \ Between(table, a, b)}
      BY BuryStates
    <2>2. LiveRows(table, x, y) \ Between(table, a, b) =
            IF (x = a /\ y = b) \/ (x = b /\ y = a) THEN {} ELSE LiveRows(table, x, y)
      BY DEF LiveRows, Rows, Between
    <2> QED
      BY <2>1, <2>2 DEF StatesOf
  <1>2. \A x, y \in User : (x = a /\ y = b) \/ (x = b /\ y = a)
                            \/ StatesOf(new, x, y) = StatesOf(table, x, y)
    BY <1>1
  <1>3. States(new) =
          Social!Both(States(table), a, b, StatesOf(new, a, b), StatesOf(new, b, a))
    BY <1>2, BothStates
  <1> QED
    BY <1>1, <1>3

LEMMA GoneStates ==
  ASSUME NEW R \in {ContactRow, ApplyRow}, NEW table \in Seq(R), NEW u \in User,
         NEW new, new = Bury(table, Of(table, u))
  PROVE  States(new) = Social!Without(States(table), u)
  <1>1. ASSUME NEW x \in User, NEW y \in User
        PROVE  StatesOf(new, x, y) = IF u \in {x, y} THEN {} ELSE StatesOf(table, x, y)
    <2>1. StatesOf(new, x, y) = {table[i].status : i \in LiveRows(table, x, y) \ Of(table, u)}
      BY BuryStates
    <2>2. LiveRows(table, x, y) \ Of(table, u) = IF u \in {x, y} THEN {} ELSE LiveRows(table, x, y)
      BY DEF LiveRows, Rows, Of
    <2> QED
      BY <2>1, <2>2 DEF StatesOf
  <1> QED
    BY <1>1 DEF States, Social!Without

\* The sessions that are left.
LEMMA PartedSessions ==
  ASSUME TypeOK, NEW a \in User, NEW b \in User, a # b,
         session' = Bury(session, Between(session, a, b))
  PROVE  [u \in User |-> ReceiversOf(u)]' = Social!Apart(a, b)
  <1>1. session \in Seq(SessionRow)
    BY DEF TypeOK
  <1>2. ASSUME NEW u \in User
        PROVE  ReceiversOf(u)' = IF u = a THEN ReceiversOf(u) \ {b}
                                 ELSE IF u = b THEN ReceiversOf(u) \ {a}
                                 ELSE ReceiversOf(u)
    <2>1. \A v \in User : LiveRows(session', u, v) = LiveRows(session, u, v) \ Between(session, a, b)
      BY <1>1, BuryLive
    <2>2. \A v \in User : LiveRows(session, u, v) \ Between(session, a, b) =
            IF (u = a /\ v = b) \/ (u = b /\ v = a) THEN {} ELSE LiveRows(session, u, v)
      BY DEF LiveRows, Rows, Between
    <2> QED
      BY <2>1, <2>2 DEF ReceiversOf
  <1> QED
    BY <1>2 DEF Social!Apart

LEMMA GoneSessions ==
  ASSUME TypeOK, NEW a \in User, session' = Bury(session, Of(session, a))
  PROVE  [u \in User |-> ReceiversOf(u)]' = Social!Alone(a)
  <1>1. session \in Seq(SessionRow)
    BY DEF TypeOK
  <1>2. ASSUME NEW u \in User
        PROVE  ReceiversOf(u)' = IF u = a THEN {} ELSE ReceiversOf(u) \ {a}
    <2>1. \A v \in User : LiveRows(session', u, v) = LiveRows(session, u, v) \ Of(session, a)
      BY <1>1, BuryLive
    <2>2. \A v \in User : LiveRows(session, u, v) \ Of(session, a) =
            IF a \in {u, v} THEN {} ELSE LiveRows(session, u, v)
      BY DEF LiveRows, Rows, Of
    <2> QED
      BY <2>1, <2>2 DEF ReceiversOf
  <1> QED
    BY <1>2 DEF Social!Alone

\* Without a change of the table nobody's sessions change.
LEMMA SameSessions == ASSUME UNCHANGED session PROVE UNCHANGED [u \in User |-> ReceiversOf(u)]
  BY DEF ReceiversOf, LiveRows, Rows

-----------------------------------------------------------------------------
(* The commits as Friendship sees them                                     *)

\* What a relation, an application or the sessions of a user are to Friendship.
LEMMA Mapped ==
  ASSUME NEW table, NEW a \in User, NEW b \in User
  PROVE  States(table)[a][b] = StatesOf(table, a, b)
  BY DEF States

\* A request about to commit, or to insert, is one of somebody who has an account.
LEMMA Committer ==
  ASSUME ContactInv, SerialInv, clean, NEW p \in Proc, tx[p].pc = "commit"
  PROVE  /\ tx[p].a \in User /\ status[tx[p].a] # "deleted" /\ UpToDate(tx[p])
         /\ status \in [User -> {"NORMAL", "DISABLE", "deleted"}]
         /\ WellFormed(tx[p])
  BY Mover, Now DEF UpToDate, TypeOK

\* One that has read an application saves the one there is.
LEMMA TheRow ==
  ASSUME ContactInv, SerialInv, clean, NEW a \in User, NEW b \in User,
         NEW table \in {contact, apply}, NEW i \in LiveRows(table, a, b)
  PROVE  /\ i \in DOMAIN table /\ AtMostOne(LiveRows(table, a, b))
         /\ StatesOf(table, a, b) = {table[i].status}
  <1>1. AtMostOne(LiveRows(table, a, b))
    BY Now DEF Singles
  <1>2. LiveRows(table, a, b) = {i}
    BY <1>1 DEF AtMostOne
  <1> QED
    BY <1>1, <1>2 DEF StatesOf, LiveRows, Rows

\* One application changes.
LEMMA SaveApplication ==
  ASSUME ContactInv, SerialInv, clean, NEW a \in User, NEW b \in User,
         NEW i \in LiveRows(apply, a, b), NEW s, apply' = Save(apply, i, s)
  PROVE  States(apply)' = Social!One(States(apply), a, b, {s})
  <1>1. AtMostOne(LiveRows(apply, a, b))
    BY TheRow
  <1>2. \A x, y \in User : (x = a /\ y = b) \/ StatesOf(apply', x, y) = StatesOf(apply, x, y)
    BY <1>1, SaveStates
  <1>3. StatesOf(apply', a, b) = {s}
    BY <1>1, SaveStates
  <1>4. States(apply') = Social!One(States(apply), a, b, StatesOf(apply', a, b))
    BY <1>2, OneStates
  <1> QED
    BY <1>3, <1>4

\* ApplyContact makes the application of a to b pending, the one there is or a new one.
LEMMA Asks ==
  ASSUME ContactInv, SerialInv, clean, NEW p \in Proc, ApplyCommit(p)
  PROVE  Social!Ask(tx[p].a, tx[p].b)
  <1> DEFINE a == tx[p].a
             b == tx[p].b
             i == tx[p].i
             r == [user |-> a, peer |-> b, status |-> "PENDING", live |-> TRUE]
  <1>1. /\ tx[p].pc = "commit" /\ tx[p].op = "apply" /\ UpToDate(tx[p])
        /\ a \in User /\ b \in User
    BY Committer DEF ApplyCommit, At, WellFormed
  <1>2. /\ status[b] = "NORMAL"
        /\ IF i = 0 THEN LiveRows(apply, a, b) = {}
           ELSE i \in LiveRows(apply, a, b) /\ apply[i].status # "BLACK"
    BY <1>1 DEF UpToDate
  <1>3. apply' = IF i = 0 THEN Append(apply, r) ELSE Save(apply, i, "PENDING")
    BY DEF ApplyCommit
  <1>4. UNCHANGED <<status, contact, session>>
    BY DEF ApplyCommit
  <1>5. r \in ApplyRow /\ r.live /\ r.user = a /\ r.peer = b /\ r.status = "PENDING"
    BY <1>1 DEF ApplyRow
  <1> HIDE DEF a, b, i, r
  <1>6. /\ StatesOf(apply, a, b) # {"BLACK"}
        /\ States(apply)' = Social!One(States(apply), a, b, {"PENDING"})
    <2>1. CASE i = 0
      <3>1. StatesOf(apply, a, b) = {}
        BY <1>2, <2>1 DEF StatesOf
      <3>2. ASSUME NEW x \in User, NEW y \in User
            PROVE  StatesOf(apply', x, y) =
                     StatesOf(apply, x, y) \cup (IF x = a /\ y = b THEN {"PENDING"} ELSE {})
        BY <1>3, <1>5, <2>1, Now, AppendStates
      <3>3. \A x, y \in User : (x = a /\ y = b) \/ StatesOf(apply', x, y) = StatesOf(apply, x, y)
        BY <3>2
      <3>4. StatesOf(apply', a, b) = {"PENDING"}
        BY <1>1, <3>1, <3>2 DEF a, b
      <3>5. States(apply') = Social!One(States(apply), a, b, StatesOf(apply', a, b))
        BY <1>1, <3>3, OneStates DEF a, b
      <3> QED
        BY <3>1, <3>4, <3>5
    <2>2. CASE i # 0
      <3>1. StatesOf(apply, a, b) = {apply[i].status} /\ apply[i].status # "BLACK"
        BY <1>1, <1>2, <2>2, TheRow DEF a, b
      <3>2. States(apply)' = Social!One(States(apply), a, b, {"PENDING"})
        BY <1>1, <1>2, <1>3, <2>2, SaveApplication DEF a, b
      <3> QED
        BY <3>1, <3>2
    <2> QED
      BY <2>1, <2>2
  <1>7. States(apply)[a][b] = StatesOf(apply, a, b)
    BY <1>1, Mapped DEF a, b
  <1>8. UNCHANGED <<States(contact), [u \in User |-> ReceiversOf(u)]>>
    BY <1>4, SameSessions
  <1> QED
    BY <1>2, <1>4, <1>6, <1>7, <1>8 DEF Social!Ask, a, b

\* RefuseContactApply and BlackApply answer the one application of b to a.
LEMMA Answers ==
  ASSUME ContactInv, SerialInv, clean, NEW p \in Proc, AnswerCommit(p)
  PROVE  \/ tx[p].op = "refuse" /\ Social!Refuse(tx[p].a, tx[p].b)
         \/ tx[p].op = "blackApply" /\ Social!BlackList(tx[p].a, tx[p].b)
  <1> DEFINE a == tx[p].a
             b == tx[p].b
             i == tx[p].i
             s == IF tx[p].op = "refuse" THEN "REFUSE" ELSE "BLACK"
  <1>1. /\ tx[p].pc = "commit" /\ tx[p].op \in {"refuse", "blackApply"} /\ UpToDate(tx[p])
        /\ a \in User /\ b \in User
    BY Committer DEF AnswerCommit, At, WellFormed
  <1>2. i \in LiveRows(apply, b, a) /\ (tx[p].op = "refuse" => apply[i].status = "PENDING")
    BY <1>1 DEF UpToDate
  <1>3. apply' = Save(apply, i, s) /\ UNCHANGED <<status, contact, session>>
    BY DEF AnswerCommit
  <1>4. (s = "BLACK" /\ tx[p].op = "blackApply") \/ (s = "REFUSE" /\ tx[p].op = "refuse")
    BY <1>1
  <1> HIDE DEF a, b, i, s
  <1>5. StatesOf(apply, b, a) = {apply[i].status}
    BY <1>1, <1>2, TheRow DEF a, b
  <1>6. States(apply)' = Social!One(States(apply), b, a, {s})
    BY <1>1, <1>2, <1>3, SaveApplication DEF a, b
  <1>7. States(apply)[b][a] = StatesOf(apply, b, a)
    BY <1>1, Mapped DEF a, b
  <1>8. UNCHANGED <<States(contact), [u \in User |-> ReceiversOf(u)]>>
    BY <1>3, SameSessions
  <1> QED
    BY <1>2, <1>3, <1>4, <1>5, <1>6, <1>7, <1>8 DEF Social!Refuse, Social!BlackList, a, b

\* PassContactApply ties two who were not, in either direction.
LEMMA Agrees ==
  ASSUME ContactInv, SerialInv, clean, NEW p \in Proc, PassCommit(p)
  PROVE  Social!Agree(tx[p].a, tx[p].b)
  <1> DEFINE a == tx[p].a
             b == tx[p].b
             i == tx[p].i
             mid == Append(contact, Normal(a, b))
  <1>1. /\ tx[p].pc = "commit" /\ tx[p].op = "pass" /\ UpToDate(tx[p])
        /\ a \in User /\ b \in User /\ b # a
    BY Committer DEF PassCommit, At, WellFormed
  <1>2. i \in LiveRows(apply, b, a) /\ LiveRows(contact, a, b) = {} /\ status[b] = "NORMAL"
    BY <1>1 DEF UpToDate
  <1>3. apply' = Save(apply, i, "AGREE") /\ UNCHANGED <<status, session>>
    BY DEF PassCommit
  <1>4. /\ contact \in Seq(ContactRow)
        /\ Normal(a, b) \in ContactRow /\ Normal(b, a) \in ContactRow
    BY <1>1, Now DEF Normal, ContactRow
  <1>5. contact' = Append(mid, Normal(b, a)) /\ mid \in Seq(ContactRow)
    BY <1>4 DEF PassCommit
  <1>6. /\ Normal(a, b).user = a /\ Normal(a, b).peer = b /\ Normal(a, b).live
        /\ Normal(b, a).user = b /\ Normal(b, a).peer = a /\ Normal(b, a).live
        /\ Normal(a, b).status = "NORMAL" /\ Normal(b, a).status = "NORMAL"
    BY DEF Normal
  <1>7. LiveRows(contact, b, a) = {}
    BY <1>2, BothLive
  <1> HIDE DEF a, b, i, mid
  <1>8. ASSUME NEW x \in User, NEW y \in User
        PROVE  StatesOf(contact', x, y) =
                 (StatesOf(contact, x, y) \cup (IF x = a /\ y = b THEN {"NORMAL"} ELSE {}))
                                          \cup (IF x = b /\ y = a THEN {"NORMAL"} ELSE {})
    <2>1. StatesOf(mid, x, y) = StatesOf(contact, x, y) \cup (IF x = a /\ y = b THEN {"NORMAL"} ELSE {})
      BY <1>4, <1>6, AppendStates DEF mid
    <2>2. StatesOf(contact', x, y) = StatesOf(mid, x, y) \cup (IF x = b /\ y = a THEN {"NORMAL"} ELSE {})
      BY <1>4, <1>5, <1>6, AppendStates
    <2> QED
      BY <2>1, <2>2
  <1>9. a \in User /\ b \in User /\ a # b
    BY <1>1 DEF a, b
  <1>10. StatesOf(contact, a, b) = {} /\ StatesOf(contact, b, a) = {}
    BY <1>2, <1>7 DEF StatesOf
  <1>11. StatesOf(contact', a, b) = {"NORMAL"} /\ StatesOf(contact', b, a) = {"NORMAL"}
    BY <1>8, <1>9, <1>10
  <1>12. \A x, y \in User : (x = a /\ y = b) \/ (x = b /\ y = a)
                            \/ StatesOf(contact', x, y) = StatesOf(contact, x, y)
    BY <1>8
  <1>13. States(contact') =
           Social!Both(States(contact), a, b, StatesOf(contact', a, b), StatesOf(contact', b, a))
    BY <1>9, <1>12, BothStates
  <1>14. /\ StatesOf(apply, b, a) # {}
         /\ States(apply)' = Social!One(States(apply), b, a, {"AGREE"})
    BY <1>2, <1>3, <1>9, TheRow, SaveApplication
  <1>15. /\ States(apply)[b][a] = StatesOf(apply, b, a)
         /\ States(contact)[a][b] = {} /\ States(contact)[b][a] = {}
    BY <1>9, <1>10, Mapped
  <1>16. UNCHANGED [u \in User |-> ReceiversOf(u)]
    BY <1>3, SameSessions
  <1> QED
    BY <1>2, <1>3, <1>11, <1>13, <1>14, <1>15, <1>16 DEF Social!Agree, a, b

\* DeleteContact leaves nothing between the two.
LEMMA Parts ==
  ASSUME ContactInv, SerialInv, clean, NEW p \in Proc, DeleteContact(p)
  PROVE  Social!Part(tx[p].a, tx[p].b)
  <1> DEFINE a == tx[p].a
             b == tx[p].b
  <1>1. a \in User /\ b \in User /\ a # b
    BY Committer DEF DeleteContact, At, WellFormed
  <1>2. /\ contact' = Bury(contact, Between(contact, a, b))
        /\ session' = Bury(session, Between(session, a, b))
        /\ apply' = Bury(apply, Between(apply, a, b))
        /\ UNCHANGED status
    BY DEF DeleteContact
  <1> HIDE DEF a, b
  <1>3. TypeOK /\ contact \in Seq(ContactRow) /\ apply \in Seq(ApplyRow)
    BY Now
  <1>4. States(contact') = Social!Both(States(contact), a, b, {}, {})
    BY <1>1, <1>2, <1>3, PartedStates
  <1>5. States(apply') = Social!Both(States(apply), a, b, {}, {})
    BY <1>1, <1>2, <1>3, PartedStates
  <1>6. [u \in User |-> ReceiversOf(u)]' = Social!Apart(a, b)
    BY <1>1, <1>2, <1>3, PartedSessions
  <1> QED
    BY <1>2, <1>4, <1>5, <1>6 DEF Social!Part, a, b

\* BlackContact blackens both sides of the relation there is, if there is one.
LEMMA Blocks ==
  ASSUME ContactInv, SerialInv, clean, NEW p \in Proc, BlackContact(p)
  PROVE  Social!Block(tx[p].a, tx[p].b)
  <1> DEFINE a == tx[p].a
             b == tx[p].b
  <1>1. a \in User /\ b \in User /\ a # b
    BY Committer DEF BlackContact, At, WellFormed
  <1>2. /\ contact' = Blacken(a, b)
        /\ session' = Bury(session, Between(session, a, b))
        /\ UNCHANGED <<status, apply>>
    BY DEF BlackContact
  <1> HIDE DEF a, b
  <1>3. ASSUME NEW i \in DOMAIN contact
        PROVE  /\ contact'[i].user = contact[i].user /\ contact'[i].peer = contact[i].peer
               /\ contact'[i].live = contact[i].live
               /\ contact'[i].status = IF i \in LiveRows(contact, a, b) THEN "BLACK"
                                       ELSE IF i \in LiveRows(contact, b, a) THEN "BE_BLACK"
                                       ELSE contact[i].status
    BY <1>2, RowTypes DEF Blacken, ContactRow, ContactInv
  <1>4. DOMAIN contact' = DOMAIN contact
    BY <1>2 DEF Blacken
  <1>5. \A x, y : LiveRows(contact', x, y) = LiveRows(contact, x, y)
    BY <1>3, <1>4 DEF LiveRows, Rows
  <1>6. StatesOf(contact', a, b) = {"BLACK" : i \in LiveRows(contact, a, b)}
    <2>1. \A i \in LiveRows(contact, a, b) : contact'[i].status = "BLACK"
      BY <1>3 DEF LiveRows, Rows
    <2> QED
      BY <1>5, <2>1 DEF StatesOf
  <1>7. StatesOf(contact', b, a) = {"BE_BLACK" : i \in LiveRows(contact, b, a)}
    <2>1. \A i \in LiveRows(contact, b, a) : contact'[i].status = "BE_BLACK"
      BY <1>1, <1>3 DEF LiveRows, Rows
    <2> QED
      BY <1>5, <2>1 DEF StatesOf
  <1>8. ASSUME NEW x \in User, NEW y \in User, ~(x = a /\ y = b), ~(x = b /\ y = a)
        PROVE  StatesOf(contact', x, y) = StatesOf(contact, x, y)
    <2>1. \A i \in LiveRows(contact, x, y) : contact'[i].status = contact[i].status
      BY <1>3, <1>8 DEF LiveRows, Rows
    <2> QED
      BY <1>5, <2>1 DEF StatesOf
  <1>9. LiveRows(contact, a, b) = {} <=> LiveRows(contact, b, a) = {}
    BY BothLive
  <1>10. [u \in User |-> ReceiversOf(u)]' = Social!Apart(a, b)
    BY <1>1, <1>2, Now, PartedSessions
  <1>11. States(contact)[a][b] = StatesOf(contact, a, b)
    BY <1>1, Mapped
  <1>12. \A x, y \in User : (x = a /\ y = b) \/ (x = b /\ y = a)
                            \/ StatesOf(contact', x, y) = StatesOf(contact, x, y)
    BY <1>8
  <1>13. States(contact') =
           Social!Both(States(contact), a, b, StatesOf(contact', a, b), StatesOf(contact', b, a))
    BY <1>1, <1>12, BothStates
  <1>14. CASE LiveRows(contact, a, b) = {}
    <2>1. StatesOf(contact, a, b) = {}
      BY <1>14 DEF StatesOf
    <2>2. \A x, y \in User : StatesOf(contact', x, y) = StatesOf(contact, x, y)
      <3>1. StatesOf(contact, b, a) = {} /\ StatesOf(contact', a, b) = {} /\ StatesOf(contact', b, a) = {}
        BY <1>5, <1>9, <1>14 DEF StatesOf
      <3> QED
        BY <1>12, <2>1, <3>1
    <2>3. States(contact') = States(contact)
      BY <2>2 DEF States
    <2> QED
      BY <1>2, <1>10, <1>11, <2>1, <2>3 DEF Social!Block, a, b
  <1>15. CASE LiveRows(contact, a, b) # {}
    <2>1. StatesOf(contact, a, b) # {}
      BY <1>15 DEF StatesOf
    <2>2. StatesOf(contact', a, b) = {"BLACK"} /\ StatesOf(contact', b, a) = {"BE_BLACK"}
      BY <1>6, <1>7, <1>9, <1>15
    <2> QED
      BY <1>2, <1>10, <1>11, <1>13, <2>1, <2>2 DEF Social!Block, a, b
  <1> QED
    BY <1>14, <1>15

\* CancelBlackContact frees both sides of a relation that a has blocked.
LEMMA Unblocks ==
  ASSUME ContactInv, SerialInv, clean, NEW p \in Proc, CancelCommit(p)
  PROVE  Social!Unblock(tx[p].a, tx[p].b)
  <1> DEFINE a == tx[p].a
             b == tx[p].b
             i == tx[p].i
             j == tx[p].j
             mid == Save(contact, i, "NORMAL")
  <1>1. /\ tx[p].pc = "commit" /\ tx[p].op = "cancel" /\ UpToDate(tx[p])
        /\ a \in User /\ b \in User /\ a # b
        /\ i \in Rows(contact, a, b) /\ j = Peer(i)
    BY Committer, Mover DEF CancelCommit, At, WellFormed, HoldsRows
  <1>2. /\ contact' = Save(mid, j, "NORMAL") /\ UNCHANGED <<status, apply, session>>
    BY DEF CancelCommit
  <1>3. contact[i].live /\ contact[i].status = "BLACK"
    BY <1>1 DEF UpToDate
  <1> HIDE DEF a, b, i, j, mid
  <1>4. i \in LiveRows(contact, a, b)
    BY <1>1, <1>3 DEF LiveRows, Rows
  <1>5. j \in LiveRows(contact, b, a) /\ contact[j].status = "BE_BLACK"
    BY <1>1, <1>3, <1>4, BothLive DEF OtherSide
  <1>6. StatesOf(contact, a, b) = {"BLACK"} /\ StatesOf(contact, b, a) = {"BE_BLACK"}
    BY <1>1, <1>3, <1>4, <1>5, TheRow
  <1>7. AtMostOne(LiveRows(contact, a, b)) /\ AtMostOne(LiveRows(contact, b, a))
    BY <1>1, Now DEF Singles
  <1>8. \A x, y : StatesOf(mid, x, y) = IF x = a /\ y = b THEN {"NORMAL"} ELSE StatesOf(contact, x, y)
    BY <1>4, <1>7, SaveStates DEF mid
  <1>9. LiveRows(mid, b, a) = LiveRows(contact, b, a)
    <2>1. i \in DOMAIN contact
      BY <1>4 DEF LiveRows, Rows
    <2> QED
      BY <1>3, <2>1, SaveLive DEF mid
  <1>10. \A x, y : StatesOf(contact', x, y) = IF x = b /\ y = a THEN {"NORMAL"} ELSE StatesOf(mid, x, y)
    BY <1>2, <1>5, <1>7, <1>9, SaveStates
  <1>11. StatesOf(contact', a, b) = {"NORMAL"} /\ StatesOf(contact', b, a) = {"NORMAL"}
    BY <1>1, <1>8, <1>10
  <1>12. \A x, y \in User : (x = a /\ y = b) \/ (x = b /\ y = a)
                            \/ StatesOf(contact', x, y) = StatesOf(contact, x, y)
    BY <1>8, <1>10
  <1>13. States(contact') =
           Social!Both(States(contact), a, b, StatesOf(contact', a, b), StatesOf(contact', b, a))
    BY <1>1, <1>12, BothStates
  <1>14. States(contact)[a][b] = {"BLACK"} /\ States(contact)[b][a] = {"BE_BLACK"}
    BY <1>1, <1>6, Mapped
  <1>15. UNCHANGED [u \in User |-> ReceiversOf(u)]
    BY <1>2, SameSessions
  <1> QED
    BY <1>2, <1>11, <1>13, <1>14, <1>15 DEF Social!Unblock, a, b

\* CreateSession adds a session that a did not have.
LEMMA Opens ==
  ASSUME ContactInv, SerialInv, clean, NEW p \in Proc, CreateSession(p)
  PROVE  /\ Social!Open(tx[p].a, tx[p].b)
         /\ tx[p].a \in User /\ tx[p].b \in User /\ status[tx[p].a] # "deleted"
  <1> DEFINE a == tx[p].a
             b == tx[p].b
             r == [user |-> a, peer |-> b, live |-> TRUE]
  <1>1. tx[p].pc = "insert" /\ a \in User /\ b \in User
    BY Mover DEF CreateSession, WellFormed
  <1>2. LiveRows(session, a, b) = {} /\ status[a] = "NORMAL" /\ status[b] = "NORMAL"
    BY <1>1, Now DEF UpToDate
  <1>3. session' = Append(session, r) /\ UNCHANGED <<status, contact, apply>>
    BY DEF CreateSession
  <1>4. r \in SessionRow /\ r.live /\ r.user = a /\ r.peer = b /\ session \in Seq(SessionRow)
    BY <1>1, Now DEF SessionRow
  <1> HIDE DEF a, b, r
  <1>5. \A x, y : LiveRows(session', x, y) =
          LiveRows(session, x, y) \cup (IF a = x /\ b = y THEN {Len(session) + 1} ELSE {})
    BY <1>3, <1>4, AppendLive
  <1>6. \A u \in User : ReceiversOf(u)' = IF u = a THEN ReceiversOf(u) \cup {b} ELSE ReceiversOf(u)
    <2>1. \A u, v : LiveRows(session', u, v) # {} <=> LiveRows(session, u, v) # {} \/ (u = a /\ v = b)
      BY <1>5
    <2>2. b \in User
      BY <1>1 DEF b
    <2> QED
      BY <2>1, <2>2 DEF ReceiversOf
  <1>7. b \notin ReceiversOf(a)
    BY <1>2 DEF ReceiversOf
  <1>8. UNCHANGED <<States(contact), States(apply)>>
    BY <1>3
  <1> QED
    BY <1>1, <1>2, <1>3, <1>6, <1>7, <1>8 DEF Social!Open, a, b

\* DeleteSession buries the one session a has with b.
LEMMA Closes ==
  ASSUME ContactInv, SerialInv, clean, NEW p \in Proc, DeleteSession(p), ~Refuse(p)
  PROVE  Social!Close(tx[p].a, tx[p].b)
  <1> DEFINE a == tx[p].a
             b == tx[p].b
  <1>1. a \in User /\ b \in User
    BY Committer DEF DeleteSession, At, WellFormed
  <1>2. PICK i \in Rows(session, a, b) :
          /\ session[i].live /\ session' = Bury(session, {i})
          /\ UNCHANGED <<status, contact, apply>>
    BY DEF DeleteSession
  <1> HIDE DEF a, b
  <1>3. \A x, y : LiveRows(session', x, y) = LiveRows(session, x, y) \ {i}
    BY <1>2, Now, BuryLive
  <1>4. i \in LiveRows(session, a, b) /\ AtMostOne(LiveRows(session, a, b))
    BY <1>1, <1>2, Now DEF LiveRows, Singles
  <1>5. \A x, y : LiveRows(session', x, y) = IF x = a /\ y = b THEN {} ELSE LiveRows(session, x, y)
    BY <1>3, <1>4 DEF AtMostOne, LiveRows, Rows
  <1>6. \A u \in User : ReceiversOf(u)' = IF u = a THEN ReceiversOf(u) \ {b} ELSE ReceiversOf(u)
    BY <1>5 DEF ReceiversOf
  <1>7. UNCHANGED <<States(contact), States(apply)>>
    BY <1>2
  <1> QED
    BY <1>1, <1>2, <1>6, <1>7 DEF Social!Close, a, b

\* Accounts that are enabled, disabled or deleted.
LEMMA AccountsChange ==
  ASSUME ContactInv, SerialInv, clean, NEW p \in Proc
  PROVE  /\ AbleUsers(p) => Social!Enable(tx[p].a)
         /\ DisableUsers(p) => Social!Disable(tx[p].a)
         /\ DeleteUsers(p) => Social!Delete(tx[p].a)
  <1> DEFINE a == tx[p].a
  <1>1. ASSUME tx[p].pc = "commit" PROVE a \in User /\ status[a] # "deleted"
    BY <1>1, Committer
  <1>2. ASSUME AbleUsers(p) PROVE Social!Enable(a)
    <2>1. /\ status' = [status EXCEPT ![a] = "NORMAL"]
          /\ UNCHANGED <<contact, apply, session>>
      BY <1>1, <1>2 DEF AbleUsers, At
    <2>2. UNCHANGED <<States(contact), States(apply), [u \in User |-> ReceiversOf(u)]>>
      BY <2>1, SameSessions
    <2> QED
      BY <2>1, <2>2 DEF Social!Enable
  <1>3. ASSUME DisableUsers(p) PROVE Social!Disable(a)
    <2>1. /\ status' = [status EXCEPT ![a] = "DISABLE"] /\ a \in User
          /\ session' = Bury(session, Of(session, a)) /\ UNCHANGED <<contact, apply>>
      BY <1>1, <1>3 DEF DisableUsers, At
    <2> HIDE DEF a
    <2>2. [u \in User |-> ReceiversOf(u)]' = Social!Alone(a)
      BY <2>1, Now, GoneSessions
    <2>3. UNCHANGED <<States(contact), States(apply)>>
      BY <2>1
    <2> QED
      BY <2>1, <2>2, <2>3 DEF Social!Disable
  <1>4. ASSUME DeleteUsers(p) PROVE Social!Delete(a)
    <2>1. /\ status' = [status EXCEPT ![a] = "deleted"] /\ a \in User
          /\ session' = Bury(session, Of(session, a))
          /\ contact' = Bury(contact, Of(contact, a)) /\ apply' = Bury(apply, Of(apply, a))
      BY <1>1, <1>4 DEF DeleteUsers, At
    <2> HIDE DEF a
    <2>2. [u \in User |-> ReceiversOf(u)]' = Social!Alone(a)
      BY <2>1, Now, GoneSessions
    <2>3. /\ States(contact') = Social!Without(States(contact), a)
          /\ States(apply') = Social!Without(States(apply), a)
      BY <2>1, Now, GoneStates
    <2> QED
      BY <2>1, <2>2, <2>3 DEF Social!Delete
  <1> QED
    BY <1>2, <1>3, <1>4

\* Strangers, or two contacts, are so in the tables.
LEMMA SocialInit == Init => Social!Init
  <1> SUFFICES ASSUME Init PROVE Social!Init
    OBVIOUS
  <1>1. status = [u \in User |-> "NORMAL"] /\ session = << >> /\ Served = {}
    BY DEF Init, Served, Idle, Request
  <1>2. [u \in User |-> ReceiversOf(u)] = [u \in User |-> {}]
    BY <1>1 DEF ReceiversOf, LiveRows, Rows
  <1>3. States(<< >>) = Social!Nothing
    BY DEF States, StatesOf, LiveRows, Rows, Social!Nothing
  <1>4. CASE contact = << >> /\ apply = << >>
    BY <1>1, <1>2, <1>3, <1>4 DEF Social!Init
  <1>5. ASSUME NEW a \in User, NEW b \in User, a # b,
               contact = <<[user |-> a, peer |-> b, status |-> "NORMAL", live |-> TRUE],
                           [user |-> b, peer |-> a, status |-> "NORMAL", live |-> TRUE]>>,
               apply = <<[user |-> b, peer |-> a, status |-> "AGREE", live |-> TRUE]>>
        PROVE  Social!Init
    <2>1. /\ DOMAIN contact = {1, 2} /\ DOMAIN apply = {1}
          /\ contact[1].user = a /\ contact[1].peer = b /\ contact[1].live
          /\ contact[2].user = b /\ contact[2].peer = a /\ contact[2].live
          /\ contact[1].status = "NORMAL" /\ contact[2].status = "NORMAL"
          /\ apply[1].user = b /\ apply[1].peer = a /\ apply[1].live /\ apply[1].status = "AGREE"
      BY <1>5
    <2>2. \A x, y \in User :
            /\ LiveRows(contact, x, y) = IF x = a /\ y = b THEN {1}
                                         ELSE IF x = b /\ y = a THEN {2} ELSE {}
            /\ LiveRows(apply, x, y) = IF x = b /\ y = a THEN {1} ELSE {}
      BY <1>5, <2>1 DEF LiveRows, Rows
    <2>3. \A x, y \in User :
            /\ StatesOf(contact, x, y) = IF x = a /\ y = b THEN {"NORMAL"}
                                         ELSE IF x = b /\ y = a THEN {"NORMAL"} ELSE {}
            /\ StatesOf(apply, x, y) = IF x = b /\ y = a THEN {"AGREE"} ELSE {}
      <3> TAKE x, y \in User
      <3>0. a # b
        BY <1>5
      <3>1. CASE x = a /\ y = b
        <4>1. LiveRows(contact, x, y) = {1} /\ LiveRows(apply, x, y) = {}
          BY <1>5, <2>2, <3>1
        <4> QED
          BY <3>0, <2>1, <3>1, <4>1 DEF StatesOf
      <3>2. CASE x = b /\ y = a
        <4>1. LiveRows(contact, x, y) = {2} /\ LiveRows(apply, x, y) = {1}
          BY <1>5, <2>2, <3>2
        <4> QED
          BY <3>0, <2>1, <3>2, <4>1 DEF StatesOf
      <3>3. CASE ~(x = a /\ y = b) /\ ~(x = b /\ y = a)
        <4>1. LiveRows(contact, x, y) = {} /\ LiveRows(apply, x, y) = {}
          BY <2>2, <3>3
        <4> QED
          BY <3>3, <4>1 DEF StatesOf
      <3> QED
        BY <3>1, <3>2, <3>3
    <2>4. \A x, y \in User : StatesOf(<< >>, x, y) = {}
      BY DEF StatesOf, LiveRows, Rows
    <2>5. \A x, y \in User : (x = a /\ y = b) \/ (x = b /\ y = a)
                             \/ StatesOf(contact, x, y) = StatesOf(<< >>, x, y)
      BY <2>3, <2>4
    <2>6. States(contact) = Social!Both(States(<< >>), a, b, StatesOf(contact, a, b), StatesOf(contact, b, a))
      BY <1>5, <2>5, BothStates
    <2>7. \A x, y \in User : (x = a /\ y = b) \/ (x = b /\ y = a)
                             \/ StatesOf(apply, x, y) = StatesOf(<< >>, x, y)
      BY <2>3, <2>4
    <2>8. States(apply) = Social!Both(States(<< >>), a, b, StatesOf(apply, a, b), StatesOf(apply, b, a))
      BY <1>5, <2>7, BothStates
    <2>9. /\ States(contact) = Social!Both(Social!Nothing, a, b, {"NORMAL"}, {"NORMAL"})
          /\ States(apply) = Social!Both(Social!Nothing, a, b, {}, {"AGREE"})
      BY <1>3, <1>5, <2>3, <2>6, <2>8
    <2> QED
      BY <1>1, <1>2, <1>5, <2>9 DEF Social!Init
  <1> QED
    BY <1>4, <1>5 DEF Init

\* Reads, redis and the rest leave the tables alone, and so what users have.
LEMMA Unseen == ASSUME UNCHANGED db PROVE UNCHANGED Social!kept
  <1>1. UNCHANGED <<status, contact, apply, session>>
    BY DEF db
  <1>2. UNCHANGED <<States(contact), States(apply)>>
    BY <1>1
  <1> QED
    BY <1>1, <1>2, SameSessions DEF Social!kept

-----------------------------------------------------------------------------
(* The requests as Friendship sees them                                    *)

\* Whom Friendship is told a request is about.
About(t) == IF t.op = "resume" THEN NoUser ELSE t.b

\* A request and whether it is done.
LEMMA SeenDone ==
  ASSUME NEW t
  PROVE  \/ /\ t.pc \in {"redis", "opened"}
            /\ Seen(t) = [op |-> t.op, by |-> t.a, other |-> About(t), done |-> TRUE]
         \/ /\ t.pc \notin {"redis", "opened"}
            /\ Seen(t) = [op |-> t.op, by |-> t.a, other |-> About(t), done |-> FALSE]
  <1>1. ASSUME t.pc \in {"redis", "opened"} PROVE (t.pc \in {"redis", "opened"}) = TRUE
    BY <1>1
  <1>2. ASSUME t.pc \notin {"redis", "opened"} PROVE (t.pc \in {"redis", "opened"}) = FALSE
    BY <1>2
  <1> QED
    BY <1>1, <1>2, Zenon DEF Seen, About

\* One request is served at a time, ...
LEMMA ServesOne ==
  ASSUME SerialInv, clean, NEW p \in Proc, tx[p].pc # "idle"
  PROVE  Served = {Seen(tx[p])}
  BY OthersIdle DEF Served

\* ... goes on alone, ...
LEMMA ServesNext ==
  ASSUME ContactInv, SerialInv, clean, NEW p \in Proc, tx[p].pc # "idle", NEW t, Becomes(p, t)
  PROVE  Served' = IF t.pc = "idle" THEN {} ELSE {Seen(t)}
  <1>1. tx'[p] = t /\ \A q \in Proc \ {p} : tx'[q].pc = "idle"
    BY OthersIdle DEF Becomes, ContactInv, TypeOK
  <1> QED
    BY <1>1 DEF Served

\* ... and ends.
LEMMA Finishes ==
  ASSUME ContactInv, SerialInv, clean, NEW p \in Proc, tx[p].pc # "idle", Refuse(p)
  PROVE  Social!Next
  <1>1. Served # {}
    BY ServesOne
  <1>2. Served' = {}
    BY ServesNext DEF Refuse, Idle, Request
  <1>3. UNCHANGED Social!kept
    BY Unseen DEF Refuse
  <1> QED
    BY <1>1, <1>2, <1>3 DEF Social!End, Social!Next

\* What it reads does not show before it is done, ...
LEMMA Silent ==
  ASSUME ContactInv, SerialInv, clean, NEW p \in Proc, tx[p].pc # "idle", NEW t, Becomes(p, t),
         t.pc # "idle", Seen(t) = Seen(tx[p]), UNCHANGED db
  PROVE  UNCHANGED Social!vars
  BY ServesOne, ServesNext, Unseen DEF Social!vars

\* ... nor how its state is written down.
LEMMA SeenAlike ==
  ASSUME NEW t, NEW u, t.op = u.op, t.a = u.a, t.op = "resume" \/ t.b = u.b,
         t.pc \in {"redis", "opened"} <=> u.pc \in {"redis", "opened"}
  PROVE  Seen(t) = Seen(u)
  BY DEF Seen

\* It is done once.
LEMMA Effective ==
  ASSUME ContactInv, SerialInv, clean, NEW p \in Proc, tx[p].pc \notin {"idle", "redis", "opened"},
         NEW t, Becomes(p, t), t.pc \in {"redis", "opened"},
         t.op = tx[p].op, t.a = tx[p].a, t.b = tx[p].b,
         Social!Does(tx[p].op, tx[p].a, About(tx[p]))
  PROVE  Social!Next
  <1> DEFINE r == Seen(tx[p])
  <1>1. Served = {r} /\ Served' = {Seen(t)}
    BY ServesOne, ServesNext
  <1>2. r.op = tx[p].op /\ r.by = tx[p].a /\ r.other = About(tx[p]) /\ ~r.done
    BY DEF Seen, About
  <1>3. Seen(t) = [r EXCEPT !.done = TRUE]
    <2>1. About(t) = About(tx[p])
      BY DEF About
    <2>2. /\ Seen(t) = [op |-> t.op, by |-> t.a, other |-> About(t), done |-> TRUE]
          /\ r = [op |-> tx[p].op, by |-> tx[p].a, other |-> About(tx[p]), done |-> FALSE]
      BY SeenDone
    <2>3. Seen(t) = [op |-> tx[p].op, by |-> tx[p].a, other |-> About(tx[p]), done |-> TRUE]
      BY <2>1, <2>2
    <2> DEFINE no == FALSE
               yes == TRUE
    <2>4. /\ Seen(t) = [op |-> tx[p].op, by |-> tx[p].a, other |-> About(tx[p]), done |-> yes]
          /\ r = [op |-> tx[p].op, by |-> tx[p].a, other |-> About(tx[p]), done |-> no]
      BY <2>2, <2>3
    <2> HIDE DEF r, no, yes
    <2>5. Seen(t) = [r EXCEPT !.done = yes]
      BY <2>4
    <2> QED
      BY <2>5, Zenon DEF yes
  <1> HIDE DEF r
  <1>4. Social!Effect(r)
    BY <1>1, <1>2, <1>3 DEF Social!Effect
  <1> QED
    BY <1>1, <1>4 DEF Social!Next

\* A commit is such a step.
LEMMA CommitDone ==
  ASSUME ContactInv, SerialInv, clean, NEW p \in Proc, tx[p].pc = "commit",
         NEW steps, Committed(p, steps),
         Social!Does(tx[p].op, tx[p].a, About(tx[p]))
  PROVE  Social!Next
  <1> DEFINE t == [tx[p] EXCEPT !.pc = "redis", !.todo = steps]
  <1>1. Becomes(p, t)
    BY DEF Committed
  <1>2. t.pc = "redis" /\ t.op = tx[p].op /\ t.a = tx[p].a /\ t.b = tx[p].b
    BY Mover DEF TxState
  <1> HIDE DEF t
  <1> QED
    BY <1>1, <1>2, Effective

\* So is a read that finds what it was to find.
LEMMA FoundDone ==
  ASSUME ContactInv, SerialInv, clean, NEW p \in Proc, tx[p].pc \notin {"idle", "redis", "opened"},
         NEW t, Reads(p, t), t.pc \in {"redis", "opened"},
         t.op = tx[p].op, t.a = tx[p].a, t.b = tx[p].b,
         tx[p].op \in {"friends", "chat", "resume"}
  PROVE  Social!Next
  <1>1. UNCHANGED Social!kept
    BY Unseen DEF Reads
  <1>2. Social!Does(tx[p].op, tx[p].a, About(tx[p]))
    BY <1>1 DEF Social!Does
  <1> QED
    BY <1>2, Effective DEF Reads

-----------------------------------------------------------------------------
(* The steps as Friendship sees them                                       *)

\* A request of a serial history begins when no other is being served.
LEMMA Begins ==
  ASSUME ContactInv, clean', NEW p \in Proc, Call(p)
  PROVE  Social!Next
  <1>1. PICK op \in Op, a \in User, b \in User \cup {NoUser} :
          Legal(op, a, b) /\ Becomes(p, Request(EntryPc(op), op, a, b))
    BY DEF Call
  <1> DEFINE t == Request(EntryPc(op), op, a, b)
  <1>2. /\ t.op = op /\ t.a = a /\ t.b = b
        /\ t.pc \in {"commit", "check", "list", "read"}
    BY DEF Request, EntryPc
  <1> HIDE DEF t
  <1>3. \A q \in Proc : tx[q].pc = "idle"
    BY DEF Call, OneAtATime
  <1>4. tx'[p] = t /\ \A q \in Proc \ {p} : tx'[q].pc = "idle"
    BY <1>1, <1>3 DEF Becomes, ContactInv, TypeOK, t
  <1>5. Served = {} /\ Served' = {Seen(t)}
    BY <1>2, <1>3, <1>4 DEF Served
  <1>6. op = "resume" => b = NoUser
    BY <1>1 DEF Legal
  <1>7. Seen(t) = [op |-> op, by |-> a, other |-> b, done |-> FALSE]
    BY <1>2, <1>6, SeenDone DEF About
  <1>8. status[a] # "deleted" /\ UNCHANGED Social!kept
    BY <1>1, Unseen DEF Legal, Call
  <1>9. Social!Begin(op, a, b)
    BY <1>5, <1>7, <1>8 DEF Social!Begin
  <1>10. (op \in Social!AboutTwo /\ b \in User \ {a}) \/ (op \in Social!AboutOne /\ b = NoUser)
    <2>1. Rows(apply, b, a) # {} \/ Rows(contact, a, b) # {} \/ Rows(session, a, b) # {} => b \in User
      BY RowTypes DEF ContactInv, Rows, ContactRow, ApplyRow, SessionRow
    <2> QED
      BY <1>1, <2>1 DEF Legal, Social!AboutTwo, Social!AboutOne
  <1> QED
    BY <1>9, <1>10 DEF Social!Next

\* An account comes back between two requests.
LEMMA Revives ==
  ASSUME ContactInv, clean', NEW u \in User, Revive(u)
  PROVE  Social!Next
  <1>1. Served = {} /\ Served' = {}
    BY DEF Revive, OneAtATime, Served
  <1>2. /\ status[u] = "deleted" /\ status' = [status EXCEPT ![u] = "NORMAL"]
        /\ UNCHANGED <<contact, apply, session>>
    BY DEF Revive
  <1>3. UNCHANGED <<States(contact), States(apply), [v \in User |-> ReceiversOf(v)]>>
    BY <1>2, SameSessions
  <1>4. Social!Revive(u)
    BY <1>1, <1>2, <1>3 DEF Social!Revive
  <1> QED
    BY <1>4 DEF Social!Next

\* The commits about two users, ...
LEMMA RelationStep ==
  ASSUME ContactInv, SerialInv, clean, NEW p \in Proc,
         \/ ApplyCommit(p) \/ AnswerCommit(p) \/ PassCommit(p) \/ DeleteContact(p)
         \/ BlackContact(p) \/ CancelCommit(p) \/ (DeleteSession(p) /\ ~Refuse(p))
  PROVE  Social!Next
  <1>1. /\ tx[p].pc = "commit"
        /\ tx[p].op \in {"apply", "refuse", "blackApply", "pass", "delete", "black", "cancel",
                         "deleteSession"}
        /\ \E steps : Committed(p, steps)
    BY DEF ApplyCommit, AnswerCommit, PassCommit, Befriended, DeleteContact, BlackContact,
           CancelCommit, DeleteSession, At
  <1>2. About(tx[p]) = tx[p].b
    BY <1>1 DEF About
  <1>3. Social!Does(tx[p].op, tx[p].a, tx[p].b)
    <2>1. CASE ApplyCommit(p)
      BY <2>1, Asks DEF ApplyCommit, At, Social!Does
    <2>2. CASE AnswerCommit(p)
      BY <2>2, Answers DEF Social!Does
    <2>3. CASE PassCommit(p)
      BY <2>3, Agrees DEF PassCommit, At, Social!Does
    <2>4. CASE DeleteContact(p)
      BY <2>4, Parts DEF DeleteContact, At, Social!Does
    <2>5. CASE BlackContact(p)
      BY <2>5, Blocks DEF BlackContact, At, Social!Does
    <2>6. CASE CancelCommit(p)
      BY <2>6, Unblocks DEF CancelCommit, At, Social!Does
    <2>7. CASE DeleteSession(p) /\ ~Refuse(p)
      BY <2>7, Closes DEF DeleteSession, At, Social!Does
    <2> QED
      BY <2>1, <2>2, <2>3, <2>4, <2>5, <2>6, <2>7
  <1> QED
    BY <1>1, <1>2, <1>3, CommitDone

\* ... those about one, ...
LEMMA AccountStep ==
  ASSUME ContactInv, SerialInv, clean, NEW p \in Proc, Users(p)
  PROVE  Social!Next
  <1>1. tx[p].pc = "commit" /\ \E steps : Committed(p, steps)
    BY DEF Users, AbleUsers, DisableUsers, DeleteUsers, At
  <1>2. Social!Does(tx[p].op, tx[p].a, About(tx[p]))
    <2>1. CASE AbleUsers(p)
      BY <2>1, AccountsChange DEF AbleUsers, At, Social!Does
    <2>2. CASE DisableUsers(p)
      BY <2>2, AccountsChange DEF DisableUsers, At, Social!Does
    <2>3. CASE DeleteUsers(p)
      BY <2>3, AccountsChange DEF DeleteUsers, At, Social!Does
    <2> QED
      BY <2>1, <2>2, <2>3 DEF Users
  <1> QED
    BY <1>1, <1>2, CommitDone

\* ... and the session that is created.
LEMMA CreateStep ==
  ASSUME ContactInv, SerialInv, OtherEnds, clean, NEW p \in Proc, CreateSession(p)
  PROVE  Social!Next
  <1> DEFINE t == [tx[p] EXCEPT !.pc = "redis", !.i = Len(session) + 1,
                                !.todo = <<"putOpened", "dropChats">>]
  <1>1. tx[p].pc = "insert" /\ Becomes(p, t)
    BY DEF CreateSession
  <1>2. t.pc = "redis" /\ t.op = tx[p].op /\ t.a = tx[p].a /\ t.b = tx[p].b
    BY <1>1, Mover DEF TxState
  <1> HIDE DEF t
  <1>3. tx[p].b # tx[p].a /\ tx[p].op \in {"chat", "resume"}
    BY <1>1 DEF OtherEnds, WithAnother
  <1>4. Social!Open(tx[p].a, tx[p].b) /\ tx[p].b \in User \ {tx[p].a}
    BY <1>3, Opens
  <1>5. Social!Does(tx[p].op, tx[p].a, About(tx[p]))
    BY <1>3, <1>4 DEF Social!Does, About
  <1> QED
    BY <1>1, <1>2, <1>5, Effective

\* Reads before a commit, and a list that is read.
LEMMA ReadStep ==
  ASSUME ContactInv, SerialInv, clean, NEW p \in Proc,
         ApplyRead(p) \/ PassRead(p) \/ AnswerRead(p) \/ CancelRead(p) \/ GetUserList(p)
  PROVE  Social!Next \/ UNCHANGED Social!vars
  <1>1. tx[p].pc = "read"
    BY DEF ApplyRead, PassRead, AnswerRead, CancelRead, GetUserList, At
  <1>2. CASE Refuse(p)
    BY <1>1, <1>2, Finishes
  <1>3. ASSUME ApplyRead(p) \/ PassRead(p) \/ AnswerRead(p), ~Refuse(p)
        PROVE  UNCHANGED Social!vars
    <2>1. PICK i : Reads(p, [tx[p] EXCEPT !.pc = "commit", !.i = i])
      BY <1>3 DEF ApplyRead, PassRead, AnswerRead
    <2> DEFINE t == [tx[p] EXCEPT !.pc = "commit", !.i = i]
    <2>2. t.pc = "commit" /\ t.op = tx[p].op /\ t.a = tx[p].a /\ t.b = tx[p].b
      BY <1>1, Mover DEF TxState
    <2>3. Becomes(p, t) /\ UNCHANGED db
      BY <2>1 DEF Reads
    <2> HIDE DEF t
    <2> QED
      BY <1>1, <2>2, <2>3, SeenAlike, Silent
  <1>4. ASSUME CancelRead(p), ~Refuse(p)
        PROVE  UNCHANGED Social!vars
    <2>1. PICK i, j : Reads(p, [tx[p] EXCEPT !.pc = "commit", !.i = i, !.j = j])
      BY <1>4 DEF CancelRead
    <2> DEFINE t == [tx[p] EXCEPT !.pc = "commit", !.i = i, !.j = j]
    <2>2. t.pc = "commit" /\ t.op = tx[p].op /\ t.a = tx[p].a /\ t.b = tx[p].b
      BY <1>1, Mover DEF TxState
    <2>3. Becomes(p, t) /\ UNCHANGED db
      BY <2>1 DEF Reads
    <2> HIDE DEF t
    <2> QED
      BY <1>1, <2>2, <2>3, SeenAlike, Silent
  <1>5. ASSUME GetUserList(p), ~Refuse(p)
        PROVE  Social!Next
    <2> DEFINE t == [tx[p] EXCEPT !.pc = "redis", !.got = ContactsOf(tx[p].a),
                                  !.todo = <<"putFriends">>]
    <2>1. Reads(p, t) /\ tx[p].op = "friends"
      BY <1>5 DEF GetUserList, At
    <2>2. t.pc = "redis" /\ t.op = tx[p].op /\ t.a = tx[p].a /\ t.b = tx[p].b
      BY <1>1, Mover DEF TxState
    <2> HIDE DEF t
    <2> QED
      BY <1>1, <2>1, <2>2, FoundDone
  <1> QED
    BY <1>2, <1>3, <1>4, <1>5

\* What precedes a session.
LEMMA SessionStep ==
  ASSUME ContactInv, SerialInv, OtherEnds, clean, NEW p \in Proc,
         \/ CheckContact(p) \/ CheckUser(p) \/ ListHit(p) \/ ListMiss(p) \/ CacheList(p)
         \/ OpenSession(p) \/ FindSession(p) \/ CreateRead(p) \/ Opened(p)
  PROVE  Social!Next \/ UNCHANGED Social!vars
  <1>1. tx[p].pc # "idle"
    BY DEF CheckContact, CheckUser, ListHit, ListMiss, CacheList, OpenSession, FindSession,
           CreateRead, Opened
  <1>2. tx[p] \in TxState /\ WellFormed(tx[p])
    BY <1>1, Mover
  <1>3. tx[p].pc \in {"open", "find"} => tx[p].op \in {"chat", "resume"}
    BY DEF OtherEnds, WithAnother
  <1>4. CASE Refuse(p)
    BY <1>1, <1>4, Finishes
  <1>5. ASSUME NEW pc, Becomes(p, [tx[p] EXCEPT !.pc = pc]), UNCHANGED db, pc # "idle",
               tx[p].pc \in {"redis", "opened"} <=> pc \in {"redis", "opened"}
        PROVE  UNCHANGED Social!vars
    <2> DEFINE t == [tx[p] EXCEPT !.pc = pc]
    <2>1. t.pc = pc /\ t.op = tx[p].op /\ t.a = tx[p].a /\ t.b = tx[p].b
      BY <1>2, <1>5 DEF TxState
    <2>2. Becomes(p, t)
      BY <1>5
    <2> HIDE DEF t
    <2> QED
      BY <1>1, <1>5, <2>1, <2>2, SeenAlike, Silent
  <1>6. ASSUME CheckContact(p) \/ CheckUser(p) \/ CreateRead(p) \/ Opened(p), ~Refuse(p)
        PROVE  UNCHANGED Social!vars
    <2>1. PICK pc \in {"checkUser", "open", "insert", "opened"} :
            /\ Reads(p, [tx[p] EXCEPT !.pc = pc])
            /\ tx[p].pc = "redis" <=> pc = "opened"
            /\ tx[p].pc # "opened"
      BY <1>6 DEF CheckContact, CheckUser, CreateRead, Opened
    <2> QED
      BY <1>5, <2>1 DEF Reads
  <1>7. ASSUME ListHit(p) \/ CacheList(p)
        PROVE  UNCHANGED Social!vars
    <2>1. PICK b : Becomes(p, [tx[p] EXCEPT !.pc = "open", !.b = b])
      BY <1>7 DEF ListHit, CacheList, Reads
    <2> DEFINE t == [tx[p] EXCEPT !.pc = "open", !.b = b]
    <2>2. t.pc = "open" /\ t.op = tx[p].op /\ t.a = tx[p].a
      BY <1>2 DEF TxState
    <2>3. tx[p].pc \in {"list", "cacheList"} /\ tx[p].op = "resume" /\ UNCHANGED db
      BY <1>2, <1>7 DEF ListHit, CacheList, Reads, WellFormed
    <2>4. Becomes(p, t)
      BY <2>1
    <2> HIDE DEF t
    <2> QED
      BY <1>1, <2>2, <2>3, <2>4, SeenAlike, Silent
  <1>8. ASSUME ListMiss(p), ~Refuse(p)
        PROVE  UNCHANGED Social!vars
    <2> DEFINE t == [tx[p] EXCEPT !.pc = "cacheList", !.got = ReceiversOf(tx[p].a)]
    <2>1. tx[p].pc = "list" /\ Becomes(p, t) /\ UNCHANGED db
      BY <1>8 DEF ListMiss, Reads
    <2>2. t.pc = "cacheList" /\ t.op = tx[p].op /\ t.a = tx[p].a /\ t.b = tx[p].b
      BY <1>2 DEF TxState
    <2> HIDE DEF t
    <2> QED
      BY <1>1, <2>1, <2>2, SeenAlike, Silent
  <1>9. CASE OpenSession(p)
    <2>1. tx[p].pc = "open"
      BY <1>9 DEF OpenSession
    <2>2. CASE Reads(p, [tx[p] EXCEPT !.pc = "find"])
      BY <1>5, <2>1, <2>2 DEF Reads
    <2>3. CASE Reads(p, [tx[p] EXCEPT !.pc = "opened"])
      <3> DEFINE t == [tx[p] EXCEPT !.pc = "opened"]
      <3>1. t.pc = "opened" /\ t.op = tx[p].op /\ t.a = tx[p].a /\ t.b = tx[p].b
        BY <1>2 DEF TxState
      <3>2. Reads(p, t)
        BY <2>3
      <3> HIDE DEF t
      <3> QED
        BY <1>3, <2>1, <3>1, <3>2, FoundDone
    <2> QED
      BY <1>9, <2>2, <2>3 DEF OpenSession
  <1>10. CASE FindSession(p)
    <2>1. tx[p].pc = "find"
      BY <1>10 DEF FindSession
    <2>2. CASE Reads(p, [tx[p] EXCEPT !.pc = "create"])
      BY <1>5, <2>1, <2>2 DEF Reads
    <2>3. ASSUME NEW i, Reads(p, [tx[p] EXCEPT !.pc = "redis", !.i = i, !.todo = <<"putOpened">>])
          PROVE  Social!Next
      <3> DEFINE t == [tx[p] EXCEPT !.pc = "redis", !.i = i, !.todo = <<"putOpened">>]
      <3>1. t.pc = "redis" /\ t.op = tx[p].op /\ t.a = tx[p].a /\ t.b = tx[p].b
        BY <1>2 DEF TxState
      <3>2. Reads(p, t)
        BY <2>3
      <3> HIDE DEF t
      <3> QED
        BY <1>3, <2>1, <3>1, <3>2, FoundDone
    <2> QED
      BY <1>10, <2>2, <2>3 DEF FindSession
  <1> QED
    BY <1>4, <1>6, <1>7, <1>8, <1>9, <1>10

\* What follows a commit.
LEMMA AfterStep ==
  ASSUME ContactInv, SerialInv, clean, NEW p \in Proc, RedisStep(p) \/ Reply(p) \/ Rollback(p)
  PROVE  Social!Next \/ UNCHANGED Social!vars
  <1>1. tx[p].pc # "idle"
    BY DEF RedisStep, Reply, Rollback
  <1>2. CASE Reply(p) \/ Rollback(p)
    BY <1>1, <1>2, Finishes DEF Reply, Rollback
  <1>3. CASE RedisStep(p)
    <2> DEFINE t == [tx[p] EXCEPT !.todo = Tail(@)]
    <2>1. Becomes(p, t) /\ UNCHANGED db
      BY <1>3 DEF RedisStep
    <2>2. t.pc = tx[p].pc /\ t.op = tx[p].op /\ t.a = tx[p].a /\ t.b = tx[p].b
      BY <1>1, Mover DEF TxState
    <2> HIDE DEF t
    <2> QED
      BY <1>1, <2>1, <2>2, SeenAlike, Silent
  <1> QED
    BY <1>2, <1>3

\* Each step of a serial history is one of Friendship, or changes nothing there.
LEMMA FriendshipStep ==
  ASSUME ContactInv, SerialInv, OtherEnds, [Next]_vars, clean'
  PROVE  [Social!Next]_(Social!vars)
  <1>1. CASE Expire \/ UNCHANGED vars
    <2>1. UNCHANGED <<db, tx>>
      BY <1>1 DEF Expire, vars
    <2> QED
      BY <2>1, Unseen DEF Social!vars, Served
  <1>2. ASSUME NEW p \in Proc, Call(p) PROVE Social!Next
    BY <1>2, Begins
  <1>3. ASSUME NEW p \in Proc, Crash(p) PROVE FALSE
    BY <1>3 DEF Crash
  <1>4. ASSUME NEW p \in Proc, Applications(p)
        PROVE  Social!Next \/ UNCHANGED Social!vars
    <2>1. clean
      BY <1>4 DEF Applications, ApplyRead, ApplyCommit, PassRead, PassCommit, AnswerRead,
                  AnswerCommit, PassBlind, Befriended, Committed, Reads, Refuse
    <2>2. ~PassBlind(p)
      BY DEF PassBlind
    <2> QED
      BY <1>4, <2>1, <2>2, RelationStep, ReadStep DEF Applications
  <1>5. ASSUME NEW p \in Proc, Relations(p)
        PROVE  Social!Next \/ UNCHANGED Social!vars
    <2>1. clean
      BY <1>5 DEF Relations, DeleteContact, BlackContact, CancelRead, CancelCommit, GetUserList,
                  Committed, Reads, Refuse
    <2> QED
      BY <1>5, <2>1, RelationStep, ReadStep DEF Relations
  <1>6. ASSUME NEW p \in Proc, Sessions(p)
        PROVE  Social!Next \/ UNCHANGED Social!vars
    <2>1. clean
      BY <1>6 DEF Sessions, CheckContact, CheckUser, ListHit, ListMiss, CacheList, OpenSession,
                  FindSession, CreateRead, CreateSession, DeleteSession, Opened,
                  Committed, Reads, Refuse
    <2>2. CASE DeleteSession(p) /\ Refuse(p)
      BY <2>1, <2>2, Finishes DEF DeleteSession, At
    <2> QED
      BY <1>6, <2>1, <2>2, RelationStep, CreateStep, SessionStep DEF Sessions
  <1>7. ASSUME NEW p \in Proc, Users(p)
        PROVE  Social!Next
    <2>1. clean
      BY <1>7 DEF Users, AbleUsers, DisableUsers, DeleteUsers, Committed
    <2> QED
      BY <1>7, <2>1, AccountStep
  <1>8. ASSUME NEW p \in Proc, RedisStep(p) \/ Reply(p) \/ Rollback(p)
        PROVE  Social!Next \/ UNCHANGED Social!vars
    <2>1. clean
      BY <1>8 DEF RedisStep, Reply, Rollback, Refuse
    <2> QED
      BY <1>8, <2>1, AfterStep
  <1>9. ASSUME NEW u \in User, Revive(u) PROVE Social!Next
    BY <1>9, Revives
  <1>10. CASE Next
    BY <1>1, <1>2, <1>3, <1>4, <1>5, <1>6, <1>7, <1>8, <1>9, <1>10 DEF Next
  <1> QED
    BY <1>1, <1>10

\* In a history that is clean, one request at a time, each makes its change to the two users
\* in one step, with the checks of the code true at that instant, or none: what it
\* read before, what redis holds and the rows that are buried do not show.
THEOREM Friends == Spec => ImplementsFriendship
  <1>1. ContactInv /\ SerialInv /\ OtherEnds /\ [Next]_vars =>
          [clean' => Social!Next]_(Social!vars)
    BY FriendshipStep
  <1> QED
    BY <1>1, SocialInit, ContactsInvariance, Serially, OtherEndsAlways, PTL
       DEF Spec, ImplementsFriendship

=============================================================================
