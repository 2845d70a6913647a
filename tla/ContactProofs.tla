---------------------------- MODULE ContactProofs ----------------------------
(***************************************************************************)
(* Proofs about Contacts, for any number of users and of requests served   *)
(* at the same time, whatever fails: contacts stay mirrored and agreed     *)
(* applications stay between contacts, although no request locks anything. *)
(*                                                                         *)
(* A request saves rows it read in an older snapshot, so ContactInv says   *)
(* that these rows are of its two users and, for a cancellation, the two   *)
(* rows of one relation (HoldsRows).  That survives every commit of others *)
(* because tables only grow and rows keep their users (Grows).             *)
(***************************************************************************)
EXTENDS Contacts, SequenceTheorems, TLAPS

\* The rows of a table stay where they are and keep their users.
Grows(old, new) ==
  \A i \in DOMAIN old : i \in DOMAIN new /\ new[i].user = old[i].user /\ new[i].peer = old[i].peer

\* Rows a request holds remain rows of its users.
LEMMA HeldStay ==
  ASSUME NEW t, NEW ap, NEW co, NEW ap2, NEW co2,
         HoldsRows(t, ap, co), Grows(ap, ap2), Grows(co, co2)
  PROVE  HoldsRows(t, ap2, co2)
  BY DEF HoldsRows, Rows, Grows

\* A table is as large as it was, or has grown at its end.
LEMMA GrowsSame == ASSUME NEW old PROVE Grows(old, old)
  BY DEF Grows

\* What a step must show of the requests: that the one which moved is well
\* formed and holds its rows, and that the tables grow.
LEMMA RequestsKeep ==
  ASSUME ContactInv, NEW p \in Proc, NEW t \in TxState, Becomes(p, t),
         WellFormed(t), HoldsRows(t, apply', contact'),
         Grows(apply, apply'), Grows(contact, contact')
  PROVE  /\ tx' \in [Proc -> TxState]
         /\ \A q \in Proc : WellFormed(tx'[q]) /\ HoldsRows(tx'[q], apply', contact')
  <1>1. tx' \in [Proc -> TxState] /\ \A q \in Proc : tx'[q] = IF q = p THEN t ELSE tx[q]
    BY DEF ContactInv, TypeOK, Becomes
  <1>2. ASSUME NEW q \in Proc, q # p
        PROVE  WellFormed(tx'[q]) /\ HoldsRows(tx'[q], apply', contact')
    <2>1. tx'[q] = tx[q] /\ WellFormed(tx[q]) /\ HoldsRows(tx[q], apply, contact)
      BY <1>1, <1>2 DEF ContactInv
    <2> QED
      BY <2>1, HeldStay
  <1> QED
    BY <1>1, <1>2

\* The same for a step that leaves the tables alone.
LEMMA ReadKeeps ==
  ASSUME ContactInv, NEW p \in Proc, NEW t \in TxState, Becomes(p, t),
         WellFormed(t), HoldsRows(t, apply, contact),
         UNCHANGED db, ChatLists'
  PROVE  ContactInv'
  <1>1. Grows(apply, apply') /\ Grows(contact, contact') /\ HoldsRows(t, apply', contact')
    BY GrowsSame DEF db
  <1>2. /\ tx' \in [Proc -> TxState]
        /\ \A q \in Proc : WellFormed(tx'[q]) /\ HoldsRows(tx'[q], apply', contact')
    BY <1>1, RequestsKeep
  <1>3. MirroredContacts' /\ AgreedAreContacts'
    BY DEF ContactInv, MirroredContacts, AgreedAreContacts, LiveRows, Rows, db
  <1> QED
    BY <1>2, <1>3 DEF ContactInv, TypeOK, db

LEMMA ChatsSame == ASSUME ContactInv, UNCHANGED chats PROVE ChatLists'
  BY DEF ContactInv, TypeOK, ChatLists

\* An idle request.
LEMMA IdleFine ==
  ASSUME NEW ap, NEW co
  PROVE  Idle \in TxState /\ WellFormed(Idle) /\ HoldsRows(Idle, ap, co)
  <1>1. << >> \in Seq(Steps)
    OBVIOUS
  <1> QED
    BY <1>1 DEF Idle, Request, TxState, WellFormed, HoldsRows

LEMMA RefuseKeeps ==
  ASSUME ContactInv, NEW p \in Proc, Becomes(p, Idle), UNCHANGED db, UNCHANGED chats
  PROVE  ContactInv'
  BY ReadKeeps, IdleFine, ChatsSame

\* A request that goes on for the same users, and not to a commit.
LEMMA MovesOn ==
  ASSUME ContactInv, NEW p \in Proc, NEW t \in TxState, tx[p].pc # "idle",
         t.op = tx[p].op, t.a = tx[p].a, t.b = tx[p].b,
         t.pc \notin {"commit", "list", "cacheList"},
         t.pc \in {"open", "find", "create", "insert"} => t.b \in User,
         t.pc \in {"check", "checkUser"} => t.op = "chat"
  PROVE  WellFormed(t) /\ \A ap, co : HoldsRows(t, ap, co)
  BY DEF ContactInv, WellFormed, HoldsRows

\* What a commit must show.
LEMMA CommitKeeps ==
  ASSUME ContactInv, NEW p \in Proc, NEW t \in TxState, tx[p].pc # "idle",
         t.op = tx[p].op, t.a = tx[p].a, t.b = tx[p].b, t.pc = "redis",
         Becomes(p, t), UNCHANGED chats,
         status' \in [User -> {"NORMAL", "DISABLE", "deleted"}],
         contact' \in Seq(ContactRow), apply' \in Seq(ApplyRow), session' \in Seq(SessionRow),
         Grows(contact, contact'), Grows(apply, apply'),
         MirroredContacts', AgreedAreContacts'
  PROVE  ContactInv'
  <1>1. WellFormed(t) /\ HoldsRows(t, apply', contact')
    BY MovesOn
  <1>2. /\ tx' \in [Proc -> TxState]
        /\ \A q \in Proc : WellFormed(tx'[q]) /\ HoldsRows(tx'[q], apply', contact')
    BY <1>1, RequestsKeep
  <1> QED
    BY <1>2, ChatsSame DEF ContactInv, TypeOK

-----------------------------------------------------------------------------
(* The tables                                                                *)

\* The two directions of a relation name each other.
LEMMA PeerTwice ==
  ASSUME NEW i \in Nat \ {0}
  PROVE  /\ Peer(i) \in Nat \ {0} /\ Peer(Peer(i)) = i /\ Peer(i) # i
         /\ \A j \in Nat \ {0} : Peer(i) = Peer(j) => i = j
         /\ \A j \in Nat \ {0} : j <= Peer(i) /\ i <= Peer(j) /\ j # i => j = Peer(i)
  BY DEF Peer

\* What burying rows does to a table of contacts or applications.
LEMMA BuryTable ==
  ASSUME NEW R \in {ContactRow, ApplyRow, SessionRow}, NEW table \in Seq(R), NEW s
  PROVE  /\ Bury(table, s) \in Seq(R)
         /\ DOMAIN Bury(table, s) = DOMAIN table
         /\ \A i \in DOMAIN table :
              Bury(table, s)[i] = [table[i] EXCEPT !.live = table[i].live /\ i \notin s]
         /\ Grows(table, Bury(table, s))
  <1>1. DOMAIN table = 1..Len(table) /\ Len(table) \in Nat
    OBVIOUS
  <1>2. \A i \in DOMAIN table : table[i] \in R
    BY <1>1, ElementOfSeq
  <1>3. \A i \in DOMAIN table : Bury(table, s)[i] = [table[i] EXCEPT !.live = table[i].live /\ i \notin s]
    BY DEF Bury
  <1>4. \A i \in DOMAIN table :
          /\ [table[i] EXCEPT !.live = table[i].live /\ i \notin s] \in R
          /\ [table[i] EXCEPT !.live = table[i].live /\ i \notin s].user = table[i].user
          /\ [table[i] EXCEPT !.live = table[i].live /\ i \notin s].peer = table[i].peer
    <2>1. CASE R = ContactRow
      BY <1>2, <2>1 DEF ContactRow
    <2>2. CASE R = ApplyRow
      BY <1>2, <2>2 DEF ApplyRow
    <2>3. CASE R = SessionRow
      BY <1>2, <2>3 DEF SessionRow
    <2> QED
      BY <2>1, <2>2, <2>3
  <1>5. Bury(table, s) \in [1..Len(table) -> R]
    BY <1>1, <1>3, <1>4 DEF Bury
  <1>6. Grows(table, Bury(table, s))
    BY <1>3, <1>4 DEF Grows, Bury
  <1> QED
    BY <1>1, <1>3, <1>5, <1>6 DEF Bury

\* What saving a row does.
LEMMA SaveTable ==
  ASSUME NEW R, NEW table \in Seq(R), NEW i \in DOMAIN table, NEW s,
         [user |-> table[i].user, peer |-> table[i].peer, live |-> TRUE, status |-> s] \in R
  PROVE  /\ Save(table, i, s) \in Seq(R)
         /\ DOMAIN Save(table, i, s) = DOMAIN table
         /\ \A j \in DOMAIN table : Save(table, i, s)[j] =
              IF j = i THEN [user |-> table[i].user, peer |-> table[i].peer,
                             live |-> TRUE, status |-> s]
              ELSE table[j]
         /\ Grows(table, Save(table, i, s))
  <1> DEFINE r == [user |-> table[i].user, peer |-> table[i].peer, live |-> TRUE, status |-> s]
  <1>1. DOMAIN table = 1..Len(table) /\ Len(table) \in Nat
    OBVIOUS
  <1>2. \A j \in DOMAIN table : table[j] \in R
    BY <1>1, ElementOfSeq
  <1>3. Save(table, i, s) = [table EXCEPT ![i] = r]
    BY DEF Save
  <1>4. \A j \in DOMAIN table : Save(table, i, s)[j] = IF j = i THEN r ELSE table[j]
    BY <1>3
  <1>5. Save(table, i, s) \in [1..Len(table) -> R]
    BY <1>1, <1>2, <1>3
  <1>6. Grows(table, Save(table, i, s))
    BY <1>3, <1>4 DEF Grows
  <1> QED
    BY <1>1, <1>3, <1>4, <1>5, <1>6

\* Rows of contact, apply and session.
LEMMA RowTypes ==
  ASSUME TypeOK
  PROVE  /\ contact \in Seq(ContactRow) /\ apply \in Seq(ApplyRow)
         /\ \A i \in DOMAIN contact : contact[i] \in ContactRow /\ i \in Nat \ {0}
         /\ \A i \in DOMAIN apply : apply[i] \in ApplyRow /\ i \in Nat \ {0}
         /\ \A i \in DOMAIN session : session[i] \in SessionRow
  <1>1. /\ contact \in Seq(ContactRow) /\ DOMAIN contact = 1..Len(contact) /\ Len(contact) \in Nat
        /\ apply \in Seq(ApplyRow) /\ DOMAIN apply = 1..Len(apply) /\ Len(apply) \in Nat
        /\ session \in Seq(SessionRow) /\ DOMAIN session = 1..Len(session)
    BY DEF TypeOK
  <1> QED
    BY <1>1, ElementOfSeq

\* Both rows of a relation are buried, or neither.
LEMMA BuryMirrored ==
  ASSUME TypeOK, MirroredContacts, NEW s, contact' = Bury(contact, s),
         \A i \in DOMAIN contact : i \in s <=> Peer(i) \in s
  PROVE  contact' \in Seq(ContactRow) /\ MirroredContacts' /\ Grows(contact, contact')
  <1>1. /\ contact' \in Seq(ContactRow) /\ DOMAIN contact' = DOMAIN contact
        /\ \A i \in DOMAIN contact :
             contact'[i] = [contact[i] EXCEPT !.live = contact[i].live /\ i \notin s]
        /\ Grows(contact, contact')
    BY BuryTable DEF TypeOK
  <1>2. ASSUME NEW i \in DOMAIN contact
        PROVE  Peer(i) \in DOMAIN contact' /\ contact'[Peer(i)] = Mirror(contact'[i])
    <2>1. Peer(i) \in DOMAIN contact /\ contact[Peer(i)] = Mirror(contact[i])
      BY DEF MirroredContacts
    <2>2. contact[i] \in ContactRow /\ contact[Peer(i)] \in ContactRow
      BY <2>1, RowTypes
    <2>3. (i \in s) = (Peer(i) \in s)
      OBVIOUS
    <2>4. contact'[i] = [user |-> contact[i].user, peer |-> contact[i].peer,
                         live |-> contact[i].live /\ i \notin s, status |-> contact[i].status]
      BY <1>1, <2>2 DEF ContactRow
    <2>5. contact'[Peer(i)] = [user |-> contact[i].peer, peer |-> contact[i].user,
                               live |-> contact[i].live /\ Peer(i) \notin s,
                               status |-> OtherSide(contact[i].status)]
      BY <1>1, <2>1, <2>2 DEF ContactRow, Mirror
    <2> QED
      BY <1>1, <2>1, <2>3, <2>4, <2>5 DEF Mirror
  <1> QED
    BY <1>1, <1>2 DEF MirroredContacts

\* The rows between two users, and those of one, are whole relations.
LEMMA WholeRelations ==
  ASSUME TypeOK, MirroredContacts, NEW i \in DOMAIN contact
  PROVE  /\ \A a, b \in User : i \in Between(contact, a, b) <=> Peer(i) \in Between(contact, a, b)
         /\ \A u \in User : i \in Of(contact, u) <=> Peer(i) \in Of(contact, u)
  <1>1. Peer(i) \in DOMAIN contact /\ contact[Peer(i)] = Mirror(contact[i])
    BY DEF MirroredContacts
  <1>2. contact[Peer(i)].user = contact[i].peer /\ contact[Peer(i)].peer = contact[i].user
    BY <1>1 DEF Mirror
  <1> QED
    BY <1>1, <1>2 DEF Between, Of, Rows

\* Blocking changes both rows of each relation of the two.
LEMMA BlackenMirrored ==
  ASSUME TypeOK, MirroredContacts, NEW a \in User, NEW b \in User, a # b,
         contact' = Blacken(a, b)
  PROVE  /\ contact' \in Seq(ContactRow) /\ MirroredContacts' /\ Grows(contact, contact')
         /\ \A i \in DOMAIN contact : contact'[i].live = contact[i].live
  <1> DEFINE New(i) == IF contact[i].live /\ contact[i].user = a /\ contact[i].peer = b THEN "BLACK"
                       ELSE IF contact[i].live /\ contact[i].user = b /\ contact[i].peer = a
                            THEN "BE_BLACK" ELSE contact[i].status
  <1>1. DOMAIN contact' = DOMAIN contact /\ DOMAIN contact = 1..Len(contact) /\ Len(contact) \in Nat
    BY DEF Blacken, TypeOK
  <1>2. ASSUME NEW i \in DOMAIN contact
        PROVE  /\ contact'[i] = [user |-> contact[i].user, peer |-> contact[i].peer,
                                 live |-> contact[i].live, status |-> New(i)]
               /\ contact'[i] \in ContactRow
    <2>1. contact[i] \in ContactRow
      BY RowTypes
    <2>2. contact'[i] = IF i \in LiveRows(contact, a, b) THEN [contact[i] EXCEPT !.status = "BLACK"]
                        ELSE IF i \in LiveRows(contact, b, a)
                             THEN [contact[i] EXCEPT !.status = "BE_BLACK"] ELSE contact[i]
      BY DEF Blacken
    <2>3. /\ i \in LiveRows(contact, a, b) <=>
               contact[i].live /\ contact[i].user = a /\ contact[i].peer = b
          /\ i \in LiveRows(contact, b, a) <=>
               contact[i].live /\ contact[i].user = b /\ contact[i].peer = a
      BY DEF LiveRows, Rows
    <2> QED
      BY <2>1, <2>2, <2>3 DEF ContactRow
  <1>3. contact' \in Seq(ContactRow)
    <2>1. contact' \in [1..Len(contact) -> ContactRow]
      BY <1>1, <1>2 DEF Blacken
    <2> QED
      BY <1>1, <2>1
  <1>4. ASSUME NEW i \in DOMAIN contact
        PROVE  Peer(i) \in DOMAIN contact' /\ contact'[Peer(i)] = Mirror(contact'[i])
    <2>1. Peer(i) \in DOMAIN contact /\ contact[Peer(i)] = Mirror(contact[i])
      BY DEF MirroredContacts
    <2>2. New(Peer(i)) = OtherSide(New(i))
      BY <2>1 DEF Mirror, OtherSide
    <2> QED
      BY <1>1, <1>2, <2>1, <2>2 DEF Mirror
  <1>5. Grows(contact, contact') /\ \A i \in DOMAIN contact : contact'[i].live = contact[i].live
    BY <1>1, <1>2 DEF Grows
  <1> QED
    BY <1>1, <1>3, <1>4, <1>5 DEF MirroredContacts

\* A new relation has both directions.
LEMMA NewMirrored ==
  ASSUME TypeOK, MirroredContacts, NEW a \in User, NEW b \in User,
         contact' = contact \o <<Normal(a, b), Normal(b, a)>>
  PROVE  /\ contact' \in Seq(ContactRow) /\ MirroredContacts' /\ Grows(contact, contact')
         /\ \A i \in DOMAIN contact : contact'[i] = contact[i]
         /\ LiveRows(contact', a, b) # {}
  <1> DEFINE n == Len(contact)
  <1>1. contact \in Seq(ContactRow) /\ n \in Nat /\ DOMAIN contact = 1..n
    BY DEF TypeOK
  <1>2. Normal(a, b) \in ContactRow /\ Normal(b, a) \in ContactRow
    BY DEF Normal, ContactRow
  <1>3. /\ contact' \in Seq(ContactRow) /\ DOMAIN contact' = 1..(n + 2)
        /\ \A i \in 1..n : contact'[i] = contact[i]
        /\ contact'[n + 1] = Normal(a, b) /\ contact'[n + 2] = Normal(b, a)
    BY <1>1, <1>2
  <1>4. n % 2 = 0
    <2>1. CASE n = 0
      BY <2>1
    <2>2. CASE n # 0
      <3>1. Peer(n) \in 1..n
        BY <1>1, <2>2 DEF MirroredContacts
      <3> QED
        BY <1>1, <2>2, <3>1 DEF Peer
    <2> QED
      BY <2>1, <2>2
  <1>5. Peer(n + 1) = n + 2 /\ Peer(n + 2) = n + 1
    BY <1>1, <1>4 DEF Peer
  <1>6. Mirror(Normal(a, b)) = Normal(b, a) /\ Mirror(Normal(b, a)) = Normal(a, b)
    BY DEF Mirror, Normal, OtherSide
  <1>7. ASSUME NEW i \in DOMAIN contact'
        PROVE  Peer(i) \in DOMAIN contact' /\ contact'[Peer(i)] = Mirror(contact'[i])
    <2>1. CASE i \in 1..n
      <3>1. Peer(i) \in 1..n /\ contact[Peer(i)] = Mirror(contact[i])
        BY <1>1, <2>1 DEF MirroredContacts
      <3> QED
        BY <1>1, <1>3, <2>1, <3>1
    <2>2. CASE i = n + 1 \/ i = n + 2
      BY <1>1, <1>3, <1>5, <1>6, <2>2
    <2> QED
      BY <1>1, <1>3, <2>1, <2>2
  <1>8. n + 1 \in LiveRows(contact', a, b)
    BY <1>1, <1>3 DEF LiveRows, Rows, Normal
  <1>9. MirroredContacts'
    BY <1>7 DEF MirroredContacts
  <1>10. \A i \in DOMAIN contact : i \in DOMAIN contact' /\ contact'[i] = contact[i]
    BY <1>1, <1>3
  <1>11. Grows(contact, contact')
    BY <1>10 DEF Grows
  <1> QED
    BY <1>3, <1>8, <1>9, <1>10, <1>11

\* Saving the two rows of a relation as normal.
LEMMA CancelMirrored ==
  ASSUME TypeOK, MirroredContacts, NEW i \in DOMAIN contact,
         contact' = Save(Save(contact, i, "NORMAL"), Peer(i), "NORMAL")
  PROVE  /\ contact' \in Seq(ContactRow) /\ MirroredContacts' /\ Grows(contact, contact')
         /\ \A j \in DOMAIN contact : contact[j].live => contact'[j].live
  <1> DEFINE mid == Save(contact, i, "NORMAL")
             N(k) == [user |-> contact[k].user, peer |-> contact[k].peer,
                      live |-> TRUE, status |-> "NORMAL"]
  <1>1. /\ Peer(i) \in DOMAIN contact /\ contact[Peer(i)] = Mirror(contact[i])
        /\ Peer(i) # i /\ Peer(Peer(i)) = i
        /\ \A j \in DOMAIN contact : Peer(j) = i => j = Peer(i)
    BY RowTypes, PeerTwice DEF MirroredContacts
  <1>2. /\ mid \in Seq(ContactRow) /\ DOMAIN mid = DOMAIN contact
        /\ \A j \in DOMAIN contact : mid[j] = IF j = i THEN N(i) ELSE contact[j]
        /\ Grows(contact, mid)
    <2>1. N(i) \in ContactRow
      BY RowTypes DEF ContactRow
    <2> QED
      BY <2>1, SaveTable DEF TypeOK
  <1>3. /\ contact' \in Seq(ContactRow) /\ DOMAIN contact' = DOMAIN contact
        /\ \A j \in DOMAIN contact : contact'[j] =
             IF j = Peer(i) THEN [user |-> mid[j].user, peer |-> mid[j].peer,
                                  live |-> TRUE, status |-> "NORMAL"] ELSE mid[j]
        /\ Grows(mid, contact')
    <2>1. Peer(i) \in DOMAIN mid /\ mid[Peer(i)] = contact[Peer(i)] /\ contact[Peer(i)] \in ContactRow
      BY <1>1, <1>2, RowTypes
    <2>2. [user |-> mid[Peer(i)].user, peer |-> mid[Peer(i)].peer,
           live |-> TRUE, status |-> "NORMAL"] \in ContactRow
      BY <2>1 DEF ContactRow
    <2> QED
      BY <1>2, <2>1, <2>2, SaveTable
  <1>4. \A j \in DOMAIN contact :
          contact'[j] = IF j \in {i, Peer(i)} THEN N(j) ELSE contact[j]
    BY <1>1, <1>2, <1>3
  <1>5. ASSUME NEW j \in DOMAIN contact
        PROVE  Peer(j) \in DOMAIN contact' /\ contact'[Peer(j)] = Mirror(contact'[j])
    <2>1. /\ Peer(j) \in DOMAIN contact /\ contact[Peer(j)] = Mirror(contact[j])
          /\ Peer(j) \in {i, Peer(i)} <=> j \in {i, Peer(i)}
      BY <1>1, RowTypes, PeerTwice DEF MirroredContacts
    <2>2. CASE j \in {i, Peer(i)}
      <3>1. contact[Peer(j)].user = contact[j].peer /\ contact[Peer(j)].peer = contact[j].user
        BY <2>1 DEF Mirror
      <3>2. N(Peer(j)) = Mirror(N(j))
        BY <3>1 DEF Mirror, OtherSide
      <3>3. contact'[j] = N(j) /\ contact'[Peer(j)] = N(Peer(j))
        BY <1>4, <2>1, <2>2
      <3> HIDE DEF N
      <3> QED
        BY <1>3, <2>1, <3>2, <3>3
    <2>3. CASE j \notin {i, Peer(i)}
      BY <1>3, <1>4, <2>1, <2>3
    <2> QED
      BY <2>2, <2>3
  <1>6. MirroredContacts'
    BY <1>3, <1>5 DEF MirroredContacts
  <1>7. Grows(contact, contact')
    BY <1>2, <1>3 DEF Grows
  <1>8. ASSUME NEW j \in DOMAIN contact, contact[j].live PROVE contact'[j].live
    <2>1. N(j).live = TRUE
      OBVIOUS
    <2> HIDE DEF N
    <2> QED
      BY <1>4, <1>8, <2>1
  <1> QED
    BY <1>3, <1>6, <1>7, <1>8

\* Agreed applications stay between contacts when no live contact goes and no
\* other application becomes agreed.
LEMMA AgreedKeep ==
  ASSUME TypeOK, AgreedAreContacts, Grows(contact, contact'),
         \A i \in DOMAIN contact : contact[i].live => contact'[i].live,
         \A i \in DOMAIN apply' : apply'[i].live /\ apply'[i].status = "AGREE" =>
           \/ i \in DOMAIN apply /\ apply[i].live /\ apply[i].status = "AGREE"
              /\ apply'[i].user = apply[i].user /\ apply'[i].peer = apply[i].peer
           \/ LiveRows(contact', apply'[i].peer, apply'[i].user) # {}
  PROVE  AgreedAreContacts'
  <1>1. \A x, y : LiveRows(contact, x, y) \subseteq LiveRows(contact', x, y)
    BY DEF LiveRows, Rows, Grows
  <1> QED
    BY <1>1 DEF AgreedAreContacts

\* They do when contacts and applications are buried together.
LEMMA AgreedBury ==
  ASSUME TypeOK, AgreedAreContacts, NEW s, NEW t,
         contact' = Bury(contact, s), apply' = Bury(apply, t),
         \A i \in DOMAIN apply, j \in DOMAIN contact :
           contact[j].user = apply[i].peer /\ contact[j].peer = apply[i].user /\ j \in s => i \in t
  PROVE  AgreedAreContacts'
  <1>1. /\ DOMAIN apply' = DOMAIN apply
        /\ \A i \in DOMAIN apply : apply'[i] = [apply[i] EXCEPT !.live = apply[i].live /\ i \notin t]
    BY BuryTable DEF TypeOK
  <1>2. /\ DOMAIN contact' = DOMAIN contact
        /\ \A i \in DOMAIN contact : contact'[i] = [contact[i] EXCEPT !.live = contact[i].live /\ i \notin s]
    BY BuryTable DEF TypeOK
  <1>3. ASSUME NEW i \in DOMAIN apply, apply'[i].live, apply'[i].status = "AGREE"
        PROVE  LiveRows(contact', apply'[i].peer, apply'[i].user) # {}
    <2>1. /\ apply[i].live /\ i \notin t /\ apply[i].status = "AGREE"
          /\ apply'[i].user = apply[i].user /\ apply'[i].peer = apply[i].peer
      BY <1>1, <1>3, RowTypes DEF ApplyRow
    <2>2. PICK j \in LiveRows(contact, apply[i].peer, apply[i].user) : TRUE
      BY <2>1 DEF AgreedAreContacts
    <2>3. j \in DOMAIN contact /\ contact[j].live /\ j \notin s
      BY <2>1, <2>2 DEF LiveRows, Rows
    <2>4. j \in LiveRows(contact', apply[i].peer, apply[i].user)
      BY <1>2, <2>2, <2>3, RowTypes DEF LiveRows, Rows, ContactRow
    <2> QED
      BY <2>1, <2>4
  <1> QED
    BY <1>1, <1>3 DEF AgreedAreContacts

\* The initial state.
LEMMA InitInv == Init => ContactInv
  <1> SUFFICES ASSUME Init PROVE ContactInv
    OBVIOUS
  <1>1. tx \in [Proc -> TxState] /\ \A p \in Proc : WellFormed(tx[p]) /\ HoldsRows(tx[p], apply, contact)
    BY IdleFine DEF Init
  <1>0. ChatLists
    BY DEF Init, ChatLists
  <1>2. CASE contact = << >> /\ apply = << >>
    BY <1>0, <1>1, <1>2 DEF Init, ContactInv, TypeOK, MirroredContacts, AgreedAreContacts
  <1>3. ASSUME NEW a \in User, NEW b \in User, a # b,
               contact = <<[user |-> a, peer |-> b, status |-> "NORMAL", live |-> TRUE],
                           [user |-> b, peer |-> a, status |-> "NORMAL", live |-> TRUE]>>,
               apply = <<[user |-> b, peer |-> a, status |-> "AGREE", live |-> TRUE]>>
        PROVE  ContactInv
    <2>1. contact \in Seq(ContactRow) /\ apply \in Seq(ApplyRow)
      BY <1>3 DEF ContactRow, ApplyRow
    <2>2. DOMAIN contact = {1, 2} /\ DOMAIN apply = {1}
      BY <1>3
    <2>3. Peer(1) = 2 /\ Peer(2) = 1
      BY DEF Peer
    <2>4. contact[2] = Mirror(contact[1]) /\ contact[1] = Mirror(contact[2])
      BY <1>3 DEF Mirror, OtherSide
    <2>5. MirroredContacts
      BY <2>2, <2>3, <2>4 DEF MirroredContacts
    <2>6. 1 \in LiveRows(contact, apply[1].peer, apply[1].user)
      BY <1>3, <2>2 DEF LiveRows, Rows
    <2>7. AgreedAreContacts
      BY <2>2, <2>6 DEF AgreedAreContacts
    <2> QED
      BY <1>0, <1>1, <2>1, <2>5, <2>7 DEF Init, ContactInv, TypeOK
  <1> QED
    BY <1>2, <1>3 DEF Init

-----------------------------------------------------------------------------
(* The steps                                                                 *)

\* What the invariant says of the request that moves.
LEMMA Mover ==
  ASSUME ContactInv, NEW p \in Proc, tx[p].pc # "idle"
  PROVE  /\ tx[p] \in TxState /\ tx[p].a \in User
         /\ WellFormed(tx[p]) /\ HoldsRows(tx[p], apply, contact)
         /\ TypeOK /\ MirroredContacts /\ AgreedAreContacts
  BY DEF ContactInv, TypeOK, WellFormed

LEMMA CallInv ==
  ASSUME ContactInv, ContactsAssumption, NEW p \in Proc, Call(p) PROVE ContactInv'
  <1>1. PICK op \in Op, a \in User, b \in User \cup {NoUser} :
          /\ Legal(op, a, b)
          /\ Becomes(p, Request(EntryPc(op), op, a, b))
    BY DEF Call
  <1> DEFINE t == Request(EntryPc(op), op, a, b)
  <1>2. op \in Ops
    BY DEF ContactsAssumption
  <1>3. EntryPc(op) \in {"commit", "check", "list", "read"}
    BY DEF EntryPc
  <1>4. /\ t = [pc |-> EntryPc(op), op |-> op, a |-> a, b |-> b,
                i |-> 0, j |-> 0, got |-> {}, todo |-> << >>]
        /\ t \in TxState
    <2>1. << >> \in Seq(Steps)
      OBVIOUS
    <2> QED
      BY <1>2, <1>3, <2>1 DEF Request, TxState
  <1>5. /\ op \in {"apply", "pass", "refuse", "blackApply", "delete", "black",
                   "cancel", "chat", "deleteSession"} => b \in User /\ b # a
        /\ op \in {"apply", "pass", "refuse", "blackApply", "cancel"} => EntryPc(op) # "commit"
        /\ EntryPc(op) = "list" => op = "resume"
        /\ EntryPc(op) = "check" => op = "chat"
    <2>1. op \in {"pass", "refuse", "blackApply"} => b \in User
      BY <1>1, RowTypes DEF Legal, Rows, ContactInv, ApplyRow
    <2>2. op \in {"delete", "black", "cancel", "chat", "deleteSession"} => b \in User
      BY <1>1, RowTypes DEF Legal, Rows, ContactInv, ContactRow, SessionRow
    <2> QED
      BY <1>1, <1>2, <2>1, <2>2 DEF Legal, EntryPc
  <1>6. WellFormed(t) /\ HoldsRows(t, apply, contact)
    BY <1>3, <1>4, <1>5 DEF WellFormed, HoldsRows
  <1>7. ChatLists'
    BY ChatsSame DEF Call, redis
  <1> QED
    BY <1>1, <1>4, <1>6, <1>7, ReadKeeps DEF Call

\* The requests about applications.
LEMMA ApplyReadInv ==
  ASSUME ContactInv, NEW p \in Proc, ApplyRead(p) PROVE ContactInv'
  <1>1. CASE Refuse(p)
    BY <1>1, RefuseKeeps DEF Refuse, redis
  <1>2. ASSUME NEW i \in {0} \cup LiveRows(apply, tx[p].a, tx[p].b),
               Reads(p, [tx[p] EXCEPT !.pc = "commit", !.i = i])
        PROVE  ContactInv'
    <2> DEFINE t == [tx[p] EXCEPT !.pc = "commit", !.i = i]
    <2>1. tx[p] \in TxState /\ tx[p].op = "apply" /\ WellFormed(tx[p]) /\ tx[p].pc # "idle"
      BY Mover DEF ApplyRead, At
    <2>2. i = 0 \/ i \in Rows(apply, tx[p].a, tx[p].b)
      BY DEF LiveRows
    <2>3. i \in Nat
      BY <2>2, RowTypes DEF Rows, ContactInv
    <2>4. /\ t \in TxState /\ t.pc = "commit" /\ t.i = i
          /\ t.op = "apply" /\ t.a = tx[p].a /\ t.b = tx[p].b
      BY <2>1, <2>3 DEF TxState
    <2>5. WellFormed(t) /\ HoldsRows(t, apply, contact)
      BY <2>1, <2>2, <2>4 DEF WellFormed, HoldsRows
    <2> QED
      BY <1>2, <2>4, <2>5, ReadKeeps, ChatsSame DEF Reads, redis
  <1> QED
    BY <1>1, <1>2 DEF ApplyRead

LEMMA ApplyCommitInv ==
  ASSUME ContactInv, NEW p \in Proc, ApplyCommit(p) PROVE ContactInv'
  <1> DEFINE t == [tx[p] EXCEPT !.pc = "redis", !.todo = << >>]
             i == tx[p].i
             new == [user |-> tx[p].a, peer |-> tx[p].b, status |-> "PENDING", live |-> TRUE]
  <1>1. /\ tx[p] \in TxState /\ tx[p].a \in User /\ tx[p].b \in User
        /\ i = 0 \/ i \in Rows(apply, tx[p].a, tx[p].b)
        /\ TypeOK /\ MirroredContacts /\ AgreedAreContacts /\ tx[p].pc # "idle"
    BY Mover DEF ApplyCommit, At, WellFormed, HoldsRows
  <1>2. /\ t \in TxState /\ t.pc = "redis"
        /\ t.op = tx[p].op /\ t.a = tx[p].a /\ t.b = tx[p].b
    <2>1. << >> \in Seq(Steps)
      OBVIOUS
    <2> QED
      BY <1>1, <2>1 DEF TxState
  <1>3. /\ apply' \in Seq(ApplyRow) /\ Grows(apply, apply')
        /\ \A k \in DOMAIN apply' : apply'[k].live /\ apply'[k].status = "AGREE" =>
             k \in DOMAIN apply /\ apply'[k] = apply[k]
    <2>1. CASE i = 0
      <3>1. apply' = Append(apply, new) /\ new \in ApplyRow
        BY <1>1, <2>1 DEF ApplyCommit, ApplyRow
      <3>2. apply \in Seq(ApplyRow) /\ Len(apply) \in Nat /\ DOMAIN apply = 1..Len(apply)
        BY <1>1 DEF TypeOK
      <3>3. /\ apply' \in Seq(ApplyRow) /\ DOMAIN apply' = 1..(Len(apply) + 1)
            /\ \A k \in 1..Len(apply) : apply'[k] = apply[k]
            /\ apply'[Len(apply) + 1] = new
        BY <3>1, <3>2
      <3>4. new.status # "AGREE"
        OBVIOUS
      <3> HIDE DEF new
      <3> QED
        BY <3>2, <3>3, <3>4 DEF Grows
    <2>2. CASE i # 0
      <3>1. apply' = Save(apply, i, "PENDING") /\ i \in DOMAIN apply
        BY <1>1, <2>2 DEF ApplyCommit, Rows
      <3>2. [user |-> apply[i].user, peer |-> apply[i].peer,
             live |-> TRUE, status |-> "PENDING"] \in ApplyRow
        BY <1>1, <3>1, RowTypes DEF ApplyRow
      <3>3. /\ Save(apply, i, "PENDING") \in Seq(ApplyRow)
            /\ DOMAIN Save(apply, i, "PENDING") = DOMAIN apply
            /\ \A j \in DOMAIN apply : Save(apply, i, "PENDING")[j] =
                 IF j = i THEN [user |-> apply[i].user, peer |-> apply[i].peer,
                                live |-> TRUE, status |-> "PENDING"]
                 ELSE apply[j]
            /\ Grows(apply, Save(apply, i, "PENDING"))
        BY <1>1, <3>1, <3>2, SaveTable DEF TypeOK
      <3> QED
        BY <3>1, <3>3
    <2> QED
      BY <2>1, <2>2
  <1>4. contact' = contact /\ status' = status /\ session' = session /\ Grows(contact, contact')
    BY GrowsSame DEF ApplyCommit
  <1>5. MirroredContacts'
    BY <1>1, <1>4 DEF MirroredContacts
  <1>6. AgreedAreContacts'
    BY <1>1, <1>3, <1>4, AgreedKeep
  <1>7. Becomes(p, t) /\ UNCHANGED chats
    BY DEF ApplyCommit, Committed, redis
  <1> QED
    BY <1>1, <1>2, <1>3, <1>4, <1>5, <1>6, <1>7, CommitKeeps DEF TypeOK

\* PassRead, PassBlind and AnswerRead go on with a row of the application.
LEMMA AnswerKeeps ==
  ASSUME ContactInv, NEW p \in Proc, tx[p].pc = "read",
         tx[p].op \in {"pass", "refuse", "blackApply"},
         NEW i \in LiveRows(apply, tx[p].b, tx[p].a),
         Becomes(p, [tx[p] EXCEPT !.pc = "commit", !.i = i]), UNCHANGED <<db, redis>>
  PROVE  ContactInv'
  <1> DEFINE t == [tx[p] EXCEPT !.pc = "commit", !.i = i]
  <1>1. tx[p] \in TxState /\ WellFormed(tx[p])
    BY Mover
  <1>2. i \in Rows(apply, tx[p].b, tx[p].a) /\ i \in Nat
    BY RowTypes DEF LiveRows, Rows, ContactInv
  <1>3. /\ t \in TxState /\ t.pc = "commit" /\ t.i = i
        /\ t.op = tx[p].op /\ t.a = tx[p].a /\ t.b = tx[p].b
    BY <1>1, <1>2 DEF TxState
  <1>4. WellFormed(t) /\ HoldsRows(t, apply, contact)
    BY <1>1, <1>2, <1>3 DEF WellFormed, HoldsRows
  <1> QED
    BY <1>3, <1>4, ReadKeeps, ChatsSame DEF redis

LEMMA PassReadInv ==
  ASSUME ContactInv, NEW p \in Proc, PassRead(p) PROVE ContactInv'
  <1>1. CASE Refuse(p)
    BY <1>1, RefuseKeeps DEF Refuse, redis
  <1>2. ASSUME NEW i \in LiveRows(apply, tx[p].b, tx[p].a),
               Reads(p, [tx[p] EXCEPT !.pc = "commit", !.i = i])
        PROVE  ContactInv'
    BY <1>2, AnswerKeeps DEF PassRead, At, Reads
  <1> QED
    BY <1>1, <1>2 DEF PassRead

LEMMA PassBlindInv ==
  ASSUME ContactInv, NEW p \in Proc, PassBlind(p) PROVE ContactInv'
  <1>1. PICK i \in LiveRows(apply, tx[p].b, tx[p].a) :
          Becomes(p, [tx[p] EXCEPT !.pc = "commit", !.i = i])
    BY DEF PassBlind
  <1>2. tx[p].pc = "read" /\ tx[p].op = "pass" /\ UNCHANGED <<db, redis>>
    BY DEF PassBlind, At
  <1> QED
    BY <1>1, <1>2, AnswerKeeps

LEMMA AnswerReadInv ==
  ASSUME ContactInv, NEW p \in Proc, AnswerRead(p) PROVE ContactInv'
  <1>1. CASE Refuse(p)
    BY <1>1, RefuseKeeps DEF Refuse, redis
  <1>2. ASSUME NEW i \in LiveRows(apply, tx[p].b, tx[p].a),
               Reads(p, [tx[p] EXCEPT !.pc = "commit", !.i = i])
        PROVE  ContactInv'
    BY <1>2, AnswerKeeps DEF AnswerRead, At, Reads
  <1> QED
    BY <1>1, <1>2 DEF AnswerRead

\* Saving the row of an application.
LEMMA SaveApply ==
  ASSUME TypeOK, NEW i \in DOMAIN apply, NEW s \in {"AGREE", "REFUSE", "BLACK"},
         apply' = Save(apply, i, s)
  PROVE  /\ apply' \in Seq(ApplyRow) /\ Grows(apply, apply') /\ DOMAIN apply' = DOMAIN apply
         /\ \A k \in DOMAIN apply : k # i => apply'[k] = apply[k]
         /\ apply'[i].status = s
         /\ apply'[i].user = apply[i].user /\ apply'[i].peer = apply[i].peer
  <1>1. [user |-> apply[i].user, peer |-> apply[i].peer, live |-> TRUE, status |-> s] \in ApplyRow
    BY RowTypes DEF ApplyRow
  <1>2. /\ Save(apply, i, s) \in Seq(ApplyRow)
        /\ DOMAIN Save(apply, i, s) = DOMAIN apply
        /\ \A j \in DOMAIN apply : Save(apply, i, s)[j] =
             IF j = i THEN [user |-> apply[i].user, peer |-> apply[i].peer,
                            live |-> TRUE, status |-> s]
             ELSE apply[j]
        /\ Grows(apply, Save(apply, i, s))
    BY <1>1, SaveTable DEF TypeOK
  <1> QED
    BY <1>2

LEMMA AnswerCommitInv ==
  ASSUME ContactInv, NEW p \in Proc, AnswerCommit(p) PROVE ContactInv'
  <1> DEFINE t == [tx[p] EXCEPT !.pc = "redis", !.todo = << >>]
             s == IF tx[p].op = "refuse" THEN "REFUSE" ELSE "BLACK"
  <1>1. /\ tx[p] \in TxState /\ tx[p].pc # "idle" /\ tx[p].i \in DOMAIN apply
        /\ TypeOK /\ MirroredContacts /\ AgreedAreContacts
    BY Mover DEF AnswerCommit, At, HoldsRows, Rows
  <1>2. /\ t \in TxState /\ t.pc = "redis"
        /\ t.op = tx[p].op /\ t.a = tx[p].a /\ t.b = tx[p].b
    <2>1. << >> \in Seq(Steps)
      OBVIOUS
    <2> QED
      BY <1>1, <2>1 DEF TxState
  <1>3. apply' = Save(apply, tx[p].i, s) /\ s \in {"AGREE", "REFUSE", "BLACK"} /\ s # "AGREE"
    BY DEF AnswerCommit
  <1>4. /\ apply' \in Seq(ApplyRow) /\ Grows(apply, apply') /\ DOMAIN apply' = DOMAIN apply
        /\ \A k \in DOMAIN apply : k # tx[p].i => apply'[k] = apply[k]
        /\ apply'[tx[p].i].status # "AGREE"
    <2> HIDE DEF s
    <2> QED
      BY <1>1, <1>3, SaveApply
  <1>5. contact' = contact /\ status' = status /\ session' = session /\ Grows(contact, contact')
    BY GrowsSame DEF AnswerCommit
  <1>6. MirroredContacts'
    BY <1>1, <1>5 DEF MirroredContacts
  <1>7. AgreedAreContacts'
    BY <1>1, <1>4, <1>5, AgreedKeep
  <1>8. Becomes(p, t) /\ UNCHANGED chats
    BY DEF AnswerCommit, Committed, redis
  <1> QED
    BY <1>1, <1>2, <1>4, <1>5, <1>6, <1>7, <1>8, CommitKeeps DEF TypeOK

\* The steps of the lists of contacts that a commit leaves to do.
LEMMA DropBoth ==
  ASSUME NEW t0 \in TxState
  PROVE  [t0 EXCEPT !.pc = "redis", !.todo = <<"dropA", "dropB">>] \in TxState
  <1>1. <<"dropA", "dropB">> \in Seq(Steps)
    BY DEF Steps
  <1> QED
    BY <1>1 DEF TxState

LEMMA PassCommitInv ==
  ASSUME ContactInv, NEW p \in Proc, PassCommit(p) PROVE ContactInv'
  <1> DEFINE t == [tx[p] EXCEPT !.pc = "redis", !.todo = <<"dropA", "dropB">>]
  <1>1. /\ tx[p] \in TxState /\ tx[p].pc # "idle" /\ tx[p].a \in User /\ tx[p].b \in User
        /\ tx[p].i \in Rows(apply, tx[p].b, tx[p].a)
        /\ TypeOK /\ MirroredContacts /\ AgreedAreContacts
    BY Mover DEF PassCommit, At, HoldsRows, WellFormed
  <1>2. /\ t \in TxState /\ t.pc = "redis"
        /\ t.op = tx[p].op /\ t.a = tx[p].a /\ t.b = tx[p].b
    BY <1>1, DropBoth DEF TxState
  <1>3. /\ contact' \in Seq(ContactRow) /\ MirroredContacts' /\ Grows(contact, contact')
        /\ \A i \in DOMAIN contact : contact'[i] = contact[i]
        /\ LiveRows(contact', tx[p].a, tx[p].b) # {}
    BY <1>1, NewMirrored DEF PassCommit
  <1>4. /\ apply' \in Seq(ApplyRow) /\ Grows(apply, apply') /\ DOMAIN apply' = DOMAIN apply
        /\ \A k \in DOMAIN apply : k # tx[p].i => apply'[k] = apply[k]
        /\ apply'[tx[p].i].user = tx[p].b /\ apply'[tx[p].i].peer = tx[p].a
    BY <1>1, SaveApply DEF PassCommit, Rows
  <1>5. AgreedAreContacts'
    BY <1>1, <1>3, <1>4, AgreedKeep
  <1>6. Becomes(p, t) /\ UNCHANGED <<chats, status, session>>
    BY DEF PassCommit, Befriended, Committed, redis
  <1> QED
    BY <1>1, <1>2, <1>3, <1>4, <1>5, <1>6, CommitKeeps DEF TypeOK

\* The requests about relations.
LEMMA DeleteInv ==
  ASSUME ContactInv, NEW p \in Proc, DeleteContact(p) PROVE ContactInv'
  <1> DEFINE a == tx[p].a
             b == tx[p].b
             t == [tx[p] EXCEPT !.pc = "redis", !.todo = <<"dropA", "dropB">>]
  <1>1. /\ tx[p] \in TxState /\ tx[p].pc # "idle" /\ a \in User /\ b \in User
        /\ TypeOK /\ MirroredContacts /\ AgreedAreContacts
    BY Mover DEF DeleteContact, At, WellFormed
  <1>2. /\ t \in TxState /\ t.pc = "redis"
        /\ t.op = tx[p].op /\ t.a = tx[p].a /\ t.b = tx[p].b
    BY <1>1, DropBoth DEF TxState
  <1>3. /\ contact' = Bury(contact, Between(contact, a, b))
        /\ apply' = Bury(apply, Between(apply, a, b))
        /\ session' = Bury(session, Between(session, a, b))
    BY DEF DeleteContact
  <1>4. contact' \in Seq(ContactRow) /\ MirroredContacts' /\ Grows(contact, contact')
    BY <1>1, <1>3, WholeRelations, BuryMirrored
  <1>5. apply' \in Seq(ApplyRow) /\ Grows(apply, apply') /\ session' \in Seq(SessionRow)
    BY <1>1, <1>3, BuryTable DEF TypeOK
  <1>6. \A i \in DOMAIN apply, j \in DOMAIN contact :
          contact[j].user = apply[i].peer /\ contact[j].peer = apply[i].user
            /\ j \in Between(contact, a, b) => i \in Between(apply, a, b)
    BY DEF Between, Rows
  <1>7. AgreedAreContacts'
    BY <1>1, <1>3, <1>6, AgreedBury
  <1>8. Becomes(p, t) /\ UNCHANGED <<chats, status>>
    BY DEF DeleteContact, Committed, redis
  <1> QED
    BY <1>1, <1>2, <1>4, <1>5, <1>7, <1>8, CommitKeeps DEF TypeOK

LEMMA BlackInv ==
  ASSUME ContactInv, NEW p \in Proc, BlackContact(p) PROVE ContactInv'
  <1> DEFINE t == [tx[p] EXCEPT !.pc = "redis", !.todo = <<"dropA", "dropB">>]
  <1>1. /\ tx[p] \in TxState /\ tx[p].pc # "idle"
        /\ tx[p].a \in User /\ tx[p].b \in User /\ tx[p].a # tx[p].b
        /\ TypeOK /\ MirroredContacts /\ AgreedAreContacts
    BY Mover DEF BlackContact, At, WellFormed
  <1>2. /\ t \in TxState /\ t.pc = "redis"
        /\ t.op = tx[p].op /\ t.a = tx[p].a /\ t.b = tx[p].b
    BY <1>1, DropBoth DEF TxState
  <1>3. /\ contact' \in Seq(ContactRow) /\ MirroredContacts' /\ Grows(contact, contact')
        /\ \A i \in DOMAIN contact : contact'[i].live = contact[i].live
    BY <1>1, BlackenMirrored DEF BlackContact
  <1>4. session' \in Seq(SessionRow)
    BY <1>1, BuryTable DEF BlackContact, TypeOK
  <1>5. apply' = apply /\ Grows(apply, apply')
    BY GrowsSame DEF BlackContact
  <1>6. AgreedAreContacts'
    BY <1>1, <1>3, <1>5, AgreedKeep
  <1>7. Becomes(p, t) /\ UNCHANGED <<chats, status>>
    BY DEF BlackContact, Committed, redis
  <1> QED
    BY <1>1, <1>2, <1>3, <1>4, <1>5, <1>6, <1>7, CommitKeeps DEF TypeOK

\* The first rows of the two directions are the two of one relation.
LEMMA CancelReadInv ==
  ASSUME ContactInv, NEW p \in Proc, CancelRead(p) PROVE ContactInv'
  <1>1. CASE Refuse(p)
    BY <1>1, RefuseKeeps DEF Refuse, redis
  <1>2. ASSUME NEW i \in LiveRows(contact, tx[p].a, tx[p].b),
               NEW j \in LiveRows(contact, tx[p].b, tx[p].a),
               IsFirst(i, LiveRows(contact, tx[p].a, tx[p].b)),
               IsFirst(j, LiveRows(contact, tx[p].b, tx[p].a)),
               Reads(p, [tx[p] EXCEPT !.pc = "commit", !.i = i, !.j = j])
        PROVE  ContactInv'
    <2> DEFINE t == [tx[p] EXCEPT !.pc = "commit", !.i = i, !.j = j]
    <2>1. /\ tx[p] \in TxState /\ tx[p].op = "cancel" /\ WellFormed(tx[p]) /\ tx[p].pc # "idle"
          /\ tx[p].a \in User /\ tx[p].b \in User /\ tx[p].a # tx[p].b
          /\ TypeOK /\ MirroredContacts
      BY Mover DEF CancelRead, At, WellFormed
    <2>2. /\ i \in DOMAIN contact /\ contact[i].live
          /\ contact[i].user = tx[p].a /\ contact[i].peer = tx[p].b
          /\ j \in DOMAIN contact /\ contact[j].live
          /\ contact[j].user = tx[p].b /\ contact[j].peer = tx[p].a
      BY DEF LiveRows, Rows
    <2>3. i \in Nat \ {0} /\ j \in Nat \ {0} /\ i # j
      BY <2>1, <2>2, RowTypes
    <2>4. /\ Peer(i) \in LiveRows(contact, tx[p].b, tx[p].a)
          /\ Peer(j) \in LiveRows(contact, tx[p].a, tx[p].b)
      <3>1. /\ Peer(i) \in DOMAIN contact /\ contact[Peer(i)] = Mirror(contact[i])
            /\ Peer(j) \in DOMAIN contact /\ contact[Peer(j)] = Mirror(contact[j])
        BY <2>1, <2>2 DEF MirroredContacts
      <3> QED
        BY <2>2, <3>1 DEF Mirror, LiveRows, Rows
    <2>5. j = Peer(i)
      BY <1>2, <2>3, <2>4, PeerTwice DEF IsFirst
    <2>6. /\ t \in TxState /\ t.pc = "commit" /\ t.i = i /\ t.j = j
          /\ t.op = "cancel" /\ t.a = tx[p].a /\ t.b = tx[p].b
      BY <2>1, <2>3 DEF TxState
    <2>7. WellFormed(t) /\ HoldsRows(t, apply, contact)
      BY <2>1, <2>2, <2>5, <2>6 DEF WellFormed, HoldsRows, Rows
    <2> QED
      BY <1>2, <2>6, <2>7, ReadKeeps, ChatsSame DEF Reads, redis
  <1> QED
    BY <1>1, <1>2 DEF CancelRead

LEMMA CancelCommitInv ==
  ASSUME ContactInv, NEW p \in Proc, CancelCommit(p) PROVE ContactInv'
  <1> DEFINE t == [tx[p] EXCEPT !.pc = "redis", !.todo = <<"dropA", "dropB">>]
  <1>1. /\ tx[p] \in TxState /\ tx[p].pc # "idle"
        /\ tx[p].i \in DOMAIN contact /\ tx[p].j = Peer(tx[p].i)
        /\ TypeOK /\ MirroredContacts /\ AgreedAreContacts
    BY Mover DEF CancelCommit, At, HoldsRows, Rows
  <1>2. /\ t \in TxState /\ t.pc = "redis"
        /\ t.op = tx[p].op /\ t.a = tx[p].a /\ t.b = tx[p].b
    BY <1>1, DropBoth DEF TxState
  <1>3. /\ contact' \in Seq(ContactRow) /\ MirroredContacts' /\ Grows(contact, contact')
        /\ \A i \in DOMAIN contact : contact[i].live => contact'[i].live
    BY <1>1, CancelMirrored DEF CancelCommit
  <1>4. apply' = apply /\ Grows(apply, apply')
    BY GrowsSame DEF CancelCommit
  <1>5. AgreedAreContacts'
    BY <1>1, <1>3, <1>4, AgreedKeep
  <1>6. Becomes(p, t) /\ UNCHANGED <<chats, status, session>>
    BY DEF CancelCommit, Committed, redis
  <1> QED
    BY <1>1, <1>2, <1>3, <1>4, <1>5, <1>6, CommitKeeps DEF TypeOK

\* A step within one request that leaves the tables and the lists alone.
LEMMA GoesOn ==
  ASSUME ContactInv, NEW p \in Proc, NEW t \in TxState, tx[p].pc # "idle",
         t.op = tx[p].op, t.a = tx[p].a, t.b = tx[p].b,
         t.pc \notin {"commit", "list", "cacheList"},
         t.pc \in {"open", "find", "create", "insert"} => t.b \in User,
         t.pc \in {"check", "checkUser"} => t.op = "chat",
         Becomes(p, t), UNCHANGED <<db, chats>>
  PROVE  ContactInv'
  BY MovesOn, ReadKeeps, ChatsSame

LEMMA GetUserListInv ==
  ASSUME ContactInv, NEW p \in Proc, GetUserList(p) PROVE ContactInv'
  <1>1. CASE Refuse(p)
    BY <1>1, RefuseKeeps DEF Refuse, redis
  <1>2. CASE ~Refuse(p)
    <2> DEFINE t == [tx[p] EXCEPT !.pc = "redis", !.got = ContactsOf(tx[p].a),
                                  !.todo = <<"putFriends">>]
    <2>1. Becomes(p, t) /\ UNCHANGED <<db, chats>> /\ tx[p].pc # "idle" /\ tx[p] \in TxState
      BY <1>2, Mover DEF GetUserList, Reads, redis, At
    <2>2. <<"putFriends">> \in Seq(Steps) /\ ContactsOf(tx[p].a) \subseteq User
      BY DEF Steps, ContactsOf
    <2>3. /\ t \in TxState /\ t.pc = "redis"
          /\ t.op = tx[p].op /\ t.a = tx[p].a /\ t.b = tx[p].b
      BY <2>1, <2>2 DEF TxState
    <2> QED
      BY <2>1, <2>3, GoesOn
  <1> QED
    BY <1>1, <1>2

\* The requests that open sessions.
LEMMA OpenInv ==
  ASSUME ContactInv, NEW p \in Proc,
         CheckContact(p) \/ CheckUser(p) \/ OpenSession(p) \/ CreateRead(p) \/ Opened(p)
  PROVE  ContactInv'
  <1>1. CASE Refuse(p)
    BY <1>1, RefuseKeeps DEF Refuse, redis
  <1>2. CASE ~Refuse(p)
    <2>1. PICK pc \in {"checkUser", "open", "opened", "find", "insert"} :
            /\ Becomes(p, [tx[p] EXCEPT !.pc = pc]) /\ UNCHANGED <<db, chats>>
            /\ tx[p].pc # "idle"
            /\ pc \in {"open", "find", "insert"} =>
                 tx[p].pc \in {"open", "find", "create", "insert", "check", "checkUser"}
            /\ pc = "checkUser" => tx[p].pc = "check"
      BY <1>2 DEF CheckContact, CheckUser, OpenSession, CreateRead, Opened, Reads, redis
    <2> DEFINE t == [tx[p] EXCEPT !.pc = pc]
    <2>2. /\ t \in TxState /\ t.pc = pc
          /\ t.op = tx[p].op /\ t.a = tx[p].a /\ t.b = tx[p].b
      BY <2>1, Mover DEF TxState
    <2>3. /\ pc \in {"open", "find", "insert"} => t.b \in User
          /\ pc = "checkUser" => t.op = "chat"
      BY <2>1, <2>2, Mover DEF WellFormed
    <2> QED
      BY <2>1, <2>2, <2>3, GoesOn
  <1> QED
    BY <1>1, <1>2

LEMMA ListHitInv ==
  ASSUME ContactInv, NEW p \in Proc, ListHit(p) PROVE ContactInv'
  <1>1. PICK b \in chats[tx[p].a] : Reads(p, [tx[p] EXCEPT !.pc = "open", !.b = b])
    BY DEF ListHit
  <1> DEFINE t == [tx[p] EXCEPT !.pc = "open", !.b = b]
  <1>2. /\ tx[p] \in TxState /\ tx[p].op = "resume" /\ tx[p].a \in User /\ tx[p].pc # "idle"
        /\ WellFormed(tx[p])
    BY Mover DEF ListHit, WellFormed
  <1>3. b \in User
    BY DEF ListHit, ContactInv, TypeOK, ChatLists
  <1>4. /\ t \in TxState /\ t.pc = "open" /\ t.op = "resume" /\ t.a = tx[p].a /\ t.b = b
    BY <1>2, <1>3 DEF TxState
  <1>5. WellFormed(t) /\ HoldsRows(t, apply, contact)
    BY <1>2, <1>3, <1>4 DEF WellFormed, HoldsRows
  <1> QED
    BY <1>1, <1>4, <1>5, ReadKeeps, ChatsSame DEF Reads, redis

LEMMA ListMissInv ==
  ASSUME ContactInv, NEW p \in Proc, ListMiss(p) PROVE ContactInv'
  <1>1. CASE Refuse(p)
    BY <1>1, RefuseKeeps DEF Refuse, redis
  <1>2. CASE ~Refuse(p)
    <2> DEFINE t == [tx[p] EXCEPT !.pc = "cacheList", !.got = ReceiversOf(tx[p].a)]
    <2>1. /\ Reads(p, t) /\ tx[p] \in TxState /\ tx[p].op = "resume" /\ WellFormed(tx[p])
          /\ tx[p].pc # "idle"
      BY <1>2, Mover DEF ListMiss, WellFormed
    <2>2. ReceiversOf(tx[p].a) \subseteq User
      BY DEF ReceiversOf
    <2>3. /\ t \in TxState /\ t.pc = "cacheList"
          /\ t.op = "resume" /\ t.a = tx[p].a /\ t.b = tx[p].b
      BY <2>1, <2>2 DEF TxState
    <2>4. WellFormed(t) /\ HoldsRows(t, apply, contact)
      BY <2>1, <2>3 DEF WellFormed, HoldsRows
    <2> QED
      BY <2>1, <2>3, <2>4, ReadKeeps, ChatsSame DEF Reads, redis
  <1> QED
    BY <1>1, <1>2

\* Lists put and dropped still show users.
LEMMA PutDrop ==
  ASSUME ChatLists
  PROVE  /\ \A ks : chats' = Drop(chats, ks) => ChatLists'
         /\ \A k, v : v \subseteq User /\ chats' = Put(chats, k, v) => ChatLists'
  BY DEF ChatLists, Drop, Put

LEMMA CacheListInv ==
  ASSUME ContactInv, NEW p \in Proc, CacheList(p) PROVE ContactInv'
  <1>1. PICK b \in tx[p].got : Becomes(p, [tx[p] EXCEPT !.pc = "open", !.b = b])
    BY DEF CacheList
  <1> DEFINE t == [tx[p] EXCEPT !.pc = "open", !.b = b]
  <1>2. /\ tx[p] \in TxState /\ tx[p].op = "resume" /\ tx[p].a \in User /\ tx[p].pc # "idle"
        /\ WellFormed(tx[p]) /\ TypeOK
    BY Mover DEF CacheList, WellFormed
  <1>3. tx[p].got \subseteq User /\ b \in User
    BY <1>2 DEF TxState
  <1>4. /\ t \in TxState /\ t.pc = "open" /\ t.op = "resume" /\ t.a = tx[p].a /\ t.b = b
    BY <1>2, <1>3 DEF TxState
  <1>5. WellFormed(t) /\ HoldsRows(t, apply, contact)
    BY <1>2, <1>3, <1>4 DEF WellFormed, HoldsRows
  <1>6. ChatLists'
    BY <1>2, <1>3, PutDrop DEF CacheList, TypeOK
  <1> QED
    BY <1>1, <1>4, <1>5, <1>6, ReadKeeps DEF CacheList

LEMMA FindSessionInv ==
  ASSUME ContactInv, NEW p \in Proc, FindSession(p) PROVE ContactInv'
  <1>1. /\ tx[p] \in TxState /\ tx[p].pc # "idle" /\ tx[p].b \in User /\ TypeOK
    BY Mover DEF FindSession, WellFormed
  <1>2. CASE Reads(p, [tx[p] EXCEPT !.pc = "create"])
    <2> DEFINE t == [tx[p] EXCEPT !.pc = "create"]
    <2>1. /\ t \in TxState /\ t.pc = "create"
          /\ t.op = tx[p].op /\ t.a = tx[p].a /\ t.b = tx[p].b
      BY <1>1 DEF TxState
    <2> QED
      BY <1>1, <1>2, <2>1, GoesOn DEF Reads, redis
  <1>3. ASSUME NEW i \in LiveRows(session, tx[p].a, tx[p].b) \cup {0},
               Reads(p, [tx[p] EXCEPT !.pc = "redis", !.i = i, !.todo = <<"putOpened">>])
        PROVE  ContactInv'
    <2> DEFINE t == [tx[p] EXCEPT !.pc = "redis", !.i = i, !.todo = <<"putOpened">>]
    <2>1. (i = 0 \/ i \in DOMAIN session) /\ session \in Seq(SessionRow)
      BY <1>1, <1>3 DEF LiveRows, Rows, TypeOK
    <2>2. i \in Nat /\ <<"putOpened">> \in Seq(Steps)
      BY <2>1 DEF Steps
    <2>3. /\ t \in TxState /\ t.pc = "redis"
          /\ t.op = tx[p].op /\ t.a = tx[p].a /\ t.b = tx[p].b
      BY <1>1, <2>2 DEF TxState
    <2> QED
      BY <1>1, <1>3, <2>3, GoesOn DEF Reads, redis
  <1> QED
    BY <1>2, <1>3 DEF FindSession

\* A step that changes sessions and users only.
LEMMA SessionsChange ==
  ASSUME ContactInv, NEW p \in Proc, NEW t \in TxState, tx[p].pc # "idle",
         t.op = tx[p].op, t.a = tx[p].a, t.b = tx[p].b, t.pc = "redis",
         Becomes(p, t), UNCHANGED <<chats, contact, apply>>,
         status' \in [User -> {"NORMAL", "DISABLE", "deleted"}], session' \in Seq(SessionRow)
  PROVE  ContactInv'
  <1>1. contact' = contact /\ apply' = apply /\ Grows(contact, contact') /\ Grows(apply, apply')
    BY GrowsSame
  <1>2. MirroredContacts' /\ AgreedAreContacts'
    BY <1>1 DEF ContactInv, MirroredContacts, AgreedAreContacts, LiveRows, Rows
  <1>3. contact' \in Seq(ContactRow) /\ apply' \in Seq(ApplyRow)
    BY <1>1 DEF ContactInv, TypeOK
  <1> QED
    BY <1>1, <1>2, <1>3, CommitKeeps

LEMMA CreateSessionInv ==
  ASSUME ContactInv, NEW p \in Proc, CreateSession(p) PROVE ContactInv'
  <1> DEFINE n == Len(session) + 1
             t == [tx[p] EXCEPT !.pc = "redis", !.i = n, !.todo = <<"putOpened", "dropChats">>]
  <1>1. /\ tx[p] \in TxState /\ tx[p].pc # "idle" /\ tx[p].a \in User /\ tx[p].b \in User
        /\ TypeOK
    BY Mover DEF CreateSession, WellFormed
  <1>2. session \in Seq(SessionRow) /\ n \in Nat
    BY <1>1 DEF TypeOK
  <1>3. <<"putOpened", "dropChats">> \in Seq(Steps)
    BY DEF Steps
  <1>4. /\ t \in TxState /\ t.pc = "redis"
        /\ t.op = tx[p].op /\ t.a = tx[p].a /\ t.b = tx[p].b
    <2> HIDE DEF n
    <2> QED
      BY <1>1, <1>2, <1>3 DEF TxState
  <1>5. session' \in Seq(SessionRow)
    BY <1>1, <1>2 DEF CreateSession, SessionRow
  <1>6. Becomes(p, t) /\ UNCHANGED <<chats, contact, apply, status>>
    BY DEF CreateSession, redis
  <1> QED
    BY <1>1, <1>4, <1>5, <1>6, SessionsChange DEF TypeOK

LEMMA DeleteSessionInv ==
  ASSUME ContactInv, NEW p \in Proc, DeleteSession(p) PROVE ContactInv'
  <1>1. CASE Refuse(p)
    BY <1>1, RefuseKeeps DEF Refuse, redis
  <1>2. CASE ~Refuse(p)
    <2> DEFINE t == [tx[p] EXCEPT !.pc = "redis", !.todo = <<"dropOpened", "dropChats">>]
    <2>1. PICK i \in Nat : session' = Bury(session, {i}) /\ Becomes(p, t)
                           /\ UNCHANGED <<chats, contact, apply, status>>
      <3>1. \A i \in DOMAIN session : i \in Nat
        BY DEF ContactInv, TypeOK
      <3> QED
        BY <1>2, <3>1 DEF DeleteSession, Committed, redis, Rows
    <2>2. tx[p] \in TxState /\ tx[p].pc # "idle" /\ TypeOK
      BY Mover DEF DeleteSession, At
    <2>3. <<"dropOpened", "dropChats">> \in Seq(Steps)
      BY DEF Steps
    <2>4. /\ t \in TxState /\ t.pc = "redis"
          /\ t.op = tx[p].op /\ t.a = tx[p].a /\ t.b = tx[p].b
      BY <2>2, <2>3 DEF TxState
    <2>5. session' \in Seq(SessionRow)
      BY <2>1, <2>2, BuryTable DEF TypeOK
    <2> QED
      BY <2>1, <2>2, <2>4, <2>5, SessionsChange DEF TypeOK
  <1> QED
    BY <1>1, <1>2

\* What enabling, disabling and deleting a user does.
LEMMA UsersInv ==
  ASSUME ContactInv, NEW p \in Proc, AbleUsers(p) \/ DisableUsers(p) \/ DeleteUsers(p)
  PROVE  ContactInv'
  <1>1. tx[p] \in TxState /\ tx[p].pc # "idle" /\ tx[p].a \in User
        /\ TypeOK /\ MirroredContacts /\ AgreedAreContacts
    BY Mover DEF AbleUsers, DisableUsers, DeleteUsers, At
  <1>2. status' \in [User -> {"NORMAL", "DISABLE", "deleted"}]
    BY <1>1 DEF TypeOK, AbleUsers, DisableUsers, DeleteUsers
  <1>3. session' \in Seq(SessionRow)
    BY <1>1, BuryTable DEF TypeOK, AbleUsers, DisableUsers, DeleteUsers
  <1>4. CASE AbleUsers(p) \/ DisableUsers(p)
    <2> DEFINE t == [tx[p] EXCEPT !.pc = "redis", !.todo = <<"dropFriends">>]
    <2>1. <<"dropFriends">> \in Seq(Steps)
      BY DEF Steps
    <2>2. /\ t \in TxState /\ t.pc = "redis"
          /\ t.op = tx[p].op /\ t.a = tx[p].a /\ t.b = tx[p].b
      BY <1>1, <2>1 DEF TxState
    <2>3. Becomes(p, t) /\ UNCHANGED <<chats, contact, apply>>
      BY <1>4 DEF AbleUsers, DisableUsers, Committed, redis
    <2> QED
      BY <1>1, <1>2, <1>3, <2>2, <2>3, SessionsChange
  <1>5. CASE DeleteUsers(p)
    <2> DEFINE t == [tx[p] EXCEPT !.pc = "redis", !.todo = <<"dropFriends", "dropSessions">>]
               u == tx[p].a
    <2>1. <<"dropFriends", "dropSessions">> \in Seq(Steps)
      BY DEF Steps
    <2>2. /\ t \in TxState /\ t.pc = "redis"
          /\ t.op = tx[p].op /\ t.a = tx[p].a /\ t.b = tx[p].b
      BY <1>1, <2>1 DEF TxState
    <2>3. contact' = Bury(contact, Of(contact, u)) /\ apply' = Bury(apply, Of(apply, u))
      BY <1>5 DEF DeleteUsers
    <2>4. contact' \in Seq(ContactRow) /\ MirroredContacts' /\ Grows(contact, contact')
      BY <1>1, <2>3, WholeRelations, BuryMirrored
    <2>5. apply' \in Seq(ApplyRow) /\ Grows(apply, apply')
      BY <1>1, <2>3, BuryTable DEF TypeOK
    <2>6. \A i \in DOMAIN apply, j \in DOMAIN contact :
            contact[j].user = apply[i].peer /\ contact[j].peer = apply[i].user
              /\ j \in Of(contact, u) => i \in Of(apply, u)
      BY DEF Of
    <2>7. AgreedAreContacts'
      BY <1>1, <2>3, <2>6, AgreedBury
    <2>8. Becomes(p, t) /\ UNCHANGED chats
      BY <1>5 DEF DeleteUsers, Committed, redis
    <2> QED
      BY <1>1, <1>2, <1>3, <2>2, <2>4, <2>5, <2>7, <2>8, CommitKeeps
  <1> QED
    BY <1>4, <1>5

LEMMA RedisStepInv ==
  ASSUME ContactInv, NEW p \in Proc, RedisStep(p) PROVE ContactInv'
  <1> DEFINE t == [tx[p] EXCEPT !.todo = Tail(tx[p].todo)]
  <1>1. /\ tx[p] \in TxState /\ tx[p].pc = "redis" /\ tx[p].todo # << >> /\ WellFormed(tx[p])
        /\ TypeOK
    BY Mover DEF RedisStep
  <1>2. tx[p].todo \in Seq(Steps)
    BY <1>1 DEF TxState
  <1>3. Tail(tx[p].todo) \in Seq(Steps)
    BY <1>1, <1>2
  <1>4. /\ t \in TxState /\ t.pc = "redis"
        /\ t.op = tx[p].op /\ t.a = tx[p].a /\ t.b = tx[p].b
    BY <1>1, <1>3 DEF TxState
  <1>5. WellFormed(t) /\ HoldsRows(t, apply, contact)
    BY <1>1, <1>4, MovesOn
  <1>6. \/ chats' = chats \/ chats' = Drop(chats, {tx[p].a}) \/ chats' = << >>
    BY DEF RedisStep
  <1>7. ChatLists'
    <2>1. CASE chats' = << >>
      BY <2>1 DEF ChatLists
    <2> QED
      BY <1>1, <1>6, <2>1, PutDrop, ChatsSame DEF TypeOK
  <1>8. Becomes(p, t) /\ UNCHANGED db
    BY DEF RedisStep
  <1> QED
    BY <1>4, <1>5, <1>7, <1>8, ReadKeeps

LEMMA ExpireInv == ASSUME ContactInv, Expire PROVE ContactInv'
  <1>1. ChatLists'
    BY PutDrop, ChatsSame DEF Expire, ContactInv, TypeOK
  <1>2. UNCHANGED <<status, contact, apply, session, tx>>
    BY DEF Expire, db
  <1> QED
    BY <1>1, <1>2 DEF ContactInv, TypeOK, MirroredContacts, AgreedAreContacts, LiveRows, Rows

\* An account that comes back has nothing in the tables.
LEMMA ReviveInv == ASSUME ContactInv, NEW u \in User, Revive(u) PROVE ContactInv'
  <1>1. UNCHANGED <<contact, apply, session, chats, tx>>
    BY DEF Revive, redis
  <1>2. status' \in [User -> {"NORMAL", "DISABLE", "deleted"}]
    BY DEF Revive, ContactInv, TypeOK
  <1> QED
    BY <1>1, <1>2 DEF ContactInv, TypeOK, ChatLists, MirroredContacts, AgreedAreContacts,
                      LiveRows, Rows

\* Every step keeps the invariant.
LEMMA StepInv == ASSUME ContactInv, ContactsAssumption, [Next]_vars PROVE ContactInv'
  <1>1. CASE UNCHANGED vars
    BY <1>1 DEF vars, db, redis, ContactInv, TypeOK, ChatLists,
                MirroredContacts, AgreedAreContacts, LiveRows, Rows
  <1>2. CASE Expire
    BY <1>2, ExpireInv
  <1>3. ASSUME NEW p \in Proc, Call(p) PROVE ContactInv'
    BY <1>3, CallInv
  <1>4. ASSUME NEW p \in Proc, Applications(p) PROVE ContactInv'
    BY <1>4, ApplyReadInv, ApplyCommitInv, PassReadInv, PassBlindInv, PassCommitInv,
       AnswerReadInv, AnswerCommitInv DEF Applications
  <1>5. ASSUME NEW p \in Proc, Relations(p) PROVE ContactInv'
    BY <1>5, DeleteInv, BlackInv, CancelReadInv, CancelCommitInv, GetUserListInv DEF Relations
  <1>6. ASSUME NEW p \in Proc, Sessions(p) PROVE ContactInv'
    BY <1>6, OpenInv, ListHitInv, ListMissInv, CacheListInv, FindSessionInv,
       CreateSessionInv, DeleteSessionInv DEF Sessions
  <1>7. ASSUME NEW p \in Proc, Users(p) PROVE ContactInv'
    BY <1>7, UsersInv DEF Users
  <1>8. ASSUME NEW p \in Proc, RedisStep(p) PROVE ContactInv'
    BY <1>8, RedisStepInv
  <1>9. ASSUME NEW p \in Proc, Reply(p) \/ Rollback(p) \/ Crash(p) PROVE ContactInv'
    BY <1>9, RefuseKeeps DEF Reply, Rollback, Crash, Refuse, redis
  <1>10. ASSUME NEW u \in User, Revive(u) PROVE ContactInv'
    BY <1>10, ReviveInv
  <1> QED
    BY <1>1, <1>2, <1>3, <1>4, <1>5, <1>6, <1>7, <1>8, <1>9, <1>10 DEF Next

\* In every reachable state relations are mirrored, agreed applications are
\* between contacts, and requests hold the rows they mean to save.
THEOREM ContactsInvariance == Spec => []ContactInv
  <1>1. ContactInv /\ [Next]_vars => ContactInv'
    BY StepInv, ContactsAssumption
  <1> QED
    BY <1>1, InitInv, PTL DEF Spec

\* A relation always has both directions, with statuses that match: deleting,
\* blocking, cancelling and passing at once never leave half of one.
THEOREM RelationsMirrored == Spec => []MirroredContacts
  <1>1. ContactInv => MirroredContacts
    BY DEF ContactInv
  <1> QED
    BY <1>1, ContactsInvariance, PTL

\* An application that was agreed to, and still stands, is between contacts.
THEOREM AgreedSafety == Spec => []AgreedAreContacts
  <1>1. ContactInv => AgreedAreContacts
    BY DEF ContactInv
  <1> QED
    BY <1>1, ContactsInvariance, PTL

=============================================================================
