---------------------------- MODULE HistoryProofs ----------------------------
(***************************************************************************)
(* Proofs about GroupHistory, for any number of groups, users, readers and *)
(* requests, whatever the operations and failures of GroupMembership are:  *)
(* no step of a request about groups adds a message or touches the cached  *)
(* lists, what it does to the members shows in was and always, and whose   *)
(* messages it deletes in purged.                                          *)
(***************************************************************************)
EXTENDS GroupHistory, GroupProofs

LEMMA ConsumerFacts ==
  ASSUME NEW pc, NEW m, NEW to, NEW was, NEW always
  PROVE  LET c == Consumer(pc, m, to, was, always) IN
         /\ c.pc = pc /\ c.m = m /\ c.to = to /\ c.was = was /\ c.always = always
  BY DEF Consumer

LEMMA WaitingIsIdle == Waiting.pc = "idle"
  <1> DEFINE m == Sent(0, NoGroup, NoUser, FALSE)
  <1>1. Waiting = Consumer("idle", m, {}, {}, {})
    BY DEF Waiting
  <1> HIDE DEF m
  <1> QED
    BY <1>1, ConsumerFacts

\* Messages are numbered up to taken.
LEMMA SameTypes == taken' = taken => Message' = Message /\ Fetch' = Fetch
  BY DEF Message, Fetch

LEMMA HistoryInitial == HistoryInit => HistoryInv
  <1> SUFFICES ASSUME HistoryInit PROVE HistoryInv
    OBVIOUS
  <1>1. hub.pc = "idle" /\ \A r \in Reader : fetch[r] = NoFetch
    BY WaitingIsIdle DEF HistoryInit
  <1>2. NoFetch \in Fetch
        /\ NoFetch.pc = "idle"
    BY DEF NoFetch, Fetch
  <1>3. /\ message = {} /\ DOMAIN history = {} /\ taken = 0 /\ stale = {}
        /\ purged \in [User -> 0..taken]
    BY DEF HistoryInit
  <1>4. HistoryTypeOK
    BY <1>1, <1>2, <1>3 DEF HistoryInit, HistoryTypeOK
  <1> QED
    BY <1>1, <1>2, <1>3, <1>4
       DEF HistoryInv, HistoryComplete, FanOut, ReadersComplete, MembersBounded

-----------------------------------------------------------------------------
(* One lemma per action                                                      *)

\* The next message, whatever it is: the rows and the readers' messages before it stay
\* messages, and the counter bounds their numbers.
LEMMA TakenNext ==
  ASSUME HistoryTypeOK, taken' = taken + 1, NEW g \in Group, NEW u \in User, NEW c \in BOOLEAN
  PROVE  /\ taken' \in Nat /\ Message \subseteq Message' /\ Sent(taken', g, u, c) \in Message'
         /\ Fetch \subseteq Fetch' /\ purged \in [User -> 0..taken']
  <1>1. /\ taken \in Nat /\ taken' \in Nat /\ 1..taken \subseteq 1..taken' /\ taken' \in 1..taken'
        /\ 0..taken \subseteq 0..taken' /\ purged \in [User -> 0..taken]
    BY DEF HistoryTypeOK
  <1>2. Message \subseteq Message' /\ Sent(taken', g, u, c) \in Message'
    BY <1>1 DEF Message, Sent
  <1>3. Fetch \subseteq Fetch'
    BY <1>2 DEF Fetch
  <1>4. purged \in [User -> 0..taken']
    BY <1>1
  <1> QED
    BY <1>1, <1>2, <1>3, <1>4

LEMMA StoreKeeps ==
  ASSUME HistoryInv, UNCHANGED vars, NEW g \in Group, NEW u \in User, Store(g, u)
  PROVE  HistoryInv'
  <1> DEFINE m == Sent(taken', g, u, FALSE)
  <1>1. /\ hub'.pc = "stored" /\ hub'.m = m /\ m.g = g
        /\ hub'.was = member[g] /\ hub'.always = member[g]
    BY ConsumerFacts DEF Store, Sent
  <1>2. /\ hub.pc = "idle" /\ taken' = taken + 1 /\ UNCHANGED <<history, purged, stale>>
        /\ member' = member
    BY DEF Store, vars, db
  <1>3. /\ taken' \in Nat /\ Message \subseteq Message' /\ m \in Message' /\ Fetch \subseteq Fetch'
        /\ purged \in [User -> 0..taken']
    BY <1>2, TakenNext DEF HistoryInv
  <1> HIDE DEF m
  <1>4. FanOut' /\ MembersBounded'
    BY <1>1, <1>2 DEF FanOut, MembersBounded
  \* The new message is in hand, and the readers of its group are late.
  <1>5. /\ message' \subseteq message \cup {m}
        /\ \A x : /\ Written(x)' \subseteq Written(x) \cup {m}
                  /\ x # g => Written(x)' \subseteq Written(x)
    <2>1. message' \subseteq message \cup {m}
      BY <1>1 DEF Store
    <2> QED
      BY <1>1, <2>1 DEF Written, MessagesOf
  <1>6. /\ fetch' \in [Reader -> Fetch]
        /\ \A r \in Reader : /\ fetch'[r].pc = fetch[r].pc /\ fetch'[r].g = fetch[r].g
                             /\ fetch'[r].seen = fetch[r].seen
                             /\ fetch[r].late => fetch'[r].late
                             /\ fetch[r].g = g /\ ~fetch'[r].late => UNCHANGED message
    <2>1. fetch \in [Reader -> Fetch]
      BY DEF HistoryInv, HistoryTypeOK
    <2>2. CASE UNCHANGED <<message, fetch>>
      BY <2>1, <2>2
    <2>3. CASE fetch' = [r \in Reader |-> IF fetch[r].g = g THEN [fetch[r] EXCEPT !.late = TRUE]
                                         ELSE fetch[r]]
      <3>1. ASSUME NEW r \in Reader
            PROVE  /\ fetch'[r] \in Fetch
                   /\ fetch'[r].pc = fetch[r].pc /\ fetch'[r].g = fetch[r].g
                   /\ fetch'[r].seen = fetch[r].seen
                   /\ fetch[r].late => fetch'[r].late
                   /\ fetch[r].g = g => fetch'[r].late
        <4>1. fetch[r] \in Fetch
          BY <2>1
        <4> QED
          BY <2>3, <4>1 DEF Fetch
      <3> QED
        BY <2>3, <3>1
    <2> QED
      BY <2>2, <2>3 DEF Store
  <1>7. \A x : \A r \in Reader : x = fetch[r].g => fetch'[r].late \/ Written(x)' \subseteq Written(x)
    BY <1>5, <1>6 DEF Written, MessagesOf
  <1>8. HistoryTypeOK'
    <2>1. fetch' \in [Reader -> Fetch']
      BY <1>3, <1>6
    <2> QED
      BY <1>1, <1>2, <1>3, <1>5, <1>6, <2>1 DEF HistoryInv, HistoryTypeOK
  <1>9. ReadersComplete'
    <2> SUFFICES ASSUME NEW r \in Reader, fetch[r].pc = "put", ~fetch'[r].late
                 PROVE  (Written(fetch[r].g) \subseteq fetch[r].seen)'
      BY <1>6 DEF ReadersComplete
    <2>1. Written(fetch[r].g) \subseteq fetch[r].seen
      BY <1>6 DEF HistoryInv, ReadersComplete
    <2> QED
      BY <1>6, <1>7, <2>1 DEF Written, MessagesOf
  <1>10. \A x : InHand(x) = {} /\ InHand(x)' = IF x = g THEN {m} ELSE {}
    BY <1>1, <1>2 DEF InHand
  <1>11. HistoryComplete'
    <2> SUFFICES ASSUME NEW x \in DOMAIN history \ stale
                 PROVE  Written(x)' \ InHand(x)' \subseteq history[x]
      BY <1>2 DEF HistoryComplete
    <2>1. InHand(x) = {}
      BY <1>10
    <2>2. Written(x) \subseteq history[x]
      BY <2>1 DEF HistoryInv, HistoryComplete
    <2> QED
      BY <1>5, <1>10, <2>2
  <1> QED
    BY <1>4, <1>8, <1>9, <1>11 DEF HistoryInv

\* A call leaves the texts and files, the lists and their readers alone.
LEMMA StoreCallKeeps ==
  ASSUME HistoryInv, UNCHANGED vars, NEW g \in Group, NEW u \in User, StoreCall(g, u)
  PROVE  HistoryInv'
  <1> DEFINE m == Sent(taken', g, u, TRUE)
  <1>1. /\ hub.pc = "idle" /\ taken' = taken + 1 /\ message' \subseteq message \cup {m}
        /\ UNCHANGED <<history, hub, fetch, purged, stale>> /\ member' = member
    BY DEF StoreCall, vars, db
  <1>2. m.call
    BY DEF Sent
  <1>3. /\ taken' \in Nat /\ Message \subseteq Message' /\ m \in Message' /\ Fetch \subseteq Fetch'
        /\ purged \in [User -> 0..taken']
    BY <1>1, TakenNext DEF HistoryInv
  <1> HIDE DEF m
  <1>4. \A x : Written(x)' \subseteq Written(x)
    BY <1>1, <1>2 DEF Written, MessagesOf
  <1>5. \A x : InHand(x)' = InHand(x)
    BY <1>1 DEF InHand
  <1>6. fetch' \in [Reader -> Fetch']
    BY <1>1, <1>3 DEF HistoryInv, HistoryTypeOK
  <1>7. HistoryTypeOK'
    BY <1>1, <1>3, <1>6 DEF HistoryInv, HistoryTypeOK
  <1>8. HistoryComplete' /\ ReadersComplete'
    BY <1>1, <1>4, <1>5 DEF HistoryInv, HistoryComplete, ReadersComplete
  <1>9. FanOut' /\ MembersBounded'
    BY <1>1 DEF FanOut, MembersBounded
  <1> QED
    BY <1>7, <1>8, <1>9 DEF HistoryInv

LEMMA ReadMembersKeeps ==
  ASSUME HistoryInv, UNCHANGED vars, ReadMembers
  PROVE  HistoryInv'
  <1>1. PICK to \in {member[hub.m.g], {}} :
          hub' = Consumer("push", hub.m, to, hub.was, hub.always)
    BY DEF ReadMembers
  <1>2. /\ hub'.pc = "push" /\ hub'.m = hub.m /\ hub'.to = to
        /\ hub'.was = hub.was /\ hub'.always = hub.always /\ hub.pc = "stored"
    BY <1>1, ConsumerFacts DEF ReadMembers
  <1>3. UNCHANGED <<message, history, fetch, taken, purged, stale>>
    BY DEF ReadMembers
  <1>4. \A x : InHand(x)' = InHand(x) /\ Written(x)' = Written(x)
    BY <1>2, <1>3 DEF InHand, Written, MessagesOf
  <1>5. HistoryTypeOK' /\ HistoryComplete' /\ ReadersComplete' /\ MembersBounded'
    BY <1>2, <1>3, <1>4, SameTypes DEF HistoryInv, HistoryTypeOK, HistoryComplete, ReadersComplete, MembersBounded
  <1>6. FanOut'
    BY <1>2 DEF HistoryInv, MembersBounded, FanOut
  <1> QED
    BY <1>5, <1>6 DEF HistoryInv

LEMMA InvalidateKeeps ==
  ASSUME HistoryInv, UNCHANGED vars, Invalidate
  PROVE  HistoryInv'
  <1>1. hub' = Waiting /\ hub.pc = "push" /\ hub.m.g \in Group /\ UNCHANGED <<message, fetch, taken, purged>>
    BY DEF Invalidate, HistoryInv, HistoryTypeOK, Message
  <1>2. hub'.pc = "idle"
    BY <1>1, WaitingIsIdle
  <1>3. \A x : /\ InHand(x)' = {} /\ Written(x)' = Written(x)
               /\ x # hub.m.g => InHand(x) = {}
    BY <1>1, <1>2 DEF InHand, Written, MessagesOf
  <1>4. /\ \/ DOMAIN history' = DOMAIN history \ {hub.m.g} /\ stale' = stale \ {hub.m.g}
           \/ DOMAIN history' = DOMAIN history /\ stale' = stale \cup {hub.m.g}
        /\ \A x \in DOMAIN history' : history'[x] = history[x]
    BY DEF Invalidate, Drop
  <1>5. HistoryTypeOK'
    BY <1>1, <1>2, <1>4, SameTypes DEF HistoryInv, HistoryTypeOK
  <1>6. FanOut' /\ MembersBounded' /\ ReadersComplete'
    BY <1>1, <1>2 DEF HistoryInv, FanOut, MembersBounded, ReadersComplete, Written, MessagesOf
  \* What was in hand is of the group whose key is gone or now known to be stale.
  <1>7. HistoryComplete'
    <2> SUFFICES ASSUME NEW x \in DOMAIN history' \ stale'
                 PROVE  Written(x) \subseteq history[x]
      BY <1>3, <1>4 DEF HistoryComplete, Written, MessagesOf
    <2>1. x \in DOMAIN history \ stale /\ x # hub.m.g
      BY <1>4
    <2>2. InHand(x) = {}
      BY <1>3, <2>1
    <2> QED
      BY <2>1, <2>2 DEF HistoryInv, HistoryComplete
  <1> QED
    BY <1>5, <1>6, <1>7 DEF HistoryInv

LEMMA FetchReadKeeps ==
  ASSUME HistoryInv, UNCHANGED vars, NEW r \in Reader, NEW g \in Group, FetchRead(r, g)
  PROVE  HistoryInv'
  <1> DEFINE f == [pc |-> "put", g |-> g, seen |-> MessagesOf(g), late |-> FALSE]
  <1>1. fetch' = [fetch EXCEPT ![r] = f] /\ UNCHANGED <<message, history, hub, taken, purged, stale>>
    BY DEF FetchRead
  <1>2. \A x : InHand(x)' = InHand(x) /\ Written(x)' = Written(x)
    BY <1>1 DEF InHand, Written, MessagesOf
  <1>3. MessagesOf(g) \subseteq Message
    BY DEF HistoryInv, HistoryTypeOK, MessagesOf
  <1>4. \A q \in Reader : fetch'[q] = IF q = r THEN f ELSE fetch[q]
    BY <1>1 DEF HistoryInv, HistoryTypeOK
  <1>5. HistoryTypeOK'
    BY <1>1, <1>3, <1>4, SameTypes DEF HistoryInv, HistoryTypeOK, Fetch
  <1>6. ReadersComplete'
    <2>1. Written(g) \subseteq MessagesOf(g)
      BY DEF Written
    <2> QED
      BY <1>2, <1>4, <2>1 DEF HistoryInv, ReadersComplete
  <1>7. HistoryComplete' /\ FanOut' /\ MembersBounded'
    BY <1>1, <1>2 DEF HistoryInv, HistoryComplete, FanOut, MembersBounded, vars, db
  <1> QED
    BY <1>5, <1>6, <1>7 DEF HistoryInv

LEMMA FetchPutKeeps ==
  ASSUME HistoryInv, UNCHANGED vars, NEW r \in Reader, FetchPut(r)
  PROVE  HistoryInv'
  <1> DEFINE g == fetch[r].g
  <1>1. fetch' = [fetch EXCEPT ![r] = NoFetch] /\ UNCHANGED <<message, hub, taken, purged>>
    BY DEF FetchPut
  <1>2. \A x : InHand(x)' = InHand(x) /\ Written(x)' = Written(x)
    BY <1>1 DEF InHand, Written, MessagesOf
  <1>3. /\ NoFetch \in Fetch
        /\ NoFetch.pc = "idle"
    BY DEF NoFetch, Fetch
  <1>4. \A q \in Reader : fetch'[q] = IF q = r THEN NoFetch ELSE fetch[q]
    BY <1>1 DEF HistoryInv, HistoryTypeOK
  <1>5. g \in Group /\ (~fetch[r].late => Written(g) \subseteq fetch[r].seen)
    BY DEF FetchPut, HistoryInv, HistoryTypeOK, ReadersComplete
  <1>6. CASE UNCHANGED <<history, stale>>
    <2>1. HistoryTypeOK'
      BY <1>1, <1>3, <1>4, <1>6, SameTypes DEF HistoryInv, HistoryTypeOK
    <2>2. HistoryComplete' /\ ReadersComplete' /\ FanOut' /\ MembersBounded'
      BY <1>1, <1>2, <1>3, <1>4, <1>6 DEF HistoryInv, HistoryComplete, ReadersComplete, FanOut,
         MembersBounded, vars, db
    <2> QED
      BY <2>1, <2>2 DEF HistoryInv
  <1>7. CASE /\ history' = Put(history, g, fetch[r].seen)
             /\ stale' = IF fetch[r].late THEN stale \cup {g} ELSE stale \ {g}
    <2>1. /\ DOMAIN history' = DOMAIN history \cup {g} /\ history'[g] = fetch[r].seen
          /\ \A x \in DOMAIN history : x # g => history'[x] = history[x]
      BY <1>7 DEF Put
    <2>2. HistoryTypeOK'
      <3>1. \A x \in DOMAIN history' : x \in Group /\ history'[x] \subseteq Message
        <4>1. fetch[r].seen \subseteq Message /\ DOMAIN history \subseteq Group
              /\ \A x \in DOMAIN history : history[x] \subseteq Message
          BY DEF HistoryInv, HistoryTypeOK, Fetch
        <4> QED
          BY <1>5, <2>1, <4>1
      <3>2. fetch' \in [Reader -> Fetch] /\ \A q \in Reader : fetch'[q].pc = "put" => fetch'[q].g \in Group
        BY <1>1, <1>3, <1>4 DEF HistoryInv, HistoryTypeOK
      <3>3. stale' \subseteq Group
        BY <1>5, <1>7 DEF HistoryInv, HistoryTypeOK
      <3> QED
        BY <1>1, <3>1, <3>2, <3>3, SameTypes DEF HistoryInv, HistoryTypeOK
    <2>3. ReadersComplete' /\ FanOut' /\ MembersBounded'
      BY <1>1, <1>2, <1>3, <1>4 DEF HistoryInv, ReadersComplete, FanOut, MembersBounded, vars, db
    <2>4. HistoryComplete'
      <3> SUFFICES ASSUME NEW x \in DOMAIN history' \ stale'
                   PROVE  Written(x) \ InHand(x) \subseteq history'[x]
        BY <1>2 DEF HistoryComplete
      <3>1. CASE x = g
        BY <1>5, <1>7, <2>1, <3>1
      <3>2. CASE x # g
        BY <1>7, <2>1, <3>2 DEF HistoryInv, HistoryComplete
      <3> QED
        BY <3>1, <3>2
    <2> QED
      BY <2>2, <2>3, <2>4 DEF HistoryInv
  <1> QED
    BY <1>6, <1>7 DEF FetchPut

LEMMA ExpireHistoryKeeps ==
  ASSUME HistoryInv, UNCHANGED vars, NEW g \in Group, ExpireHistory(g)
  PROVE  HistoryInv'
  <1>1. UNCHANGED <<message, hub, fetch, taken, purged>> /\ stale' = stale \ {g}
    BY DEF ExpireHistory
  <1>2. DOMAIN history' = DOMAIN history \ {g} /\ \A x \in DOMAIN history' : history'[x] = history[x]
    BY DEF ExpireHistory, Drop
  <1>3. \A x : InHand(x)' = InHand(x) /\ Written(x)' = Written(x)
    BY <1>1 DEF InHand, Written, MessagesOf
  <1>4. HistoryTypeOK'
    BY <1>1, <1>2, SameTypes DEF HistoryInv, HistoryTypeOK
  <1>5. HistoryComplete' /\ ReadersComplete' /\ FanOut' /\ MembersBounded'
    BY <1>1, <1>2, <1>3 DEF HistoryInv, HistoryComplete, ReadersComplete, FanOut, MembersBounded,
       vars, db
  <1> QED
    BY <1>4, <1>5 DEF HistoryInv

\* Whatever a request about groups does, messages only become fewer.
LEMMA GroupStepKeeps ==
  ASSUME HistoryInv, GroupStep
  PROVE  HistoryInv'
  <1>1. UNCHANGED <<history, fetch, taken, stale>>
    BY DEF GroupStep
  <1>2. message' \subseteq message
    BY DEF GroupStep
  <1>3. \A x : Written(x)' \subseteq Written(x)
    BY <1>2 DEF Written, MessagesOf
  <1>4. /\ hub'.pc = hub.pc /\ hub'.m = hub.m
        /\ hub.pc # "stored" => hub' = hub
        /\ hub.pc = "stored" => /\ hub'.was = hub.was \cup member'[hub.m.g]
                                /\ hub'.always = hub.always \cap member'[hub.m.g]
    <2>1. CASE hub.pc = "stored"
      <3>1. hub' = Consumer("stored", hub.m, {}, hub.was \cup member'[hub.m.g],
                            hub.always \cap member'[hub.m.g])
        BY <2>1 DEF GroupStep
      <3> QED
        BY <2>1, <3>1, ConsumerFacts
    <2>2. CASE hub.pc # "stored"
      BY <2>2 DEF GroupStep
    <2> QED
      BY <2>1, <2>2
  <1>5. \A x : InHand(x)' = InHand(x)
    BY <1>4 DEF InHand
  <1>6. HistoryTypeOK'
    <2>1. purged' \in [User -> 0..taken]
      BY DEF GroupStep, HistoryInv, HistoryTypeOK
    <2> QED
      BY <1>1, <1>2, <1>4, <2>1, SameTypes DEF HistoryInv, HistoryTypeOK
  <1>7. HistoryComplete' /\ ReadersComplete'
    BY <1>1, <1>3, <1>5 DEF HistoryInv, HistoryComplete, ReadersComplete
  <1>8. FanOut' /\ MembersBounded'
    BY <1>4 DEF HistoryInv, FanOut, MembersBounded
  <1> QED
    BY <1>6, <1>7, <1>8 DEF HistoryInv

-----------------------------------------------------------------------------

LEMMA HistoryStepKeeps == HistoryInv /\ [HistoryNext]_<<vars, historyVars>> => HistoryInv'
  <1> SUFFICES ASSUME HistoryInv, [HistoryNext]_<<vars, historyVars>> PROVE HistoryInv'
    OBVIOUS
  <1>1. CASE UNCHANGED <<vars, historyVars>>
    <2>1. \A x : InHand(x)' = InHand(x) /\ Written(x)' = Written(x)
      BY <1>1 DEF historyVars, InHand, Written, MessagesOf
    <2> QED
      BY <1>1, <2>1, SameTypes DEF historyVars, vars, db, HistoryInv, HistoryTypeOK, HistoryComplete, FanOut,
         ReadersComplete, MembersBounded
  <1>2. CASE GroupStep
    BY <1>2, GroupStepKeeps
  <1>3. CASE HistoryStep /\ UNCHANGED vars
    BY <1>3, StoreKeeps, StoreCallKeeps, ReadMembersKeeps, InvalidateKeeps, FetchReadKeeps, FetchPutKeeps,
       ExpireHistoryKeeps DEF HistoryStep, HubStep, ReaderStep
  <1> QED
    BY <1>1, <1>2, <1>3 DEF HistoryNext

\* The consumer's stores and drops, the calls it only stores, GetGroupMessageList and the deletions of
\* GroupMembership keep the lists, the readers and the audience as they should be.
THEOREM HistoryInvariance == HistorySpec => []HistoryInv
  BY HistoryInitial, HistoryStepKeeps, PTL DEF HistorySpec

\* A list that GetGroupMessageList cached has every text and every file the consumer
\* is done with, unless its reader was late or the drop of the key failed.  Nothing of
\* the kind is true of calls, whose INSERT leaves the key as it is.
THEOREM ListsComplete == HistorySpec => []HistoryComplete
  BY HistoryInvariance, PTL DEF HistoryInv

\* The members the consumer pushes to, read after the INSERT and before the mutex,
\* are those who were members throughout and none who had left before.
THEOREM AudienceOfMessage == HistorySpec => []FanOut
  BY HistoryInvariance, PTL DEF HistoryInv

-----------------------------------------------------------------------------
(* What is proved of the requests about groups goes on beside the messages.   *)

\* Storing, pushing and listing messages leaves the groups alone, and to a request
\* about groups it makes no difference which messages it deletes.
THEOREM GroupsBesideMessages == HistorySpec => Spec
  <1>1. HistoryInit => Init
    BY DEF HistoryInit
  <1>2. [HistoryNext]_<<vars, historyVars>> => [Next]_vars
    BY DEF HistoryNext, GroupStep
  <1> QED
    BY <1>1, <1>2, PTL DEF HistorySpec, Spec

\* So the operations on groups are atomic beside the consumer and the readers.
THEOREM AtomicBesideMessages ==
    ASSUME UpdatesAlone
    PROVE  HistorySpec => ImplementsAtomicGroups
  BY GroupsBesideMessages, Atomicity, PTL

\* And the keys of groups are true, or about to be put or dropped, while messages
\* are stored and listed.
THEOREM CachesBesideMessages ==
    ASSUME UpdatesAlone, NEW P, Proc = {P}, Fault \cap {"crash", "redis"} = {}
    PROVE  HistorySpec => [](CoherentInv /\ CacheCoherent)
  <1>1. Spec => []CoherentInv
    BY CachesFollow
  <1>2. Spec => []CacheCoherent
    BY CachesCoherent
  <1> QED
    BY <1>1, <1>2, GroupsBesideMessages, PTL

-----------------------------------------------------------------------------
(* Deleted messages.                                                          *)

\* Whose messages a commit deletes loses his account with it, or their group goes.
LEMMA GoneWithReason ==
    ASSUME GroupInv, NEW p \in Proc, Next, Commits(p), NEW m \in DeletedBy(p), m.g \in Group
    PROVE  group'[m.g].state = "dead" \/ Purges(p, m.u)
  <1>1. TypeOK /\ tx[p] \in TxState
    BY DEF GroupInv, TypeOK
  <1>2. PICK q \in Proc : Call(q) \/ Transaction(q) \/ Redis(q) \/ Failure(q)
    BY DEF Next, Commits, Apply, Revive, Expire
  <1>3. q = p
    <2>1. \E t : Becomes(q, t)
      BY <1>2 DEF Call, Transaction, Redis, Failure, CreateGroup, LeaveLock, LeaveCommit, RemoveLock,
         RemoveCommit, EnterLock, EnterCommit, PassRead, PassLock, PassCommit, DismissLock, DeleteLock,
         DissolveCommit, SetGroupsStatus, UpdateRead, UpdateCommit, DeleteUsersRead, DeleteUsersLock,
         DeleteUsersCommit, LockGroup, Insert, CommitRow, Refuse, GetGroupInfo, GetGroupMemberList,
         PutInfo, PutCard, QueryMembers, ReadNames, PutList, DropKeys, Reply, Rollback, Crash, RedisFails, Done
    <2>2. q # p => tx'[p] = tx[p]
      BY <1>1, <2>1 DEF Becomes, TypeOK
    <2> QED
      BY <2>2 DEF Commits
  <1>4. tx'[p].pc = "redis" /\ tx[p].pc \in {"lock", "commit"} /\ tx[p].op \in {"dismiss", "deleteUser"}
    BY DEF Commits, DeletedBy
  <1>5. ~Refuse(p)
    BY <1>1, <1>4 DEF Refuse, Becomes, Idle, TypeOK
  <1>6. DissolveCommit(p) \/ DeleteUsersCommit(p)
    <2>1. Transaction(p)
      BY <1>2, <1>3, <1>4, <1>5 DEF Call, Redis, Failure, GetGroupInfo, GetGroupMemberList, PutInfo,
         PutCard, QueryMembers, ReadNames, PutList, DropKeys, Reply, Rollback, Crash, RedisFails, Done
    <2>2. ~DismissLock(p)
      <3> DEFINE t == [tx[p] EXCEPT !.pc = "commit", !.row[tx[p].g] = group[tx[p].g], !.seen = {}]
      <3>1. t.pc = "commit"
        BY <1>1 DEF TxState
      <3>2. DismissLock(p) => Becomes(p, t)
        BY <1>5 DEF DismissLock, LockGroup
      <3> HIDE DEF t
      <3> QED
        BY <1>1, <1>4, <3>1, <3>2 DEF Becomes, TypeOK
    <2>3. ASSUME NEW g \in Group PROVE ~DeleteUsersLock(p, g)
      <3> DEFINE t == [tx[p] EXCEPT !.row[g] = group[g]]
      <3>1. t.pc = tx[p].pc
        BY <1>1 DEF TxState
      <3>2. DeleteUsersLock(p, g) => Becomes(p, t)
        BY <1>5 DEF DeleteUsersLock
      <3> HIDE DEF t
      <3> QED
        BY <1>1, <1>4, <3>1, <3>2 DEF Becomes, TypeOK
    <2> QED
      BY <1>4, <2>1, <2>2, <2>3 DEF Transaction, CreateGroup, LeaveLock, LeaveCommit, RemoveLock,
         RemoveCommit, EnterLock, EnterCommit, PassRead, PassLock, PassCommit, DeleteLock,
         SetGroupsStatus, UpdateRead, UpdateCommit, DeleteUsersRead, LockGroup, At
  <1>7. CASE DissolveCommit(p)
    <2>1. m.g = tx[p].g
      BY <1>4, <1>7 DEF DissolveCommit, At, DeletedBy
    <2>2. group'[m.g] = Buried(group[m.g]) /\ group[m.g] \in Row
      BY <1>1, <1>7, <2>1 DEF DissolveCommit, CommitRow, TypeOK
    <2> QED
      BY <2>2 DEF Buried, Row
  <1>8. CASE DeleteUsersCommit(p)
    <2>1. m.g \in tx[p].owned \/ m.u = tx[p].u
      BY <1>4, <1>8 DEF DeleteUsersCommit, DeletedBy
    <2>2. CASE m.u = tx[p].u
      BY <1>8, <2>2 DEF DeleteUsersCommit, Purges
    <2>3. CASE m.g \in tx[p].owned
      <3>1. group'[m.g] = Buried(group[m.g]) /\ group[m.g] \in Row
        BY <1>1, <1>8, <2>3 DEF DeleteUsersCommit, TypeOK
      <3> QED
        BY <3>1 DEF Buried, Row
    <2> QED
      BY <2>1, <2>2, <2>3
  <1> QED
    BY <1>6, <1>7, <1>8

\* Purging only counts on, up to the messages taken.
LEMMA PurgedGrows ==
    ASSUME HistoryTypeOK, [HistoryNext]_<<vars, historyVars>>, NEW u \in User
    PROVE  purged[u] \in 0..taken /\ purged'[u] \in {purged[u], taken}
  <1>1. purged[u] \in 0..taken
    BY DEF HistoryTypeOK
  <1>2. CASE GroupStep
    BY <1>1, <1>2 DEF GroupStep
  <1>3. CASE ~GroupStep
    BY <1>1, <1>3 DEF HistoryNext, HistoryStep, HubStep, ReaderStep, Store, StoreCall, ReadMembers,
       Invalidate, FetchRead, FetchPut, ExpireHistory, historyVars
  <1> QED
    BY <1>2, <1>3

\* So a list of messages that is true of a group stays true of it.
LEMMA TrueOfStays ==
    ASSUME UpdatesAlone, GroupInv, HistoryTypeOK, [HistoryNext]_<<vars, historyVars>>,
           NEW g \in Group, NEW ms \in SUBSET Message, TrueOf(g, ms)
    PROVE  TrueOf(g, ms)'
  <1>1. [Next]_vars
    BY DEF HistoryNext, GroupStep
  <1>2. group[g].state = "dead" => group'[g].state = "dead"
    BY <1>1, DeadRowStays
  <1>3. ASSUME NEW m \in ms
        PROVE  /\ m.id \in 1..taken /\ m.u \in User /\ taken \in Nat
               /\ purged[m.u] \in 0..taken /\ purged'[m.u] \in {purged[m.u], taken}
    <2>1. m.id \in 1..taken /\ m.u \in User /\ taken \in Nat
      BY DEF Message, HistoryTypeOK
    <2> QED
      BY <2>1, PurgedGrows
  <1>4. ASSUME NEW m \in ms, m \in message, m.g = g, m \notin message'
        PROVE  group'[g].state = "dead" \/ m.id <= purged'[m.u]
    <2>1. CASE GroupStep
      <3>1. PICK p \in Proc : Commits(p) /\ m \in DeletedBy(p)
        BY <1>4, <2>1 DEF GroupStep
      <3>2. CASE group'[g].state = "dead"
        BY <3>2
      <3>3. CASE Purges(p, m.u)
        <4>1. purged'[m.u] = taken
          BY <1>3, <2>1, <3>3 DEF GroupStep
        <4> QED
          BY <1>3, <4>1
      <3> QED
        BY <1>4, <2>1, <3>1, <3>2, <3>3, GoneWithReason DEF GroupStep
    <2>2. CASE ~GroupStep
      BY <1>4, <2>2 DEF HistoryNext, HistoryStep, HubStep, ReaderStep, Store, StoreCall, ReadMembers,
         Invalidate, FetchRead, FetchPut, ExpireHistory, historyVars
    <2> QED
      BY <2>1, <2>2
  <1>5. ASSUME NEW m \in ms, group'[g].state # "dead"
        PROVE  m.g = g /\ (m \in message' \/ m.id <= purged'[m.u])
    <2>1. m.g = g /\ (m \in message \/ m.id <= purged[m.u])
      BY <1>2, <1>5 DEF TrueOf
    <2>2. CASE m \in message
      BY <1>4, <1>5, <2>1, <2>2
    <2>3. CASE m.id <= purged[m.u]
      BY <1>3, <2>1, <2>3
    <2> QED
      BY <2>1, <2>2, <2>3
  <1> QED
    BY <1>5 DEF TrueOf

\* Lists and readers are true together: a reader puts what it has read.
LEMMA TrueStep ==
    ASSUME UpdatesAlone, GroupInv, HistoryTypeOK, HistoryTrue, ReadersTrue,
           [HistoryNext]_<<vars, historyVars>>
    PROVE  HistoryTrue' /\ ReadersTrue'
  <1>0. /\ \A g \in DOMAIN history : g \in Group /\ history[g] \in SUBSET Message
        /\ \A r \in Reader : fetch[r].seen \in SUBSET Message
                           /\ (fetch[r].pc = "put" => fetch[r].g \in Group)
    BY DEF HistoryTypeOK, Fetch
  <1>1. ASSUME NEW g \in DOMAIN history', g \in DOMAIN history, history'[g] = history[g]
        PROVE  TrueOf(g, history[g])'
    BY <1>0, <1>1, TrueOfStays DEF HistoryTrue
  <1>2. ASSUME NEW r \in Reader, fetch'[r].pc = "put", fetch[r].pc = "put",
               fetch'[r].g = fetch[r].g, fetch'[r].seen = fetch[r].seen
        PROVE  TrueOf(fetch[r].g, fetch[r].seen)'
    BY <1>0, <1>2, TrueOfStays DEF ReadersTrue
  <1>3. SUFFICES /\ \A g \in DOMAIN history' :
                      \/ g \in DOMAIN history /\ history'[g] = history[g]
                      \/ TrueOf(g, history[g])'
                 /\ \A r \in Reader : fetch'[r].pc = "put" =>
                      \/ /\ fetch[r].pc = "put" /\ fetch'[r].g = fetch[r].g
                         /\ fetch'[r].seen = fetch[r].seen
                      \/ TrueOf(fetch[r].g, fetch[r].seen)'
    BY <1>1, <1>2 DEF HistoryTrue, ReadersTrue
  <1>4. CASE UNCHANGED <<history, fetch>>
    BY <1>4
  <1>5. ASSUME NEW g \in Group, NEW u \in User, Store(g, u)
        PROVE  \A r \in Reader : /\ fetch'[r].pc = fetch[r].pc /\ fetch'[r].g = fetch[r].g
                                 /\ fetch'[r].seen = fetch[r].seen
    <2>1. CASE fetch' = fetch
      BY <2>1
    <2>2. CASE fetch' = [r \in Reader |-> IF fetch[r].g = g THEN [fetch[r] EXCEPT !.late = TRUE]
                                         ELSE fetch[r]]
      BY <2>2 DEF HistoryTypeOK, Fetch
    <2> QED
      BY <1>5, <2>1, <2>2 DEF Store
  <1>6. CASE ReadMembers \/ GroupStep
    BY <1>4, <1>6 DEF ReadMembers, GroupStep
  <1>7. CASE Invalidate \/ \E g \in Group : ExpireHistory(g)
    BY <1>7 DEF Invalidate, ExpireHistory, Drop
  <1>8. ASSUME NEW r \in Reader, NEW g \in Group, FetchRead(r, g), UNCHANGED vars
        PROVE  /\ history' = history /\ \A q \in Reader \ {r} : fetch'[q] = fetch[q]
               /\ TrueOf(fetch[r].g, fetch[r].seen)'
    <2>1. /\ fetch'[r].g = g /\ fetch'[r].seen = MessagesOf(g)
          /\ UNCHANGED <<history, message>> /\ \A q \in Reader \ {r} : fetch'[q] = fetch[q]
      BY <1>8 DEF FetchRead, HistoryTypeOK
    <2> QED
      BY <2>1 DEF TrueOf, MessagesOf
  <1>9. ASSUME NEW r \in Reader, FetchPut(r)
        PROVE  /\ fetch'[r].pc = "idle" /\ \A q \in Reader \ {r} : fetch'[q] = fetch[q]
               /\ \A g \in DOMAIN history' :
                    \/ g \in DOMAIN history /\ history'[g] = history[g]
                    \/ TrueOf(g, history[g])'
    <2>1. fetch'[r].pc = "idle" /\ \A q \in Reader \ {r} : fetch'[q] = fetch[q]
      BY <1>9 DEF FetchPut, NoFetch, HistoryTypeOK
    <2>2. fetch[r].pc = "put" /\ fetch[r].g \in Group
      BY <1>9 DEF FetchPut, HistoryTypeOK
    <2>3. \A g, ms : g = fetch[r].g /\ ms = fetch[r].seen => TrueOf(g, ms)'
      BY <1>0, <2>2, TrueOfStays DEF ReadersTrue
    <2> QED
      BY <1>9, <2>1, <2>3 DEF FetchPut, Put, HistoryTypeOK
  <1>10. ASSUME NEW g \in Group, NEW u \in User, Store(g, u) PROVE history' = history
    BY <1>10 DEF Store
  <1>11. ASSUME NEW g \in Group, NEW u \in User, StoreCall(g, u)
         PROVE  UNCHANGED <<history, fetch>>
    BY <1>11 DEF StoreCall
  <1> QED
    BY <1>4, <1>5, <1>6, <1>7, <1>8, <1>9, <1>10, <1>11
       DEF HistoryNext, HistoryStep, HubStep, ReaderStep, historyVars

\* Dismissing a group and deleting a user leave group_messagelist_ as it is, and yet the
\* only deleted messages that a list of a group that goes on shows, however late its
\* reader was, are those of a user whose account was deleted, from before that.
THEOREM ListsTrue ==
    ASSUME UpdatesAlone
    PROVE  HistorySpec => []HistoryTrue
  <1>1. HistoryInit => HistoryTrue /\ ReadersTrue
    BY DEF HistoryInit, HistoryTrue, ReadersTrue, NoFetch
  <1>2. HistoryInv => HistoryTypeOK
    BY DEF HistoryInv
  <1>3. /\ GroupInv /\ HistoryTypeOK /\ HistoryTrue /\ ReadersTrue
        /\ [HistoryNext]_<<vars, historyVars>>
        => HistoryTrue' /\ ReadersTrue'
    BY TrueStep
  <1>4. Spec => []GroupInv
    BY GroupInvariance
  <1> QED
    BY <1>1, <1>2, <1>3, <1>4, GroupsBesideMessages, HistoryInvariance, PTL DEF HistorySpec

=============================================================================
