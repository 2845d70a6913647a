---------------------------- MODULE GroupHistory ----------------------------
(***************************************************************************)
(* The messages of groups: the consumer of the hub (server.go), which      *)
(* stores them, reads who is a member and drops the cached list, but for a *)
(* call stores and does nothing else; and GetGroupMessageList of           *)
(* message_service.go, which fills the list.  Composed with                *)
(* GroupMembership, whose requests change the members meanwhile and delete *)
(* messages, but never drop the key group_messagelist_.                    *)
(***************************************************************************)
EXTENDS GroupMembership

CONSTANTS Reader,   \* requests of GetGroupMessageList at the same time
          MaxMsg    \* bound: messages to groups that the consumer takes

VARIABLES message,  \* table message: the rows that are there, of messages to groups
          history,  \* redis group_messagelist_: the messages it lists
          hub,      \* the consumer
          fetch,    \* the requests of GetGroupMessageList
          taken,    \* messages taken from the topic so far
          purged,   \* of each user, taken when the messages of his were last deleted
          stale     \* groups whose key was written by who had read before the
                    \* last message, or should have been dropped and was not

historyVars == <<message, history, hub, fetch, taken, purged, stale>>

Sent(id, g, u, call) == [id |-> id, g |-> g, u |-> u, call |-> call]

\* was and always: who was a member at some time, and all the time, since message m
\* was stored and until the members were read.
Consumer(pc, m, to, was, always) ==
  [pc |-> pc, m |-> m, to |-> to, was |-> was, always |-> always]
Waiting == Consumer("idle", Sent(0, NoGroup, NoUser, FALSE), {}, {}, {})
NoFetch == [pc |-> "idle", g |-> NoGroup, seen |-> {}, late |-> FALSE]

HistoryInit ==
  /\ Init
  /\ message = {} /\ history = << >>
  /\ hub = Waiting /\ fetch = [r \in Reader |-> NoFetch]
  /\ taken = 0 /\ purged = [u \in User |-> 0] /\ stale = {}

MessagesOf(g) == {m \in message : m.g = g}
\* Text and files.
Written(g) == {m \in MessagesOf(g) : ~m.call}

-----------------------------------------------------------------------------
(* The consumer                                                              *)

\* Text or a file.  The group and its sender are those of when the message was sent:
\* both may be gone.  An error of the INSERT is logged.
Store(g, u) ==
  /\ hub.pc = "idle" /\ taken < MaxMsg /\ Known(g)
  /\ taken' = taken + 1
  /\ hub' = Consumer("stored", Sent(taken', g, u, FALSE), {}, member[g], member[g])
  /\ \/ /\ message' = message \cup {hub'.m}
        /\ fetch' = [r \in Reader |-> IF fetch[r].g = g THEN [fetch[r] EXCEPT !.late = TRUE]
                                      ELSE fetch[r]]
     \/ UNCHANGED <<message, fetch>>
  /\ UNCHANGED <<history, purged, stale>>

\* A call, to whoever it is: its start and its answers are stored, other signals are
\* not, and of a call to a group that is all: nobody gets it, the key stays.
StoreCall(g, u) ==
  /\ hub.pc = "idle" /\ taken < MaxMsg /\ Known(g)
  /\ taken' = taken + 1
  /\ message' \in {message, message \cup {Sent(taken', g, u, TRUE)}}
  /\ UNCHANGED <<history, hub, fetch, purged, stale>>

\* Mutant: the members are taken from group_memberlist_.
ReadCachedMembers ==
  /\ hub.pc = "stored"
  /\ hub' = Consumer("push", hub.m,
       IF hub.m.g \in DOMAIN list THEN list[hub.m.g] ELSE member[hub.m.g], hub.was, hub.always)
  /\ UNCHANGED <<message, history, fetch, taken, purged, stale>>
\* Read before the mutex is taken; after an error there are none.
ReadMembers ==
  /\ hub.pc = "stored"
  /\ \E to \in {member[hub.m.g], {}} :
       hub' = Consumer("push", hub.m, to, hub.was, hub.always)
  /\ UNCHANGED <<message, history, fetch, taken, purged, stale>>

\* Mutant: the readers' list is left to time out.
InvalidateNothing ==
  /\ hub.pc = "push" /\ hub' = Waiting
  /\ UNCHANGED <<message, history, fetch, taken, purged, stale>>
\* The members that are online get the message, then the key is dropped; an
\* error of redis is logged.
Invalidate ==
  /\ hub.pc = "push" /\ hub' = Waiting
  /\ \/ history' = Drop(history, {hub.m.g}) /\ stale' = stale \ {hub.m.g}
     \/ UNCHANGED history /\ stale' = stale \cup {hub.m.g}
  /\ UNCHANGED <<message, fetch, taken, purged>>

-----------------------------------------------------------------------------
(* GetGroupMessageList, on a miss or an error of redis; a hit changes nothing *)

FetchRead(r, g) ==
  /\ fetch[r].pc = "idle" /\ Known(g)
  /\ fetch' = [fetch EXCEPT ![r] = [pc |-> "put", g |-> g, seen |-> MessagesOf(g), late |-> FALSE]]
  /\ UNCHANGED <<message, history, hub, taken, purged, stale>>

FetchPut(r) ==
  LET g == fetch[r].g IN
  /\ fetch[r].pc = "put"
  /\ fetch' = [fetch EXCEPT ![r] = NoFetch]
  /\ \/ /\ history' = Put(history, g, fetch[r].seen)
        /\ stale' = IF fetch[r].late THEN stale \cup {g} ELSE stale \ {g}
     \/ UNCHANGED <<history, stale>>
  /\ UNCHANGED <<message, hub, taken, purged>>

ExpireHistory(g) ==
  /\ g \in DOMAIN history
  /\ history' = Drop(history, {g}) /\ stale' = stale \ {g}
  /\ UNCHANGED <<message, hub, fetch, taken, purged>>

HubStep ==
  \/ \E g \in Group, u \in User : Store(g, u) \/ StoreCall(g, u)
  \/ ReadMembers \/ Invalidate
ReaderStep == \E r \in Reader : FetchPut(r) \/ \E g \in Group : FetchRead(r, g)
HistoryStep == HubStep \/ ReaderStep \/ \E g \in Group : ExpireHistory(g)

-----------------------------------------------------------------------------
(* A step of a request about groups, and the messages it deletes: those of    *)
(* the groups an owner dismisses or loses with his account, and his own.      *)
(* DeleteGroupsByAdmin keeps them.                                            *)

\* Mutant: the messages of all the groups he was in.
DeletedByMember(p) ==
  {m \in message : \/ tx[p].op = "dismiss" /\ m.g = tx[p].g
                   \/ tx[p].op = "deleteUser" /\ (m.g \in tx[p].joined \cup tx[p].owned \/ m.u = tx[p].u)}
DeletedBy(p) ==
  {m \in message : \/ tx[p].op = "dismiss" /\ m.g = tx[p].g
                   \/ tx[p].op = "deleteUser" /\ (m.g \in tx[p].owned \/ m.u = tx[p].u)}
Commits(p) == tx[p].pc \in {"lock", "commit"} /\ tx'[p].pc = "redis"
Purges(p, u) == Commits(p) /\ tx[p].op = "deleteUser" /\ tx[p].u = u

GroupStep ==
  /\ Next
  /\ message' = message \ UNION {DeletedBy(p) : p \in {p \in Proc : Commits(p)}}
  /\ hub' = IF hub.pc = "stored"
            THEN Consumer("stored", hub.m, {}, hub.was \cup member'[hub.m.g],
                          hub.always \cap member'[hub.m.g])
            ELSE hub
  /\ purged' = [u \in User |-> IF \E p \in Proc : Purges(p, u) THEN taken ELSE purged[u]]
  /\ UNCHANGED <<history, fetch, taken, stale>>

HistoryNext == GroupStep \/ (HistoryStep /\ UNCHANGED vars)

HistorySpec == HistoryInit /\ [][HistoryNext]_<<vars, historyVars>>

-----------------------------------------------------------------------------
(* Properties                                                                *)

Message == [id: 1..taken, g: Group, u: User, call: BOOLEAN]
Fetch == [pc: {"idle", "put"}, g: Group \cup {NoGroup}, seen: SUBSET Message, late: BOOLEAN]

HistoryTypeOK ==
  /\ message \subseteq Message
  /\ DOMAIN history \subseteq Group /\ \A g \in DOMAIN history : history[g] \subseteq Message
  /\ hub.pc \in {"idle", "stored", "push"}
  /\ hub.pc # "idle" => hub.m \in Message
  /\ fetch \in [Reader -> Fetch]
  /\ \A r \in Reader : fetch[r].pc = "put" => fetch[r].g \in Group
  /\ taken \in Nat /\ stale \subseteq Group
  /\ purged \in [User -> 0..taken]

\* The message to g the consumer is at.
InHand(g) == IF hub.pc # "idle" /\ hub.m.g = g THEN {hub.m} ELSE {}

\* A cached list has every text and every file of the group the consumer is done
\* with, unless a reader that had read before the last of them wrote it afterwards,
\* or the key could not be dropped.  Calls are another matter: storing one leaves
\* the key, so that any list cached before it misses it until it times out.
HistoryComplete ==
  \A g \in DOMAIN history \ stale : Written(g) \ InHand(g) \subseteq history[g]

\* A list of messages of g has no others than of g, and those among them that are gone
\* were taken before the account of their sender was last deleted, or g itself is gone.
TrueOf(g, ms) == group[g].state # "dead" =>
  \A m \in ms : m.g = g /\ (m \in message \/ m.id <= purged[m.u])

\* No request about groups drops group_messagelist_. Nevertheless the only deleted
\* messages that a cached list of a group that is not gone shows, however late its
\* reader was, are those of somebody whose account was deleted, from before that.
\* They stay in the list when he registers again.
HistoryTrue == \A g \in DOMAIN history : TrueOf(g, history[g])

\* A message goes to nobody who left the group before it was stored, and to
\* everyone who was a member throughout, or the members could not be read.
FanOut ==
  hub.pc = "push" => hub.to \subseteq hub.was /\ (hub.to = {} \/ hub.always \subseteq hub.to)

\* A reader whose list misses a text or a file is known to be late.
ReadersComplete ==
  \A r \in Reader : fetch[r].pc = "put" /\ ~fetch[r].late =>
    Written(fetch[r].g) \subseteq fetch[r].seen

\* What a reader is about to put is as true.
ReadersTrue == \A r \in Reader : fetch[r].pc = "put" => TrueOf(fetch[r].g, fetch[r].seen)

\* Between the two steps of the consumer, was and always bound the members.
MembersBounded ==
  hub.pc = "stored" => hub.always \subseteq member[hub.m.g] /\ member[hub.m.g] \subseteq hub.was

\* The inductive invariant.
HistoryInv ==
  HistoryTypeOK /\ HistoryComplete /\ FanOut /\ ReadersComplete /\ MembersBounded
=============================================================================
