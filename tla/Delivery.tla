------------------------------ MODULE Delivery ------------------------------
(***************************************************************************)
(* What the chat hub promises about messages, without goroutines, locks,   *)
(* partitions or a registry: messages are accepted, handled one at a time  *)
(* and oldest first for each sender, put into the queue of at most one     *)
(* screen of each addressee, and shown from there.  The hub may lose: a    *)
(* message nobody handled yet when the topic is recreated, what is queued  *)
(* when a screen fails, everything under way when the process ends.  It    *)
(* may not repeat, reorder or misdirect.  ChatHub implements this module   *)
(* (HubDelivery); DeliveryProofs derives the order from it.                *)
(***************************************************************************)
EXTENDS Naturals, Sequences

CONSTANTS User, Group,
          Screen,        \* where messages are shown: the connections
          Roster,        \* Roster[g]: the members of group g
          Kinds,         \* the kinds of messages
          NoUser         \* the user of a screen nobody opened

VARIABLES accepted,      \* the messages, by order of acceptance; an index names one
          waiting,       \* accepted, not handled and not forgotten
          phase,         \* of the message being handled: "idle", "taken", "addressed"
          current,       \* that message, 0 when idle
          left,          \* the users it has still to be sent to
          stored,        \* the messages with a row in the table
          owner,         \* whose screen it is
          queue, shown   \* of each screen, oldest first

vars == <<accepted, waiting, phase, current, left, stored, owner, queue, shown>>

Message == [from: User, to: User \cup Group, kind: Kinds]
From(m) == accepted[m].from
Elems(s) == {s[i] : i \in DOMAIN s}

\* Whom a message is for: a call only for the one called, a text or a file
\* also for its sender, or for the members of the group.
Addressees(msg) ==
    IF msg.kind \in {"Call", "Signal"} THEN {msg.to} \cap User
    ELSE IF msg.to \in Group THEN Roster[msg.to]
    ELSE {msg.from, msg.to}

Init ==
    /\ accepted = <<>> /\ waiting = {} /\ stored = {}
    /\ phase = "idle" /\ current = 0 /\ left = {}
    /\ owner = [c \in Screen |-> NoUser]
    /\ queue = [c \in Screen |-> <<>>]
    /\ shown = [c \in Screen |-> <<>>]

handling == <<phase, current, left>>
screens == <<owner, queue, shown>>

\* A user opens a screen.
Open(c, u) ==
    /\ owner[c] = NoUser
    /\ owner' = [owner EXCEPT ![c] = u]
    /\ UNCHANGED <<accepted, waiting, handling, stored, queue, shown>>

Accept(msg) ==
    /\ accepted' = Append(accepted, msg)
    /\ waiting' = waiting \cup {Len(accepted) + 1}
    /\ UNCHANGED <<handling, stored, screens>>

\* Messages of one sender are handled in the order in which they were accepted.
Take(m) ==
    /\ phase = "idle" /\ m \in waiting
    /\ \A w \in waiting : From(w) = From(m) => m <= w
    /\ phase' = "taken" /\ current' = m
    /\ waiting' = waiting \ {m}
    /\ UNCHANGED <<accepted, left, stored, screens>>

\* The message is stored, unless that fails, and then addressed or let go.
Prepare ==
    /\ phase = "taken"
    /\ stored' \in {stored, stored \cup {current}}
    /\ \/ UNCHANGED handling
       \/ /\ phase' = "addressed" /\ UNCHANGED current
          /\ left' \in SUBSET Addressees(accepted[current])
       \/ phase' = "idle" /\ current' = 0 /\ UNCHANGED left
    /\ UNCHANGED <<accepted, waiting, screens>>

\* To one screen of an addressee ...
Deliver(u, c) ==
    /\ phase = "addressed" /\ u \in left /\ owner[c] = u
    /\ queue' = [queue EXCEPT ![c] = Append(@, current)]
    /\ left' = left \ {u}
    /\ UNCHANGED <<accepted, waiting, phase, current, stored, owner, shown>>

\* ... or to none, if he is not there.
Skip(u) ==
    /\ phase = "addressed" /\ u \in left
    /\ left' = left \ {u}
    /\ UNCHANGED <<accepted, waiting, phase, current, stored, screens>>

Finish ==
    /\ phase = "addressed" /\ left = {}
    /\ phase' = "idle" /\ current' = 0
    /\ UNCHANGED <<accepted, waiting, left, stored, screens>>

Show(c) ==
    /\ queue[c] # <<>>
    /\ shown' = [shown EXCEPT ![c] = Append(@, Head(queue[c]))]
    /\ queue' = [queue EXCEPT ![c] = Tail(@)]
    /\ UNCHANGED <<accepted, waiting, handling, stored, owner>>

\* A screen fails while it shows a message.
Lose(c) ==
    /\ queue[c] # <<>>
    /\ queue' = [queue EXCEPT ![c] = Tail(@)]
    /\ UNCHANGED <<accepted, waiting, handling, stored, owner, shown>>

\* The process ends: what waits stays, what was under way is gone.
Stop ==
    /\ phase' = "idle" /\ current' = 0 /\ left' = {}
    /\ queue' = [c \in Screen |-> <<>>]
    /\ UNCHANGED <<accepted, waiting, stored, owner, shown>>

\* The topic is recreated, or first read from its end.
Forget ==
    /\ phase = "idle"
    /\ waiting' = {}
    /\ UNCHANGED <<accepted, handling, stored, screens>>

Next ==
    \/ \E c \in Screen, u \in User : Open(c, u)
    \/ \E msg \in Message : Accept(msg)
    \/ \E m \in waiting : Take(m)
    \/ Prepare
    \/ \E u \in left : Skip(u) \/ \E c \in Screen : Deliver(u, c)
    \/ Finish
    \/ \E c \in Screen : Show(c) \/ Lose(c)
    \/ Stop
    \/ Forget

Spec == Init /\ [][Next]_vars

-----------------------------------------------------------------------------
(* What follows from it (DeliveryProofs)                                   *)

GivenTo(c) == Elems(shown[c]) \cup Elems(queue[c])

\* m is an earlier message than n of the same sender, or of another one.
InOrder(m, n) == From(m) = From(n) => m < n

Ascending(s) == \A i, j \in DOMAIN s : i < j => InOrder(s[i], s[j])

\* A screen gets each sender's messages in the order of their acceptance, and
\* none twice: what it has shown, then what it is about to show.
Ordered ==
    \A c \in Screen :
        /\ Ascending(shown[c]) /\ Ascending(queue[c])
        /\ \A m \in Elems(shown[c]), n \in Elems(queue[c]) : InOrder(m, n)

\* Two screens of a user do not get the same message.
Once ==
    \A c, d \in Screen : c # d /\ owner[c] = owner[d] =>
        GivenTo(c) \cap GivenTo(d) = {}

\* A screen gets only what is addressed to the user who opened it.
Directed ==
    \A c \in Screen : \A m \in GivenTo(c) : owner[c] \in Addressees(accepted[m])

=============================================================================
