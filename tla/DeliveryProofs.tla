--------------------------- MODULE DeliveryProofs ---------------------------
(***************************************************************************)
(* What Delivery promises, proved for any users, groups, rosters and       *)
(* screens: order per sender, no message twice on the screens of a user,   *)
(* and addressees only.                                                    *)
(*                                                                         *)
(* Ordered is not inductive: that a message may be put at the end of a     *)
(* queue needs that nothing later of its sender has been given out before  *)
(* (Behind), for the messages that wait as for the one being handled.      *)
(***************************************************************************)
EXTENDS Delivery, SequenceTheorems, TLAPS

Accepted == 1..Len(accepted)

Types ==
    /\ accepted \in Seq(Message)
    /\ waiting \subseteq Accepted
    /\ phase \in {"idle", "taken", "addressed"}
    /\ phase # "idle" => current \in Accepted
    /\ left \subseteq User
    /\ owner \in [Screen -> User \cup {NoUser}]
    /\ queue \in [Screen -> Seq(Accepted)]
    /\ shown \in [Screen -> Seq(Accepted)]

\* What a screen has been given is behind what waits and what is handled; the
\* message being handled is on no screen of a user who is still to get it.
Behind ==
    /\ phase # "idle" => \A w \in waiting : InOrder(current, w)
    /\ \A c \in Screen : \A m \in GivenTo(c) :
        /\ \A w \in waiting : InOrder(m, w)
        /\ phase = "taken" => InOrder(m, current)
        /\ phase = "addressed" =>
            InOrder(m, current) \/ (m = current /\ owner[c] \notin left)

\* Only addressees are left to be sent to.
LeftAddressed ==
    phase = "addressed" => left \subseteq Addressees(accepted[current])

DeliveryInv ==
    Types /\ Behind /\ LeftAddressed /\ Ordered /\ Once /\ Directed

\* Ids of users are not the absent one, and groups consist of users.
Sound == NoUser \notin User /\ \A g \in Group : Roster[g] \subseteq User

LEMMA AddresseesAreUsers ==
    ASSUME Sound, NEW msg \in Message
    PROVE  Addressees(msg) \subseteq User
  BY DEF Sound, Addressees, Message

\* Putting a message at the end of a sequence, and taking the first one away.
LEMMA ElemsAppend ==
    ASSUME NEW S, NEW s \in Seq(S), NEW m \in S
    PROVE  Elems(Append(s, m)) = Elems(s) \cup {m}
  <1> DEFINE t == Append(s, m)
  <1>1. /\ DOMAIN t = DOMAIN s \cup {Len(s) + 1}
        /\ \A i \in DOMAIN s : t[i] = s[i]
        /\ t[Len(s) + 1] = m
    OBVIOUS
  <1> HIDE DEF t
  <1> QED
    BY <1>1 DEF Elems

LEMMA ElemsOf ==
    ASSUME NEW S, NEW s \in Seq(S)
    PROVE  Elems(s) \subseteq S
  BY DEF Elems

LEMMA HeadTailElems ==
    ASSUME NEW S, NEW s \in Seq(S), s # <<>>
    PROVE  /\ Head(s) \in S /\ Tail(s) \in Seq(S)
           /\ Elems(s) = {Head(s)} \cup Elems(Tail(s))
  <1> DEFINE t == Tail(s)
  <1>1. /\ Head(s) \in S /\ t \in Seq(S) /\ Len(s) \in Nat \ {0}
        /\ Len(t) = Len(s) - 1 /\ Head(s) = s[1]
        /\ \A i \in 1..Len(t) : t[i] = s[i + 1]
    OBVIOUS
  <1>2. DOMAIN s = 1..Len(s) /\ DOMAIN t = 1..Len(t)
    BY <1>1
  <1> HIDE DEF t
  <1>3. ASSUME NEW x \in Elems(s) PROVE x = Head(s) \/ x \in Elems(t)
    <2>1. PICK i \in 1..Len(s) : x = s[i]
      BY <1>2 DEF Elems
    <2>2. CASE i = 1
      BY <1>1, <2>1, <2>2
    <2>3. CASE i # 1
      <3>1. i - 1 \in 1..Len(t) /\ t[i - 1] = s[(i - 1) + 1]
        BY <1>1, <2>1, <2>3
      <3>2. x = t[i - 1]
        BY <2>1, <3>1
      <3> QED
        BY <1>2, <3>1, <3>2 DEF Elems
    <2> QED
      BY <2>2, <2>3
  <1>4. ASSUME NEW x \in Elems(t) PROVE x \in Elems(s)
    <2>1. PICK i \in 1..Len(t) : x = t[i]
      BY <1>2 DEF Elems
    <2>2. i + 1 \in DOMAIN s /\ x = s[i + 1]
      BY <1>1, <1>2, <2>1
    <2> QED
      BY <2>2 DEF Elems
  <1>5. 1 \in DOMAIN s
    BY <1>1, <1>2
  <1>6. Head(s) \in Elems(s)
    BY <1>1, <1>5 DEF Elems
  <1> QED
    BY <1>1, <1>3, <1>4, <1>6 DEF t

LEMMA AscendingAppend ==
    ASSUME NEW S, NEW s \in Seq(S), NEW m \in S, Ascending(s),
           \A k \in Elems(s) : InOrder(k, m)
    PROVE  Ascending(Append(s, m))
  <1> DEFINE t == Append(s, m)
  <1>1. /\ DOMAIN t = DOMAIN s \cup {Len(s) + 1}
        /\ \A i \in DOMAIN s : t[i] = s[i] /\ i <= Len(s) /\ i \in Nat
        /\ t[Len(s) + 1] = m /\ Len(s) \in Nat
    OBVIOUS
  <1> HIDE DEF t
  <1>2. SUFFICES ASSUME NEW i \in DOMAIN t, NEW j \in DOMAIN t, i < j
                 PROVE  InOrder(t[i], t[j])
    BY DEF Ascending, t
  <1>3. i \in DOMAIN s
    BY <1>1, <1>2
  <1>4. CASE j \in DOMAIN s
    BY <1>1, <1>2, <1>3, <1>4 DEF Ascending
  <1>5. CASE j = Len(s) + 1
    <2>1. s[i] \in Elems(s)
      BY <1>3 DEF Elems
    <2> QED
      BY <1>1, <1>3, <1>5, <2>1
  <1> QED
    BY <1>1, <1>4, <1>5

LEMMA AscendingTail ==
    ASSUME NEW S, NEW s \in Seq(S), s # <<>>, Ascending(s)
    PROVE  /\ Ascending(Tail(s))
           /\ \A k \in Elems(Tail(s)) : InOrder(Head(s), k)
  <1> DEFINE t == Tail(s)
  <1>1. /\ Len(s) \in Nat \ {0} /\ Len(t) = Len(s) - 1 /\ Head(s) = s[1]
        /\ DOMAIN s = 1..Len(s) /\ DOMAIN t = 1..Len(t)
        /\ \A i \in 1..Len(t) : t[i] = s[i + 1]
    OBVIOUS
  <1> HIDE DEF t
  <1>2. \A i \in DOMAIN t : i \in Nat /\ i + 1 \in DOMAIN s /\ 1 < i + 1 /\ t[i] = s[i + 1]
    BY <1>1
  <1>3. Ascending(t)
    BY <1>2 DEF Ascending
  <1>4. 1 \in DOMAIN s
    BY <1>1
  <1>5. ASSUME NEW k \in Elems(t) PROVE InOrder(Head(s), k)
    <2>1. PICK i \in DOMAIN t : k = t[i]
      BY DEF Elems
    <2> QED
      BY <1>1, <1>2, <1>4, <2>1 DEF Ascending
  <1> QED
    BY <1>3, <1>5 DEF t

\* The messages on a screen and in its queue, and that both are sequences.
LEMMA ScreenTypes ==
    ASSUME Types, NEW c \in Screen
    PROVE  /\ shown[c] \in Seq(Accepted) /\ queue[c] \in Seq(Accepted)
           /\ GivenTo(c) \subseteq Accepted
  BY ElemsOf DEF Types, GivenTo

\* What is on no screen yet keeps the invariant when only the screens stay.
LEMMA SameScreens ==
    ASSUME Ordered, Once, Directed, UNCHANGED <<accepted, owner, queue, shown>>
    PROVE  Ordered' /\ Once' /\ Directed'
  BY DEF Ordered, Once, Directed, GivenTo, Ascending, InOrder, From

LEMMA OpenStep ==
    ASSUME Sound, DeliveryInv, NEW c \in Screen, NEW u \in User, Open(c, u)
    PROVE  DeliveryInv'
  <1> USE DEF DeliveryInv
  <1>1. GivenTo(c) = {}
    <2>1. \A m \in GivenTo(c) : accepted[m] \in Message
      BY ScreenTypes DEF Types, Accepted
    <2>2. \A m \in GivenTo(c) : NoUser \in User
      BY <2>1, AddresseesAreUsers DEF Directed, Open
    <2> QED
      BY <2>2 DEF Sound
  <1>2. /\ owner' = [owner EXCEPT ![c] = u]
        /\ UNCHANGED <<accepted, waiting, phase, current, left, stored, queue, shown>>
    BY DEF Open, handling
  <1>3. \A d \in Screen : owner'[d] = IF d = c THEN u ELSE owner[d]
    BY <1>2 DEF Types
  <1>4. \A d \in Screen : GivenTo(d)' = GivenTo(d)
    BY <1>2 DEF GivenTo
  <1>5. Types'
    BY <1>2 DEF Types, Accepted
  <1>6. Behind'
    BY <1>1, <1>2, <1>3, <1>4 DEF Behind, InOrder, From
  <1>7. LeftAddressed'
    BY <1>2 DEF LeftAddressed
  <1>8. Ordered'
    BY <1>2 DEF Ordered, Ascending, InOrder, From, Elems
  <1>9. Once' /\ Directed'
    BY <1>1, <1>2, <1>3, <1>4 DEF Once, Directed
  <1> QED
    BY <1>5, <1>6, <1>7, <1>8, <1>9

\* What has been accepted keeps its place, and its order, when more is accepted.
LEMMA AcceptStep ==
    ASSUME DeliveryInv, NEW msg \in Message, Accept(msg)
    PROVE  DeliveryInv'
  <1> USE DEF DeliveryInv
  <1>0. PICK n \in Nat : n = Len(accepted) + 1
    BY DEF Types
  <1>1. /\ accepted' = Append(accepted, msg) /\ waiting' = waiting \cup {n}
        /\ UNCHANGED <<phase, current, left, stored, owner, queue, shown>>
    BY <1>0 DEF Accept, handling, screens
  <1>2. /\ accepted' \in Seq(Message) /\ Accepted' = Accepted \cup {n}
        /\ \A m \in Accepted : accepted'[m] = accepted[m] /\ m < n
    BY <1>0, <1>1 DEF Types, Accepted
  <1>3. /\ \A m, k \in Accepted : InOrder(m, k) => InOrder(m, k)'
        /\ \A m \in Accepted : InOrder(m, n)'
    BY <1>2 DEF InOrder, From
  <1>4. \A S : Seq(Accepted) \subseteq Seq(Accepted')
    BY <1>2
  <1>5. Types'
    BY <1>1, <1>2, <1>4 DEF Types
  <1>6. \A c \in Screen : GivenTo(c)' = GivenTo(c) /\ GivenTo(c) \subseteq Accepted
    BY <1>1, ScreenTypes DEF GivenTo
  <1>7. Behind'
    BY <1>1, <1>3, <1>6 DEF Behind, Types
  <1>8. LeftAddressed'
    BY <1>1, <1>2 DEF LeftAddressed, Types
  <1>9. Ordered'
    <2>1. ASSUME NEW t \in Seq(Accepted), Ascending(t) PROVE Ascending(t)'
      <3>1. \A i \in DOMAIN t : t[i] \in Accepted
        OBVIOUS
      <3> QED
        BY <1>3, <2>1, <3>1 DEF Ascending
    <2>2. \A c \in Screen :
            /\ shown[c] \in Seq(Accepted) /\ queue[c] \in Seq(Accepted)
            /\ Elems(shown[c]) \subseteq Accepted /\ Elems(queue[c]) \subseteq Accepted
      BY ElemsOf DEF Types
    <2>3. \A c \in Screen : Ascending(shown[c])' /\ Ascending(queue[c])'
      <3> SUFFICES ASSUME NEW c \in Screen
                   PROVE  Ascending(shown[c])' /\ Ascending(queue[c])'
        OBVIOUS
      <3>1. Ascending(shown[c]) /\ Ascending(queue[c])
        BY DEF Ordered
      <3>2. shown'[c] = shown[c] /\ queue'[c] = queue[c]
        BY <1>1
      <3>3. \A i \in DOMAIN shown[c] : shown[c][i] \in Accepted
        BY <2>2
      <3>4. \A i \in DOMAIN queue[c] : queue[c][i] \in Accepted
        BY <2>2
      <3> QED
        BY <1>3, <3>1, <3>2, <3>3, <3>4 DEF Ascending
    <2> QED
      BY <1>1, <1>3, <2>2, <2>3 DEF Ordered
  <1>10. Once' /\ Directed'
    BY <1>1, <1>2, <1>6 DEF Once, Directed
  <1> QED
    BY <1>5, <1>7, <1>8, <1>9, <1>10

\* Taking the oldest message of its sender leaves later ones of his waiting.
LEMMA TakeStep ==
    ASSUME DeliveryInv, NEW m \in waiting, Take(m)
    PROVE  DeliveryInv'
  <1> USE DEF DeliveryInv
  <1>1. /\ phase' = "taken" /\ current' = m /\ waiting' = waiting \ {m} /\ phase = "idle"
        /\ \A w \in waiting : From(w) = From(m) => m <= w
        /\ UNCHANGED <<accepted, left, stored, owner, queue, shown>>
    BY DEF Take, screens
  <1>2. Types'
    BY <1>1 DEF Types, Accepted
  <1>3. \A w \in waiting \ {m} : InOrder(m, w)
    BY <1>1 DEF InOrder, Types, Accepted
  <1>4. Behind'
    BY <1>1, <1>3 DEF Behind, GivenTo, InOrder, From
  <1> QED
    BY <1>1, <1>2, <1>4, SameScreens DEF LeftAddressed

LEMMA PrepareStep ==
    ASSUME Sound, DeliveryInv, Prepare
    PROVE  DeliveryInv'
  <1> USE DEF DeliveryInv
  <1>1. /\ phase = "taken" /\ UNCHANGED <<accepted, waiting, owner, queue, shown>>
        /\ \/ UNCHANGED <<phase, current, left>>
           \/ /\ phase' = "addressed" /\ UNCHANGED current
              /\ left' \in SUBSET Addressees(accepted[current])
           \/ phase' = "idle" /\ current' = 0 /\ UNCHANGED left
    BY DEF Prepare, screens, handling
  <1>2. Addressees(accepted[current]) \subseteq User
    BY <1>1, AddresseesAreUsers DEF Types, Accepted
  <1>3. Types'
    BY <1>1, <1>2 DEF Types, Accepted
  <1>4. Behind'
    BY <1>1 DEF Behind, GivenTo, InOrder, From
  <1>5. LeftAddressed'
    BY <1>1 DEF LeftAddressed
  <1> QED
    BY <1>1, <1>3, <1>4, <1>5, SameScreens

\* The message goes behind everything of its sender, and to a user who has it on
\* no other screen.
LEMMA DeliverStep ==
    ASSUME DeliveryInv, NEW u \in left, NEW c \in Screen, Deliver(u, c)
    PROVE  DeliveryInv'
  <1> USE DEF DeliveryInv
  <1>1. /\ phase = "addressed" /\ owner[c] = u /\ left' = left \ {u}
        /\ queue' = [queue EXCEPT ![c] = Append(@, current)]
        /\ UNCHANGED <<accepted, waiting, phase, current, stored, owner, shown>>
    BY DEF Deliver
  <1>2. /\ current \in Accepted /\ Accepted' = Accepted
        /\ queue[c] \in Seq(Accepted) /\ shown[c] \in Seq(Accepted)
    BY <1>1 DEF Types, Accepted
  <1>3. /\ queue'[c] = Append(queue[c], current)
        /\ \A d \in Screen \ {c} : queue'[d] = queue[d]
    BY <1>1 DEF Types
  <1>4. Types'
    <2>1. Append(queue[c], current) \in Seq(Accepted)
      BY <1>2
    <2> QED
      BY <1>1, <1>2, <2>1 DEF Types
  <1>5. Elems(queue'[c]) = Elems(queue[c]) \cup {current}
    BY <1>2, <1>3, ElemsAppend
  <1>6. /\ GivenTo(c)' = GivenTo(c) \cup {current}
        /\ \A d \in Screen \ {c} : GivenTo(d)' = GivenTo(d)
    BY <1>1, <1>3, <1>5 DEF GivenTo
  <1>7. \A d \in Screen : owner[d] = u =>
          /\ current \notin GivenTo(d)
          /\ \A m \in GivenTo(d) : InOrder(m, current)
    BY <1>1, <1>2 DEF Behind, InOrder, Accepted
  <1>8. Behind'
    BY <1>1, <1>6, <1>7 DEF Behind, InOrder, From
  <1>9. LeftAddressed'
    BY <1>1 DEF LeftAddressed
  <1>10. Ordered'
    <2>1. Ascending(queue'[c])
      BY <1>1, <1>2, <1>3, <1>7, AscendingAppend DEF Ordered, GivenTo
    <2>2. \A d \in Screen :
            /\ Ascending(shown'[d]) /\ Ascending(queue'[d])
            /\ \A m \in Elems(shown'[d]), n \in Elems(queue'[d]) : InOrder(m, n)
      BY <1>1, <1>3, <1>5, <1>7, <2>1 DEF Ordered, GivenTo
    <2> QED
      BY <1>1, <2>2 DEF Ordered, Ascending, InOrder, From
  <1>11. Once'
    BY <1>1, <1>6, <1>7 DEF Once
  <1>12. Directed'
    BY <1>1, <1>6 DEF Directed, LeftAddressed
  <1> QED
    BY <1>4, <1>8, <1>9, <1>10, <1>11, <1>12

\* The steps that touch no screen and take nothing.
LEMMA QuietStep ==
    ASSUME DeliveryInv, Finish \/ Forget \/ \E u \in left : Skip(u)
    PROVE  DeliveryInv'
  <1> USE DEF DeliveryInv
  <1>1. /\ UNCHANGED <<accepted, owner, queue, shown>>
        /\ waiting' \subseteq waiting /\ left' \subseteq left
        /\ phase' = "idle" \/ (phase' = phase /\ current' = current)
    BY DEF Finish, Forget, Skip, screens, handling
  <1>2. Types'
    BY <1>1 DEF Types, Accepted
  <1>3. Behind'
    BY <1>1 DEF Behind, GivenTo, InOrder, From
  <1>4. LeftAddressed'
    BY <1>1 DEF LeftAddressed
  <1> QED
    BY <1>1, <1>2, <1>3, <1>4, SameScreens

\* Screens that keep what they have been given, or lose some of it.
LEMMA Given ==
    ASSUME DeliveryInv, Types', Ordered', UNCHANGED <<accepted, waiting, owner>>,
           \A d \in Screen : GivenTo(d)' \subseteq GivenTo(d),
           phase' = "idle" \/ UNCHANGED <<phase, current, left>>
    PROVE  DeliveryInv'
  <1>1. Behind'
    BY DEF DeliveryInv, Behind, InOrder, From
  <1>2. LeftAddressed' /\ Once' /\ Directed'
    BY DEF DeliveryInv, LeftAddressed, Once, Directed
  <1> QED
    BY <1>1, <1>2 DEF DeliveryInv

LEMMA ShowStep ==
    ASSUME DeliveryInv, NEW c \in Screen, Show(c)
    PROVE  DeliveryInv'
  <1> USE DEF DeliveryInv
  <1> DEFINE m == Head(queue[c])
  <1>1. /\ queue[c] # <<>> /\ UNCHANGED <<accepted, waiting, phase, current, left, owner>>
        /\ shown' = [shown EXCEPT ![c] = Append(@, m)]
        /\ queue' = [queue EXCEPT ![c] = Tail(@)]
    BY DEF Show, handling
  <1>2. /\ queue[c] \in Seq(Accepted) /\ shown[c] \in Seq(Accepted) /\ Accepted' = Accepted
    BY <1>1 DEF Types, Accepted
  <1>3. /\ m \in Accepted /\ Tail(queue[c]) \in Seq(Accepted)
        /\ Elems(queue[c]) = {m} \cup Elems(Tail(queue[c]))
    BY <1>1, <1>2, HeadTailElems
  <1>4. Elems(Append(shown[c], m)) = Elems(shown[c]) \cup {m}
    BY <1>2, <1>3, ElemsAppend
  <1>5. /\ Ascending(Tail(queue[c])) /\ \A k \in Elems(Tail(queue[c])) : InOrder(m, k)
    BY <1>1, <1>2, AscendingTail DEF Ordered
  <1>6. Ascending(Append(shown[c], m))
    BY <1>2, <1>3, AscendingAppend DEF Ordered
  <1>7. Append(shown[c], m) \in Seq(Accepted)
    BY <1>2, <1>3
  <1> HIDE DEF m
  <1>8. /\ queue'[c] = Tail(queue[c]) /\ shown'[c] = Append(shown[c], m)
        /\ \A d \in Screen \ {c} : queue'[d] = queue[d] /\ shown'[d] = shown[d]
    BY <1>1 DEF Types
  <1>9. Types'
    BY <1>1, <1>2, <1>3, <1>7 DEF Types
  <1>10. Ordered'
    <2>1. \A d \in Screen :
            /\ Ascending(shown'[d]) /\ Ascending(queue'[d])
            /\ \A k \in Elems(shown'[d]), n \in Elems(queue'[d]) : InOrder(k, n)
      BY <1>3, <1>4, <1>5, <1>6, <1>8 DEF Ordered
    <2>2. accepted' = accepted
      BY <1>1
    <2> QED
      BY <2>1, <2>2 DEF Ordered, Ascending, InOrder, From
  <1>11. \A d \in Screen : GivenTo(d)' \subseteq GivenTo(d)
    BY <1>3, <1>4, <1>8 DEF GivenTo
  <1> QED
    BY <1>1, <1>9, <1>10, <1>11, Given

LEMMA LoseStep ==
    ASSUME DeliveryInv, NEW c \in Screen, Lose(c)
    PROVE  DeliveryInv'
  <1> USE DEF DeliveryInv
  <1>1. /\ queue[c] # <<>> /\ queue' = [queue EXCEPT ![c] = Tail(@)]
        /\ UNCHANGED <<accepted, waiting, phase, current, left, owner, shown>>
    BY DEF Lose, handling
  <1>2. queue[c] \in Seq(Accepted) /\ Accepted' = Accepted
    BY <1>1 DEF Types, Accepted
  <1>3. /\ Tail(queue[c]) \in Seq(Accepted) /\ Ascending(Tail(queue[c]))
        /\ Elems(Tail(queue[c])) \subseteq Elems(queue[c])
    BY <1>1, <1>2, HeadTailElems, AscendingTail DEF Ordered
  <1>4. /\ queue'[c] = Tail(queue[c])
        /\ \A d \in Screen \ {c} : queue'[d] = queue[d]
    BY <1>1 DEF Types
  <1>5. Types'
    BY <1>1, <1>2, <1>3 DEF Types
  <1>6. Ordered'
    <2>1. \A d \in Screen :
            /\ Ascending(shown'[d]) /\ Ascending(queue'[d])
            /\ \A k \in Elems(shown'[d]), n \in Elems(queue'[d]) : InOrder(k, n)
      BY <1>1, <1>3, <1>4 DEF Ordered
    <2>2. accepted' = accepted
      BY <1>1
    <2> QED
      BY <2>1, <2>2 DEF Ordered, Ascending, InOrder, From
  <1>7. \A d \in Screen : GivenTo(d)' \subseteq GivenTo(d)
    BY <1>1, <1>3, <1>4 DEF GivenTo
  <1> QED
    BY <1>1, <1>5, <1>6, <1>7, Given

LEMMA StopStep ==
    ASSUME DeliveryInv, Stop
    PROVE  DeliveryInv'
  <1> USE DEF DeliveryInv
  <1>1. /\ phase' = "idle" /\ left' = {} /\ queue' = [c \in Screen |-> <<>>]
        /\ UNCHANGED <<accepted, waiting, owner, shown>>
    BY DEF Stop
  <1>2. Types'
    BY <1>1 DEF Types, Accepted
  <1>3. Elems(<<>>) = {} /\ DOMAIN <<>> = {}
    BY DEF Elems
  <1>4. Ordered'
    BY <1>1, <1>3 DEF Ordered, Ascending, InOrder, From
  <1>5. \A d \in Screen : GivenTo(d)' \subseteq GivenTo(d)
    BY <1>1, <1>3 DEF GivenTo
  <1> QED
    BY <1>1, <1>2, <1>4, <1>5, Given

LEMMA InitHolds == Init => DeliveryInv
  <1> SUFFICES ASSUME Init PROVE DeliveryInv
    OBVIOUS
  <1>1. Types
    BY DEF Init, Types, Accepted
  <1>2. Elems(<<>>) = {} /\ DOMAIN <<>> = {}
    BY DEF Elems
  <1>3. \A c \in Screen : GivenTo(c) = {}
    BY <1>2 DEF Init, GivenTo
  <1>4. Behind /\ LeftAddressed /\ Once /\ Directed
    BY <1>3 DEF Init, Behind, LeftAddressed, Once, Directed
  <1>5. Ordered
    BY <1>2 DEF Init, Ordered, Ascending
  <1> QED
    BY <1>1, <1>4, <1>5 DEF DeliveryInv

LEMMA StepHolds == Sound /\ DeliveryInv /\ [Next]_vars => DeliveryInv'
  <1> SUFFICES ASSUME Sound, DeliveryInv, [Next]_vars PROVE DeliveryInv'
    OBVIOUS
  <1>1. CASE UNCHANGED vars
    <2>1. UNCHANGED <<accepted, waiting, phase, current, left, owner, queue, shown>>
      BY <1>1 DEF vars
    <2>2. Types' /\ Ordered'
      BY <2>1, SameScreens DEF DeliveryInv, Types, Accepted
    <2>3. \A d \in Screen : GivenTo(d)' \subseteq GivenTo(d)
      BY <2>1 DEF GivenTo
    <2> QED
      BY <2>1, <2>2, <2>3, Given
  <1>2. CASE Next
    BY <1>2, OpenStep, AcceptStep, TakeStep, PrepareStep, DeliverStep, QuietStep, ShowStep,
       LoseStep, StopStep DEF Next
  <1> QED
    BY <1>1, <1>2

LEMMA Holds ==
    ASSUME Sound
    PROVE  Spec => []DeliveryInv
  <1>1. DeliveryInv /\ [Next]_vars => DeliveryInv'
    BY StepHolds
  <1> QED
    BY <1>1, InitHolds, PTL DEF Spec

\* Each sender's messages reach a screen in the order of their acceptance, a
\* message reaches at most one screen of a user, and only those of its addressees.
THEOREM Delivered ==
    ASSUME Sound
    PROVE  Spec => [](Ordered /\ Once /\ Directed)
  <1>1. DeliveryInv => Ordered /\ Once /\ Directed
    BY DEF DeliveryInv
  <1> QED
    BY <1>1, Holds, PTL

=============================================================================
