------------------------------ MODULE Friendship ------------------------------
(***************************************************************************)
(* What the requests about contacts promise to users who make them one at  *)
(* a time, without tables, soft deletion, rows read before they are saved, *)
(* or redis: two users have at most one relation, one application in each  *)
(* direction and one session in each direction, and a request of a user    *)
(* changes his own in one step or not at all.  Contacts implements this    *)
(* module (ContactFriendship).                                             *)
(***************************************************************************)
CONSTANTS User, NoUser

VARIABLES standing, \* what an account is: normal, disabled or gone
          tie,      \* what b is to a: nothing, or one status
          asked,    \* the state of a's application to b, if there is one
          chat,     \* with whom a has a session
          served    \* the request being served, if there is one

kept == <<standing, tie, asked, chat>>
vars == <<kept, served>>

Nothing == [a \in User |-> [b \in User |-> {}]]
One(f, a, b, s) == [f EXCEPT ![a][b] = s]
Both(f, a, b, s, t) == [f EXCEPT ![a][b] = s, ![b][a] = t]
\* What is left of f or of the sessions when u goes.
Without(f, u) == [a \in User |-> [b \in User |-> IF u \in {a, b} THEN {} ELSE f[a][b]]]
Alone(u) == [a \in User |-> IF a = u THEN {} ELSE chat[a] \ {u}]
Apart(a, b) == [chat EXCEPT ![a] = @ \ {b}, ![b] = @ \ {a}]

\* Strangers, of whom two may be contacts by an application.
Init ==
    /\ standing = [u \in User |-> "NORMAL"]
    /\ chat = [u \in User |-> {}] /\ served = {}
    /\ \/ tie = Nothing /\ asked = Nothing
       \/ \E a, b \in User :
            /\ a # b
            /\ tie = Both(Nothing, a, b, {"NORMAL"}, {"NORMAL"})
            /\ asked = Both(Nothing, a, b, {}, {"AGREE"})

-----------------------------------------------------------------------------
(* Applications                                                              *)

\* Unless b has put a's application on the black list, it is made, or made again.
Ask(a, b) ==
    /\ standing[b] = "NORMAL" /\ asked[a][b] # {"BLACK"}
    /\ asked' = One(asked, a, b, {"PENDING"})
    /\ UNCHANGED <<standing, tie, chat>>

\* a agrees, even to what he refused before.
Agree(a, b) ==
    /\ standing[b] = "NORMAL" /\ asked[b][a] # {} /\ tie[a][b] = {} /\ tie[b][a] = {}
    /\ tie' = Both(tie, a, b, {"NORMAL"}, {"NORMAL"})
    /\ asked' = One(asked, b, a, {"AGREE"})
    /\ UNCHANGED <<standing, chat>>

Refuse(a, b) ==
    /\ asked[b][a] = {"PENDING"} /\ asked' = One(asked, b, a, {"REFUSE"})
    /\ UNCHANGED <<standing, tie, chat>>

BlackList(a, b) ==
    /\ asked[b][a] # {} /\ asked' = One(asked, b, a, {"BLACK"})
    /\ UNCHANGED <<standing, tie, chat>>

-----------------------------------------------------------------------------
(* Relations and sessions                                                    *)

\* Everything between the two ends.
Part(a, b) ==
    /\ tie' = Both(tie, a, b, {}, {}) /\ asked' = Both(asked, a, b, {}, {})
    /\ chat' = Apart(a, b)
    /\ UNCHANGED standing

\* a blocks b, who may have blocked him first.
Block(a, b) ==
    /\ tie' = IF tie[a][b] = {} THEN tie ELSE Both(tie, a, b, {"BLACK"}, {"BE_BLACK"})
    /\ chat' = Apart(a, b)
    /\ UNCHANGED <<standing, asked>>

\* Only by the one who blocks.
Unblock(a, b) ==
    /\ tie[a][b] = {"BLACK"} /\ tie[b][a] = {"BE_BLACK"}
    /\ tie' = Both(tie, a, b, {"NORMAL"}, {"NORMAL"})
    /\ UNCHANGED <<standing, asked, chat>>

\* Nothing is asked of the relation: it may have been seen long ago.
Open(a, b) ==
    /\ standing[a] = "NORMAL" /\ standing[b] = "NORMAL" /\ b \notin chat[a]
    /\ chat' = [chat EXCEPT ![a] = @ \cup {b}]
    /\ UNCHANGED <<standing, tie, asked>>

Close(a, b) ==
    /\ chat' = [chat EXCEPT ![a] = @ \ {b}]
    /\ UNCHANGED <<standing, tie, asked>>

-----------------------------------------------------------------------------
(* Accounts                                                                  *)

Enable(u) ==
    /\ standing' = [standing EXCEPT ![u] = "NORMAL"]
    /\ UNCHANGED <<tie, asked, chat>>

Disable(u) ==
    /\ standing' = [standing EXCEPT ![u] = "DISABLE"]
    /\ chat' = Alone(u)
    /\ UNCHANGED <<tie, asked>>

\* An account takes with it all that others had to do with it.
Delete(u) ==
    /\ standing' = [standing EXCEPT ![u] = "deleted"]
    /\ tie' = Without(tie, u) /\ asked' = Without(asked, u) /\ chat' = Alone(u)

\* An account comes back without any of that.
Revive(u) ==
    /\ served = {} /\ standing[u] = "deleted"
    /\ standing' = [standing EXCEPT ![u] = "NORMAL"]
    /\ UNCHANGED <<tie, asked, chat, served>>

-----------------------------------------------------------------------------
(* Requests                                                                  *)

AboutTwo == {"apply", "pass", "refuse", "blackApply", "delete", "black", "cancel",
             "chat", "deleteSession"}
AboutOne == {"friends", "resume", "able", "disable", "deleteUser"}

Begin(op, a, b) ==
    /\ served = {} /\ standing[a] # "deleted"
    /\ served' = {[op |-> op, by |-> a, other |-> b, done |-> FALSE]}
    /\ UNCHANGED kept

\* What a request does, to the user it was made about.
Does(op, a, b) ==
    \/ op = "apply" /\ Ask(a, b)
    \/ op = "pass" /\ Agree(a, b)
    \/ op = "refuse" /\ Refuse(a, b)
    \/ op = "blackApply" /\ BlackList(a, b)
    \/ op = "delete" /\ Part(a, b)
    \/ op = "black" /\ Block(a, b)
    \/ op = "cancel" /\ Unblock(a, b)
    \/ op = "chat" /\ Open(a, b)
    \/ op = "resume" /\ \E c \in User \ {a} : Open(a, c)
    \/ op = "deleteSession" /\ Close(a, b)
    \/ op = "able" /\ Enable(a)
    \/ op = "disable" /\ Disable(a)
    \/ op = "deleteUser" /\ Delete(a)
    \/ op \in {"friends", "chat", "resume"} /\ UNCHANGED kept

\* Once, if at all ...
Effect(r) ==
    /\ ~r.done /\ served' = {[r EXCEPT !.done = TRUE]}
    /\ Does(r.op, r.by, r.other)

\* ... before the answer.
End ==
    /\ served # {} /\ served' = {}
    /\ UNCHANGED kept

Next ==
    \/ \E a \in User : \/ \E op \in AboutTwo, b \in User \ {a} : Begin(op, a, b)
                       \/ \E op \in AboutOne : Begin(op, a, NoUser)
    \/ \E r \in served : Effect(r)
    \/ End
    \/ \E u \in User : Revive(u)

Spec == Init /\ [][Next]_vars

=============================================================================
