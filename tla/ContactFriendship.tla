-------------------------- MODULE ContactFriendship --------------------------
(***************************************************************************)
(* Contacts implements Friendship as long as requests come one at a time,  *)
(* none is cut short and no relation is overlooked because the query for   *)
(* it failed (clean): the live rows of the tables are the relations,       *)
(* applications and sessions.                                              *)
(***************************************************************************)
EXTENDS Contacts

\* The states of the live rows of a table, for each two users.
StatesOf(table, a, b) == {table[i].status : i \in LiveRows(table, a, b)}
States(table) == [a \in User |-> [b \in User |-> StatesOf(table, a, b)]]

\* A request to open a session of a list comes to the one it is with; a request is
\* done at its commit, or when it has found what it was to find.
Seen(t) ==
  [op |-> t.op, by |-> t.a, other |-> IF t.op = "resume" THEN NoUser ELSE t.b,
   done |-> t.pc \in {"redis", "opened"}]
Served == {Seen(tx[p]) : p \in {q \in Proc : tx[q].pc # "idle"}}

Social == INSTANCE Friendship WITH
    standing <- status, tie <- States(contact), asked <- States(apply),
    chat <- [u \in User |-> ReceiversOf(u)], served <- Served

\* In a clean history, whatever is read before the commit, found in redis, rolled back
\* or left as a deleted row, and whoever comes back: each request of a user makes its change to him and
\* the other, once, with the checks of the code true at that instant, or none.
ImplementsFriendship ==
    Social!Init /\ [][clean' => Social!Next]_(Social!vars)

=============================================================================
