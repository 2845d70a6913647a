----------------------------- MODULE GroupRaces -----------------------------
(***************************************************************************)
(* GroupMembership with a record of what its caches may get wrong. Redis   *)
(* is written after the commit and without the row lock, so the keys of a  *)
(* group are not always true; this module says exactly when not. No step   *)
(* of GroupMembership is changed or prevented by it.                       *)
(***************************************************************************)
EXTENDS GroupMembership

VARIABLES late,   \* <<p, kind>>: what p is about to put is no longer true
          doubt   \* <<kind, g>>: this key of group g need not be true

raceVars == <<late, doubt>>

Present == {k \in Kinds \X Group : k[2] \in Keys(k[1])}

\* What p still has to put, and which keys it still has to put or to drop.
PutsLeft(p) == Kinds \cap StepsLeft(p)
KeysLeft(p) == {k \in Kinds \X Group : Pending(p, k[2], {k[1], DropOf[k[1]]})}

\* The step changes what a key of this kind of g is to show.
Changes(kind, g) ==
  IF kind = "list" THEN \/ Live(g)' # Live(g)
                        \/ member'[g] \ deleted' # member[g] \ deleted
  ELSE group'[g] # group[g]

\* The step changes what q has read for the key it is to put: for a list first that
\* there is such a group, then its members, then which of them have an account.
Outdates(q, kind) ==
  LET g == tx[q].g IN
  IF kind = "list" /\ "names" \in StepsLeft(q)
  THEN Live(g)' # Live(g) \/ ("members" \notin StepsLeft(q) /\ member'[g] # member[g])
  ELSE Changes(kind, g)

\* Whoever has read what the step changes, other than p that takes it, is late.
Overtakes(p) ==
  late' = {m \in Proc \X Kinds :
             /\ m[2] \in PutsLeft(m[1])'
             /\ m \in late \/ (m[1] # p /\ Outdates(m[1], m[2]))}

\* The lists that the step changes.
ListsChanged == {"list"} \X {g \in Group : Changes("list", g)}

\* Those that change when p deletes a user and that it will not touch: of groups
\* he entered after p had listed his groups.
Missed(p) == {k \in ListsChanged : /\ tx[p].op = "deleteUser"
                                   /\ k[2] \notin tx[p].joined \cup tx[p].owned}

\* The keys p no longer has to write after the step.
Settled(p) == KeysLeft(p) \ KeysLeft(p)'
\* Those of them that are put by someone who is late.
PutLate(p) == {k \in Settled(p) : <<p, k[1]>> \in late}

\* A key that is not there cannot be wrong.
Doubtful(keys) == doubt' = keys \cap Present'

RequestStep(p) ==
  /\ \/ (Call(p) \/ Transaction(p)) /\ Doubtful(doubt \cup Missed(p))
     \/ Redis(p) /\ Doubtful((doubt \ Settled(p)) \cup PutLate(p))
     \/ Failure(p) /\ Doubtful(doubt \cup Settled(p))
  /\ Overtakes(p)

RaceInit == Init /\ late = {} /\ doubt = {}

RaceNext ==
  \/ \E p \in Proc : RequestStep(p)
  \/ (\E g \in Group, u \in User : Apply(g, u)) /\ UNCHANGED raceVars
  \/ (\E u \in User : Revive(u)) /\ Doubtful(doubt \cup ListsChanged) /\ Overtakes(NoProc)
  \/ (\E g \in Group : Expire(g)) /\ Doubtful(doubt) /\ UNCHANGED late

RaceSpec == RaceInit /\ [][RaceNext]_<<vars, raceVars>>

-----------------------------------------------------------------------------
(* Properties                                                                *)

\* However many requests run, fail and die: when none is being served, a key in
\* redis is true, unless it was put by a request that was overtaken by a commit
\* between its own commit (or the query it made for it) and that put, its last put
\* or drop was lost, or it is the list of a group whose member loses his account
\* by a deletion that had not listed the group, or registers again while he is a
\* member of it. A later put, a drop or the expiry of the key clears that.
TrueUnlessRaced == (\A p \in Proc : tx[p] = Idle) =>
  \A kind \in Kinds : \A g \in Keys(kind) : <<kind, g>> \in doubt \/ KeyTrue(kind, g)

\* What p is about to put is true, or p is late with it.
PutsTruth(p) ==
  LET t == tx[p] IN
  /\ t.todo # << >> => t.pc = "redis"
  /\ PutsLeft(p) # {} => t.op # "deleteUser" /\ t.g \in Group
  /\ \A kind \in {"info", "card"} \cap PutsLeft(p) :
       <<p, kind>> \in late \/ (Live(t.g) /\ t.row[t.g] = group[t.g])
  /\ "list" \in PutsLeft(p) =>
       \/ <<p, "list">> \in late
       \/ /\ Live(t.g)
          /\ \/ t.todo = <<"members", "names", "list">>
             \/ t.todo = <<"names", "list">> /\ t.seen = member[t.g]
             \/ t.todo = <<"list">> /\ t.seen = member[t.g] \ deleted

\* The inductive invariant: a key that is there is true, or in doubt, or somebody
\* will still put or drop it.
RaceInv ==
  /\ late \subseteq Proc \X Kinds /\ doubt \subseteq Present
  /\ \A kind \in Kinds : Keys(kind) \subseteq Group
  /\ \A p \in Proc : PutsTruth(p)
  /\ \A kind \in Kinds : \A g \in Keys(kind) :
       <<kind, g>> \in doubt \/ KeyTrue(kind, g) \/ \E p \in Proc : <<kind, g>> \in KeysLeft(p)
=============================================================================
