---------------------------- MODULE AtomicGroups ----------------------------
(***************************************************************************)
(* What the operations on groups promise to their callers, without tables, *)
(* statements, snapshots, row locks or redis: a request is invoked, takes  *)
(* effect at most once, in one step and on the groups as they then are,    *)
(* and ends.  Only the deletion of a user takes two: it lists the groups   *)
(* he is in and later leaves those, so that it misses one he enters in     *)
(* between.  GroupMembership implements this module (GroupAtomicity).      *)
(***************************************************************************)
CONSTANTS User, Group, Proc, NoUser, NoGroup

Ops == {"create", "enter", "pass", "leave", "remove", "dismiss", "delete",
        "enable", "disable", "update", "deleteUser", "getInfo", "getList"}

VARIABLES group,      \* what is known of a group: state, owner and status
          members, applicants,
          deleted,    \* the users who have no account now
          req         \* the requests

vars == <<group, members, applicants, deleted, req>>

\* A request of operation op; known: the groups a deletion has listed.
Request(pc, op, g, u, us) ==
    [pc |-> pc, op |-> op, g |-> g, u |-> u, us |-> us, known |-> {}]
Idle == Request("idle", "none", NoGroup, NoUser, {})

Init ==
    /\ group = [g \in Group |-> [state |-> "none", owner |-> NoUser, status |-> "NORMAL"]]
    /\ members = [g \in Group |-> {}] /\ applicants = [g \in Group |-> {}]
    /\ deleted = {}
    /\ req = [p \in Proc |-> Idle]

Live(g) == group[g].state = "live"
Account(u) == u \in User \ deleted
Known(g) == g \in Group /\ group[g].state # "none"
Fresh(g) ==
    /\ g \in Group /\ group[g].state = "none"
    /\ \A p \in Proc : ~(req[p].op = "create" /\ req[p].g = g)

Legal(op, g, u, us) ==
    \/ op = "create" /\ Fresh(g) /\ Account(u) /\ us = {}
    \/ op \in {"enter", "pass", "leave", "dismiss"} /\ Known(g) /\ Account(u) /\ us = {}
    \/ op = "remove" /\ Known(g) /\ u = NoUser /\ us # {}
    \/ op \in {"delete", "enable", "disable", "update", "getInfo", "getList"}
       /\ Known(g) /\ u = NoUser /\ us = {}
    \/ op = "deleteUser" /\ g = NoGroup /\ Account(u) /\ us = {}

Invoke(p) ==
    /\ req[p].pc = "idle" /\ req'[p].pc = "called"
    /\ \E op \in Ops, g \in Group \cup {NoGroup}, u \in User \cup {NoUser}, us \in SUBSET User :
          /\ Legal(op, g, u, us)
          /\ req' = [req EXCEPT ![p] = Request("called", op, g, u, us)]
    /\ UNCHANGED <<group, members, applicants, deleted>>

\* Refused or failed, which leaves no trace, or answered after it took effect.
End(p) ==
    /\ req[p].pc # "idle" /\ req'[p].pc = "idle"
    /\ req' = [req EXCEPT ![p] = Idle]
    /\ UNCHANGED <<group, members, applicants, deleted>>

\* A user applies to a group, which may be gone.
Apply(g, u) ==
    /\ Known(g) /\ Account(u)
    /\ applicants' = [applicants EXCEPT ![g] = @ \cup {u}]
    /\ UNCHANGED <<group, members, deleted, req>>

\* A deleted user registers again and is the same user.
Revive(u) ==
    /\ u \in deleted /\ deleted' = deleted \ {u}
    /\ UNCHANGED <<group, members, applicants, req>>

-----------------------------------------------------------------------------
(* The effects, one of which a request has once in its life                *)

Is(p, op) == req[p].op = op

Create(p) == LET g == req[p].g IN
    /\ Is(p, "create") /\ group[g].state = "none"
    /\ group' = [group EXCEPT ![g] = [state |-> "live", owner |-> req[p].u, status |-> "NORMAL"]]
    /\ members' = [members EXCEPT ![g] = {req[p].u}]
    /\ UNCHANGED <<applicants, deleted>>

\* A user becomes a member of a group only if he is not one yet ...
Join(g, u) ==
    /\ Live(g) /\ u \notin members[g]
    /\ members' = [members EXCEPT ![g] = @ \cup {u}]

Enter(p) ==
    /\ Is(p, "enter") /\ Join(req[p].g, req[p].u)
    /\ UNCHANGED <<group, applicants, deleted>>

\* ... and by an application only if the group is not disabled.
Pass(p) == LET g == req[p].g IN
    /\ Is(p, "pass") /\ Join(g, req[p].u)
    /\ group[g].status = "NORMAL"
    /\ applicants' = [applicants EXCEPT ![g] = @ \cup {req[p].u}]
    /\ UNCHANGED <<group, deleted>>

Part(g, us) ==
    /\ Live(g) /\ us \subseteq members[g] /\ group[g].owner \notin us
    /\ members' = [members EXCEPT ![g] = @ \ us]
    /\ applicants' = [applicants EXCEPT ![g] = @ \ us]

Leave(p) ==
    /\ Is(p, "leave") /\ Part(req[p].g, {req[p].u})
    /\ UNCHANGED <<group, deleted>>

Remove(p) == LET g == req[p].g IN
    /\ Is(p, "remove") /\ Part(g, req[p].us \cap members[g])
    /\ group[g].owner \notin req[p].us
    /\ UNCHANGED <<group, deleted>>

\* By the owner, or by an administrator.
Dissolve(p) == LET g == req[p].g IN
    /\ \/ Is(p, "dismiss") /\ group[g].owner = req[p].u
       \/ Is(p, "delete")
    /\ Live(g)
    /\ group' = [group EXCEPT ![g].state = "dead"]
    /\ members' = [members EXCEPT ![g] = {}] /\ applicants' = [applicants EXCEPT ![g] = {}]
    /\ UNCHANGED deleted

SetStatus(p) == LET g == req[p].g IN
    /\ \/ /\ Is(p, "enable")
          /\ group' = IF Live(g) THEN [group EXCEPT ![g].status = "NORMAL"] ELSE group
       \/ /\ Is(p, "disable")
          /\ group' = IF Live(g) THEN [group EXCEPT ![g].status = "DISABLE"] ELSE group
    /\ UNCHANGED <<members, applicants, deleted>>

\* A change of a name or a notice, or a look at a group that is there.
Touch(p) ==
    /\ req[p].op \in {"update", "getInfo", "getList"}
    /\ Live(req[p].g)
    /\ UNCHANGED <<group, members, applicants, deleted>>

\* The groups listed must all still be there: his own go with the user, the others
\* lose him.
DeleteUser(p) ==
    LET u == req[p].u
        known == req[p].known
        own == {g \in known : group[g].owner = u}
    IN /\ Is(p, "deleteUser") /\ req[p].pc = "listed" /\ \A g \in known : Live(g)
       /\ group' = [g \in Group |-> IF g \in own THEN [group[g] EXCEPT !.state = "dead"]
                                                 ELSE group[g]]
       /\ members' = [g \in Group |-> IF g \in own THEN {}
                                      ELSE IF g \in known THEN members[g] \ {u} ELSE members[g]]
       /\ applicants' = [g \in Group |-> IF g \in own THEN {} ELSE applicants[g] \ {u}]
       /\ deleted' = deleted \cup {u}

\* The deletion of a user begins with the groups he is in.
ListGroups(p) ==
    /\ req[p].pc = "called" /\ req[p].op = "deleteUser"
    /\ req' = [req EXCEPT ![p].pc = "listed",
                          ![p].known = {g \in Group : req[p].u \in members[g]}]
    /\ UNCHANGED <<group, members, applicants, deleted>>

Effect(p) ==
    /\ req[p].pc \in {"called", "listed"}
    /\ req' = [req EXCEPT ![p].pc = "done"]
    /\ \/ Create(p) \/ Enter(p) \/ Pass(p) \/ Leave(p) \/ Remove(p)
       \/ Dissolve(p) \/ SetStatus(p) \/ Touch(p) \/ DeleteUser(p)

Next ==
    \/ \E p \in Proc : Invoke(p) \/ ListGroups(p) \/ Effect(p) \/ End(p)
    \/ \E g \in Group, u \in User : Apply(g, u)
    \/ \E u \in User : Revive(u)

Spec == Init /\ [][Next]_vars

=============================================================================
