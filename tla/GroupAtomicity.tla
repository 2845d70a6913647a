--------------------------- MODULE GroupAtomicity ---------------------------
(***************************************************************************)
(* GroupMembership implements AtomicGroups: its concurrent transactions as *)
(* their callers see them.                                                 *)
(***************************************************************************)
EXTENDS GroupMembership

\* The stored count is no part of what a group is; CountMatches is about it.
View(row) == [state |-> row.state, owner |-> row.owner, status |-> row.status]
Groups == [g \in Group |-> View(group[g])]

\* A request takes effect at its commit. DeleteUsers has listed the groups of
\* its user when it begins to lock them.
Phase(t) ==
    IF t.pc = "idle" THEN "idle"
    ELSE IF t.pc = "redis" THEN "done"
    ELSE IF t.pc = "lock" /\ t.op = "deleteUser" THEN "listed"
    ELSE "called"

Seen(t) == [pc |-> Phase(t), op |-> t.op, g |-> t.g, u |-> t.u, us |-> t.us,
            known |-> t.joined \cup t.owned]

Requested == [p \in Proc |-> Seen(tx[p])]

Atomic == INSTANCE AtomicGroups WITH
    group <- Groups, members <- member, applicants <- applied, req <- Requested

\* Whatever requests overlap, fail or wait for each other's rows, each takes
\* effect at most once, at one instant between its call and its answer, with the
\* checks of the code true at that instant: nobody enters a group twice or after
\* its end, an owner does not leave, only he dismisses, no change is lost.
ImplementsAtomicGroups == Atomic!Spec

=============================================================================
