------------------------- MODULE MCGroupMembership -------------------------
(* Small instances of GroupMembership for TLC.                             *)
EXTENDS GroupMembership, TLC
CONSTANTS u1, u2, g1, g2, p1, p2
MCSymmetry == Permutations(User) \cup Permutations(Group) \cup Permutations(Proc)
=============================================================================
