---------------------------- MODULE MCGroupRaces ----------------------------
(* Small instances of GroupRaces and of the refinement of AtomicGroups.     *)
EXTENDS GroupAtomicity, GroupRaces, TLC
CONSTANTS u1, u2, g1, g2, p1, p2
MCSymmetry == Permutations(User) \cup Permutations(Group) \cup Permutations(Proc)
=============================================================================
