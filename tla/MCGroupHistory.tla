--------------------------- MODULE MCGroupHistory ---------------------------
(* Small instances of GroupHistory for TLC.                                *)
EXTENDS GroupHistory, TLC
CONSTANTS u1, u2, g1, p1, r1
MCSymmetry == Permutations(User) \cup Permutations(Group)
=============================================================================
