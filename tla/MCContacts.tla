----------------------------- MODULE MCContacts -----------------------------
(* Instances of Contacts for TLC: users and requests are model values.       *)
EXTENDS ContactFriendship, TLC

MCSymmetry == Permutations(User) \cup Permutations(Proc)

=============================================================================
