----------------------------- MODULE MCAccounts -----------------------------
\* Accounts on small instances.
EXTENDS Accounts, TLC

\* Requests are interchangeable.
MCSymmetry == Permutations(Proc)

=============================================================================
