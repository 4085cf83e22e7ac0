----------------------------- MODULE MCOwnedRows -----------------------------
EXTENDS OwnedRows, TLC

\* Requests are interchangeable, and so are the users who are no administrators.
Symmetry == Permutations(Requests) \cup Permutations(Users \ Admins)
=============================================================================
