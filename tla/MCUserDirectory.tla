--------------------------- MODULE MCUserDirectory ---------------------------
(* Model values and symmetry for the runs of UserDirectory.                *)
EXTENDS UserDirectory, TLC

CONSTANTS boot, u1, u2

\* Invitation ids are only compared.
Interchangeable == Permutations(Invitations) \cup Permutations(Requests)

=============================================================================
