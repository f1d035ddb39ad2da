--------------------------- MODULE MCAccessControl ---------------------------
(* Model values and symmetry for the runs of AccessControl.                *)
EXTENDS AccessControl, TLC

CONSTANTS boot, u1, u2, default, fam

\* Nothing orders the slots, so the requests in flight can be permuted.
Slots == Permutations(Requests)

=============================================================================
