--------------------------- MODULE MCKeyLifecycle ----------------------------
(* Model values and symmetry for the runs of KeyLifecycle.                 *)
EXTENDS KeyLifecycle, TLC

CONSTANTS default, fam

\* Key ids are only compared, and so are request slots.
Interchangeable == Permutations(Keys) \cup Permutations(Requests)

=============================================================================
