-------------------------- MODULE MCBridgeRegistry --------------------------
(* Small instances of BridgeRegistry for TLC. *)
EXTENDS BridgeRegistry, TLC

CONSTANTS fam, s1, s2, c1, c2, c3, r1, r2

\* Ciphertexts are only compared.
Interchangeable == Permutations(Secrets)

=============================================================================
