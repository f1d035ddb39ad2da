--------------------------- MODULE MCSessionPairing ---------------------------
(* Model values for the runs of SessionPairing.                            *)
EXTENDS SessionPairing

CONSTANTS t1, t2

=============================================================================
