------------------------------- MODULE MCServers -------------------------------
(* Model values for the run of Servers.                                    *)
EXTENDS Servers

CONSTANT o1

=============================================================================
