--------------------------- MODULE MCNetworkClient ---------------------------
(* Model values and small sets for checking NetworkClient with TLC. *)
EXTENDS NetworkClient

CONSTANTS w1

MCWorkers == {w1}
MCSizes   == {1}

=============================================================================
