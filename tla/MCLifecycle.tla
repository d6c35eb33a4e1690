---------------------------- MODULE MCLifecycle -----------------------------
(***************************************************************************)
(* Instances of Lifecycle for TLC.                                         *)
(***************************************************************************)
EXTENDS Lifecycle

MCUdp == {"datagram1", "datagram2"}

MCTcp == {"connection1", "connection2"}

\* For the runs in which the clients do not matter.
NoClient == {}
=============================================================================
