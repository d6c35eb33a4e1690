---------------------------- MODULE MCKekRotation ----------------------------
(***************************************************************************)
(* An instance of KekRotation for TLC: a backend, a domain (with a secret  *)
(* or not) and a TSIG key to start with, a backend and a domain to come.   *)
(***************************************************************************)
EXTENDS KekRotation

CONSTANTS b1, b2, d1, d2, k1

MCStocked == {b1, d1, k1}
=============================================================================
