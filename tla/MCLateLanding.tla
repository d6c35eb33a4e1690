--------------------------- MODULE MCLateLanding ----------------------------
(***************************************************************************)
(* Instances of LateLanding for TLC.                                       *)
(***************************************************************************)
EXTENDS LateLanding, MCDispatcher

\* Two presents to tell apart, a cleanup of one of them and one of all.
MCLateMessage ==
    {m \in MCMessage : \/ m.action = "present" /\ m.values \in {{v1}, {v2}}
                       \/ m.action = "cleanup" /\ m.values \in {{v1}, {}}}
=============================================================================
