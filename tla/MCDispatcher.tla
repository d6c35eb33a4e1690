---------------------------- MODULE MCDispatcher ----------------------------
(***************************************************************************)
(* Instances of Dispatcher for TLC.                                        *)
(***************************************************************************)
EXTENDS Dispatcher, TLC

CONSTANTS r53, he,       \* a Route 53 hosted zone, an HE account
          v1, v2         \* tokens

MCMulti == {r53}

\* A token left over by an earlier run of the relay.
MCStaleTxt ==
    [b \in Backend |->
        [n \in Record |-> IF b \in Multi THEN {v1} ELSE {Placeholder}]]

TheRecord == CHOOSE n \in Record : TRUE

\* Everything a client may ask about the record of a zone.
MCMessage == [zone : Zone, name : Record,
              action : {"present", "cleanup"}, values : SUBSET Value]

\* The domain is moved between HE and Route 53 while requests are under way.
MCMoveSnapshot ==
    {[z \in Zone |-> [backend |-> b, record |-> TheRecord]] : b \in Backend}

\* ... and deleted.
MCDeleteSnapshot == MCMoveSnapshot \cup {[z \in Zone |-> NoRoute]}

\* Two presents to tell apart, a cleanup of one of them, and a present that
\* is refused.
MCMoveMessage ==
    {m \in MCMessage : \/ m.action = "present" /\ m.values \in {{v1}, {v2}, {}}
                       \/ m.action = "cleanup" /\ m.values = {v1}}

SymRequest == Permutations(Request)
=============================================================================
