--------------------------- MODULE MCRoutingCache ---------------------------
(***************************************************************************)
(* Instances of RoutingCache for TLC.                                      *)
(***************************************************************************)
EXTENDS RoutingCache, TLC

CONSTANTS k1, b1, b2, z1, bad

\* One key, one backend; the zones are not mapped yet.
MCInitialDb ==
    [tsig |-> [k \in KeyName |-> IF k = k1 THEN 1 ELSE 0],
     backend |-> [b \in Backend |-> IF b = b1 THEN 1 ELSE 0],
     domain |-> [z \in Zone |-> NoRow]]

KeyCommand == [kind : {"create_tsig_key", "revoke_tsig_key"}, key : {k1}]

\* A zone that cannot be parsed comes and goes.
PoisonCommand ==
    [kind : {"create_domain"}, zone : {bad}, backend : {b1}]
    \cup [kind : {"delete_domain"}, zone : {bad}]

\* Every kind of write: the key, the backends, a domain on either of them,
\* the zone that cannot be parsed.
AnyCommand ==
    [kind : {"create_backend"}]
    \cup [kind : {"update_backend", "delete_backend"}, backend : {b1}]
    \cup [kind : {"create_domain"}, zone : {z1}, backend : Backend]
    \cup [kind : {"delete_domain"}, zone : {z1}]
    \cup KeyCommand \cup PoisonCommand

\* Requests that keep a connection while they wait, and requests that do not.
PoolCommand == KeyCommand \cup PoisonCommand

SymWriter == Permutations(Writer)
=============================================================================
