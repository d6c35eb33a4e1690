----------------------------- MODULE MCAdminAuth -----------------------------
(***************************************************************************)
(* An instance of AdminAuth for TLC.                                       *)
(***************************************************************************)
EXTENDS AdminAuth, TLC

CONSTANTS c1, c2, c3, c4, s1, s2, old, new, bad, t1, t2

Ask(kind, source, key, token) ==
    [kind |-> kind, source |-> source, sameOrigin |-> TRUE, key |-> key,
     password |-> old, new |-> new, token |-> token]

Login(s, p) == [Ask("login", s, NoKey, t1) EXCEPT !.password = p]

\* The environment's hash is outdated; there is no row yet, or one of either
\* kind.
MCSeed == [password |-> old, outdated |-> TRUE]
MCInitialRow == {NoRow} \cup [password : {old}, outdated : BOOLEAN]

\* Three guesses from one address and one from elsewhere, and among them a
\* login, a change, sessions and tokens of every kind.
MCOffer ==
    c1 :> {Login(s1, bad), Login(s1, old)}
 @@ c2 :> {Login(s1, bad), Ask("change", s1, t1, t1)}
 @@ c3 :> {Login(s1, bad), Login(s1, new), Ask("session", s1, t1, t1),
           Ask("mint", s1, NoKey, t2)}
 @@ c4 :> {Login(s2, bad), Ask("revoke", s1, t1, t1),
           Ask("revoke", s1, NoKey, t2), Ask("logout", s1, NoKey, t1),
           [Login(s1, bad) EXCEPT !.sameOrigin = FALSE]}

MCMessage == UNION {MCOffer[c] : c \in Call}
=============================================================================
