--------------------------- MODULE MCWriteSurface ---------------------------
(***************************************************************************)
(* Instances of WriteSurface for TLC.                                      *)
(***************************************************************************)
EXTENDS WriteSurface

CONSTANTS a, A,                   \* one label, two spellings
          Acme,                   \* the label _acme-challenge
          k1,
          empty, short, long, odd \* tokens: no, 1, MaxTxtLen + 1 characters

MCLower == [l \in Label |-> IF l = A THEN a ELSE l]

MCLength == [t \in Token |-> IF t = empty THEN 0
                             ELSE IF t = long THEN MaxTxtLen + 1 ELSE MaxTxtLen]

NamesOf(ls, n) == UNION {[1..k -> ls] : k \in 0..n}

Owner(zone) == <<Acme>> \o zone

Row1(zone, r, m) == [zone |-> zone, record |-> r, multi |-> m]

\* Zones of up to two labels in two spellings, and two beside them.
RoutingRows == {Row1(z, Owner(z), TRUE) :
                    z \in NamesOf({a, A}, 2) \cup {<<Acme>>, <<Acme, a>>}}

\* Any two rows, nested or not, or one zone twice under two spellings; and
\* one row on a single-value provider, or with its record elsewhere.
MCTables ==
    UNION {[1..n -> RoutingRows] : n \in 0..2}
    \cup {<<Row1(<<a>>, <<Acme, a>>, FALSE)>>, <<Row1(<<a>>, <<A>>, TRUE)>>,
          <<Row1(<<a>>, <<A>>, FALSE)>>}

Good(rrsets, z) ==
    [wire |-> "good", query |-> TRUE, tsig |-> "good", key |-> k1,
     opcode |-> "UPDATE", zone |-> z, update |-> rrsets]

Present(owner) ==
    [owner |-> owner, type |-> "TXT", deleting |-> "add",
     rdatas |-> {[token |-> short, spelling |-> 1]}]

MCRdatas == {s \in SUBSET Rdata : \A x, y, z \in s : x = y \/ y = z \/ x = z}

\* All that the guards tell apart, what the parser never builds included (an
\* ADD without a value, a class it does not know).
MCRRsets == [owner : {<<Acme, A>>, <<a>>}, type : {"TXT", "other"},
             deleting : {"add", "NONE", "ANY", "other"}, rdatas : MCRdatas]

MCUpdates == {<<>>} \cup {<<s>> : s \in MCRRsets}
             \cup {<<Present(o), Present(p)>> : o, p \in {<<Acme, a>>, <<a>>}}

\* Every shape of packet, and a proper challenge for zones of up to three
\* labels.
MCPackets ==
    [wire : {"good", "headless", "malformed"}, query : BOOLEAN,
     tsig : {"absent", "good", "BADSIG", "BADTIME", "BADKEY"},
     key : Key, opcode : {"UPDATE", "other"}, zone : {<<A>>, NoZone},
     update : {<<>>, <<Present(<<Acme, a>>)>>}]
    \cup {Good(u, <<A>>) : u \in MCUpdates}
    \cup {Good(<<Present(Owner(<<a>>))>>, z) : z \in NamesOf({a, A, Acme}, 3)}
=============================================================================
