---------------------------- MODULE WriteSurface ----------------------------
(***************************************************************************)
(* From a packet to the provider call: the pipeline of protocol.py (parse, *)
(* TSIG, auth gate, opcode) and the part of Dispatcher.dispatch before the *)
(* record's lock (zone, routing walk, write surface, TXT values).  Nothing *)
(* here awaits, so one packet is followed alone against the routing rows   *)
(* and the keyring of the moment; module Dispatcher has what comes after.  *)
(*                                                                         *)
(* A name is the sequence of its labels, leaf first; the root is <<>>.     *)
(***************************************************************************)
EXTENDS Naturals, Sequences

CONSTANTS Label,       \* labels as spelled
          Lower,       \* a label's lower-case spelling
          Key,         \* TSIG key names
          Token,       \* TXT values, joined
          Ascii,       \* the tokens that are ASCII
          Length,      \* a token's length
          MaxTxtLen,   \* _MAX_TXT_LEN
          Spelling,    \* ways to split a token into character-strings
          Tables,      \* the Domain rows the routing table may be built from
          Packets,     \* what may arrive
          NoZone, NoRoute, NoOp

Name == Seq(Label)

Row == [zone : Name, record : Name, multi : BOOLEAN]

Rdata == [token : Token, spelling : Spelling]

RRset == [owner : Name, type : {"TXT", "other"},
          deleting : {"add", "NONE", "ANY", "other"},
          rdatas : SUBSET Rdata]

\* wire: can from_wire, and can _extract_tsig_context, make sense of it?
\* query: is its QR flag clear?
Packet == [wire : {"good", "headless", "malformed"},
           query : BOOLEAN,
           tsig : {"absent", "good", "BADSIG", "BADTIME", "BADKEY"},
           key : Key,
           opcode : {"UPDATE", "other"},
           zone : Name \cup {NoZone},
           update : Seq(RRset)]

ASSUME SurfaceAssumption ==
    /\ Lower \in [Label -> Label]
    /\ \A l \in Label : Lower[Lower[l]] = Lower[l]
    /\ Ascii \subseteq Token
    /\ Length \in [Token -> Nat]
    /\ MaxTxtLen \in Nat
    /\ Tables \subseteq Seq(Row)
    /\ Packets \subseteq Packet
    /\ NoZone \notin Name
    /\ NoRoute \notin Nat

VARIABLES rows,      \* the Domain rows, in the order they were read
          keyring,   \* the keys the server knows
          packet,
          pc,
          up,        \* labels match() has climbed over
          route,     \* index of the row match() returned
          handed,    \* what is handed to the provider
          reply,     \* the rcode sent, "none" when nothing is
          signed,    \* the reply is TSIG-signed
          failure    \* the TSIG-failure counter incremented

input == <<rows, keyring, packet>>
vars == <<rows, keyring, packet, pc, up, route, handed, reply, signed, failure>>

\* Name.canonicalize.
Canonical(n) == [i \in 1..Len(n) |-> Lower[n[i]]]

\* zone_from_message.
ZoneName == Canonical(packet.zone)

\* The candidate of match()'s walk after k parents.
Candidate(k) == SubSeq(ZoneName, k + 1, Len(ZoneName))

Op == [action : {"present", "cleanup"}, values : SUBSET Token, multi : BOOLEAN]

TypeOK ==
    /\ rows \in Tables
    /\ keyring \subseteq Key
    /\ packet \in Packets
    /\ pc \in {"arrived", "walking", "routed", "handed", "done"}
    /\ up \in Nat
    /\ route \in Nat \cup {NoRoute}
    /\ handed \in Op \cup {NoOp}
    /\ reply \in {"none", "NOTAUTH", "REFUSED", "NOERROR", "SERVFAIL"}
    /\ signed \in BOOLEAN
    /\ failure \in {"none", "absent", "UNKNOWNKEY", "BADSIG", "BADTIME",
                    "BADKEY"}

Init ==
    /\ rows \in Tables
    /\ keyring \in SUBSET Key
    /\ packet \in Packets
    /\ pc = "arrived"
    /\ up = 0
    /\ route = NoRoute
    /\ handed = NoOp
    /\ reply = "none"
    /\ signed = FALSE
    /\ failure = "none"
-----------------------------------------------------------------------------
Reply(rc, s, f) ==
    /\ pc' = "done"
    /\ reply' = rc
    /\ signed' = s
    /\ failure' = f
    /\ UNCHANGED <<input, up, route, handed>>

HadTsig == packet.tsig # "absent"

\* _reply: make_response signs the reply to a message that had a TSIG, and
\* raises FormError for one that is no query, which then gets no reply.
MakeResponse(rc, f) ==
    IF packet.query THEN Reply(rc, HadTsig, f) ELSE Reply("none", FALSE, f)

\* The verdict of dns.message.from_wire: the key is looked up before
\* anything is verified with it, and a message without TSIG is no error.
Verdict ==
    IF packet.wire = "malformed" THEN "malformed"
    ELSE IF packet.tsig = "absent" THEN "absent"
    ELSE IF packet.key \notin keyring THEN "UNKNOWNKEY"
    ELSE packet.tsig

Drop ==
    /\ pc = "arrived"
    /\ Verdict = "malformed"
    /\ Reply("none", FALSE, "none")

\* A slip: every failure is answered without a signature.
Unsigned ==
    /\ pc = "arrived"
    /\ Verdict \in {"UNKNOWNKEY", "BADSIG", "BADTIME", "BADKEY"}
    /\ Reply("NOTAUTH", FALSE, Verdict)

\* The inbound TSIG failures.  _extract_tsig_context may find the packet
\* unanswerable; otherwise the reply is signed if the key is known.
TsigFailure ==
    /\ pc = "arrived"
    /\ Verdict \in {"UNKNOWNKEY", "BADSIG", "BADTIME", "BADKEY"}
    /\ IF packet.wire = "headless"
         THEN Reply("none", FALSE, Verdict)
         ELSE Reply("NOTAUTH", Verdict # "UNKNOWNKEY", Verdict)

\* The auth gate: `if not msg.had_tsig'.
AuthGate == Verdict = "absent"

RefuseUnsigned ==
    /\ pc = "arrived"
    /\ AuthGate
    /\ MakeResponse("NOTAUTH", "absent")

\* Past the auth gate, up to the zone.
Passed == ~AuthGate /\ Verdict \in {"good", "absent"}

\* The refusals before the routing walk: not an UPDATE, no ZONE section.
RefuseEarly ==
    /\ pc = "arrived"
    /\ Passed
    /\ packet.opcode # "UPDATE" \/ packet.zone = NoZone
    /\ MakeResponse("REFUSED", "none")

StartWalk ==
    /\ pc = "arrived"
    /\ Passed
    /\ packet.opcode = "UPDATE"
    /\ packet.zone # NoZone
    /\ pc' = "walking"
    /\ UNCHANGED <<input, up, route, handed, reply, signed, failure>>
-----------------------------------------------------------------------------
\* The rows whose zone, made canonical, is z.
RowsOf(z) == {i \in 1..Len(rows) : Canonical(rows[i].zone) = z}

\* A slip: the first row of a zone is kept.
FirstRow(z) == CHOOSE i \in RowsOf(z) : \A j \in RowsOf(z) : i <= j

\* RoutingTable.__init__: a dict comprehension keeps the last row of a zone.
RowKept(z) == CHOOSE i \in RowsOf(z) : \A j \in RowsOf(z) : j <= i

Hit ==
    /\ pc = "walking"
    /\ RowsOf(Candidate(up)) # {}
    /\ route' = RowKept(Candidate(up))
    /\ pc' = "routed"
    /\ UNCHANGED <<input, up, handed, reply, signed, failure>>

\* A slip: the walk never gives up at the root.
KeepClimbing == FALSE

\* candidate.parent().
Climb ==
    /\ pc = "walking"
    /\ RowsOf(Candidate(up)) = {}
    /\ up < Len(ZoneName)
    /\ up' = up + 1
    /\ UNCHANGED <<input, pc, route, handed, reply, signed, failure>>

\* The root has no parent: no configured zone covers this one.
NoParent ==
    /\ pc = "walking"
    /\ RowsOf(Candidate(up)) = {}
    /\ up = Len(ZoneName)
    /\ MakeResponse("REFUSED", "none")
-----------------------------------------------------------------------------
\* A slip: the prescribed owner is looked for among the rrsets.
AnyOwner ==
    \E i \in 1..Len(packet.update) :
        /\ packet.update[i].type = "TXT"
        /\ Canonical(packet.update[i].owner) = Canonical(rows[route].record)
        /\ packet.update[i].deleting # "other"

\* validate_write_surface, classify_action.
OnSurface ==
    /\ Len(packet.update) = 1
    /\ LET rrset == packet.update[1] IN
       /\ rrset.type = "TXT"
       /\ Canonical(rrset.owner) = Canonical(rows[route].record)
       /\ rrset.deleting \in {"add", "NONE", "ANY"}

Action(rrset) == IF rrset.deleting = "add" THEN "present" ELSE "cleanup"

\* normalize_txt_values: what it accepts, and what it returns.
WellFormed(rrset, multi) ==
    /\ rrset.rdatas = {} => Action(rrset) = "cleanup"
    /\ multi \/ \A x, y \in rrset.rdatas : x = y
    /\ \A x \in rrset.rdatas : /\ x.token \in Ascii
                               /\ Length[x.token] # 0
                               /\ Length[x.token] <= MaxTxtLen

\* A slip: the rdata objects are passed on.
RawRdatas(rrset) == rrset.rdatas

Tokens(rrset) == {x.token : x \in rrset.rdatas}

Hand ==
    LET rrset == packet.update[1] IN
    /\ pc = "routed"
    /\ OnSurface
    /\ WellFormed(rrset, rows[route].multi)
    /\ handed' = [action |-> Action(rrset), values |-> Tokens(rrset),
                  multi |-> rows[route].multi]
    /\ pc' = "handed"
    /\ UNCHANGED <<input, up, route, reply, signed, failure>>

Violation ==
    /\ pc = "routed"
    /\ ~(OnSurface /\ WellFormed(packet.update[1], rows[route].multi))
    /\ MakeResponse("REFUSED", "none")

\* The dispatcher answers, or raises what is no ProviderError, or its task
\* is cancelled, and there is no reply.
Answered ==
    /\ pc = "handed"
    /\ \/ MakeResponse("NOERROR", "none")
       \/ handed.action = "present" /\ MakeResponse("SERVFAIL", "none")
       \/ Reply("none", FALSE, "none")

Next == \/ Drop \/ TsigFailure \/ RefuseUnsigned \/ RefuseEarly \/ StartWalk
        \/ Hit \/ Climb \/ NoParent
        \/ Hand \/ Violation \/ Answered

Spec == Init /\ [][Next]_vars

\* The pipeline is ordinary code: it runs.
FairSpec == Spec /\ WF_vars(Next)
-----------------------------------------------------------------------------
(***************************************************************************)
(* Properties.                                                             *)
(***************************************************************************)

\* Row i's zone equals the packet's zone or is a parent of it.
Covers(i) == \E k \in 0..Len(ZoneName) : Canonical(rows[i].zone) = Candidate(k)

\* The row a lookup by longest suffix ends at: the longest zone that covers
\* the packet's, in the last row that spells it.
Best(i) ==
    /\ i \in 1..Len(rows)
    /\ Covers(i)
    /\ \A j \in 1..Len(rows) : Covers(j) =>
          \/ Len(rows[j].zone) < Len(rows[i].zone)
          \/ Len(rows[j].zone) = Len(rows[i].zone) /\ j <= i

\* RoutingTable.match, a walk up from the zone, finds the longest configured
\* zone that is the packet's zone or a parent of it, however the rows spell
\* it, and finds nothing only when no row covers the zone.
RoutesToLongest ==
    /\ route # NoRoute => Best(route)
    /\ (pc = "done" /\ route = NoRoute /\ packet.zone # NoZone
          /\ packet.opcode = "UPDATE" /\ Verdict = "good")
       => \A i \in 1..Len(rows) : ~Covers(i)

\* The challenge update in one piece: verified, an UPDATE of one TXT rrset
\* at the record of the longest configured zone, with proper tokens, and one
\* at most where the provider holds one.
IsChallenge ==
    /\ packet.wire # "malformed"
    /\ packet.tsig = "good" /\ packet.key \in keyring
    /\ packet.opcode = "UPDATE" /\ packet.zone # NoZone
    /\ Len(packet.update) = 1
    /\ LET rrset == packet.update[1] IN
       \E i \in 1..Len(rows) :
          /\ Best(i)
          /\ rrset.type = "TXT" /\ rrset.deleting # "other"
          /\ Canonical(rrset.owner) = Canonical(rows[i].record)
          /\ rrset.deleting = "add" => rrset.rdatas # {}
          /\ rows[i].multi \/ \A x, y \in rrset.rdatas : x = y
          /\ \A x \in rrset.rdatas :
                x.token \in {t \in Ascii : Length[t] \in 1..MaxTxtLen}

\* A provider is called for exactly the updates on the write surface: the
\* early returns of _process_query, dispatch, validate_write_surface and
\* normalize_txt_values let nothing else through and turn none of them away.
SurfaceIsExact ==
    /\ handed # NoOp => IsChallenge
    /\ reply \in {"REFUSED", "NOTAUTH"} => ~IsChallenge

\* Whoever holds a key of the relay gets a signed answer or none, and nobody
\* else gets one; NOTAUTH is what the TSIG-failure counter counts
\* (_signed_error_reply, _plain_error_reply, _reply).
SignedToKeyHolders ==
    pc = "done" /\ reply # "none" =>
        /\ signed <=> HadTsig /\ packet.key \in keyring
        /\ reply = "NOTAUTH" <=> failure # "none"

\* No packet keeps the pipeline busy for ever: the walk ends at the root.
EveryPacketSettles == <>(pc = "done")
=============================================================================
