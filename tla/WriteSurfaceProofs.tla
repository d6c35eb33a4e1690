------------------------- MODULE WriteSurfaceProofs -------------------------
(***************************************************************************)
(* WriteSurface for every routing table, keyring and packet: the walk of   *)
(* RoutingTable.match ends at the longest configured zone, and a provider  *)
(* is called for exactly the updates on the write surface.                 *)
(***************************************************************************)
EXTENDS WriteSurface, SequenceTheorems, WellFoundedInduction, TLAPS

\* A set of naturals with an upper bound has a greatest element (so that
\* RoutingTable's "last row" exists).
LEMMA BoundedSetHasMax ==
    ASSUME NEW N \in Nat, NEW T \in SUBSET (1..N), T # {}
    PROVE  \E i \in T : \A j \in T : j <= i
<1> DEFINE D == {N - i : i \in T}
<1>1. D \subseteq Nat /\ D # {}
  <2>1. \A i \in T : N - i \in Nat
    OBVIOUS
  <2>2. PICK i \in T : TRUE
    OBVIOUS
  <2>3. N - i \in D
    OBVIOUS
  <2> QED
    BY <2>1, <2>3, Zenon
<1>2. PICK x \in D : \A y \in D : ~(<<y, x>> \in OpToRel(<, Nat))
  <2> HIDE DEF D
  <2> QED
    BY <1>1, NatLessThanWellFounded, WFMin
<1>3. PICK i \in T : x = N - i
  OBVIOUS
<1>4. \A j \in T : j <= i
  <2> SUFFICES ASSUME NEW j \in T, ~(j <= i)  PROVE FALSE
    OBVIOUS
  <2>1. N - j \in D /\ N - j \in Nat /\ N - i \in Nat /\ N - j < N - i
    OBVIOUS
  <2> HIDE DEF D
  <2>2. <<N - j, x>> \in OpToRel(<, Nat)
    BY <2>1, <1>3 DEF OpToRel
  <2> QED
    BY <2>1, <2>2, <1>2
<1> QED
  BY <1>4

\* Making a name canonical keeps its length.
LEMMA CanonicalIsName ==
    ASSUME NEW n \in Name
    PROVE  Canonical(n) \in Name /\ Len(Canonical(n)) = Len(n)
<1>1. Lower \in [Label -> Label]
  BY SurfaceAssumption
<1>2. Len(n) \in Nat /\ \A i \in 1..Len(n) : n[i] \in Label
  BY DEF Name
<1>3. \A i \in 1..Len(n) : Lower[n[i]] \in Label
  BY <1>1, <1>2
<1>4. Canonical(n) \in Seq(Label) /\ Len(Canonical(n)) = Len(n)
  BY <1>2, <1>3, IsASeq DEF Canonical
<1> QED
  BY <1>4 DEF Name

\* After k parents the candidate is k labels shorter than the zone.
LEMMA CandidateLength ==
    ASSUME TypeOK, packet.zone # NoZone, NEW k \in 0..Len(ZoneName)
    PROVE  /\ Len(ZoneName) \in Nat
           /\ Len(Candidate(k)) = Len(ZoneName) - k
<1>1. packet.zone \in Name
  BY SurfaceAssumption DEF TypeOK, Packet
<1>2. ZoneName \in Name
  BY <1>1, CanonicalIsName DEF ZoneName
<1>3. ZoneName \in Seq(Label) /\ Len(ZoneName) \in Nat
  BY <1>2 DEF Name
<1>4. k + 1 \in 1..(Len(ZoneName) + 1) /\ Len(ZoneName) \in k..Len(ZoneName)
  BY <1>3
<1>5. Len(Candidate(k)) = Len(ZoneName) - k
  BY <1>3, <1>4, SubSeqProperties DEF Candidate
<1> QED
  BY <1>3, <1>5

\* The length of the zone is a number.
LEMMA ZoneIsName ==
    ASSUME TypeOK, packet.zone # NoZone
    PROVE  Len(ZoneName) \in Nat
<1>1. packet.zone \in Name
  BY SurfaceAssumption DEF TypeOK, Packet
<1> QED
  BY <1>1, CanonicalIsName DEF ZoneName, Name

\* So is the number of rows.
LEMMA RowsAreSeq == TypeOK => rows \in Seq(Row) /\ Len(rows) \in Nat
BY SurfaceAssumption DEF TypeOK

\* A row's zone is as long canonical as spelled.
LEMMA RowLength ==
    ASSUME TypeOK, NEW i \in 1..Len(rows)
    PROVE  /\ Len(rows[i].zone) \in Nat
           /\ Len(Canonical(rows[i].zone)) = Len(rows[i].zone)
<1>1. rows \in Seq(Row)
  BY SurfaceAssumption DEF TypeOK
<1>2. rows[i] \in Row
  BY <1>1
<1>3. rows[i].zone \in Name
  BY <1>2 DEF Row
<1> QED
  BY <1>3, CanonicalIsName DEF Name
-----------------------------------------------------------------------------
\* What the walk has ruled out so far.
Unmatched(k) == \A m \in 0..Len(ZoneName) : m < k => RowsOf(Candidate(m)) = {}

\* Where match() stops is the best row there is.
LEMMA HitIsBest ==
    ASSUME TypeOK, packet.zone # NoZone, up <= Len(ZoneName), Unmatched(up),
           RowsOf(Candidate(up)) # {}
    PROVE  Best(RowKept(Candidate(up)))
<1> DEFINE C == Candidate(up)
           r == RowKept(C)
<1>1. Len(rows) \in Nat
  BY SurfaceAssumption DEF TypeOK
<1>2. Len(ZoneName) \in Nat
  BY CandidateLength, 0 \in 0..Len(ZoneName) DEF TypeOK
<1>3. RowsOf(C) \in SUBSET (1..Len(rows))
  BY DEF RowsOf
<1>4. \E i \in RowsOf(C) : \A j \in RowsOf(C) : j <= i
  BY <1>1, <1>3, BoundedSetHasMax
<1>5. r \in RowsOf(C) /\ \A j \in RowsOf(C) : j <= r
  BY <1>4 DEF RowKept
<1>6. r \in 1..Len(rows) /\ Canonical(rows[r].zone) = C
  BY <1>5 DEF RowsOf
<1>7. up \in 0..Len(ZoneName)
  BY <1>2 DEF TypeOK
<1>8. Covers(r)
  BY <1>6, <1>7 DEF Covers
<1>9. ASSUME NEW j \in 1..Len(rows), Covers(j)
      PROVE  \/ Len(rows[j].zone) < Len(rows[r].zone)
             \/ Len(rows[j].zone) = Len(rows[r].zone) /\ j <= r
  <2>1. PICK k \in 0..Len(ZoneName) : Canonical(rows[j].zone) = Candidate(k)
    BY <1>9 DEF Covers
  <2>2. j \in RowsOf(Candidate(k))
    BY <2>1 DEF RowsOf
  <2>3. ~(k < up)
    BY <2>2 DEF Unmatched
  <2>4. Len(rows[j].zone) = Len(ZoneName) - k
    BY <2>1, CandidateLength, RowLength
  <2>5. Len(rows[r].zone) = Len(ZoneName) - up
    BY <1>6, <1>7, CandidateLength, RowLength
  <2>6. CASE k = up
    BY <2>2, <2>4, <2>5, <2>6, <1>5
  <2>7. CASE k > up
    BY <2>4, <2>5, <2>7, <1>2, <1>7
  <2> QED
    BY <2>3, <2>6, <2>7, <1>7
<1> QED
  BY <1>6, <1>8, <1>9 DEF Best

\* A walk that reaches the root without a hit leaves no row uncovered.
LEMMA MissCoversNothing ==
    ASSUME Unmatched(Len(ZoneName)), RowsOf(Candidate(Len(ZoneName))) = {},
           Len(ZoneName) \in Nat,
           NEW i \in 1..Len(rows)
    PROVE  ~Covers(i)
<1> SUFFICES ASSUME Covers(i)  PROVE FALSE
  OBVIOUS
<1>1. PICK k \in 0..Len(ZoneName) : Canonical(rows[i].zone) = Candidate(k)
  BY DEF Covers
<1>2. i \in RowsOf(Candidate(k))
  BY <1>1 DEF RowsOf
<1>3. k = Len(ZoneName) \/ k < Len(ZoneName)
  OBVIOUS
<1> QED
  BY <1>2, <1>3 DEF Unmatched

\* The best row is unique.
LEMMA BestIsUnique ==
    ASSUME TypeOK, NEW i, NEW j, Best(i), Best(j)
    PROVE  i = j
<1>1. i \in 1..Len(rows) /\ j \in 1..Len(rows) /\ Covers(i) /\ Covers(j)
  BY DEF Best
<1>2. Len(rows[i].zone) \in Nat /\ Len(rows[j].zone) \in Nat
  BY <1>1, RowLength
<1>3. \/ Len(rows[j].zone) < Len(rows[i].zone)
      \/ Len(rows[j].zone) = Len(rows[i].zone) /\ j <= i
  BY <1>1 DEF Best
<1>4. \/ Len(rows[i].zone) < Len(rows[j].zone)
      \/ Len(rows[i].zone) = Len(rows[j].zone) /\ i <= j
  BY <1>1 DEF Best
<1> QED
  BY <1>1, <1>2, <1>3, <1>4
-----------------------------------------------------------------------------
(***************************************************************************)
(* The inductive invariant.                                                *)
(***************************************************************************)

\* A packet past the gates is a verified UPDATE with a zone.
Gated == pc \in {"walking", "routed", "handed"} \/ route # NoRoute =>
            /\ Verdict = "good" /\ packet.opcode = "UPDATE"
            /\ packet.zone # NoZone

\* The walk has tried every candidate longer than its present one.
Walked == pc = "walking" => up <= Len(ZoneName) /\ Unmatched(up)

Staged == /\ pc = "arrived" => up = 0
          /\ pc \in {"arrived", "walking"} => route = NoRoute /\ handed = NoOp
          /\ pc \in {"routed", "handed"} => route # NoRoute
          /\ pc # "done" => reply = "none"
          /\ pc = "routed" => handed = NoOp

SInv == TypeOK /\ Gated /\ Walked /\ Staged /\ RoutesToLongest /\ SurfaceIsExact

\* The two halves of the write surface, the code's and the reference's,
\* agree once the route is known.
LEMMA SurfacesAgree ==
    ASSUME TypeOK, Gated, RoutesToLongest, route # NoRoute
    PROVE  (OnSurface /\ WellFormed(packet.update[1], rows[route].multi))
             <=> IsChallenge
<1>1. Best(route)
  BY DEF RoutesToLongest
<1>2. \A i : Best(i) => i = route
  BY <1>1, BestIsUnique
<1>3. /\ packet.wire # "malformed" /\ packet.tsig = "good"
      /\ packet.key \in keyring
      /\ packet.opcode = "UPDATE" /\ packet.zone # NoZone
  BY DEF Gated, Verdict
<1>4. packet \in Packet
  BY SurfaceAssumption DEF TypeOK
<1>5. route \in 1..Len(rows)
  BY <1>1 DEF Best
<1>6. CASE Len(packet.update) # 1
  BY <1>6 DEF OnSurface, IsChallenge
<1>7. CASE Len(packet.update) = 1
  <2> DEFINE s == packet.update[1]
  <2>1. packet.update \in Seq(RRset)
    BY <1>4 DEF Packet
  <2>2. s \in RRset
    BY <2>1, <1>7
  <2>3. /\ s.deleting \in {"add", "NONE", "ANY", "other"}
        /\ s.rdatas \subseteq Rdata
    BY <2>2 DEF RRset
  <2>4. \A x \in s.rdatas : x.token \in Token
    BY <2>3 DEF Rdata
  <2>5. \A x \in s.rdatas :
           (x.token \in Ascii /\ Length[x.token] # 0
               /\ Length[x.token] <= MaxTxtLen)
           <=> x.token \in {t \in Ascii : Length[t] \in 1..MaxTxtLen}
    BY <2>4, SurfaceAssumption
  <2>6. (OnSurface /\ WellFormed(s, rows[route].multi)) <=>
          /\ s.type = "TXT" /\ s.deleting # "other"
          /\ Canonical(s.owner) = Canonical(rows[route].record)
          /\ s.deleting = "add" => s.rdatas # {}
          /\ rows[route].multi \/ \A x, y \in s.rdatas : x = y
          /\ \A x \in s.rdatas :
                x.token \in {t \in Ascii : Length[t] \in 1..MaxTxtLen}
    BY <1>7, <2>3, <2>5 DEF OnSurface, WellFormed, Action
  <2>7. IsChallenge <=>
          \E i \in 1..Len(rows) :
            /\ Best(i)
            /\ s.type = "TXT" /\ s.deleting # "other"
            /\ Canonical(s.owner) = Canonical(rows[i].record)
            /\ s.deleting = "add" => s.rdatas # {}
            /\ rows[i].multi \/ \A x, y \in s.rdatas : x = y
            /\ \A x \in s.rdatas :
                  x.token \in {t \in Ascii : Length[t] \in 1..MaxTxtLen}
    BY <1>3, <1>7, Zenon DEF IsChallenge
  <2>8. IsChallenge <=>
          /\ s.type = "TXT" /\ s.deleting # "other"
          /\ Canonical(s.owner) = Canonical(rows[route].record)
          /\ s.deleting = "add" => s.rdatas # {}
          /\ rows[route].multi \/ \A x, y \in s.rdatas : x = y
          /\ \A x \in s.rdatas :
                x.token \in {t \in Ascii : Length[t] \in 1..MaxTxtLen}
    <3> HIDE DEF s
    <3> QED
      BY <2>7, <1>1, <1>2, <1>5, Zenon
  <2> QED
    BY <2>6, <2>8, Zenon
<1> QED
  BY <1>6, <1>7
-----------------------------------------------------------------------------
\* A packet that has just arrived satisfies the invariant.
LEMMA SInvInit == Init => SInv
<1> SUFFICES ASSUME Init  PROVE SInv
  OBVIOUS
<1>1. TypeOK
  BY DEF Init, TypeOK
<1> QED
  BY <1>1 DEF Init, SInv, Gated, Walked, Staged, RoutesToLongest, SurfaceIsExact

\* Every way to answer keeps the types.
LEMMA ReplyType ==
    ASSUME TypeOK,
           NEW rc \in {"none", "NOTAUTH", "REFUSED", "NOERROR", "SERVFAIL"},
           NEW s \in BOOLEAN,
           NEW f \in {"none", "absent", "UNKNOWNKEY", "BADSIG", "BADTIME",
                     "BADKEY"},
           Reply(rc, s, f)
    PROVE  TypeOK'
BY DEF TypeOK, Reply, input

\* _reply sends its rcode or nothing.
LEMMA ResponseFacts ==
    ASSUME TypeOK, NEW rc \in {"NOTAUTH", "REFUSED", "NOERROR", "SERVFAIL"},
           NEW f \in {"none", "absent"}, MakeResponse(rc, f)
    PROVE  /\ Reply(rc, HadTsig, f) \/ Reply("none", FALSE, f)
           /\ UNCHANGED input /\ pc' = "done" /\ route' = route
           /\ handed' = handed /\ reply' \in {"none", rc}
           /\ TypeOK'
<1>1. Reply(rc, HadTsig, f) \/ Reply("none", FALSE, f)
  BY DEF MakeResponse
<1>2. HadTsig \in BOOLEAN
  BY DEF HadTsig
<1>3. TypeOK'
  BY <1>1, <1>2, ReplyType
<1> QED
  BY <1>1, <1>3 DEF Reply

\* What the input decides stays decided.
LEMMA InputFixed ==
    ASSUME UNCHANGED input
    PROVE  /\ Verdict' = Verdict /\ ZoneName' = ZoneName
           /\ \A k : Candidate(k)' = Candidate(k)
           /\ \A z : RowsOf(z)' = RowsOf(z)
           /\ \A k : Unmatched(k)' = Unmatched(k)
           /\ \A i : Covers(i)' = Covers(i)
           /\ \A i : Best(i)' = Best(i)
           /\ IsChallenge' = IsChallenge
<1>1. rows' = rows /\ keyring' = keyring /\ packet' = packet
  BY DEF input
<1> QED
  BY <1>1 DEF Verdict, ZoneName, Candidate, RowsOf, Unmatched, Covers, Best,
              IsChallenge

\* An answer from before the walk: the packet has no route, and is no
\* challenge or gets no refusal.
LEMMA EarlyReply ==
    ASSUME SInv, pc = "arrived",
           NEW rc \in {"none", "NOTAUTH", "REFUSED"}, NEW s \in BOOLEAN,
           NEW f \in {"none", "absent", "UNKNOWNKEY", "BADSIG", "BADTIME",
                     "BADKEY"},
           Reply(rc, s, f),
           ~(Verdict = "good" /\ packet.opcode = "UPDATE"
                /\ packet.zone # NoZone)
    PROVE  SInv'
<1>1. TypeOK'
  BY ReplyType DEF SInv
<1>2. UNCHANGED input
  BY DEF Reply
<1>3. ~IsChallenge
  BY DEF IsChallenge, Verdict
<1>4. route' = NoRoute /\ handed' = NoOp /\ pc' = "done"
  BY DEF SInv, Staged, Reply
<1>5. Gated' /\ Walked' /\ Staged'
  BY <1>4 DEF Gated, Walked, Staged
<1>6. RoutesToLongest'
  BY <1>2, <1>4, InputFixed DEF RoutesToLongest, input
<1>7. SurfaceIsExact'
  BY <1>2, <1>3, <1>4, InputFixed DEF SurfaceIsExact
<1> QED
  BY <1>1, <1>5, <1>6, <1>7 DEF SInv

\* Every step of the pipeline keeps the invariant.
LEMMA SInvStep == SInv /\ [Next]_vars => SInv'
<1> SUFFICES ASSUME SInv, [Next]_vars  PROVE SInv'
  OBVIOUS
<1> USE DEF SInv
<1>1. CASE Drop
  BY <1>1, EarlyReply DEF Drop
<1>2. CASE TsigFailure
  <2>1. (Verdict # "UNKNOWNKEY") \in BOOLEAN
    OBVIOUS
  <2> QED
    BY <1>2, <2>1, EarlyReply DEF TsigFailure
<1>3. CASE RefuseUnsigned
  <2>1. HadTsig \in BOOLEAN
    BY DEF HadTsig
  <2> QED
    BY <1>3, <2>1, ResponseFacts, EarlyReply DEF RefuseUnsigned, AuthGate
<1>4. CASE RefuseEarly
  <2>1. HadTsig \in BOOLEAN
    BY DEF HadTsig
  <2> QED
    BY <1>4, <2>1, ResponseFacts, EarlyReply DEF RefuseEarly
<1>5. CASE StartWalk
  <2>1. UNCHANGED input /\ TypeOK'
    BY <1>5 DEF StartWalk, TypeOK, input
  <2>2. Verdict = "good" /\ packet.opcode = "UPDATE" /\ packet.zone # NoZone
    BY <1>5 DEF StartWalk, Passed, AuthGate
  <2>3. up = 0
    BY <1>5 DEF StartWalk, Staged
  <2>4. Len(ZoneName) \in Nat
    BY <2>2, ZoneIsName
  <2>5. Walked'
    BY <2>1, <2>3, <2>4, <1>5, InputFixed DEF StartWalk, Walked, Unmatched
  <2>6. Gated' /\ Staged'
    BY <2>1, <2>2, <1>5, InputFixed DEF StartWalk, Gated, Staged, input
  <2>7. RoutesToLongest' /\ SurfaceIsExact'
    BY <2>1, <1>5, InputFixed
       DEF StartWalk, RoutesToLongest, SurfaceIsExact, Staged
  <2> QED
    BY <2>1, <2>5, <2>6, <2>7
<1>6. CASE Hit
  <2>1. UNCHANGED input
    BY <1>6 DEF Hit
  <2>2. Best(RowKept(Candidate(up)))
    BY <1>6, HitIsBest DEF Hit, Walked, Gated
  <2>3. RowKept(Candidate(up)) \in 1..Len(rows)
    BY <2>2 DEF Best
  <2>4. route' \in Nat /\ Best(route')
    BY <2>2, <2>3, <1>6, RowsAreSeq DEF Hit
  <2>5. TypeOK'
    BY <2>4, <1>6 DEF Hit, TypeOK, input
  <2>6. Gated' /\ Walked' /\ Staged'
    BY <2>1, <2>4, <1>6, InputFixed, SurfaceAssumption
       DEF Hit, Gated, Walked, Staged, input
  <2>7. RoutesToLongest'
    BY <2>1, <2>4, <1>6, InputFixed DEF Hit, RoutesToLongest
  <2>8. SurfaceIsExact'
    BY <2>1, <1>6, InputFixed DEF Hit, SurfaceIsExact, Staged
  <2> QED
    BY <2>5, <2>6, <2>7, <2>8
<1>7. CASE Climb
  <2>1. UNCHANGED input
    BY <1>7 DEF Climb
  <2>2. TypeOK'
    BY <1>7 DEF Climb, TypeOK, input
  <2>3. Len(ZoneName) \in Nat
    BY <1>7, ZoneIsName DEF Climb, Gated
  <2>4. up \in Nat /\ up' = up + 1 /\ up + 1 <= Len(ZoneName)
    BY <1>7, <2>3 DEF Climb, TypeOK
  <2>5. Unmatched(up + 1)
    BY <1>7, <2>3, <2>4 DEF Climb, Walked, Unmatched
  <2>6. Walked'
    BY <2>1, <2>4, <2>5, InputFixed DEF Walked
  <2>7. Gated' /\ Staged'
    BY <2>1, <1>7, InputFixed DEF Climb, Gated, Staged, input
  <2>8. RoutesToLongest' /\ SurfaceIsExact'
    BY <2>1, <1>7, InputFixed
       DEF Climb, RoutesToLongest, SurfaceIsExact, Staged
  <2> QED
    BY <2>2, <2>6, <2>7, <2>8
<1>8. CASE NoParent
  <2>1. UNCHANGED input /\ pc' = "done" /\ route' = route /\ handed' = handed
    BY <1>8, ResponseFacts DEF NoParent
  <2>2. TypeOK'
    BY <1>8, ResponseFacts DEF NoParent
  <2>3. route = NoRoute /\ handed = NoOp
    BY <1>8 DEF NoParent, Staged
  <2>4. Len(ZoneName) \in Nat
    BY <1>8, ZoneIsName DEF NoParent, Gated
  <2>5. \A i \in 1..Len(rows) : ~Covers(i)
    BY <1>8, <2>4, MissCoversNothing DEF NoParent, Walked
  <2>6. ~IsChallenge
    BY <2>5 DEF IsChallenge, Best
  <2>7. Gated' /\ Walked' /\ Staged'
    BY <2>1, <2>3 DEF Gated, Walked, Staged
  <2>8. RoutesToLongest'
    BY <2>1, <2>3, <2>5, InputFixed DEF RoutesToLongest, input
  <2>9. SurfaceIsExact'
    BY <2>1, <2>3, <2>6, InputFixed DEF SurfaceIsExact
  <2> QED
    BY <2>2, <2>7, <2>8, <2>9
<1>9. CASE Hand
  <2>1. UNCHANGED input /\ pc' = "handed" /\ route' = route /\ reply' = reply
    BY <1>9 DEF Hand
  <2>2. route # NoRoute
    BY <1>9 DEF Hand, Staged
  <2>3. IsChallenge
    BY <1>9, <2>2, SurfacesAgree DEF Hand
  <2>4. handed' \in Op
    <3>1. packet \in Packet /\ Len(packet.update) = 1
      BY <1>9, SurfaceAssumption DEF TypeOK, Hand, OnSurface
    <3>2. packet.update \in Seq(RRset)
      BY <3>1 DEF Packet
    <3>3. packet.update[1] \in RRset
      BY <3>1, <3>2
    <3>4. Tokens(packet.update[1]) \in SUBSET Token
      BY <3>3 DEF RRset, Rdata, Tokens
    <3>5. route \in 1..Len(rows)
      BY <2>2 DEF RoutesToLongest, Best
    <3>6. rows[route] \in Row
      BY <3>5, RowsAreSeq
    <3>7. Action(packet.update[1]) \in {"present", "cleanup"}
      BY DEF Action
    <3> QED
      BY <1>9, <3>4, <3>6, <3>7 DEF Hand, Op, Row
  <2>5. TypeOK'
    BY <2>4, <1>9 DEF Hand, TypeOK, input
  <2>6. Gated' /\ Walked' /\ Staged'
    BY <2>1, <2>2, <1>9, InputFixed DEF Hand, Gated, Walked, Staged, input
  <2>7. RoutesToLongest'
    BY <2>1, InputFixed DEF RoutesToLongest
  <2>8. SurfaceIsExact'
    BY <2>1, <2>3, <1>9, InputFixed DEF Hand, SurfaceIsExact, Staged
  <2> QED
    BY <2>5, <2>6, <2>7, <2>8
<1>10. CASE Violation
  <2>1. UNCHANGED input /\ pc' = "done" /\ route' = route /\ handed' = handed
    BY <1>10, ResponseFacts DEF Violation
  <2>2. TypeOK'
    BY <1>10, ResponseFacts DEF Violation
  <2>3. route # NoRoute /\ handed = NoOp
    BY <1>10 DEF Violation, Staged
  <2>4. ~IsChallenge
    BY <1>10, <2>3, SurfacesAgree DEF Violation
  <2>5. Gated' /\ Walked' /\ Staged'
    BY <2>1, <2>3, InputFixed DEF Gated, Walked, Staged, input
  <2>6. RoutesToLongest'
    BY <2>1, <2>3, InputFixed DEF RoutesToLongest
  <2>7. SurfaceIsExact'
    BY <2>1, <2>3, <2>4, InputFixed DEF SurfaceIsExact
  <2> QED
    BY <2>2, <2>5, <2>6, <2>7
<1>11. CASE Answered
  <2>1. /\ UNCHANGED input /\ pc' = "done" /\ route' = route
        /\ handed' = handed /\ reply' \in {"none", "NOERROR", "SERVFAIL"}
    BY <1>11, ResponseFacts DEF Answered, Reply
  <2>2. TypeOK'
    BY <1>11, ResponseFacts, ReplyType DEF Answered
  <2>3. route # NoRoute
    BY <1>11 DEF Answered, Staged
  <2>4. Gated' /\ Walked' /\ Staged'
    BY <2>1, <2>3, InputFixed DEF Gated, Walked, Staged, input
  <2>5. RoutesToLongest' /\ SurfaceIsExact'
    BY <2>1, <2>3, InputFixed DEF RoutesToLongest, SurfaceIsExact
  <2> QED
    BY <2>2, <2>4, <2>5
<1>12. CASE UNCHANGED vars
  <2>1. UNCHANGED input /\ TypeOK'
    BY <1>12 DEF vars, input, TypeOK
  <2> QED
    BY <1>12, <2>1, InputFixed
       DEF vars, input, Gated, Walked, Staged, RoutesToLongest, SurfaceIsExact
<1> QED
  BY <1>1, <1>2, <1>3, <1>4, <1>5, <1>6, <1>7, <1>8, <1>9, <1>10, <1>11, <1>12
     DEF Next

\* The invariant holds in every reachable state.
LEMMA SInvariance == Spec => []SInv
BY SInvInit, SInvStep, PTL DEF Spec

\* The pipeline's state is well typed for every table, keyring and packet.
THEOREM SurfaceTypeCorrect == Spec => []TypeOK
BY SInvariance, PTL DEF SInv

\* RoutingTable.match is a lookup by longest suffix.
THEOREM MatchIsLongestSuffix == Spec => []RoutesToLongest
BY SInvariance, PTL DEF SInv

\* A provider is called for exactly the updates on the write surface.
THEOREM WriteSurfaceIsExact == Spec => []SurfaceIsExact
BY SInvariance, PTL DEF SInv
-----------------------------------------------------------------------------
\* The answers from behind the gates go to holders of a key.
LEMMA SignedStep ==
    SInv /\ SignedToKeyHolders /\ [Next]_vars => SignedToKeyHolders'
<1> SUFFICES ASSUME SInv, SignedToKeyHolders, [Next]_vars
             PROVE  SignedToKeyHolders'
  OBVIOUS
<1>1. packet.tsig \in {"absent", "good", "BADSIG", "BADTIME", "BADKEY"}
  BY SurfaceAssumption DEF SInv, TypeOK, Packet
<1>2. Verdict = "good" => HadTsig /\ packet.key \in keyring
  BY <1>1 DEF Verdict, HadTsig
<1>3. CASE Drop
  BY <1>3 DEF Drop, Reply, SignedToKeyHolders
<1>4. CASE TsigFailure
  <2>1. /\ HadTsig /\ Verdict # "none"
        /\ Verdict # "UNKNOWNKEY" <=> packet.key \in keyring
    BY <1>1, <1>4 DEF TsigFailure, Verdict, HadTsig
  <2>2. UNCHANGED <<packet, keyring>>
    BY <1>4 DEF TsigFailure, Reply, input
  <2>3. \/ reply' = "none"
        \/ /\ reply' = "NOTAUTH" /\ failure' = Verdict
           /\ signed' = (Verdict # "UNKNOWNKEY")
    BY <1>4 DEF TsigFailure, Reply
  <2> QED
    BY <2>1, <2>2, <2>3 DEF SignedToKeyHolders, HadTsig
<1>5. CASE RefuseUnsigned
  <2>1. ~HadTsig
    BY <1>1, <1>5 DEF RefuseUnsigned, AuthGate, Verdict, HadTsig
  <2>2. Reply("NOTAUTH", HadTsig, "absent") \/ Reply("none", FALSE, "absent")
    BY <1>5 DEF RefuseUnsigned, MakeResponse
  <2> QED
    BY <2>1, <2>2 DEF Reply, input, SignedToKeyHolders, HadTsig
<1>6. ASSUME Verdict = "good", NEW rc \in {"REFUSED", "NOERROR", "SERVFAIL"},
             MakeResponse(rc, "none") \/ Reply("none", FALSE, "none")
      PROVE  SignedToKeyHolders'
  <2>1. CASE Reply("none", FALSE, "none")
    BY <2>1 DEF Reply, SignedToKeyHolders
  <2>2. CASE Reply(rc, HadTsig, "none")
    BY <1>2, <1>6, <2>2 DEF Reply, input, SignedToKeyHolders, HadTsig
  <2> QED
    BY <1>6, <2>1, <2>2 DEF MakeResponse
<1>7. CASE RefuseEarly
  BY <1>6, <1>7 DEF RefuseEarly, Passed, AuthGate
<1>8. CASE NoParent \/ Violation \/ Answered
  <2>1. Verdict = "good"
    BY <1>8 DEF NoParent, Violation, Answered, SInv, Gated
  <2> QED
    BY <1>6, <1>8, <2>1 DEF NoParent, Violation, Answered
<1>9. CASE StartWalk \/ Hit \/ Climb \/ Hand
  BY <1>9 DEF StartWalk, Hit, Climb, Hand, SignedToKeyHolders
<1>10. CASE UNCHANGED vars
  BY <1>10 DEF vars, SignedToKeyHolders, HadTsig
<1> QED
  BY <1>3, <1>4, <1>5, <1>7, <1>8, <1>9, <1>10 DEF Next

\* For every keyring and packet, an answer is signed exactly if the sender
\* presented a key of the relay, and is counted exactly if it is NOTAUTH.
THEOREM AnswersAreSignedToKeyHolders == Spec => []SignedToKeyHolders
<1>1. Init => SignedToKeyHolders
  BY DEF Init, SignedToKeyHolders
<1> QED
  BY <1>1, SignedStep, SInvariance, PTL DEF Spec
=============================================================================
