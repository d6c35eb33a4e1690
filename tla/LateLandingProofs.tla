------------------------- MODULE LateLandingProofs --------------------------
(***************************************************************************)
(* Theorems about LateLanding, for every set of requests, records and      *)
(* backends and any number of attempts: what late landings cannot spoil.   *)
(***************************************************************************)
EXTENDS LateLanding, DispatcherProofs

\* What request x, if it stands, asks of value v of a record holding C.
Asks(x, b, n, v, C) ==
    /\ /\ Adds(x, b, n, v)
       /\ \A q \in Request : Removes(q, b, n, v) => ticket[q] < ticket[x]
       => v \in C
    /\ /\ Removes(x, b, n, v)
       /\ \A q \in Request : Adds(q, b, n, v) => ticket[q] < ticket[x]
       => v \notin C

\* LaterRequestsStand for one record, on Route 53 or on HE.
StandsAt(b, n) ==
    /\ b \in Multi => \A v \in Value : \A r \in Standing(b, n) :
                        Asks(r, b, n, v, txt[b][n])
    /\ b \notin Multi /\ Standing(b, n) # {} =>
          \E r \in Standing(b, n) :
             /\ \A q \in Standing(b, n) : ticket[q] <= ticket[r]
             /\ txt[b][n] = Overwrite(op[r])

AllStand == \A b \in Backend, n \in Record : StandsAt(b, n)

\* A change under way is the operation's effect on what it read, which held
\* all that those who still stand asked for: late landings make nobody ask
\* for more.  One that came over the changing request itself left nobody.
Underway(r) ==
    LET b == op[r].backend
        n == op[r].record
    IN  /\ b \notin Multi => target[r] = Overwrite(op[r])
        /\ b \in Multi =>
              /\ target[r] = Merge(op[r], seen[r])
              /\ \A v \in Value, x \in Standing(b, n) :
                    x # r => Asks(x, b, n, v, seen[r])
        /\ r \in hit => Standing(b, n) = {}

Aimed == \A r \in Request : pc[r] = "changing" => Underway(r)

\* While the call lasts, what it left behind are attempts it has repeated.
Orphans == \A r \in Request :
              pc[r] \notin {"auditing", "done"} => orphan[r] <= tries[r]

\* The inductive invariant.
LInv == /\ LateTypeOK /\ Places /\ LockDiscipline /\ TicketsDiffer
        /\ FifoPerRecord /\ Books /\ Orphans /\ Aimed /\ AllStand
-----------------------------------------------------------------------------
\* LaterRequestsStand, record by record.
LEMMA AllStandIsLater == AllStand <=> LaterRequestsStand
BY ConstantsAssumption DEF AllStand, StandsAt, LaterRequestsStand, Asks

\* Where the merge of an operation leaves a value.
LEMMA MergeFacts ==
    ASSUME NEW o \in Op, NEW v \in Value, NEW C \in Content
    PROVE  /\ o.action = "present" /\ v \in o.values => v \in Merge(o, C)
           /\ o.action = "cleanup" /\ (o.values = {} \/ v \in o.values) =>
                 v \notin Merge(o, C)
           /\ v \in C /\ ~(o.action = "cleanup" /\ (o.values = {} \/ v \in o.values))
                 => v \in Merge(o, C)
           /\ v \notin C /\ ~(o.action = "present" /\ v \in o.values) =>
                 v \notin Merge(o, C)
BY DEF Merge, Op

\* Whoever holds the record's lock came after all that has landed there.
LEMMA LastInService ==
    ASSUME TypeOK, Places, TicketsDiffer, FifoPerRecord,
           NEW r \in Request, InService(r), NEW x \in Request, x # r,
           landed[x], op[x].record = op[r].record
    PROVE  ticket[x] < ticket[r]
<1>1. op[x] # NoOp /\ op[r] # NoOp /\ pc[r] # "done"
  BY DEF Places, InService
<1>2. ticket[x] \in Nat /\ ticket[r] \in Nat
  BY DEF TypeOK
<1>3. ticket[x] # ticket[r]
  BY <1>1 DEF TicketsDiffer
<1>4. ~(ticket[r] < ticket[x])
  BY <1>1 DEF FifoPerRecord
<1> QED
  BY <1>2, <1>3, <1>4

\* The step leaves what has landed at a record, and its standing, as it was.
Alike(b, n) ==
    \A q \in Request :
        /\ (landed'[q] /\ op'[q].backend = b /\ op'[q].record = n) <=>
              (landed[q] /\ op[q].backend = b /\ op[q].record = n)
        /\ landed[q] /\ op[q].backend = b /\ op[q].record = n =>
              op'[q] = op[q] /\ ticket'[q] = ticket[q] /\ (q \in hit' <=> q \in hit)

LEMMA AlikeFacts ==
    ASSUME NEW b, NEW n, Alike(b, n)
    PROVE  /\ Standing(b, n)' = Standing(b, n)
           /\ \A q \in Standing(b, n) :
                 q \in Request /\ op'[q] = op[q] /\ ticket'[q] = ticket[q]
           /\ \A q \in Request, v \in Value :
                 /\ (Adds(q, b, n, v)' <=> Adds(q, b, n, v))
                 /\ (Removes(q, b, n, v)' <=> Removes(q, b, n, v))
                 /\ Adds(q, b, n, v) \/ Removes(q, b, n, v) =>
                       ticket'[q] = ticket[q]
<1>1. Standing(b, n)' = Standing(b, n)
  BY DEF Alike, Standing, LandedAt
<1>2. \A q \in Standing(b, n) :
         q \in Request /\ op'[q] = op[q] /\ ticket'[q] = ticket[q]
  BY DEF Alike, Standing, LandedAt
<1>3. ASSUME NEW q \in Request, NEW v \in Value
      PROVE  /\ (Adds(q, b, n, v)' <=> Adds(q, b, n, v))
             /\ (Removes(q, b, n, v)' <=> Removes(q, b, n, v))
             /\ Adds(q, b, n, v) \/ Removes(q, b, n, v) =>
                   ticket'[q] = ticket[q]
  <2>1. CASE landed[q] /\ op[q].backend = b /\ op[q].record = n
    BY <2>1 DEF Alike, Adds, Removes
  <2>2. CASE ~(landed[q] /\ op[q].backend = b /\ op[q].record = n)
    BY <2>2 DEF Alike, Adds, Removes
  <2> QED
    BY <2>1, <2>2
<1> QED
  BY <1>1, <1>2, <1>3

\* So a record that keeps its content too keeps what stands there ...
LEMMA AlikeStands ==
    ASSUME NEW b \in Backend, NEW n \in Record, Alike(b, n), StandsAt(b, n),
           txt'[b][n] = txt[b][n]
    PROVE  StandsAt(b, n)'
<1>1. CASE b \in Multi
  BY <1>1, AlikeFacts DEF StandsAt, Asks
<1>2. CASE b \notin Multi
  BY <1>2, AlikeFacts DEF StandsAt
<1> QED
  BY <1>1, <1>2

\* ... and a change under way at it stays well aimed.
LEMMA AlikeUnderway ==
    ASSUME NEW r \in Request, Alike(op[r].backend, op[r].record), Underway(r),
           op'[r] = op[r], seen'[r] = seen[r], target'[r] = target[r],
           r \in hit' <=> r \in hit
    PROVE  Underway(r)'
<1>1. PICK b, n : b = op[r].backend /\ n = op[r].record
  OBVIOUS
<1>2. Alike(b, n) /\ op'[r].backend = b /\ op'[r].record = n
  BY <1>1
<1>3. /\ Standing(b, n)' = Standing(b, n)
      /\ \A q \in Standing(b, n) : q \in Request /\ ticket'[q] = ticket[q]
      /\ \A q \in Request, v \in Value :
            /\ (Adds(q, b, n, v)' <=> Adds(q, b, n, v))
            /\ (Removes(q, b, n, v)' <=> Removes(q, b, n, v))
            /\ Adds(q, b, n, v) \/ Removes(q, b, n, v) => ticket'[q] = ticket[q]
  BY <1>2, AlikeFacts
<1>4. /\ b \notin Multi => target[r] = Overwrite(op[r])
      /\ b \in Multi => target[r] = Merge(op[r], seen[r])
      /\ r \in hit => Standing(b, n) = {}
  BY <1>1 DEF Underway
<1>5. ASSUME b \in Multi, NEW v \in Value, NEW x \in Standing(b, n), x # r
      PROVE  Asks(x, b, n, v, seen[r])
  BY <1>1, <1>5 DEF Underway
<1>6. ASSUME b \in Multi, NEW v \in Value, NEW x \in Standing(b, n), x # r
      PROVE  Asks(x, b, n, v, seen[r])'
  BY <1>3, <1>5, <1>6 DEF Asks
<1> QED
  BY <1>2, <1>3, <1>4, <1>6 DEF Underway
-----------------------------------------------------------------------------
\* A change under way is taken; its call may be over with that or not.
Lands(r) == /\ pc[r] = "changing" /\ Land(r)
            /\ UNCHANGED <<op, ticket, seen, target, hit>>
            /\ \A q \in Request : pc'[q] = "changing" => pc[q] = "changing"

\* Two tasks inside the provider for one record are one.
LEMMA OneInService ==
    ASSUME LockDiscipline, NEW r \in Request, NEW q \in Request,
           InService(r), InService(q), op[q].record = op[r].record
    PROVE  q = r
BY DEF LockDiscipline

\* Landing changes what has landed at its own record only.
LEMMA LandElsewhere ==
    ASSUME TypeOK, Places, NEW r \in Request, Lands(r),
           NEW b \in Backend, NEW n \in Record,
           op[r].backend # b \/ op[r].record # n
    PROVE  Alike(b, n) /\ txt'[b][n] = txt[b][n]
<1>1. op[r] \in Op
  BY DEF Lands, Places, TypeOK
<1>2. \A q \in Request : q # r => landed'[q] = landed[q]
  BY DEF Lands, Land, TypeOK
<1>3. Alike(b, n)
  BY <1>2 DEF Alike, Lands
<1>4. txt'[b][n] = txt[b][n]
  BY <1>1 DEF Lands, Land, TypeOK, Op
<1> QED
  BY <1>3, <1>4

\* What lands stands, on top of all that stood when it was aimed.
LEMMA LandStands ==
    ASSUME TypeOK, Places, LockDiscipline, TicketsDiffer, FifoPerRecord, Aimed,
           AllStand, hit \subseteq {q \in Request : landed[q]},
           NEW r \in Request, Lands(r)
    PROVE  AllStand' /\ Aimed'
<1>1. op[r] \in Op /\ InService(r) /\ Underway(r)
  BY DEF Lands, Places, TypeOK, InService, Aimed
<1>2. PICK b, n : b = op[r].backend /\ n = op[r].record
  OBVIOUS
<1>3. b \in Backend /\ n \in Record /\ op[r].action \in {"present", "cleanup"}
  BY <1>1, <1>2 DEF Op
<1>4. /\ landed'[r] /\ op' = op /\ ticket' = ticket /\ hit' = hit
      /\ seen' = seen /\ target' = target
      /\ txt'[b][n] = target[r]
      /\ \A q \in Request : q # r => landed'[q] = landed[q]
  BY <1>2, <1>3 DEF Lands, Land, TypeOK
<1>5. Standing(b, n)' = Standing(b, n) \cup ({r} \ hit)
  BY <1>2, <1>4 DEF Standing, LandedAt
<1>6. /\ r \in hit => Standing(b, n)' = {}
      /\ r \notin hit => Standing(b, n)' = Standing(b, n) \cup {r}
  BY <1>1, <1>2, <1>5 DEF Underway
<1>7. \A x \in Standing(b, n) : /\ x \in Request /\ landed[x]
                                /\ op[x].backend = b /\ op[x].record = n
                                /\ x # r => ticket[x] < ticket[r]
  BY <1>1, <1>2, LastInService DEF Standing, LandedAt
<1>8. \A q \in Request, v \in Value :
         /\ q # r => /\ (Adds(q, b, n, v)' <=> Adds(q, b, n, v))
                     /\ (Removes(q, b, n, v)' <=> Removes(q, b, n, v))
         /\ Adds(q, b, n, v) => Adds(q, b, n, v)'
         /\ Removes(q, b, n, v) => Removes(q, b, n, v)'
  BY <1>4 DEF Adds, Removes
<1>9. \A v \in Value :
         /\ Adds(r, b, n, v)' <=>
               op[r].action = "present" /\ v \in op[r].values
         /\ Removes(r, b, n, v)' <=>
               op[r].action = "cleanup" /\ (op[r].values = {} \/ v \in op[r].values)
  BY <1>2, <1>4 DEF Adds, Removes
<1>10. \A q \in Request : ticket[q] \in Nat
  BY DEF TypeOK
<1>11. ASSUME b \in Multi, r \notin hit, NEW v \in Value, NEW x \in Standing(b, n)'
       PROVE  Asks(x, b, n, v, txt[b][n])'
  <2>1. target[r] = Merge(op[r], seen[r]) /\ seen[r] \in Content
    BY <1>1, <1>2, <1>11 DEF Underway, TypeOK
  <2>2. CASE x = r
    BY <1>1, <1>4, <1>9, <2>1, <2>2, MergeFacts DEF Asks
  <2>3. CASE x # r
    <3>1. x \in Standing(b, n) /\ x \in Request /\ ticket[x] < ticket[r]
      BY <1>6, <1>7, <1>11, <2>3
    <3>2. Asks(x, b, n, v, seen[r])
      BY <1>1, <1>2, <1>11, <2>3, <3>1 DEF Underway
    <3>3. ASSUME Adds(x, b, n, v)',
                 \A q \in Request : Removes(q, b, n, v)' => ticket[q] < ticket[x]
          PROVE  v \in Merge(op[r], seen[r])
      <4>1. v \in seen[r]
        BY <1>8, <2>3, <3>1, <3>2, <3>3 DEF Asks
      <4>2. ~Removes(r, b, n, v)'
        BY <1>10, <3>1, <3>3
      <4> QED
        BY <1>1, <1>9, <2>1, <4>1, <4>2, MergeFacts
    <3>4. ASSUME Removes(x, b, n, v)',
                 \A q \in Request : Adds(q, b, n, v)' => ticket[q] < ticket[x]
          PROVE  v \notin Merge(op[r], seen[r])
      <4>1. v \notin seen[r]
        BY <1>8, <2>3, <3>1, <3>2, <3>4 DEF Asks
      <4>2. ~Adds(r, b, n, v)'
        BY <1>10, <3>1, <3>4
      <4> QED
        BY <1>1, <1>9, <2>1, <4>1, <4>2, MergeFacts
    <3> QED
      BY <1>4, <2>1, <3>3, <3>4 DEF Asks
  <2> QED
    BY <2>2, <2>3
<1>12. StandsAt(b, n)'
  <2>1. CASE b \in Multi
    BY <1>6, <1>11, <2>1 DEF StandsAt
  <2>2. CASE b \notin Multi
    <3>1. target[r] = Overwrite(op[r])
      BY <1>1, <1>2, <2>2 DEF Underway
    <3>2. CASE r \notin hit
      <4>1. \A q \in Standing(b, n)' : ticket[q] <= ticket[r]
        BY <1>6, <1>7, <1>10, <3>2
      <4> QED
        BY <1>4, <1>6, <2>2, <3>1, <3>2, <4>1 DEF StandsAt
    <3>3. CASE r \in hit
      BY <1>6, <2>2, <3>3 DEF StandsAt
    <3> QED
      BY <3>2, <3>3
  <2> QED
    BY <2>1, <2>2
<1>13. AllStand'
  <2>1. ASSUME NEW d \in Backend, NEW k \in Record, d # b \/ k # n
        PROVE  StandsAt(d, k)'
    <3>1. Alike(d, k) /\ txt'[d][k] = txt[d][k]
      BY <1>2, <2>1, LandElsewhere
    <3>2. StandsAt(d, k)
      BY DEF AllStand
    <3> QED
      BY <3>1, <3>2, AlikeStands
  <2> QED
    BY <1>12, <2>1 DEF AllStand
<1>14. Aimed'
  <2>1. SUFFICES ASSUME NEW q \in Request, pc'[q] = "changing"
                 PROVE  Underway(q)'
    BY DEF Aimed
  <2>2. pc[q] = "changing" /\ InService(q) /\ Underway(q)
    BY <2>1 DEF Lands, Aimed, InService
  <2>3. CASE q # r
    <3>1. op[q].record # n /\ op[q] \in Op
      BY <1>1, <1>2, <2>2, <2>3, OneInService DEF Places, TypeOK
    <3>2. Alike(op[q].backend, op[q].record)
      BY <1>2, <3>1, LandElsewhere DEF Op
    <3> QED
      BY <1>4, <2>2, <3>2, AlikeUnderway
  <2>4. CASE q = r
    <3>1. ASSUME b \in Multi, NEW v \in Value, NEW x \in Standing(b, n)', x # r
          PROVE  Asks(x, b, n, v, seen[r])'
      <4>1. x \in Standing(b, n) /\ x \in Request
        BY <1>5, <1>7, <3>1
      <4>2. Asks(x, b, n, v, seen[r])
        BY <1>1, <1>2, <3>1, <4>1 DEF Underway
      <4> QED
        BY <1>4, <1>8, <3>1, <4>1, <4>2 DEF Asks
    <3>2. /\ b \notin Multi => target[r] = Overwrite(op[r])
          /\ b \in Multi => target[r] = Merge(op[r], seen[r])
      BY <1>1, <1>2 DEF Underway
    <3>3. op'[r].backend = b /\ op'[r].record = n
      BY <1>2, <1>4
    <3> QED
      BY <1>4, <1>6, <2>4, <3>1, <3>2, <3>3 DEF Underway
  <2> QED
    BY <2>3, <2>4
<1> QED
  BY <1>13, <1>14

\* A step that lands nothing disturbs nothing, if the changes it starts are
\* well aimed.
LEMMA StillStands ==
    ASSUME AllStand, UNCHANGED <<txt, landed, hit>>,
           \A q \in Request : landed[q] => op'[q] = op[q] /\ ticket'[q] = ticket[q],
           \A q \in Request : pc'[q] = "changing" =>
              \/ /\ Underway(q) /\ op'[q] = op[q]
                 /\ seen'[q] = seen[q] /\ target'[q] = target[q]
              \/ Underway(q)'
    PROVE  AllStand' /\ Aimed'
<1>1. ASSUME NEW b, NEW n
      PROVE  Alike(b, n)
  BY DEF Alike
<1>2. AllStand'
  <2>1. ASSUME NEW b \in Backend, NEW n \in Record
        PROVE  StandsAt(b, n)'
    <3>1. StandsAt(b, n)
      BY DEF AllStand
    <3> QED
      BY <1>1, <3>1, AlikeStands
  <2> QED
    BY <2>1 DEF AllStand
<1>3. ASSUME NEW q \in Request, pc'[q] = "changing"
      PROVE  Underway(q)'
  <2>1. CASE /\ Underway(q) /\ op'[q] = op[q]
             /\ seen'[q] = seen[q] /\ target'[q] = target[q]
    BY <1>1, <2>1, AlikeUnderway
  <2> QED
    BY <1>3, <2>1
<1> QED
  BY <1>2, <1>3 DEF Aimed

\* _read_rrset's answer: either there is nothing to change, and the request
\* stands with the others, or the change is aimed at what they left.
LEMMA ReadStands ==
    ASSUME TypeOK, Places, LockDiscipline, TicketsDiffer, FifoPerRecord, Aimed,
           AllStand, hit \subseteq {q \in Request : landed[q]},
           NEW r \in Request, Read(r), hit' = hit
    PROVE  AllStand' /\ Aimed'
<1> USE DEF reqVars, bookVars
<1>1. /\ op[r] \in Op /\ InService(r) /\ ~landed[r] /\ r \notin hit
      /\ op[r].backend \in Multi /\ pc[r] = "reading"
  BY DEF Read, Places, TypeOK, InService
<1>2. PICK b, n : b = op[r].backend /\ n = op[r].record
  OBVIOUS
<1>3. b \in Backend /\ b \in Multi /\ n \in Record
  BY <1>1, <1>2 DEF Op
<1>4. /\ UNCHANGED <<op, ticket, txt>> /\ seen'[r] = txt[b][n]
      /\ \A q \in Request : q # r => seen'[q] = seen[q] /\ pc'[q] = pc[q]
      /\ \A q \in Request : q # r => target'[q] = target[q]
      /\ txt[b][n] \in Content
  BY <1>2, <1>3 DEF Read, Settle, TypeOK
<1>5. StandsAt(b, n)
  BY <1>3 DEF AllStand
<1>6. ASSUME NEW q \in Request, q # r, pc'[q] = "changing"
      PROVE  /\ Underway(q) /\ op'[q] = op[q] /\ InService(q)
             /\ seen'[q] = seen[q] /\ target'[q] = target[q]
  BY <1>4, <1>6 DEF Aimed, InService
<1>7. CASE Merge(op[r], txt[b][n]) # txt[b][n]
  <2>1. /\ landed' = landed /\ pc'[r] = "changing"
        /\ target'[r] = Merge(op[r], txt[b][n])
    BY <1>2, <1>7 DEF Read, TypeOK
  <2>2. Alike(b, n)
    BY <1>4, <2>1 DEF Alike
  <2>3. ASSUME NEW v \in Value, NEW x \in Standing(b, n)
        PROVE  Asks(x, b, n, v, seen[r])'
    <3>1. Asks(x, b, n, v, txt[b][n])
      BY <1>3, <1>5 DEF StandsAt
    <3> QED
      BY <1>4, <2>2, <3>1, AlikeFacts DEF Asks
  <2>4. Standing(b, n)' = Standing(b, n)
    BY <2>2, AlikeFacts
  <2>5. op'[r].backend = b /\ op'[r].record = n
    BY <1>2, <1>4
  <2>6. Underway(r)'
    BY <1>1, <1>3, <1>4, <2>1, <2>3, <2>4, <2>5 DEF Underway
  <2>7. \A q \in Request : pc'[q] = "changing" =>
           \/ /\ Underway(q) /\ op'[q] = op[q]
              /\ seen'[q] = seen[q] /\ target'[q] = target[q]
           \/ Underway(q)'
    BY <1>6, <2>6
  <2> QED
    BY <1>4, <2>1, <2>7, StillStands
<1>8. CASE Merge(op[r], txt[b][n]) = txt[b][n]
  <2>1. /\ landed'[r] /\ pc'[r] = "auditing"
        /\ \A q \in Request : q # r => landed'[q] = landed[q]
    BY <1>2, <1>8 DEF Read, Settle, TypeOK
  <2>2. Standing(b, n)' = Standing(b, n) \cup {r}
    BY <1>1, <1>2, <1>4, <2>1 DEF Standing, LandedAt
  <2>3. \A x \in Standing(b, n) : x \in Request /\ landed[x]
    BY DEF Standing, LandedAt
  <2>4. \A q \in Request, v \in Value :
           /\ q # r => /\ (Adds(q, b, n, v)' <=> Adds(q, b, n, v))
                       /\ (Removes(q, b, n, v)' <=> Removes(q, b, n, v))
           /\ Adds(q, b, n, v) => Adds(q, b, n, v)'
           /\ Removes(q, b, n, v) => Removes(q, b, n, v)'
    BY <1>4, <2>1 DEF Adds, Removes
  <2>5. ASSUME NEW v \in Value, NEW x \in Standing(b, n)'
        PROVE  Asks(x, b, n, v, txt[b][n])'
    <3>1. CASE x = r
      <4>1. /\ Adds(r, b, n, v)' => v \in Merge(op[r], txt[b][n])
            /\ Removes(r, b, n, v)' => v \notin Merge(op[r], txt[b][n])
        BY <1>1, <1>4, MergeFacts DEF Adds, Removes
      <4> QED
        BY <1>4, <1>8, <3>1, <4>1 DEF Asks
    <3>2. CASE x # r
      <4>1. x \in Standing(b, n) /\ x \in Request
        BY <2>2, <2>3, <2>5, <3>2
      <4>2. Asks(x, b, n, v, txt[b][n])
        BY <1>3, <1>5, <4>1 DEF StandsAt
      <4> QED
        BY <1>4, <2>4, <3>2, <4>1, <4>2 DEF Asks
    <3> QED
      BY <3>1, <3>2
  <2>6. StandsAt(b, n)'
    BY <1>3, <2>5 DEF StandsAt
  <2>7. ASSUME NEW d, NEW k, d # b \/ k # n
        PROVE  Alike(d, k)
    BY <1>2, <1>4, <2>1, <2>7 DEF Alike
  <2>8. AllStand'
    <3>1. ASSUME NEW d \in Backend, NEW k \in Record, d # b \/ k # n
          PROVE  StandsAt(d, k)'
      <4>1. StandsAt(d, k)
        BY DEF AllStand
      <4> QED
        BY <1>4, <2>7, <3>1, <4>1, AlikeStands
    <3> QED
      BY <2>6, <3>1 DEF AllStand
  <2>9. ASSUME NEW q \in Request, pc'[q] = "changing"
        PROVE  Underway(q)'
    <3>1. q # r
      BY <2>1, <2>9
    <3>2. op[q].record # n
      BY <1>1, <1>2, <1>6, <2>9, <3>1, OneInService
    <3>3. Alike(op[q].backend, op[q].record)
      BY <2>7, <3>2
    <3> QED
      BY <1>6, <2>9, <3>1, <3>3, AlikeUnderway
  <2> QED
    BY <2>8, <2>9 DEF Aimed
<1> QED
  BY <1>7, <1>8

\* A late landing leaves nobody standing at its record, and everybody at the
\* others.
LEMMA LateLandStands ==
    ASSUME LateTypeOK, Aimed, AllStand, NEW r \in Request, LateLand(r)
    PROVE  AllStand' /\ Aimed'
<1> USE DEF reqVars
<1>1. op[r] \in Op
  BY DEF LateTypeOK, TypeOK, LateLand
<1>2. PICK b, n : b = op[r].backend /\ n = op[r].record
  OBVIOUS
<1>3. b \in Backend /\ n \in Record
  BY <1>1, <1>2 DEF Op
<1>4. /\ UNCHANGED <<op, ticket, landed, pc, seen, target>>
      /\ hit' = hit \cup LandedAt(b, n)
  BY <1>2 DEF LateLand
<1>5. \A d \in Backend, k \in Record : d # b \/ k # n => txt'[d][k] = txt[d][k]
  BY <1>2, <1>3 DEF LateLand, LateTypeOK, TypeOK
<1>6. ASSUME NEW d, NEW k, d # b \/ k # n
      PROVE  Alike(d, k)
  BY <1>4, <1>6 DEF Alike, LandedAt
<1>7. Standing(b, n)' = {}
  BY <1>4 DEF Standing, LandedAt
<1>8. AllStand'
  <2>1. StandsAt(b, n)'
    BY <1>7 DEF StandsAt
  <2>2. ASSUME NEW d \in Backend, NEW k \in Record, d # b \/ k # n
        PROVE  StandsAt(d, k)'
    <3>1. StandsAt(d, k)
      BY DEF AllStand
    <3> QED
      BY <1>5, <1>6, <2>2, <3>1, AlikeStands
  <2> QED
    BY <2>1, <2>2 DEF AllStand
<1>9. ASSUME NEW q \in Request, pc'[q] = "changing"
      PROVE  Underway(q)'
  <2>1. Underway(q)
    BY <1>4, <1>9 DEF Aimed
  <2>2. CASE op[q].backend = b /\ op[q].record = n
    <3>1. op'[q].backend = b /\ op'[q].record = n
      BY <1>4, <2>2
    <3>2. /\ b \notin Multi => target[q] = Overwrite(op[q])
          /\ b \in Multi => target[q] = Merge(op[q], seen[q])
      BY <2>1, <2>2 DEF Underway
    <3> QED
      BY <1>4, <1>7, <3>1, <3>2 DEF Underway
  <2>3. CASE ~(op[q].backend = b /\ op[q].record = n)
    <3>1. Alike(op[q].backend, op[q].record)
      BY <1>6, <2>3
    <3>2. q \in hit' <=> q \in hit
      BY <1>4, <2>3 DEF LandedAt
    <3> QED
      BY <1>4, <2>1, <3>1, <3>2, AlikeUnderway
  <2> QED
    BY <2>2, <2>3
<1> QED
  BY <1>8, <1>9 DEF Aimed
-----------------------------------------------------------------------------
\* Every step of Dispatcher lands at most one change, and starts only changes
\* that are well aimed.
LEMMA OnTimeStands ==
    ASSUME TypeOK, Places, LockDiscipline, TicketsDiffer, FifoPerRecord, Aimed,
           AllStand, hit \subseteq {q \in Request : landed[q]},
           [Next]_vars, hit' = hit
    PROVE  AllStand' /\ Aimed'
<1> USE DEF reqVars, callVars, bookVars
<1>1. ASSUME NEW r \in Request, NEW m \in Message, Dispatch(r, m)
      PROVE  AllStand' /\ Aimed'
  <2>1. ~landed[r] /\ pc'[r] = "queued"
    BY <1>1 DEF Dispatch, Places, TypeOK
  <2>2. /\ UNCHANGED <<txt, landed, seen, target>>
        /\ \A q \in Request : q # r =>
              op'[q] = op[q] /\ ticket'[q] = ticket[q] /\ pc'[q] = pc[q]
    BY <1>1 DEF Dispatch, TypeOK
  <2> QED
    BY <2>1, <2>2, StillStands DEF Aimed
<1>2. ASSUME NEW r \in Request, Acquire(r)
      PROVE  AllStand' /\ Aimed'
  <2>1. /\ UNCHANGED <<txt, landed, seen, op, ticket>>
        /\ \A q \in Request : q # r => pc'[q] = pc[q] /\ target'[q] = target[q]
    BY <1>2 DEF Acquire, TypeOK
  <2>2. ~landed[r] /\ r \notin hit
    BY <1>2 DEF Acquire, Places
  <2>3. pc'[r] = "changing" => /\ op[r].backend \notin Multi
                               /\ target'[r] = Overwrite(op[r])
    BY <1>2 DEF Acquire, TypeOK
  <2>4. pc'[r] = "changing" => Underway(r)'
    BY <2>1, <2>2, <2>3 DEF Underway
  <2> QED
    BY <2>1, <2>4, StillStands DEF Aimed
<1>3. ASSUME NEW r \in Request, Read(r)
      PROVE  AllStand' /\ Aimed'
  BY <1>3, ReadStands
<1>4. ASSUME NEW r \in Request, pc[r] = "changing", Land(r),
             UNCHANGED <<op, ticket, seen, target>>,
             pc' = [pc EXCEPT ![r] = "auditing"] \/ pc' = [pc EXCEPT ![r] = "done"]
      PROVE  AllStand' /\ Aimed'
  <2>1. Lands(r)
    BY <1>4 DEF Lands, TypeOK
  <2> QED
    BY <2>1, LandStands
<1>5. ASSUME UNCHANGED <<txt, landed, op, ticket, seen, target>>,
             \A q \in Request : pc'[q] = "changing" => pc[q] = "changing"
      PROVE  AllStand' /\ Aimed'
  BY <1>5, StillStands DEF Aimed
<1>6. ASSUME NEW r \in Request, Change(r)
      PROVE  AllStand' /\ Aimed'
  BY <1>4, <1>6 DEF Change, Settle
<1>7. ASSUME NEW r \in Request, ChangeFails(r) \/ Abort(r)
      PROVE  AllStand' /\ Aimed'
  <2>1. /\ UNCHANGED <<op, ticket, seen, target>>
        /\ \/ pc' = [pc EXCEPT ![r] = "auditing"]
           \/ pc' = [pc EXCEPT ![r] = "done"]
        /\ (pc[r] = "changing" /\ Land(r)) \/ UNCHANGED <<txt, landed>>
    BY <1>7 DEF ChangeFails, Abort, Settle
  <2>2. \A q \in Request : pc'[q] = "changing" => pc[q] = "changing"
    BY <2>1 DEF TypeOK
  <2> QED
    BY <1>4, <1>5, <2>1, <2>2
<1>8. ASSUME NEW r \in Request,
             ReadFails(r) \/ CleanupBenign(r) \/ Finish(r) \/ AbortQueued(r)
      PROVE  AllStand' /\ Aimed'
  <2>1. UNCHANGED <<txt, landed, op, ticket, seen, target>>
    BY <1>8 DEF ReadFails, CleanupBenign, Finish, AbortQueued
  <2>2. \/ pc' = [pc EXCEPT ![r] = "auditing"]
        \/ pc' = [pc EXCEPT ![r] = "done"]
    BY <1>8 DEF ReadFails, CleanupBenign, Finish, AbortQueued, Settle
  <2>3. \A q \in Request : pc'[q] = "changing" => pc[q] = "changing"
    BY <2>2 DEF TypeOK
  <2> QED
    BY <1>5, <2>1, <2>3
<1>9. ASSUME NEW r \in Request, NEW m \in Message, Refuse(r, m)
      PROVE  AllStand' /\ Aimed'
  BY <1>5, <1>9 DEF Refuse, TypeOK
<1>10. CASE SwapSnapshot \/ UNCHANGED vars
  BY <1>5, <1>10 DEF SwapSnapshot, vars
<1> QED
  BY <1>1, <1>2, <1>3, <1>6, <1>7, <1>8, <1>9, <1>10 DEF Next, Progress

\* What has landed stays landed, and keeps its operation.
LEMMA LandedStays ==
    ASSUME TypeOK, Places, [Next]_vars, NEW q \in Request
    PROVE  /\ landed[q] => landed'[q]
           /\ op[q] # NoOp => op'[q] = op[q]
<1> USE DEF reqVars, callVars, bookVars
<1>1. ASSUME NEW r \in Request, NEW m \in Message, Dispatch(r, m)
      PROVE  (landed[q] => landed'[q]) /\ (op[q] # NoOp => op'[q] = op[q])
  BY <1>1 DEF Dispatch, Places, TypeOK
<1>2. ASSUME NEW r \in Request, Progress(r) \/ AbortQueued(r) \/ Abort(r)
      PROVE  (landed[q] => landed'[q]) /\ (op[q] # NoOp => op'[q] = op[q])
  BY <1>2 DEF Progress, Acquire, Read, ReadFails, Change, CleanupBenign,
       ChangeFails, Finish, AbortQueued, Abort, Land, TypeOK
<1>3. CASE UNCHANGED <<landed, op>>
  BY <1>3
<1> QED
  BY <1>1, <1>2, <1>3 DEF Next, SwapSnapshot, Refuse, vars

\* A task never returns to its call, and leaves it for the audit insert or
\* for good.
LEMMA PcForward ==
    ASSUME TypeOK, [Next]_vars, NEW q \in Request
    PROVE  /\ pc[q] \in {"auditing", "done"} => pc'[q] \in {"auditing", "done"}
           /\ pc[q] = "changing" => pc'[q] \in {"changing", "auditing", "done"}
<1> DEFINE Goal == /\ pc[q] \in {"auditing", "done"} =>
                         pc'[q] \in {"auditing", "done"}
                   /\ pc[q] = "changing" =>
                         pc'[q] \in {"changing", "auditing", "done"}
<1>1. ASSUME NEW r \in Request, NEW m \in Message, Refuse(r, m) \/ Dispatch(r, m)
      PROVE  Goal
  BY <1>1 DEF Refuse, Dispatch, TypeOK
<1>2. ASSUME NEW r \in Request, Acquire(r) \/ Read(r) \/ ReadFails(r)
      PROVE  Goal
  BY <1>2 DEF Acquire, Read, ReadFails, Settle, TypeOK
<1>3. ASSUME NEW r \in Request, Change(r) \/ CleanupBenign(r) \/ ChangeFails(r)
      PROVE  Goal
  BY <1>3 DEF Change, CleanupBenign, ChangeFails, Settle, TypeOK
<1>4. ASSUME NEW r \in Request, Finish(r) \/ AbortQueued(r) \/ Abort(r)
      PROVE  Goal
  BY <1>4 DEF Finish, AbortQueued, Abort, TypeOK
<1>5. CASE UNCHANGED pc
  BY <1>5
<1> QED
  BY <1>1, <1>2, <1>3, <1>4, <1>5 DEF Next, Progress, SwapSnapshot, vars

\* A step of Dispatcher, and what it orphans.
LEMMA OnTimeStep ==
    ASSUME LInv, [Next]_vars, UNCHANGED <<tries, hit>>,
           orphan' = [q \in Request |-> IF q \in GivenUp
                                        THEN orphan[q] + 1 ELSE orphan[q]]
    PROVE  LInv'
<1> USE DEF LInv
<1>1. TypeOK /\ hit \subseteq {q \in Request : landed[q]}
  BY DEF LateTypeOK
<1>2. TypeOK'
  BY <1>1, TypeStep DEF Places, ActiveHasOp
<1>3. \A q \in Request :
         /\ orphan[q] \in 0..MaxTries /\ tries[q] \in 0..(MaxTries - 1)
         /\ q \in GivenUp => /\ pc[q] = "changing" /\ op[q] # NoOp
                             /\ pc'[q] \in {"auditing", "done"}
                             /\ orphan[q] <= tries[q]
  BY <1>1, PcForward DEF LateTypeOK, GivenUp, Places, Orphans
<1>4. Orphans'
  BY <1>1, <1>3, PcForward DEF Orphans
<1>5. LateTypeOK'
  <2>1. orphan' \in [Request -> 0..MaxTries]
    BY <1>3, TriesAssumption
  <2>2. \A q \in Request : op'[q] = NoOp => orphan'[q] = 0
    BY <1>1, <1>3, LandedStays DEF LateTypeOK
  <2> QED
    BY <1>1, <1>2, <2>1, <2>2, LandedStays DEF LateTypeOK
<1>6. Places' /\ LockDiscipline' /\ TicketsDiffer' /\ FifoPerRecord'
  BY <1>1, PlacesStep, LockStep, TicketStep, FifoStep
<1>7. Books'
  BY <1>1, BooksStep
<1>8. AllStand' /\ Aimed'
  BY <1>1, OnTimeStands
<1> QED
  BY <1>4, <1>5, <1>6, <1>7, <1>8

\* An attempt given up and repeated under the lock.
LEMMA RetryStep ==
    ASSUME LInv, NEW r \in Request, Retry(r)
    PROVE  LInv'
<1> USE DEF LInv, reqVars, bookVars
<1>1. /\ TypeOK /\ hit \subseteq {q \in Request : landed[q]}
      /\ pc[r] = "changing" /\ op[r] # NoOp
  BY DEF LateTypeOK, Retry, Places
<1>2. /\ UNCHANGED <<routing, pc, op, ticket, nextTicket, lock, seen, target,
                     result, metric, audit, rcode, hit>>
      /\ Land(r) \/ UNCHANGED <<txt, landed>>
      /\ orphan' \in {orphan, [orphan EXCEPT ![r] = @ + 1]}
      /\ tries' = [tries EXCEPT ![r] = @ + 1] /\ tries[r] < MaxTries - 1
  BY DEF Retry, MayRetry
<1>3. \A q \in Request : /\ landed[q] => landed'[q]
                         /\ landed'[q] => landed[q] \/ q = r
  BY <1>1, <1>2 DEF Land, TypeOK
<1>4. TypeOK'
  <2>1. txt' \in [Backend -> [Record -> Content]] /\ landed' \in [Request -> BOOLEAN]
    BY <1>1, <1>2, LandTypes DEF TypeOK
  <2> QED
    BY <1>1, <1>2, <2>1 DEF TypeOK
<1>5. LateTypeOK'
  <2>1. tries' \in [Request -> 0..(MaxTries - 1)]
    BY <1>2, TriesAssumption DEF LateTypeOK
  <2>2. /\ orphan' \in [Request -> 0..MaxTries]
        /\ \A q \in Request : op'[q] = NoOp => orphan'[q] = 0
    BY <1>1, <1>2, TriesAssumption DEF LateTypeOK, Orphans
  <2>3. hit' \subseteq {q \in Request : landed'[q]}
    BY <1>1, <1>2, <1>3
  <2> QED
    BY <1>4, <2>1, <2>2, <2>3 DEF LateTypeOK
<1>6. Places'
  BY <1>1, <1>2, <1>3 DEF Places
<1>7. LockDiscipline' /\ TicketsDiffer'
  BY <1>2 DEF LockDiscipline, TicketsDiffer, InService
<1>8. FifoPerRecord'
  BY <1>1, <1>2, <1>3 DEF FifoPerRecord, InService
<1>9. Books'
  BY <1>2 DEF Books, Booked, AnswerOf
<1>10. AllStand' /\ Aimed'
  <2>1. CASE Land(r)
    <3>1. Lands(r)
      BY <1>1, <1>2, <2>1 DEF Lands
    <3> QED
      BY <1>1, <3>1, LandStands
  <2>2. CASE UNCHANGED <<txt, landed>>
    BY <1>2, <2>2, StillStands DEF Aimed
  <2> QED
    BY <1>2, <2>1, <2>2
<1>11. Orphans'
  BY <1>1, <1>2 DEF LateTypeOK, Orphans
<1> QED
  BY <1>5, <1>6, <1>7, <1>8, <1>9, <1>10, <1>11

\* A change taken after its call is over.
LEMMA LateLandStep ==
    ASSUME LInv, NEW r \in Request, LateLand(r)
    PROVE  LInv'
<1> USE DEF LInv, reqVars, bookVars
<1>1. /\ UNCHANGED <<routing, pc, op, ticket, nextTicket, lock, seen, target,
                     landed, result, metric, audit, rcode, tries>>
      /\ txt' = [txt EXCEPT ![op[r].backend][op[r].record] = target[r]]
      /\ orphan[r] > 0 /\ orphan' = [orphan EXCEPT ![r] = @ - 1]
      /\ hit' = hit \cup LandedAt(op[r].backend, op[r].record)
  BY DEF LateLand
<1>2. TypeOK'
  <2>1. target[r] \in Content /\ TypeOK
    BY DEF LateTypeOK, TypeOK
  <2>2. txt' \in [Backend -> [Record -> Content]]
    BY <1>1, <2>1 DEF TypeOK
  <2> QED
    BY <1>1, <2>1, <2>2 DEF TypeOK
<1>3. LateTypeOK'
  <2>1. /\ orphan' \in [Request -> 0..MaxTries]
        /\ \A q \in Request : op'[q] = NoOp => orphan'[q] = 0
    BY <1>1, TriesAssumption DEF LateTypeOK
  <2>2. hit' \subseteq {q \in Request : landed'[q]}
    BY <1>1 DEF LateTypeOK, LandedAt
  <2> QED
    BY <1>1, <1>2, <2>1, <2>2 DEF LateTypeOK
<1>4. Places' /\ LockDiscipline' /\ TicketsDiffer' /\ FifoPerRecord'
  BY <1>1 DEF Places, LockDiscipline, TicketsDiffer, FifoPerRecord, InService
<1>5. Books'
  BY <1>1 DEF Books, Booked, AnswerOf
<1>6. AllStand' /\ Aimed'
  BY LateLandStands
<1>7. Orphans'
  BY <1>1 DEF LateTypeOK, Orphans
<1> QED
  BY <1>3, <1>4, <1>5, <1>6, <1>7

\* LInv holds of every state reached with retries and late landings.
LEMMA LateInvariance == LateSpec => []LInv
<1>1. LateInit => LInv
  <2> SUFFICES ASSUME LateInit PROVE LInv
    OBVIOUS
  <2>1. Init /\ tries = [r \in Request |-> 0] /\ hit = {}
        /\ orphan = [r \in Request |-> 0]
    BY DEF LateInit
  <2>2. IInv
    BY <2>1, IInvInductive
  <2>3. TypeOK /\ Places /\ LockDiscipline /\ TicketsDiffer /\ FifoPerRecord
    BY <2>2 DEF IInv, Lifecycle
  <2>4. LateTypeOK /\ Orphans
    BY <2>1, <2>3, TriesAssumption DEF LateTypeOK, Orphans
  <2>5. Books /\ Aimed
    BY <2>1 DEF Init, Books, Booked, Aimed
  <2>6. \A b, n : Standing(b, n) = {}
    BY <2>1 DEF Init, Standing, LandedAt
  <2>7. AllStand
    BY <2>6 DEF AllStand, StandsAt
  <2> QED
    BY <2>3, <2>4, <2>5, <2>7 DEF LInv
<1>2. ASSUME LInv, [LateNext]_allVars
      PROVE  LInv'
  <2>1. CASE OnTime(Next)
    BY <1>2, <2>1, OnTimeStep DEF OnTime
  <2>2. CASE UNCHANGED allVars
    <3>1. UNCHANGED vars /\ orphan' = orphan /\ UNCHANGED <<tries, hit>>
      BY <2>2 DEF allVars, lateVars
    <3>2. GivenUp = {}
      BY <3>1 DEF GivenUp, vars
    <3>3. orphan' = [q \in Request |-> IF q \in GivenUp
                                       THEN orphan[q] + 1 ELSE orphan[q]]
      BY <1>2, <3>1, <3>2 DEF LInv, LateTypeOK
    <3> QED
      BY <1>2, <3>1, <3>3, OnTimeStep
  <2>3. ASSUME NEW r \in Request, Retry(r) \/ LateLand(r)
        PROVE  LInv'
    BY <1>2, <2>3, RetryStep, LateLandStep
  <2> QED
    BY <1>2, <2>1, <2>2, <2>3 DEF LateNext
<1> QED
  BY <1>1, <1>2, PTL DEF LateSpec

\* With attempts given up, repeated and taking effect late, every variable
\* keeps its type: post_with_retry never makes more than its attempts, and
\* a request leaves no more changes behind than it made attempts.
THEOREM LateTypeCorrect == LateSpec => []LateTypeOK
<1>1. LInv => LateTypeOK
  BY DEF LInv
<1> QED
  BY <1>1, LateInvariance, PTL

\* However late given-up changes take effect, and between whichever awaits,
\* what lands afterwards stands: a late change spoils only the past.
THEOREM LateChangesSpoilThePastOnly == LateSpec => []LaterRequestsStand
<1>1. LInv => LaterRequestsStand
  BY AllStandIsLater DEF LInv
<1> QED
  BY <1>1, LateInvariance, PTL

\* The books balance with retries and late landings as well.
THEOREM LateBooksBalance == LateSpec => []BooksBalance
<1>1. LInv => BooksBalance
  BY BooksBalanced DEF LInv, LateTypeOK
<1> QED
  BY <1>1, LateInvariance, PTL

\* Retries and late landings leave the locks sound and the service in the
\* order of dispatch.
THEOREM LateLocksAreSound == LateSpec => [](LockDiscipline /\ FifoPerRecord)
<1>1. LInv => LockDiscipline /\ FifoPerRecord
  BY DEF LInv
<1> QED
  BY <1>1, LateInvariance, PTL
=============================================================================
