-------------------------- MODULE DispatcherProofs --------------------------
(***************************************************************************)
(* Theorems about Dispatcher, for every set of requests, records, backends *)
(* and values.                                                             *)
(***************************************************************************)
EXTENDS Dispatcher, TLAPS

\* What a task's place in its life says about its variables, also when a
\* change that is being retried has landed already.
Places ==
    /\ nextTicket > 0
    /\ \A r \in Request :
        /\ op[r] # NoOp => ticket[r] > 0 /\ ticket[r] < nextTicket
        /\ pc[r] = "idle" => op[r] = NoOp /\ rcode[r] = "none"
        /\ pc[r] \notin {"idle", "done"} => op[r] # NoOp /\ rcode[r] = "none"
        /\ landed[r] => op[r] # NoOp /\ pc[r] \in {"changing", "auditing", "done"}
        /\ result[r] # "none" => op[r] # NoOp /\ pc[r] \in {"auditing", "done"}
        /\ pc[r] = "auditing" => result[r] # "none"
        /\ result[r] = "ok" /\ op[r].action = "present" => landed[r]
        /\ pc[r] = "reading" => op[r].backend \in Multi

\* ... and without retries.
Lifecycle == /\ Places
             /\ \A r \in Request : landed[r] => pc[r] \in {"auditing", "done"}

ActiveHasOp ==
    \A r \in Request : pc[r] \notin {"idle", "done"} => op[r] # NoOp

\* A change that lands leaves the zones well-typed.
LEMMA LandTypes ==
    ASSUME NEW r \in Request, TypeOK, Land(r)
    PROVE  /\ txt' \in [Backend -> [Record -> Content]]
           /\ landed' \in [Request -> BOOLEAN]
<1>1. target[r] \in Content
  BY DEF TypeOK
<1>2. txt' \in [Backend -> [Record -> Content]]
  BY <1>1 DEF TypeOK, Land
<1>3. landed' \in [Request -> BOOLEAN]
  BY DEF TypeOK, Land
<1> QED
  BY <1>2, <1>3

\* Dispatcher.dispatch and _invoke_provider keep every variable in its type.
LEMMA TypeStep ==
    TypeOK /\ ActiveHasOp /\ [Next]_vars => TypeOK'
<1> SUFFICES ASSUME TypeOK, ActiveHasOp, [Next]_vars PROVE TypeOK'
  OBVIOUS
<1> USE ConstantsAssumption DEF TypeOK, reqVars, callVars, bookVars
<1>1. CASE SwapSnapshot
  BY <1>1 DEF SwapSnapshot
<1>2. ASSUME NEW r \in Request, NEW m \in Message, Refuse(r, m)
      PROVE  TypeOK'
  BY <1>2 DEF Refuse
<1>3. ASSUME NEW r \in Request, NEW m \in Message, Dispatch(r, m)
      PROVE  TypeOK'
  <2>1. routing[m.zone] \in Route
    BY <1>3 DEF Dispatch
  <2>2. [backend |-> routing[m.zone].backend, record |-> m.name,
         action |-> m.action, values |-> m.values] \in Op
    BY <2>1 DEF Route, Op
  <2> QED
    BY <1>3, <2>2 DEF Dispatch
<1>4. ASSUME NEW r \in Request, Acquire(r)
      PROVE  TypeOK'
  <2>1. op[r] \in Op
    BY <1>4 DEF Acquire, ActiveHasOp
  <2>2. Overwrite(op[r]) \in Content
    BY <2>1 DEF Overwrite, Op, Content
  <2>3. lock' \in [Record -> Request \cup {Free}]
    BY <1>4 DEF Acquire
  <2>4. pc' \in [Request -> {"idle", "queued", "reading", "changing",
                            "auditing", "done"}]
    <3>1. \/ pc' = [pc EXCEPT ![r] = "reading"]
          \/ pc' = [pc EXCEPT ![r] = "changing"]
      BY <1>4 DEF Acquire
    <3> QED
      BY <3>1
  <2>5. target' \in [Request -> Content]
    BY <1>4, <2>2 DEF Acquire
  <2> QED
    BY <1>4, <2>3, <2>4, <2>5 DEF Acquire
<1>5. ASSUME NEW r \in Request, Read(r)
      PROVE  TypeOK'
  <2> DEFINE current == txt[op[r].backend][op[r].record]
  <2>1. op[r] \in Op
    BY <1>5 DEF Read, ActiveHasOp
  <2>2. current \in Content /\ Merge(op[r], current) \in Content
    BY <2>1 DEF Merge, Op, Content
  <2>3. CASE Merge(op[r], current) = current
    <3>1. /\ result' \in [Request -> {"none", "ok", "error"}]
          /\ metric' \in [Request -> {"none", "ok", "error", "suppressed"}]
          /\ UNCHANGED audit
      BY <1>5, <2>3 DEF Read, Settle
    <3>2. /\ pc' = [pc EXCEPT ![r] = "auditing"]
          /\ seen' = [seen EXCEPT ![r] = current]
          /\ landed' = [landed EXCEPT ![r] = TRUE]
          /\ UNCHANGED <<routing, op, ticket, nextTicket, lock, target, txt,
                         rcode>>
      BY <1>5, <2>3 DEF Read, Settle
    <3> HIDE DEF current
    <3> QED
      BY <2>2, <3>1, <3>2
  <2>4. CASE Merge(op[r], current) # current
    <3>1. /\ pc' = [pc EXCEPT ![r] = "changing"]
          /\ seen' = [seen EXCEPT ![r] = current]
          /\ target' = [target EXCEPT ![r] = Merge(op[r], current)]
          /\ UNCHANGED <<routing, op, ticket, nextTicket, lock, txt, landed,
                         result, metric, audit, rcode>>
      BY <1>5, <2>4 DEF Read
    <3> HIDE DEF current
    <3> QED
      BY <2>2, <3>1
  <2> QED
    BY <2>3, <2>4
<1>6. ASSUME NEW r \in Request, ReadFails(r)
      PROVE  TypeOK'
  BY <1>6 DEF ReadFails, Settle
<1>7. ASSUME NEW r \in Request, Change(r)
      PROVE  TypeOK'
  BY <1>7 DEF Change, Land, Settle
<1>8. ASSUME NEW r \in Request, CleanupBenign(r)
      PROVE  TypeOK'
  BY <1>8 DEF CleanupBenign, Settle
<1>9. ASSUME NEW r \in Request, ChangeFails(r)
      PROVE  TypeOK'
  <2>1. /\ txt' \in [Backend -> [Record -> Content]]
        /\ landed' \in [Request -> BOOLEAN]
    BY <1>9, LandTypes DEF ChangeFails
  <2>2. /\ result' \in [Request -> {"none", "ok", "error"}]
        /\ metric' \in [Request -> {"none", "ok", "error", "suppressed"}]
    BY <1>9 DEF ChangeFails, Settle
  <2> QED
    BY <1>9, <2>1, <2>2 DEF ChangeFails, Settle
<1>10. ASSUME NEW r \in Request, Finish(r)
       PROVE  TypeOK'
  <2>1. lock' \in [Record -> Request \cup {Free}]
    BY <1>10 DEF Finish, Release
  <2>2. audit' \in [Request -> {"none", "ok", "error", "failed"}]
    BY <1>10 DEF Finish
  <2>3. rcode' \in [Request -> {"none", "NOERROR", "SERVFAIL", "REFUSED",
                               "dropped"}]
    BY <1>10 DEF Finish, AnswerOf
  <2> QED
    BY <1>10, <2>1, <2>2, <2>3 DEF Finish
<1>11. ASSUME NEW r \in Request, AbortQueued(r)
       PROVE  TypeOK'
  BY <1>11 DEF AbortQueued
<1>12. ASSUME NEW r \in Request, Abort(r)
       PROVE  TypeOK'
  <2>1. /\ txt' \in [Backend -> [Record -> Content]]
        /\ landed' \in [Request -> BOOLEAN]
    BY <1>12, LandTypes DEF Abort
  <2>2. lock' \in [Record -> Request \cup {Free}]
    BY <1>12 DEF Abort, Release
  <2>3. audit' \in [Request -> {"none", "ok", "error", "failed"}]
    BY <1>12 DEF Abort
  <2> QED
    BY <1>12, <2>1, <2>2, <2>3 DEF Abort
<1>13. CASE UNCHANGED vars
  BY <1>13 DEF vars
<1> QED
  BY <1>1, <1>2, <1>3, <1>4, <1>5, <1>6, <1>7, <1>8, <1>9, <1>10, <1>11,
     <1>12, <1>13 DEF Next, Progress

\* A task's variables fit its place, whatever step is taken.
LEMMA PlacesStep ==
    TypeOK /\ Places /\ [Next]_vars => Places'
<1> SUFFICES ASSUME TypeOK, Places, [Next]_vars PROVE Places'
  OBVIOUS
<1> USE ConstantsAssumption DEF TypeOK, Places, reqVars, callVars, bookVars
<1>1. CASE SwapSnapshot
  BY <1>1 DEF SwapSnapshot
<1>2. ASSUME NEW r \in Request, NEW m \in Message, Refuse(r, m)
      PROVE  Places'
  BY <1>2 DEF Refuse
<1>3. ASSUME NEW r \in Request, NEW m \in Message, Dispatch(r, m)
      PROVE  Places'
  <2> DEFINE o == [backend |-> routing[m.zone].backend, record |-> m.name,
                   action |-> m.action, values |-> m.values]
  <2>1. routing[m.zone] \in Route
    BY <1>3 DEF Dispatch
  <2>2. o \in Op /\ o # NoOp
    BY <2>1 DEF Route, Op
  <2>3. op' = [op EXCEPT ![r] = o]
    BY <1>3 DEF Dispatch
  <2> HIDE DEF o
  <2>4. \A q \in Request : op'[q] # NoOp =>
            ticket'[q] > 0 /\ ticket'[q] < nextTicket'
    BY <1>3, <2>2, <2>3 DEF Dispatch
  <2>5. \A q \in Request : q # r =>
            /\ op'[q] = op[q] /\ pc'[q] = pc[q] /\ rcode'[q] = rcode[q]
            /\ landed'[q] = landed[q] /\ result'[q] = result[q]
    BY <1>3, <2>3 DEF Dispatch
  <2>6. /\ op'[r] # NoOp /\ pc'[r] = "queued" /\ rcode'[r] = "none"
        /\ ~landed'[r] /\ result'[r] = "none"
    BY <1>3, <2>2, <2>3 DEF Dispatch
  <2>7. nextTicket' > 0
    BY <1>3 DEF Dispatch
  <2> QED
    BY <2>4, <2>5, <2>6, <2>7
<1>4. ASSUME NEW r \in Request, Acquire(r)
      PROVE  Places'
  BY <1>4 DEF Acquire
<1>5. ASSUME NEW r \in Request, Read(r)
      PROVE  Places'
  BY <1>5 DEF Read, Settle
<1>6. ASSUME NEW r \in Request, ReadFails(r)
      PROVE  Places'
  BY <1>6 DEF ReadFails, Settle
<1>7. ASSUME NEW r \in Request, Change(r)
      PROVE  Places'
  BY <1>7 DEF Change, Land, Settle
<1>8. ASSUME NEW r \in Request, CleanupBenign(r)
      PROVE  Places'
  BY <1>8 DEF CleanupBenign, Settle
<1>9. ASSUME NEW r \in Request, ChangeFails(r)
      PROVE  Places'
  BY <1>9 DEF ChangeFails, Land, Settle
<1>10. ASSUME NEW r \in Request, Finish(r)
       PROVE  Places'
  BY <1>10 DEF Finish, Release, AnswerOf
<1>11. ASSUME NEW r \in Request, AbortQueued(r)
       PROVE  Places'
  BY <1>11 DEF AbortQueued
<1>12. ASSUME NEW r \in Request, Abort(r)
       PROVE  Places'
  BY <1>12 DEF Abort, Land, Release
<1>13. CASE UNCHANGED vars
  BY <1>13 DEF vars
<1> QED
  BY <1>1, <1>2, <1>3, <1>4, <1>5, <1>6, <1>7, <1>8, <1>9, <1>10, <1>11,
     <1>12, <1>13 DEF Next, Progress

LEMMA LifecycleStep ==
    TypeOK /\ Lifecycle /\ [Next]_vars => Lifecycle'
<1> SUFFICES ASSUME TypeOK, Lifecycle, [Next]_vars PROVE Lifecycle'
  OBVIOUS
<1> USE DEF reqVars, callVars, bookVars
<1>1. Places /\ Places'
  BY PlacesStep DEF Lifecycle
<1>2. ASSUME NEW q \in Request, landed'[q]
      PROVE  pc'[q] \in {"auditing", "done"}
  <2>1. ASSUME NEW r \in Request, NEW m \in Message, Dispatch(r, m)
        PROVE  pc'[q] \in {"auditing", "done"}
    BY <1>2, <2>1 DEF Dispatch, Lifecycle, TypeOK
  <2>2. ASSUME NEW r \in Request, Progress(r) \/ AbortQueued(r) \/ Abort(r)
        PROVE  pc'[q] \in {"auditing", "done"}
    BY <1>2, <2>2
    DEF Progress, Acquire, Read, ReadFails, Change, CleanupBenign, ChangeFails,
        Finish, AbortQueued, Abort, Land, Settle, Lifecycle, TypeOK
  <2>3. CASE UNCHANGED landed /\ \A r \in Request : pc'[r] \in {pc[r], "done"}
    BY <1>2, <2>3 DEF Lifecycle
  <2> QED
    BY <2>1, <2>2, <2>3 DEF Next, SwapSnapshot, Refuse, vars, TypeOK
<1> QED
  BY <1>1, <1>2 DEF Lifecycle

-----------------------------------------------------------------------------
\* The per-record lock: one holder, who is inside _invoke_provider.
LEMMA LockStep ==
    TypeOK /\ Places /\ LockDiscipline /\ [Next]_vars => LockDiscipline'
<1> SUFFICES ASSUME TypeOK, Places, LockDiscipline, [Next]_vars
             PROVE  LockDiscipline'
  OBVIOUS
<1> USE ConstantsAssumption
    DEF TypeOK, Places, LockDiscipline, InService, reqVars, callVars, bookVars
<1>1. CASE SwapSnapshot
  BY <1>1 DEF SwapSnapshot
<1>2. ASSUME NEW r \in Request, NEW m \in Message, Refuse(r, m)
      PROVE  LockDiscipline'
  BY <1>2 DEF Refuse
<1>3. ASSUME NEW r \in Request, NEW m \in Message, Dispatch(r, m)
      PROVE  LockDiscipline'
  BY <1>3 DEF Dispatch
<1>4. ASSUME NEW r \in Request, Acquire(r)
      PROVE  LockDiscipline'
  <2>1. op[r] \in Op /\ op[r].record \in Record
    BY <1>4 DEF Acquire, Op
  <2>2. /\ lock' = [lock EXCEPT ![op[r].record] = r]
        /\ op' = op
        /\ \A q \in Request : q # r => pc'[q] = pc[q]
        /\ pc'[r] \in {"reading", "changing"}
        /\ lock[op[r].record] = Free
    BY <1>4 DEF Acquire, LockFree
  <2> QED
    BY <2>1, <2>2
<1>5. ASSUME NEW r \in Request, Read(r)
      PROVE  LockDiscipline'
  <2>1. /\ \A q \in Request : q # r => pc'[q] = pc[q]
        /\ pc'[r] \in {"auditing", "changing"}
        /\ UNCHANGED <<lock, op>>
        /\ InService(r)
    BY <1>5 DEF Read, Settle
  <2> QED
    BY <2>1
<1>6. ASSUME NEW r \in Request, ReadFails(r)
      PROVE  LockDiscipline'
  BY <1>6 DEF ReadFails, Settle
<1>7. ASSUME NEW r \in Request, Change(r)
      PROVE  LockDiscipline'
  BY <1>7 DEF Change, Settle
<1>8. ASSUME NEW r \in Request, CleanupBenign(r)
      PROVE  LockDiscipline'
  BY <1>8 DEF CleanupBenign, Settle
<1>9. ASSUME NEW r \in Request, ChangeFails(r)
      PROVE  LockDiscipline'
  BY <1>9 DEF ChangeFails, Settle
<1>10. ASSUME NEW r \in Request, Finish(r) \/ Abort(r)
       PROVE  LockDiscipline'
  <2>1. op[r] \in Op /\ op[r].record \in Record
    BY <1>10 DEF Finish, Abort, Op
  <2>2. /\ lock' = [lock EXCEPT ![op[r].record] = Free]
        /\ op' = op
        /\ pc' = [pc EXCEPT ![r] = "done"]
        /\ InService(r)
    BY <1>10 DEF Finish, Abort, Release
  <2> QED
    BY <2>1, <2>2
<1>11. ASSUME NEW r \in Request, AbortQueued(r)
       PROVE  LockDiscipline'
  BY <1>11 DEF AbortQueued
<1>12. CASE UNCHANGED vars
  BY <1>12 DEF vars
<1> QED
  BY <1>1, <1>2, <1>3, <1>4, <1>5, <1>6, <1>7, <1>8, <1>9, <1>10, <1>11,
     <1>12 DEF Next, Progress

\* No two dispatched requests share a ticket.
TicketsDiffer ==
    \A r, q \in Request :
        op[r] # NoOp /\ op[q] # NoOp /\ ticket[r] = ticket[q] => r = q

\* Every step but dispatch() and the snapshot swap is a step of one task that
\* is already dispatched, leaves all the others alone, and keeps the tickets.
LEMMA TicketStep ==
    TypeOK /\ Places /\ TicketsDiffer /\ [Next]_vars => TicketsDiffer'
<1> SUFFICES ASSUME TypeOK, Places, TicketsDiffer, [Next]_vars
             PROVE  TicketsDiffer'
  OBVIOUS
<1>1. ASSUME NEW r \in Request, NEW m \in Message, Dispatch(r, m)
      PROVE  TicketsDiffer'
  <2>1. /\ \A q \in Request : q # r => op'[q] = op[q] /\ ticket'[q] = ticket[q]
        /\ ticket'[r] = nextTicket
    BY <1>1 DEF Dispatch, TypeOK
  <2>2. \A q \in Request : op[q] # NoOp => ticket[q] < nextTicket
    BY DEF Places
  <2> QED
    BY <2>1, <2>2 DEF TicketsDiffer, TypeOK
<1>2. CASE UNCHANGED <<op, ticket>>
  BY <1>2 DEF TicketsDiffer
<1> QED
  BY <1>1, <1>2
  DEF Next, Progress, SwapSnapshot, Refuse, Acquire, Read, ReadFails, Change,
      CleanupBenign, ChangeFails, Finish, AbortQueued, Abort, vars, reqVars

\* asyncio.Lock's order of arrival is the order of service.
LEMMA FifoStep ==
    /\ TypeOK /\ Places /\ LockDiscipline /\ FifoPerRecord /\ [Next]_vars
    => FifoPerRecord'
<1> SUFFICES ASSUME TypeOK, Places, LockDiscipline, FifoPerRecord,
                    [Next]_vars
             PROVE  FifoPerRecord'
  OBVIOUS
<1> USE ConstantsAssumption DEF TypeOK, reqVars, callVars, bookVars
<1>1. CASE SwapSnapshot
  BY <1>1 DEF SwapSnapshot, FifoPerRecord, InService
<1>2. ASSUME NEW r \in Request, NEW m \in Message, Refuse(r, m)
      PROVE  FifoPerRecord'
  BY <1>2 DEF Refuse, FifoPerRecord, InService, Places
<1>3. ASSUME NEW r \in Request, NEW m \in Message, Dispatch(r, m)
      PROVE  FifoPerRecord'
  <2>1. \A q \in Request : q # r =>
          /\ op'[q] = op[q] /\ ticket'[q] = ticket[q] /\ pc'[q] = pc[q]
          /\ result'[q] = result[q] /\ landed'[q] = landed[q]
    BY <1>3 DEF Dispatch
  <2>2. /\ ticket'[r] = nextTicket /\ pc'[r] = "queued"
        /\ result'[r] = "none" /\ ~landed'[r]
    BY <1>3 DEF Dispatch, Places
  <2>3. \A q \in Request : op[q] # NoOp => ticket[q] < nextTicket
    BY DEF Places
  <2>4. \A q \in Request : ticket[q] \in Nat /\ nextTicket \in Nat
    OBVIOUS
  <2> QED
    BY <2>1, <2>2, <2>3, <2>4 DEF FifoPerRecord, InService
<1>4. ASSUME NEW r \in Request, Acquire(r)
      PROVE  FifoPerRecord'
  <2>1. /\ \A q \in Request : q # r => pc'[q] = pc[q]
        /\ pc'[r] \in {"reading", "changing"}
        /\ UNCHANGED <<op, ticket, result, landed>>
    BY <1>4 DEF Acquire
  <2>2. ASSUME NEW q \in Request, op[q] # NoOp, op[r] # NoOp,
               op[q].record = op[r].record, ticket[q] < ticket[r]
        PROVE  pc[q] = "done"
    <3>1. pc[q] # "queued"
      BY <1>4, <2>2 DEF Acquire, IsNext
    <3>2. ~InService(q)
      BY <1>4, <2>2 DEF Acquire, LockFree, LockDiscipline
    <3>3. pc[q] # "idle"
      BY <2>2 DEF Places
    <3> QED
      BY <3>1, <3>2, <3>3 DEF InService
  <2> QED
    BY <1>4, <2>1, <2>2 DEF FifoPerRecord, InService, Acquire
<1>5. ASSUME NEW r \in Request, InService(r), UNCHANGED <<op, ticket>>,
             \A q \in Request : q # r =>
                /\ pc'[q] = pc[q]
                /\ result'[q] = result[q] /\ landed'[q] = landed[q]
      PROVE  FifoPerRecord'
  BY <1>5 DEF FifoPerRecord, InService
<1>6. ASSUME NEW r \in Request, Progress(r) \/ Abort(r), ~Acquire(r)
      PROVE  FifoPerRecord'
  BY <1>5, <1>6 DEF Progress, Read, ReadFails, Change, CleanupBenign,
       ChangeFails, Finish, Abort, Settle, Land, InService
<1>7. ASSUME NEW r \in Request, AbortQueued(r)
      PROVE  FifoPerRecord'
  BY <1>7 DEF AbortQueued, FifoPerRecord, InService
<1>8. CASE UNCHANGED vars
  BY <1>8 DEF vars, FifoPerRecord, InService
<1> QED
  BY <1>1, <1>2, <1>3, <1>4, <1>6, <1>7, <1>8 DEF Next
-----------------------------------------------------------------------------
\* A change about to be submitted is the operation's effect on what the
\* record holds now: nobody has touched the record since it was read.
Fresh ==
    \A r \in Request : pc[r] = "changing" =>
        IF op[r].backend \in Multi
          THEN /\ seen[r] = txt[op[r].backend][op[r].record]
               /\ target[r] = Merge(op[r], seen[r])
          ELSE target[r] = Overwrite(op[r])

\* The change batch (or the HE update) of a fresh request is accepted and
\* has the effect the store promises.
LEMMA LandIsApply ==
    ASSUME NEW r \in Request, TypeOK, Lifecycle, Fresh, pc[r] = "changing"
    PROVE  Accepted(r) /\ (Land(r) => Store!Apply(r))
<1>1. op[r] \in Op
  BY DEF TypeOK, Lifecycle, Places
<1>2. target[r] = Store!Effect(op[r], txt[op[r].backend][op[r].record])
  BY <1>1 DEF Fresh, Merge, Overwrite, Store!Effect, Op
<1> QED
  BY <1>2 DEF Land, Store!Apply, Accepted, Fresh

\* Route53Provider's no-op return: the effect is to leave the rrset alone.
LEMMA NoChangeIsApply ==
    ASSUME NEW r \in Request, TypeOK, Lifecycle, pc[r] = "reading",
           Merge(op[r], txt[op[r].backend][op[r].record])
              = txt[op[r].backend][op[r].record],
           txt' = txt, landed' = [landed EXCEPT ![r] = TRUE]
    PROVE  Store!Apply(r)
<1>1. op[r] \in Op /\ op[r].backend \in Multi
  BY DEF TypeOK, Lifecycle, Places
<1>2. txt[op[r].backend][op[r].record]
        = Store!Effect(op[r], txt[op[r].backend][op[r].record])
  BY <1>1 DEF Merge, Store!Effect, Op
<1>3. txt \in [Backend -> [Record -> Content]]
  BY DEF TypeOK
<1>4. txt = [txt EXCEPT ![op[r].backend][op[r].record] =
                 txt[op[r].backend][op[r].record]]
  BY <1>1, <1>3 DEF Op
<1> QED
  BY <1>2, <1>4 DEF Store!Apply

\* Whatever happens, the zones and the history of landed changes stay as
\* they are, or one task inside the lock applies its whole operation.
LEMMA EffectStep ==
    ASSUME TypeOK, Lifecycle, Fresh, [Next]_vars
    PROVE  \/ UNCHANGED <<txt, landed>>
           \/ \E r \in Request : /\ pc[r] \in {"reading", "changing"}
                                 /\ Store!Apply(r)
                                 /\ UNCHANGED <<op, ticket>>
<1> USE DEF reqVars, callVars
<1>1. ASSUME NEW r \in Request, Read(r)
      PROVE  \/ UNCHANGED <<txt, landed>>
             \/ pc[r] = "reading" /\ Store!Apply(r) /\ UNCHANGED <<op, ticket>>
  <2> DEFINE current == txt[op[r].backend][op[r].record]
  <2>1. CASE Merge(op[r], current) = current
    BY <1>1, <2>1, NoChangeIsApply DEF Read
  <2>2. CASE Merge(op[r], current) # current
    BY <1>1, <2>2 DEF Read
  <2> QED
    BY <2>1, <2>2
<1>2. ASSUME NEW r \in Request, Change(r) \/ ChangeFails(r) \/ Abort(r)
      PROVE  \/ UNCHANGED <<txt, landed>>
             \/ pc[r] = "changing" /\ Store!Apply(r) /\ UNCHANGED <<op, ticket>>
  BY <1>2, LandIsApply DEF Change, ChangeFails, Abort
<1>3. ASSUME NEW r \in Request, NEW m \in Message, Refuse(r, m) \/ Dispatch(r, m)
      PROVE  UNCHANGED <<txt, landed>>
  BY <1>3 DEF Refuse, Dispatch
<1>4. ASSUME NEW r \in Request, \/ Acquire(r) \/ ReadFails(r) \/ CleanupBenign(r)
                                \/ Finish(r) \/ AbortQueued(r)
      PROVE  UNCHANGED <<txt, landed>>
  BY <1>4 DEF Acquire, ReadFails, CleanupBenign, Finish, AbortQueued
<1>5. CASE SwapSnapshot \/ UNCHANGED vars
  BY <1>5 DEF SwapSnapshot, vars
<1> QED
  BY <1>1, <1>2, <1>3, <1>4, <1>5 DEF Next, Progress

\* A task with a change under way is left alone by every step that is not
\* its own.
LEMMA ChangingUntouched ==
    ASSUME TypeOK, [Next]_vars, NEW q \in Request,
           pc[q] = "changing", pc'[q] = "changing"
    PROVE  /\ op'[q] = op[q] /\ seen'[q] = seen[q] /\ target'[q] = target[q]
           /\ \/ txt' = txt
              \/ \E r \in Request, c \in Content :
                    /\ r # q /\ InService(r)
                    /\ txt' = [txt EXCEPT ![op[r].backend][op[r].record] = c]
<1> USE DEF TypeOK, reqVars, callVars, bookVars, InService
<1>1. CASE SwapSnapshot \/ UNCHANGED vars
  BY <1>1 DEF SwapSnapshot, vars
<1>2. ASSUME NEW r \in Request, NEW m \in Message, Refuse(r, m) \/ Dispatch(r, m)
      PROVE  r # q /\ UNCHANGED <<seen, target, txt>> /\ op'[q] = op[q]
  BY <1>2 DEF Refuse, Dispatch
<1>3. ASSUME NEW r \in Request,
             Acquire(r) \/ ReadFails(r) \/ Finish(r) \/ AbortQueued(r)
      PROVE  r # q /\ UNCHANGED <<op, seen, txt>> /\ target'[q] = target[q]
  BY <1>3 DEF Acquire, ReadFails, Finish, AbortQueued
<1>4. ASSUME NEW r \in Request, Read(r)
      PROVE  /\ r # q /\ UNCHANGED <<op, txt>>
             /\ seen'[q] = seen[q] /\ target'[q] = target[q]
  BY <1>4 DEF Read
<1>5. ASSUME NEW r \in Request,
             Change(r) \/ CleanupBenign(r) \/ ChangeFails(r) \/ Abort(r)
      PROVE  /\ r # q /\ InService(r) /\ UNCHANGED <<op, seen, target>>
             /\ \/ txt' = txt
                \/ txt' = [txt EXCEPT ![op[r].backend][op[r].record] = target[r]]
  BY <1>5 DEF Change, CleanupBenign, ChangeFails, Abort, Land, Settle
<1>6. \A r \in Request : target[r] \in Content
  OBVIOUS
<1>7. CASE \E r \in Request :
              \/ \E m \in Message : Refuse(r, m) \/ Dispatch(r, m)
              \/ Acquire(r) \/ ReadFails(r) \/ Finish(r) \/ AbortQueued(r)
              \/ Read(r)
  BY <1>2, <1>3, <1>4, <1>7, Zenon
<1>8. ASSUME NEW r \in Request,
             Change(r) \/ CleanupBenign(r) \/ ChangeFails(r) \/ Abort(r)
      PROVE  /\ UNCHANGED <<op, seen, target>>
             /\ \/ txt' = txt
                \/ \E c \in Content :
                      /\ r # q /\ InService(r)
                      /\ txt' = [txt EXCEPT ![op[r].backend][op[r].record] = c]
  BY <1>5, <1>6, <1>8, Zenon
<1> QED
  BY <1>1, <1>7, <1>8 DEF Next, Progress

\* A task that comes to its change has just computed it: from the rrset it
\* has just read, or from its own value on HE.
LEMMA ChangingEntered ==
    ASSUME TypeOK, Lifecycle, [Next]_vars, NEW q \in Request,
           pc[q] # "changing", pc'[q] = "changing"
    PROVE  /\ op' = op /\ txt' = txt
           /\ \/ /\ op[q].backend \in Multi
                 /\ seen'[q] = txt[op[q].backend][op[q].record]
                 /\ target'[q] = Merge(op[q], seen'[q])
              \/ /\ op[q].backend \notin Multi
                 /\ target'[q] = Overwrite(op[q])
<1> USE DEF TypeOK, reqVars, callVars, bookVars
<1>1. ASSUME NEW r \in Request, Progress(r), r # q PROVE pc'[q] = pc[q]
  BY <1>1 DEF Progress, Acquire, Read, ReadFails, Change, CleanupBenign,
              ChangeFails, Finish, Settle
<1>2. ASSUME NEW r \in Request,
             \/ \E m \in Message : Refuse(r, m) \/ Dispatch(r, m)
             \/ AbortQueued(r) \/ Abort(r)
      PROVE  FALSE
  BY <1>2 DEF Refuse, Dispatch, AbortQueued, Abort
<1>3. ~SwapSnapshot /\ ~UNCHANGED vars
  BY DEF SwapSnapshot, vars
<1>4. Progress(q)
  BY <1>1, <1>2, <1>3 DEF Next
<1>5. Acquire(q) \/ Read(q)
  BY <1>4 DEF Progress, ReadFails, Change, CleanupBenign, ChangeFails, Finish,
              Settle
<1>6. CASE Acquire(q)
  BY <1>6 DEF Acquire
<1>7. CASE Read(q)
  <2> DEFINE current == txt[op[q].backend][op[q].record]
  <2>1. Merge(op[q], current) # current
    BY <1>7 DEF Read, Settle
  <2> QED
    BY <1>7, <2>1 DEF Read, Lifecycle, Places
<1> QED
  BY <1>5, <1>6, <1>7

\* The lock keeps a reader's picture of its record fresh until its change.
LEMMA FreshStep ==
    TypeOK /\ Lifecycle /\ LockDiscipline /\ Fresh /\ [Next]_vars => Fresh'
<1> SUFFICES ASSUME TypeOK, Lifecycle, LockDiscipline, Fresh, [Next]_vars,
                    NEW q \in Request, pc'[q] = "changing"
             PROVE  IF op'[q].backend \in Multi
                      THEN /\ seen'[q] = txt'[op'[q].backend][op'[q].record]
                           /\ target'[q] = Merge(op'[q], seen'[q])
                      ELSE target'[q] = Overwrite(op'[q])
  BY DEF Fresh, Merge, Overwrite
<1>1. CASE pc[q] # "changing"
  BY <1>1, ChangingEntered
<1>2. CASE pc[q] = "changing"
  <2>1. /\ op'[q] = op[q] /\ seen'[q] = seen[q] /\ target'[q] = target[q]
        /\ \/ txt' = txt
           \/ \E r \in Request, c \in Content :
                 /\ r # q /\ InService(r)
                 /\ txt' = [txt EXCEPT ![op[r].backend][op[r].record] = c]
    BY <1>2, ChangingUntouched
  <2>2. op[q] \in Op
    BY <1>2 DEF TypeOK, Lifecycle, Places
  <2>3. txt'[op[q].backend][op[q].record] = txt[op[q].backend][op[q].record]
    <3>1. ASSUME NEW r \in Request, r # q, InService(r)
          PROVE  op[r].record # op[q].record
      BY <1>2, <3>1 DEF LockDiscipline, InService
    <3>2. CASE txt' = txt
      BY <3>2
    <3>3. CASE txt' # txt
      <4>1. PICK r \in Request, c \in Content :
               /\ r # q /\ InService(r)
               /\ txt' = [txt EXCEPT ![op[r].backend][op[r].record] = c]
        BY <2>1, <3>3
      <4>2. op[r].record # op[q].record
        BY <3>1, <4>1
      <4>3. op[q].backend \in Backend /\ op[q].record \in Record
        BY <2>2 DEF Op
      <4> QED
        BY <4>1, <4>2, <4>3 DEF TypeOK
    <3> QED
      BY <3>2, <3>3
  <2> QED
    BY <1>2, <2>1, <2>3 DEF Fresh
<1> QED
  BY <1>1, <1>2
-----------------------------------------------------------------------------
\* What a landed request did, and when it came, is not rewritten.
LEMMA HistoryKept ==
    ASSUME TypeOK, Lifecycle, [Next]_vars, NEW q \in Request, landed[q]
    PROVE  op'[q] = op[q] /\ ticket'[q] = ticket[q]
<1>1. ASSUME NEW r \in Request, NEW m \in Message, Dispatch(r, m)
      PROVE  op'[q] = op[q] /\ ticket'[q] = ticket[q]
  BY <1>1 DEF Dispatch, Lifecycle, Places, TypeOK
<1>2. CASE UNCHANGED <<op, ticket>>
  BY <1>2
<1> QED
  BY <1>1, <1>2
  DEF Next, Progress, SwapSnapshot, Refuse, Acquire, Read, ReadFails, Change,
      CleanupBenign, ChangeFails, Finish, AbortQueued, Abort, vars, reqVars

\* A task that applies its operation is, in the order of dispatch, later than
\* every request that has had an effect on the record.
LEMMA AppliedLast ==
    ASSUME TypeOK, Lifecycle, TicketsDiffer, FifoPerRecord,
           NEW r \in Request, pc[r] \in {"reading", "changing"}
    PROVE  /\ op[r] \in Op /\ ~landed[r]
           /\ \A q \in Request :
                 landed[q] /\ op[q].record = op[r].record => ticket[q] < ticket[r]
<1>1. op[r] \in Op /\ op[r] # NoOp /\ ~landed[r]
  BY DEF TypeOK, Lifecycle, Places
<1>2. ASSUME NEW q \in Request, landed[q], op[q].record = op[r].record
      PROVE  ticket[q] < ticket[r]
  <2>1. op[q] # NoOp /\ q # r
    BY <1>1, <1>2 DEF Lifecycle, Places
  <2>2. ticket[q] # ticket[r]
    BY <1>1, <2>1 DEF TicketsDiffer
  <2>3. ~(ticket[r] < ticket[q])
    BY <1>1, <1>2, <2>1 DEF FifoPerRecord
  <2>4. ticket[q] \in Nat /\ ticket[r] \in Nat
    BY DEF TypeOK
  <2> QED
    BY <2>2, <2>3, <2>4
<1> QED
  BY <1>1, <1>2

\* Route 53's union and subtraction under the lock lose no value and revive
\* none.
LEMMA ExplainedStep ==
    ASSUME TypeOK, Lifecycle, TicketsDiffer, FifoPerRecord, Fresh, TxtExplained,
           [Next]_vars
    PROVE  TxtExplained'
<1>1. CASE UNCHANGED <<txt, landed>>
  <2>1. \A q \in Request, b \in Multi, n \in Record, v \in Value :
          /\ Adds(q, b, n, v)' <=> Adds(q, b, n, v)
          /\ Removes(q, b, n, v)' <=> Removes(q, b, n, v)
    BY <1>1, HistoryKept DEF Adds, Removes
  <2>2. \A q \in Request, b \in Multi, n \in Record, v \in Value :
          Adds(q, b, n, v) \/ Removes(q, b, n, v) => ticket'[q] = ticket[q]
    BY HistoryKept DEF Adds, Removes
  <2> HIDE DEF Adds, Removes
  <2> SUFFICES ASSUME NEW b \in Multi, NEW n \in Record, NEW v \in Value
               PROVE  v \in txt'[b][n] <=>
                 \/ /\ v \in InitialTxt[b][n]
                    /\ \A q \in Request : ~Removes(q, b, n, v)'
                 \/ \E r \in Request :
                      /\ Adds(r, b, n, v)'
                      /\ \A q \in Request :
                           Removes(q, b, n, v)' => ticket'[q] < ticket'[r]
    BY DEF TxtExplained
  <2>3. v \in txt'[b][n] <=>
                 \/ /\ v \in InitialTxt[b][n]
                    /\ \A q \in Request : ~Removes(q, b, n, v)
                 \/ \E r \in Request :
                      /\ Adds(r, b, n, v)
                      /\ \A q \in Request :
                           Removes(q, b, n, v) => ticket[q] < ticket[r]
    BY <1>1 DEF TxtExplained
  <2> QED
    BY <2>1, <2>2, <2>3
<1>2. ASSUME NEW r \in Request, pc[r] \in {"reading", "changing"},
             Store!Apply(r), UNCHANGED <<op, ticket>>,
             NEW b \in Multi, NEW n \in Record, NEW v \in Value
      PROVE  v \in txt'[b][n] <=>
                 \/ /\ v \in InitialTxt[b][n]
                    /\ \A q \in Request : ~Removes(q, b, n, v)'
                 \/ \E x \in Request :
                      /\ Adds(x, b, n, v)'
                      /\ \A q \in Request :
                           Removes(q, b, n, v)' => ticket'[q] < ticket'[x]
  <2>1. /\ op[r] \in Op /\ ~landed[r]
        /\ \A q \in Request :
              landed[q] /\ op[q].record = op[r].record => ticket[q] < ticket[r]
    BY <1>2, AppliedLast
  <2>2. /\ \A q \in Request : q # r => landed'[q] = landed[q]
        /\ landed'[r]
        /\ op' = op /\ ticket' = ticket
    BY <1>2 DEF Store!Apply, TypeOK
  <2>3. v \in txt[b][n] <=>
                 \/ /\ v \in InitialTxt[b][n]
                    /\ \A q \in Request : ~Removes(q, b, n, v)
                 \/ \E x \in Request :
                      /\ Adds(x, b, n, v)
                      /\ \A q \in Request :
                           Removes(q, b, n, v) => ticket[q] < ticket[x]
    BY DEF TxtExplained
  <2>4. /\ \A q \in Request : q # r => /\ Adds(q, b, n, v)' <=> Adds(q, b, n, v)
                                       /\ Removes(q, b, n, v)' <=> Removes(q, b, n, v)
        /\ ~Adds(r, b, n, v) /\ ~Removes(r, b, n, v)
    BY <2>1, <2>2 DEF Adds, Removes
  <2>5. \A q \in Request : Adds(q, b, n, v) \/ Removes(q, b, n, v) =>
            landed[q] /\ op[q].record = n
    BY DEF Adds, Removes
  <2>6. b \in Backend
    BY ConstantsAssumption
  <2>7. op[r].backend \in Backend /\ op[r].record \in Record
    BY <2>1 DEF Op
  <2>8. CASE ~(op[r].backend = b /\ op[r].record = n)
    <3>1. txt'[b][n] = txt[b][n]
      BY <1>2, <2>6, <2>7, <2>8 DEF Store!Apply, TypeOK
    <3>2. ~Adds(r, b, n, v)' /\ ~Removes(r, b, n, v)'
      BY <2>2, <2>8 DEF Adds, Removes
    <3> QED
      BY <2>2, <2>3, <2>4, <3>1, <3>2
  <2>9. CASE op[r].backend = b /\ op[r].record = n
    <3>1. txt'[b][n] = Store!Effect(op[r], txt[b][n])
      BY <1>2, <2>6, <2>9 DEF Store!Apply, TypeOK
    <3>2. CASE op[r].action = "present" /\ v \in op[r].values
      <4>1. v \in txt'[b][n]
        BY <2>9, <3>1, <3>2 DEF Store!Effect
      <4>2. Adds(r, b, n, v)' /\ ~Removes(r, b, n, v)'
        BY <2>2, <2>9, <3>2 DEF Adds, Removes
      <4> QED
        BY <2>1, <2>2, <2>4, <2>5, <2>9, <4>1, <4>2
    <3>3. CASE op[r].action = "present" /\ v \notin op[r].values
      <4>1. v \in txt'[b][n] <=> v \in txt[b][n]
        BY <2>9, <3>1, <3>3 DEF Store!Effect
      <4>2. ~Adds(r, b, n, v)' /\ ~Removes(r, b, n, v)'
        BY <2>2, <3>3 DEF Adds, Removes
      <4> QED
        BY <2>2, <2>3, <2>4, <4>1, <4>2
    <3>4. CASE op[r].action = "cleanup" /\ (op[r].values = {} \/ v \in op[r].values)
      <4>1. v \notin txt'[b][n]
        BY <2>9, <3>1, <3>4 DEF Store!Effect
      <4>2. Removes(r, b, n, v)' /\ ~Adds(r, b, n, v)'
        BY <2>2, <2>9, <3>4 DEF Adds, Removes
      <4>3. ASSUME NEW x \in Request, Adds(x, b, n, v)'
            PROVE  ~(ticket[r] < ticket[x])
        BY <2>1, <2>4, <2>5, <2>9, <4>2, <4>3 DEF TypeOK
      <4> QED
        BY <2>2, <4>1, <4>2, <4>3
    <3>5. CASE op[r].action = "cleanup" /\ op[r].values # {} /\ v \notin op[r].values
      <4>1. v \in txt'[b][n] <=> v \in txt[b][n]
        BY <2>9, <3>1, <3>5 DEF Store!Effect
      <4>2. ~Adds(r, b, n, v)' /\ ~Removes(r, b, n, v)'
        BY <2>2, <3>5 DEF Adds, Removes
      <4> QED
        BY <2>2, <2>3, <2>4, <4>1, <4>2
    <3> QED
      BY <2>1, <3>2, <3>3, <3>4, <3>5 DEF Op
  <2> QED
    BY <2>8, <2>9
<1>3. CASE \E r \in Request : /\ pc[r] \in {"reading", "changing"}
                              /\ Store!Apply(r)
                              /\ UNCHANGED <<op, ticket>>
  BY <1>2, <1>3 DEF TxtExplained
<1> QED
  BY <1>1, <1>3, EffectStep

\* HE updates are applied in the order of dispatch, so the last one's value is
\* the one the record holds.
LEMMA SingleStep ==
    ASSUME TypeOK, Lifecycle, TicketsDiffer, FifoPerRecord, Fresh,
           SingleHoldsLast, [Next]_vars
    PROVE  SingleHoldsLast'
<1> SUFFICES ASSUME NEW b \in Backend \ Multi, NEW n \in Record
             PROVE  \/ /\ LandedAt(b, n)' = {}
                       /\ txt'[b][n] = InitialTxt[b][n]
                    \/ \E r \in LandedAt(b, n)' :
                          /\ \A q \in LandedAt(b, n)' : ticket'[q] <= ticket'[r]
                          /\ txt'[b][n] = Overwrite(op'[r])
  BY DEF SingleHoldsLast, Overwrite
<1>1. \/ /\ LandedAt(b, n) = {}
         /\ txt[b][n] = InitialTxt[b][n]
      \/ \E r \in LandedAt(b, n) :
            /\ \A q \in LandedAt(b, n) : ticket[q] <= ticket[r]
            /\ txt[b][n] = Overwrite(op[r])
  BY DEF SingleHoldsLast
<1>2. CASE UNCHANGED <<txt, landed>>
  <2>1. LandedAt(b, n)' = LandedAt(b, n)
    BY <1>2, HistoryKept DEF LandedAt
  <2>2. \A q \in LandedAt(b, n) : op'[q] = op[q] /\ ticket'[q] = ticket[q]
    BY HistoryKept DEF LandedAt
  <2> QED
    BY <1>1, <1>2, <2>1, <2>2
<1>3. ASSUME NEW r \in Request, pc[r] \in {"reading", "changing"},
             Store!Apply(r), UNCHANGED <<op, ticket>>
      PROVE  \/ /\ LandedAt(b, n)' = {}
                /\ txt'[b][n] = InitialTxt[b][n]
             \/ \E x \in LandedAt(b, n)' :
                   /\ \A q \in LandedAt(b, n)' : ticket'[q] <= ticket'[x]
                   /\ txt'[b][n] = Overwrite(op'[x])
  <2>1. /\ op[r] \in Op /\ ~landed[r]
        /\ \A q \in Request :
              landed[q] /\ op[q].record = op[r].record => ticket[q] < ticket[r]
    BY <1>3, AppliedLast
  <2>2. op[r].backend \in Backend /\ op[r].record \in Record
    BY <2>1 DEF Op
  <2>3. /\ \A q \in Request : q # r => landed'[q] = landed[q]
        /\ landed'[r]
        /\ op' = op /\ ticket' = ticket
    BY <1>3 DEF Store!Apply, TypeOK
  <2>4. CASE ~(op[r].backend = b /\ op[r].record = n)
    <3>1. txt'[b][n] = txt[b][n]
      BY <1>3, <2>2, <2>4 DEF Store!Apply, TypeOK
    <3>2. LandedAt(b, n)' = LandedAt(b, n)
      BY <2>3, <2>4 DEF LandedAt
    <3> QED
      BY <1>1, <2>3, <3>1, <3>2
  <2>5. CASE op[r].backend = b /\ op[r].record = n
    <3>1. txt'[b][n] = Store!Effect(op[r], txt[b][n])
      BY <1>3, <2>5 DEF Store!Apply, TypeOK
    <3>2. txt'[b][n] = Overwrite(op'[r])
      BY <2>1, <2>3, <2>5, <3>1 DEF Store!Effect, Overwrite, Op
    <3>3. r \in LandedAt(b, n)'
      BY <2>3, <2>5 DEF LandedAt
    <3>4. ASSUME NEW q \in LandedAt(b, n)' PROVE ticket'[q] <= ticket'[r]
      <4>1. q \in Request /\ ticket[q] \in Nat /\ ticket[r] \in Nat
        BY DEF LandedAt, TypeOK
      <4>2. q # r => ticket[q] < ticket[r]
        BY <2>1, <2>3, <2>5 DEF LandedAt
      <4> QED
        BY <2>3, <4>1, <4>2
    <3> QED
      BY <3>2, <3>3, <3>4
  <2> QED
    BY <2>4, <2>5
<1> QED
  BY <1>2, <1>3, EffectStep
-----------------------------------------------------------------------------
\* The inductive invariant.
IInv == /\ TypeOK /\ Lifecycle
        /\ LockDiscipline /\ TicketsDiffer /\ FifoPerRecord
        /\ Fresh /\ TxtExplained /\ SingleHoldsLast

\* Every step of the dispatcher keeps the inductive invariant.
LEMMA IInvInductive ==
    /\ Init => IInv
    /\ IInv /\ [Next]_vars => IInv'
<1>1. Init => IInv
  <2> SUFFICES ASSUME Init PROVE IInv
    OBVIOUS
  <2>1. TypeOK /\ Lifecycle
    BY ConstantsAssumption DEF Init, TypeOK, Lifecycle, Places, Content
  <2>2. LockDiscipline /\ TicketsDiffer /\ FifoPerRecord /\ Fresh
    BY ConstantsAssumption
    DEF Init, LockDiscipline, InService, TicketsDiffer, FifoPerRecord, Fresh
  <2>3. TxtExplained /\ SingleHoldsLast
    BY DEF Init, TxtExplained, Adds, Removes, SingleHoldsLast, LandedAt
  <2> QED
    BY <2>1, <2>2, <2>3 DEF IInv
<1>2. ASSUME IInv, [Next]_vars PROVE IInv'
  <2> USE <1>2 DEF IInv
  <2>1. TypeOK'
    BY TypeStep DEF Lifecycle, Places, ActiveHasOp
  <2>2. Lifecycle'
    BY LifecycleStep
  <2>3. LockDiscipline'
    BY LockStep DEF Lifecycle
  <2>4. TicketsDiffer'
    BY TicketStep DEF Lifecycle
  <2>5. FifoPerRecord'
    BY FifoStep DEF Lifecycle
  <2>6. Fresh'
    BY FreshStep
  <2>7. TxtExplained'
    BY ExplainedStep
  <2>8. SingleHoldsLast'
    BY SingleStep
  <2> QED
    BY <2>1, <2>2, <2>3, <2>4, <2>5, <2>6, <2>7, <2>8
<1> QED
  BY <1>1, <1>2

\* The inductive invariant holds in every reachable state.
LEMMA Invariance == Spec => []IInv
<1>1. Init => IInv
  BY IInvInductive
<1>2. IInv /\ [Next]_vars => IInv'
  BY IInvInductive
<1> QED
  BY <1>1, <1>2, PTL DEF Spec

\* Dispatcher.dispatch and _invoke_provider keep every variable in its type.
THEOREM TypeCorrect == Spec => []TypeOK
<1>1. IInv => TypeOK
  BY DEF IInv
<1> QED
  BY <1>1, Invariance, PTL

\* The lock of Dispatcher._lock_for has one holder, who is inside
\* _invoke_provider, and nobody leaves without releasing it.
THEOREM LocksAreSound == Spec => []LockDiscipline
<1>1. IInv => LockDiscipline
  BY DEF IInv
<1> QED
  BY <1>1, Invariance, PTL

\* Requests for one record are served in the order they were dispatched.
THEOREM ServiceIsFifo == Spec => []FifoPerRecord
<1>1. IInv => FifoPerRecord
  BY DEF IInv
<1> QED
  BY <1>1, Invariance, PTL

\* Route53Provider loses no presented value and revives no cleaned one, for
\* any number of concurrent requests, failures and cancellations.
THEOREM NoLostUpdate == Spec => []TxtExplained
<1>1. IInv => TxtExplained
  BY DEF IInv
<1> QED
  BY <1>1, Invariance, PTL

\* HurricaneProvider's updates of a record are never reordered.
THEOREM LastPushWins == Spec => []SingleHoldsLast
<1>1. IInv => SingleHoldsLast
  BY DEF IInv
<1> QED
  BY <1>1, Invariance, PTL

\* Route 53 is never sent a DELETE it must reject.
THEOREM DeletesAreExact == Spec => []DeleteIsExact
<1>1. IInv => DeleteIsExact
  BY LandIsApply DEF IInv, DeleteIsExact
<1> QED
  BY <1>1, Invariance, PTL
-----------------------------------------------------------------------------
\* While the audit row of a present that took effect is being written, its
\* values stand: nobody else can have had an effect on the record since.
LEMMA StandsWhileAuditing ==
    ASSUME IInv, NEW r \in Request, pc[r] = "auditing", landed[r],
           op[r].action = "present"
    PROVE  op[r].values \subseteq txt[op[r].backend][op[r].record]
<1> DEFINE b == op[r].backend
           n == op[r].record
<1>1. op[r] \in Op /\ op[r] # NoOp
  BY DEF IInv, TypeOK, Lifecycle, Places
<1>2. b \in Backend /\ n \in Record /\ op[r].values \subseteq Value
  BY <1>1 DEF Op
<1>3. ASSUME NEW q \in Request, landed[q], op[q].record = n, q # r
      PROVE  ticket[q] < ticket[r]
  <2>1. op[q] # NoOp
    BY <1>3 DEF IInv, Lifecycle, Places
  <2>2. ticket[q] # ticket[r]
    BY <1>1, <1>3, <2>1 DEF IInv, TicketsDiffer
  <2>3. ~(ticket[r] < ticket[q])
    BY <1>1, <1>3, <2>1 DEF IInv, FifoPerRecord
  <2>4. ticket[q] \in Nat /\ ticket[r] \in Nat
    BY DEF IInv, TypeOK
  <2> QED
    BY <2>2, <2>3, <2>4
<1>4. CASE b \in Multi
  <2> SUFFICES ASSUME NEW v \in op[r].values PROVE v \in txt[b][n]
    OBVIOUS
  <2>1. Adds(r, b, n, v) /\ ~Removes(r, b, n, v)
    BY DEF Adds, Removes
  <2>2. \A q \in Request : Removes(q, b, n, v) => ticket[q] < ticket[r]
    BY <1>3, <2>1 DEF Removes
  <2> QED
    BY <1>2, <1>4, <2>1, <2>2 DEF IInv, TxtExplained
<1>5. CASE b \notin Multi
  <2>1. r \in LandedAt(b, n)
    BY DEF LandedAt
  <2>2. PICK x \in LandedAt(b, n) :
            /\ \A q \in LandedAt(b, n) : ticket[q] <= ticket[x]
            /\ txt[b][n] = Overwrite(op[x])
    BY <1>2, <1>5, <2>1 DEF IInv, SingleHoldsLast
  <2>3. x \in Request /\ landed[x] /\ op[x].record = n /\ ticket[r] <= ticket[x]
    BY <2>1, <2>2 DEF LandedAt
  <2>4. ticket[x] \in Nat /\ ticket[r] \in Nat
    BY <2>3 DEF IInv, TypeOK
  <2>5. x = r
    BY <1>3, <2>3, <2>4
  <2> QED
    BY <2>2, <2>5 DEF Overwrite
<1> QED
  BY <1>4, <1>5

\* Only Finish answers NOERROR.
LEMMA NoErrorStep ==
    ASSUME TypeOK, [Next]_vars, NEW r \in Request,
           rcode[r] = "none", rcode'[r] = "NOERROR"
    PROVE  Finish(r)
<1> USE DEF TypeOK
<1>1. ASSUME NEW q \in Request, NEW m \in Message, Refuse(q, m)
      PROVE  FALSE
  BY <1>1 DEF Refuse
<1>2. ASSUME NEW q \in Request, AbortQueued(q) \/ Abort(q)
      PROVE  FALSE
  BY <1>2 DEF AbortQueued, Abort
<1>3. ASSUME NEW q \in Request, Finish(q)
      PROVE  q = r
  BY <1>3 DEF Finish
<1>4. ~UNCHANGED rcode
  OBVIOUS
<1> QED
  BY <1>1, <1>2, <1>3, <1>4
  DEF Next, Progress, SwapSnapshot, Dispatch, Acquire, Read, ReadFails, Change,
      CleanupBenign, ChangeFails, vars

\* A present is answered NOERROR only while all its values are published.
THEOREM AnswersAreTruthful == Spec => AnswerIsTruthful
<1>1. ASSUME IInv, [Next]_vars, NEW r \in Request,
             rcode[r] = "none", rcode'[r] = "NOERROR", op[r].action = "present"
      PROVE  op[r].values \subseteq txt'[op[r].backend][op[r].record]
  <2>1. Finish(r)
    BY <1>1, NoErrorStep DEF IInv
  <2>2. pc[r] = "auditing" /\ txt' = txt /\ AnswerOf(r) = "NOERROR"
    BY <1>1, <2>1 DEF Finish, callVars, IInv, TypeOK
  <2>3. result[r] = "ok"
    BY <1>1, <2>2 DEF AnswerOf, IInv, TypeOK, Lifecycle, Places
  <2>4. landed[r]
    BY <1>1, <2>3 DEF IInv, Lifecycle, Places
  <2> QED
    BY <1>1, <2>2, <2>4, StandsWhileAuditing
<1>2. IInv /\ [Next]_vars =>
        [\A r \in Request :
           rcode[r] = "none" /\ rcode'[r] = "NOERROR" /\ op[r].action = "present"
           => op[r].values \subseteq txt'[op[r].backend][op[r].record]]_vars
  BY <1>1
<1> QED
  BY <1>2, Invariance, PTL DEF Spec, AnswerIsTruthful
-----------------------------------------------------------------------------
\* A client's view moves with the task's place, and with nothing else.
LEMMA PhaseStep ==
    ASSUME TypeOK, NEW r \in Request, NEW place,
           pc' = [pc EXCEPT ![r] = place]
    PROVE  /\ Phase' = [Phase EXCEPT ![r] = PhaseOf(place)]
           /\ PhaseOf(place) = PhaseOf(pc[r]) => Phase' = Phase
BY DEF Phase, TypeOK

\* Every step of the dispatcher is a step of the store, or none.
LEMMA StoreStep ==
    ASSUME IInv, [Next]_vars
    PROVE  [Store!Next]_Store!vars
<1>0. TypeOK /\ Lifecycle /\ Fresh
  BY DEF IInv
<1> USE DEF reqVars, callVars, bookVars
<1>1. CASE SwapSnapshot \/ UNCHANGED vars
  BY <1>1 DEF SwapSnapshot, vars, Store!vars, Phase
<1>2. ASSUME NEW r \in Request, NEW m \in Message, Refuse(r, m)
      PROVE  Store!Reject(r)
  <2>1. Phase' = [Phase EXCEPT ![r] = "done"]
    BY <1>0, <1>2, PhaseStep DEF Refuse, PhaseOf
  <2>2. Phase[r] = "idle"
    BY <1>2 DEF Refuse, Phase, PhaseOf
  <2> QED
    BY <1>2, <2>1, <2>2 DEF Refuse, Store!Reject
<1>3. ASSUME NEW r \in Request, NEW m \in Message, Dispatch(r, m)
      PROVE  \E o \in Store!Op : Store!Invoke(r, o)
  <2> DEFINE o == [backend |-> routing[m.zone].backend, record |-> m.name,
                   action |-> m.action, values |-> m.values]
  <2>1. routing[m.zone] \in Route
    BY <1>0, <1>3, ConstantsAssumption DEF Dispatch, TypeOK
  <2>2. o \in Store!Op
    BY <2>1, ConstantsAssumption DEF Route, Store!Op
  <2>3. Phase' = [Phase EXCEPT ![r] = "pending"]
    <3>1. pc' = [pc EXCEPT ![r] = "queued"]
      BY <1>3 DEF Dispatch
    <3>2. PhaseOf("queued") = "pending"
      BY DEF PhaseOf
    <3> QED
      BY <1>0, <3>1, <3>2, PhaseStep
  <2>4. Phase[r] = "idle"
    BY <1>3 DEF Dispatch, Phase, PhaseOf
  <2>5. Store!Invoke(r, o)
    BY <1>3, <2>3, <2>4 DEF Dispatch, Store!Invoke
  <2> QED
    BY <2>2, <2>5
<1>4. ASSUME NEW r \in Request, Acquire(r)
      PROVE  UNCHANGED Store!vars
  <2>1. Phase' = Phase
    BY <1>0, <1>4, PhaseStep DEF Acquire, PhaseOf
  <2> QED
    BY <1>4, <2>1 DEF Acquire, Store!vars
<1>5. ASSUME NEW r \in Request, pc[r] \in {"reading", "changing"},
             pc' = [pc EXCEPT ![r] = "auditing"],
             Store!Apply(r) \/ UNCHANGED <<txt, landed>>,
             UNCHANGED <<op, rcode>>
      PROVE  Store!Settle(r)
  <2>1. Phase' = [Phase EXCEPT ![r] = "settled"]
    BY <1>0, <1>5, PhaseStep DEF PhaseOf
  <2>2. Phase[r] = "pending"
    BY <1>5 DEF Phase, PhaseOf
  <2> QED
    BY <1>5, <2>1, <2>2 DEF Store!Settle
<1>6. ASSUME NEW r \in Request, Read(r)
      PROVE  Store!Settle(r) \/ UNCHANGED Store!vars
  <2> DEFINE current == txt[op[r].backend][op[r].record]
  <2>1. CASE Merge(op[r], current) = current
    <3>1. Store!Apply(r)
      BY <1>0, <1>6, <2>1, NoChangeIsApply DEF Read
    <3> QED
      BY <1>5, <1>6, <2>1, <3>1 DEF Read, Settle
  <2>2. CASE Merge(op[r], current) # current
    <3>1. /\ pc' = [pc EXCEPT ![r] = "changing"] /\ pc[r] = "reading"
          /\ UNCHANGED <<op, txt, landed, rcode>>
      BY <1>6, <2>2 DEF Read
    <3>2. PhaseOf("changing") = PhaseOf("reading")
      BY DEF PhaseOf
    <3>3. Phase' = Phase
      BY <1>0, <3>1, <3>2, PhaseStep
    <3> QED
      BY <3>1, <3>3 DEF Store!vars
  <2> QED
    BY <2>1, <2>2
<1>7. ASSUME NEW r \in Request,
             ReadFails(r) \/ Change(r) \/ CleanupBenign(r) \/ ChangeFails(r)
      PROVE  Store!Settle(r)
  BY <1>0, <1>5, <1>7, LandIsApply
  DEF ReadFails, Change, CleanupBenign, ChangeFails, Settle
<1>8. ASSUME NEW r \in Request, Finish(r)
      PROVE  Store!Answer(r)
  <2>1. Phase' = [Phase EXCEPT ![r] = "done"]
    BY <1>0, <1>8, PhaseStep DEF Finish, PhaseOf
  <2>2. Phase[r] = "settled"
    BY <1>8 DEF Finish, Phase, PhaseOf
  <2>3. /\ op[r] \in Op /\ result[r] \in {"ok", "error"}
        /\ result[r] = "ok" /\ op[r].action = "present" => landed[r]
    BY <1>0, <1>8 DEF Finish, TypeOK, Lifecycle, Places
  <2>4. op[r].action \in {"present", "cleanup"}
    BY <2>3 DEF Op
  <2> QED
    BY <1>8, <2>1, <2>2, <2>3, <2>4 DEF Finish, AnswerOf, Store!Answer
<1>9. ASSUME NEW r \in Request, AbortQueued(r) \/ Abort(r)
      PROVE  Store!Drop(r)
  <2>1. Phase' = [Phase EXCEPT ![r] = "done"]
    BY <1>0, <1>9, PhaseStep DEF AbortQueued, Abort, PhaseOf
  <2>2. /\ Phase[r] \in {"pending", "settled"}
        /\ pc[r] = "changing" => Phase[r] = "pending"
    BY <1>9 DEF AbortQueued, Abort, Phase, PhaseOf
  <2> QED
    BY <1>0, <1>9, <2>1, <2>2, LandIsApply DEF AbortQueued, Abort, Store!Drop
<1> QED
  BY <1>1, <1>2, <1>3, <1>4, <1>6, <1>7, <1>8, <1>9
  DEF Next, Progress, Store!Next

\* Dispatcher, with its locks, retries, failures and cancellations, implements
\* ChallengeStore: atomic operations on the records, each applied at most once.
THEOREM DispatcherImplementsStore == Spec => ImplementsStore
<1>1. Init => Store!Init
  BY DEF Init, Store!Init, Phase, PhaseOf
<1>2. IInv /\ [Next]_vars => [Store!Next]_Store!vars
  BY StoreStep
<1> QED
  BY <1>1, <1>2, Invariance, PTL DEF Spec, ImplementsStore, Store!Spec
-----------------------------------------------------------------------------
(***************************************************************************)
(* The books: metric, audit row and answer.                                *)
(***************************************************************************)
\* A result is counted when it comes, written down after that, and answered
\* last; a refusal never gets that far.
Booked(r) ==
    /\ pc[r] # "done" => audit[r] = "none"
    /\ audit[r] \in {"none", "failed", result[r]}
    /\ result[r] # "none" =>
          metric[r] = IF result[r] = "error" /\ op[r].action = "cleanup"
                        THEN "suppressed" ELSE result[r]
    /\ rcode[r] \in {"NOERROR", "SERVFAIL"} =>
          /\ result[r] # "none" /\ audit[r] \in {result[r], "failed"}
          /\ rcode[r] = AnswerOf(r)
    /\ pc[r] = "done" => rcode[r] # "none"
    /\ rcode[r] = "REFUSED" => op[r] = NoOp

Books == \A r \in Request : Booked(r)

\* The books follow every step of _invoke_provider, _write_audit and dispatch.
LEMMA BooksStep ==
    ASSUME TypeOK, Places, Books, [Next]_vars
    PROVE  Books'
<1> USE DEF reqVars, callVars, bookVars
<1>1. ASSUME NEW q \in Request, pc'[q] = pc[q], op'[q] = op[q],
             result'[q] = result[q], metric'[q] = metric[q],
             audit'[q] = audit[q], rcode'[q] = rcode[q]
      PROVE  Booked(q)'
  BY <1>1 DEF Books, Booked, AnswerOf
<1>2. ASSUME NEW r \in Request,
             \A q \in Request : q # r =>
                /\ pc'[q] = pc[q] /\ op'[q] = op[q] /\ result'[q] = result[q]
                /\ metric'[q] = metric[q] /\ audit'[q] = audit[q]
                /\ rcode'[q] = rcode[q],
             Booked(r)'
      PROVE  Books'
  BY <1>1, <1>2 DEF Books
<1>3. ASSUME NEW r \in Request, NEW m \in Message, Refuse(r, m)
      PROVE  Books'
  <2>1. op[r] = NoOp /\ result[r] = "none" /\ audit[r] = "none"
    BY <1>3 DEF Refuse, Places, Books, Booked
  <2>2. Booked(r)'
    BY <1>3, <2>1 DEF Refuse, Booked, TypeOK
  <2> QED
    BY <1>2, <1>3, <2>2 DEF Refuse, TypeOK
<1>4. ASSUME NEW r \in Request, NEW m \in Message, Dispatch(r, m)
      PROVE  Books'
  <2>1. result[r] = "none" /\ audit[r] = "none" /\ rcode[r] = "none"
    BY <1>4 DEF Dispatch, Places, Books, Booked
  <2>2. Booked(r)'
    BY <1>4, <2>1 DEF Dispatch, Booked, TypeOK
  <2> QED
    BY <1>2, <1>4, <2>2 DEF Dispatch, TypeOK
<1>5. ASSUME NEW r \in Request, pc[r] \in {"reading", "changing"},
             NEW res \in {"ok", "error"}, Settle(r, res), UNCHANGED <<op, rcode>>
      PROVE  Books'
  <2>1. audit[r] = "none" /\ rcode[r] = "none"
    BY <1>5 DEF Places, Books, Booked
  <2>2. /\ pc'[r] = "auditing" /\ result'[r] = res /\ audit' = audit
        /\ metric'[r] = IF res = "error" /\ op[r].action = "cleanup"
                          THEN "suppressed" ELSE res
    BY <1>5 DEF Settle, TypeOK
  <2>3. Booked(r)'
    BY <1>5, <2>1, <2>2 DEF Booked
  <2> QED
    BY <1>2, <1>5, <2>3 DEF Settle, TypeOK
<1>6. ASSUME NEW r \in Request, Acquire(r)
      PROVE  Books'
  <2>1. /\ pc[r] = "queued" /\ pc'[r] \in {"reading", "changing"}
        /\ \A q \in Request : q # r => pc'[q] = pc[q]
        /\ UNCHANGED <<op, result, metric, audit, rcode>>
    BY <1>6 DEF Acquire, TypeOK
  <2>2. result[r] = "none" /\ audit[r] = "none" /\ rcode[r] = "none"
    BY <2>1 DEF Places, Books, Booked
  <2>3. Booked(r)'
    BY <2>1, <2>2 DEF Booked
  <2> QED
    BY <1>2, <2>1, <2>3
<1>7. ASSUME NEW r \in Request, Read(r)
      PROVE  Books'
  <2>1. pc[r] = "reading" /\ UNCHANGED <<op, rcode>>
    BY <1>7 DEF Read
  <2>2. CASE Settle(r, "ok")
    BY <1>5, <2>1, <2>2
  <2>3. CASE /\ pc' = [pc EXCEPT ![r] = "changing"]
             /\ UNCHANGED <<result, metric, audit>>
    <3>1. /\ pc'[r] = "changing"
          /\ \A q \in Request : q # r => pc'[q] = pc[q]
      BY <2>3 DEF TypeOK
    <3>2. result[r] = "none" /\ audit[r] = "none" /\ rcode[r] = "none"
      BY <2>1 DEF Places, Books, Booked
    <3>3. Booked(r)'
      BY <2>1, <2>3, <3>1, <3>2 DEF Booked
    <3> QED
      BY <1>2, <2>1, <2>3, <3>1, <3>3
  <2> QED
    BY <1>7, <2>2, <2>3 DEF Read
<1>8. ASSUME NEW r \in Request,
             ReadFails(r) \/ Change(r) \/ CleanupBenign(r) \/ ChangeFails(r)
      PROVE  Books'
  <2>1. /\ pc[r] \in {"reading", "changing"} /\ UNCHANGED <<op, rcode>>
        /\ Settle(r, "ok") \/ Settle(r, "error")
    BY <1>8 DEF ReadFails, Change, CleanupBenign, ChangeFails
  <2> QED
    BY <1>5, <2>1
<1>9. ASSUME NEW r \in Request, Finish(r)
       PROVE  Books'
  <2>1. /\ pc[r] = "auditing" /\ pc'[r] = "done" /\ rcode'[r] = AnswerOf(r)
        /\ audit'[r] \in {result[r], "failed"}
        /\ UNCHANGED <<op, result, metric>>
    BY <1>9 DEF Finish, TypeOK
  <2>2. result[r] # "none"
    BY <2>1 DEF Places
  <2>3. AnswerOf(r)' = AnswerOf(r) /\ AnswerOf(r) \in {"SERVFAIL", "NOERROR"}
    BY <2>1 DEF AnswerOf
  <2>4. Booked(r)'
    BY <2>1, <2>2, <2>3 DEF Books, Booked
  <2> QED
    BY <1>2, <1>9, <2>4 DEF Finish, TypeOK
<1>10. ASSUME NEW r \in Request, AbortQueued(r) \/ Abort(r)
       PROVE  Books'
  <2>1. /\ pc'[r] = "done" /\ rcode'[r] = "dropped"
        /\ audit'[r] \in {audit[r], result[r]}
        /\ UNCHANGED <<op, result, metric>>
    BY <1>10 DEF AbortQueued, Abort, TypeOK
  <2>2. Booked(r)'
    BY <2>1 DEF Books, Booked
  <2> QED
    BY <1>2, <1>10, <2>2 DEF AbortQueued, Abort, TypeOK
<1>11. CASE UNCHANGED <<pc, op, result, metric, audit, rcode>>
  BY <1>1, <1>11 DEF Books
<1> QED
  BY <1>3, <1>4, <1>6, <1>7, <1>8, <1>9, <1>10, <1>11
  DEF Next, Progress, SwapSnapshot, vars

\* Books that follow every step balance.
LEMMA BooksBalanced ==
    ASSUME TypeOK, Places, Books
    PROVE  BooksBalance
<1> SUFFICES ASSUME NEW r \in Request
             PROVE
        /\ op[r] # NoOp /\ op[r].action = "present"
              /\ (rcode[r] = "NOERROR" \/ audit[r] = "ok") => landed[r]
        /\ rcode[r] \in {"NOERROR", "SERVFAIL"} =>
              /\ audit[r] \in {result[r], "failed"}
              /\ rcode[r] = "SERVFAIL" <=> metric[r] = "error"
              /\ metric[r] = "suppressed" <=>
                    result[r] = "error" /\ op[r].action = "cleanup"
        /\ pc[r] = "done" /\ landed[r] /\ audit[r] = "none" =>
              rcode[r] = "dropped"
  BY DEF BooksBalance
<1>0. Booked(r)
  BY DEF Books
<1>1. /\ result[r] \in {"none", "ok", "error"}
      /\ rcode[r] \in {"none", "NOERROR", "SERVFAIL", "REFUSED", "dropped"}
  BY DEF TypeOK
<1>2. op[r] # NoOp => op[r].action \in {"present", "cleanup"}
  BY DEF TypeOK, Op
<1>3. /\ result[r] # "none" => op[r] # NoOp
      /\ result[r] = "ok" /\ op[r].action = "present" => landed[r]
      /\ landed[r] => op[r] # NoOp
  BY DEF Places
<1>4. ASSUME op[r] # NoOp, op[r].action = "present",
             rcode[r] = "NOERROR" \/ audit[r] = "ok"
      PROVE  landed[r]
  <2>1. result[r] = "ok"
    BY <1>0, <1>1, <1>4 DEF Booked, AnswerOf
  <2> QED
    BY <1>3, <1>4, <2>1
<1>5. ASSUME rcode[r] \in {"NOERROR", "SERVFAIL"}
      PROVE  /\ audit[r] \in {result[r], "failed"}
             /\ rcode[r] = "SERVFAIL" <=> metric[r] = "error"
             /\ metric[r] = "suppressed" <=>
                   result[r] = "error" /\ op[r].action = "cleanup"
  BY <1>0, <1>1, <1>2, <1>3, <1>5 DEF Booked, AnswerOf
<1>6. ASSUME pc[r] = "done", landed[r], audit[r] = "none"
      PROVE  rcode[r] = "dropped"
  BY <1>0, <1>1, <1>3, <1>6 DEF Booked
<1> QED
  BY <1>4, <1>5, <1>6

\* The metric, the ChallengeEvent row and the answer of every request agree
\* with each other and with what the provider did.
THEOREM BooksAlwaysBalance == Spec => []BooksBalance
<1>1. Init => Books
  BY DEF Init, Books, Booked
<1>2. IInv /\ Books /\ [Next]_vars => Books'
  BY BooksStep DEF IInv, Lifecycle
<1>3. IInv /\ Books => BooksBalance
  BY BooksBalanced DEF IInv, Lifecycle
<1> QED
  BY <1>1, <1>2, <1>3, Invariance, PTL DEF Spec
=============================================================================
