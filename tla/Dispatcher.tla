----------------------------- MODULE Dispatcher -----------------------------
(***************************************************************************)
(* The data plane's Dispatcher with the two providers it drives:           *)
(* data_plane/dispatcher.py, providers/route53.py, providers/hurricane.py. *)
(*                                                                         *)
(* Each verified UPDATE is one asyncio task (a Request), so steps of two   *)
(* tasks interleave only at an await: the wait for the record's lock, the  *)
(* Route 53 read, the change (Route 53 change batch, HE POST), and the     *)
(* audit insert.  Between two awaits a step is atomic.                     *)
(*                                                                         *)
(*   pc[r]:  idle --> queued --> reading --> changing --> auditing --> done *)
(*                         (multi-value only)                              *)
(***************************************************************************)
EXTENDS Naturals

CONSTANTS Request,      \* the UPDATE messages the relay receives
          Zone,         \* zones named by the messages' ZONE section
          Record,       \* canonical owner names
          Backend,      \* remote hosted zones / accounts (the providers' side)
          Multi,        \* backends whose provider has supports_multivalue
          Value,        \* TXT tokens
          Placeholder,  \* HurricaneConfig.cleanup_placeholder
          InitialTxt,   \* the zones' content when the relay starts
          Message,      \* the updates a client may send
          Snapshot,     \* the routing tables the cache may hold
          NoRoute, NoOp, Free

Route == [backend : Backend, record : Record]

Op == [backend : Backend, record : Record,
       action : {"present", "cleanup"}, values : SUBSET Value]

\* All that a record can be made to hold.
Content == SUBSET (Value \cup {Placeholder})

ASSUME ConstantsAssumption ==
    /\ Multi \subseteq Backend
    /\ Placeholder \notin Value
    /\ InitialTxt \in [Backend -> [Record -> Content]]
    /\ Message \subseteq [zone : Zone, name : Record,
                          action : {"present", "cleanup"},
                          values : SUBSET Value]
    /\ Snapshot \subseteq [Zone -> Route \cup {NoRoute}]
    /\ Snapshot # {}
    /\ NoRoute \notin Route
    /\ NoOp \notin Op
    /\ Free \notin Request

VARIABLES routing,     \* the RoutingCache's snapshot: zone -> route
          pc,          \* where each request's task is suspended
          op,          \* what dispatch() captured before it waits
          ticket,      \* arrival number at the record's lock, 0 before
          nextTicket,
          lock,        \* Dispatcher._locks: the holder per record
          seen,        \* what Route53Provider._read_rrset returned
          target,      \* what the submitted change makes of the record
          txt,         \* the remote zones' content
          landed,      \* history: the change took effect remotely
          result,      \* _invoke_provider's result
          metric,      \* the challenges-counter series incremented
          audit,       \* the ChallengeEvent row, or "failed" if only counted
          rcode        \* the answer; "dropped" when there is none

reqVars == <<op, ticket, nextTicket>>
callVars == <<seen, target, landed, txt>>
bookVars == <<result, metric, audit>>
vars == <<routing, pc, op, ticket, nextTicket, lock, seen, target, txt,
          landed, result, metric, audit, rcode>>
-----------------------------------------------------------------------------
TypeOK ==
    /\ routing \in Snapshot
    /\ pc \in [Request -> {"idle", "queued", "reading", "changing",
                           "auditing", "done"}]
    /\ op \in [Request -> Op \cup {NoOp}]
    /\ ticket \in [Request -> Nat]
    /\ nextTicket \in Nat
    /\ lock \in [Record -> Request \cup {Free}]
    /\ seen \in [Request -> Content]
    /\ target \in [Request -> Content]
    /\ txt \in [Backend -> [Record -> Content]]
    /\ landed \in [Request -> BOOLEAN]
    /\ result \in [Request -> {"none", "ok", "error"}]
    /\ metric \in [Request -> {"none", "ok", "error", "suppressed"}]
    /\ audit \in [Request -> {"none", "ok", "error", "failed"}]
    /\ rcode \in [Request -> {"none", "NOERROR", "SERVFAIL", "REFUSED",
                              "dropped"}]

Init ==
    /\ routing \in Snapshot
    /\ pc = [r \in Request |-> "idle"]
    /\ op = [r \in Request |-> NoOp]
    /\ ticket = [r \in Request |-> 0]
    /\ nextTicket = 1
    /\ lock = [n \in Record |-> Free]
    /\ seen = [r \in Request |-> {}]
    /\ target = [r \in Request |-> {}]
    /\ txt = InitialTxt
    /\ landed = [r \in Request |-> FALSE]
    /\ result = [r \in Request |-> "none"]
    /\ metric = [r \in Request |-> "none"]
    /\ audit = [r \in Request |-> "none"]
    /\ rcode = [r \in Request |-> "none"]
-----------------------------------------------------------------------------
\* RoutingCache.refresh replaces the snapshot; requests already past their
\* match() keep the route they captured.
SwapSnapshot ==
    /\ routing' \in Snapshot
    /\ UNCHANGED <<pc, op, ticket, nextTicket, lock, seen, target, txt,
                   landed, result, metric, audit, rcode>>

\* validate_write_surface and normalize_txt_values for a message that has
\* the shape of a challenge (module WriteSurface has the shapes in full).
Admitted(m, route) ==
    /\ m.name = route.record
    /\ m.action = "present" => m.values # {}
    /\ route.backend \in Multi \/ \A v, w \in m.values : v = w

Refuse(r, m) ==
    /\ pc[r] = "idle"
    /\ \/ routing[m.zone] = NoRoute
       \/ routing[m.zone] # NoRoute /\ ~Admitted(m, routing[m.zone])
    /\ pc' = [pc EXCEPT ![r] = "done"]
    /\ rcode' = [rcode EXCEPT ![r] = "REFUSED"]
    /\ UNCHANGED <<routing, reqVars, lock, callVars, bookVars>>

\* dispatch() up to `async with self._lock_for(...)'.
Dispatch(r, m) ==
    LET route == routing[m.zone] IN
    /\ pc[r] = "idle"
    /\ route # NoRoute
    /\ Admitted(m, route)
    /\ pc' = [pc EXCEPT ![r] = "queued"]
    /\ op' = [op EXCEPT ![r] = [backend |-> route.backend, record |-> m.name,
                                action |-> m.action, values |-> m.values]]
    /\ ticket' = [ticket EXCEPT ![r] = nextTicket]
    /\ nextTicket' = nextTicket + 1
    /\ UNCHANGED <<routing, lock, callVars, bookVars, rcode>>

\* Slips of the locking: none at all, released before the audit insert, or
\* granted in any order.
NoLocking(r) == TRUE
ReleasedEarly(r) ==
    lock[op[r].record] # Free => pc[lock[op[r].record]] = "auditing"
AnyOrder(r) == TRUE

\* _lock_for: one lock per canonical owner name.
LockFree(r) == lock[op[r].record] = Free

\* asyncio.Lock is granted in the order of arrival.
IsNext(r) == \A q \in Request : /\ pc[q] = "queued"
                                /\ op[q].record = op[r].record
                                => ticket[r] <= ticket[q]

\* HurricaneProvider.present / cleanup: what _update writes.
Overwrite(o) == IF o.action = "present" THEN o.values ELSE {Placeholder}

\* The lock is granted and the provider is called.  Route 53 starts with a
\* read, HE with the write.
Acquire(r) ==
    /\ pc[r] = "queued"
    /\ LockFree(r)
    /\ IsNext(r)
    /\ lock' = [lock EXCEPT ![op[r].record] = r]
    /\ IF op[r].backend \in Multi
         THEN /\ pc' = [pc EXCEPT ![r] = "reading"]
              /\ UNCHANGED target
         ELSE /\ pc' = [pc EXCEPT ![r] = "changing"]
              /\ target' = [target EXCEPT ![r] = Overwrite(op[r])]
    /\ UNCHANGED <<routing, reqVars, seen, landed, txt, bookVars, rcode>>

\* The provider call is over with result res: counted, audit row still to
\* be written.  A failed cleanup is a result="suppressed" in the metrics.
Settle(r, res) ==
    /\ pc' = [pc EXCEPT ![r] = "auditing"]
    /\ result' = [result EXCEPT ![r] = res]
    /\ metric' = [metric EXCEPT ![r] =
                    IF res = "error" /\ op[r].action = "cleanup"
                      THEN "suppressed" ELSE res]
    /\ UNCHANGED audit

\* Slips of the merge: an UPSERT of the new values only, and a cleanup that
\* deletes the whole rrset.
UpsertNewOnly(o, current) ==
    IF o.action = "present" THEN o.values
    ELSE IF o.values = {} THEN {} ELSE current \ o.values
DeleteAll(o, current) ==
    IF o.action = "present" THEN current \cup o.values ELSE {}

\* Route53Provider.present / cleanup: the rrset to leave behind.
Merge(o, current) ==
    IF o.action = "present" THEN current \cup o.values
    ELSE IF o.values = {} THEN {} ELSE current \ o.values

\* _read_rrset answers.  If there is nothing to change the call is over.
Read(r) ==
    LET current == txt[op[r].backend][op[r].record]
        merged == Merge(op[r], current)
    IN  /\ pc[r] = "reading"
        /\ seen' = [seen EXCEPT ![r] = current]
        /\ IF merged = current
             THEN /\ Settle(r, "ok")
                  /\ landed' = [landed EXCEPT ![r] = TRUE]
                  /\ UNCHANGED target
             ELSE /\ pc' = [pc EXCEPT ![r] = "changing"]
                  /\ target' = [target EXCEPT ![r] = merged]
                  /\ UNCHANGED <<landed, bookVars>>
        /\ UNCHANGED <<routing, reqVars, lock, txt, rcode>>

\* _read_rrset raises ProviderError.
ReadFails(r) ==
    /\ pc[r] = "reading"
    /\ Settle(r, "error")
    /\ UNCHANGED <<routing, reqVars, lock, callVars, rcode>>

\* Route 53 rejects a DELETE whose body is not the rrset's current content;
\* an UPSERT, and an HE update, replace whatever is there.
Accepted(r) ==
    \/ op[r].backend \notin Multi
    \/ target[r] # {}
    \/ txt[op[r].backend][op[r].record] = seen[r]

\* The remote side takes the change.
Land(r) ==
    /\ Accepted(r)
    /\ txt' = [txt EXCEPT ![op[r].backend][op[r].record] = target[r]]
    /\ landed' = [landed EXCEPT ![r] = TRUE]

\* The change is acknowledged.
Change(r) ==
    /\ pc[r] = "changing"
    /\ Land(r)
    /\ Settle(r, "ok")
    /\ UNCHANGED <<routing, reqVars, lock, seen, target, rcode>>

\* HE answers noipv4/noipv6 to a cleanup: taken for success, the record is
\* as it was.
CleanupBenign(r) ==
    /\ pc[r] = "changing"
    /\ op[r].backend \notin Multi
    /\ op[r].action = "cleanup"
    /\ Settle(r, "ok")
    /\ UNCHANGED <<routing, reqVars, lock, callVars, rcode>>

\* ProviderError: a rejection, a retryable status three times, a timeout, a
\* lost answer, GetChange not INSYNC in time.  The change may have landed.
ChangeFails(r) ==
    /\ pc[r] = "changing"
    /\ Land(r) \/ UNCHANGED <<txt, landed>>
    /\ Settle(r, "error")
    /\ UNCHANGED <<routing, reqVars, lock, seen, target, rcode>>

\* A lock never given back.
KeepLock(r) == UNCHANGED lock

Release(r) == lock' = [lock EXCEPT ![op[r].record] = Free]

\* Slips of the answer: the result taken for an rcode, and best effort for
\* presents too.
ResultAsAnswer(r) == result[r]
AlwaysNoError(r) == "NOERROR"

\* A present's failure is SERVFAIL; a cleanup is always NOERROR.
AnswerOf(r) == IF result[r] = "error" /\ op[r].action = "present"
                 THEN "SERVFAIL" ELSE "NOERROR"

\* _write_audit ends, with the row committed or the failure counted; the
\* lock is released and the answer sent without another await.
Finish(r) ==
    /\ pc[r] = "auditing"
    /\ \E row \in {result[r], "failed"} : audit' = [audit EXCEPT ![r] = row]
    /\ Release(r)
    /\ rcode' = [rcode EXCEPT ![r] = AnswerOf(r)]
    /\ pc' = [pc EXCEPT ![r] = "done"]
    /\ UNCHANGED <<routing, reqVars, callVars, result, metric>>

\* The task is cancelled while it waits for the lock.
AbortQueued(r) ==
    /\ pc[r] = "queued"
    /\ pc' = [pc EXCEPT ![r] = "done"]
    /\ rcode' = [rcode EXCEPT ![r] = "dropped"]
    /\ UNCHANGED <<routing, reqVars, lock, callVars, bookVars>>

\* The task holding the lock is cancelled (a straggler of drain()), or the
\* provider raises something that is not a ProviderError: the lock is
\* released, nothing is answered.  What was under way at the other end may
\* or may not have happened.
Abort(r) ==
    /\ pc[r] \in {"reading", "changing", "auditing"}
    /\ \/ pc[r] = "changing" /\ Land(r)
       \/ UNCHANGED <<txt, landed>>
    /\ \/ pc[r] = "auditing" /\ audit' = [audit EXCEPT ![r] = result[r]]
       \/ UNCHANGED audit
    /\ Release(r)
    /\ pc' = [pc EXCEPT ![r] = "done"]
    /\ rcode' = [rcode EXCEPT ![r] = "dropped"]
    /\ UNCHANGED <<routing, reqVars, seen, target, result, metric>>

\* The steps a task takes of itself once it has been dispatched.
Progress(r) == \/ Acquire(r)
               \/ Read(r)
               \/ ReadFails(r)
               \/ Change(r)
               \/ CleanupBenign(r)
               \/ ChangeFails(r)
               \/ Finish(r)

Next == \/ SwapSnapshot
        \/ \E r \in Request :
              \/ \E m \in Message : Refuse(r, m) \/ Dispatch(r, m)
              \/ Progress(r)
              \/ AbortQueued(r)
              \/ Abort(r)

Spec == Init /\ [][Next]_vars

\* Provider calls have bounded timeouts and retries, and the audit insert
\* ends or raises: every task that can move does.
FairSpec == Spec /\ \A r \in Request : WF_vars(Progress(r))
-----------------------------------------------------------------------------
(***************************************************************************)
(* Properties.                                                             *)
(***************************************************************************)
InService(r) == pc[r] \in {"reading", "changing", "auditing"}

\* The per-record lock of Dispatcher._lock_for: whoever is inside
\* _invoke_provider for a record is its one holder, and a lock that is held
\* is held by a task still inside, whatever way tasks leave (answer, provider
\* error, cancellation).
LockDiscipline ==
    /\ \A r \in Request : InService(r) => lock[op[r].record] = r
    /\ \A n \in Record : lock[n] # Free =>
          InService(lock[n]) /\ op[lock[n]].record = n

\* Requests for one record reach the provider in the order they were
\* dispatched: once a request is inside _invoke_provider, or has come out of
\* it with a result or an effect, every earlier one for that record is over.
FifoPerRecord ==
    \A r, q \in Request :
        /\ op[r] # NoOp /\ op[q] # NoOp
        /\ op[r].record = op[q].record
        /\ ticket[r] < ticket[q]
        /\ InService(q) \/ result[q] # "none" \/ landed[q]
        => pc[r] = "done"

Adds(r, b, n, v) == /\ landed[r] /\ op[r].backend = b /\ op[r].record = n
                    /\ op[r].action = "present" /\ v \in op[r].values

Removes(r, b, n, v) == /\ landed[r] /\ op[r].backend = b /\ op[r].record = n
                       /\ op[r].action = "cleanup"
                       /\ op[r].values = {} \/ v \in op[r].values

\* No lost update on Route 53 (present()'s read-union-UPSERT, cleanup()'s
\* read-subtract-UPSERT/DELETE): a value is published exactly if it was
\* there from the start or presented, and no cleanup of it took effect since.
TxtExplained ==
    \A b \in Multi, n \in Record, v \in Value :
        v \in txt[b][n] <=>
            \/ /\ v \in InitialTxt[b][n]
               /\ \A q \in Request : ~Removes(q, b, n, v)
            \/ \E r \in Request :
                  /\ Adds(r, b, n, v)
                  /\ \A q \in Request :
                        Removes(q, b, n, v) => ticket[q] < ticket[r]

LandedAt(b, n) == {r \in Request : landed[r] /\ op[r].backend = b
                                             /\ op[r].record = n}

\* A Hurricane Electric record holds what the last landed update of it, in
\* the order of dispatch, wrote (_update): pushes are never reordered.
SingleHoldsLast ==
    \A b \in Backend \ Multi, n \in Record :
        \/ /\ LandedAt(b, n) = {}
           /\ txt[b][n] = InitialTxt[b][n]
        \/ \E r \in LandedAt(b, n) :
              /\ \A q \in LandedAt(b, n) : ticket[q] <= ticket[r]
              /\ txt[b][n] = Overwrite(op[r])

\* Route 53 never sees a DELETE that is not the exact rrset: nothing can
\* change the rrset between cleanup()'s read and its change batch.
DeleteIsExact ==
    \A r \in Request : pc[r] = "changing" => Accepted(r)

\* The books of _invoke_provider and _write_audit agree with the answer and
\* with the world: a present answered NOERROR or audited "ok" has taken
\* effect; an answered call has its row, or a counted audit failure; a failed
\* cleanup is the only error answered NOERROR and is counted "suppressed";
\* an effect without a row belongs to a task that was dropped.
BooksBalance ==
    \A r \in Request :
        /\ op[r] # NoOp /\ op[r].action = "present"
              /\ (rcode[r] = "NOERROR" \/ audit[r] = "ok") => landed[r]
        /\ rcode[r] \in {"NOERROR", "SERVFAIL"} =>
              /\ audit[r] \in {result[r], "failed"}
              /\ rcode[r] = "SERVFAIL" <=> metric[r] = "error"
              /\ metric[r] = "suppressed" <=>
                    result[r] = "error" /\ op[r].action = "cleanup"
        /\ pc[r] = "done" /\ landed[r] /\ audit[r] = "none" =>
              rcode[r] = "dropped"

\* When dispatch() answers a present NOERROR, every value of it is in the
\* zone at that instant, although the provider call ended an audit insert
\* earlier: the lock is held until the answer.
AnswerIsTruthful ==
    [][\A r \in Request :
          rcode[r] = "none" /\ rcode'[r] = "NOERROR" /\ op[r].action = "present"
          => op[r].values \subseteq txt'[op[r].backend][op[r].record]]_vars

\* A request that dispatch() took to the lock is eventually over, whatever
\* fails and whoever is cancelled meanwhile.
EveryRequestEnds ==
    \A r \in Request : pc[r] = "queued" ~> pc[r] = "done"

\* A client sees a request as not yet sent, under way, decided, or over.
PhaseOf(place) == CASE place = "idle" -> "idle"
                    [] place = "auditing" -> "settled"
                    [] place = "done" -> "done"
                    [] OTHER -> "pending"

Phase == [r \in Request |-> PhaseOf(pc[r])]

\* The read-modify-write cycles of the providers, run under the dispatcher's
\* locks, look to clients like atomic operations on the records.
Store == INSTANCE ChallengeStore WITH
            phase <- Phase, applied <- landed, answer <- rcode

\* Dispatcher implements ChallengeStore: every step of a request is one
\* atomic operation of the store or leaves the store as it is.
ImplementsStore == Store!Spec
=============================================================================
