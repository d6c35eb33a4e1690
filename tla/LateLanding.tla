---------------------------- MODULE LateLanding -----------------------------
(***************************************************************************)
(* Dispatcher with providers whose answers and effects come apart: an      *)
(* attempt is given up (a 5xx answer or a throttling one in                *)
(* providers/_http.py, a timeout, a cancelled task) and tried again or     *)
(* reported as failed, and the change it submitted takes effect later,     *)
(* when the record's lock may belong to another request or to nobody.      *)
(***************************************************************************)
EXTENDS Dispatcher

CONSTANT MaxTries      \* post_with_retry's max_attempts

ASSUME TriesAssumption == MaxTries \in Nat \ {0}

VARIABLES tries,       \* attempts given up and repeated
          orphan,      \* attempts given up that may yet land, per request
          hit          \* history: requests a late landing came after

lateVars == <<tries, orphan, hit>>
allVars == <<vars, lateVars>>

LateTypeOK ==
    /\ TypeOK
    /\ tries \in [Request -> 0..(MaxTries - 1)]
    /\ orphan \in [Request -> 0..MaxTries]
    /\ \A r \in Request : op[r] = NoOp => orphan[r] = 0
    /\ hit \subseteq {r \in Request : landed[r]}

LateInit ==
    /\ Init
    /\ tries = [r \in Request |-> 0]
    /\ orphan = [r \in Request |-> 0]
    /\ hit = {}

\* A slip: a fourth attempt.
OneMore(r) == tries[r] <= MaxTries - 1

\* attempt >= max_attempts ends the loop of post_with_retry.
MayRetry(r) == tries[r] < MaxTries - 1

\* An attempt is given up and the same change submitted again, the lock held
\* all along.  It has landed, or may land later.
Retry(r) ==
    /\ pc[r] = "changing"
    /\ MayRetry(r)
    /\ tries' = [tries EXCEPT ![r] = @ + 1]
    /\ \/ Land(r) /\ UNCHANGED orphan
       \/ orphan' = [orphan EXCEPT ![r] = @ + 1] /\ UNCHANGED <<txt, landed>>
    /\ UNCHANGED <<routing, pc, reqVars, lock, seen, target, bookVars, rcode,
                   hit>>

\* Calls that end in this step without the provider's acknowledgement and
\* without their last attempt having landed.
GivenUp == {r \in Request : /\ pc[r] = "changing" /\ pc'[r] # "changing"
                            /\ result'[r] # "ok"
                            /\ UNCHANGED <<txt, landed>>}

\* A step of Dispatcher.
OnTime(step) == /\ step
                /\ orphan' = [r \in Request |-> IF r \in GivenUp
                                                THEN orphan[r] + 1 ELSE orphan[r]]
                /\ UNCHANGED <<tries, hit>>

\* The remote side takes a change whose call is over.
LateLand(r) ==
    LET b == op[r].backend
        n == op[r].record
    IN  /\ orphan[r] > 0
        /\ pc[r] \in {"auditing", "done"}
        /\ Accepted(r)
        /\ txt' = [txt EXCEPT ![b][n] = target[r]]
        /\ orphan' = [orphan EXCEPT ![r] = @ - 1]
        /\ hit' = hit \cup LandedAt(b, n)
        /\ UNCHANGED <<routing, pc, reqVars, lock, seen, target, landed,
                       bookVars, rcode, tries>>

LateNext == OnTime(Next) \/ \E r \in Request : Retry(r) \/ LateLand(r)

LateSpec == LateInit /\ [][LateNext]_allVars

\* As in Dispatcher; a late landing need not come.
FairLateSpec ==
    /\ LateSpec
    /\ \A r \in Request : WF_allVars(OnTime(Progress(r)) \/ Retry(r))
-----------------------------------------------------------------------------
\* Landed, and no late landing has come over the record since.
Standing(b, n) == LandedAt(b, n) \ hit

\* What a late landing can spoil, it spoils of the past only: a present or
\* cleanup that takes effect afterwards stands, in the order of dispatch, on
\* Route 53 (present()'s and cleanup()'s merge) and on HE (_update), even if
\* the late change came between its own read and its own change.
LaterRequestsStand ==
    /\ \A b \in Multi, n \in Record, v \in Value : \A r \in Standing(b, n) :
          /\ /\ Adds(r, b, n, v)
             /\ \A q \in Request : Removes(q, b, n, v) => ticket[q] < ticket[r]
             => v \in txt[b][n]
          /\ /\ Removes(r, b, n, v)
             /\ \A q \in Request : Adds(q, b, n, v) => ticket[q] < ticket[r]
             => v \notin txt[b][n]
    /\ \A b \in Backend \ Multi, n \in Record :
          Standing(b, n) # {} =>
             \E r \in Standing(b, n) :
                /\ \A q \in Standing(b, n) : ticket[q] <= ticket[r]
                /\ txt[b][n] = Overwrite(op[r])
=============================================================================
