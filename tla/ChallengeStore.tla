--------------------------- MODULE ChallengeStore ---------------------------
(***************************************************************************)
(* What the data plane promises its clients, without saying how.           *)
(*                                                                         *)
(* A hosted zone (Backend) keeps, per record name, the set of TXT values   *)
(* the world sees.  A client's update is one atomic operation on one       *)
(* record: it is invoked, takes effect at most once, whole, at one instant *)
(* before it is over, and is answered.  Providers of two kinds exist:      *)
(* multi-value ones merge and subtract values, single-value ones hold the  *)
(* last value pushed and are "cleaned" by writing a placeholder.           *)
(*                                                                         *)
(* The module is abstract: nothing in it is read from one function.  The   *)
(* module Dispatcher, whose read-modify-write cycles are several steps     *)
(* long, is shown to implement it.                                         *)
(***************************************************************************)
CONSTANTS Request,      \* the UPDATE messages under consideration
          Backend,      \* remote hosted zones / accounts
          Multi,        \* the backends whose records hold several values
          Record,       \* canonical owner names
          Value,        \* challenge tokens
          Placeholder,  \* the sentinel a single-value cleanup writes
          InitialTxt,   \* what the zones publish when the relay starts
          NoOp          \* a request that has no operation yet

VARIABLES txt,      \* txt[b][n]: the values published at n by b
          op,       \* op[r]: the operation a request stands for
          phase,    \* phase[r]: how far it is
          applied,  \* applied[r]: its effect has taken place
          answer    \* answer[r]: the rcode sent, "none" before, "dropped"

vars == <<txt, op, phase, applied, answer>>

Op == [backend : Backend, record : Record,
       action : {"present", "cleanup"}, values : SUBSET Value]

\* The values a record holds after operation o if it held `old' before.
Effect(o, old) ==
    CASE o.backend \in Multi /\ o.action = "present" -> old \cup o.values
      [] o.backend \in Multi /\ o.action = "cleanup" ->
            IF o.values = {} THEN {} ELSE old \ o.values
      [] o.backend \notin Multi /\ o.action = "present" -> o.values
      [] o.backend \notin Multi /\ o.action = "cleanup" -> {Placeholder}

Init == /\ txt = InitialTxt
        /\ op = [r \in Request |-> NoOp]
        /\ phase = [r \in Request |-> "idle"]
        /\ applied = [r \in Request |-> FALSE]
        /\ answer = [r \in Request |-> "none"]

\* The update is outside what the relay accepts: no effect, ever.
Reject(r) ==
    /\ phase[r] = "idle"
    /\ phase' = [phase EXCEPT ![r] = "done"]
    /\ answer' = [answer EXCEPT ![r] = "REFUSED"]
    /\ UNCHANGED <<txt, op, applied>>

Invoke(r, o) ==
    /\ phase[r] = "idle"
    /\ phase' = [phase EXCEPT ![r] = "pending"]
    /\ op' = [op EXCEPT ![r] = o]
    /\ UNCHANGED <<txt, applied, answer>>

\* The one instant at which the operation takes effect.
Apply(r) ==
    /\ txt' = [txt EXCEPT ![op[r].backend][op[r].record] = Effect(op[r], @)]
    /\ applied' = [applied EXCEPT ![r] = TRUE]

\* The provider call ends, with or without an effect.
Settle(r) ==
    /\ phase[r] = "pending"
    /\ phase' = [phase EXCEPT ![r] = "settled"]
    /\ Apply(r) \/ UNCHANGED <<txt, applied>>
    /\ UNCHANGED <<op, answer>>

\* A present is acknowledged only if it took effect; a cleanup is
\* acknowledged whatever happened to it.
Answer(r) ==
    /\ phase[r] = "settled"
    /\ phase' = [phase EXCEPT ![r] = "done"]
    /\ \/ /\ op[r].action = "cleanup" \/ applied[r]
          /\ answer' = [answer EXCEPT ![r] = "NOERROR"]
       \/ /\ op[r].action = "present"
          /\ answer' = [answer EXCEPT ![r] = "SERVFAIL"]
    /\ UNCHANGED <<txt, op, applied>>

\* The request is given up without an answer; a pending one may still have
\* its effect in the very same step.
Drop(r) ==
    /\ phase[r] \in {"pending", "settled"}
    /\ phase' = [phase EXCEPT ![r] = "done"]
    /\ answer' = [answer EXCEPT ![r] = "dropped"]
    /\ \/ phase[r] = "pending" /\ Apply(r)
       \/ UNCHANGED <<txt, applied>>
    /\ UNCHANGED op

Next == \E r \in Request :
            \/ Reject(r)
            \/ \E o \in Op : Invoke(r, o)
            \/ Settle(r)
            \/ Answer(r)
            \/ Drop(r)

Spec == Init /\ [][Next]_vars
=============================================================================
