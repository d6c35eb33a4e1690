-------------------------- MODULE AdminAuthProofs ---------------------------
(***************************************************************************)
(* AdminAuth for any number of calls, addresses, tokens and restarts and   *)
(* any setting of the limiter: the password, the verdicts, the tokens and  *)
(* the lockouts.                                                           *)
(***************************************************************************)
EXTENDS AdminAuth, FiniteSetTheorems, TLAPS

\* Where a call keeps a hash it will verify or replace, and where it has
\* verified one.
Holding == {"verify", "upFind", "upWrite"}
Verifying == {"upFind", "upWrite", "setFind", "setWrite"}

\* A call under way has its message, of a kind that gets where it is, and no
\* answer yet.
Calls ==
    \A c \in Call :
        /\ pc[c] # "idle" => input[c] \in Message
        /\ pc[c] # "done" => answer[c] = "none"
        /\ pc[c] \in {"token", "stamp"} =>
              input[c].kind \in {"session", "change", "mint", "revoke"}

\* A hash read since the last change is of the password then set.
Current ==
    \A c \in Call : pc[c] \in Holding /\ c \notin overtaken /\ ~reverted =>
        held[c].password = agreed

\* What a call's verdict rests on was in force at some moment of the call.
Grounds ==
    \A c \in Call :
        /\ pc[c] \notin {"idle", "done"} => Stored(row).password \in inForce[c]
        /\ pc[c] \in Holding \cup Verifying => held[c].password \in inForce[c]
        /\ pc[c] \in Verifying => input[c].password = held[c].password

\* Revoked tokens are never minted again, and are all a call is barred from.
Revoked ==
    /\ \A c \in Call :
          /\ dead[c] \subseteq minted /\ dead[c] \cap tokens = {}
          /\ pc[c] = "delete" => input[c].token \in minted
          /\ answer[c] = "deleted" => input[c].token \in minted
    /\ \A c \in byKey : pc[c] # "idle"

\* A call that has not arrived has not failed.
Unfailed ==
    \A c \in Call : pc[c] = "idle" => age[c] = Window /\ globalAge[c] = Window

\* The inductive invariant.
AInv == /\ TypeOK /\ Calls /\ Current /\ Grounds /\ Revoked /\ Unfailed
        /\ PasswordStands /\ VerdictsAreCurrent /\ RevocationIsFinal
        /\ BackoffServed
-----------------------------------------------------------------------------
(***************************************************************************)
(* The operators of the model.                                             *)
(***************************************************************************)
\* A power of two counts the subsets of an interval, so powers of two grow.
LEMMA PowersGrow ==
    ASSUME NEW m \in Nat, NEW n \in Nat, m <= n
    PROVE  2^m \in Nat /\ 2^n \in Nat /\ 2^m <= 2^n
<1>1. ASSUME NEW k \in Nat
      PROVE  /\ IsFiniteSet(SUBSET (1..k))
             /\ Cardinality(SUBSET (1..k)) = 2^k
             /\ 2^k \in Nat
  <2>1. IsFiniteSet(1..k) /\ Cardinality(1..k) = k
    BY FS_Interval
  <2>2. IsFiniteSet(SUBSET (1..k)) /\ Cardinality(SUBSET (1..k)) = 2^k
    BY <2>1, FS_SUBSET
  <2> QED
    BY <2>2, FS_CardinalityType
<1>2. SUBSET (1..m) \in SUBSET (SUBSET (1..n))
  OBVIOUS
<1>3. Cardinality(SUBSET (1..m)) <= Cardinality(SUBSET (1..n))
  BY <1>1, <1>2, FS_Subset
<1> QED
  BY <1>1, <1>3

\* record_failure's backoff is bounded and grows with the failures.
LEMMA BackoffGrows ==
    ASSUME NEW m \in Nat, NEW n \in Nat, MaxAttempts <= m, m <= n
    PROVE  Backoff(m) <= Backoff(n) /\ Backoff(m) \in 0..MaxLockout
<1> DEFINE x == 2^(m - MaxAttempts)
           y == 2^(n - MaxAttempts)
<1>1. m - MaxAttempts \in Nat /\ n - MaxAttempts \in Nat
      /\ m - MaxAttempts <= n - MaxAttempts
  BY AuthAssumption
<1>2. x \in Nat /\ y \in Nat /\ x <= y
  BY <1>1, PowersGrow
<1>3. /\ Backoff(m) = IF BaseLockout * x < MaxLockout
                        THEN BaseLockout * x ELSE MaxLockout
      /\ Backoff(n) = IF BaseLockout * y < MaxLockout
                        THEN BaseLockout * y ELSE MaxLockout
  BY DEF Backoff
<1> HIDE DEF x, y
<1>4. BaseLockout \in Nat /\ MaxLockout \in Nat
  BY AuthAssumption
<1>5. BaseLockout * x \in Nat /\ BaseLockout * y \in Nat
      /\ BaseLockout * x <= BaseLockout * y
  BY <1>2, <1>4
<1> QED
  BY <1>3, <1>4, <1>5

\* What require_admin and the handlers read of a message.
LEMMA MessageFacts ==
    ASSUME NEW m \in Message
    PROVE  /\ m.kind \in Kind /\ m.source \in Source
           /\ m.key \in Token \cup {NoKey} /\ m.token \in Token
           /\ m.password \in Password /\ m.new \in Password
BY AuthAssumption

\* The failures counted are a finite set of calls.
LEMMA FailuresFinite ==
    ASSUME NEW S \in SUBSET Call
    PROVE  IsFiniteSet(S) /\ Cardinality(S) \in Nat
BY FS_Subset, FS_CardinalityType, AuthAssumption

\* Of two sets of calls the larger one counts for at least as much.
LEMMA FailuresCount ==
    ASSUME NEW S \in SUBSET Call, NEW T \in SUBSET S
    PROVE  /\ Cardinality(T) \in Nat /\ Cardinality(S) \in Nat
           /\ Cardinality(T) <= Cardinality(S)
BY FS_Subset, FailuresFinite

\* The hash in force is a hash.
LEMMA StoredType ==
    ASSUME TypeOK
    PROVE  Stored(row) \in Hash /\ Stored(row).password \in Password
BY AuthAssumption DEF TypeOK, Stored, Hash

\* record_failure keeps the limiter's types.
LEMMA RecordFailureTypes ==
    ASSUME TypeOK, NEW c \in Call, input[c] \in Message, RecordFailure(c)
    PROVE  /\ age' \in [Call -> 0..Window] /\ globalAge' \in [Call -> 0..Window]
           /\ locked' \in [Source -> 0..MaxLockout]
           /\ globalLocked' \in 0..BaseLockout
<1> DEFINE s == input[c].source
           n == Cardinality(Failures(s) \cup {c})
<1>1. s \in Source
  BY MessageFacts
<1>2. n \in Nat
  BY FailuresFinite DEF Failures
<1>3. n >= MaxAttempts => Backoff(n) \in 0..MaxLockout
  BY <1>2, BackoffGrows, AuthAssumption
<1>4. 0 \in 0..Window /\ BaseLockout \in 0..BaseLockout
  BY AuthAssumption
<1>5. locked' \in [Source -> 0..MaxLockout]
  <2>1. locked' = IF n >= MaxAttempts
                    THEN [locked EXCEPT ![s] = Backoff(n)] ELSE locked
    BY DEF RecordFailure
  <2> HIDE DEF n, s
  <2> QED
    BY <1>1, <1>3, <2>1 DEF TypeOK
<1>6. /\ age' = [age EXCEPT ![c] = 0] /\ globalAge' = [globalAge EXCEPT ![c] = 0]
      /\ globalLocked' \in {BaseLockout, globalLocked}
  BY DEF RecordFailure
<1> QED
  BY <1>4, <1>5, <1>6 DEF TypeOK

\* So does record_success.
LEMMA RecordSuccessTypes ==
    ASSUME TypeOK, NEW s \in Source, RecordSuccess(s)
    PROVE  /\ age' \in [Call -> 0..Window] /\ globalAge' \in [Call -> 0..Window]
           /\ locked' \in [Source -> 0..MaxLockout]
           /\ globalLocked' \in 0..BaseLockout
<1>1. Window \in 0..Window /\ 0 \in 0..MaxLockout
  BY AuthAssumption
<1> QED
  BY <1>1 DEF RecordSuccess, TypeOK

\* Where a step takes its call.
LEMMA GotoFacts ==
    ASSUME TypeOK, NEW c \in Call, NEW place \in Place, Goto(c, place)
    PROVE  /\ pc' \in [Call -> Place] /\ answer' \in [Call -> Answer]
           /\ pc'[c] = place /\ answer' = answer
           /\ \A q \in Call : q # c => pc'[q] = pc[q]
BY DEF TypeOK, Goto

LEMMA ReplyFacts ==
    ASSUME TypeOK, NEW c \in Call, NEW a \in Answer, Reply(c, a)
    PROVE  /\ pc' \in [Call -> Place] /\ answer' \in [Call -> Answer]
           /\ pc'[c] = "done" /\ answer'[c] = a
           /\ \A q \in Call : q # c => pc'[q] = pc[q] /\ answer'[q] = answer[q]
BY DEF TypeOK, Reply, Place

\* A call let in goes where its kind sends it, or is answered.
LEMMA LetInFacts ==
    ASSUME TypeOK, NEW c \in Call, NEW m \in Message,
           m.kind \in {"session", "change", "mint", "revoke"}, LetIn(c, m)
    PROVE  /\ pc' \in [Call -> Place] /\ answer' \in [Call -> Answer]
           /\ \A q \in Call : q # c => pc'[q] = pc[q] /\ answer'[q] = answer[q]
           /\ \/ pc'[c] \in {"hash", "insert", "find"} /\ answer'[c] = answer[c]
              \/ pc'[c] = "done" /\ answer'[c] = "ok" /\ m.kind = "session"
<1>1. CASE m.kind = "session"
  <2>1. Reply(c, "ok") /\ "ok" \in Answer
    BY <1>1 DEF LetIn, Answer
  <2> QED
    BY <1>1, <2>1, ReplyFacts
<1>2. CASE m.kind # "session"
  <2>1. Goto(c, FirstPlace(m))
    BY <1>2 DEF LetIn
  <2>2. FirstPlace(m) \in {"hash", "insert", "find"}
    BY <1>2 DEF FirstPlace
  <2>3. FirstPlace(m) \in Place
    BY <2>2 DEF Place
  <2> QED
    BY <2>1, <2>2, <2>3, GotoFacts
<1> QED
  BY <1>1, <1>2

\* A call whose password was verified is answered or goes on to the change.
LEMMA VerifiedFacts ==
    ASSUME TypeOK, NEW c \in Call, input[c] \in Message, Verified(c)
    PROVE  /\ pc' \in [Call -> Place] /\ answer' \in [Call -> Answer]
           /\ cookies' \subseteq Source
           /\ age' \in [Call -> 0..Window] /\ globalAge' \in [Call -> 0..Window]
           /\ locked' \in [Source -> 0..MaxLockout]
           /\ globalLocked' \in 0..BaseLockout
           /\ \A q \in Call : q # c => pc'[q] = pc[q] /\ answer'[q] = answer[q]
           /\ \/ pc'[c] = "done" /\ answer'[c] = "ok"
              \/ pc'[c] = "setFind" /\ answer'[c] = answer[c]
           /\ RecordSuccess(input[c].source) \/ UNCHANGED limiterVars
<1>1. input[c].source \in Source
  BY MessageFacts
<1>2. CASE input[c].kind = "login"
  <2>1. /\ RecordSuccess(input[c].source) /\ Reply(c, "ok")
        /\ cookies' = cookies \cup {input[c].source} /\ "ok" \in Answer
    BY <1>2 DEF Verified, MarkAdmin, Answer
  <2>2. cookies' \subseteq Source
    BY <1>1, <2>1 DEF TypeOK
  <2> QED
    BY <1>1, <2>1, <2>2, RecordSuccessTypes, ReplyFacts
<1>3. CASE input[c].kind # "login"
  <2>1. /\ Goto(c, "setFind") /\ UNCHANGED <<cookies, limiterVars>>
        /\ "setFind" \in Place
    BY <1>3 DEF Verified, Place
  <2>2. /\ cookies' \subseteq Source
        /\ age' \in [Call -> 0..Window] /\ globalAge' \in [Call -> 0..Window]
        /\ locked' \in [Source -> 0..MaxLockout]
        /\ globalLocked' \in 0..BaseLockout
    BY <2>1 DEF TypeOK, limiterVars
  <2> QED
    BY <2>1, <2>2, GotoFacts
<1> QED
  BY <1>2, <1>3

\* The same once the commit of a rehash took effect, acknowledged or not.
LEMMA UpgradeFacts ==
    ASSUME TypeOK, NEW c \in Call, input[c] \in Message,
           \/ Verified(c)
           \/ Unacknowledged(c) /\ UNCHANGED <<cookies, limiterVars>>
    PROVE  /\ pc' \in [Call -> Place] /\ answer' \in [Call -> Answer]
           /\ cookies' \subseteq Source
           /\ age' \in [Call -> 0..Window] /\ globalAge' \in [Call -> 0..Window]
           /\ locked' \in [Source -> 0..MaxLockout]
           /\ globalLocked' \in 0..BaseLockout
           /\ \A q \in Call : q # c => pc'[q] = pc[q] /\ answer'[q] = answer[q]
           /\ \/ pc'[c] = "done" /\ answer'[c] \in {"ok", "error"}
              \/ pc'[c] = "setFind" /\ answer'[c] = answer[c]
           /\ RecordSuccess(input[c].source) \/ UNCHANGED limiterVars
<1>1. CASE Verified(c)
  BY <1>1, VerifiedFacts
<1>2. CASE Unacknowledged(c) /\ UNCHANGED <<cookies, limiterVars>>
  <2>1. Reply(c, "error") /\ "error" \in Answer
    BY <1>2 DEF Unacknowledged, Answer
  <2>2. /\ cookies' \subseteq Source
        /\ age' \in [Call -> 0..Window] /\ globalAge' \in [Call -> 0..Window]
        /\ locked' \in [Source -> 0..MaxLockout]
        /\ globalLocked' \in 0..BaseLockout
    BY <1>2 DEF TypeOK, limiterVars
  <2> QED
    BY <1>2, <2>1, <2>2, ReplyFacts
<1> QED
  BY <1>1, <1>2

\* A call whose password was wrong is answered, and counted if it is a login.
LEMMA MismatchFacts ==
    ASSUME TypeOK, NEW c \in Call, input[c] \in Message, Mismatch(c)
    PROVE  /\ pc' \in [Call -> Place] /\ answer' \in [Call -> Answer]
           /\ age' \in [Call -> 0..Window] /\ globalAge' \in [Call -> 0..Window]
           /\ locked' \in [Source -> 0..MaxLockout]
           /\ globalLocked' \in 0..BaseLockout
           /\ \A q \in Call : q # c => pc'[q] = pc[q] /\ answer'[q] = answer[q]
           /\ pc'[c] = "done" /\ answer'[c] \in {"invalid", "incorrect"}
           /\ RecordFailure(c) \/ UNCHANGED limiterVars
<1>1. "invalid" \in Answer /\ "incorrect" \in Answer
  BY DEF Answer
<1>2. CASE input[c].kind = "login"
  BY <1>1, <1>2, RecordFailureTypes, ReplyFacts DEF Mismatch
<1>3. CASE input[c].kind # "login"
  <2>1. Reply(c, "incorrect") /\ UNCHANGED limiterVars
    BY <1>3 DEF Mismatch
  <2>2. /\ age' \in [Call -> 0..Window] /\ globalAge' \in [Call -> 0..Window]
        /\ locked' \in [Source -> 0..MaxLockout]
        /\ globalLocked' \in 0..BaseLockout
    BY <2>1 DEF TypeOK, limiterVars
  <2> QED
    BY <1>1, <2>1, <2>2, ReplyFacts
<1> QED
  BY <1>2, <1>3

\* The commit of a hash: the row is that password's, and calls under way have
\* seen it in force.
LEMMA WriteRowFacts ==
    ASSUME TypeOK, NEW c \in Call, NEW p \in Password, WriteRow(c, p)
    PROVE  /\ row' \in Hash \cup {NoRow}
           /\ Stored(row').password = p
           /\ inForce' \in [Call -> SUBSET Password]
           /\ \A q \in Call : inForce[q] \subseteq inForce'[q]
           /\ \A q \in Call : pc[q] \notin {"idle", "done"} => p \in inForce'[q]
<1>1. row' = [password |-> p, outdated |-> FALSE] /\ row' \in Hash
  BY DEF WriteRow, Hash
<1>2. row' # NoRow
  BY <1>1, AuthAssumption
<1>3. Stored(row').password = p
  BY <1>1, <1>2 DEF Stored
<1>4. inForce' = [q \in Call |-> IF pc[q] \in {"idle", "done"}
                                   THEN inForce[q] ELSE inForce[q] \cup {p}]
  BY DEF WriteRow
<1> QED
  BY <1>1, <1>3, <1>4 DEF TypeOK

\* Where the way in leaves a call: turned away, answered, or at its first
\* await.
LEMMA ArriveFacts ==
    ASSUME TypeOK, NEW c \in Call, NEW m \in Message, Arrive(c, m)
    PROVE  /\ pc' \in [Call -> Place] /\ answer' \in [Call -> Answer]
           /\ \A q \in Call : q # c => pc'[q] = pc[q] /\ answer'[q] = answer[q]
           /\ \/ /\ pc'[c] = "done"
                 /\ answer'[c] \in {"crossOrigin", "locked", "unauthorized"}
              \/ /\ pc'[c] = "done" /\ answer'[c] = "ok"
                 /\ m.kind \in {"logout", "session"}
              \/ /\ pc'[c] \in {"hash", "insert", "find"}
                 /\ answer'[c] = answer[c]
              \/ /\ pc'[c] = "token" /\ answer'[c] = answer[c]
                 /\ m.kind \in {"session", "change", "mint", "revoke"}
<1>1. {"crossOrigin", "ok", "locked", "unauthorized"} \subseteq Answer
  BY DEF Answer
<1>2. {"hash", "token"} \subseteq Place
  BY DEF Place
<1>3. CASE ~OriginOk(m)
  <2>1. Reply(c, "crossOrigin")
    BY <1>3 DEF Arrive
  <2> QED
    BY <1>1, <2>1, ReplyFacts
<1>4. CASE OriginOk(m) /\ m.kind = "logout"
  <2>1. Reply(c, "ok")
    BY <1>4 DEF Arrive
  <2> QED
    BY <1>1, <1>4, <2>1, ReplyFacts
<1>5. CASE OriginOk(m) /\ m.kind = "login"
  <2>1. Goto(c, "hash") \/ Reply(c, "locked")
    BY <1>5 DEF Arrive
  <2> QED
    BY <1>1, <1>2, <2>1, GotoFacts, ReplyFacts
<1>6. CASE OriginOk(m) /\ m.kind \notin {"logout", "login"}
  <2>1. m.kind \in {"session", "change", "mint", "revoke"}
    BY <1>6, MessageFacts DEF Kind
  <2>2. LetIn(c, m) \/ Goto(c, "token") \/ Reply(c, "unauthorized")
    BY <1>6 DEF Arrive
  <2>3. CASE LetIn(c, m)
    BY <2>1, <2>3, LetInFacts
  <2>4. CASE Goto(c, "token")
    BY <1>2, <2>1, <2>4, GotoFacts
  <2>5. CASE Reply(c, "unauthorized")
    BY <1>1, <2>5, ReplyFacts
  <2> QED
    BY <2>2, <2>3, <2>4, <2>5
<1> QED
  BY <1>3, <1>4, <1>5, <1>6
-----------------------------------------------------------------------------
\* The first states.
LEMMA AInvInit == Init => AInv
<1> SUFFICES ASSUME Init PROVE AInv
  OBVIOUS
<1>1. row \in Hash \cup {NoRow} /\ Stored(row).password \in Password
  BY AuthAssumption DEF Init, Stored, Hash
<1>2. /\ Window \in 0..Window /\ 0 \in 0..MaxLockout /\ 0 \in 0..BaseLockout
      /\ 0 \in 0..MaxRestarts
  BY AuthAssumption
<1>3. TypeOK
  BY <1>1, <1>2, AuthAssumption DEF Init, TypeOK, Place, Answer
<1>4. Calls /\ Current /\ Grounds /\ Unfailed
  BY DEF Init, Calls, Current, Grounds, Unfailed, Holding, Verifying
<1>5. Revoked /\ RevocationIsFinal
  BY DEF Init, Revoked, RevocationIsFinal
<1>6. PasswordStands /\ VerdictsAreCurrent
  BY DEF Init, PasswordStands, VerdictsAreCurrent
<1>7. BackoffServed
  <2>1. GlobalFailures = {} /\ \A s \in Source : Failures(s) = {}
    BY AuthAssumption DEF Init, GlobalFailures, Failures
  <2>2. Cardinality({}) = 0
    BY FS_EmptySet
  <2> QED
    BY <2>1, <2>2, AuthAssumption DEF BackoffServed
<1> QED
  BY <1>3, <1>4, <1>5, <1>6, <1>7 DEF AInv

\* Every variable keeps its type.
LEMMA AuthTypeStep ==
    ASSUME TypeOK, Calls, [Next]_vars
    PROVE  TypeOK'
<1> USE DEF dbVars, limiterVars, localVars, pwHistory, keyHistory
<1>0. {"ok", "created", "deleted", "unauthorized", "unknown", "error"}
        \subseteq Answer
  BY DEF Answer
<1>1. ASSUME NEW c \in Call, NEW m \in Offer[c], Arrive(c, m)
      PROVE  TypeOK'
  <2>1. m \in Message
    BY AuthAssumption
  <2>2. m.source \in Source
    BY <2>1, MessageFacts
  <2>3. input' \in [Call -> Message \cup {NoMessage}]
    BY <1>1, <2>1 DEF Arrive, TypeOK
  <2>4. inForce' \in [Call -> SUBSET Password]
    BY <1>1, StoredType DEF Arrive, TypeOK
  <2>5. dead' \in [Call -> SUBSET Token]
    BY <1>1 DEF Arrive, TypeOK
  <2>6. cookies' \subseteq Source
    BY <1>1 DEF Arrive, TypeOK, ClearSession
  <2>7. pc' \in [Call -> Place] /\ answer' \in [Call -> Answer]
    BY <1>1, <2>1, ArriveFacts
  <2>8. UNCHANGED <<row, tokens, minted, age, globalAge, locked, globalLocked,
                    restarts, held, found, agreed, overtaken, reverted, byKey>>
    BY <1>1 DEF Arrive
  <2> QED
    BY <2>3, <2>4, <2>5, <2>6, <2>7, <2>8 DEF TypeOK
<1>2. ASSUME NEW c \in Call, FindToken(c)
      PROVE  TypeOK'
  <2>1. pc' \in [Call -> Place] /\ answer' \in [Call -> Answer]
    BY <1>0, <1>2, GotoFacts, ReplyFacts DEF FindToken, Place
  <2> QED
    BY <1>2, <2>1 DEF FindToken, TypeOK
<1>3. ASSUME NEW c \in Call, StampToken(c)
      PROVE  TypeOK'
  <2>1. input[c] \in Message
        /\ input[c].kind \in {"session", "change", "mint", "revoke"}
    BY <1>3 DEF StampToken, Calls
  <2>2. LetIn(c, input[c]) \/ Reply(c, "error")
    BY <1>3 DEF StampToken
  <2>3. pc' \in [Call -> Place] /\ answer' \in [Call -> Answer]
    BY <1>0, <2>1, <2>2, LetInFacts, ReplyFacts
  <2>4. byKey' \subseteq Call
    BY <1>3 DEF StampToken, TypeOK
  <2> QED
    BY <1>3, <2>3, <2>4 DEF StampToken, TypeOK
<1>4. ASSUME NEW c \in Call, ReadHash(c)
      PROVE  TypeOK'
  <2>1. pc' \in [Call -> Place] /\ answer' \in [Call -> Answer]
    BY <1>4, GotoFacts DEF ReadHash, Place
  <2>2. held' \in [Call -> Hash]
    BY <1>4, StoredType DEF ReadHash, TypeOK
  <2> QED
    BY <1>4, <2>1, <2>2 DEF ReadHash, TypeOK
<1>5. ASSUME NEW c \in Call, Verify(c)
      PROVE  TypeOK'
  <2>1. input[c] \in Message
    BY <1>5 DEF Verify, Calls
  <2>2. \/ Mismatch(c) /\ UNCHANGED cookies
        \/ Goto(c, "upFind") /\ UNCHANGED <<cookies, limiterVars>>
        \/ Verified(c)
    BY <1>5 DEF Verify
  <2>3. UNCHANGED <<row, tokens, minted, restarts, input, held, found, agreed,
                    overtaken, reverted, inForce, dead, byKey>>
    BY <1>5 DEF Verify
  <2>4. /\ pc' \in [Call -> Place] /\ answer' \in [Call -> Answer]
        /\ cookies' \subseteq Source
        /\ age' \in [Call -> 0..Window] /\ globalAge' \in [Call -> 0..Window]
        /\ locked' \in [Source -> 0..MaxLockout]
        /\ globalLocked' \in 0..BaseLockout
    <3>1. cookies \subseteq Source
      BY DEF TypeOK
    <3>2. CASE Mismatch(c) /\ UNCHANGED cookies
      BY <2>1, <3>1, <3>2, MismatchFacts
    <3>3. CASE Goto(c, "upFind") /\ UNCHANGED <<cookies, limiterVars>>
      <4>1. "upFind" \in Place
        BY DEF Place
      <4>2. pc' \in [Call -> Place] /\ answer' \in [Call -> Answer]
        BY <3>3, <4>1, GotoFacts
      <4> QED
        BY <3>3, <4>2 DEF TypeOK
    <3>4. CASE Verified(c)
      BY <2>1, <3>4, VerifiedFacts
    <3> QED
      BY <2>2, <3>2, <3>3, <3>4
  <2> QED
    BY <2>3, <2>4 DEF TypeOK
<1>6. ASSUME NEW c \in Call, FindRow(c)
      PROVE  TypeOK'
  <2>1. pc' \in [Call -> Place] /\ answer' \in [Call -> Answer]
    BY <1>6, GotoFacts DEF FindRow, Place
  <2> QED
    BY <1>6, <2>1 DEF FindRow, TypeOK
<1>7. ASSUME NEW c \in Call, Upgrade(c)
      PROVE  TypeOK'
  <2>1. input[c] \in Message /\ held[c].password \in Password
    BY <1>7 DEF Upgrade, Calls, TypeOK, Hash
  <2>2. row' \in Hash \cup {NoRow} /\ inForce' \in [Call -> SUBSET Password]
    BY <1>7, <2>1, WriteRowFacts DEF Upgrade
  <2>3. /\ pc' \in [Call -> Place] /\ answer' \in [Call -> Answer]
        /\ cookies' \subseteq Source
        /\ age' \in [Call -> 0..Window] /\ globalAge' \in [Call -> 0..Window]
        /\ locked' \in [Source -> 0..MaxLockout]
        /\ globalLocked' \in 0..BaseLockout
    BY <1>7, <2>1, UpgradeFacts DEF Upgrade
  <2>4. reverted' \in BOOLEAN
    BY <1>7 DEF Upgrade
  <2>5. UNCHANGED <<tokens, minted, restarts, input, held, found, agreed,
                    overtaken, dead, byKey>>
    BY <1>7 DEF Upgrade
  <2> QED
    BY <2>2, <2>3, <2>4, <2>5 DEF TypeOK
<1>8. ASSUME NEW c \in Call, SetPassword(c)
      PROVE  TypeOK'
  <2>1. input[c] \in Message /\ input[c].new \in Password
    BY <1>8, MessageFacts DEF SetPassword, Calls
  <2>2. row' \in Hash \cup {NoRow} /\ inForce' \in [Call -> SUBSET Password]
    BY <1>8, <2>1, WriteRowFacts DEF SetPassword, NewPassword
  <2>3. pc' \in [Call -> Place] /\ answer' \in [Call -> Answer]
    BY <1>0, <1>8, ReplyFacts DEF SetPassword, Unacknowledged
  <2>4. UNCHANGED <<tokens, minted, cookies, age, globalAge, locked,
                    globalLocked, restarts, input, held, found, dead, byKey>>
    BY <1>8 DEF SetPassword
  <2>5. agreed' \in Password /\ overtaken' \subseteq Call /\ reverted' = FALSE
    BY <1>8, <2>1 DEF SetPassword
  <2> QED
    BY <2>2, <2>3, <2>4, <2>5 DEF TypeOK
<1>9. ASSUME NEW c \in Call, InsertCollides(c) \/ DbFails(c) \/ RereadToken(c)
      PROVE  TypeOK'
  <2>1. pc' \in [Call -> Place] /\ answer' \in [Call -> Answer]
    BY <1>0, <1>9, ReplyFacts DEF InsertCollides, DbFails, RereadToken
  <2> QED
    BY <1>9, <2>1 DEF InsertCollides, DbFails, RereadToken, TypeOK
<1>10. ASSUME NEW c \in Call, MintToken(c)
       PROVE  TypeOK'
  <2>1. input[c].token \in Token
    BY <1>10, MessageFacts DEF MintToken, Calls
  <2>2. pc' \in [Call -> Place] /\ answer' \in [Call -> Answer]
    BY <1>0, <1>10, GotoFacts, ReplyFacts DEF MintToken, Unacknowledged, Place
  <2> QED
    BY <1>10, <2>1, <2>2 DEF MintToken, TypeOK
<1>11. ASSUME NEW c \in Call, FindDoomed(c)
       PROVE  TypeOK'
  <2>1. pc' \in [Call -> Place] /\ answer' \in [Call -> Answer]
    BY <1>0, <1>11, GotoFacts, ReplyFacts DEF FindDoomed, Place
  <2> QED
    BY <1>11, <2>1 DEF FindDoomed, TypeOK
<1>12. ASSUME NEW c \in Call, RevokeToken(c)
       PROVE  TypeOK'
  <2>1. pc' \in [Call -> Place] /\ answer' \in [Call -> Answer]
    BY <1>0, <1>12, ReplyFacts DEF RevokeToken, Unacknowledged
  <2> QED
    BY <1>12, <2>1 DEF RevokeToken, TypeOK
<1>13. CASE Tick
  <2>1. \A a \in 0..Window : Older(a) \in 0..Window
    BY AuthAssumption DEF Older
  <2>2. /\ \A t \in 0..MaxLockout : Less(t) \in 0..MaxLockout
        /\ \A t \in 0..BaseLockout : Less(t) \in 0..BaseLockout
    BY AuthAssumption DEF Less
  <2> QED
    BY <1>13, <2>1, <2>2 DEF Tick, TypeOK
<1>14. ASSUME NEW s \in Source, SessionExpires(s)
       PROVE  TypeOK'
  BY <1>14 DEF SessionExpires, TypeOK
<1>15. CASE Restart
  <2>1. /\ Window \in 0..Window /\ 0 \in 0..MaxLockout /\ 0 \in 0..BaseLockout
        /\ restarts + 1 \in 0..MaxRestarts
    BY <1>15, AuthAssumption DEF Restart, TypeOK
  <2>2. pc' \in [Call -> Place] /\ answer' \in [Call -> Answer]
    BY <1>15 DEF Restart, TypeOK, Place, Answer
  <2> QED
    BY <1>15, <2>1, <2>2 DEF Restart, TypeOK
<1>16. CASE UNCHANGED vars
  BY <1>16 DEF vars, TypeOK
<1> QED
  BY <1>1, <1>2, <1>3, <1>4, <1>5, <1>6, <1>7, <1>8, <1>9, <1>10, <1>11,
     <1>12, <1>13, <1>14, <1>15, <1>16 DEF Next, Step

\* What every step of a call under way has in common: it moves that call
\* alone, answers it only by ending it, and keeps the message.
LEMMA StepControl ==
    ASSUME TypeOK, Calls, NEW c \in Call, Step(c)
    PROVE  /\ pc[c] \notin {"idle", "done"} /\ input[c] \in Message
           /\ input' = input
           /\ \A q \in Call : q # c => pc'[q] = pc[q] /\ answer'[q] = answer[q]
           /\ pc'[c] \notin {"idle", "token"}
           /\ pc'[c] # "done" => answer'[c] = "none"
           /\ pc'[c] = "stamp" => pc[c] = "token"
<1>0. /\ {"ok", "created", "deleted", "unauthorized", "unknown", "error"}
            \subseteq Answer
      /\ {"stamp", "verify", "upFind", "upWrite", "setWrite", "reread", "delete"}
            \subseteq Place
  BY DEF Answer, Place
<1>1. pc[c] \notin {"idle", "done"} /\ input' = input
  BY DEF Step, FindToken, StampToken, ReadHash, Verify, FindRow, Upgrade,
         SetPassword, InsertCollides, MintToken, RereadToken, FindDoomed,
         RevokeToken, DbFails
<1>2. input[c] \in Message /\ answer[c] = "none"
  BY <1>1 DEF Calls
<1>3. ASSUME NEW a \in Answer, Reply(c, a)
      PROVE  /\ \A q \in Call : q # c => pc'[q] = pc[q] /\ answer'[q] = answer[q]
             /\ pc'[c] = "done"
  BY <1>3, ReplyFacts
<1>4. ASSUME NEW p \in Place \ {"idle", "token", "stamp", "done"}, Goto(c, p)
      PROVE  /\ \A q \in Call : q # c => pc'[q] = pc[q] /\ answer'[q] = answer[q]
             /\ pc'[c] = p /\ answer'[c] = "none"
  BY <1>2, <1>4, GotoFacts
<1>5. CASE FindToken(c)
  <2>1. CASE Goto(c, "stamp")
    BY <1>0, <1>1, <1>2, <1>5, <2>1, GotoFacts DEF FindToken
  <2>2. CASE Reply(c, "unauthorized")
    BY <1>0, <1>1, <1>2, <1>3, <2>2
  <2> QED
    BY <1>5, <2>1, <2>2 DEF FindToken
<1>6. CASE StampToken(c)
  <2>1. input[c].kind \in {"session", "change", "mint", "revoke"}
    BY <1>6 DEF StampToken, Calls
  <2>2. CASE LetIn(c, input[c])
    BY <1>1, <1>2, <2>1, <2>2, LetInFacts
  <2>3. CASE Reply(c, "error")
    BY <1>0, <1>1, <1>2, <1>3, <2>3
  <2> QED
    BY <1>6, <2>2, <2>3 DEF StampToken
<1>7. CASE Verify(c)
  <2>1. CASE Mismatch(c)
    BY <1>1, <1>2, <2>1, MismatchFacts
  <2>2. CASE Goto(c, "upFind")
    BY <1>0, <1>1, <1>2, <1>4, <2>2
  <2>3. CASE Verified(c)
    BY <1>1, <1>2, <2>3, VerifiedFacts
  <2> QED
    BY <1>7, <2>1, <2>2, <2>3 DEF Verify
<1>8. CASE Upgrade(c)
  BY <1>1, <1>2, <1>8, UpgradeFacts DEF Upgrade
<1>9. CASE ReadHash(c) \/ FindRow(c) \/ MintToken(c)
  BY <1>0, <1>1, <1>2, <1>3, <1>4, <1>9
  DEF ReadHash, FindRow, MintToken, Unacknowledged
<1>10. CASE SetPassword(c) \/ InsertCollides(c) \/ RereadToken(c)
            \/ RevokeToken(c) \/ DbFails(c)
  BY <1>0, <1>1, <1>2, <1>3, <1>10
  DEF SetPassword, InsertCollides, RereadToken, RevokeToken, DbFails,
      Unacknowledged
<1>11. CASE FindDoomed(c)
  BY <1>0, <1>1, <1>2, <1>3, <1>4, <1>11 DEF FindDoomed
<1> QED
  BY <1>5, <1>6, <1>7, <1>8, <1>9, <1>10, <1>11 DEF Step

\* A restart ends every call under way.
LEMMA RestartControl ==
    ASSUME TypeOK, Restart
    PROVE  /\ input' = input
           /\ \A c \in Call : /\ pc'[c] \in {"idle", "done"}
                              /\ pc'[c] = "idle" <=> pc[c] = "idle"
                              /\ answer'[c] \in {answer[c], "cut"}
BY DEF TypeOK, Restart

\* Calls keep their messages and are answered once.
LEMMA CallsStep ==
    ASSUME TypeOK, Calls, [Next]_vars
    PROVE  Calls'
<1>1. ASSUME NEW c \in Call, NEW m \in Offer[c], Arrive(c, m)
      PROVE  Calls'
  <2>1. m \in Message
    BY AuthAssumption
  <2>2. pc[c] = "idle" /\ answer[c] = "none"
    BY <1>1 DEF Arrive, Calls
  <2>3. input'[c] = m /\ \A q \in Call : q # c => input'[q] = input[q]
    BY <1>1 DEF Arrive, TypeOK
  <2> QED
    BY <1>1, <2>1, <2>2, <2>3, ArriveFacts DEF Calls
<1>2. ASSUME NEW c \in Call, Step(c)
      PROVE  Calls'
  BY <1>2, StepControl DEF Calls
<1>3. CASE Restart
  BY <1>3, RestartControl DEF Calls, Restart, TypeOK
<1>4. CASE UNCHANGED <<pc, input, answer>>
  BY <1>4 DEF Calls
<1> QED
  BY <1>1, <1>2, <1>3, <1>4 DEF Next, Tick, SessionExpires, vars
-----------------------------------------------------------------------------
(***************************************************************************)
(* The password.                                                           *)
(***************************************************************************)
\* A change makes every call under way overtaken, so whoever is not and holds
\* a hash holds the password last set; and only the others revert it.
LEMMA PasswordStep ==
    ASSUME TypeOK, Calls, Current, PasswordStands, [Next]_vars
    PROVE  Current' /\ PasswordStands'
<1> USE DEF dbVars, limiterVars, localVars, pwHistory, keyHistory, Holding
<1>1. ASSUME NEW c \in Call, NEW m \in Offer[c], Arrive(c, m)
      PROVE  Current' /\ PasswordStands'
  <2>1. m \in Message
    BY AuthAssumption
  <2>2. pc'[c] \notin Holding /\ \A q \in Call : q # c => pc'[q] = pc[q]
    BY <1>1, <2>1, ArriveFacts
  <2>3. UNCHANGED <<row, held, agreed, overtaken, reverted>>
    BY <1>1 DEF Arrive
  <2> QED
    BY <2>2, <2>3 DEF Current, PasswordStands, Stored
<1>2. ASSUME NEW c \in Call, ReadHash(c)
      PROVE  Current' /\ PasswordStands'
  <2>1. /\ \A q \in Call : q # c => /\ pc'[q] = pc[q] /\ held'[q] = held[q]
                                    /\ q \in overtaken' <=> q \in overtaken
        /\ held'[c] = Stored(row)
        /\ UNCHANGED <<row, agreed, reverted>>
    BY <1>2 DEF ReadHash, Goto, TypeOK
  <2>2. \A q \in Call : pc'[q] \in Holding /\ q \notin overtaken' /\ ~reverted'
                        => held'[q].password = agreed'
    <3>1. ~reverted' => held'[c].password = agreed'
      BY <2>1 DEF PasswordStands
    <3>2. ASSUME NEW q \in Call, q # c, pc'[q] \in Holding,
                 q \notin overtaken', ~reverted'
          PROVE  held'[q].password = agreed'
      <4>1. pc[q] \in Holding /\ q \notin overtaken /\ ~reverted
        BY <2>1, <3>2
      <4>2. held[q].password = agreed
        BY <4>1 DEF Current
      <4> QED
        BY <2>1, <3>2, <4>2
    <3> QED
      BY <3>1, <3>2
  <2> QED
    BY <2>1, <2>2 DEF Current, PasswordStands, Stored
<1>3. ASSUME NEW c \in Call, Upgrade(c)
      PROVE  Current' /\ PasswordStands'
  <2>1. held[c].password \in Password /\ pc[c] = "upWrite"
    BY <1>3 DEF Upgrade, TypeOK, Hash
  <2>2. Stored(row)'.password = held[c].password
    BY <1>3, <2>1, WriteRowFacts DEF Upgrade, Stored
  <2>3. /\ reverted' = (reverted \/ c \in overtaken)
        /\ UNCHANGED <<held, agreed, overtaken>>
    BY <1>3 DEF Upgrade
  <2>4. PasswordStands'
    BY <2>1, <2>2, <2>3 DEF PasswordStands, Current
  <2>5. \A q \in Call : pc'[q] \in Holding => pc[q] \in Holding
    BY <1>3, <2>1, StepControl DEF Step
  <2>6. Current'
    BY <2>3, <2>5 DEF Current
  <2> QED
    BY <2>4, <2>6
<1>4. ASSUME NEW c \in Call, SetPassword(c)
      PROVE  Current' /\ PasswordStands'
  <2>1. input[c].new \in Password
    BY <1>4, MessageFacts DEF SetPassword, Calls
  <2>2. Stored(row)'.password = input[c].new
    BY <1>4, <2>1, WriteRowFacts DEF SetPassword, NewPassword, Stored
  <2>3. /\ agreed' = input[c].new
        /\ overtaken' = {q \in Call : pc[q] \notin {"idle", "done"}}
        /\ \A q \in Call : pc'[q] \in {pc[q], "done"}
    BY <1>4 DEF SetPassword, Unacknowledged, Reply, TypeOK
  <2> QED
    BY <2>2, <2>3 DEF Current, PasswordStands
<1>5. ASSUME UNCHANGED <<row, held, agreed, overtaken, reverted>>,
             \A q \in Call : pc'[q] \in Holding => pc[q] \in Holding
      PROVE  Current' /\ PasswordStands'
  BY <1>5 DEF Current, PasswordStands, Stored
<1>6. ASSUME NEW c \in Call, Step(c), ~ReadHash(c), ~Upgrade(c), ~SetPassword(c)
      PROVE  Current' /\ PasswordStands'
  <2>1. UNCHANGED <<row, held, agreed, overtaken, reverted>>
    BY <1>6 DEF Step, FindToken, StampToken, Verify, FindRow, InsertCollides,
                MintToken, RereadToken, FindDoomed, RevokeToken, DbFails
  <2>2. pc'[c] \in Holding => pc[c] \in Holding
    <3>1. CASE FindToken(c) \/ InsertCollides(c) \/ RereadToken(c)
               \/ MintToken(c) \/ FindDoomed(c) \/ RevokeToken(c) \/ DbFails(c)
      BY <3>1 DEF FindToken, InsertCollides, MintToken, RereadToken,
                  FindDoomed, RevokeToken, DbFails, Unacknowledged, Goto,
                  Reply, TypeOK
    <3>2. CASE StampToken(c)
      <4>1. /\ input[c] \in Message
            /\ input[c].kind \in {"session", "change", "mint", "revoke"}
        BY <3>2 DEF StampToken, Calls
      <4>2. LetIn(c, input[c]) \/ Reply(c, "error")
        BY <3>2 DEF StampToken
      <4>3. LetIn(c, input[c]) => pc'[c] \notin Holding
        BY <4>1, LetInFacts
      <4> QED
        BY <4>2, <4>3 DEF Reply, TypeOK
    <3>3. CASE Verify(c)
      BY <3>3 DEF Verify
    <3>4. CASE FindRow(c)
      BY <3>4 DEF FindRow, Goto, TypeOK
    <3> QED
      BY <1>6, <3>1, <3>2, <3>3, <3>4 DEF Step
  <2>3. \A q \in Call : pc'[q] \in Holding => pc[q] \in Holding
    BY <1>6, <2>2, StepControl
  <2> QED
    BY <1>5, <2>1, <2>3
<1>7. CASE Restart
  <2>1. ASSUME NEW q \in Call
        PROVE  pc'[q] \notin Holding
    <3>1. pc'[q] \in {"idle", "done"}
      BY <1>7, RestartControl
    <3> QED
      BY <3>1
  <2> QED
    BY <1>5, <1>7, <2>1 DEF Restart
<1>8. CASE UNCHANGED <<row, held, agreed, overtaken, reverted, pc>>
  BY <1>5, <1>8
<1> QED
  BY <1>1, <1>2, <1>3, <1>4, <1>6, <1>7, <1>8
  DEF Next, Tick, SessionExpires, vars
-----------------------------------------------------------------------------
(***************************************************************************)
(* The verdicts.                                                           *)
(***************************************************************************)
\* Grounds and VerdictsAreCurrent for one call.
Rests(c) ==
    /\ pc[c] \notin {"idle", "done"} => Stored(row).password \in inForce[c]
    /\ pc[c] \in Holding \cup Verifying => held[c].password \in inForce[c]
    /\ pc[c] \in Verifying => input[c].password = held[c].password
    /\ answer[c] = "ok" /\ input[c].kind \in {"login", "change"}
          => input[c].password \in inForce[c]
    /\ answer[c] \in {"invalid", "incorrect"}
          => \E p \in inForce[c] : p # input[c].password

\* Passwords only join those in force during a call, and the one committed
\* joins them for every call under way: no other call's verdict is disturbed.
LEMMA GroundsStep ==
    ASSUME TypeOK, Calls, Grounds, VerdictsAreCurrent, [Next]_vars
    PROVE  Grounds' /\ VerdictsAreCurrent'
<1> USE DEF dbVars, limiterVars, localVars, pwHistory, keyHistory
<1>0. \A c \in Call : Rests(c)
  BY DEF Rests, Grounds, VerdictsAreCurrent
<1>1. SUFFICES \A c \in Call : Rests(c)'
  BY <1>1 DEF Rests, Grounds, VerdictsAreCurrent
<1>2. ASSUME NEW q \in Call, inForce[q] \subseteq inForce'[q],
             pc'[q] = pc[q], answer'[q] = answer[q], input'[q] = input[q],
             held'[q] = held[q],
             row' = row \/ (pc[q] \notin {"idle", "done"}
                              => Stored(row').password \in inForce'[q])
      PROVE  Rests(q)'
  BY <1>0, <1>2 DEF Rests
<1>3. ASSUME NEW c \in Call, NEW m \in Offer[c], Arrive(c, m)
      PROVE  \A q \in Call : Rests(q)'
  <2>1. m \in Message
    BY AuthAssumption
  <2>2. /\ inForce'[c] = {Stored(row).password} /\ row' = row /\ held' = held
        /\ input'[c] = m /\ answer[c] = "none"
    BY <1>3 DEF Arrive, TypeOK, Calls
  <2>3. \A q \in Call : q # c => inForce'[q] = inForce[q] /\ input'[q] = input[q]
    BY <1>3 DEF Arrive, TypeOK
  <2>4. \A q \in Call : q # c => Rests(q)'
    BY <1>2, <1>3, <2>1, <2>2, <2>3, ArriveFacts
  <2>5. /\ pc'[c] \in {"hash", "insert", "find", "token", "done"}
        /\ answer'[c] \notin {"invalid", "incorrect"}
        /\ answer'[c] = "ok" => m.kind \in {"logout", "session"}
    BY <1>3, <2>1, <2>2, ArriveFacts
  <2>6. Rests(c)'
    BY <2>2, <2>5 DEF Rests, Holding, Verifying, Stored
  <2> QED
    BY <2>4, <2>6
<1>4. ASSUME NEW c \in Call, Step(c), inForce' = inForce, row' = row,
             \A q \in Call : q # c => held'[q] = held[q],
             Rests(c)'
      PROVE  \A q \in Call : Rests(q)'
  BY <1>2, <1>4, StepControl
<1>5. ASSUME NEW c \in Call, Step(c)
      PROVE  \A q \in Call : Rests(q)'
  <2>0. /\ pc[c] \notin {"idle", "done"} /\ input[c] \in Message
        /\ answer[c] = "none" /\ input' = input
    BY <1>5, StepControl DEF Calls
  <2>1. CASE ReadHash(c)
    <3>1. /\ held'[c] = Stored(row) /\ pc'[c] = "verify" /\ answer' = answer
          /\ row' = row /\ inForce' = inForce
          /\ \A q \in Call : q # c => held'[q] = held[q]
      BY <2>1 DEF ReadHash, Goto, TypeOK
    <3>2. Rests(c)'
      BY <1>0, <2>0, <3>1 DEF Rests, Holding, Verifying, Stored
    <3> QED
      BY <1>4, <1>5, <3>1, <3>2
  <2>2. CASE Verify(c)
    <3>1. held' = held /\ row' = row /\ inForce' = inForce /\ pc[c] = "verify"
      BY <2>2 DEF Verify
    <3>2. CASE held[c].password # input[c].password /\ Mismatch(c)
      <4>1. pc'[c] = "done" /\ answer'[c] \in {"invalid", "incorrect"}
        BY <2>0, <3>2, MismatchFacts
      <4>2. held[c].password \in inForce[c]
        BY <1>0, <3>1 DEF Rests, Holding
      <4>3. Rests(c)'
        BY <2>0, <3>1, <3>2, <4>1, <4>2 DEF Rests, Holding, Verifying
      <4> QED
        BY <1>4, <1>5, <3>1, <4>3
    <3>3. CASE held[c].password = input[c].password /\ Goto(c, "upFind")
      <4>1. pc'[c] = "upFind" /\ answer'[c] = "none"
        BY <2>0, <3>3 DEF Goto, TypeOK
      <4>2. Rests(c)'
        BY <1>0, <2>0, <3>1, <3>3, <4>1 DEF Rests, Holding, Verifying, Stored
      <4> QED
        BY <1>4, <1>5, <3>1, <4>2
    <3>4. CASE held[c].password = input[c].password /\ Verified(c)
      <4>1. \/ pc'[c] = "done" /\ answer'[c] = "ok"
            \/ pc'[c] = "setFind" /\ answer'[c] = "none"
        BY <2>0, <3>4, VerifiedFacts
      <4>2. Rests(c)'
        BY <1>0, <2>0, <3>1, <3>4, <4>1 DEF Rests, Holding, Verifying, Stored
      <4> QED
        BY <1>4, <1>5, <3>1, <4>2
    <3> QED
      BY <2>2, <3>2, <3>3, <3>4 DEF Verify
  <2>3. CASE FindRow(c)
    <3>1. /\ held' = held /\ row' = row /\ inForce' = inForce
          /\ answer' = answer /\ pc[c] \in Verifying /\ pc'[c] \in Verifying
      BY <2>3 DEF FindRow, Goto, TypeOK, Verifying
    <3>2. Rests(c)'
      BY <1>0, <2>0, <3>1 DEF Rests, Verifying, Stored
    <3> QED
      BY <1>4, <1>5, <3>1, <3>2
  <2>4. ASSUME NEW p \in Password, WriteRow(c, p), held' = held,
               pc[c] \in {"upWrite", "setWrite"},
               \/ pc'[c] = "done" /\ answer'[c] \in {"ok", "error"}
               \/ pc'[c] = "setFind" /\ answer'[c] = "none"
        PROVE  \A q \in Call : Rests(q)'
    <3>1. /\ Stored(row').password = p
          /\ \A q \in Call : inForce[q] \subseteq inForce'[q]
          /\ \A q \in Call : pc[q] \notin {"idle", "done"} => p \in inForce'[q]
      BY <2>4, WriteRowFacts
    <3>2. \A q \in Call : q # c => Rests(q)'
      BY <1>2, <1>5, <2>4, <3>1, StepControl
    <3>3. /\ input[c].password = held[c].password
          /\ held[c].password \in inForce'[c]
      BY <1>0, <2>4, <3>1 DEF Rests, Verifying
    <3>4. Rests(c)'
      BY <2>0, <2>4, <3>1, <3>3 DEF Rests, Verifying, Holding, Stored
    <3> QED
      BY <3>2, <3>4
  <2>5. CASE Upgrade(c)
    <3>1. held[c].password \in Password
      BY DEF TypeOK, Hash
    <3>2. /\ WriteRow(c, held[c].password) /\ held' = held /\ pc[c] = "upWrite"
      BY <2>5 DEF Upgrade
    <3>3. \/ pc'[c] = "done" /\ answer'[c] \in {"ok", "error"}
          \/ pc'[c] = "setFind" /\ answer'[c] = "none"
      BY <2>0, <2>5, UpgradeFacts DEF Upgrade
    <3> QED
      BY <2>4, <3>1, <3>2, <3>3
  <2>6. CASE SetPassword(c)
    <3>1. input[c].new \in Password
      BY <2>0, MessageFacts
    <3>2. /\ WriteRow(c, input[c].new) /\ held' = held /\ pc[c] = "setWrite"
          /\ pc'[c] = "done" /\ answer'[c] \in {"ok", "error"}
      BY <2>6 DEF SetPassword, NewPassword, Unacknowledged, Reply, TypeOK
    <3> QED
      BY <2>4, <3>1, <3>2
  <2>7. CASE StampToken(c)
    <3>1. input[c].kind \in {"session", "change", "mint", "revoke"}
      BY <2>7 DEF StampToken, Calls
    <3>2. held' = held /\ row' = row /\ inForce' = inForce
      BY <2>7 DEF StampToken
    <3>3. LetIn(c, input[c]) \/ Reply(c, "error")
      BY <2>7 DEF StampToken
    <3>4. \/ pc'[c] \in {"hash", "insert", "find"} /\ answer'[c] = "none"
          \/ pc'[c] = "done" /\ answer'[c] = "ok" /\ input[c].kind = "session"
          \/ pc'[c] = "done" /\ answer'[c] = "error"
      BY <2>0, <3>1, <3>3, LetInFacts DEF Reply, TypeOK
    <3>5. Rests(c)'
      BY <1>0, <2>0, <3>2, <3>4 DEF Rests, Verifying, Holding, Stored
    <3> QED
      BY <1>4, <1>5, <3>2, <3>5
  <2>8. CASE \/ FindToken(c) \/ InsertCollides(c) \/ DbFails(c)
             \/ MintToken(c) \/ RereadToken(c) \/ FindDoomed(c)
             \/ RevokeToken(c)
    <3>1. held' = held /\ row' = row /\ inForce' = inForce
      BY <2>8 DEF FindToken, InsertCollides, DbFails, MintToken, RereadToken,
                  FindDoomed, RevokeToken
    <3>2. \/ pc'[c] \in {"stamp", "reread", "delete"} /\ answer'[c] = "none"
          \/ /\ pc'[c] = "done"
             /\ answer'[c] \in {"unauthorized", "error", "created", "unknown",
                                "deleted"}
      BY <2>0, <2>8 DEF FindToken, InsertCollides, DbFails, MintToken,
         RereadToken, FindDoomed, RevokeToken, Unacknowledged, Goto, Reply,
         TypeOK
    <3>3. Rests(c)'
      BY <1>0, <2>0, <3>1, <3>2 DEF Rests, Verifying, Holding, Stored
    <3> QED
      BY <1>4, <1>5, <3>1, <3>3
  <2> QED
    BY <1>5, <2>1, <2>2, <2>3, <2>5, <2>6, <2>7, <2>8 DEF Step
<1>6. CASE Restart
  <2>1. UNCHANGED <<row, held, input, inForce>>
    BY <1>6 DEF Restart
  <2>2. ASSUME NEW q \in Call
        PROVE  pc'[q] \in {"idle", "done"} /\ answer'[q] \in {answer[q], "cut"}
    BY <1>6, RestartControl
  <2> QED
    BY <1>0, <2>1, <2>2 DEF Rests, Holding, Verifying
<1>7. CASE UNCHANGED <<row, held, input, inForce, pc, answer>>
  BY <1>2, <1>7
<1> QED
  BY <1>3, <1>5, <1>6, <1>7 DEF Next, Tick, SessionExpires, vars
-----------------------------------------------------------------------------
(***************************************************************************)
(* The tokens.                                                             *)
(***************************************************************************)
\* Only tokens never seen before are minted, so what is gone stays gone.
LEMMA TokensStep ==
    ASSUME TypeOK, Calls, [Next]_vars
    PROVE  minted \subseteq minted' /\ tokens' \cap minted \subseteq tokens
<1> USE DEF dbVars
<1>1. ASSUME NEW c \in Call, Step(c)
      PROVE  minted \subseteq minted' /\ tokens' \cap minted \subseteq tokens
  <2>1. CASE MintToken(c) \/ RevokeToken(c)
    BY <2>1 DEF MintToken, RevokeToken
  <2>2. CASE UNCHANGED <<tokens, minted>>
    BY <2>2
  <2> QED
    BY <1>1, <2>1, <2>2
    DEF Step, FindToken, StampToken, ReadHash, Verify, FindRow, Upgrade,
        SetPassword, InsertCollides, RereadToken, FindDoomed, DbFails
<1>2. CASE UNCHANGED <<tokens, minted>>
  BY <1>2
<1> QED
  BY <1>1, <1>2 DEF Next, Arrive, Tick, SessionExpires, Restart, vars

\* A call begun after a revocation is let in by a token it finds, which is
\* not one of those; a revoked token was minted and never is again.
LEMMA RevokedStep ==
    ASSUME TypeOK, Calls, Revoked, RevocationIsFinal, [Next]_vars
    PROVE  Revoked' /\ RevocationIsFinal'
<1> USE DEF dbVars, limiterVars, localVars, pwHistory, keyHistory
<1>0. minted \subseteq minted' /\ tokens' \cap minted \subseteq tokens
  BY TokensStep
<1>1. ASSUME NEW c \in Call, NEW m \in Offer[c], Arrive(c, m)
      PROVE  Revoked' /\ RevocationIsFinal'
  <2>1. m \in Message
    BY AuthAssumption
  <2>2. /\ pc[c] = "idle" /\ answer[c] = "none" /\ c \notin byKey
        /\ dead'[c] = minted \ tokens /\ byKey' = byKey
        /\ UNCHANGED <<tokens, minted>>
    BY <1>1 DEF Arrive, TypeOK, Calls, Revoked
  <2>3. \A q \in Call : q # c => dead'[q] = dead[q] /\ input'[q] = input[q]
    BY <1>1 DEF Arrive, TypeOK
  <2>4. /\ \A q \in Call : q # c => pc'[q] = pc[q] /\ answer'[q] = answer[q]
        /\ pc'[c] \in {"hash", "insert", "find", "token", "done"}
        /\ answer'[c] \in {"crossOrigin", "locked", "unauthorized", "ok", "none"}
    BY <1>1, <2>1, <2>2, ArriveFacts
  <2>5. byKey \subseteq Call
    BY DEF TypeOK
  <2>6. Revoked'
    BY <2>2, <2>3, <2>4, <2>5 DEF Revoked
  <2>7. RevocationIsFinal'
    BY <2>2, <2>3, <2>4, <2>5 DEF RevocationIsFinal
  <2> QED
    BY <2>6, <2>7
<1>2. ASSUME NEW c \in Call, Step(c)
      PROVE  Revoked' /\ RevocationIsFinal'
  <2>0. /\ pc[c] \notin {"idle", "done"} /\ pc'[c] # "idle"
        /\ answer[c] = "none" /\ input' = input
        /\ \A q \in Call : q # c => pc'[q] = pc[q] /\ answer'[q] = answer[q]
    BY <1>2, StepControl DEF Calls
  <2>1. dead' = dead
    BY <1>2 DEF Step, FindToken, StampToken, ReadHash, Verify, FindRow, Upgrade,
                SetPassword, InsertCollides, MintToken, RereadToken, FindDoomed,
                RevokeToken, DbFails
  <2>2. \A q \in Call : dead[q] \subseteq minted' /\ dead[q] \cap tokens' = {}
    BY <1>0 DEF Revoked
  <2>3. /\ pc'[c] = "delete" => input[c].token \in minted'
        /\ answer'[c] = "deleted" =>
              input[c].token \in minted' /\ input[c].token \notin tokens'
    <3>1. CASE RevokeToken(c)
      BY <1>0, <2>0, <3>1
      DEF RevokeToken, Unacknowledged, Reply, TypeOK, Revoked
    <3>2. CASE FindDoomed(c)
      BY <1>0, <2>0, <3>2 DEF FindDoomed, Goto, Reply, TypeOK
    <3>3. CASE pc'[c] # "delete" /\ answer'[c] # "deleted"
      BY <3>3
    <3>4. CASE \/ FindToken(c) \/ ReadHash(c) \/ FindRow(c) \/ SetPassword(c)
               \/ InsertCollides(c) \/ MintToken(c) \/ RereadToken(c)
               \/ DbFails(c)
      BY <2>0, <3>3, <3>4
      DEF FindToken, ReadHash, FindRow, SetPassword, InsertCollides, MintToken,
          RereadToken, DbFails, Unacknowledged, Goto, Reply, TypeOK
    <3>5. CASE StampToken(c)
      <4>1. /\ input[c] \in Message
            /\ input[c].kind \in {"session", "change", "mint", "revoke"}
        BY <3>5 DEF StampToken, Calls
      <4>2. LetIn(c, input[c]) \/ Reply(c, "error")
        BY <3>5 DEF StampToken
      <4>3. pc'[c] # "delete" /\ answer'[c] # "deleted"
        BY <2>0, <4>1, <4>2, LetInFacts DEF Reply, TypeOK
      <4> QED
        BY <3>3, <4>3
    <3>6. CASE Verify(c) \/ Upgrade(c)
      <4>1. input[c] \in Message
        BY <2>0 DEF Calls
      <4>2. \/ Mismatch(c) \/ Goto(c, "upFind") \/ Verified(c)
            \/ Unacknowledged(c) /\ UNCHANGED <<cookies, limiterVars>>
        BY <3>6 DEF Verify, Upgrade
      <4>3. Goto(c, "upFind") => pc'[c] = "upFind" /\ answer'[c] = "none"
        BY <2>0 DEF Goto, TypeOK
      <4>4. pc'[c] # "delete" /\ answer'[c] # "deleted"
        BY <2>0, <4>1, <4>2, <4>3, MismatchFacts, UpgradeFacts
      <4> QED
        BY <3>3, <4>4
    <3> QED
      BY <1>2, <3>1, <3>2, <3>4, <3>5, <3>6 DEF Step
  <2>4. /\ byKey' \subseteq byKey \cup {c}
        /\ c \in byKey' => c \in byKey \/ input[c].key \in tokens
    <3>1. CASE StampToken(c)
      BY <3>1 DEF StampToken
    <3>2. CASE byKey' = byKey
      BY <3>2
    <3> QED
      BY <1>2, <3>1, <3>2
      DEF Step, FindToken, ReadHash, Verify, FindRow, Upgrade, SetPassword,
          InsertCollides, MintToken, RereadToken, FindDoomed, RevokeToken,
          DbFails
  <2>5. Revoked'
    <3>1. \A q \in Call : /\ dead'[q] \subseteq minted'
                          /\ dead'[q] \cap tokens' = {}
      BY <2>1, <2>2
    <3>2. \A q \in Call : /\ pc'[q] = "delete" => input'[q].token \in minted'
                          /\ answer'[q] = "deleted" =>
                                input'[q].token \in minted'
      BY <1>0, <2>0, <2>3 DEF Revoked
    <3>3. \A q \in byKey' : pc'[q] # "idle"
      BY <2>0, <2>4 DEF Revoked, TypeOK
    <3> QED
      BY <3>1, <3>2, <3>3 DEF Revoked
  <2>6. RevocationIsFinal'
    <3>1. ASSUME NEW q \in Call, answer'[q] = "deleted"
          PROVE  input'[q].token \notin tokens'
      <4>1. CASE q = c
        BY <2>0, <2>3, <3>1, <4>1
      <4>2. CASE q # c
        <5>1. answer[q] = "deleted"
          BY <2>0, <3>1, <4>2
        <5>2. input[q].token \in minted /\ input[q].token \notin tokens
          BY <5>1 DEF Revoked, RevocationIsFinal
        <5> QED
          BY <1>0, <2>0, <5>2
      <4> QED
        BY <4>1, <4>2
    <3>2. \A q \in byKey' : input'[q].key \notin dead'[q]
      BY <2>0, <2>1, <2>4 DEF Revoked, RevocationIsFinal
    <3> QED
      BY <3>1, <3>2 DEF RevocationIsFinal
  <2> QED
    BY <2>5, <2>6
<1>3. CASE Restart
  <2>1. UNCHANGED <<tokens, minted, dead, byKey, input>>
    BY <1>3 DEF Restart
  <2>2. ASSUME NEW q \in Call
        PROVE  /\ pc'[q] \in {"idle", "done"} /\ answer'[q] \in {answer[q], "cut"}
               /\ pc'[q] = "idle" <=> pc[q] = "idle"
    BY <1>3, RestartControl
  <2>3. byKey \subseteq Call
    BY DEF TypeOK
  <2> QED
    BY <2>1, <2>2, <2>3 DEF Revoked, RevocationIsFinal
<1>4. CASE UNCHANGED <<tokens, minted, dead, byKey, input, pc, answer>>
  BY <1>4 DEF Revoked, RevocationIsFinal
<1> QED
  BY <1>1, <1>2, <1>3, <1>4 DEF Next, Tick, SessionExpires, vars
-----------------------------------------------------------------------------
(***************************************************************************)
(* The limiter.                                                            *)
(***************************************************************************)
\* BackoffServed for one address, and for the global window.
Served(s) == Cardinality(Failures(s)) >= MaxAttempts =>
                \A c \in Failures(s) :
                    locked[s] + age[c] >= Backoff(Cardinality(Failures(s)))
AllServed == Cardinality(GlobalFailures) >= GlobalMax =>
                \A c \in GlobalFailures :
                    globalLocked + globalAge[c] >= BaseLockout

\* With fewer failures in the window, and for each of them no less of its
\* lockout left, an address still serves its backoff.
LEMMA ServedFewer ==
    ASSUME TypeOK, TypeOK', NEW s \in Source, Served(s),
           Failures(s)' \subseteq Failures(s),
           \A c \in Failures(s)' : locked'[s] + age'[c] >= locked[s] + age[c]
    PROVE  Served(s)'
<1> DEFINE n == Cardinality(Failures(s))
           k == Cardinality(Failures(s)')
<1>1. /\ k \in Nat /\ n \in Nat /\ k <= n /\ MaxAttempts \in Nat
      /\ MaxLockout \in Nat /\ BaseLockout \in Nat
  BY FailuresCount, AuthAssumption DEF Failures
<1>2. SUFFICES ASSUME k >= MaxAttempts, NEW c \in Failures(s)'
               PROVE  locked'[s] + age'[c] >= Backoff(k)
  BY DEF Served, Backoff
<1>3. /\ Backoff(k) <= Backoff(n)
      /\ Backoff(k) \in 0..MaxLockout /\ Backoff(n) \in 0..MaxLockout
  BY <1>1, <1>2, BackoffGrows
<1>4. c \in Call /\ c \in Failures(s)
  BY DEF Failures
<1>5. /\ locked[s] \in Nat /\ age[c] \in Nat
      /\ locked'[s] \in Nat /\ age'[c] \in Nat
  BY <1>4, AuthAssumption DEF TypeOK
<1>6. n >= MaxAttempts
  BY <1>1, <1>2
<1>7. locked[s] + age[c] >= Backoff(n)
  BY <1>4, <1>6 DEF Served
<1>8. locked'[s] + age'[c] >= locked[s] + age[c]
  BY <1>2
<1> HIDE DEF n, k
<1> QED
  BY <1>1, <1>3, <1>5, <1>7, <1>8

LEMMA AllServedFewer ==
    ASSUME TypeOK, TypeOK', AllServed, GlobalFailures' \subseteq GlobalFailures,
           \A c \in GlobalFailures' :
              globalLocked' + globalAge'[c] >= globalLocked + globalAge[c]
    PROVE  AllServed'
<1> DEFINE n == Cardinality(GlobalFailures)
           k == Cardinality(GlobalFailures')
<1>1. k \in Nat /\ n \in Nat /\ k <= n /\ GlobalMax \in Nat /\ BaseLockout \in Nat
  BY FailuresCount, AuthAssumption DEF GlobalFailures
<1>2. SUFFICES ASSUME k >= GlobalMax, NEW c \in GlobalFailures'
               PROVE  globalLocked' + globalAge'[c] >= BaseLockout
  BY DEF AllServed
<1>3. c \in Call /\ c \in GlobalFailures
  BY DEF GlobalFailures
<1>4. /\ globalLocked \in Nat /\ globalAge[c] \in Nat
      /\ globalLocked' \in Nat /\ globalAge'[c] \in Nat
  BY <1>3, AuthAssumption DEF TypeOK
<1>5. n >= GlobalMax
  BY <1>1, <1>2
<1>6. globalLocked + globalAge[c] >= BaseLockout
  BY <1>3, <1>5 DEF AllServed
<1>7. globalLocked' + globalAge'[c] >= globalLocked + globalAge[c]
  BY <1>2
<1> HIDE DEF n, k
<1> QED
  BY <1>1, <1>4, <1>6, <1>7

\* record_failure starts the backoff for the failures it counts, itself
\* included.
LEMMA FailureServed ==
    ASSUME TypeOK, TypeOK', NEW c \in Call, input[c] \in Message,
           input' = input, RecordFailure(c), AllServed,
           \A s \in Source : Served(s)
    PROVE  AllServed' /\ \A s \in Source : Served(s)'
<1> DEFINE z == input[c].source
<1>0. /\ input[c] # NoMessage /\ z \in Source /\ 0 < Window /\ Window \in Nat
      /\ MaxLockout \in Nat /\ BaseLockout \in Nat
  BY MessageFacts, AuthAssumption
<1>1. /\ age' = [age EXCEPT ![c] = 0] /\ globalAge' = [globalAge EXCEPT ![c] = 0]
  BY DEF RecordFailure
<1>2. /\ age'[c] = 0 /\ globalAge'[c] = 0
      /\ \A q \in Call : q # c => age'[q] = age[q] /\ globalAge'[q] = globalAge[q]
  BY <1>1 DEF TypeOK
<1>3. Failures(z)' = Failures(z) \cup {c}
  BY <1>0, <1>2 DEF Failures
<1>4. GlobalFailures' = GlobalFailures \cup {c}
  BY <1>0, <1>2 DEF GlobalFailures
<1>5. ASSUME NEW s \in Source, s # z
      PROVE  Served(s)'
  <2>1. Failures(s)' \subseteq Failures(s) /\ c \notin Failures(s)'
    BY <1>2, <1>5 DEF Failures
  <2>2. locked'[s] = locked[s]
    BY <1>0, <1>5 DEF RecordFailure, TypeOK
  <2>3. ASSUME NEW q \in Failures(s)'
        PROVE  locked'[s] + age'[q] >= locked[s] + age[q]
    <3>1. q \in Call /\ q # c
      BY <2>1 DEF Failures
    <3>2. locked[s] \in Nat /\ age[q] \in Nat
      BY <3>1, AuthAssumption DEF TypeOK
    <3> QED
      BY <1>2, <2>2, <3>1, <3>2
  <2> QED
    BY <2>1, <2>3, ServedFewer
<1>6. Served(z)'
  <2> DEFINE n == Cardinality(Failures(z) \cup {c})
  <2>1. locked' = IF n >= MaxAttempts
                    THEN [locked EXCEPT ![z] = Backoff(n)] ELSE locked
    BY DEF RecordFailure
  <2>2. SUFFICES ASSUME n >= MaxAttempts, NEW q \in Failures(z)'
                 PROVE  locked'[z] + age'[q] >= Backoff(n)
    BY <1>3 DEF Served, Backoff
  <2>3. locked'[z] = Backoff(n)
    BY <1>0, <2>1, <2>2 DEF TypeOK
  <2>4. q \in Call
    BY DEF Failures
  <2>5. locked'[z] \in Nat /\ age'[q] \in Nat
    BY <1>0, <2>4 DEF TypeOK
  <2> HIDE DEF n
  <2> QED
    BY <2>3, <2>5
<1>7. AllServed'
  <2> DEFINE n == Cardinality(GlobalFailures \cup {c})
  <2>1. globalLocked' = IF n >= GlobalMax THEN BaseLockout ELSE globalLocked
    BY DEF RecordFailure
  <2>2. SUFFICES ASSUME n >= GlobalMax, NEW q \in GlobalFailures'
                 PROVE  globalLocked' + globalAge'[q] >= BaseLockout
    BY <1>4 DEF AllServed
  <2>3. q \in Call
    BY DEF GlobalFailures
  <2>4. globalAge'[q] \in Nat
    BY <1>0, <2>3 DEF TypeOK
  <2> HIDE DEF n
  <2> QED
    BY <1>0, <2>1, <2>2, <2>4
<1> QED
  BY <1>5, <1>6, <1>7

\* record_success forgives an address its failures, and no other.
LEMMA SuccessServed ==
    ASSUME TypeOK, TypeOK', NEW z \in Source, input' = input,
           RecordSuccess(z), AllServed, \A s \in Source : Served(s)
    PROVE  AllServed' /\ \A s \in Source : Served(s)'
<1>1. /\ age' = [c \in Call |-> IF c \in Failures(z) THEN Window ELSE age[c]]
      /\ locked' = [locked EXCEPT ![z] = 0]
      /\ UNCHANGED <<globalAge, globalLocked>>
  BY DEF RecordSuccess
<1>2. Window \in Nat /\ MaxAttempts \in Nat \ {0}
      /\ MaxLockout \in Nat /\ BaseLockout \in Nat
  BY AuthAssumption
<1>3. ASSUME NEW s \in Source, s # z
      PROVE  Served(s)'
  <2>1. ASSUME NEW q \in Failures(s)'
        PROVE  q \in Failures(s) /\ locked'[s] + age'[q] >= locked[s] + age[q]
    <3>1. q \in Call /\ input[q] # NoMessage /\ input[q].source = s
          /\ age'[q] < Window
      BY DEF Failures
    <3>2. age'[q] = age[q]
      BY <1>1, <1>3, <3>1 DEF Failures
    <3>3. locked'[s] = locked[s]
      BY <1>1, <1>3 DEF TypeOK
    <3>4. locked[s] \in Nat /\ age[q] \in Nat
      BY <1>2, <3>1 DEF TypeOK
    <3>5. q \in Failures(s)
      BY <3>1, <3>2 DEF Failures
    <3> QED
      BY <3>2, <3>3, <3>4, <3>5
  <2> QED
    BY <2>1, ServedFewer
<1>4. Served(z)'
  <2>1. Failures(z)' = {}
    BY <1>1, <1>2 DEF Failures, TypeOK
  <2> QED
    BY <2>1 DEF Served
<1>5. AllServed'
  BY <1>1 DEF AllServed, GlobalFailures
<1> QED
  BY <1>3, <1>4, <1>5

\* While the clock runs, a failure ages by what its lockout loses.
LEMMA TickServed ==
    ASSUME TypeOK, TypeOK', Tick, AllServed, \A s \in Source : Served(s)
    PROVE  AllServed' /\ \A s \in Source : Served(s)'
<1>0. Window \in Nat /\ MaxLockout \in Nat /\ BaseLockout \in Nat
  BY AuthAssumption
<1>1. /\ input' = input
      /\ \A c \in Call : age'[c] = Older(age[c]) /\ globalAge'[c] = Older(globalAge[c])
      /\ \A s \in Source : locked'[s] = Less(locked[s])
      /\ globalLocked' = Less(globalLocked)
  BY DEF Tick
<1>2. ASSUME NEW a \in 0..Window, Older(a) < Window
      PROVE  a < Window /\ Older(a) = a + 1
  BY <1>0, <1>2 DEF Older
<1>3. ASSUME NEW t \in Nat
      PROVE  Less(t) \in Nat /\ Less(t) + 1 >= t
  BY DEF Less
<1>4. ASSUME NEW s \in Source
      PROVE  Served(s)'
  <2>1. ASSUME NEW q \in Failures(s)'
        PROVE  q \in Failures(s) /\ locked'[s] + age'[q] >= locked[s] + age[q]
    <3>1. /\ q \in Call /\ input[q] # NoMessage /\ input[q].source = s
          /\ age'[q] < Window
      BY <1>1 DEF Failures
    <3>2. age[q] \in 0..Window /\ locked[s] \in Nat /\ age'[q] = Older(age[q])
      BY <1>0, <1>1, <3>1 DEF TypeOK
    <3>3. age[q] < Window /\ age'[q] = age[q] + 1
      BY <1>2, <3>1, <3>2
    <3>4. locked'[s] \in Nat /\ locked'[s] + 1 >= locked[s]
      BY <1>1, <1>3, <3>2
    <3>5. q \in Failures(s)
      BY <3>1, <3>3 DEF Failures
    <3> QED
      BY <1>0, <3>2, <3>3, <3>4, <3>5
  <2> QED
    BY <2>1, ServedFewer
<1>5. AllServed'
  <2>1. ASSUME NEW q \in GlobalFailures'
        PROVE  /\ q \in GlobalFailures
               /\ globalLocked' + globalAge'[q] >= globalLocked + globalAge[q]
    <3>1. q \in Call /\ globalAge'[q] < Window
      BY DEF GlobalFailures
    <3>2. /\ globalAge[q] \in 0..Window /\ globalLocked \in Nat
          /\ globalAge'[q] = Older(globalAge[q])
      BY <1>0, <1>1, <3>1 DEF TypeOK
    <3>3. globalAge[q] < Window /\ globalAge'[q] = globalAge[q] + 1
      BY <1>2, <3>1, <3>2
    <3>4. globalLocked' \in Nat /\ globalLocked' + 1 >= globalLocked
      BY <1>1, <1>3, <3>2
    <3>5. q \in GlobalFailures
      BY <3>1, <3>3 DEF GlobalFailures
    <3>6. globalAge[q] \in Nat
      BY <1>0, <3>2
    <3>7. ASSUME NEW x \in Nat, NEW t \in Nat, NEW u \in Nat, u + 1 >= t
          PROVE  u + (x + 1) >= t + x
      BY <3>7
    <3>8. globalLocked' + (globalAge[q] + 1) >= globalLocked + globalAge[q]
      BY <3>2, <3>4, <3>6, <3>7
    <3> QED
      BY <3>3, <3>5, <3>8
  <2> QED
    BY <2>1, AllServedFewer
<1> QED
  BY <1>4, <1>5

\* Every step serves the backoffs; a restart has none to serve.
LEMMA LimiterStep ==
    ASSUME TypeOK, TypeOK', Calls, Unfailed, BackoffServed, [Next]_vars
    PROVE  Unfailed' /\ BackoffServed'
<1> USE DEF dbVars, limiterVars, localVars, pwHistory, keyHistory
<1>0. AllServed /\ \A s \in Source : Served(s)
  BY DEF BackoffServed, AllServed, Served
<1>1. ASSUME AllServed', \A s \in Source : Served(s)'
      PROVE  BackoffServed'
  BY <1>1 DEF BackoffServed, AllServed, Served
<1>2. ASSUME UNCHANGED limiterVars, input' = input
      PROVE  AllServed' /\ \A s \in Source : Served(s)'
  BY <1>0, <1>2 DEF AllServed, Served, GlobalFailures, Failures, Backoff
<1>3. ASSUME NEW c \in Call, NEW m \in Offer[c], Arrive(c, m)
      PROVE  Unfailed' /\ BackoffServed'
  <2>1. m \in Message /\ Window \in Nat
    BY AuthAssumption
  <2>2. age[c] = Window /\ UNCHANGED limiterVars
    BY <1>3 DEF Arrive, Unfailed
  <2>3. \A q \in Call : q # c => input'[q] = input[q]
    BY <1>3 DEF Arrive, TypeOK
  <2>4. Unfailed'
    BY <1>3, <2>1, <2>2, ArriveFacts DEF Unfailed
  <2>5. ASSUME NEW s \in Source
        PROVE  Served(s)'
    <3>1. Failures(s)' \subseteq Failures(s)
      BY <2>1, <2>2, <2>3 DEF Failures
    <3>2. ASSUME NEW q \in Failures(s)'
          PROVE  locked'[s] + age'[q] >= locked[s] + age[q]
      <4>1. q \in Call
        BY DEF Failures
      <4>2. locked[s] \in Nat /\ age[q] \in Nat
        BY <4>1, AuthAssumption DEF TypeOK
      <4> QED
        BY <2>2, <4>2
    <3> QED
      BY <1>0, <3>1, <3>2, ServedFewer
  <2>6. AllServed'
    BY <1>0, <2>2 DEF AllServed, GlobalFailures
  <2> QED
    BY <1>1, <2>4, <2>5, <2>6
<1>4. ASSUME NEW c \in Call, Step(c)
      PROVE  Unfailed' /\ BackoffServed'
  <2>1. /\ pc[c] \notin {"idle", "done"} /\ input[c] \in Message
        /\ input' = input /\ pc'[c] # "idle"
        /\ \A q \in Call : q # c => pc'[q] = pc[q]
    BY <1>4, StepControl
  <2>2. input[c].source \in Source
    BY <2>1, MessageFacts
  <2>3. \/ UNCHANGED limiterVars \/ RecordFailure(c)
        \/ RecordSuccess(input[c].source)
    <3>1. CASE Verify(c) \/ Upgrade(c)
      <4>1. Mismatch(c) \/ UNCHANGED limiterVars \/ Verified(c)
        BY <3>1 DEF Verify, Upgrade
      <4> QED
        BY <2>1, <4>1, MismatchFacts, VerifiedFacts
    <3>2. CASE UNCHANGED limiterVars
      BY <3>2
    <3> QED
      BY <1>4, <3>1, <3>2
      DEF Step, FindToken, StampToken, ReadHash, FindRow, SetPassword,
          InsertCollides, MintToken, RereadToken, FindDoomed, RevokeToken,
          DbFails
  <2>4. ASSUME NEW q \in Call, q # c
        PROVE  /\ age'[q] = age[q] \/ age'[q] = Window
               /\ globalAge'[q] = globalAge[q]
    BY <2>3, <2>4 DEF RecordFailure, RecordSuccess, TypeOK
  <2>5. Unfailed'
    BY <2>1, <2>4 DEF Unfailed
  <2>6. AllServed' /\ \A s \in Source : Served(s)'
    BY <1>0, <1>2, <2>1, <2>2, <2>3, FailureServed, SuccessServed
  <2> QED
    BY <1>1, <2>5, <2>6
<1>5. CASE Tick
  <2>1. Unfailed'
    BY <1>5, AuthAssumption DEF Tick, Unfailed, Older
  <2> QED
    BY <1>0, <1>1, <1>5, <2>1, TickServed
<1>6. CASE Restart
  <2>1. Unfailed'
    BY <1>6 DEF Restart, Unfailed
  <2>2. GlobalFailures' = {} /\ \A s \in Source : Failures(s)' = {}
    BY <1>6, AuthAssumption DEF Restart, GlobalFailures, Failures
  <2>3. AllServed' /\ \A s \in Source : Served(s)'
    BY <2>2 DEF AllServed, Served
  <2> QED
    BY <1>1, <2>1, <2>3
<1>7. CASE UNCHANGED <<limiterVars, input, pc>>
  <2>1. Unfailed'
    BY <1>7 DEF Unfailed
  <2> QED
    BY <1>1, <1>2, <1>7, <2>1
<1> QED
  BY <1>3, <1>4, <1>5, <1>6, <1>7 DEF Next, SessionExpires, vars
-----------------------------------------------------------------------------
(***************************************************************************)
(* The theorems.                                                           *)
(***************************************************************************)
\* AInv holds of every state the management plane reaches.
LEMMA AuthInvariance == Spec => []AInv
<1>1. ASSUME AInv, [Next]_vars
      PROVE  AInv'
  <2>1. TypeOK' /\ Calls'
    BY <1>1, AuthTypeStep, CallsStep DEF AInv
  <2>2. Current' /\ PasswordStands'
    BY <1>1, PasswordStep DEF AInv
  <2>3. Grounds' /\ VerdictsAreCurrent'
    BY <1>1, GroundsStep DEF AInv
  <2>4. Revoked' /\ RevocationIsFinal'
    BY <1>1, RevokedStep DEF AInv
  <2>5. Unfailed' /\ BackoffServed'
    BY <1>1, <2>1, LimiterStep DEF AInv
  <2> QED
    BY <2>1, <2>2, <2>3, <2>4, <2>5 DEF AInv
<1> QED
  BY <1>1, AInvInit, PTL DEF Spec

\* Every variable of the management plane's authentication, its rows, its
\* limiter and its calls, keeps its type.
THEOREM AuthTypeCorrect == Spec => []TypeOK
<1>1. AInv => TypeOK
  BY DEF AInv
<1> QED
  BY <1>1, AuthInvariance, PTL

\* However many logins and changes run together, collide on the first row or
\* are cut by restarts, the stored hash verifies the password last set, unless
\* a rehash of a hash read before that change was committed after it.
THEOREM ChangedPasswordStands == Spec => []PasswordStands
<1>1. AInv => PasswordStands
  BY DEF AInv
<1> QED
  BY <1>1, AuthInvariance, PTL

\* No login or change succeeds with a password that was not in force during
\* it, and none is turned down unless another password was.
THEOREM VerdictsRestOnTheMoment == Spec => []VerdictsAreCurrent
<1>1. AInv => VerdictsAreCurrent
  BY DEF AInv
<1> QED
  BY <1>1, AuthInvariance, PTL

\* A token whose revocation was answered never comes back, and lets in no call
\* that began after its revocation, whatever calls were stamping it.
THEOREM RevokedTokensAreDead == Spec => []RevocationIsFinal
<1>1. AInv => RevocationIsFinal
  BY DEF AInv
<1> QED
  BY <1>1, AuthInvariance, PTL

\* For every setting of the limiter and any number of logins admitted
\* together, an address and the whole plane serve the backoff of the failures
\* still in their windows.
THEOREM LockoutsAreServed == Spec => []BackoffServed
<1>1. AInv => BackoffServed
  BY DEF AInv
<1> QED
  BY <1>1, AuthInvariance, PTL
=============================================================================
