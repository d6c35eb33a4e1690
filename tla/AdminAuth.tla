------------------------------ MODULE AdminAuth ------------------------------
(***************************************************************************)
(* The management plane's authentication: api/auth.py, api/routes_auth.py, *)
(* api/routes_tokens.py, api/ratelimit.py, api/session.py, api/csrf.py and *)
(* the hashing half of store.py.                                           *)
(*                                                                         *)
(* Each HTTP call is one asyncio task (a Call).  It is suspended at its    *)
(* queries, commits and argon2 threads; between two of those a step is     *)
(* atomic.  pc[c] names what the task waits for:                           *)
(*                                                                         *)
(*   login    hash verify [upFind upWrite] done                            *)
(*   change   [token stamp] hash verify [upFind upWrite] setFind setWrite  *)
(*   mint     [token stamp] insert reread done                             *)
(*   revoke   [token stamp] find delete done                               *)
(*   session  [token stamp] done         logout  done                      *)
(*                                                                         *)
(* Time is relative: a failure has an age, a lockout a remaining time, and *)
(* Tick moves them all.                                                    *)
(***************************************************************************)
EXTENDS Naturals, FiniteSets

CONSTANTS Call,          \* the HTTP calls the API receives
          Source,        \* client addresses, each with its browser
          Password,
          Token,         \* API tokens, as their holders present them
          Message,       \* what calls may ask for
          Offer,         \* the messages a given call may be
          Seed,          \* ASTROPATH_ADMIN_PASSWORD_HASH
          InitialRow,    \* the AdminCredential rows to start from
          InitialTokens,
          MaxAttempts, Window, BaseLockout, MaxLockout, GlobalMax,
          MaxRestarts,   \* bound on restarts of the process
          NoRow, NoKey, NoMessage

\* A stored password hash: what it verifies, and whether check_needs_rehash
\* finds its parameters outdated.
Hash == [password : Password, outdated : BOOLEAN]

Kind == {"login", "logout", "session", "change", "mint", "revoke"}

ASSUME AuthAssumption ==
    /\ IsFiniteSet(Call)
    /\ Message \subseteq
          [kind : Kind, source : Source, sameOrigin : BOOLEAN,
           key : Token \cup {NoKey}, password : Password, new : Password,
           token : Token]
    /\ NoMessage \notin Message
    /\ Offer \in [Call -> SUBSET Message]
    /\ Seed \in Hash
    /\ InitialRow \subseteq Hash \cup {NoRow}
    /\ InitialTokens \subseteq Token
    /\ NoRow \notin Hash
    /\ NoKey \notin Token
    /\ {MaxAttempts, Window, BaseLockout, GlobalMax} \subseteq Nat \ {0}
    /\ MaxLockout \in Nat /\ BaseLockout <= MaxLockout
    /\ MaxRestarts \in Nat

VARIABLES row,           \* the AdminCredential row, or NoRow
          tokens,        \* the ApiToken rows
          minted,        \* the tokens ever created
          cookies,       \* browsers holding a signed admin session
          age,           \* LoginRateLimiter._failures: age of c's failure
          globalAge,     \*   ... and of its entry in _global
          locked,        \* _locked_until, as time remaining
          globalLocked,  \* _global_locked_until, as time remaining
          restarts,
          pc, input,
          held,          \* the hash read by _stored_admin_hash
          found,         \* whether _persist_admin_hash's get found a row
          answer,
          agreed,        \* history: the password last set, or the first one
          overtaken,     \* history: calls whose hash predates the last change
          reverted,      \* history: one of those wrote the row afterwards
          inForce,       \* history: passwords in force during the call
          dead,          \* history: tokens revoked before the call began
          byKey          \* history: calls let in by their X-API-Key

dbVars == <<row, tokens, minted>>
limiterVars == <<age, globalAge, locked, globalLocked>>
localVars == <<held, found>>
pwHistory == <<agreed, overtaken, reverted, inForce>>
keyHistory == <<dead, byKey>>
vars == <<dbVars, cookies, limiterVars, restarts, pc, input, localVars,
          answer, pwHistory, keyHistory>>
-----------------------------------------------------------------------------
Place == {"idle", "token", "stamp", "hash", "verify", "upFind", "upWrite",
          "setFind", "setWrite", "insert", "reread", "find", "delete", "done"}

Answer == {"none", "ok", "created", "deleted",          \* 200, 201, 204
           "unauthorized", "invalid",                   \* 401
           "crossOrigin", "incorrect",                  \* 403
           "unknown", "locked", "error", "cut"}         \* 404, 429, 500, none

TypeOK ==
    /\ row \in Hash \cup {NoRow}
    /\ tokens \subseteq minted /\ minted \subseteq Token
    /\ cookies \subseteq Source
    /\ age \in [Call -> 0..Window] /\ globalAge \in [Call -> 0..Window]
    /\ locked \in [Source -> 0..MaxLockout]
    /\ globalLocked \in 0..BaseLockout
    /\ restarts \in 0..MaxRestarts
    /\ pc \in [Call -> Place]
    /\ input \in [Call -> Message \cup {NoMessage}]
    /\ held \in [Call -> Hash]
    /\ found \in [Call -> BOOLEAN]
    /\ answer \in [Call -> Answer]
    /\ agreed \in Password
    /\ overtaken \subseteq Call
    /\ reverted \in BOOLEAN
    /\ inForce \in [Call -> SUBSET Password]
    /\ dead \in [Call -> SUBSET Token]
    /\ byKey \subseteq Call

\* _stored_admin_hash: the row is the source of truth, the environment's
\* hash its fallback.
Stored(r) == IF r = NoRow THEN Seed ELSE r

Init ==
    /\ row \in InitialRow
    /\ tokens = InitialTokens
    /\ minted = InitialTokens
    /\ cookies = {}
    /\ age = [c \in Call |-> Window]
    /\ globalAge = [c \in Call |-> Window]
    /\ locked = [s \in Source |-> 0]
    /\ globalLocked = 0
    /\ restarts = 0
    /\ pc = [c \in Call |-> "idle"]
    /\ input = [c \in Call |-> NoMessage]
    /\ held = [c \in Call |-> Seed]
    /\ found = [c \in Call |-> FALSE]
    /\ answer = [c \in Call |-> "none"]
    /\ agreed = Stored(row).password
    /\ overtaken = {}
    /\ reverted = FALSE
    /\ inForce = [c \in Call |-> {}]
    /\ dead = [c \in Call |-> {}]
    /\ byKey = {}

Goto(c, place) == /\ pc' = [pc EXCEPT ![c] = place]
                  /\ UNCHANGED answer

Reply(c, a) == /\ pc' = [pc EXCEPT ![c] = "done"]
               /\ answer' = [answer EXCEPT ![c] = a]

\* The commit took effect and its acknowledgement was lost: it raises, 500.
Unacknowledged(c) == Reply(c, "error")
-----------------------------------------------------------------------------
(***************************************************************************)
(* LoginRateLimiter.                                                       *)
(***************************************************************************)
\* The deques after _prune: failures younger than the window.
Failures(s) == {c \in Call : /\ input[c] # NoMessage
                             /\ input[c].source = s
                             /\ age[c] < Window}
GlobalFailures == {c \in Call : globalAge[c] < Window}

\* is_allowed
Allowed(s) == globalLocked = 0 /\ locked[s] = 0

\* A slip: no cap.
UncappedBackoff(n) == BaseLockout * 2^(n - MaxAttempts)

\* The lockout after the n-th failure within the window.
Backoff(n) == LET delay == BaseLockout * 2^(n - MaxAttempts)
              IN  IF delay < MaxLockout THEN delay ELSE MaxLockout

RecordFailure(c) ==
    LET s == input[c].source
        n == Cardinality(Failures(s) \cup {c})
    IN  /\ age' = [age EXCEPT ![c] = 0]
        /\ globalAge' = [globalAge EXCEPT ![c] = 0]
        /\ locked' = IF n >= MaxAttempts
                       THEN [locked EXCEPT ![s] = Backoff(n)] ELSE locked
        /\ globalLocked' = IF Cardinality(GlobalFailures \cup {c}) >= GlobalMax
                             THEN BaseLockout ELSE globalLocked

\* A slip: the lockout is lifted, the failures stay.
LiftOnly(s) == /\ locked' = [locked EXCEPT ![s] = 0]
               /\ UNCHANGED <<age, globalAge, globalLocked>>

\* The global window is left alone.
RecordSuccess(s) ==
    /\ age' = [c \in Call |-> IF c \in Failures(s) THEN Window ELSE age[c]]
    /\ locked' = [locked EXCEPT ![s] = 0]
    /\ UNCHANGED <<globalAge, globalLocked>>

Older(a) == IF a < Window THEN a + 1 ELSE a
Less(t) == IF t > 0 THEN t - 1 ELSE 0

\* The monotonic clock.
Tick ==
    /\ age' = [c \in Call |-> Older(age[c])]
    /\ globalAge' = [c \in Call |-> Older(globalAge[c])]
    /\ locked' = [s \in Source |-> Less(locked[s])]
    /\ globalLocked' = Less(globalLocked)
    /\ UNCHANGED <<dbVars, cookies, restarts, pc, input, localVars, answer,
                   pwHistory, keyHistory>>
-----------------------------------------------------------------------------
(***************************************************************************)
(* The way in: CsrfOriginMiddleware, require_admin, and login's limiter.   *)
(***************************************************************************)
\* Safe methods and calls with an X-API-Key header are not origin-checked.
OriginOk(m) == m.kind = "session" \/ m.key # NoKey \/ m.sameOrigin

\* What the handler awaits first once require_admin let the call in.
FirstPlace(m) == CASE m.kind = "change" -> "hash"
                   [] m.kind = "mint"   -> "insert"
                   [] m.kind = "revoke" -> "find"

\* The signed session: session_is_admin, mark_admin, clear_session.
SessionIsAdmin(m) == m.source \in cookies
MarkAdmin(m) == cookies \cup {m.source}
ClearSession(m) == cookies \ {m.source}

LetIn(c, m) == IF m.kind = "session" THEN Reply(c, "ok")
                                     ELSE Goto(c, FirstPlace(m))

\* A call arrives: up to its first await.
Arrive(c, m) ==
    /\ pc[c] = "idle"
    /\ input' = [input EXCEPT ![c] = m]
    /\ inForce' = [inForce EXCEPT ![c] = {Stored(row).password}]
    /\ dead' = [dead EXCEPT ![c] = minted \ tokens]
    /\ cookies' = IF OriginOk(m) /\ m.kind = "logout"
                    THEN ClearSession(m) ELSE cookies
    /\ CASE ~OriginOk(m) -> Reply(c, "crossOrigin")
         [] OriginOk(m) /\ m.kind = "logout" -> Reply(c, "ok")
         [] OriginOk(m) /\ m.kind = "login" ->
              IF Allowed(m.source) THEN Goto(c, "hash") ELSE Reply(c, "locked")
         [] OTHER ->
              IF SessionIsAdmin(m) THEN LetIn(c, m)
              ELSE IF m.key # NoKey THEN Goto(c, "token")
              ELSE Reply(c, "unauthorized")
    /\ UNCHANGED <<dbVars, limiterVars, restarts, localVars, agreed, overtaken,
                   reverted, byKey>>

\* api_token_valid: the SELECT by digest.
FindToken(c) ==
    /\ pc[c] = "token"
    /\ IF input[c].key \in tokens THEN Goto(c, "stamp")
                                  ELSE Reply(c, "unauthorized")
    /\ UNCHANGED <<dbVars, cookies, limiterVars, restarts, input, localVars,
                   pwHistory, keyHistory>>

\* A slip: last_used_at written by an upsert.
UpsertToken(c) ==
    /\ pc[c] = "stamp"
    /\ tokens' = tokens \cup {input[c].key}
    /\ byKey' = byKey \cup {c}
    /\ LetIn(c, input[c])
    /\ UNCHANGED <<row, minted, cookies, limiterVars, restarts, input,
                   localVars, pwHistory, dead>>

\* ... and the commit of last_used_at, an UPDATE of that row: revoked
\* meanwhile, it matches no row and the commit raises.
StampToken(c) ==
    /\ pc[c] = "stamp"
    /\ \/ /\ input[c].key \in tokens
          /\ byKey' = byKey \cup {c}
          /\ LetIn(c, input[c])
       \/ /\ input[c].key \notin tokens
          /\ Reply(c, "error")
          /\ UNCHANGED byKey
    /\ UNCHANGED <<dbVars, cookies, limiterVars, restarts, input, localVars,
                   pwHistory, dead>>
-----------------------------------------------------------------------------
(***************************************************************************)
(* AuthService: the admin password.                                        *)
(***************************************************************************)
\* A slip: the hash is read once and kept.
KeepHash(c) ==
    /\ pc[c] = "hash"
    /\ overtaken' = overtaken \ {c}
    /\ Goto(c, "verify")
    /\ UNCHANGED <<dbVars, cookies, limiterVars, restarts, input, localVars,
                   agreed, reverted, inForce, keyHistory>>

ReadHash(c) ==
    /\ pc[c] = "hash"
    /\ held' = [held EXCEPT ![c] = Stored(row)]
    /\ overtaken' = overtaken \ {c}
    /\ Goto(c, "verify")
    /\ UNCHANGED <<dbVars, cookies, limiterVars, restarts, input, found,
                   agreed, reverted, inForce, keyHistory>>

\* verify_admin_password returned False: a failed login is counted against
\* its address, a failed change against nobody.
Mismatch(c) ==
    IF input[c].kind = "login"
      THEN RecordFailure(c) /\ Reply(c, "invalid")
      ELSE Reply(c, "incorrect") /\ UNCHANGED limiterVars

\* verify_admin_password returned True.
Verified(c) ==
    IF input[c].kind = "login"
      THEN /\ RecordSuccess(input[c].source)
           /\ cookies' = MarkAdmin(input[c])
           /\ Reply(c, "ok")
      ELSE /\ Goto(c, "setFind")
           /\ UNCHANGED <<cookies, limiterVars>>

\* The argon2 threads: verify, then check_needs_rehash and hash.
Verify(c) ==
    /\ pc[c] = "verify"
    /\ \/ /\ held[c].password # input[c].password
          /\ Mismatch(c)
          /\ UNCHANGED cookies
       \/ /\ held[c].password = input[c].password
          /\ held[c].outdated
          /\ Goto(c, "upFind")
          /\ UNCHANGED <<cookies, limiterVars>>
       \/ /\ held[c].password = input[c].password
          /\ ~held[c].outdated
          /\ Verified(c)
    /\ UNCHANGED <<dbVars, restarts, input, localVars, pwHistory, keyHistory>>

\* _persist_admin_hash: the get, for a rehash and for a change.
FindRow(c) ==
    /\ pc[c] \in {"upFind", "setFind"}
    /\ found' = [found EXCEPT ![c] = row # NoRow]
    /\ Goto(c, IF pc[c] = "upFind" THEN "upWrite" ELSE "setWrite")
    /\ UNCHANGED <<dbVars, cookies, limiterVars, restarts, input, held,
                   pwHistory, keyHistory>>

\* A slip: the change hashes the current password.
HashCurrent(c) == input[c].password

\* What set_admin_password hashes.
NewPassword(c) == input[c].new

\* The commit writes p's hash.  Without a row found it is an INSERT of id 1,
\* which fails if a row has appeared.
WriteRow(c, p) ==
    /\ found[c] \/ row = NoRow
    /\ row' = [password |-> p, outdated |-> FALSE]
    /\ inForce' = [q \in Call |-> IF pc[q] \in {"idle", "done"}
                                    THEN inForce[q] ELSE inForce[q] \cup {p}]

\* A login's or change's outdated hash is replaced by one with today's
\* parameters, of the password that was verified.
Upgrade(c) ==
    /\ pc[c] = "upWrite"
    /\ WriteRow(c, held[c].password)
    /\ reverted' = (reverted \/ c \in overtaken)
    /\ \/ Verified(c)
       \/ Unacknowledged(c) /\ UNCHANGED <<cookies, limiterVars>>
    /\ UNCHANGED <<tokens, minted, restarts, input, localVars, agreed,
                   overtaken, keyHistory>>

SetPassword(c) ==
    /\ pc[c] = "setWrite"
    /\ WriteRow(c, NewPassword(c))
    /\ agreed' = input[c].new
    /\ reverted' = FALSE
    /\ overtaken' = {q \in Call : pc[q] \notin {"idle", "done"}}
    /\ Reply(c, "ok") \/ Unacknowledged(c)
    /\ UNCHANGED <<tokens, minted, cookies, limiterVars, restarts, input,
                   localVars, keyHistory>>

\* IntegrityError: two first writers of the row.
InsertCollides(c) ==
    /\ pc[c] \in {"upWrite", "setWrite"}
    /\ ~found[c] /\ row # NoRow
    /\ Reply(c, "error")
    /\ UNCHANGED <<dbVars, cookies, limiterVars, restarts, input, localVars,
                   pwHistory, keyHistory>>
-----------------------------------------------------------------------------
(***************************************************************************)
(* API tokens.                                                             *)
(***************************************************************************)
\* create_api_token: a fresh token, its digest inserted ...
MintToken(c) ==
    /\ pc[c] = "insert"
    /\ input[c].token \notin minted
    /\ minted' = minted \cup {input[c].token}
    /\ tokens' = tokens \cup {input[c].token}
    /\ Goto(c, "reread") \/ Unacknowledged(c)
    /\ UNCHANGED <<row, cookies, limiterVars, restarts, input, localVars,
                   pwHistory, keyHistory>>

\* ... and session.refresh(row), which raises if the row is gone already.
RereadToken(c) ==
    /\ pc[c] = "reread"
    /\ Reply(c, IF input[c].token \in tokens THEN "created" ELSE "error")
    /\ UNCHANGED <<dbVars, cookies, limiterVars, restarts, input, localVars,
                   pwHistory, keyHistory>>

\* revoke_api_token: the get ...
FindDoomed(c) ==
    /\ pc[c] = "find"
    /\ IF input[c].token \in tokens THEN Goto(c, "delete")
                                    ELSE Reply(c, "unknown")
    /\ UNCHANGED <<dbVars, cookies, limiterVars, restarts, input, localVars,
                   pwHistory, keyHistory>>

\* ... and the DELETE, which may find the row gone and does not mind.
RevokeToken(c) ==
    /\ pc[c] = "delete"
    /\ tokens' = tokens \ {input[c].token}
    /\ Reply(c, "deleted") \/ Unacknowledged(c)
    /\ UNCHANGED <<row, minted, cookies, limiterVars, restarts, input,
                   localVars, pwHistory, keyHistory>>
-----------------------------------------------------------------------------
\* A query or commit fails: rolled back, 500, nothing counted.
DbFails(c) ==
    /\ pc[c] \notin {"idle", "verify", "done"}
    /\ Reply(c, "error")
    /\ UNCHANGED <<dbVars, cookies, limiterVars, restarts, input, localVars,
                   pwHistory, keyHistory>>

\* The session cookie's max_age runs out.
SessionExpires(s) ==
    /\ s \in cookies
    /\ cookies' = cookies \ {s}
    /\ UNCHANGED <<dbVars, limiterVars, restarts, pc, input, localVars, answer,
                   pwHistory, keyHistory>>

\* The process is restarted: the limiter starts empty, calls under way are
\* cut, rows and signed cookies stay.
Restart ==
    /\ restarts < MaxRestarts
    /\ restarts' = restarts + 1
    /\ age' = [c \in Call |-> Window]
    /\ globalAge' = [c \in Call |-> Window]
    /\ locked' = [s \in Source |-> 0]
    /\ globalLocked' = 0
    /\ pc' = [c \in Call |-> IF pc[c] = "idle" THEN "idle" ELSE "done"]
    /\ answer' = [c \in Call |-> IF pc[c] \in {"idle", "done"}
                                   THEN answer[c] ELSE "cut"]
    /\ UNCHANGED <<dbVars, cookies, input, localVars, pwHistory, keyHistory>>

Step(c) == \/ FindToken(c) \/ StampToken(c)
           \/ ReadHash(c) \/ Verify(c) \/ FindRow(c)
           \/ Upgrade(c) \/ SetPassword(c) \/ InsertCollides(c)
           \/ MintToken(c) \/ RereadToken(c)
           \/ FindDoomed(c) \/ RevokeToken(c)
           \/ DbFails(c)

Next == \/ \E c \in Call : (\E m \in Offer[c] : Arrive(c, m)) \/ Step(c)
        \/ Tick
        \/ \E s \in Source : SessionExpires(s)
        \/ Restart

Spec == Init /\ [][Next]_vars
-----------------------------------------------------------------------------
(***************************************************************************)
(* Properties.                                                             *)
(***************************************************************************)
\* The password in force (_stored_admin_hash) is the one last set by
\* set_admin_password, across restarts, rehashes and two first writers of the
\* row, unless a login that had read the hash before that change committed
\* its rehash (verify_admin_password) after it.
PasswordStands == reverted \/ Stored(row).password = agreed

\* A login or change that succeeds presented a password that was in force at
\* some moment of the call, and one turned down for its password did so while
\* another one was in force: neither is decided by a hash older than the call.
VerdictsAreCurrent ==
    \A c \in Call :
        /\ answer[c] = "ok" /\ input[c].kind \in {"login", "change"}
              => input[c].password \in inForce[c]
        /\ answer[c] \in {"invalid", "incorrect"}
              => \E p \in inForce[c] : p # input[c].password

\* Once revoke_api_token has answered, the token is gone for good, although
\* calls that found it earlier still have to stamp last_used_at; and no call
\* that begins after a revocation is let in by that token.
RevocationIsFinal ==
    /\ \A c \in Call : answer[c] = "deleted" => input[c].token \notin tokens
    /\ \A c \in byKey : input[c].key \notin dead[c]

\* The lockout of an address is never shorter than record_failure's backoff
\* for the failures still in its window, counted from the latest of them,
\* however many logins were admitted together before the first one failed: a
\* late failure lengthens a lockout and never shortens it.  Likewise for the
\* global window.
BackoffServed ==
    /\ \A s \in Source :
          LET n == Cardinality(Failures(s)) IN
          n >= MaxAttempts =>
             \A c \in Failures(s) : locked[s] + age[c] >= Backoff(n)
    /\ Cardinality(GlobalFailures) >= GlobalMax =>
          \A c \in GlobalFailures : globalLocked + globalAge[c] >= BaseLockout
=============================================================================
