----------------------------- MODULE KekRotation -----------------------------
(***************************************************************************)
(* Rotation of the key that encrypts the stored secrets: rotation.py,      *)
(* crypto.py and the encrypting half of store.py, run by an operator       *)
(* against a live service, as the runbook in rotation.py has it: prepend a *)
(* key and restart, run the pass, drop the retired keys and restart.       *)
(*                                                                         *)
(* Keys are numbered in the order they are generated.  They are prepended  *)
(* and dropped in that order, so a keylist, primary first, is hi, .., lo.  *)
(* The pass and the service's handlers are sessions of one database: an    *)
(* UPDATE locks its row until its transaction ends.                        *)
(***************************************************************************)
EXTENDS Naturals

CONSTANTS BackendRow, DomainRow, TsigRow,   \* primary keys of the tables
          Writer,       \* API calls that write a secret
          MaxKey,       \* bound on the keys generated
          MaxPasses,    \* bound on the runs of the pass
          Stocked,      \* the rows present at the start
          First,        \* the secret they hold
          Unborn, Gone, NoSecret, NoJob

Row == BackendRow \cup DomainRow \cup TsigRow
Key == 1..MaxKey

\* A Fernet token: the key it was made with and the secret in it.  A secret
\* is known by the call that wrote it.
Cipher == [key : Key, value : Writer \cup {First}]

Job == [kind : {"create", "createNull", "update", "delete"}, row : Row]

ASSUME RotationAssumption ==
    /\ MaxKey \in Nat \ {0}
    /\ MaxPasses \in Nat
    /\ Stocked \subseteq Row
    /\ First \notin Writer
    /\ {Unborn, Gone, NoSecret} \cap Cipher = {}
    /\ Unborn # Gone /\ NoSecret \notin {Unborn, Gone}
    /\ NoJob \notin Job
    /\ BackendRow \cap (DomainRow \cup TsigRow) = {}
    /\ DomainRow \cap TsigRow = {}

VARIABLES lo, hi,      \* the service's keylist
          migrated,    \* the operator saw a pass under the primary complete
          rows,        \* the encrypted columns
          wpc, job,    \* the writing API calls
          token,       \* the ciphertext a call is about to commit
          ppc,         \* what the pass waits for
          passLo, passHi, \* the pass's own keylist
          plan,        \* the pass's session: rotated tokens
          flushed,     \* rows the pass has updated and not yet committed
          passes,
          lastSet,     \* history: the secret the service last stored
          raced        \* history: backends updated while the pass holds their
                       \* old secrets (InWindow)

serviceVars == <<lo, hi, migrated>>
writerVars == <<wpc, job, token>>
passVars == <<ppc, passLo, passHi, plan, flushed>>
vars == <<serviceVars, rows, writerVars, passVars, passes, lastSet, raced>>
-----------------------------------------------------------------------------
Stored(r) == rows[r] \in Cipher
Present(r) == rows[r] \notin {Unborn, Gone}

TypeOK ==
    /\ lo \in Key /\ hi \in Key /\ lo <= hi
    /\ migrated \in BOOLEAN
    /\ rows \in [Row -> Cipher \cup {Unborn, Gone, NoSecret}]
    /\ wpc \in [Writer -> {"idle", "commit", "done"}]
    /\ job \in [Writer -> Job \cup {NoJob}]
    /\ token \in [Writer -> Cipher \cup {NoSecret}]
    /\ ppc \in {"off", "backends", "domains", "tsig", "commit"}
    /\ passLo \in Key /\ passHi \in Key
    /\ plan \in [Row -> Cipher \cup {NoSecret}]
    /\ flushed \subseteq {r \in Row : plan[r] # NoSecret}
    /\ passes \in 0..MaxPasses
    /\ lastSet \in [Row -> Writer \cup {First}]
    /\ raced \subseteq Row

Init ==
    /\ lo = 1 /\ hi = 1
    /\ migrated = FALSE
    /\ \E null \in SUBSET (DomainRow \cap Stocked) :
          rows = [r \in Row |-> CASE r \notin Stocked -> Unborn
                                  [] r \in null -> NoSecret
                                  [] OTHER -> [key |-> 1, value |-> First]]
    /\ wpc = [w \in Writer |-> "idle"]
    /\ job = [w \in Writer |-> NoJob]
    /\ token = [w \in Writer |-> NoSecret]
    /\ ppc = "off"
    /\ passLo = 1 /\ passHi = 1
    /\ plan = [r \in Row |-> NoSecret]
    /\ flushed = {}
    /\ passes = 0
    /\ lastSet = [r \in Row |-> First]
    /\ raced = {}
-----------------------------------------------------------------------------
(***************************************************************************)
(* Kek.                                                                    *)
(***************************************************************************)
\* Kek.encrypt: under the primary.
Encrypt(value) == [key |-> hi, value |-> value]

\* Kek.decrypt: any key of the list will do; none is InvalidToken.
Readable(c, l, h) == c.key \in l..h

\* Kek.rotate
Rotate(c, h) == [key |-> h, value |-> c.value]
-----------------------------------------------------------------------------
(***************************************************************************)
(* The service's writers: create_*, update_backend, delete_*, revoke_*.    *)
(***************************************************************************)
\* The handler up to its commit: the row looked up, the secret encrypted.
\* Only a backend's secret can be changed, only a domain's be missing.
Prepare(w, j) ==
    /\ wpc[w] = "idle"
    /\ j.kind \in {"create", "createNull"} => rows[j.row] = Unborn
    /\ j.kind \in {"update", "delete"} => Present(j.row)
    /\ j.kind = "update" => j.row \in BackendRow
    /\ j.kind = "createNull" => j.row \in DomainRow
    /\ wpc' = [wpc EXCEPT ![w] = "commit"]
    /\ job' = [job EXCEPT ![w] = j]
    /\ token' = [token EXCEPT ![w] =
                   IF j.kind \in {"create", "update"} THEN Encrypt(w)
                                                      ELSE NoSecret]
    /\ UNCHANGED <<serviceVars, rows, passVars, passes, lastSet, raced>>

\* A row the pass has updated cannot be written until the pass commits.
Unlocked(r) == r \notin flushed

\* What the commit makes of the row.  An update or delete of a row that is
\* gone, or a create whose name is taken by now, changes nothing.
After(w) ==
    LET r == job[w].row IN
    CASE job[w].kind \in {"create", "createNull"} /\ rows[r] = Unborn -> token[w]
      [] job[w].kind = "update" /\ Present(r) -> token[w]
      [] job[w].kind = "delete" /\ Present(r) -> Gone
      [] OTHER -> rows[r]

\* When the pass may overwrite an update: it has read the row and its next
\* statement, the SELECT of the domains, has not flushed it.
InWindow(r) == ppc = "domains" /\ r \in BackendRow /\ plan[r] # NoSecret

\* The call may still see an error: a commit whose acknowledgement is lost is
\* a commit.
Commit(w) ==
    LET r == job[w].row
        written == After(w) # rows[r] /\ After(w) \in Cipher
    IN  /\ wpc[w] = "commit"
        /\ Unlocked(r)
        /\ rows' = [rows EXCEPT ![r] = After(w)]
        /\ lastSet' = IF written THEN [lastSet EXCEPT ![r] = w] ELSE lastSet
        /\ raced' = IF written
                      THEN IF InWindow(r) THEN raced \cup {r}
                                          ELSE raced \ {r}
                      ELSE raced
        /\ wpc' = [wpc EXCEPT ![w] = "done"]
        /\ UNCHANGED <<serviceVars, job, token, passVars, passes>>

\* The commit fails: rolled back, 500.
CommitFails(w) ==
    /\ wpc[w] = "commit"
    /\ wpc' = [wpc EXCEPT ![w] = "done"]
    /\ UNCHANGED <<serviceVars, rows, job, token, passVars, passes, lastSet,
                   raced>>
-----------------------------------------------------------------------------
(***************************************************************************)
(* rotate_stored_secrets.                                                  *)
(***************************************************************************)
StartPass ==
    /\ ppc = "off"
    /\ passes < MaxPasses
    /\ passes' = passes + 1
    /\ ppc' = "backends"
    /\ passLo' = lo /\ passHi' = hi
    /\ UNCHANGED <<serviceVars, rows, writerVars, plan, flushed, lastSet,
                   raced>>

\* A slip: domains without a secret end the pass's walk of the table.
StopAtNull(table) ==
    IF \E r \in table : rows[r] = NoSecret THEN {} ELSE {r \in table : Stored(r)}

\* The rows of a table that have a secret to rotate.
Rotatable(table) == {r \in table : Stored(r)}

\* A slip: a session that does not flush before a SELECT.
NoAutoflush(place, table, next) ==
    /\ ppc = place
    /\ \A r \in Rotatable(table) : Readable(rows[r], passLo, passHi)
    /\ plan' = [r \in Row |-> IF r \in Rotatable(table)
                                THEN Rotate(rows[r], passHi) ELSE plan[r]]
    /\ ppc' = next
    /\ UNCHANGED <<serviceVars, rows, writerVars, passLo, passHi, flushed,
                   passes, lastSet, raced>>

\* One SELECT with the loop after it.  Tokens rotated before are flushed
\* first (autoflush), which locks their rows; one that no key of the list
\* reads ends the pass.
Scan(place, table, next) ==
    /\ ppc = place
    /\ \A r \in Rotatable(table) : Readable(rows[r], passLo, passHi)
    /\ flushed' = {r \in Row : plan[r] # NoSecret}
    /\ plan' = [r \in Row |-> IF r \in Rotatable(table)
                                THEN Rotate(rows[r], passHi) ELSE plan[r]]
    /\ ppc' = next
    /\ UNCHANGED <<serviceVars, rows, writerVars, passLo, passHi, passes,
                   lastSet, raced>>

EndPass == /\ ppc' = "off"
           /\ plan' = [r \in Row |-> NoSecret]
           /\ flushed' = {}
           /\ UNCHANGED <<passLo, passHi, passes>>

\* The commit: what was not flushed yet is, and all becomes visible.  A row
\* deleted before it was flushed is not updated (or ends the pass, see
\* PassFails).  The operator may not see it complete: the acknowledgement can
\* be lost.
CommitPass ==
    /\ ppc = "commit"
    /\ rows' = [r \in Row |-> IF plan[r] # NoSecret /\ Present(r)
                                THEN plan[r] ELSE rows[r]]
    /\ migrated' \in {migrated, migrated \/ passHi = hi}
    /\ EndPass
    /\ UNCHANGED <<lo, hi, writerVars, lastSet, raced>>

\* A slip: a failed pass that keeps its transaction open.
LeaveOpen ==
    /\ ppc # "off"
    /\ ppc' = "off"
    /\ plan' = [r \in Row |-> NoSecret]
    /\ UNCHANGED <<serviceVars, rows, writerVars, passLo, passHi, flushed,
                   passes, lastSet, raced>>

\* InvalidToken, StaleDataError for a row deleted since it was read, a lost
\* connection, an impatient operator: rolled back.
PassFails ==
    /\ ppc # "off"
    /\ EndPass
    /\ UNCHANGED <<serviceVars, rows, writerVars, lastSet, raced>>

PassStep == \/ Scan("backends", BackendRow, "domains")
            \/ Scan("domains", DomainRow, "tsig")
            \/ Scan("tsig", TsigRow, "commit")
            \/ CommitPass
            \/ PassFails
-----------------------------------------------------------------------------
(***************************************************************************)
(* The operator.  A restart cuts the calls under way.                      *)
(***************************************************************************)
CutWriters == /\ wpc' = [w \in Writer |-> IF wpc[w] = "commit" THEN "done"
                                                               ELSE wpc[w]]
              /\ UNCHANGED <<job, token>>

\* Steps 1 to 3: a fresh key in front of the list.
Prepend ==
    /\ hi < MaxKey
    /\ hi' = hi + 1
    /\ migrated' = FALSE
    /\ CutWriters
    /\ UNCHANGED <<lo, rows, passVars, passes, lastSet, raced>>

\* A slip: the retired keys dropped while a pass is still under way.
DropUnderWay ==
    /\ migrated \/ ppc # "off"
    /\ lo < hi
    /\ lo' = hi
    /\ CutWriters
    /\ UNCHANGED <<hi, migrated, rows, passVars, passes, lastSet, raced>>

\* Step 5, after step 4: the primary is left alone.
DropRetired ==
    /\ migrated
    /\ lo < hi
    /\ lo' = hi
    /\ CutWriters
    /\ UNCHANGED <<hi, migrated, rows, passVars, passes, lastSet, raced>>

Next == \/ \E w \in Writer : \/ \E j \in Job : Prepare(w, j)
                             \/ Commit(w)
                             \/ CommitFails(w)
        \/ StartPass
        \/ PassStep
        \/ Prepend
        \/ DropRetired

Spec == Init /\ [][Next]_vars

\* A statement of the pass ends or raises; so does a commit that can run.
FairSpec == /\ Spec
            /\ WF_vars(PassStep)
            /\ \A w \in Writer : WF_vars(Commit(w))
-----------------------------------------------------------------------------
(***************************************************************************)
(* Properties.                                                             *)
(***************************************************************************)
\* The runbook's steps keep every stored secret readable by the service as it
\* is configured, whatever is written while the pass runs, however often the
\* pass fails, and with a second rotation begun before the first is over.
NoSecretStranded ==
    \A r \in Row : Stored(r) => Readable(rows[r], lo, hi)

\* A pass that completed under the primary has left no token of an older key
\* behind, rows created or changed since it read their table included: step 5
\* needs no second look.
MigrationIsComplete ==
    migrated => \A r \in Row : Stored(r) => rows[r].key = hi

\* A secret the service stored stays: rotate_stored_secrets puts back an
\* older one only of a backend whose update committed after the pass read
\* the backends and before its SELECT of the domains.  From then on, and for
\* the domains and TSIG keys at any time, no update is lost.
OnlyRacedUpdatesAreLost ==
    \A r \in Row : Stored(r) /\ rows[r].value # lastSet[r] =>
        r \in raced /\ r \in BackendRow

\* Calls that wait for a row the pass has locked get their turn.
WritersAreNotStarved ==
    \A w \in Writer : wpc[w] = "commit" ~> wpc[w] = "done"
=============================================================================
