------------------------- MODULE KekRotationProofs --------------------------
(***************************************************************************)
(* KekRotation for any tables, any number of writers, keys and passes: the *)
(* stored secrets stay readable, a completed pass is complete, and only a  *)
(* backend's update in the window between read and flush can be lost.      *)
(***************************************************************************)
EXTENDS KekRotation, TLAPS

\* The tables the pass has read when it waits at a place.
Swept(place) == CASE place = "domains" -> BackendRow
                  [] place = "tsig"    -> BackendRow \cup DomainRow
                  [] place = "commit"  -> Row
                  [] OTHER             -> {}

\* A call about to commit has a token of the primary, and of its own making.
Writers ==
    \A w \in Writer : wpc[w] = "commit" =>
        /\ job[w] \in Job
        /\ job[w].kind = "update" => job[w].row \in BackendRow
        /\ token[w] # NoSecret => token[w].key = hi /\ token[w].value = w

\* The pass's primary is a key the service still has; once the operator saw a
\* pass complete, it is the service's primary.
Keylists ==
    /\ ppc = "off" => \A r \in Row : plan[r] = NoSecret
    /\ ppc # "off" => /\ lo <= passHi /\ passHi <= hi
                      /\ migrated => passHi = hi

\* What the pass is about to store: tokens of its primary, for rows that were
\* there, with the secret last stored unless the row was raced; only backends
\* are ever open to a race, and only while the domains are still to be read.
Plan ==
    \A r \in Row : plan[r] # NoSecret =>
        /\ plan[r].key = passHi
        /\ rows[r] # Unborn
        /\ plan[r].value = lastSet[r] \/ (r \in raced /\ r \in BackendRow)
        /\ r \in BackendRow /\ r \notin flushed => ppc = "domains"

\* What a pass under the primary has gone past is planned or needs no plan.
Covered ==
    passHi = hi => \A r \in Swept(ppc) :
        Stored(r) /\ plan[r] = NoSecret => rows[r].key = hi

\* The inductive invariant.
KInv == /\ TypeOK /\ Writers /\ Keylists /\ Plan /\ Covered
        /\ NoSecretStranded /\ MigrationIsComplete /\ OnlyRacedUpdatesAreLost
-----------------------------------------------------------------------------
\* A Fernet token has a key and a secret; the markers are none.
LEMMA CipherFacts ==
    /\ \A c \in Cipher : c.key \in Key /\ c.value \in Writer \cup {First}
    /\ Unborn \notin Cipher /\ Gone \notin Cipher /\ NoSecret \notin Cipher
    /\ Unborn # Gone /\ NoSecret # Unborn /\ NoSecret # Gone
BY RotationAssumption DEF Cipher

\* Kek.rotate keeps the secret and yields a token of the new key.
LEMMA RotateFacts ==
    ASSUME NEW c \in Cipher, NEW h \in Key
    PROVE  /\ Rotate(c, h) \in Cipher
           /\ Rotate(c, h).key = h /\ Rotate(c, h).value = c.value
BY DEF Rotate, Cipher

\* What a commit leaves in its row: the call's own token, Gone, or what was
\* there; only a create finds no row yet, and only a backend's is updated.
LEMMA AfterFacts ==
    ASSUME TypeOK, Writers, NEW w \in Writer, wpc[w] = "commit"
    PROVE  LET r == job[w].row IN
           /\ r \in Row
           /\ \/ After(w) = rows[r]
              \/ After(w) = Gone /\ Present(r)
              \/ After(w) = token[w] /\ rows[r] = Unborn
              \/ After(w) = token[w] /\ Present(r) /\ r \in BackendRow
<1> DEFINE r == job[w].row
<1>1. job[w] \in Job /\ r \in Row
  BY DEF Writers, Job
<1>2. job[w].kind \in {"create", "createNull", "update", "delete"}
  BY <1>1 DEF Job
<1>3. job[w].kind = "update" => r \in BackendRow
  BY DEF Writers
<1>4. CASE job[w].kind \in {"create", "createNull"} /\ rows[r] = Unborn
  BY <1>1, <1>4 DEF After
<1>5. CASE job[w].kind = "update" /\ Present(r)
  BY <1>1, <1>3, <1>5 DEF After
<1>6. CASE job[w].kind = "delete" /\ Present(r)
  BY <1>1, <1>6 DEF After
<1>7. CASE /\ ~(job[w].kind \in {"create", "createNull"} /\ rows[r] = Unborn)
           /\ ~(job[w].kind = "update" /\ Present(r))
           /\ ~(job[w].kind = "delete" /\ Present(r))
  BY <1>1, <1>7 DEF After
<1> QED
  BY <1>4, <1>5, <1>6, <1>7
-----------------------------------------------------------------------------
\* The first states.
LEMMA KInvInit == Init => KInv
<1> SUFFICES ASSUME Init PROVE KInv
  OBVIOUS
<1>1. PICK null \in SUBSET (DomainRow \cap Stocked) :
         rows = [r \in Row |-> CASE r \notin Stocked -> Unborn
                                 [] r \in null -> NoSecret
                                 [] OTHER -> [key |-> 1, value |-> First]]
  BY DEF Init
<1>2. 1 \in Key /\ [key |-> 1, value |-> First] \in Cipher
  BY RotationAssumption DEF Key, Cipher
<1>3. \A r \in Row : rows[r] \in {Unborn, NoSecret, [key |-> 1, value |-> First]}
  BY <1>1
<1>4. rows \in [Row -> Cipher \cup {Unborn, Gone, NoSecret}]
  BY <1>1, <1>2
<1>5. \A r \in Row : Stored(r) => rows[r] = [key |-> 1, value |-> First]
  BY <1>3, CipherFacts DEF Stored
<1>6. TypeOK
  <2>1. 0 \in 0..MaxPasses
    BY RotationAssumption
  <2>2. /\ lo = 1 /\ hi = 1 /\ migrated = FALSE
        /\ wpc = [w \in Writer |-> "idle"] /\ job = [w \in Writer |-> NoJob]
        /\ token = [w \in Writer |-> NoSecret]
        /\ ppc = "off" /\ passLo = 1 /\ passHi = 1
        /\ plan = [r \in Row |-> NoSecret] /\ flushed = {}
        /\ passes = 0 /\ lastSet = [r \in Row |-> First] /\ raced = {}
    BY DEF Init
  <2>3. lo \in Key /\ hi \in Key /\ lo <= hi /\ passLo \in Key /\ passHi \in Key
    BY <1>2, <2>2
  <2>4. /\ plan \in [Row -> Cipher \cup {NoSecret}]
        /\ flushed \subseteq {r \in Row : plan[r] # NoSecret}
    BY <2>2
  <2>5. /\ wpc \in [Writer -> {"idle", "commit", "done"}]
        /\ job \in [Writer -> Job \cup {NoJob}]
        /\ token \in [Writer -> Cipher \cup {NoSecret}]
        /\ lastSet \in [Row -> Writer \cup {First}]
    BY <2>2
  <2> QED
    BY <1>4, <2>1, <2>2, <2>3, <2>4, <2>5 DEF TypeOK
<1>7. Writers /\ Keylists /\ Plan /\ Covered
  BY DEF Init, Writers, Keylists, Plan, Covered, Swept
<1>8. NoSecretStranded /\ MigrationIsComplete /\ OnlyRacedUpdatesAreLost
  BY <1>5 DEF Init, NoSecretStranded, MigrationIsComplete,
              OnlyRacedUpdatesAreLost, Readable
<1> QED
  BY <1>6, <1>7, <1>8 DEF KInv

\* A handler up to its commit disturbs nothing but its own token.
LEMMA PrepareStep ==
    ASSUME KInv, NEW w \in Writer, NEW j \in Job, Prepare(w, j)
    PROVE  KInv'
<1> USE DEF KInv
<1>1. token' \in [Writer -> Cipher \cup {NoSecret}]
  <2>1. Encrypt(w) \in Cipher
    BY DEF Encrypt, Cipher, TypeOK
  <2> QED
    BY <2>1 DEF Prepare, TypeOK
<1>2. TypeOK'
  BY <1>1 DEF Prepare, TypeOK, serviceVars, passVars
<1>3. Writers'
  <2> SUFFICES ASSUME NEW v \in Writer, wpc'[v] = "commit"
               PROVE  /\ job'[v] \in Job
                      /\ job'[v].kind = "update" => job'[v].row \in BackendRow
                      /\ token'[v] # NoSecret =>
                            token'[v].key = hi' /\ token'[v].value = v
    BY DEF Writers
  <2>1. CASE v = w
    BY <2>1 DEF Prepare, TypeOK, Encrypt, serviceVars
  <2>2. CASE v # w
    BY <2>2 DEF Prepare, TypeOK, Writers, serviceVars
  <2> QED
    BY <2>1, <2>2
<1>4. /\ Keylists' /\ Plan' /\ Covered'
      /\ NoSecretStranded' /\ MigrationIsComplete' /\ OnlyRacedUpdatesAreLost'
  BY DEF Prepare, serviceVars, passVars, Keylists, Plan, Covered, Swept,
         NoSecretStranded, MigrationIsComplete, OnlyRacedUpdatesAreLost,
         Stored, Readable
<1> QED
  BY <1>2, <1>3, <1>4

\* A commit: its token is of the primary, and a row it changes under a plan
\* is a backend's, marked raced.
LEMMA CommitStep ==
    ASSUME KInv, NEW w \in Writer, Commit(w)
    PROVE  KInv'
<1> DEFINE r == job[w].row
           written == After(w) # rows[r] /\ After(w) \in Cipher
<1>1. /\ wpc[w] = "commit" /\ r \notin flushed
      /\ rows' = [rows EXCEPT ![r] = After(w)]
      /\ lastSet' = IF written THEN [lastSet EXCEPT ![r] = w] ELSE lastSet
      /\ raced' = IF written
                    THEN IF InWindow(r) THEN raced \cup {r}
                                        ELSE raced \ {r}
                    ELSE raced
      /\ wpc' = [wpc EXCEPT ![w] = "done"]
      /\ UNCHANGED <<lo, hi, migrated, job, token, ppc, passLo, passHi, plan,
                     flushed, passes>>
  BY DEF Commit, Unlocked, serviceVars, passVars
<1>2. /\ r \in Row
      /\ \/ After(w) = rows[r]
         \/ After(w) = Gone /\ Present(r)
         \/ After(w) = token[w] /\ rows[r] = Unborn
         \/ After(w) = token[w] /\ Present(r) /\ r \in BackendRow
  BY <1>1, AfterFacts DEF KInv
<1>3. /\ token[w] \in Cipher \cup {NoSecret}
      /\ token[w] \in Cipher => token[w].key = hi /\ token[w].value = w
  BY <1>1, CipherFacts DEF KInv, TypeOK, Writers
<1>4. /\ After(w) \in Cipher \cup {Unborn, Gone, NoSecret}
      /\ written => After(w).key = hi /\ After(w).value = w
      /\ After(w) = Unborn => rows[r] = Unborn
      /\ written /\ rows[r] # Unborn => r \in BackendRow
  BY <1>2, <1>3, CipherFacts DEF KInv, TypeOK
<1>5. /\ rows'[r] = After(w)
      /\ \A s \in Row : s # r => rows'[s] = rows[s] /\ lastSet'[s] = lastSet[s]
      /\ \A s \in Row : s # r => (s \in raced' <=> s \in raced)
      /\ written => lastSet'[r] = w
      /\ written => (r \in raced' <=> InWindow(r))
      /\ ~written => lastSet' = lastSet /\ raced' = raced
  BY <1>1, <1>2 DEF KInv, TypeOK
<1> HIDE DEF r, written
<1>6. TypeOK'
  <2>1. rows' \in [Row -> Cipher \cup {Unborn, Gone, NoSecret}]
    BY <1>1, <1>2, <1>4 DEF KInv, TypeOK
  <2>2. lastSet' \in [Row -> Writer \cup {First}] /\ raced' \subseteq Row
    BY <1>1, <1>2 DEF KInv, TypeOK
  <2> QED
    BY <1>1, <2>1, <2>2 DEF KInv, TypeOK
<1>7. Writers' /\ Keylists'
  BY <1>1 DEF KInv, TypeOK, Writers, Keylists
<1>8. Plan'
  <2> SUFFICES ASSUME NEW s \in Row, plan[s] # NoSecret
               PROVE  /\ plan[s].key = passHi
                      /\ rows'[s] # Unborn
                      /\ \/ plan[s].value = lastSet'[s]
                         \/ s \in raced' /\ s \in BackendRow
                      /\ s \in BackendRow /\ s \notin flushed =>
                            ppc = "domains"
    BY <1>1 DEF Plan
  <2>1. CASE s # r
    BY <1>5, <2>1 DEF KInv, Plan
  <2>2. CASE s = r /\ ~written
    BY <1>4, <1>5, <2>2 DEF KInv, Plan
  <2>3. CASE s = r /\ written
    <3>1. InWindow(r)
      BY <1>1, <1>4, <2>3 DEF KInv, Plan, InWindow, r
    <3> QED
      BY <1>4, <1>5, <2>3, <3>1, CipherFacts DEF KInv, Plan, written
  <2> QED
    BY <2>1, <2>2, <2>3
<1>9. ASSUME NEW s \in Row, Stored(s)'
      PROVE  \/ Stored(s) /\ rows'[s] = rows[s] /\ ~(s = r /\ written)
             \/ s = r /\ written
  <2>1. CASE s # r
    BY <1>5, <1>9, <2>1 DEF Stored
  <2>2. CASE s = r
    BY <1>5, <1>9, <2>2 DEF Stored, written, r
  <2> QED
    BY <2>1, <2>2
<1>10. Covered' /\ NoSecretStranded' /\ MigrationIsComplete'
  <2>1. \A s \in Row : Stored(s)' /\ s = r /\ written =>
           rows'[s].key = hi /\ lo <= hi /\ lo \in Nat /\ hi \in Nat
    BY <1>4, <1>5 DEF KInv, TypeOK, Key
  <2>2. Swept(ppc) \subseteq Row /\ Swept(ppc)' = Swept(ppc)
    BY <1>1 DEF Swept, Row
  <2>3. Covered'
    BY <1>1, <1>9, <2>1, <2>2 DEF KInv, Covered
  <2>4. NoSecretStranded'
    BY <1>1, <1>9, <2>1 DEF KInv, NoSecretStranded, Readable
  <2>5. MigrationIsComplete'
    BY <1>1, <1>9, <2>1 DEF KInv, MigrationIsComplete
  <2> QED
    BY <2>3, <2>4, <2>5
<1>11. OnlyRacedUpdatesAreLost'
  <2> SUFFICES ASSUME NEW s \in Row, Stored(s)', rows'[s].value # lastSet'[s]
               PROVE  s \in raced' /\ s \in BackendRow
    BY DEF OnlyRacedUpdatesAreLost
  <2>1. ~(s = r /\ written)
    BY <1>4, <1>5
  <2>2. Stored(s) /\ rows'[s] = rows[s]
    BY <1>9, <2>1
  <2>3. lastSet'[s] = lastSet[s] /\ (s \in raced' <=> s \in raced)
    BY <1>5, <2>1
  <2> QED
    BY <2>2, <2>3 DEF KInv, OnlyRacedUpdatesAreLost
<1> QED
  BY <1>6, <1>7, <1>8, <1>10, <1>11 DEF KInv

\* Steps that leave the rows, the plan and their history alone keep what is
\* said of them; the keylists and the writers remain to be looked at.
LEMMA RowsKept ==
    ASSUME KInv, UNCHANGED <<rows, plan, flushed, lastSet, raced, passHi, ppc,
                             hi, lo, migrated>>
    PROVE  /\ Keylists' /\ Plan' /\ Covered'
           /\ NoSecretStranded' /\ MigrationIsComplete'
           /\ OnlyRacedUpdatesAreLost'
BY DEF KInv, Keylists, Plan, Covered, Swept, NoSecretStranded,
       MigrationIsComplete, OnlyRacedUpdatesAreLost, Stored, Readable

\* A commit that is rolled back.
LEMMA CommitFailsStep ==
    ASSUME KInv, NEW w \in Writer, CommitFails(w)
    PROVE  KInv'
<1>1. TypeOK'
  BY DEF KInv, TypeOK, CommitFails, serviceVars, passVars
<1>2. Writers'
  BY DEF KInv, TypeOK, Writers, CommitFails, serviceVars
<1> QED
  BY <1>1, <1>2, RowsKept DEF KInv, CommitFails, serviceVars, passVars

\* A pass begins with the service's keylist and nothing planned.
LEMMA StartPassStep ==
    ASSUME KInv, StartPass
    PROVE  KInv'
<1> USE DEF KInv
<1>1. /\ ppc = "off" /\ passes < MaxPasses /\ passes' = passes + 1
      /\ ppc' = "backends" /\ passLo' = lo /\ passHi' = hi
      /\ UNCHANGED <<lo, hi, migrated, rows, wpc, job, token, plan, flushed,
                     lastSet, raced>>
  BY DEF StartPass, serviceVars, writerVars
<1>2. passes' \in 0..MaxPasses
  BY <1>1, RotationAssumption DEF TypeOK
<1>3. TypeOK'
  BY <1>1, <1>2 DEF TypeOK
<1>4. Keylists' /\ Plan' /\ Covered'
  BY <1>1 DEF TypeOK, Key, Keylists, Plan, Covered, Swept
<1>5. /\ Writers' /\ NoSecretStranded' /\ MigrationIsComplete'
      /\ OnlyRacedUpdatesAreLost'
  BY <1>1 DEF Writers, NoSecretStranded, MigrationIsComplete,
              OnlyRacedUpdatesAreLost, Stored, Readable
<1> QED
  BY <1>3, <1>4, <1>5

\* One SELECT of the pass: what it reads is planned under the pass's primary
\* with the secret that is stored.
LEMMA ScanStep ==
    ASSUME KInv, NEW table \in SUBSET Row,
           NEW place \in {"backends", "domains", "tsig"},
           NEW next \in {"domains", "tsig", "commit"},
           Swept(next) = Swept(place) \cup table,
           table \cap BackendRow # {} => next = "domains",
           Scan(place, table, next)
    PROVE  KInv'
<1> USE DEF KInv
<1>1. /\ ppc = place /\ ppc' = next
      /\ flushed' = {r \in Row : plan[r] # NoSecret}
      /\ plan' = [r \in Row |-> IF r \in Rotatable(table)
                                  THEN Rotate(rows[r], passHi) ELSE plan[r]]
      /\ UNCHANGED <<lo, hi, migrated, rows, wpc, job, token, passLo, passHi,
                     passes, lastSet, raced>>
  BY DEF Scan, serviceVars, writerVars
<1>2. ASSUME NEW r \in Row, r \in Rotatable(table)
      PROVE  /\ Stored(r) /\ rows[r] \in Cipher
             /\ plan'[r] \in Cipher
             /\ plan'[r].key = passHi /\ plan'[r].value = rows[r].value
  BY <1>1, <1>2, RotateFacts DEF Rotatable, Stored, TypeOK
<1>3. \A r \in Row : r \notin Rotatable(table) => plan'[r] = plan[r]
  BY <1>1
<1>4. TypeOK'
  <2>1. plan' \in [Row -> Cipher \cup {NoSecret}]
    BY <1>1, <1>2 DEF TypeOK
  <2>2. flushed' \subseteq {r \in Row : plan'[r] # NoSecret}
    BY <1>1, <1>2, <1>3, CipherFacts
  <2> QED
    BY <1>1, <2>1, <2>2 DEF TypeOK
<1>5. Writers' /\ Keylists'
  BY <1>1 DEF Writers, Keylists
<1>6. Plan'
  <2> SUFFICES ASSUME NEW r \in Row, plan'[r] # NoSecret
               PROVE  /\ plan'[r].key = passHi
                      /\ rows[r] # Unborn
                      /\ \/ plan'[r].value = lastSet[r]
                         \/ r \in raced /\ r \in BackendRow
                      /\ r \in BackendRow /\ r \notin flushed' =>
                            next = "domains"
    BY <1>1 DEF Plan
  <2>1. CASE r \in Rotatable(table)
    <3>1. r \in table
      BY <2>1 DEF Rotatable
    <3> QED
      BY <1>2, <2>1, <3>1, CipherFacts DEF OnlyRacedUpdatesAreLost
  <2>2. CASE r \notin Rotatable(table)
    BY <1>1, <1>3, <2>2 DEF Plan
  <2> QED
    BY <2>1, <2>2
<1>7. Covered'
  <2> SUFFICES ASSUME passHi = hi, NEW r \in Swept(place) \cup table,
                      rows[r] \in Cipher, plan'[r] = NoSecret
               PROVE  rows[r].key = hi
    BY <1>1 DEF Covered, Stored
  <2>1. r \in Row
    BY DEF Swept, Row
  <2>2. r \notin Rotatable(table)
    BY <1>2, <2>1, CipherFacts
  <2>3. r \in Swept(place)
    BY <2>2 DEF Rotatable, Stored
  <2> QED
    BY <1>1, <1>3, <2>1, <2>2, <2>3 DEF Covered, Stored
<1>8. NoSecretStranded' /\ MigrationIsComplete' /\ OnlyRacedUpdatesAreLost'
  BY <1>1 DEF NoSecretStranded, MigrationIsComplete, OnlyRacedUpdatesAreLost,
              Stored, Readable
<1> QED
  BY <1>4, <1>5, <1>6, <1>7, <1>8

\* The pass's commit: every row is the planned one, or needed no plan.
LEMMA CommitPassStep ==
    ASSUME KInv, CommitPass
    PROVE  KInv'
<1> USE DEF KInv
<1>1. /\ ppc = "commit" /\ ppc' = "off"
      /\ rows' = [r \in Row |-> IF plan[r] # NoSecret /\ Present(r)
                                  THEN plan[r] ELSE rows[r]]
      /\ migrated' \in {migrated, migrated \/ passHi = hi}
      /\ plan' = [r \in Row |-> NoSecret] /\ flushed' = {}
      /\ UNCHANGED <<lo, hi, wpc, job, token, passLo, passHi, passes, lastSet,
                     raced>>
  BY DEF CommitPass, EndPass, writerVars
<1>2. ASSUME NEW r \in Row
      PROVE  \/ /\ plan[r] # NoSecret /\ plan[r] \in Cipher
                /\ rows'[r] = plan[r]
             \/ plan[r] = NoSecret /\ rows'[r] = rows[r]
             \/ rows'[r] = rows[r] /\ rows'[r] \notin Cipher
  BY <1>1, CipherFacts DEF TypeOK, Present
<1>3. TypeOK'
  <2>1. rows' \in [Row -> Cipher \cup {Unborn, Gone, NoSecret}]
    BY <1>1, <1>2 DEF TypeOK
  <2> QED
    BY <1>1, <2>1 DEF TypeOK
<1>4. Writers' /\ Keylists' /\ Plan' /\ Covered'
  BY <1>1 DEF Writers, Keylists, Plan, Covered, Swept
<1>5. lo <= passHi /\ passHi <= hi /\ (migrated => passHi = hi)
  BY <1>1 DEF Keylists
<1>6. lo \in Nat /\ hi \in Nat /\ passHi \in Nat
  BY DEF TypeOK, Key
<1>7. NoSecretStranded'
  <2> SUFFICES ASSUME NEW r \in Row, rows'[r] \in Cipher
               PROVE  rows'[r].key \in lo..hi
    BY <1>1 DEF NoSecretStranded, Stored, Readable
  <2>1. CASE plan[r] # NoSecret /\ rows'[r] = plan[r]
    BY <1>5, <1>6, <2>1 DEF Plan
  <2>2. CASE rows'[r] = rows[r]
    BY <2>2 DEF NoSecretStranded, Stored, Readable
  <2> QED
    BY <1>2, <2>1, <2>2
<1>8. MigrationIsComplete'
  <2> SUFFICES ASSUME passHi = hi, NEW r \in Row, rows'[r] \in Cipher
               PROVE  rows'[r].key = hi
    BY <1>1, <1>5, Zenon DEF MigrationIsComplete, Stored
  <2>1. CASE plan[r] # NoSecret /\ rows'[r] = plan[r]
    BY <2>1 DEF Plan
  <2>2. CASE plan[r] = NoSecret /\ rows'[r] = rows[r]
    <3>1. r \in Swept(ppc)
      BY <1>1 DEF Swept
    <3> QED
      BY <2>2, <3>1 DEF Covered, Stored
  <2> QED
    BY <1>2, <2>1, <2>2
<1>9. OnlyRacedUpdatesAreLost'
  <2> SUFFICES ASSUME NEW r \in Row, rows'[r] \in Cipher,
                      rows'[r].value # lastSet[r]
               PROVE  r \in raced /\ r \in BackendRow
    BY <1>1 DEF OnlyRacedUpdatesAreLost, Stored
  <2>1. CASE plan[r] # NoSecret /\ rows'[r] = plan[r]
    BY <2>1 DEF Plan
  <2>2. CASE rows'[r] = rows[r]
    BY <2>2 DEF OnlyRacedUpdatesAreLost, Stored
  <2> QED
    BY <1>2, <2>1, <2>2
<1> QED
  BY <1>3, <1>4, <1>7, <1>8, <1>9

\* A pass that fails leaves the rows as they are and no row locked.
LEMMA PassFailsStep ==
    ASSUME KInv, PassFails
    PROVE  KInv'
<1> USE DEF KInv
<1>1. /\ ppc' = "off" /\ plan' = [r \in Row |-> NoSecret] /\ flushed' = {}
      /\ UNCHANGED <<lo, hi, migrated, rows, wpc, job, token, passLo, passHi,
                     passes, lastSet, raced>>
  BY DEF PassFails, EndPass, serviceVars, writerVars
<1>2. TypeOK'
  BY <1>1 DEF TypeOK
<1>3. Writers' /\ Keylists' /\ Plan' /\ Covered'
  BY <1>1 DEF Writers, Keylists, Plan, Covered, Swept
<1>4. NoSecretStranded' /\ MigrationIsComplete' /\ OnlyRacedUpdatesAreLost'
  BY <1>1 DEF NoSecretStranded, MigrationIsComplete, OnlyRacedUpdatesAreLost,
              Stored, Readable
<1> QED
  BY <1>2, <1>3, <1>4

\* The statements of the pass, in their order.
LEMMA PassStepStep ==
    ASSUME KInv, PassStep
    PROVE  KInv'
<1>1. CASE Scan("backends", BackendRow, "domains")
  <2>1. Swept("domains") = Swept("backends") \cup BackendRow
    BY DEF Swept
  <2> QED
    BY <1>1, <2>1, ScanStep DEF Row
<1>2. CASE Scan("domains", DomainRow, "tsig")
  <2>1. Swept("tsig") = Swept("domains") \cup DomainRow
    BY DEF Swept
  <2> QED
    BY <1>2, <2>1, ScanStep, RotationAssumption DEF Row
<1>3. CASE Scan("tsig", TsigRow, "commit")
  <2>1. Swept("commit") = Swept("tsig") \cup TsigRow
    BY DEF Swept, Row
  <2> QED
    BY <1>3, <2>1, ScanStep, RotationAssumption DEF Row
<1> QED
  BY <1>1, <1>2, <1>3, CommitPassStep, PassFailsStep DEF PassStep

\* A restart with another keylist leaves no call about to commit.
LEMMA CutWritersFacts ==
    ASSUME TypeOK, CutWriters
    PROVE  /\ wpc' \in [Writer -> {"idle", "commit", "done"}]
           /\ \A w \in Writer : wpc'[w] # "commit"
           /\ UNCHANGED <<job, token>>
BY DEF TypeOK, CutWriters

\* A fresh key in front: a pass under way is not under the primary any more.
LEMMA PrependStep ==
    ASSUME KInv, Prepend
    PROVE  KInv'
<1> USE DEF KInv
<1>1. /\ hi < MaxKey /\ hi' = hi + 1 /\ migrated' = FALSE
      /\ CutWriters
      /\ UNCHANGED <<lo, rows, ppc, passLo, passHi, plan, flushed, passes,
                     lastSet, raced>>
  BY DEF Prepend, passVars
<1>2. hi' \in Key /\ lo <= hi' /\ lo \in Nat /\ hi \in Nat /\ passHi \in Nat
  BY <1>1, RotationAssumption DEF TypeOK, Key
<1>3. TypeOK'
  BY <1>1, <1>2, CutWritersFacts DEF TypeOK
<1>4. Writers' /\ Plan' /\ MigrationIsComplete' /\ OnlyRacedUpdatesAreLost'
  BY <1>1, CutWritersFacts DEF Writers, Plan, MigrationIsComplete,
                               OnlyRacedUpdatesAreLost, Stored
<1>5. Keylists'
  BY <1>1, <1>2 DEF Keylists
<1>6. Covered'
  <2>1. CASE ppc = "off"
    BY <1>1, <2>1 DEF Covered, Swept
  <2>2. CASE ppc # "off"
    BY <1>1, <1>2, <2>2 DEF Covered, Keylists
  <2> QED
    BY <2>1, <2>2
<1>7. NoSecretStranded'
  BY <1>1, <1>2 DEF NoSecretStranded, Stored, Readable
<1> QED
  BY <1>3, <1>4, <1>5, <1>6, <1>7

\* The retired keys go: nothing stored and nothing planned needs them.
LEMMA DropRetiredStep ==
    ASSUME KInv, DropRetired
    PROVE  KInv'
<1> USE DEF KInv
<1>1. /\ migrated /\ lo' = hi
      /\ CutWriters
      /\ UNCHANGED <<hi, migrated, rows, ppc, passLo, passHi, plan, flushed,
                     passes, lastSet, raced>>
  BY DEF DropRetired, passVars
<1>2. hi \in Key /\ hi \in Nat
  BY DEF TypeOK, Key
<1>3. TypeOK'
  BY <1>1, <1>2, CutWritersFacts DEF TypeOK
<1>4. /\ Writers' /\ Plan' /\ Covered'
      /\ MigrationIsComplete' /\ OnlyRacedUpdatesAreLost'
  BY <1>1, CutWritersFacts
  DEF Writers, Plan, Covered, Swept, MigrationIsComplete,
      OnlyRacedUpdatesAreLost, Stored
<1>5. Keylists'
  BY <1>1, <1>2 DEF Keylists
<1>6. NoSecretStranded'
  BY <1>1, <1>2 DEF NoSecretStranded, MigrationIsComplete, Stored, Readable
<1> QED
  BY <1>3, <1>4, <1>5, <1>6

\* Every step of the service, the pass and the operator keeps the inductive
\* invariant, so it holds in every reachable state.
LEMMA RotationInvariance == Spec => []KInv
<1>1. KInv /\ [Next]_vars => KInv'
  <2> SUFFICES ASSUME KInv, [Next]_vars PROVE KInv'
    OBVIOUS
  <2>1. CASE UNCHANGED vars
    <3>1. TypeOK' /\ Writers'
      BY <2>1 DEF KInv, TypeOK, Writers, vars, serviceVars, writerVars, passVars
    <3> QED
      BY <2>1, <3>1, RowsKept DEF KInv, vars, serviceVars, passVars
  <2>2. CASE Next
    BY <2>2, PrepareStep, CommitStep, CommitFailsStep, StartPassStep,
       PassStepStep, PrependStep, DropRetiredStep DEF Next
  <2> QED
    BY <2>1, <2>2
<1> QED
  BY <1>1, KInvInit, PTL DEF Spec
-----------------------------------------------------------------------------
\* The keylists, the tables and the pass keep their types.
THEOREM RotationTypeCorrect == Spec => []TypeOK
<1>1. KInv => TypeOK
  BY DEF KInv
<1> QED
  BY <1>1, RotationInvariance, PTL

\* Through any number of rotations, passes and failures the service can read
\* every secret it has stored (Kek.decrypt never meets an InvalidToken).
THEOREM SecretsStayReadable == Spec => []NoSecretStranded
<1>1. KInv => NoSecretStranded
  BY DEF KInv
<1> QED
  BY <1>1, RotationInvariance, PTL

\* When rotate_stored_secrets has completed under the primary, no token of an
\* older key is left, whatever was written while it ran.
THEOREM PassesAreComplete == Spec => []MigrationIsComplete
<1>1. KInv => MigrationIsComplete
  BY DEF KInv
<1> QED
  BY <1>1, RotationInvariance, PTL

\* rotate_stored_secrets puts back an older secret only of a backend whose
\* update committed between the pass's SELECTs of backends and of domains.
THEOREM OtherUpdatesStand == Spec => []OnlyRacedUpdatesAreLost
<1>1. KInv => OnlyRacedUpdatesAreLost
  BY DEF KInv
<1> QED
  BY <1>1, RotationInvariance, PTL
=============================================================================
