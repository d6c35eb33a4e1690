------------------------- MODULE RoutingCacheProofs -------------------------
(***************************************************************************)
(* Proofs about RoutingCache, for any tables, any commands, any number of  *)
(* requests and any pool of at least two connections.                      *)
(***************************************************************************)
EXTENDS RoutingCache, FiniteSetTheorems, TLAPS

\* Commands, where it is expanded, is expanded to its kinds.
USE DEF BackendCommands, DomainCommands, KeyCommands

\* Boot only ever loads; a request past its start carries a command.
Lifecycle ==
    /\ pc[Boot] \notin {"idle", "checked", "committed"}
    /\ \A w \in Writer : pc[w] # "idle" => cmd[w] \in Commands

\* A commit turns tables into tables, and finds or makes a proper row.
LEMMA CommitTypes ==
    ASSUME TypeOK, NEW w \in Writer, cmd[w] \in Commands, NEW b \in Backend
    PROVE  /\ Effect(w, b) \in Tables
           /\ NewRow(w, b) \in Backend \cup Nat
<1> DEFINE c == cmd[w]
<1>0. /\ db \in Tables
      /\ db.tsig \in [KeyName -> Nat]
      /\ db.backend \in [Backend -> Nat]
      /\ db.domain \in [Zone -> DomainRow \cup {NoRow}]
      /\ db = [tsig |-> db.tsig, backend |-> db.backend, domain |-> db.domain]
      /\ version + 1 \in Nat
      /\ row[w] \in Backend \cup Nat
      /\ w \in Proc
  BY DEF TypeOK, Tables, Proc
<1>1. CASE c.kind = "create_backend"
  BY <1>0, <1>1 DEF Effect, CreateBackend, NewRow, Tables
<1>2. CASE c.kind = "update_backend"
  <2>1. c.backend \in Backend
    BY <1>2 DEF Commands
  <2> QED BY <1>0, <1>2, <2>1 DEF Effect, UpdateBackend, NewRow, Tables
<1>3. CASE c.kind = "delete_backend"
  <2>1. c.backend \in Backend
    BY <1>3 DEF Commands
  <2> QED BY <1>0, <1>3, <2>1 DEF Effect, DeleteBackend, NewRow, Tables
<1>4. CASE c.kind = "create_domain"
  <2>1. c.backend \in Backend /\ c.zone \in Zone
    BY <1>4 DEF Commands
  <2> QED BY <1>0, <1>4, <2>1 DEF Effect, CreateDomain, NewRow, Tables,
                                  DomainRow
<1>5. CASE c.kind = "delete_domain"
  <2>1. c.zone \in Zone
    BY <1>5 DEF Commands
  <2> QED BY <1>0, <1>5, <2>1 DEF Effect, DeleteDomain, NewRow, Tables
<1>6. CASE c.kind = "create_tsig_key"
  <2>1. c.key \in KeyName
    BY <1>6 DEF Commands
  <2> QED BY <1>0, <1>6, <2>1 DEF Effect, CreateTsigKey, NewRow, Tables
<1>7. CASE c.kind = "revoke_tsig_key"
  <2>1. c.key \in KeyName
    BY <1>7 DEF Commands
  <2> QED BY <1>0, <1>7, <2>1 DEF Effect, RevokeTsigKey, NewRow, Tables
<1> QED BY <1>1, <1>2, <1>3, <1>4, <1>5, <1>6, <1>7 DEF Commands

\* The row a handler looks up is a backend or the id of a row.
LEMMA RowOfType ==
    ASSUME TypeOK, NEW c \in Commands, ~Rejected(c)
    PROVE  RowOf(c) \in Backend \cup Nat
<1>0. /\ db.tsig \in [KeyName -> Nat]
      /\ db.domain \in [Zone -> DomainRow \cup {NoRow}]
  BY DEF TypeOK, Tables
<1>1. CASE c.kind \in {"update_backend", "delete_backend"}
  BY <1>1 DEF RowOf, Commands
<1>2. CASE c.kind = "delete_domain"
  <2>1. c.zone \in Zone
    BY <1>2 DEF Commands
  <2>2. db.domain[c.zone] \in DomainRow
    BY <1>0, <1>2, <2>1 DEF Rejected
  <2> QED BY <1>2, <2>2 DEF RowOf, DomainRow
<1>3. CASE c.kind = "revoke_tsig_key"
  <2>1. c.key \in KeyName
    BY <1>3 DEF Commands
  <2> QED BY <1>0, <1>3, <2>1 DEF RowOf
<1>4. CASE c.kind \in {"create_backend", "create_domain", "create_tsig_key"}
  BY <1>4 DEF RowOf
<1> QED BY <1>1, <1>2, <1>3, <1>4 DEF Commands

\* Nothing read yet is a proper state of a load.
LEMMA EmptyType == Empty \in Snapshots
  BY DEF Empty, View, Snapshots

\* Every step keeps the types and the life cycle.
LEMMA TypeStep ==
    ASSUME TypeOK, Lifecycle, [Next]_vars
    PROVE  TypeOK' /\ Lifecycle'
<1> USE CacheAssumption DEF Proc
<1>1. ASSUME NEW w \in Writer, NEW c \in Command, Reject(w, c)
      PROVE  TypeOK' /\ Lifecycle'
  <2>1. c \in Commands OBVIOUS
  <2> QED BY <1>1, <2>1 DEF Reject, Ready, Answer, TypeOK, Lifecycle, dbVars,
                            loadVars, cacheVars, envVars
<1>2. ASSUME NEW w \in Writer, NEW c \in Command, Check(w, c)
      PROVE  TypeOK' /\ Lifecycle'
  <2>1. c \in Commands OBVIOUS
  <2>2. RowOf(c) \in Backend \cup Nat
    BY <1>2, <2>1, RowOfType DEF Check
  <2> QED BY <1>2, <2>1, <2>2 DEF Check, Ready, TypeOK, Lifecycle, dbVars,
                                 loadVars, cacheVars, envVars
<1>3. ASSUME NEW w \in Writer, NEW c \in Command, FirstQueryFails(w, c)
      PROVE  TypeOK' /\ Lifecycle'
  <2>1. c \in Commands OBVIOUS
  <2> QED BY <1>3, <2>1 DEF FirstQueryFails, Answer, TypeOK, Lifecycle,
                            dbVars, loadVars, cacheVars
<1>4. ASSUME NEW p \in Proc, NEW b \in Backend, Commit(p, b)
      PROVE  TypeOK' /\ Lifecycle'
  <2>1. p \in Writer /\ cmd[p] \in Commands
    BY <1>4 DEF Commit, Lifecycle
  <2>2. Effect(p, b) \in Tables /\ NewRow(p, b) \in Backend \cup Nat
    BY <2>1, CommitTypes
  <2> QED BY <1>4, <2>1, <2>2 DEF Commit, TypeOK, Lifecycle, loadVars,
                                 cacheVars, envVars
<1>5. ASSUME NEW p \in Proc, CommitFails(p)
      PROVE  TypeOK' /\ Lifecycle'
  BY <1>5 DEF CommitFails, Answer, TypeOK, Lifecycle, dbVars, loadVars,
              cacheVars, envVars
<1>6. ASSUME NEW p \in Proc, Reread(p)
      PROVE  TypeOK' /\ Lifecycle'
  BY <1>6 DEF Reread, Answer, TypeOK, Lifecycle, dbVars, loadVars,
              cacheVars, envVars
<1>7. ASSUME NEW p \in Proc, Acquire(p)
      PROVE  TypeOK' /\ Lifecycle'
  BY <1>7 DEF Acquire, TypeOK, Lifecycle, dbVars, loadVars, cacheVars, envVars
<1>8. ASSUME NEW p \in Proc,
             ReadTsigKeys(p) \/ ReadBackends(p) \/ ReadDomains(p) \/ ReadIds(p)
      PROVE  TypeOK' /\ Lifecycle'
  <2>1. got' \in [Proc -> Snapshots]
    <3>1. /\ got \in [Proc -> Snapshots]
          /\ got[p] \in Snapshots
          /\ db \in Tables
      BY DEF TypeOK
    <3>2. /\ [got[p] EXCEPT !.tsig = db.tsig] \in Snapshots
          /\ [got[p] EXCEPT !.backend = db.backend] \in Snapshots
          /\ [got[p] EXCEPT !.domain = db.domain] \in Snapshots
          /\ [got[p] EXCEPT !.ids = db.tsig] \in Snapshots
      BY <3>1 DEF Snapshots, Tables
    <3> QED BY <1>8, <3>1, <3>2 DEF ReadTsigKeys, ReadBackends, ReadDomains,
                                    ReadIds
  <2> QED BY <1>8, <2>1 DEF ReadTsigKeys, ReadBackends, ReadDomains, ReadIds,
                            TypeOK, Lifecycle, dbVars, cacheVars, envVars
<1>9. ASSUME NEW p \in Proc, Swap(p)
      PROVE  TypeOK' /\ Lifecycle'
  BY <1>9, EmptyType DEF Swap, Answer, TypeOK, Lifecycle, dbVars, envVars
<1>10. ASSUME NEW p \in Proc, GiveUpLoad(p),
              blips' \in Nat, restarts' \in Nat, Loading(p)
       PROVE  TypeOK' /\ Lifecycle'
  BY <1>10, EmptyType DEF GiveUpLoad, Answer, TypeOK, Lifecycle, dbVars,
                          cacheVars, Loading
<1>11. ASSUME NEW p \in Proc, LoadFails(p)
       PROVE  TypeOK' /\ Lifecycle'
  BY <1>10, <1>11 DEF LoadFails, Loading, envVars, TypeOK
<1>12. ASSUME NEW p \in Proc, PoolTimeout(p)
       PROVE  TypeOK' /\ Lifecycle'
  <2>1. CASE pc[p] = "connect" /\ GiveUpLoad(p)
    BY <1>10, <1>12, <2>1 DEF PoolTimeout, Loading, envVars, TypeOK
  <2>2. CASE pc[p] # "connect"
    BY <1>12, <2>2 DEF PoolTimeout, Answer, TypeOK, Lifecycle, dbVars,
                       loadVars, cacheVars, envVars
  <2> QED BY <1>12, <2>1, <2>2 DEF PoolTimeout
<1>13. ASSUME NEW p \in Proc, Blip(p)
       PROVE  TypeOK' /\ Lifecycle'
  <2>0. blips' \in Nat /\ restarts' \in Nat
    BY <1>13 DEF Blip, TypeOK
  <2>1. CASE Loading(p) /\ GiveUpLoad(p)
    BY <1>10, <2>0, <2>1
  <2>2. CASE pc[p] \in {"checked", "committed"}
    <3>1. ~Loading(p)
      BY <2>2 DEF Loading
    <3> QED BY <1>13, <2>0, <2>2, <3>1 DEF Blip, Answer, TypeOK, Lifecycle,
                                  dbVars, loadVars, cacheVars
  <2> QED BY <1>13, <2>1, <2>2 DEF Blip
<1>14. CASE Restart
  BY <1>14, EmptyType DEF Restart, TypeOK, Lifecycle, dbVars
<1>15. CASE UNCHANGED vars
  BY <1>15 DEF vars, TypeOK, Lifecycle
<1> QED BY <1>1, <1>2, <1>3, <1>4, <1>5, <1>6, <1>7, <1>8, <1>9, <1>11,
           <1>12, <1>13, <1>14, <1>15 DEF Next, Step, Refresh
-----------------------------------------------------------------------------
(***************************************************************************)
(* The actions fall into seven classes; two of them gather several.        *)
(***************************************************************************)

\* p moves, or ends, before it has asked for the cache's lock, and commits
\* nothing.  A request that ends after its commit lost its row, or met a
\* starved pool or a database failure.
Quiet(p) ==
    /\ pc[p] \in {"idle", "checked", "committed"}
    /\ pc' \in {[pc EXCEPT ![p] = s] : s \in {"checked", "queued", "done"}}
    /\ pc'[p] = "checked" => pc[p] = "idle"
    /\ pc'[p] = "queued" => pc[p] = "committed"
    /\ pc[p] = "committed" /\ pc'[p] = "done" =>
          ~RowIsThere(p) \/ Exhausted \/ blips' # 0
    /\ \A q \in Proc : q # p \/ pc[p] # "idle" =>
          cmd'[q] = cmd[q] /\ row'[q] = row[q]
    /\ pc'[p] = "checked" =>
          /\ cmd'[p] \in Commands
          /\ ~Rejected(cmd'[p])
          /\ row'[p] = RowOf(cmd'[p])
    /\ blips' = 0 => blips = 0
    /\ UNCHANGED <<dbVars, at, loadVars, cacheVars>>

\* p's load fails.
Abandon(p) ==
    /\ Loading(p)
    /\ GiveUpLoad(p)
    /\ \/ pc[p] = "domains" /\ Torn(p)
       \/ pc[p] = "swap" /\ ~ /\ Buildable(got[p].tsig, got[p].domain)
                              /\ Buildable(got[p].ids, got[p].domain)
       \/ pc[p] = "connect" /\ Exhausted
       \/ blips' # 0
    /\ blips' = 0 => blips = 0

\* Every step is of one of the classes.
LEMMA StepClass ==
    ASSUME TypeOK, Lifecycle, Next
    PROVE  \/ \E p \in Writer : Quiet(p)
           \/ \E p \in Writer, b \in Backend : Commit(p, b)
           \/ \E p \in Proc : Acquire(p)
           \/ \E p \in Proc : \/ ReadTsigKeys(p) \/ ReadBackends(p)
                              \/ ReadDomains(p) \/ ReadIds(p)
           \/ \E p \in Proc : Swap(p)
           \/ \E p \in Proc : Abandon(p)
           \/ Restart
<1> USE CacheAssumption DEF Proc
<1>0. /\ blips \in Nat /\ blips + 1 # 0
      /\ pc \in [Proc -> {"idle", "checked", "committed", "queued", "connect",
                        "backends", "domains", "ids", "swap", "done"}]
      /\ cmd \in [Proc -> Commands \cup {NoCommand}]
      /\ row \in [Proc -> Backend \cup Nat]
  BY DEF TypeOK
<1>1. ASSUME NEW w \in Writer, NEW c \in Command,
             Reject(w, c) \/ FirstQueryFails(w, c)
      PROVE  Quiet(w)
  BY <1>0, <1>1 DEF Reject, FirstQueryFails, Ready, Answer, Quiet, dbVars,
                    loadVars, cacheVars, envVars
<1>2. ASSUME NEW w \in Writer, NEW c \in Command, Check(w, c)
      PROVE  Quiet(w)
  <2>1. c \in Commands OBVIOUS
  <2> QED BY <1>0, <1>2, <2>1 DEF Check, Ready, Quiet, dbVars, loadVars,
                                 cacheVars, envVars
<1>3. ASSUME NEW p \in Proc, CommitFails(p)
      PROVE  p \in Writer /\ Quiet(p)
  BY <1>0, <1>3 DEF CommitFails, Answer, Quiet, Lifecycle, envVars, dbVars,
                    loadVars, cacheVars
<1>4. ASSUME NEW p \in Proc, Reread(p)
      PROVE  p \in Writer /\ Quiet(p)
  BY <1>0, <1>4 DEF Reread, Answer, Quiet, Lifecycle, envVars, dbVars,
                    loadVars, cacheVars
<1>5. ASSUME NEW p \in Proc, PoolTimeout(p)
      PROVE  Abandon(p) \/ (p \in Writer /\ Quiet(p))
  <2>1. CASE pc[p] = "connect"
    BY <1>0, <1>5, <2>1 DEF PoolTimeout, Abandon, Loading, envVars
  <2>2. CASE pc[p] # "connect"
    BY <1>0, <1>5, <2>2 DEF PoolTimeout, Answer, Quiet, Lifecycle, envVars,
                            dbVars, loadVars, cacheVars
  <2> QED BY <2>1, <2>2
<1>6. ASSUME NEW p \in Proc, Blip(p)
      PROVE  Abandon(p) \/ (p \in Writer /\ Quiet(p))
  <2>0. blips' # 0
    BY <1>0, <1>6 DEF Blip
  <2>1. CASE Loading(p)
    <3>1. pc[p] \notin {"checked", "committed"}
      BY <2>1 DEF Loading
    <3> QED BY <1>6, <2>0, <2>1, <3>1 DEF Blip, Abandon
  <2>2. CASE ~Loading(p)
    BY <1>0, <1>6, <2>0, <2>2 DEF Blip, Answer, Quiet, Lifecycle, dbVars,
                                  loadVars, cacheVars
  <2> QED BY <2>1, <2>2
<1>7. ASSUME NEW p \in Proc, LoadFails(p)
      PROVE  Abandon(p)
  BY <1>0, <1>7 DEF LoadFails, Abandon, Loading, envVars
<1>8. ASSUME NEW p \in Proc, NEW b \in Backend, Commit(p, b)
      PROVE  p \in Writer
  BY <1>8 DEF Commit, Lifecycle
<1> QED BY <1>1, <1>2, <1>3, <1>4, <1>5, <1>6, <1>7, <1>8
        DEF Next, Step, Refresh
-----------------------------------------------------------------------------
(***************************************************************************)
(* The parts of the inductive invariant.                                   *)
(***************************************************************************)

\* RoutingCache._lock: one load at a time.
OneLoad == \A p, q \in Proc : Loading(p) /\ Loading(q) => p = q

\* p's load has begun to read.
Reading(p) == pc[p] \in {"backends", "domains", "ids", "swap"}

\* No number is ahead of the last commit.
Stamped ==
    /\ age <= version
    /\ \A p \in Proc : since[p] <= version /\ at[p] <= version

\* A load in progress reads later data than the snapshot's.
Newer == \A p \in Proc : Reading(p) => since[p] >= age

\* What a load that began after the last commit has read is what there is.
ReadSoFar ==
    \A p \in Proc : Reading(p) /\ since[p] = version =>
        /\ got[p].tsig = db.tsig
        /\ pc[p] # "backends" => got[p].backend = db.backend
        /\ pc[p] \in {"ids", "swap"} => got[p].domain = db.domain
        /\ pc[p] = "swap" => got[p].ids = db.tsig

\* The row of the last commit has not been deleted.
LastRowStands ==
    \A w \in Writer : pc[w] = "committed" /\ at[w] = version => RowIsThere(w)

\* Someone is about to load what the last commit left, or has done so.
OnItsWay ==
    \/ \E p \in Proc : pc[p] \in {"queued", "connect"}
    \/ \E p \in Proc : pc[p] = "committed" /\ at[p] = version
    \/ \E p \in Proc : Reading(p) /\ since[p] = version
    \/ snapshot = View(db) /\ age = version

Convergence ==
    blips = 0 /\ Buildable(db.tsig, db.domain) => OnItsWay

\* The lock is taken only when no load is under way.
LEMMA LockStep ==
    ASSUME TypeOK, Lifecycle, OneLoad, [Next]_vars
    PROVE  OneLoad'
<1> USE DEF Proc, Loading
<1>0. /\ pc \in [Proc -> {"idle", "checked", "committed", "queued", "connect",
                        "backends", "domains", "ids", "swap", "done"}]
  BY DEF TypeOK
<1>1. ASSUME NEW p \in Writer, Quiet(p) PROVE OneLoad'
  BY <1>0, <1>1 DEF Quiet, OneLoad
<1>2. ASSUME NEW p \in Writer, NEW b \in Backend, Commit(p, b) PROVE OneLoad'
  BY <1>0, <1>2 DEF Commit, OneLoad
<1>3. ASSUME NEW p \in Proc, Acquire(p) PROVE OneLoad'
  BY <1>0, <1>3 DEF Acquire, OneLoad
<1>4. ASSUME NEW p \in Proc,
             ReadTsigKeys(p) \/ ReadBackends(p) \/ ReadDomains(p) \/ ReadIds(p)
      PROVE  OneLoad'
  BY <1>0, <1>4 DEF ReadTsigKeys, ReadBackends, ReadDomains, ReadIds, OneLoad
<1>5. ASSUME NEW p \in Proc, Swap(p) PROVE OneLoad'
  BY <1>0, <1>5 DEF Swap, Answer, OneLoad
<1>6. ASSUME NEW p \in Proc, Abandon(p) PROVE OneLoad'
  BY <1>0, <1>6 DEF Abandon, GiveUpLoad, Answer, OneLoad
<1>7. CASE Restart
  BY <1>0, <1>7 DEF Restart, OneLoad
<1>8. CASE UNCHANGED vars
  BY <1>8 DEF vars, OneLoad
<1> QED BY <1>1, <1>2, <1>3, <1>4, <1>5, <1>6, <1>7, <1>8, StepClass

\* The numbers only grow, and grow with the commits.
LEMMA StampStep ==
    ASSUME TypeOK, Lifecycle, Stamped, [Next]_vars
    PROVE  Stamped'
<1> USE DEF Proc
<1>0. /\ version \in Nat
      /\ age \in Nat
      /\ since \in [Proc -> Nat]
      /\ at \in [Proc -> Nat]
  BY DEF TypeOK
<1>1. ASSUME NEW p \in Writer, Quiet(p) PROVE Stamped'
  BY <1>0, <1>1 DEF Quiet, Stamped, dbVars, loadVars, cacheVars
<1>2. ASSUME NEW p \in Writer, NEW b \in Backend, Commit(p, b) PROVE Stamped'
  BY <1>0, <1>2 DEF Commit, Stamped, loadVars, cacheVars
<1>3. ASSUME NEW p \in Proc, Acquire(p) PROVE Stamped'
  BY <1>0, <1>3 DEF Acquire, Stamped, dbVars, loadVars, cacheVars
<1>4. ASSUME NEW p \in Proc,
             ReadTsigKeys(p) \/ ReadBackends(p) \/ ReadDomains(p) \/ ReadIds(p)
      PROVE  Stamped'
  BY <1>0, <1>4 DEF ReadTsigKeys, ReadBackends, ReadDomains, ReadIds, Stamped,
                    dbVars, cacheVars
<1>5. ASSUME NEW p \in Proc, Swap(p) PROVE Stamped'
  BY <1>0, <1>5 DEF Swap, Stamped, dbVars
<1>6. ASSUME NEW p \in Proc, Abandon(p) PROVE Stamped'
  BY <1>0, <1>6 DEF Abandon, GiveUpLoad, Stamped, dbVars, cacheVars
<1>7. CASE Restart
  BY <1>0, <1>7 DEF Restart, Stamped, dbVars
<1>8. CASE UNCHANGED vars
  BY <1>8 DEF vars, Stamped
<1> QED BY <1>1, <1>2, <1>3, <1>4, <1>5, <1>6, <1>7, <1>8, StepClass

\* Only the holder of the lock loads, and it began after the last swap.
LEMMA NewerStep ==
    ASSUME TypeOK, Lifecycle, OneLoad, Stamped, Newer, [Next]_vars
    PROVE  Newer'
<1> USE DEF Proc, Reading
<1>0. /\ pc \in [Proc -> {"idle", "checked", "committed", "queued", "connect",
                        "backends", "domains", "ids", "swap", "done"}]
      /\ version \in Nat
      /\ age \in Nat
      /\ since \in [Proc -> Nat]
  BY DEF TypeOK
<1>1. ASSUME NEW p \in Writer, Quiet(p) PROVE Newer'
  BY <1>0, <1>1 DEF Quiet, Newer, loadVars, cacheVars
<1>2. ASSUME NEW p \in Writer, NEW b \in Backend, Commit(p, b) PROVE Newer'
  BY <1>0, <1>2 DEF Commit, Newer, loadVars, cacheVars
<1>3. ASSUME NEW p \in Proc, Acquire(p) PROVE Newer'
  BY <1>0, <1>3 DEF Acquire, Newer, loadVars, cacheVars
<1>4. ASSUME NEW p \in Proc, ReadTsigKeys(p) PROVE Newer'
  BY <1>0, <1>4 DEF ReadTsigKeys, Newer, Stamped, cacheVars
<1>5. ASSUME NEW p \in Proc, ReadBackends(p) \/ ReadDomains(p) \/ ReadIds(p)
      PROVE  Newer'
  BY <1>0, <1>5 DEF ReadBackends, ReadDomains, ReadIds, Newer, cacheVars
<1>6. ASSUME NEW p \in Proc, Swap(p) PROVE Newer'
  <2>1. \A q \in Proc : q # p => ~Reading(q)
    BY <1>6 DEF Swap, OneLoad, Loading
  <2> QED BY <1>0, <1>6, <2>1 DEF Swap, Answer, Newer
<1>7. ASSUME NEW p \in Proc, Abandon(p) PROVE Newer'
  BY <1>0, <1>7 DEF Abandon, GiveUpLoad, Answer, Newer, cacheVars
<1>8. CASE Restart
  BY <1>0, <1>8 DEF Restart, Newer
<1>9. CASE UNCHANGED vars
  BY <1>9 DEF vars, Newer
<1> QED BY <1>1, <1>2, <1>3, <1>4, <1>5, <1>6, <1>7, <1>8, <1>9, StepClass

\* The schema's foreign key survives every commit.
LEMMA ForeignKeyStep ==
    ASSUME TypeOK, Lifecycle, ForeignKeyHolds(db), [Next]_vars
    PROVE  ForeignKeyHolds(db')
<1>1. CASE db' = db
  BY <1>1
<1>2. ASSUME NEW p \in Writer, NEW b \in Backend, Commit(p, b)
      PROVE  ForeignKeyHolds(db')
  <2> DEFINE c == cmd[p]
  <2>0. /\ c \in Commands
        /\ ~Refused(p)
        /\ db' = Effect(p, b)
        /\ version + 1 \in Nat /\ version + 1 # 0
        /\ db = [tsig |-> db.tsig, backend |-> db.backend, domain |-> db.domain]
        /\ db.backend \in [Backend -> Nat]
        /\ db.domain \in [Zone -> DomainRow \cup {NoRow}]
        /\ NoRow \notin DomainRow
    BY <1>2, CacheAssumption DEF Commit, Lifecycle, TypeOK, Tables
  <2>1. CASE c.kind = "create_backend"
    BY <2>0, <2>1 DEF Effect, CreateBackend, ForeignKeyHolds, DomainRow
  <2>2. CASE c.kind = "update_backend"
    BY <2>0, <2>2 DEF Effect, UpdateBackend, ForeignKeyHolds, DomainRow
  <2>3. CASE c.kind = "delete_backend"
    BY <2>0, <2>3 DEF Effect, DeleteBackend, ForeignKeyHolds, Refused,
                      DomainRow
  <2>4. CASE c.kind = "create_domain"
    <3>1. c.backend \in Backend /\ c.zone \in Zone
      BY <2>0, <2>4 DEF Commands
    <3> QED BY <2>0, <2>4, <3>1 DEF Effect, CreateDomain, ForeignKeyHolds,
                                    Refused, DomainRow
  <2>5. CASE c.kind = "delete_domain"
    BY <2>0, <2>5 DEF Effect, DeleteDomain, ForeignKeyHolds, DomainRow
  <2>6. CASE c.kind \in {"create_tsig_key", "revoke_tsig_key"}
    BY <2>0, <2>6 DEF Effect, CreateTsigKey, RevokeTsigKey, ForeignKeyHolds
  <2> QED BY <2>0, <2>1, <2>2, <2>3, <2>4, <2>5, <2>6 DEF Commands
<1>3. CASE UNCHANGED vars
  BY <1>1, <1>3 DEF vars
<1>4. CASE Next
  BY <1>1, <1>2, <1>4, StepClass DEF Quiet, Acquire, ReadTsigKeys,
     ReadBackends, ReadDomains, ReadIds, Swap, Abandon, GiveUpLoad, Restart,
     dbVars
<1> QED BY <1>3, <1>4

\* A load that began after the last commit reads the tables as they are; a
\* commit leaves no such load.
LEMMA ReadStep ==
    ASSUME TypeOK, Lifecycle, Stamped, ReadSoFar, [Next]_vars
    PROVE  ReadSoFar'
<1> USE DEF Proc, Reading
<1>0. /\ pc \in [Proc -> {"idle", "checked", "committed", "queued", "connect",
                        "backends", "domains", "ids", "swap", "done"}]
      /\ version \in Nat
      /\ since \in [Proc -> Nat]
      /\ got \in [Proc -> Snapshots]
  BY DEF TypeOK
<1>1. ASSUME NEW p \in Writer, Quiet(p) PROVE ReadSoFar'
  BY <1>0, <1>1 DEF Quiet, ReadSoFar, dbVars, loadVars
<1>2. ASSUME NEW p \in Writer, NEW b \in Backend, Commit(p, b)
      PROVE  ReadSoFar'
  <2>1. \A q \in Proc : since'[q] # version'
    BY <1>0, <1>2 DEF Commit, Stamped, loadVars
  <2> QED BY <2>1 DEF ReadSoFar
<1>3. ASSUME NEW p \in Proc, Acquire(p) PROVE ReadSoFar'
  BY <1>0, <1>3 DEF Acquire, ReadSoFar, dbVars, loadVars
<1>4. ASSUME NEW p \in Proc,
             ReadTsigKeys(p) \/ ReadBackends(p) \/ ReadDomains(p) \/ ReadIds(p)
      PROVE  ReadSoFar'
  <2>1. UNCHANGED <<db, version>>
    BY <1>4 DEF ReadTsigKeys, ReadBackends, ReadDomains, ReadIds, dbVars
  <2>2. ASSUME NEW q \in Proc, q # p
        PROVE  pc'[q] = pc[q] /\ got'[q] = got[q] /\ since'[q] = since[q]
    BY <1>0, <1>4, <2>2 DEF ReadTsigKeys, ReadBackends, ReadDomains, ReadIds
  <2>3. got[p] \in Snapshots
    BY <1>0
  <2>4. CASE ReadTsigKeys(p)
    <3>1. pc'[p] = "backends" /\ got'[p].tsig = db.tsig
      BY <1>0, <2>3, <2>4 DEF ReadTsigKeys, Snapshots
    <3> QED BY <2>1, <2>2, <3>1 DEF ReadSoFar
  <2>5. CASE ReadBackends(p)
    <3>1. /\ pc'[p] = "domains" /\ pc[p] = "backends"
          /\ since'[p] = since[p]
          /\ got'[p].backend = db.backend /\ got'[p].tsig = got[p].tsig
      BY <1>0, <2>3, <2>5 DEF ReadBackends, Snapshots
    <3> QED BY <2>1, <2>2, <3>1 DEF ReadSoFar
  <2>6. CASE ReadDomains(p)
    <3>1. /\ pc'[p] = "ids" /\ pc[p] = "domains"
          /\ since'[p] = since[p]
          /\ got'[p].backend = got[p].backend /\ got'[p].tsig = got[p].tsig
          /\ got'[p].domain = db.domain
      BY <1>0, <2>3, <2>6 DEF ReadDomains, Snapshots
    <3> QED BY <2>1, <2>2, <3>1 DEF ReadSoFar
  <2>7. CASE ReadIds(p)
    <3>1. /\ pc'[p] = "swap" /\ pc[p] = "ids"
          /\ since'[p] = since[p]
          /\ got'[p].backend = got[p].backend /\ got'[p].tsig = got[p].tsig
          /\ got'[p].domain = got[p].domain /\ got'[p].ids = db.tsig
      BY <1>0, <2>3, <2>7 DEF ReadIds, Snapshots
    <3> QED BY <2>1, <2>2, <3>1 DEF ReadSoFar
  <2> QED BY <1>4, <2>4, <2>5, <2>6, <2>7
<1>5. ASSUME NEW p \in Proc, Swap(p) PROVE ReadSoFar'
  BY <1>0, <1>5 DEF Swap, Answer, ReadSoFar, dbVars
<1>6. ASSUME NEW p \in Proc, Abandon(p) PROVE ReadSoFar'
  BY <1>0, <1>6 DEF Abandon, GiveUpLoad, Answer, ReadSoFar, dbVars
<1>7. CASE Restart
  BY <1>0, <1>7 DEF Restart, ReadSoFar
<1>8. CASE UNCHANGED vars
  BY <1>8 DEF vars, ReadSoFar
<1> QED BY <1>1, <1>2, <1>3, <1>4, <1>5, <1>6, <1>7, <1>8, StepClass

\* The row a commit wrote is there, and only a later commit removes it.
LEMMA RowStep ==
    ASSUME TypeOK, Lifecycle, Stamped, LastRowStands, [Next]_vars
    PROVE  LastRowStands'
<1> USE DEF Proc
<1>0. /\ pc \in [Proc -> {"idle", "checked", "committed", "queued", "connect",
                        "backends", "domains", "ids", "swap", "done"}]
      /\ version \in Nat
      /\ at \in [Proc -> Nat]
      /\ row \in [Proc -> Backend \cup Nat]
  BY DEF TypeOK
<1>1. ASSUME NEW p \in Writer, Quiet(p) PROVE LastRowStands'
  <2>1. \A w \in Writer : pc'[w] = "committed" =>
          pc[w] = "committed" /\ cmd'[w] = cmd[w] /\ row'[w] = row[w]
    BY <1>0, <1>1 DEF Quiet
  <2>2. UNCHANGED <<db, version, at>>
    BY <1>1 DEF Quiet, dbVars
  <2> QED BY <2>1, <2>2 DEF LastRowStands, RowIsThere
<1>2. ASSUME NEW p \in Writer, NEW b \in Backend, Commit(p, b)
      PROVE  LastRowStands'
  <2> DEFINE c == cmd[p]
  <2>0. /\ c \in Commands
        /\ db' = Effect(p, b)
        /\ cmd' = cmd
        /\ row'[p] = NewRow(p, b)
        /\ row[p] \in Backend \cup Nat
        /\ version + 1 \in Nat /\ version + 1 # 0
        /\ db = [tsig |-> db.tsig, backend |-> db.backend, domain |-> db.domain]
        /\ db.tsig \in [KeyName -> Nat]
        /\ db.backend \in [Backend -> Nat]
        /\ db.domain \in [Zone -> DomainRow \cup {NoRow}]
        /\ NoRow \notin DomainRow
    BY <1>0, <1>2, CacheAssumption DEF Commit, Lifecycle, TypeOK, Tables
  <2>1. \A w \in Writer : at'[w] = version' => w = p
    BY <1>0, <1>2 DEF Commit, Stamped
  <2>2. CASE c.kind = "create_backend"
    <3>1. RowIsThere(p)'
      BY <2>0, <2>2 DEF Effect, CreateBackend, NewRow, RowIsThere
    <3> QED BY <2>1, <3>1 DEF LastRowStands
  <2>3. CASE c.kind = "update_backend"
    <3>1. c.backend \in Backend
      BY <2>0, <2>3 DEF Commands
    <3>2. RowIsThere(p)'
      BY <2>0, <2>3, <3>1 DEF Effect, UpdateBackend, NewRow, RowIsThere
    <3> QED BY <2>1, <3>2 DEF LastRowStands
  <2>4. CASE c.kind = "create_domain"
    <3>1. c.backend \in Backend /\ c.zone \in Zone
      BY <2>0, <2>4 DEF Commands
    <3>2. [id |-> version + 1, backend |-> c.backend] # NoRow
      BY <2>0, <3>1 DEF DomainRow
    <3>3. RowIsThere(p)'
      BY <2>0, <2>4, <3>1, <3>2 DEF Effect, CreateDomain, NewRow, RowIsThere
    <3> QED BY <2>1, <3>3 DEF LastRowStands
  <2>5. CASE c.kind = "create_tsig_key"
    <3>1. c.key \in KeyName
      BY <2>0, <2>5 DEF Commands
    <3>2. RowIsThere(p)'
      BY <2>0, <2>5, <3>1 DEF Effect, CreateTsigKey, NewRow, RowIsThere
    <3> QED BY <2>1, <3>2 DEF LastRowStands
  <2>6. CASE c.kind \in {"delete_backend", "delete_domain", "revoke_tsig_key"}
    <3>1. RowIsThere(p)'
      BY <2>0, <2>6 DEF RowIsThere
    <3> QED BY <2>1, <3>1 DEF LastRowStands
  <2> QED BY <2>0, <2>2, <2>3, <2>4, <2>5, <2>6 DEF Commands
<1>3. ASSUME UNCHANGED <<db, version, cmd, row, at>>,
             \A w \in Writer : pc'[w] = "committed" => pc[w] = "committed"
      PROVE  LastRowStands'
  BY <1>3 DEF LastRowStands, RowIsThere
<1>4. ASSUME NEW p \in Proc, Acquire(p) PROVE LastRowStands'
  BY <1>0, <1>3, <1>4 DEF Acquire, dbVars
<1>5. ASSUME NEW p \in Proc,
             ReadTsigKeys(p) \/ ReadBackends(p) \/ ReadDomains(p) \/ ReadIds(p)
      PROVE  LastRowStands'
  BY <1>0, <1>3, <1>5 DEF ReadTsigKeys, ReadBackends, ReadDomains, ReadIds,
                          dbVars
<1>6. ASSUME NEW p \in Proc, Swap(p) PROVE LastRowStands'
  BY <1>0, <1>3, <1>6 DEF Swap, Answer, dbVars
<1>7. ASSUME NEW p \in Proc, Abandon(p) PROVE LastRowStands'
  BY <1>0, <1>3, <1>7 DEF Abandon, GiveUpLoad, Answer, dbVars
<1>8. CASE Restart
  BY <1>0, <1>3, <1>8 DEF Restart, dbVars
<1>9. CASE UNCHANGED vars
  BY <1>3, <1>9 DEF vars
<1> QED BY <1>1, <1>2, <1>4, <1>5, <1>6, <1>7, <1>8, <1>9, StepClass

\* When the pool is exhausted some request waits for the cache's lock: two
\* requests have connections, and at most one of them has the lock.
LEMMA SomeoneIsQueued ==
    ASSUME TypeOK, OneLoad, Exhausted
    PROVE  \E w \in Writer : pc[w] = "queued"
<1> DEFINE H == {w \in Writer : HoldsConnection(w)}
           L == {p \in Proc : LoaderConnected(p)}
<1>1. L = {}
  BY DEF Exhausted
<1>2. Cardinality(L) = 0
  BY <1>1, FS_EmptySet
<1>3. IsFiniteSet(H) /\ Cardinality(H) \in Nat
  BY CacheAssumption, FS_Subset, FS_CardinalityType
<1>4. Cardinality(H) >= 2
  <2>1. ~(Cardinality(H) + Cardinality(L) < PoolSize)
    BY DEF Exhausted, CanConnect, InUse
  <2> HIDE DEF H, L
  <2> QED BY <1>2, <1>3, <2>1, CacheAssumption
<1>5. SUFFICES ASSUME \A w \in Writer : pc[w] # "queued" PROVE FALSE
  OBVIOUS
<1>6. \A w \in H : Loading(w)
  BY <1>5 DEF Exhausted, Loading
<1>7. CASE H = {}
  BY <1>4, <1>7, FS_EmptySet
<1>8. CASE H # {}
  <2>1. PICK w \in H : TRUE
    BY <1>8
  <2>2. H = {w}
    BY <1>6, <2>1 DEF OneLoad, Proc
  <2>3. Cardinality({w}) = 1
    BY FS_Singleton
  <2> HIDE DEF H
  <2> QED BY <1>4, <2>2, <2>3
<1> QED BY <1>7, <1>8

\* Whoever gives up leaves someone else to load what the last commit left.
LEMMA ConvergenceStep ==
    ASSUME TypeOK, Lifecycle, OneLoad, Stamped, Newer, ForeignKeyHolds(db),
           ReadSoFar, LastRowStands, Convergence, [Next]_vars
    PROVE  Convergence'
<1> USE DEF Proc
<1>0. /\ pc \in [Proc -> {"idle", "checked", "committed", "queued", "connect",
                        "backends", "domains", "ids", "swap", "done"}]
      /\ version \in Nat
      /\ since \in [Proc -> Nat]
      /\ at \in [Proc -> Nat]
      /\ got \in [Proc -> Snapshots]
      /\ blips \in Nat
  BY DEF TypeOK
<1>1. SUFFICES ASSUME blips' = 0, Buildable(db.tsig, db.domain)'
               PROVE  OnItsWay'
  BY DEF Convergence
<1>2. ASSUME NEW p \in Writer, Quiet(p) PROVE OnItsWay'
  <2>1. /\ UNCHANGED <<db, version, at, got, since, snapshot, age>>
        /\ blips = 0
        /\ \A q \in Proc : q # p => pc'[q] = pc[q]
        /\ pc'[p] \in {"checked", "queued", "done"}
    BY <1>0, <1>1, <1>2 DEF Quiet, dbVars, loadVars, cacheVars
  <2>2. OnItsWay
    BY <1>1, <2>1 DEF Convergence
  <2>3. CASE pc[p] = "committed" /\ at[p] = version
    <3>1. RowIsThere(p)
      BY <2>3 DEF LastRowStands
    <3>2. CASE pc'[p] = "done"
      <4>1. Exhausted
        BY <1>1, <1>2, <2>3, <3>1, <3>2 DEF Quiet
      <4>2. PICK w \in Writer : pc[w] = "queued"
        BY <4>1, SomeoneIsQueued
      <4> QED BY <2>1, <2>3, <4>2 DEF OnItsWay
    <3>3. CASE pc'[p] # "done"
      BY <1>2, <2>1, <2>3, <3>3 DEF Quiet, OnItsWay
    <3> QED BY <3>2, <3>3
  <2>4. CASE ~(pc[p] = "committed" /\ at[p] = version)
    BY <1>2, <2>1, <2>2, <2>4 DEF Quiet, OnItsWay, Reading, View
  <2> QED BY <2>3, <2>4
<1>3. ASSUME NEW p \in Writer, NEW b \in Backend, Commit(p, b)
      PROVE  OnItsWay'
  BY <1>0, <1>3 DEF Commit, OnItsWay
<1>4. ASSUME NEW p \in Proc, Acquire(p) PROVE OnItsWay'
  BY <1>0, <1>4 DEF Acquire, OnItsWay
<1>5. ASSUME NEW p \in Proc, ReadTsigKeys(p) PROVE OnItsWay'
  BY <1>0, <1>5 DEF ReadTsigKeys, OnItsWay, Reading, dbVars
<1>6. ASSUME NEW p \in Proc, ReadBackends(p) \/ ReadDomains(p) \/ ReadIds(p)
      PROVE  OnItsWay'
  <2>1. /\ UNCHANGED <<db, version, at, since, snapshot, age, blips>>
        /\ \A q \in Proc : q # p => pc'[q] = pc[q]
        /\ pc[p] \in {"backends", "domains", "ids"}
        /\ pc'[p] \in {"domains", "ids", "swap"}
    BY <1>0, <1>6 DEF ReadBackends, ReadDomains, ReadIds, dbVars, cacheVars,
                      envVars
  <2>2. OnItsWay
    BY <1>1, <2>1 DEF Convergence
  <2> QED BY <2>1, <2>2 DEF OnItsWay, Reading, View
<1>7. ASSUME NEW p \in Proc, Swap(p) PROVE OnItsWay'
  <2>1. /\ UNCHANGED <<db, version, at, blips>>
        /\ \A q \in Proc : q # p => pc'[q] = pc[q] /\ since'[q] = since[q]
        /\ pc[p] = "swap"
        /\ snapshot' = got[p] /\ age' = since[p]
    BY <1>0, <1>7 DEF Swap, Answer, dbVars, envVars
  <2>2. OnItsWay
    BY <1>1, <2>1 DEF Convergence
  <2>3. CASE since[p] = version
    <3>1. /\ got[p].tsig = db.tsig /\ got[p].backend = db.backend
          /\ got[p].domain = db.domain /\ got[p].ids = db.tsig
      BY <2>1, <2>3 DEF ReadSoFar, Reading
    <3>2. got[p] = [tsig |-> got[p].tsig, backend |-> got[p].backend,
                    domain |-> got[p].domain, ids |-> got[p].ids]
      BY <1>0 DEF Snapshots
    <3>3. got[p] = View(db)
      BY <3>1, <3>2 DEF View
    <3> QED BY <2>1, <2>3, <3>3 DEF OnItsWay
  <2>4. CASE since[p] # version
    <3>1. \A q \in Proc : Reading(q) => q = p
      BY <2>1 DEF OneLoad, Loading, Reading
    <3>2. age # version
      BY <1>0, <2>1, <2>4 DEF Newer, Stamped, Reading
    <3> QED BY <2>1, <2>2, <2>4, <3>1, <3>2 DEF OnItsWay
  <2> QED BY <2>3, <2>4
<1>8. ASSUME NEW p \in Proc, Abandon(p) PROVE OnItsWay'
  <2>1. /\ UNCHANGED <<db, version, at, snapshot, age>>
        /\ blips = 0
        /\ \A q \in Proc : q # p => pc'[q] = pc[q] /\ since'[q] = since[q]
        /\ Loading(p)
    BY <1>0, <1>1, <1>8 DEF Abandon, GiveUpLoad, Answer, dbVars, cacheVars
  <2>2. OnItsWay
    BY <1>1, <2>1 DEF Convergence
  <2>3. CASE pc[p] = "connect"
    <3>1. Exhausted
      BY <1>1, <1>8, <2>3 DEF Abandon
    <3>2. PICK w \in Writer : pc[w] = "queued"
      BY <3>1, SomeoneIsQueued
    <3> QED BY <2>1, <2>3, <3>2 DEF OnItsWay
  <2>4. CASE Reading(p) /\ since[p] = version
    <3>1. CASE pc[p] = "domains" /\ Torn(p)
      <4>1. got[p].backend = db.backend
        BY <2>4, <3>1 DEF ReadSoFar
      <4> QED BY <3>1, <4>1 DEF Torn, ForeignKeyHolds
    <3>2. CASE pc[p] = "swap"
      <4>1. /\ got[p].tsig = db.tsig /\ got[p].ids = db.tsig
            /\ got[p].domain = db.domain
        BY <2>4, <3>2 DEF ReadSoFar
      <4>2. Buildable(db.tsig, db.domain)
        BY <1>1, <2>1 DEF Buildable
      <4> QED BY <1>1, <1>8, <3>2, <4>1, <4>2 DEF Abandon
    <3> QED BY <1>1, <1>8, <2>4, <3>1, <3>2 DEF Abandon, Reading
  <2>5. CASE Reading(p) /\ since[p] # version
    BY <2>1, <2>2, <2>5 DEF OnItsWay, Reading, View
  <2> QED BY <2>1, <2>3, <2>4, <2>5 DEF Loading, Reading
<1>9. CASE Restart
  BY <1>9 DEF Restart, OnItsWay
<1>10. CASE UNCHANGED vars
  BY <1>1, <1>10 DEF vars, Convergence, OnItsWay, Reading, Buildable, View
<1> QED BY <1>2, <1>3, <1>4, <1>5, <1>6, <1>7, <1>8, <1>9, <1>10, StepClass
-----------------------------------------------------------------------------
(***************************************************************************)
(* What a request withdrew stays withdrawn.                                *)
(***************************************************************************)
KeyGone(w, tsig) ==
    cmd[w].kind = "revoke_tsig_key" => tsig[cmd[w].key] # row[w]
DomainGone(w, domain) ==
    cmd[w].kind = "delete_domain" => \/ domain[cmd[w].zone] = NoRow
                                     \/ domain[cmd[w].zone].id # row[w]
BackendGone(w, backend) ==
    /\ cmd[w].kind = "delete_backend" => backend[cmd[w].backend] = 0
    /\ cmd[w].kind = "update_backend" => \/ backend[cmd[w].backend] = 0
                                         \/ backend[cmd[w].backend] >= at[w]

\* Ids come from the commits' numbers and are never handed out twice.
Ids ==
    /\ \A k \in KeyName : db.tsig[k] <= version
    /\ \A z \in Zone : db.domain[z] # NoRow => db.domain[z].id <= version
    /\ \A b \in Backend : db.backend[b] # 0 => b \in born

\* The row a request is about was there when it looked, and it commits once.
Rows ==
    \A w \in Writer :
        /\ pc[w] \in {"idle", "checked"} => at[w] = 0
        /\ pc[w] = "checked" \/ at[w] # 0 =>
              /\ cmd[w] \in Commands
              /\ cmd[w].kind \in {"revoke_tsig_key", "delete_domain"} =>
                    row[w] \in Nat /\ row[w] <= version
              /\ cmd[w].kind = "revoke_tsig_key" => row[w] # 0
              /\ cmd[w].kind = "delete_backend" => cmd[w].backend \in born

DbWithdrawn ==
    \A w \in Writer : at[w] # 0 =>
        KeyGone(w, db.tsig) /\ DomainGone(w, db.domain)
        /\ BackendGone(w, db.backend)

LoadWithdrawn ==
    \A w \in Writer, p \in Proc :
        (at[w] # 0 /\ Reading(p) /\ since[p] >= at[w]) =>
            /\ KeyGone(w, got[p].tsig)
            /\ pc[p] # "backends" => BackendGone(w, got[p].backend)
            /\ pc[p] \in {"ids", "swap"} => DomainGone(w, got[p].domain)

SnapshotWithdrawn ==
    \A w \in Writer :
        (at[w] # 0 /\ snapshot # NoSnapshot /\ age >= at[w]) =>
            KeyGone(w, snapshot.tsig) /\ DomainGone(w, snapshot.domain)
            /\ BackendGone(w, snapshot.backend)

\* A refresh that succeeded served the request's own commit, and no later
\* load reads older data.
OwnWritesRead ==
    \A w \in Writer :
        /\ pc[w] = "committed" \/ pc[w] = "queued" \/ Loading(w) => at[w] # 0
        /\ Reading(w) => since[w] >= at[w]
        /\ refreshed[w] =>
              /\ at[w] # 0
              /\ snapshot # NoSnapshot => age >= at[w]
              /\ \A p \in Proc : Reading(p) => since[p] >= at[w]

\* After its commit, what a request is about does not change.
LEMMA CommittedIsFixed ==
    ASSUME TypeOK, Lifecycle, Rows, [Next]_vars, NEW w \in Writer
    PROVE  /\ at[w] # 0 => /\ at'[w] = at[w]
                           /\ cmd'[w] = cmd[w]
                           /\ row'[w] = row[w]
           /\ at[w] = 0 /\ at'[w] # 0 => \E b \in Backend : Commit(w, b)
<1> USE DEF Proc
<1>0. /\ at \in [Proc -> Nat]
      /\ row \in [Proc -> Backend \cup Nat]
  BY DEF TypeOK
<1>1. CASE UNCHANGED <<at, cmd, row>>
  BY <1>1
<1>2. ASSUME NEW p \in Writer, Quiet(p)
      PROVE  at' = at /\ (at[w] # 0 => cmd'[w] = cmd[w] /\ row'[w] = row[w])
  BY <1>2 DEF Quiet, Rows
<1>3. ASSUME NEW p \in Writer, NEW b \in Backend, Commit(p, b)
      PROVE  /\ p # w => /\ at'[w] = at[w]
                         /\ cmd'[w] = cmd[w]
                         /\ row'[w] = row[w]
             /\ p = w => at[w] = 0
  BY <1>0, <1>3 DEF Commit, Rows
<1>4. CASE UNCHANGED vars
  BY <1>1, <1>4 DEF vars
<1>5. CASE Next
  BY <1>1, <1>2, <1>3, <1>5, StepClass DEF Acquire, ReadTsigKeys,
     ReadBackends, ReadDomains, ReadIds, Swap, Abandon, GiveUpLoad, Restart
<1> QED BY <1>4, <1>5

\* A commit numbers the rows it adds with its own number.
LEMMA IdStep ==
    ASSUME TypeOK, Lifecycle, Ids, [Next]_vars
    PROVE  Ids'
<1>1. CASE UNCHANGED <<db, version, born>>
  BY <1>1 DEF Ids
<1>2. ASSUME NEW p \in Writer, NEW b \in Backend, Commit(p, b)
      PROVE  Ids'
  <2> DEFINE c == cmd[p]
  <2>0. /\ c \in Commands
        /\ ~Refused(p)
        /\ db' = Effect(p, b)
        /\ version' = version + 1
        /\ born \subseteq born'
        /\ version \in Nat
        /\ db = [tsig |-> db.tsig, backend |-> db.backend, domain |-> db.domain]
        /\ db.tsig \in [KeyName -> Nat]
        /\ db.backend \in [Backend -> Nat]
        /\ db.domain \in [Zone -> DomainRow \cup {NoRow}]
    BY <1>2 DEF Commit, Lifecycle, TypeOK, Tables
  <2>00. \A z \in Zone : db.domain[z] # NoRow => db.domain[z].id \in Nat
    BY <2>0 DEF DomainRow
  <2>1. CASE c.kind = "create_backend"
    <3>1. b \in born'
      BY <1>2, <2>1 DEF Commit
    <3> QED BY <2>0, <2>00, <2>1, <3>1 DEF Effect, CreateBackend, Ids
  <2>2. CASE c.kind = "update_backend"
    BY <2>0, <2>00, <2>2 DEF Effect, UpdateBackend, Ids, Refused
  <2>3. CASE c.kind = "delete_backend"
    BY <2>0, <2>00, <2>3 DEF Effect, DeleteBackend, Ids
  <2>4. CASE c.kind = "create_domain"
    BY <2>0, <2>00, <2>4 DEF Effect, CreateDomain, Ids
  <2>5. CASE c.kind = "delete_domain"
    BY <2>0, <2>00, <2>5 DEF Effect, DeleteDomain, Ids
  <2>6. CASE c.kind = "create_tsig_key"
    BY <2>0, <2>00, <2>6 DEF Effect, CreateTsigKey, Ids
  <2>7. CASE c.kind = "revoke_tsig_key"
    BY <2>0, <2>00, <2>7 DEF Effect, RevokeTsigKey, Ids
  <2> QED BY <2>0, <2>1, <2>2, <2>3, <2>4, <2>5, <2>6, <2>7 DEF Commands
<1>3. CASE UNCHANGED vars
  BY <1>1, <1>3 DEF vars
<1>4. CASE Next
  BY <1>1, <1>2, <1>4, StepClass DEF Quiet, Acquire, ReadTsigKeys,
     ReadBackends, ReadDomains, ReadIds, Swap, Abandon, GiveUpLoad, Restart,
     dbVars
<1> QED BY <1>3, <1>4

\* A handler captures the row it looked up.
LEMMA RowsStep ==
    ASSUME TypeOK, Lifecycle, Ids, Rows, [Next]_vars
    PROVE  Rows'
<1> USE DEF Proc
<1>0. /\ pc \in [Proc -> {"idle", "checked", "committed", "queued", "connect",
                        "backends", "domains", "ids", "swap", "done"}]
      /\ version \in Nat
      /\ at \in [Proc -> Nat]
      /\ row \in [Proc -> Backend \cup Nat]
  BY DEF TypeOK
<1>1. ASSUME UNCHANGED <<version, born, cmd, row, at>>,
             \A w \in Writer : pc'[w] \in {"idle", "checked"} => pc'[w] = pc[w]
      PROVE  Rows'
  BY <1>1 DEF Rows
<1>2. ASSUME NEW p \in Writer, Quiet(p) PROVE Rows'
  <2>1. /\ UNCHANGED <<version, born, at>>
        /\ \A w \in Writer : w # p => /\ pc'[w] = pc[w]
                                      /\ cmd'[w] = cmd[w]
                                      /\ row'[w] = row[w]
        /\ pc[p] # "idle" => cmd'[p] = cmd[p] /\ row'[p] = row[p]
        /\ pc'[p] \in {"checked", "queued", "done"}
    BY <1>0, <1>2 DEF Quiet, dbVars
  <2>2. CASE pc'[p] = "checked"
    <3> DEFINE c == cmd'[p]
    <3>1. /\ c \in Commands /\ ~Rejected(c) /\ row'[p] = RowOf(c)
          /\ pc[p] = "idle"
      BY <1>2, <2>2 DEF Quiet
    <3>2. /\ db.tsig \in [KeyName -> Nat]
          /\ db.backend \in [Backend -> Nat]
          /\ db.domain \in [Zone -> DomainRow \cup {NoRow}]
      BY DEF TypeOK, Tables
    <3>3. CASE c.kind = "revoke_tsig_key"
      <4>1. c.key \in KeyName
        BY <3>1, <3>3 DEF Commands
      <4>2. row'[p] \in Nat /\ row'[p] <= version /\ row'[p] # 0
        BY <3>1, <3>2, <3>3, <4>1 DEF RowOf, Rejected, Ids
      <4> QED BY <2>1, <2>2, <3>1, <3>3, <4>2 DEF Rows
    <3>4. CASE c.kind = "delete_domain"
      <4>1. c.zone \in Zone
        BY <3>1, <3>4 DEF Commands
      <4>2. db.domain[c.zone] # NoRow /\ db.domain[c.zone] \in DomainRow
        BY <3>1, <3>2, <3>4, <4>1 DEF Rejected
      <4>3. row'[p] \in Nat /\ row'[p] <= version
        BY <3>1, <3>4, <4>1, <4>2 DEF RowOf, Ids, DomainRow
      <4> QED BY <2>1, <2>2, <3>1, <3>4, <4>3 DEF Rows
    <3>5. CASE c.kind = "delete_backend"
      <4>1. c.backend \in Backend
        BY <3>1, <3>5 DEF Commands
      <4>2. c.backend \in born
        BY <3>1, <3>5, <4>1 DEF Rejected, Ids
      <4> QED BY <2>1, <2>2, <3>1, <3>5, <4>2 DEF Rows
    <3>6. CASE c.kind \notin {"revoke_tsig_key", "delete_domain",
                              "delete_backend"}
      BY <2>1, <2>2, <3>1, <3>6 DEF Rows
    <3> QED BY <3>3, <3>4, <3>5, <3>6
  <2>3. CASE pc'[p] # "checked"
    <3>1. at[p] # 0 => pc[p] # "idle"
      BY DEF Rows
    <3> QED BY <2>1, <2>3, <3>1 DEF Rows
  <2> QED BY <2>2, <2>3
<1>3. ASSUME NEW p \in Writer, NEW b \in Backend, Commit(p, b)
      PROVE  Rows'
  <2>1. /\ cmd' = cmd /\ version' = version + 1 /\ born \subseteq born'
        /\ \A w \in Writer : w # p => /\ pc'[w] = pc[w] /\ at'[w] = at[w]
                                      /\ row'[w] = row[w]
        /\ pc[p] = "checked" /\ pc'[p] = "committed"
        /\ cmd[p].kind \in {"revoke_tsig_key", "delete_domain",
                            "delete_backend"} => row'[p] = row[p]
    BY <1>0, <1>3 DEF Commit, NewRow
  <2> QED BY <1>0, <2>1 DEF Rows
<1>4. ASSUME NEW p \in Proc, Acquire(p) PROVE Rows'
  BY <1>0, <1>1, <1>4 DEF Acquire, dbVars
<1>5. ASSUME NEW p \in Proc,
             ReadTsigKeys(p) \/ ReadBackends(p) \/ ReadDomains(p) \/ ReadIds(p)
      PROVE  Rows'
  BY <1>0, <1>1, <1>5 DEF ReadTsigKeys, ReadBackends, ReadDomains, ReadIds,
                          dbVars
<1>6. ASSUME NEW p \in Proc, Swap(p) PROVE Rows'
  BY <1>0, <1>1, <1>6 DEF Swap, Answer, dbVars
<1>7. ASSUME NEW p \in Proc, Abandon(p) PROVE Rows'
  BY <1>0, <1>1, <1>7 DEF Abandon, GiveUpLoad, Answer, dbVars
<1>8. CASE Restart
  BY <1>0, <1>1, <1>8 DEF Restart, dbVars
<1>9. CASE UNCHANGED vars
  BY <1>1, <1>9 DEF vars
<1> QED BY <1>2, <1>3, <1>4, <1>5, <1>6, <1>7, <1>8, <1>9, StepClass

\* What a commit may do to a table: keep a row, remove it, or write one with
\* a new number, a backend only if it exists or never did.
LEMMA CommitParts ==
    ASSUME TypeOK, Lifecycle, Rows,
           NEW p \in Writer, NEW b \in Backend, Commit(p, b)
    PROVE  /\ \A k \in KeyName :
                 db'.tsig[k] \in {db.tsig[k], 0, version + 1}
           /\ \A z \in Zone : \/ db'.domain[z] \in {db.domain[z], NoRow}
                              \/ db'.domain[z].id = version + 1
           /\ \A x \in Backend :
                 \/ db'.backend[x] \in {db.backend[x], 0}
                 \/ /\ db'.backend[x] = version + 1
                    /\ db.backend[x] # 0 \/ x \notin born
           /\ (KeyGone(p, db.tsig) /\ DomainGone(p, db.domain)
               /\ BackendGone(p, db.backend))'
<1> DEFINE c == cmd[p]
<1>0. /\ c \in Commands
      /\ ~Refused(p)
      /\ db' = Effect(p, b)
      /\ cmd' = cmd
      /\ row' = [row EXCEPT ![p] = NewRow(p, b)]
      /\ at'[p] = version + 1
      /\ version \in Nat
      /\ p \in Proc
      /\ row \in [Proc -> Backend \cup Nat]
      /\ db = [tsig |-> db.tsig, backend |-> db.backend, domain |-> db.domain]
      /\ db.tsig \in [KeyName -> Nat]
      /\ db.backend \in [Backend -> Nat]
      /\ db.domain \in [Zone -> DomainRow \cup {NoRow}]
      /\ NoRow \notin DomainRow
  BY CacheAssumption DEF Commit, Lifecycle, TypeOK, Tables, Proc
<1>1. CASE c.kind = "create_backend"
  <2>1. b \notin born
    BY <1>1 DEF Commit
  <2> QED BY <1>0, <1>1, <2>1 DEF Effect, CreateBackend, KeyGone, DomainGone,
                                  BackendGone
<1>2. CASE c.kind = "update_backend"
  <2>1. c.backend \in Backend
    BY <1>0, <1>2 DEF Commands
  <2> QED BY <1>0, <1>2, <2>1 DEF Effect, UpdateBackend, Refused, KeyGone,
                                  DomainGone,
                                 BackendGone
<1>3. CASE c.kind = "delete_backend"
  <2>1. c.backend \in Backend
    BY <1>0, <1>3 DEF Commands
  <2> QED BY <1>0, <1>3, <2>1 DEF Effect, DeleteBackend, KeyGone, DomainGone,
                                  BackendGone
<1>4. CASE c.kind = "create_domain"
  BY <1>0, <1>4 DEF Effect, CreateDomain, KeyGone, DomainGone, BackendGone
<1>5. CASE c.kind = "delete_domain"
  <2>1. c.zone \in Zone
    BY <1>0, <1>5 DEF Commands
  <2>2. row'[p] = row[p]
    BY <1>0, <1>5 DEF NewRow
  <2> QED BY <1>0, <1>5, <2>1, <2>2 DEF Effect, DeleteDomain, KeyGone,
                                        DomainGone,
                                        BackendGone
<1>6. CASE c.kind = "create_tsig_key"
  BY <1>0, <1>6 DEF Effect, CreateTsigKey, KeyGone, DomainGone, BackendGone
<1>7. CASE c.kind = "revoke_tsig_key"
  <2>1. c.key \in KeyName
    BY <1>0, <1>7 DEF Commands
  <2>2. row'[p] = row[p] /\ row[p] # 0
    BY <1>0, <1>7 DEF NewRow, Rows, Commit
  <2> QED BY <1>0, <1>7, <2>1, <2>2 DEF Effect, RevokeTsigKey, KeyGone,
                                        DomainGone,
                                        BackendGone
<1> QED BY <1>0, <1>1, <1>2, <1>3, <1>4, <1>5, <1>6, <1>7 DEF Commands

\* No commit brings back what another has withdrawn.
LEMMA DbStep ==
    ASSUME TypeOK, Lifecycle, Stamped, Ids, Rows, DbWithdrawn, [Next]_vars
    PROVE  DbWithdrawn'
<1> USE DEF Proc
<1>1. ASSUME ~ \E p \in Writer, b \in Backend : Commit(p, b)
      PROVE  DbWithdrawn'
  <2>1. db' = db
    BY <1>1, StepClass DEF Quiet, Acquire, ReadTsigKeys, ReadBackends,
       ReadDomains, ReadIds, Swap, Abandon, GiveUpLoad, Restart, dbVars, vars
  <2>2. \A w \in Writer : at'[w] # 0 =>
          at[w] # 0 /\ at'[w] = at[w] /\ cmd'[w] = cmd[w] /\ row'[w] = row[w]
    BY <1>1, CommittedIsFixed
  <2> QED BY <2>1, <2>2 DEF DbWithdrawn, KeyGone, DomainGone, BackendGone
<1>2. ASSUME NEW p \in Writer, NEW b \in Backend, Commit(p, b)
      PROVE  DbWithdrawn'
  <2>0. /\ version \in Nat
        /\ at \in [Proc -> Nat]
        /\ db.tsig \in [KeyName -> Nat]
        /\ db.backend \in [Backend -> Nat]
        /\ db.domain \in [Zone -> DomainRow \cup {NoRow}]
    BY DEF TypeOK, Tables
  <2>1. SUFFICES ASSUME NEW w \in Writer, at'[w] # 0, w # p
                 PROVE  (KeyGone(w, db.tsig) /\ DomainGone(w, db.domain)
                         /\ BackendGone(w, db.backend))'
    BY <1>2, CommitParts DEF DbWithdrawn
  <2>2. at[w] # 0 /\ at'[w] = at[w] /\ cmd'[w] = cmd[w] /\ row'[w] = row[w]
    BY <1>2, <2>0, <2>1, CommittedIsFixed DEF Commit
  <2>3. /\ cmd[w] \in Commands
        /\ at[w] <= version /\ at[w] \in Nat
    BY <2>0, <2>2 DEF Rows, Stamped
  <2>4. KeyGone(w, db.tsig)'
    <3> SUFFICES ASSUME cmd[w].kind = "revoke_tsig_key"
                 PROVE  db'.tsig[cmd[w].key] # row[w]
      BY <2>2 DEF KeyGone
    <3>1. cmd[w].key \in KeyName
      BY <2>3 DEF Commands
    <3>2. row[w] \in Nat /\ row[w] <= version /\ row[w] # 0
      BY <2>2 DEF Rows
    <3>3. db.tsig[cmd[w].key] # row[w]
      BY <2>2 DEF DbWithdrawn, KeyGone
    <3>4. db'.tsig[cmd[w].key] \in {db.tsig[cmd[w].key], 0, version + 1}
      BY <1>2, <3>1, CommitParts
    <3> QED BY <2>0, <3>2, <3>3, <3>4
  <2>5. DomainGone(w, db.domain)'
    <3> SUFFICES ASSUME cmd[w].kind = "delete_domain"
                 PROVE  \/ db'.domain[cmd[w].zone] = NoRow
                        \/ db'.domain[cmd[w].zone].id # row[w]
      BY <2>2 DEF DomainGone
    <3>1. cmd[w].zone \in Zone
      BY <2>3 DEF Commands
    <3>2. row[w] \in Nat /\ row[w] <= version
      BY <2>2 DEF Rows
    <3>3. \/ db.domain[cmd[w].zone] = NoRow
          \/ db.domain[cmd[w].zone].id # row[w]
      BY <2>2 DEF DbWithdrawn, DomainGone
    <3>4. \/ db'.domain[cmd[w].zone] \in {db.domain[cmd[w].zone], NoRow}
          \/ db'.domain[cmd[w].zone].id = version + 1
      BY <1>2, <3>1, CommitParts
    <3> QED BY <2>0, <3>2, <3>3, <3>4
  <2>6. BackendGone(w, db.backend)'
    <3> SUFFICES ASSUME cmd[w].kind \in {"delete_backend", "update_backend"}
                 PROVE  BackendGone(w, db.backend)'
      BY <2>2 DEF BackendGone
    <3> DEFINE x == cmd[w].backend
    <3>1. x \in Backend
      BY <2>3 DEF Commands
    <3>2. BackendGone(w, db.backend)
      BY <2>2 DEF DbWithdrawn
    <3>3. cmd[w].kind = "delete_backend" => x \in born
      BY <2>2 DEF Rows
    <3>4. \/ db'.backend[x] \in {db.backend[x], 0}
          \/ /\ db'.backend[x] = version + 1
             /\ db.backend[x] # 0 \/ x \notin born
      BY <1>2, <3>1, CommitParts
    <3> QED BY <2>0, <2>2, <2>3, <3>2, <3>3, <3>4 DEF BackendGone
  <2> QED BY <2>4, <2>5, <2>6
<1> QED BY <1>1, <1>2

\* A load that began after a commit reads nothing that the commit withdrew.
LEMMA LoadStep ==
    ASSUME TypeOK, Lifecycle, Stamped, Rows, DbWithdrawn, LoadWithdrawn,
           [Next]_vars
    PROVE  LoadWithdrawn'
<1> USE DEF Proc, Reading
<1>0. /\ pc \in [Proc -> {"idle", "checked", "committed", "queued", "connect",
                        "backends", "domains", "ids", "swap", "done"}]
      /\ version \in Nat
      /\ at \in [Proc -> Nat]
      /\ since \in [Proc -> Nat]
      /\ got \in [Proc -> Snapshots]
  BY DEF TypeOK
<1>1. SUFFICES ASSUME NEW w \in Writer, NEW q \in Proc, at'[w] # 0,
                      Reading(q)', since'[q] >= at'[w]
               PROVE  /\ KeyGone(w, got[q].tsig)'
                      /\ pc'[q] # "backends" => BackendGone(w, got[q].backend)'
                      /\ pc'[q] \in {"ids", "swap"} =>
                            DomainGone(w, got[q].domain)'
  BY DEF LoadWithdrawn
<1>2. ASSUME NEW p \in Writer, NEW b \in Backend, Commit(p, b), p = w
      PROVE  FALSE
  BY <1>0, <1>1, <1>2 DEF Commit, Stamped, loadVars
<1>3. at[w] # 0 /\ at'[w] = at[w] /\ cmd'[w] = cmd[w] /\ row'[w] = row[w]
  BY <1>1, <1>2, CommittedIsFixed
<1>4. /\ KeyGone(w, db.tsig) /\ DomainGone(w, db.domain)
      /\ BackendGone(w, db.backend)
  BY <1>3 DEF DbWithdrawn
<1>5. ASSUME pc'[q] = pc[q], got'[q] = got[q], since'[q] = since[q]
      PROVE  /\ KeyGone(w, got[q].tsig)'
             /\ pc'[q] # "backends" => BackendGone(w, got[q].backend)'
             /\ pc'[q] \in {"ids", "swap"} => DomainGone(w, got[q].domain)'
  BY <1>1, <1>3, <1>5 DEF LoadWithdrawn, KeyGone, DomainGone, BackendGone
<1>6. ASSUME NEW p \in Writer, Quiet(p)
      PROVE  pc'[q] = pc[q] /\ got'[q] = got[q] /\ since'[q] = since[q]
  BY <1>0, <1>1, <1>6 DEF Quiet, loadVars
<1>7. ASSUME NEW p \in Writer, NEW b \in Backend, Commit(p, b)
      PROVE  pc'[q] = pc[q] /\ got'[q] = got[q] /\ since'[q] = since[q]
  BY <1>0, <1>1, <1>7 DEF Commit, loadVars
<1>8. ASSUME NEW p \in Proc, Acquire(p)
      PROVE  pc'[q] = pc[q] /\ got'[q] = got[q] /\ since'[q] = since[q]
  BY <1>0, <1>1, <1>8 DEF Acquire, loadVars
<1>9. ASSUME NEW p \in Proc, Swap(p) \/ Abandon(p)
      PROVE  pc'[q] = pc[q] /\ got'[q] = got[q] /\ since'[q] = since[q]
  BY <1>0, <1>1, <1>9 DEF Swap, Abandon, GiveUpLoad, Answer
<1>10. ASSUME NEW p \in Proc, p # q,
              ReadTsigKeys(p) \/ ReadBackends(p) \/ ReadDomains(p) \/ ReadIds(p)
       PROVE  pc'[q] = pc[q] /\ got'[q] = got[q] /\ since'[q] = since[q]
  BY <1>0, <1>10 DEF ReadTsigKeys, ReadBackends, ReadDomains, ReadIds
<1>11. got[q] \in Snapshots
  BY <1>0
<1>12. CASE ReadTsigKeys(q)
  <2>1. pc'[q] = "backends" /\ got'[q].tsig = db.tsig
    BY <1>0, <1>11, <1>12 DEF ReadTsigKeys, Snapshots
  <2> QED BY <1>3, <1>4, <2>1 DEF KeyGone
<1>13. CASE ReadBackends(q)
  <2>1. /\ pc'[q] = "domains" /\ pc[q] = "backends" /\ since'[q] = since[q]
        /\ got'[q].backend = db.backend /\ got'[q].tsig = got[q].tsig
    BY <1>0, <1>11, <1>13 DEF ReadBackends, Snapshots
  <2>2. KeyGone(w, got[q].tsig)
    BY <1>1, <1>3, <2>1 DEF LoadWithdrawn
  <2> QED BY <1>3, <1>4, <2>1, <2>2 DEF KeyGone, BackendGone
<1>14. CASE ReadDomains(q)
  <2>1. /\ pc'[q] = "ids" /\ pc[q] = "domains" /\ since'[q] = since[q]
        /\ got'[q].backend = got[q].backend /\ got'[q].tsig = got[q].tsig
        /\ got'[q].domain = db.domain
    BY <1>0, <1>11, <1>14 DEF ReadDomains, Snapshots
  <2>2. KeyGone(w, got[q].tsig) /\ BackendGone(w, got[q].backend)
    BY <1>1, <1>3, <2>1 DEF LoadWithdrawn
  <2> QED BY <1>3, <1>4, <2>1, <2>2 DEF KeyGone, BackendGone, DomainGone
<1>15. CASE ReadIds(q)
  <2>1. /\ pc'[q] = "swap" /\ pc[q] = "ids" /\ since'[q] = since[q]
        /\ got'[q].backend = got[q].backend /\ got'[q].tsig = got[q].tsig
        /\ got'[q].domain = got[q].domain
    BY <1>0, <1>11, <1>15 DEF ReadIds, Snapshots
  <2>2. /\ KeyGone(w, got[q].tsig) /\ BackendGone(w, got[q].backend)
        /\ DomainGone(w, got[q].domain)
    BY <1>1, <1>3, <2>1 DEF LoadWithdrawn
  <2> QED BY <1>3, <2>1, <2>2 DEF KeyGone, BackendGone, DomainGone
<1>16. CASE Restart
  BY <1>1, <1>16 DEF Restart
<1>17. CASE UNCHANGED vars
  BY <1>5, <1>17 DEF vars
<1> QED BY <1>5, <1>6, <1>7, <1>8, <1>9, <1>10, <1>12, <1>13, <1>14, <1>15,
           <1>16, <1>17, StepClass

\* So does the snapshot it makes.
LEMMA SnapshotStep ==
    ASSUME TypeOK, Lifecycle, Stamped, Rows, LoadWithdrawn, SnapshotWithdrawn,
           [Next]_vars
    PROVE  SnapshotWithdrawn'
<1> USE DEF Proc
<1>0. /\ version \in Nat
      /\ age \in Nat
      /\ at \in [Proc -> Nat]
  BY DEF TypeOK
<1>1. SUFFICES ASSUME NEW w \in Writer, at'[w] # 0, snapshot' # NoSnapshot,
                      age' >= at'[w]
               PROVE  (KeyGone(w, snapshot.tsig)
                       /\ DomainGone(w, snapshot.domain)
                       /\ BackendGone(w, snapshot.backend))'
  BY DEF SnapshotWithdrawn
<1>2. ASSUME NEW p \in Writer, NEW b \in Backend, Commit(p, b), p = w
      PROVE  FALSE
  BY <1>0, <1>1, <1>2 DEF Commit, Stamped, cacheVars
<1>3. at[w] # 0 /\ at'[w] = at[w] /\ cmd'[w] = cmd[w] /\ row'[w] = row[w]
  BY <1>1, <1>2, CommittedIsFixed
<1>4. CASE UNCHANGED <<snapshot, age>>
  BY <1>1, <1>3, <1>4 DEF SnapshotWithdrawn, KeyGone, DomainGone, BackendGone
<1>5. ASSUME NEW p \in Proc, Swap(p)
      PROVE  (KeyGone(w, snapshot.tsig) /\ DomainGone(w, snapshot.domain)
              /\ BackendGone(w, snapshot.backend))'
  <2>1. snapshot' = got[p] /\ age' = since[p] /\ pc[p] = "swap"
    BY <1>5 DEF Swap
  <2>2. /\ KeyGone(w, got[p].tsig) /\ BackendGone(w, got[p].backend)
        /\ DomainGone(w, got[p].domain)
    BY <1>1, <1>3, <2>1 DEF LoadWithdrawn, Reading
  <2> QED BY <1>3, <2>1, <2>2 DEF KeyGone, BackendGone, DomainGone
<1>6. CASE Restart
  BY <1>1, <1>6 DEF Restart
<1>7. CASE UNCHANGED vars
  BY <1>4, <1>7 DEF vars
<1> QED BY <1>4, <1>5, <1>6, <1>7, StepClass DEF Quiet, Commit, Acquire,
     ReadTsigKeys, ReadBackends, ReadDomains, ReadIds, Abandon, GiveUpLoad,
     cacheVars

\* A request's refresh starts after its commit, and every later one too.
LEMMA OwnStep ==
    ASSUME TypeOK, Lifecycle, OneLoad, Stamped, Rows, OwnWritesRead,
           [Next]_vars
    PROVE  OwnWritesRead'
<1> USE DEF Proc, Reading, Loading
<1>0. /\ pc \in [Proc -> {"idle", "checked", "committed", "queued", "connect",
                        "backends", "domains", "ids", "swap", "done"}]
      /\ version \in Nat
      /\ age \in Nat
      /\ at \in [Proc -> Nat]
      /\ since \in [Proc -> Nat]
      /\ refreshed \in [Proc -> BOOLEAN]
  BY DEF TypeOK
<1>1. ASSUME NEW p \in Writer, Quiet(p) PROVE OwnWritesRead'
  <2>1. /\ UNCHANGED <<at, since, snapshot, age, refreshed>>
        /\ \A q \in Proc : q # p => pc'[q] = pc[q]
        /\ pc'[p] \in {"checked", "queued", "done"}
        /\ pc'[p] = "queued" => pc[p] = "committed"
    BY <1>0, <1>1 DEF Quiet, loadVars, cacheVars
  <2> QED BY <2>1 DEF OwnWritesRead
<1>2. ASSUME NEW p \in Writer, NEW b \in Backend, Commit(p, b)
      PROVE  OwnWritesRead'
  <2>1. /\ UNCHANGED <<since, snapshot, age, refreshed>>
        /\ \A q \in Proc : q # p => pc'[q] = pc[q] /\ at'[q] = at[q]
        /\ pc'[p] = "committed" /\ at'[p] = version + 1
        /\ at[p] = 0
    BY <1>0, <1>2 DEF Commit, loadVars, cacheVars, Rows
  <2>2. ~refreshed[p]
    BY <2>1 DEF OwnWritesRead
  <2>3. at'[p] # 0
    BY <1>0, <2>1
  <2>4. \A q \in Proc : Reading(q)' => Reading(q) /\ q # p
    BY <2>1
  <2> QED BY <2>1, <2>2, <2>3, <2>4 DEF OwnWritesRead
<1>3. ASSUME NEW p \in Proc, Acquire(p) PROVE OwnWritesRead'
  BY <1>0, <1>3 DEF Acquire, OwnWritesRead, loadVars, cacheVars
<1>4. ASSUME NEW p \in Proc, ReadTsigKeys(p) PROVE OwnWritesRead'
  <2>1. /\ UNCHANGED <<at, snapshot, age, refreshed>>
        /\ \A q \in Proc : q # p => pc'[q] = pc[q] /\ since'[q] = since[q]
        /\ pc[p] = "connect" /\ pc'[p] = "backends" /\ since'[p] = version
    BY <1>0, <1>4 DEF ReadTsigKeys, cacheVars
  <2>2. \A w \in Writer : version >= at[w]
    BY <1>0 DEF Stamped
  <2> QED BY <2>1, <2>2 DEF OwnWritesRead
<1>5. ASSUME NEW p \in Proc, ReadBackends(p) \/ ReadDomains(p) \/ ReadIds(p)
      PROVE  OwnWritesRead'
  <2>1. /\ UNCHANGED <<at, since, snapshot, age, refreshed>>
        /\ \A q \in Proc : q # p => pc'[q] = pc[q]
        /\ pc[p] \in {"backends", "domains", "ids"}
    BY <1>0, <1>5 DEF ReadBackends, ReadDomains, ReadIds, cacheVars
  <2>2. Reading(p) /\ Loading(p)
    BY <2>1
  <2>3. \A q \in Proc : Reading(q)' => Reading(q)
    BY <2>1, <2>2
  <2>4. \A q \in Proc : pc'[q] \in {"committed", "queued"} \/ Loading(q)' =>
          pc[q] \in {"committed", "queued"} \/ Loading(q)
    BY <1>0, <1>5, <2>1, <2>2
  <2> QED BY <2>1, <2>3, <2>4 DEF OwnWritesRead
<1>6. ASSUME NEW p \in Proc, Swap(p) PROVE OwnWritesRead'
  <2>1. /\ at' = at /\ age' = since[p]
        /\ \A q \in Proc : q # p => pc'[q] = pc[q] /\ since'[q] = since[q]
        /\ pc[p] = "swap" /\ pc'[p] = "done"
        /\ \A q \in Proc : q # p => refreshed'[q] = refreshed[q]
    BY <1>0, <1>6 DEF Swap, Answer
  <2>2. \A q \in Proc : ~Reading(q)'
    BY <2>1 DEF OneLoad
  <2>3. p \in Writer => at[p] # 0 /\ since[p] >= at[p]
    BY <2>1 DEF OwnWritesRead
  <2>4. \A w \in Writer : refreshed[w] => since[p] >= at[w] /\ at[w] # 0
    BY <2>1 DEF OwnWritesRead
  <2>5. \A w \in Writer : pc'[w] \in {"committed", "queued"} \/ Loading(w)' =>
          at[w] # 0
    BY <2>1 DEF OwnWritesRead
  <2> QED BY <2>1, <2>2, <2>3, <2>4, <2>5 DEF OwnWritesRead
<1>7. ASSUME NEW p \in Proc, Abandon(p) PROVE OwnWritesRead'
  <2>1. /\ UNCHANGED <<at, snapshot, age, refreshed>>
        /\ \A q \in Proc : q # p => pc'[q] = pc[q] /\ since'[q] = since[q]
        /\ pc'[p] = "done"
    BY <1>0, <1>7 DEF Abandon, GiveUpLoad, Answer, cacheVars
  <2> QED BY <2>1 DEF OwnWritesRead
<1>8. CASE Restart
  <2>1. /\ UNCHANGED <<at, refreshed>>
        /\ snapshot' = NoSnapshot
        /\ \A q \in Proc : pc'[q] = (IF q = Boot THEN "queued" ELSE
                                      IF pc[q] = "idle" THEN "idle" ELSE "done")
    BY <1>8 DEF Restart
  <2>2. Boot \notin Writer
    BY CacheAssumption
  <2> QED BY <2>1, <2>2 DEF OwnWritesRead
<1>9. CASE UNCHANGED vars
  BY <1>9 DEF vars, OwnWritesRead
<1> QED BY <1>1, <1>2, <1>3, <1>4, <1>5, <1>6, <1>7, <1>8, <1>9, StepClass
-----------------------------------------------------------------------------
(***************************************************************************)
(* The inductive invariant and the theorems.                               *)
(***************************************************************************)
CInv == /\ TypeOK
        /\ Lifecycle
        /\ OneLoad
        /\ Stamped
        /\ Newer
        /\ ForeignKeyHolds(db)
        /\ ReadSoFar
        /\ LastRowStands
        /\ Convergence
        /\ Ids
        /\ Rows
        /\ DbWithdrawn
        /\ LoadWithdrawn
        /\ SnapshotWithdrawn
        /\ OwnWritesRead

\* The invariant holds when the process starts.
LEMMA CInvInit == Init => CInv
<1> SUFFICES ASSUME Init PROVE CInv
  OBVIOUS
<1> USE CacheAssumption DEF Proc
<1>0. /\ \A p \in Proc : /\ pc[p] = (IF p = Boot THEN "queued" ELSE "idle")
                         /\ at[p] = 0 /\ since[p] = 0 /\ ~refreshed[p]
      /\ age = 0 /\ version = 1 /\ snapshot = NoSnapshot
      /\ db = InitialDb
  BY DEF Init
<1>1. TypeOK
  BY EmptyType DEF Init, TypeOK
<1>2. Lifecycle /\ OneLoad /\ Stamped /\ Newer
  BY <1>0 DEF Lifecycle, OneLoad, Loading, Stamped, Newer, Reading
<1>3. ForeignKeyHolds(db)
  BY <1>0
<1>4. ReadSoFar /\ LastRowStands /\ Convergence
  BY <1>0 DEF ReadSoFar, Reading, LastRowStands, Convergence, OnItsWay
<1>5. Ids
  BY DEF Init, Ids
<1>6. Rows /\ DbWithdrawn /\ LoadWithdrawn /\ SnapshotWithdrawn
  BY <1>0 DEF Rows, DbWithdrawn, LoadWithdrawn, SnapshotWithdrawn
<1>7. OwnWritesRead
  BY <1>0 DEF OwnWritesRead, Loading, Reading
<1> QED BY <1>1, <1>2, <1>3, <1>4, <1>5, <1>6, <1>7 DEF CInv

\* Every step keeps the invariant.
LEMMA CInvStep == CInv /\ [Next]_vars => CInv'
<1> SUFFICES ASSUME CInv, [Next]_vars PROVE CInv'
  OBVIOUS
<1>1. /\ TypeOK /\ Lifecycle /\ OneLoad /\ Stamped /\ Newer
      /\ ForeignKeyHolds(db) /\ ReadSoFar /\ LastRowStands /\ Convergence
      /\ Ids /\ Rows /\ DbWithdrawn /\ LoadWithdrawn /\ SnapshotWithdrawn
      /\ OwnWritesRead
  BY DEF CInv
<1>2. TypeOK' /\ Lifecycle'
  BY <1>1, TypeStep
<1>3. OneLoad' /\ Stamped' /\ Newer' /\ ForeignKeyHolds(db')
  BY <1>1, LockStep, StampStep, NewerStep, ForeignKeyStep
<1>4. ReadSoFar' /\ LastRowStands' /\ Convergence'
  BY <1>1, ReadStep, RowStep, ConvergenceStep
<1>5. Ids' /\ Rows' /\ DbWithdrawn'
  BY <1>1, IdStep, RowsStep, DbStep
<1>6. LoadWithdrawn' /\ SnapshotWithdrawn' /\ OwnWritesRead'
  BY <1>1, LoadStep, SnapshotStep, OwnStep
<1> QED BY <1>2, <1>3, <1>4, <1>5, <1>6 DEF CInv, ForeignKeyHolds

\* The invariant holds throughout.
LEMMA CacheInvariance == Spec => []CInv
  BY CInvInit, CInvStep, PTL DEF Spec

\* Type correctness of the cache, the tables and the requests.
THEOREM CacheTypeCorrect == Spec => []TypeOK
<1>1. CInv => TypeOK
  BY DEF CInv
<1> QED BY <1>1, CacheInvariance, PTL

\* With no database failure the cache converges once all requests are
\* answered, for any pool of at least two connections (refresh_routing_cache
\* after every commit, RoutingCache.refresh under its lock).
THEOREM CacheConverges == Spec => []Converged
<1>1. CInv => Converged
  BY DEF CInv, Converged, Convergence, OnItsWay, Reading
<1> QED BY <1>1, CacheInvariance, PTL

\* Swaps happen in the order of the reads (RoutingCache.refresh).
THEOREM SwapsAreOrdered == Spec => SnapshotNeverRegresses
<1>1. CInv /\ [Next]_vars =>
        [snapshot # NoSnapshot /\ snapshot' # NoSnapshot => age' >= age]_vars
  <2> SUFFICES ASSUME CInv, Next, snapshot' # NoSnapshot
               PROVE  age' >= age
    OBVIOUS
  <2>0. TypeOK /\ Lifecycle /\ Newer /\ age \in Nat
    BY DEF CInv, TypeOK
  <2>1. CASE age' = age
    BY <2>0, <2>1
  <2>2. ASSUME NEW p \in Proc, Swap(p) PROVE age' >= age
    BY <2>0, <2>2 DEF Swap, Newer, Reading
  <2>3. CASE Restart
    BY <2>3 DEF Restart
  <2> QED BY <2>0, <2>1, <2>2, <2>3, StepClass DEF Quiet, Commit, Acquire,
        ReadTsigKeys, ReadBackends, ReadDomains, ReadIds, Abandon, GiveUpLoad,
        cacheVars
<1> QED BY <1>1, CacheInvariance, PTL DEF Spec, SnapshotNeverRegresses

\* A key, domain, backend or config that a request withdrew is not served
\* again after its refresh (the API's 204 followed by RoutingCache.keyring
\* and RoutingCache.match).
THEOREM WithdrawalsHold == Spec => []WithdrawnIsNotServed
<1>1. CInv => WithdrawnIsNotServed
  <2> SUFFICES ASSUME CInv, NEW w \in Writer, refreshed[w],
                      snapshot # NoSnapshot
               PROVE  KeyGone(w, snapshot.tsig)
                      /\ DomainGone(w, snapshot.domain)
                      /\ BackendGone(w, snapshot.backend)
    BY DEF WithdrawnIsNotServed, KeyGone, DomainGone, BackendGone
  <2>1. at[w] # 0 /\ age >= at[w]
    BY DEF CInv, OwnWritesRead
  <2> QED BY <2>1 DEF CInv, SnapshotWithdrawn
<1> QED BY <1>1, CacheInvariance, PTL
=============================================================================
