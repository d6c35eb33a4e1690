---------------------------- MODULE RoutingCache ----------------------------
(***************************************************************************)
(* The RoutingCache (cache.py) between the database and the DNS plane, and *)
(* the management-API handlers that write the tables it is built from and  *)
(* then refresh it: routes_backends.py, routes_domains.py, routes_tsig.py, *)
(* deps.refresh_routing_cache, main._safe_initial_refresh.                 *)
(*                                                                         *)
(* Every process (an API request, or Boot for the load at startup) moves   *)
(*                                                                         *)
(*   idle --> checked --> committed --> queued --> connect --> backends    *)
(*                                           --> domains --> ids --> swap  *)
(*                                                                         *)
(* to done, one step per await.  From connect to swap it is inside         *)
(* RoutingCache.refresh, holding the cache's lock; its four SELECTs run at *)
(* READ COMMITTED, so each sees the database of its own moment.            *)
(***************************************************************************)
EXTENDS Naturals, FiniteSets

CONSTANTS Writer,       \* API requests
          Boot,         \* the startup load
          KeyName,      \* TsigKey.name
          Backend,      \* Backend.id: a sequence, an id is never reused
          Zone,         \* Domain.zone
          Unparsable,   \* names and zones dns.name.from_text refuses
          Command,      \* the writes a client may ask for
          InitialDb,    \* the tables when the process starts
          PoolSize,     \* connections of the SQLAlchemy pool
          MaxBlips,     \* bound: database failures
          MaxRestarts,  \* bound: process restarts
          NoRow, NoCommand, NoSnapshot

\* Handlers that query before they write, and handlers that re-read the
\* committed row (session.refresh).
Reads == {"update_backend", "delete_backend", "create_domain",
          "delete_domain", "revoke_tsig_key"}
Rereads == {"create_backend", "update_backend", "create_domain",
            "create_tsig_key"}

DomainRow == [id : Nat, backend : Backend]

\* A row of TsigKey is its id, a row of Backend the stamp of its config;
\* 0 is no row.
Tables == [tsig : [KeyName -> Nat],
           backend : [Backend -> Nat],
           domain : [Zone -> DomainRow \cup {NoRow}]]

\* What the mutating routes are asked for: the body or the path's id.
BackendCommands ==
    [kind : {"create_backend"}]
    \cup [kind : {"update_backend", "delete_backend"}, backend : Backend]

DomainCommands ==
    [kind : {"create_domain"}, zone : Zone, backend : Backend]
    \cup [kind : {"delete_domain"}, zone : Zone]

KeyCommands == [kind : {"create_tsig_key", "revoke_tsig_key"}, key : KeyName]

Commands == BackendCommands \cup DomainCommands \cup KeyCommands

\* Domain.backend_id is a foreign key.
ForeignKeyHolds(d) ==
    \A z \in Zone : d.domain[z] # NoRow => d.backend[d.domain[z].backend] # 0

ASSUME CacheAssumption ==
    /\ IsFiniteSet(Writer)
    /\ Boot \notin Writer
    /\ Command \subseteq Commands
    /\ InitialDb \in Tables
    /\ ForeignKeyHolds(InitialDb)
    /\ \A k \in KeyName : InitialDb.tsig[k] <= 1
    /\ \A z \in Zone : InitialDb.domain[z] # NoRow =>
                        InitialDb.domain[z].id <= 1
    /\ PoolSize \in Nat
    /\ PoolSize >= 2
    /\ MaxBlips \in Nat
    /\ MaxRestarts \in Nat
    /\ NoRow \notin DomainRow
    /\ NoCommand \notin Commands

Proc == Writer \cup {Boot}

VARIABLES db,        \* the committed tables
          version,   \* number of the last commit; fresh ids come from it
          born,      \* backend ids handed out so far
          pc,
          cmd,       \* the write each request carries
          row,       \* the row a handler looked up or created
          at,        \* the version a request's commit made, 0 before
          got,       \* what a load has read so far
          since,     \* the version a load started to read at
          snapshot,  \* RoutingCache._snapshot
          age,       \* history: the since of the snapshot's load
          refreshed, \* history: the process's own refresh succeeded
          answer, blips, restarts

dbVars == <<db, version, born>>
loadVars == <<got, since>>
cacheVars == <<snapshot, age, refreshed>>
envVars == <<blips, restarts>>
vars == <<db, version, born, pc, cmd, row, at, got, since, snapshot, age,
          refreshed, answer, blips, restarts>>

\* What a load of d alone, with no commit in between, makes the snapshot.
View(d) == [tsig |-> d.tsig, backend |-> d.backend, domain |-> d.domain,
            ids |-> d.tsig]

Snapshots == [tsig : [KeyName -> Nat],
              backend : [Backend -> Nat],
              domain : [Zone -> DomainRow \cup {NoRow}],
              ids : [KeyName -> Nat]]

Empty == View([tsig |-> [k \in KeyName |-> 0],
               backend |-> [b \in Backend |-> 0],
               domain |-> [z \in Zone |-> NoRow]])
-----------------------------------------------------------------------------
TypeOK ==
    /\ db \in Tables
    /\ version \in Nat
    /\ born \subseteq Backend
    /\ pc \in [Proc -> {"idle", "checked", "committed", "queued", "connect",
                        "backends", "domains", "ids", "swap", "done"}]
    /\ cmd \in [Proc -> Commands \cup {NoCommand}]
    /\ row \in [Proc -> Backend \cup Nat]
    /\ at \in [Proc -> Nat]
    /\ got \in [Proc -> Snapshots]
    /\ since \in [Proc -> Nat]
    /\ snapshot \in Snapshots \cup {NoSnapshot}
    /\ age \in Nat
    /\ refreshed \in [Proc -> BOOLEAN]
    /\ answer \in [Proc -> {"none", "2xx", "4xx", "500", "lost"}]
    /\ blips \in Nat
    /\ restarts \in Nat

Init ==
    /\ db = InitialDb
    /\ version = 1
    /\ born = {b \in Backend : InitialDb.backend[b] # 0}
    /\ pc = [p \in Proc |-> IF p = Boot THEN "queued" ELSE "idle"]
    /\ cmd = [p \in Proc |-> NoCommand]
    /\ row = [p \in Proc |-> 0]
    /\ at = [p \in Proc |-> 0]
    /\ got = [p \in Proc |-> Empty]
    /\ since = [p \in Proc |-> 0]
    /\ snapshot = NoSnapshot
    /\ age = 0
    /\ refreshed = [p \in Proc |-> FALSE]
    /\ answer = [p \in Proc |-> "none"]
    /\ blips = 0
    /\ restarts = 0
-----------------------------------------------------------------------------
(***************************************************************************)
(* The connection pool.  A session holds a connection from its first       *)
(* statement to its commit, and one from session.refresh to the end of the *)
(* request: a create or an update keeps it while it waits for the cache.   *)
(***************************************************************************)
Loading(p) == pc[p] \in {"connect", "backends", "domains", "ids", "swap"}

HoldsConnection(w) ==
    \/ pc[w] = "checked" /\ cmd[w].kind \in Reads
    \/ (pc[w] = "queued" \/ Loading(w)) /\ cmd[w].kind \in Rereads

LoaderConnected(p) == pc[p] \in {"backends", "domains", "ids"}

InUse == Cardinality({w \in Writer : HoldsConnection(w)})
         + Cardinality({p \in Proc : LoaderConnected(p)})

CanConnect == InUse < PoolSize

\* The pool is empty and everyone who has a connection waits for the cache,
\* whose lock holder waits for a connection: no one gives way before the
\* pool's timeout.  (A query that is answered ends well within it.)
Exhausted ==
    /\ ~CanConnect
    /\ \A w \in Writer : HoldsConnection(w) => pc[w] \in {"queued", "connect"}
    /\ \A p \in Proc : ~LoaderConnected(p)
-----------------------------------------------------------------------------
Answer(p, a) ==
    /\ pc' = [pc EXCEPT ![p] = "done"]
    /\ answer' = [answer EXCEPT ![p] = a]

\* The early returns: 404 for a row that is not there, 422 for a domain
\* without its backend, 409 for a backend some domain refers to.
Rejected(c) ==
    CASE c.kind = "update_backend" -> db.backend[c.backend] = 0
      [] c.kind = "delete_backend" ->
            \/ db.backend[c.backend] = 0
            \/ \E z \in Zone : /\ db.domain[z] # NoRow
                               /\ db.domain[z].backend = c.backend
      [] c.kind = "create_domain" -> db.backend[c.backend] = 0
      [] c.kind = "delete_domain" -> db.domain[c.zone] = NoRow
      [] c.kind = "revoke_tsig_key" -> db.tsig[c.key] = 0
      [] OTHER -> FALSE

Ready(w, c) ==
    /\ pc[w] = "idle"
    /\ pc[Boot] = "done"
    /\ c.kind \in Reads => CanConnect

Reject(w, c) ==
    /\ Ready(w, c)
    /\ Rejected(c)
    /\ Answer(w, "4xx")
    /\ cmd' = [cmd EXCEPT ![w] = c]
    /\ UNCHANGED <<dbVars, row, at, loadVars, cacheVars, envVars>>

\* The primary key the handler looked up, 0 where it has none yet.
RowOf(c) ==
    CASE c.kind \in {"update_backend", "delete_backend"} -> c.backend
      [] c.kind = "delete_domain" -> db.domain[c.zone].id
      [] c.kind = "revoke_tsig_key" -> db.tsig[c.key]
      [] OTHER -> 0

\* A handler up to `await session.commit()'.
Check(w, c) ==
    /\ Ready(w, c)
    /\ ~Rejected(c)
    /\ pc' = [pc EXCEPT ![w] = "checked"]
    /\ cmd' = [cmd EXCEPT ![w] = c]
    /\ row' = [row EXCEPT ![w] = RowOf(c)]
    /\ UNCHANGED <<dbVars, at, loadVars, cacheVars, answer, envVars>>
-----------------------------------------------------------------------------
\* What makes a commit fail: a constraint of the schema, or (a stale UPDATE)
\* a row that has gone since it was looked up.
Refused(w) ==
    LET c == cmd[w] IN
    \/ c.kind = "update_backend" /\ db.backend[c.backend] = 0
    \/ c.kind = "delete_backend"
       /\ \E z \in Zone : /\ db.domain[z] # NoRow
                          /\ db.domain[z].backend = c.backend
    \/ c.kind = "create_domain"
       /\ (db.domain[c.zone] # NoRow \/ db.backend[c.backend] = 0)
    \/ c.kind = "create_tsig_key" /\ db.tsig[c.key] # 0

\* Backend.name is unique: any other row may have the name asked for.
NameTaken(w) ==
    /\ cmd[w].kind \in {"create_backend", "update_backend"}
    /\ \E b \in Backend : db.backend[b] # 0 /\ b # row[w]

\* A slip: a new domain takes its own id for that of its backend.
MisplacedKey(w, b) ==
    IF cmd[w].kind = "create_domain"
    THEN [db EXCEPT !.domain[cmd[w].zone] = [id |-> version + 1,
                                             backend |-> version + 1]]
    ELSE db

\* What each handler's commit makes of the tables.  A delete whose row is
\* gone matches nothing and succeeds.
CreateBackend(b) == [db EXCEPT !.backend[b] = version + 1]
UpdateBackend(c) == [db EXCEPT !.backend[c.backend] = version + 1]
DeleteBackend(c) == [db EXCEPT !.backend[c.backend] = 0]
CreateDomain(c) == [db EXCEPT !.domain[c.zone] = [id |-> version + 1,
                                                  backend |-> c.backend]]
DeleteDomain(c, id) == IF db.domain[c.zone] # NoRow /\ db.domain[c.zone].id = id
                         THEN [db EXCEPT !.domain[c.zone] = NoRow] ELSE db
CreateTsigKey(c) == [db EXCEPT !.tsig[c.key] = version + 1]
RevokeTsigKey(c, id) == IF db.tsig[c.key] = id
                          THEN [db EXCEPT !.tsig[c.key] = 0] ELSE db

Effect(w, b) ==
    LET c == cmd[w] IN
    CASE c.kind = "create_backend" -> CreateBackend(b)
      [] c.kind = "update_backend" -> UpdateBackend(c)
      [] c.kind = "delete_backend" -> DeleteBackend(c)
      [] c.kind = "create_domain" -> CreateDomain(c)
      [] c.kind = "delete_domain" -> DeleteDomain(c, row[w])
      [] c.kind = "create_tsig_key" -> CreateTsigKey(c)
      [] c.kind = "revoke_tsig_key" -> RevokeTsigKey(c, row[w])

\* The new row's id: the sequence's next backend, or the commit's own stamp.
NewRow(w, b) ==
    CASE cmd[w].kind = "create_backend" -> b
      [] cmd[w].kind \in {"create_domain", "create_tsig_key"} -> version + 1
      [] OTHER -> row[w]

Commit(w, b) ==
    /\ pc[w] = "checked"
    /\ cmd[w].kind \in Reads \/ CanConnect
    /\ ~Refused(w)
    /\ cmd[w].kind = "create_backend" => b \notin born
    /\ db' = Effect(w, b)
    /\ version' = version + 1
    /\ born' = IF cmd[w].kind = "create_backend" THEN born \cup {b} ELSE born
    /\ row' = [row EXCEPT ![w] = NewRow(w, b)]
    /\ at' = [at EXCEPT ![w] = version + 1]
    /\ pc' = [pc EXCEPT ![w] = "committed"]
    /\ UNCHANGED <<cmd, loadVars, cacheVars, answer, envVars>>

\* An IntegrityError is a 409 except in delete_backend, which does not catch
\* it; the StaleDataError of a lost UPDATE is caught nowhere.
CommitFails(w) ==
    /\ pc[w] = "checked"
    /\ cmd[w].kind \in Reads \/ CanConnect
    /\ \/ /\ \/ NameTaken(w)
             \/ Refused(w) /\ cmd[w].kind \in {"create_domain",
                                               "create_tsig_key"}
          /\ Answer(w, "4xx")
       \/ /\ Refused(w) /\ cmd[w].kind \in {"update_backend",
                                            "delete_backend"}
          /\ Answer(w, "500")
    /\ UNCHANGED <<dbVars, cmd, row, at, loadVars, cacheVars, envVars>>

RowIsThere(w) ==
    LET c == cmd[w] IN
    CASE c.kind = "create_backend" -> db.backend[row[w]] # 0
      [] c.kind = "update_backend" -> db.backend[c.backend] # 0
      [] c.kind = "create_domain" -> /\ db.domain[c.zone] # NoRow
                                     /\ db.domain[c.zone].id = row[w]
      [] c.kind = "create_tsig_key" -> db.tsig[c.key] = row[w]
      [] OTHER -> TRUE

\* session.refresh raises when the row was deleted meanwhile: the request
\* ends in a 500 and never reaches refresh_routing_cache.
Reread(w) ==
    /\ pc[w] = "committed"
    /\ cmd[w].kind \in Rereads => CanConnect
    /\ \/ /\ RowIsThere(w)
          /\ pc' = [pc EXCEPT ![w] = "queued"]
          /\ UNCHANGED answer
       \/ /\ ~RowIsThere(w)
          /\ Answer(w, "500")
    /\ UNCHANGED <<dbVars, cmd, row, at, loadVars, cacheVars, envVars>>
-----------------------------------------------------------------------------
\* A refresh that is skipped when one is under way, and one that does not
\* take the lock.
CoalescedAcquire(p) ==
    /\ pc[p] = "queued"
    /\ \/ /\ \A q \in Proc : ~Loading(q)
          /\ pc' = [pc EXCEPT ![p] = "connect"]
          /\ UNCHANGED answer
       \/ /\ \E q \in Proc : Loading(q)
          /\ Answer(p, "2xx")
    /\ UNCHANGED <<dbVars, cmd, row, at, loadVars, cacheVars, envVars>>
UnlockedAcquire(p) ==
    /\ pc[p] = "queued"
    /\ pc' = [pc EXCEPT ![p] = "connect"]
    /\ UNCHANGED <<dbVars, cmd, row, at, loadVars, cacheVars, answer, envVars>>

\* `async with self._lock'.  (asyncio grants it in order of arrival; here
\* any waiter may be next.)
Acquire(p) ==
    /\ pc[p] = "queued"
    /\ \A q \in Proc : ~Loading(q)
    /\ pc' = [pc EXCEPT ![p] = "connect"]
    /\ UNCHANGED <<dbVars, cmd, row, at, loadVars, cacheVars, answer, envVars>>

ReadTsigKeys(p) ==
    /\ pc[p] = "connect"
    /\ CanConnect
    /\ got' = [got EXCEPT ![p] = [@ EXCEPT !.tsig = db.tsig]]
    /\ since' = [since EXCEPT ![p] = version]
    /\ pc' = [pc EXCEPT ![p] = "backends"]
    /\ UNCHANGED <<dbVars, cmd, row, at, cacheVars, answer, envVars>>

ReadBackends(p) ==
    /\ pc[p] = "backends"
    /\ got' = [got EXCEPT ![p] = [@ EXCEPT !.backend = db.backend]]
    /\ pc' = [pc EXCEPT ![p] = "domains"]
    /\ UNCHANGED <<dbVars, cmd, row, at, since, cacheVars, answer, envVars>>

\* backend_by_id[row.backend_id]: a domain whose backend the earlier SELECT
\* did not see is a KeyError.
Torn(p) == ~ForeignKeyHolds([tsig |-> got[p].tsig, domain |-> db.domain,
                             backend |-> got[p].backend])

ReadDomains(p) ==
    /\ pc[p] = "domains"
    /\ ~Torn(p)
    /\ got' = [got EXCEPT ![p] = [@ EXCEPT !.domain = db.domain]]
    /\ pc' = [pc EXCEPT ![p] = "ids"]
    /\ UNCHANGED <<dbVars, cmd, row, at, since, cacheVars, answer, envVars>>

ReadIds(p) ==
    /\ pc[p] = "ids"
    /\ got' = [got EXCEPT ![p] = [@ EXCEPT !.ids = db.tsig]]
    /\ pc' = [pc EXCEPT ![p] = "swap"]
    /\ UNCHANGED <<dbVars, cmd, row, at, since, cacheVars, answer, envVars>>

\* load_tsig_key_ids, build_keyring and build_data_plane parse every name;
\* the API takes any text, so one row can make every load fail.
Buildable(tsig, domain) ==
    /\ \A k \in KeyName \cap Unparsable : tsig[k] = 0
    /\ \A z \in Zone \cap Unparsable : domain[z] = NoRow

Swap(p) ==
    /\ pc[p] = "swap"
    /\ Buildable(got[p].tsig, got[p].domain)
    /\ Buildable(got[p].ids, got[p].domain)
    /\ snapshot' = got[p]
    /\ age' = since[p]
    /\ refreshed' = [refreshed EXCEPT ![p] = TRUE]
    /\ got' = [got EXCEPT ![p] = Empty]
    /\ since' = [since EXCEPT ![p] = 0]
    /\ Answer(p, "2xx")
    /\ UNCHANGED <<dbVars, cmd, row, at, envVars>>

\* refresh raises: the lock is released, the last-good snapshot is kept, and
\* refresh_routing_cache (or _safe_initial_refresh) logs and carries on.
GiveUpLoad(p) ==
    /\ got' = [got EXCEPT ![p] = Empty]
    /\ since' = [since EXCEPT ![p] = 0]
    /\ Answer(p, "2xx")
    /\ UNCHANGED <<dbVars, cmd, row, at, cacheVars>>

LoadFails(p) ==
    /\ \/ pc[p] = "domains" /\ Torn(p)
       \/ pc[p] = "swap" /\ ~ /\ Buildable(got[p].tsig, got[p].domain)
                              /\ Buildable(got[p].ids, got[p].domain)
    /\ GiveUpLoad(p)
    /\ UNCHANGED envVars

NoTimeout(p) == FALSE

\* QueuePool's timeout, raised wherever a connection is waited for.
PoolTimeout(p) ==
    /\ Exhausted
    /\ \/ pc[p] = "connect" /\ GiveUpLoad(p)
       \/ /\ \/ pc[p] = "checked" /\ cmd[p].kind \notin Reads
             \/ pc[p] = "committed" /\ cmd[p].kind \in Rereads
          /\ Answer(p, "500")
          /\ UNCHANGED <<dbVars, cmd, row, at, loadVars, cacheVars>>
    /\ UNCHANGED envVars

\* A request whose first query fails.
FirstQueryFails(w, c) ==
    /\ pc[w] = "idle"
    /\ pc[Boot] = "done"
    /\ c.kind \in Reads
    /\ \/ Exhausted /\ UNCHANGED blips
       \/ blips < MaxBlips /\ blips' = blips + 1
    /\ cmd' = [cmd EXCEPT ![w] = c]
    /\ Answer(w, "500")
    /\ UNCHANGED <<dbVars, row, at, loadVars, cacheVars, restarts>>

\* The database drops a statement.  Lost at "committed" it is the answer to
\* the COMMIT that is lost.
Blip(p) ==
    /\ blips < MaxBlips
    /\ blips' = blips + 1
    /\ \/ Loading(p) /\ pc[p] # "swap" /\ GiveUpLoad(p)
       \/ /\ pc[p] \in {"checked", "committed"}
          /\ Answer(p, "500")
          /\ UNCHANGED <<dbVars, cmd, row, at, loadVars, cacheVars>>
    /\ UNCHANGED restarts

\* The process dies and starts again: requests in flight are lost, what
\* they committed is not.
Restart ==
    /\ restarts < MaxRestarts
    /\ restarts' = restarts + 1
    /\ pc' = [p \in Proc |-> IF p = Boot THEN "queued"
                             ELSE IF pc[p] = "idle" THEN "idle" ELSE "done"]
    /\ answer' = [p \in Proc |-> IF p # Boot /\ pc[p] \notin {"idle", "done"}
                                 THEN "lost" ELSE answer[p]]
    /\ got' = [p \in Proc |-> Empty]
    /\ since' = [p \in Proc |-> 0]
    /\ snapshot' = NoSnapshot
    /\ age' = 0
    /\ UNCHANGED <<dbVars, cmd, row, at, refreshed, blips>>
-----------------------------------------------------------------------------
\* One refresh(), from the wait for the lock on.
Refresh(p) ==
    \/ Acquire(p) \/ ReadTsigKeys(p) \/ ReadBackends(p) \/ ReadDomains(p)
    \/ ReadIds(p) \/ Swap(p) \/ LoadFails(p)

\* What a request does once it has begun.
Step(p) ==
    \/ \E b \in Backend : Commit(p, b)
    \/ CommitFails(p)
    \/ Reread(p)
    \/ Refresh(p)
    \/ PoolTimeout(p)

Next ==
    \/ \E w \in Writer, c \in Command :
          Reject(w, c) \/ Check(w, c) \/ FirstQueryFails(w, c)
    \/ \E p \in Proc : Step(p) \/ Blip(p)
    \/ Restart

Spec == Init /\ [][Next]_vars

\* The event loop runs every task that can go on, and the pool's timer fires.
FairSpec == Spec /\ \A p \in Proc : WF_vars(Step(p))
-----------------------------------------------------------------------------
(***************************************************************************)
(* Properties.                                                             *)
(***************************************************************************)

\* Once every request is answered and no database failure was met, the DNS
\* plane serves exactly what the tables hold, whatever was lost on the way:
\* loads torn by concurrent commits, loads starved of a connection, requests
\* that ended in a 500 after their commit, rows no load could parse that are
\* gone by now, and a restart (deps.refresh_routing_cache, cache.refresh).
Converged ==
    (/\ \A p \in Proc : pc[p] \in {"idle", "done"}
     /\ blips = 0
     /\ Buildable(db.tsig, db.domain))
    => snapshot = View(db)

\* What a request withdrew (a key, a domain, a backend, an older config) is
\* never served again once its own refresh has succeeded, even when later
\* loads fail, are torn, or were begun by requests that committed earlier.
WithdrawnIsNotServed ==
    \A w \in Writer :
        (refreshed[w] /\ snapshot # NoSnapshot) =>
        LET c == cmd[w] IN
        /\ c.kind = "revoke_tsig_key" => snapshot.tsig[c.key] # row[w]
        /\ c.kind = "delete_domain" =>
              \/ snapshot.domain[c.zone] = NoRow
              \/ snapshot.domain[c.zone].id # row[w]
        /\ c.kind = "delete_backend" => snapshot.backend[c.backend] = 0
        /\ c.kind = "update_backend" =>
              \/ snapshot.backend[c.backend] = 0
              \/ snapshot.backend[c.backend] >= at[w]

\* A load never replaces a snapshot that was read later than its own data:
\* the swaps happen in the order of the reads (RoutingCache.refresh).
SnapshotNeverRegresses ==
    [][snapshot # NoSnapshot /\ snapshot' # NoSnapshot => age' >= age]_vars

\* Every request is answered: waiting for the cache with a connection in
\* hand never becomes waiting for ever (QueuePool's timeout breaks the
\* circle between the pool and the cache's lock).
EveryWriteIsAnswered ==
    \A w \in Writer : pc[w] # "idle" ~> pc[w] = "done"

\* deps.refresh_routing_cache promises that a write whose refresh fails is
\* made up for ("the periodic refresher (T-M2-05) reconverges"): the snapshot
\* comes to equal the tables, if they can be loaded at all.
Reconverges ==
    \A w \in Writer :
        Loading(w) ~> (Buildable(db.tsig, db.domain) => snapshot = View(db))

\* The snapshot's id map names the row whose secret the keyring verifies
\* with, so an audit row carries "the authorizing tsig_key_id" (cache.py,
\* load_tsig_key_ids).
IdsMatchKeyring ==
    snapshot # NoSnapshot =>
        \A k \in KeyName : snapshot.tsig[k] # 0 =>
                            snapshot.ids[k] = snapshot.tsig[k]
=============================================================================
