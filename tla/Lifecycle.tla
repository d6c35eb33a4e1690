----------------------------- MODULE Lifecycle ------------------------------
(***************************************************************************)
(* The life of the process: startup validation (startup.py), main.serve    *)
(* with its two supervised planes (supervisor.py), the DNS listener's      *)
(* sockets, UDP tasks and TCP connections (data_plane/server.py), the      *)
(* readiness probe (api/app.py), and the shutdown sequence.                *)
(*                                                                         *)
(*   main:  boot, ping, schema, rows, load, waiting, draining, stopping,   *)
(*          disposed, exited                                               *)
(*   dns:   off, bindUdp, bindTcp, serving, backoff, done                  *)
(*   api:   off, starting, serving, closing, backoff, done                 *)
(*                                                                         *)
(* One step per await.  serve_forever and a sleep end by cancellation only.*)
(***************************************************************************)
EXTENDS Naturals

CONSTANTS Udp,          \* datagrams
          Tcp,          \* TCP connections
          MaxRestarts,  \* RestartLimiter.max_restarts
          MaxFaults     \* bound: bind failures and API crashes

Plane == {"dns", "api"}

Client == Udp \cup Tcp

\* What startup validates.  A fact of the deployment: it holds or it does not.
Precondition == {"kek", "dsn", "spa", "database", "migrations", "schema",
                 "providers", "algorithms"}

ASSUME LifecycleAssumption ==
    /\ Udp \cap Tcp = {}
    /\ MaxRestarts \in Nat
    /\ MaxFaults \in Nat

VARIABLES main, dns, api,
          shutdown,     \* the shared asyncio.Event
          signalled,    \* history: it was set by a signal
          recent,       \* restarts in the limiter's window, per plane
          unhealthy,    \* the plane exhausted its budget
          udp, tcp,     \* the socket is open
          udpAccepting, \* _UdpProtocol.accepting
          accepting,    \* Rfc2136Server._accepting
          task,         \* handler task of a datagram or a connection
          watched,      \* the tasks drain() waits for
          request,      \* an API request: none, a call, a /readyz probe
                        \* that saw DNS ready or unready, or one cut off
          sound,        \* the preconditions that hold
          populated,    \* cache.is_populated
          readied,      \* the last /readyz answer was 200
          gaveUp,       \* plane_gave_up
          lateBind,     \* history: serve() went on binding during shutdown
          exit,         \* exit code
          faults

superVars == <<shutdown, signalled, recent, unhealthy>>
sockVars == <<udp, tcp, udpAccepting, accepting, lateBind>>
endVars == <<watched, gaveUp, exit>>
readyVars == <<sound, populated, readied>>
vars == <<main, dns, api, shutdown, signalled, recent, unhealthy, udp, tcp,
          udpAccepting, accepting, task, watched, request, sound, populated,
          readied, gaveUp, lateBind, exit, faults>>

TypeOK ==
    /\ main \in {"boot", "ping", "schema", "rows", "load", "waiting",
                 "draining", "stopping", "disposed", "exited"}
    /\ dns \in {"off", "bindUdp", "bindTcp", "serving", "backoff", "done"}
    /\ api \in {"off", "starting", "serving", "closing", "backoff", "done"}
    /\ shutdown \in BOOLEAN /\ signalled \in BOOLEAN
    /\ recent \in [Plane -> Nat]
    /\ unhealthy \in [Plane -> BOOLEAN]
    /\ udp \in BOOLEAN /\ tcp \in BOOLEAN
    /\ udpAccepting \in BOOLEAN /\ accepting \in BOOLEAN
    /\ task \in [Client -> {"none", "idle", "running", "over"}]
    /\ watched \subseteq Client
    /\ request \in {"idle", "busy", "sawReady", "sawUnready", "cut"}
    /\ sound \subseteq Precondition
    /\ populated \in BOOLEAN /\ readied \in BOOLEAN
    /\ gaveUp \in BOOLEAN /\ lateBind \in BOOLEAN
    /\ exit \in {"none", "0", "1", "2", "uncaught", "killed"}
    /\ faults \in Nat

Init ==
    /\ main = "boot" /\ dns = "off" /\ api = "off"
    /\ shutdown = FALSE /\ signalled = FALSE
    /\ recent = [p \in Plane |-> 0]
    /\ unhealthy = [p \in Plane |-> FALSE]
    /\ udp = FALSE /\ tcp = FALSE
    /\ udpAccepting = FALSE /\ accepting = FALSE
    /\ task = [c \in Client |-> "none"]
    /\ watched = {}
    /\ request = "idle"
    /\ sound \in SUBSET Precondition
    /\ populated = FALSE /\ readied = FALSE
    /\ gaveUp = FALSE /\ lateBind = FALSE
    /\ exit = "none"
    /\ faults = 0
-----------------------------------------------------------------------------
(***************************************************************************)
(* Startup.                                                                *)
(***************************************************************************)

\* What each stage checks before the next one: validate_kek, the DSN's syntax
\* and the SPA directory; the ping; the revision; the stored rows.
Needs == [boot   |-> {"kek", "dsn", "spa"},
          ping   |-> {"database"},
          schema |-> {"migrations", "schema"},
          rows   |-> {"providers", "algorithms"}]

Passed == [boot |-> "ping", ping |-> "schema", schema |-> "rows",
           rows |-> "load"]

Booting == main \in {"boot", "ping", "schema", "rows", "load"}

\* Database.from_dsn will raise: it comes after validate_kek and before all
\* other checks.
MalformedDsn == main = "boot" /\ "kek" \in sound /\ "dsn" \notin sound

\* A stage passes, or raises StartupError: main() returns 2.
Validate ==
    /\ main \in DOMAIN Needs
    /\ ~MalformedDsn
    /\ IF Needs[main] \subseteq sound
         THEN main' = Passed[main] /\ UNCHANGED exit
         ELSE main' = "exited" /\ exit' = "2"
    /\ UNCHANGED <<dns, api, superVars, sockVars, task, watched, request,
                   readyVars, gaveUp, faults>>

\* The DSN is malformed, or the database answered the ping and fails a later
\* query: no StartupError, so main() does not catch it.
BootRaises ==
    /\ MalformedDsn \/ main \in {"schema", "rows"}
    /\ main' = "exited"
    /\ exit' = "uncaught"
    /\ UNCHANGED <<dns, api, superVars, sockVars, task, watched, request,
                   readyVars, gaveUp, faults>>

\* A signal while its handler is not installed yet.
BootKilled ==
    /\ Booting
    /\ main' = "exited"
    /\ exit' = "killed"
    /\ UNCHANGED <<dns, api, superVars, sockVars, task, watched, request,
                   readyVars, gaveUp, faults>>

\* _safe_initial_refresh: a failed load is tolerated.  Then the planes' tasks
\* are created, and are past their first look at `shutdown' when the loop
\* delivers the first signal.
Launch ==
    /\ main = "load"
    /\ main' = "waiting"
    /\ populated' \in BOOLEAN
    /\ dns' = "bindUdp"
    /\ api' = "starting"
    /\ UNCHANGED <<superVars, sockVars, task, request, endVars, sound, readied,
                   faults>>

\* SIGTERM or SIGINT.
Signal ==
    /\ main = "waiting"
    /\ ~shutdown
    /\ shutdown' = TRUE
    /\ signalled' = TRUE
    /\ UNCHANGED <<main, dns, api, recent, unhealthy, sockVars, task, request,
                   endVars, faults, readyVars>>

Running == ~Booting /\ main # "exited"
-----------------------------------------------------------------------------
(***************************************************************************)
(* supervise().                                                            *)
(***************************************************************************)

\* The factory raised: RestartLimiter.allow decides between another try
\* after a pause and giving up.
Crashed(p) ==
    IF recent[p] >= MaxRestarts
      THEN /\ unhealthy' = [unhealthy EXCEPT ![p] = TRUE]
           /\ shutdown' = TRUE
           /\ UNCHANGED <<recent, signalled>>
      ELSE /\ recent' = [recent EXCEPT ![p] = @ + 1]
           /\ UNCHANGED <<shutdown, signalled, unhealthy>>

\* Where the plane's task is after a crash.
AfterCrash(p) == IF recent[p] >= MaxRestarts THEN "done" ELSE "backoff"

\* A slip: the window is pruned when it is empty.
Underflow(p) ==
    /\ Running
    /\ recent' = [recent EXCEPT ![p] = @ - 1]
    /\ UNCHANGED <<main, dns, api, shutdown, signalled, unhealthy, sockVars,
                   task, request, endVars, faults, readyVars>>

\* RestartLimiter: an old restart leaves the window.
Forget(p) ==
    /\ Running
    /\ recent[p] > 0
    /\ recent' = [recent EXCEPT ![p] = @ - 1]
    /\ UNCHANGED <<main, dns, api, shutdown, signalled, unhealthy, sockVars,
                   task, request, endVars, faults, readyVars>>

\* The pause is over: `while not shutdown.is_set()'.
DnsWakes ==
    /\ Running
    /\ dns = "backoff"
    /\ dns' = IF shutdown THEN "done" ELSE "bindUdp"
    /\ UNCHANGED <<main, api, superVars, sockVars, task, request, endVars,
                   faults, readyVars>>

ApiWakes ==
    /\ Running
    /\ api = "backoff"
    /\ api' = IF shutdown THEN "done" ELSE "starting"
    /\ UNCHANGED <<main, dns, superVars, sockVars, task, request, endVars,
                   faults, readyVars>>
-----------------------------------------------------------------------------
(***************************************************************************)
(* The DNS plane: Rfc2136Server.serve.                                     *)
(***************************************************************************)
ShuttingDown == main \in {"draining", "stopping", "disposed"}

\* A slip: ready as soon as datagrams are.
EagerReady ==
    /\ Running
    /\ dns = "bindUdp"
    /\ ~udp
    /\ udp' = TRUE
    /\ udpAccepting' = TRUE
    /\ accepting' = TRUE
    /\ dns' = "bindTcp"
    /\ UNCHANGED <<main, api, superVars, tcp, lateBind, task, request,
                   endVars, faults, readyVars>>

\* create_datagram_endpoint: from now on datagrams are taken.
UdpBound ==
    /\ Running
    /\ dns = "bindUdp"
    /\ ~udp
    /\ udp' = TRUE
    /\ udpAccepting' = TRUE
    /\ lateBind' = (lateBind \/ ShuttingDown)
    /\ dns' = "bindTcp"
    /\ UNCHANGED <<main, api, superVars, tcp, accepting, task, request,
                   endVars, faults, readyVars>>

\* start_server; `self._accepting = True'.
TcpBound ==
    /\ Running
    /\ dns = "bindTcp"
    /\ tcp' = TRUE
    /\ accepting' = TRUE
    /\ lateBind' = (lateBind \/ ShuttingDown)
    /\ dns' = "serving"
    /\ UNCHANGED <<main, api, superVars, udp, udpAccepting, task, request,
                   endVars, faults, readyVars>>

\* A bind raises OSError.  The UDP socket bound before a failing start_server
\* is not closed, so the address is in use when the plane is restarted.
BindFails ==
    /\ Running
    /\ \/ dns \in {"bindUdp", "bindTcp"} /\ faults < MaxFaults
          /\ faults' = faults + 1
       \/ dns = "bindUdp" /\ udp /\ UNCHANGED faults
    /\ Crashed("dns")
    /\ dns' = AfterCrash("dns")
    /\ UNCHANGED <<main, api, sockVars, task, request, endVars, readyVars>>

Datagram(c) ==
    /\ Running
    /\ task[c] = "none"
    /\ udp /\ udpAccepting
    /\ task' = [task EXCEPT ![c] = "running"]
    /\ UNCHANGED <<main, dns, api, superVars, sockVars, request, endVars,
                   faults, readyVars>>

\* _handle_tcp: a connection opened during shutdown is closed at once.
Connect(c) ==
    /\ Running
    /\ task[c] = "none"
    /\ tcp
    /\ task' = [task EXCEPT ![c] = IF accepting THEN "idle" ELSE "over"]
    /\ UNCHANGED <<main, dns, api, superVars, sockVars, request, endVars,
                   faults, readyVars>>

\* A message arrives on an open connection.
Message(c) ==
    /\ Running
    /\ task[c] = "idle"
    /\ task' = [task EXCEPT ![c] = "running"]
    /\ UNCHANGED <<main, dns, api, superVars, sockVars, request, endVars,
                   faults, readyVars>>

\* The handler is done: answered, dropped or failed.  A connection stays
\* open unless the server is draining or the message was not answered.
Handled(c) ==
    /\ Running
    /\ task[c] = "running"
    /\ \/ task' = [task EXCEPT ![c] = "over"]
       \/ c \in Tcp /\ accepting /\ task' = [task EXCEPT ![c] = "idle"]
    /\ UNCHANGED <<main, dns, api, superVars, sockVars, request, endVars,
                   faults, readyVars>>

\* The peer closes an idle connection.
PeerCloses(c) ==
    /\ Running
    /\ task[c] = "idle"
    /\ task' = [task EXCEPT ![c] = "over"]
    /\ UNCHANGED <<main, dns, api, superVars, sockVars, request, endVars,
                   faults, readyVars>>
-----------------------------------------------------------------------------
(***************************************************************************)
(* The API plane: uvicorn under _management_factory.                       *)
(***************************************************************************)
InRequest == request \in {"busy", "sawReady", "sawUnready"}

\* uvicorn binds the port ...
ApiBound ==
    /\ Running
    /\ api = "starting"
    /\ api' = "serving"
    /\ UNCHANGED <<main, dns, superVars, sockVars, task, request, readyVars,
                   endVars, faults>>

\* ... or cannot, and calls sys.exit(1): SystemExit leaves the event loop past
\* the supervisor, and what runs is cancelled.
ApiPortTaken ==
    /\ api = "starting" /\ main \in {"waiting", "draining"}
    /\ faults < MaxFaults
    /\ faults' = faults + 1
    /\ main' = "exited"
    /\ exit' = "uncaught"
    /\ dns' = "done" /\ api' = "done"
    /\ udp' = FALSE /\ tcp' = FALSE
    /\ accepting' = FALSE /\ udpAccepting' = FALSE
    /\ task' = [c \in Client |-> IF task[c] = "none" THEN "none" ELSE "over"]
    /\ UNCHANGED <<superVars, lateBind, watched, request, readyVars, gaveUp>>

ApiBegins ==
    /\ Running
    /\ api = "serving" /\ request = "idle"
    /\ request' = "busy"
    /\ UNCHANGED <<main, dns, api, superVars, sockVars, task, readyVars,
                   endVars, faults>>

\* A call ends.  If it was a write, its refresh may have filled the cache.
ApiEnds ==
    /\ Running
    /\ request = "busy"
    /\ request' = "idle"
    /\ populated' \in {populated, TRUE}
    /\ UNCHANGED <<main, dns, api, superVars, sockVars, task, sound, readied,
                   endVars, faults>>

\* A slip: the cache alone decides.
PopulationOnly ==
    /\ Running
    /\ api = "serving" /\ request = "idle"
    /\ request' = IF populated THEN "sawReady" ELSE "sawUnready"
    /\ UNCHANGED <<main, dns, api, superVars, sockVars, task, readyVars,
                   endVars, faults>>

\* readyz: _dns_ready is asked first ...
ProbeBegins ==
    /\ Running
    /\ api = "serving" /\ request = "idle"
    /\ request' = IF accepting /\ populated THEN "sawReady" ELSE "sawUnready"
    /\ UNCHANGED <<main, dns, api, superVars, sockVars, task, readyVars,
                   endVars, faults>>

\* ... and the answer is given when the database's ping has returned.
ProbeEnds ==
    /\ Running
    /\ request \in {"sawReady", "sawUnready"}
    /\ request' = "idle"
    /\ \E pinged \in BOOLEAN : readied' = (request = "sawReady" /\ pinged)
    /\ UNCHANGED <<main, dns, api, superVars, sockVars, task, sound, populated,
                   endVars, faults>>

ApiCrashes ==
    /\ Running
    /\ api \in {"starting", "serving", "closing"} /\ faults < MaxFaults
    /\ faults' = faults + 1
    /\ Crashed("api")
    /\ api' = AfterCrash("api")
    /\ request' = "idle"
    /\ UNCHANGED <<main, dns, sockVars, task, readyVars, endVars>>

\* should_exit: uvicorn takes no more requests.  It looks at the flag in its
\* next tick, when main has long noticed.
ApiCloses ==
    /\ ShuttingDown
    /\ api = "serving"
    /\ api' = "closing"
    /\ UNCHANGED <<main, dns, superVars, sockVars, task, request, readyVars,
                   endVars, faults>>

\* The requests under way have ended.
ApiStops ==
    /\ ShuttingDown
    /\ api = "closing" /\ ~InRequest
    /\ api' = "done"
    /\ UNCHANGED <<main, dns, superVars, sockVars, task, request, readyVars,
                   endVars, faults>>
-----------------------------------------------------------------------------
(***************************************************************************)
(* serve()'s shutdown.                                                     *)
(***************************************************************************)

\* The API task is cancelled unless it is over, uvicorn and what it was
\* serving with it.
CancelApi ==
    /\ api' = "done"
    /\ request' = IF InRequest THEN "cut" ELSE request

\* drain(): the tasks there are.
InFlight == {c \in Client : task[c] \in {"idle", "running"}}

\* Slips: a plane counts as given up only if shutdown is not set as well;
\* only readiness is withdrawn.
UnlessShutdown == ~shutdown /\ (dns = "done" \/ api = "done")
ReadinessOnly == /\ accepting' = FALSE
                 /\ UNCHANGED udpAccepting

PlaneGaveUp == dns = "done" \/ api = "done"

StopAccepting ==
    /\ accepting' = FALSE
    /\ udpAccepting' = FALSE

\* asyncio.wait returns; stop_accepting; drain() up to its wait, which it
\* skips when nothing is in flight: the API task is cancelled there and then.
Notice ==
    /\ main = "waiting"
    /\ shutdown \/ dns = "done" \/ api = "done"
    /\ gaveUp' = PlaneGaveUp
    /\ StopAccepting
    /\ watched' = InFlight
    /\ IF InFlight = {}
         THEN main' = "stopping" /\ CancelApi
         ELSE main' = "draining" /\ UNCHANGED <<api, request>>
    /\ UNCHANGED <<dns, superVars, udp, tcp, lateBind, task, exit, faults,
                   readyVars>>

Drained ==
    /\ main = "draining"
    /\ \A c \in watched : task[c] = "over"
    /\ main' = "stopping"
    /\ CancelApi
    /\ UNCHANGED <<dns, superVars, sockVars, task, endVars, faults,
                   readyVars>>


\* The timeout passes: stragglers are cancelled and waited for.
DrainTimeout ==
    /\ main = "draining"
    /\ \E c \in watched : task[c] # "over"
    /\ task' = [c \in Client |-> IF c \in watched THEN "over" ELSE task[c]]
    /\ main' = "stopping"
    /\ CancelApi
    /\ UNCHANGED <<dns, superVars, sockVars, endVars, faults, readyVars>>

\* The exit code; then `finally': the pool and the HTTP client are closed.
Dispose ==
    /\ main = "stopping"
    /\ exit' = IF gaveUp THEN "1" ELSE "0"
    /\ main' = "disposed"
    /\ UNCHANGED <<dns, api, superVars, sockVars, task, watched, request,
                   gaveUp, faults, readyVars>>

\* The DNS task is cancelled, the sockets are closed, and asyncio.run cancels
\* what is left.
Exit ==
    /\ main = "disposed"
    /\ main' = "exited"
    /\ dns' = "done"
    /\ udp' = FALSE /\ tcp' = FALSE
    /\ accepting' = FALSE /\ udpAccepting' = FALSE
    /\ task' = [c \in Client |-> IF task[c] = "none" THEN "none" ELSE "over"]
    /\ UNCHANGED <<api, superVars, lateBind, request, endVars, faults,
                   readyVars>>
-----------------------------------------------------------------------------
\* What main and the planes' tasks do of themselves.
MainStep == \/ Validate \/ BootRaises \/ BootKilled \/ Launch
            \/ Notice \/ Drained \/ DrainTimeout \/ Dispose \/ Exit
DnsStep == DnsWakes \/ UdpBound \/ TcpBound \/ BindFails
ApiStep == ApiWakes \/ ApiBound \/ ApiPortTaken \/ ApiCloses \/ ApiStops

Next ==
    \/ MainStep \/ DnsStep \/ ApiStep
    \/ Signal
    \/ \E p \in Plane : Forget(p)
    \/ \E c \in Udp : Datagram(c)
    \/ \E c \in Tcp : Connect(c) \/ Message(c) \/ PeerCloses(c)
    \/ \E c \in Client : Handled(c)
    \/ ApiBegins \/ ApiEnds \/ ProbeBegins \/ ProbeEnds \/ ApiCrashes

Spec == Init /\ [][Next]_vars

\* The event loop runs main and the planes, and timers fire.  Nothing is
\* assumed of clients, handlers and API requests.
FairSpec == Spec /\ WF_vars(MainStep) /\ WF_vars(DnsStep) /\ WF_vars(ApiStep)
-----------------------------------------------------------------------------
(***************************************************************************)
(* Properties.                                                             *)
(***************************************************************************)

\* Readiness (Rfc2136Server.is_accepting) is reported only while both sockets
\* are open, through failed binds, restarts and shutdown.
ReadyMeansBound == accepting => udp /\ tcp /\ dns = "serving"

\* What the process ends with tells why, through all interleavings of crashes,
\* pauses and signals.
\*   0   a signal;
\*   1   a plane exhausted its budget, or a signal came to a process one of
\*       whose planes had crashed and was woken from its pause by it: a process
\*       without a crash never returns 1;
\*   2   a check failed, any but the DSN's syntax;
\*   uncaught   the DSN was malformed, or a query failed after the ping of a
\*       process that had launched nothing, or the API's port was taken.
\* An exhausted plane without a signal is never reported as 0.
ExitCodeExplained ==
    LET exhausted == \E p \in Plane : unhealthy[p]
        badDsn == "kek" \in sound /\ "dsn" \notin sound
    IN  /\ exit = "0" => signalled /\ sound = Precondition
        /\ exit = "1" => /\ exhausted \/ (signalled /\ faults > 0)
                         /\ sound = Precondition
        /\ exit = "2" => sound # Precondition /\ ~badDsn
        /\ exit = "uncaught" =>
              \/ badDsn
              \/ dns = "off" /\ Needs["boot"] \cup Needs["ping"] \subseteq sound
              \/ faults > 0 /\ sound = Precondition
        /\ exit # "none" /\ exhausted /\ ~signalled =>
              exit \in {"1", "uncaught"}

\* A 200 from /readyz is earned and lasts: every precondition was validated,
\* and from then to the end of the process both sockets stay open and the
\* cache stays loaded, although the probe had looked at them before it waited
\* for the database (readyz, _dns_ready); until shutdown is noticed the DNS
\* plane takes work too.
ReadyIsEarned ==
    readied => /\ sound = Precondition
               /\ main # "exited" => udp /\ tcp /\ populated
               /\ main = "waiting" => accepting

\* No request is under way when the database pool and the HTTP client are
\* closed, except on a listener that went on binding while the process was
\* shutting down (stop_accepting, drain).
DrainedUnlessLateBind ==
    main \in {"stopping", "disposed"} /\ ~lateBind =>
        \A c \in Client : task[c] # "running"


\* main.serve: "then wind down the API supervisor -- uvicorn returns once it
\* honors should_exit": requests under way are not cut off.
ApiStopsGracefully == request # "cut"

\* supervisor.py: "A crash in one plane is caught, metered, and restarted":
\* the DNS plane takes work again after its crash unless the process was
\* signalled to stop.
DnsPlaneComesBack ==
    (main = "waiting" /\ dns = "backoff") ~> (accepting \/ signalled)
=============================================================================
