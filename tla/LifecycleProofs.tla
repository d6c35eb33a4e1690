-------------------------- MODULE LifecycleProofs ---------------------------
(***************************************************************************)
(* Lifecycle for any number of datagrams, connections, restarts and        *)
(* faults: startup, readiness, the exit code and the drain.                *)
(***************************************************************************)
EXTENDS Lifecycle, TLAPS

\* How far serve() has come with its sockets.
Bound == /\ dns = "bindTcp" => udp
         /\ dns = "serving" => udp /\ tcp
         /\ accepting => dns = "serving"

\* Who set `shutdown', and what a plane's end means.
Cause == /\ shutdown => signalled \/ \E p \in Plane : unhealthy[p]
         /\ \A p \in Plane : unhealthy[p] => shutdown
         /\ unhealthy["dns"] => dns = "done"
         /\ unhealthy["api"] => api = "done"
         /\ main = "waiting" /\ (dns = "done" \/ api = "done") => shutdown
         /\ Booting => ~shutdown /\ dns = "off" /\ api = "off"

\* What main knows once it has noticed.
Noticed == /\ ShuttingDown => shutdown /\ (gaveUp \/ signalled)
           /\ gaveUp => shutdown
           /\ exit = "0" => ~gaveUp /\ (gaveUp \/ signalled)
           /\ exit = "1" => gaveUp
           /\ exit \in {"2", "killed"} => main = "exited" /\ ~shutdown
           /\ exit = "uncaught" => main = "exited"
           /\ Booting \/ main = "waiting" => exit = "none" /\ ~gaveUp
           /\ main = "draining" => exit = "none"
           /\ exit = "none" => main # "exited"
           /\ main = "disposed" => exit # "none"

\* While shutting down nothing new is taken, unless serve() goes on binding.
Shut == ShuttingDown /\ ~lateBind =>
            /\ ~accepting /\ ~udpAccepting
            /\ InFlight \subseteq watched
            /\ main \in {"stopping", "disposed"} => InFlight = {}

\* How far startup has come with its checks, and what that vouches for.
Validated == /\ main = "ping" => Needs["boot"] \subseteq sound
             /\ main = "schema" => /\ Needs["boot"] \subseteq sound
                                   /\ Needs["ping"] \subseteq sound
             /\ main = "rows" => /\ Needs["boot"] \subseteq sound
                                 /\ Needs["ping"] \subseteq sound
                                 /\ Needs["schema"] \subseteq sound
             /\ main = "load" \/ Running => sound = Precondition
             /\ exit = "2" => /\ sound # Precondition
                              /\ "kek" \in sound => "dsn" \in sound
             /\ exit \in {"0", "1"} => sound = Precondition

\* What takes a crash: a pause, an address still in use, a plane that is over
\* before main has noticed.
Faulted == /\ dns = "off" => ~udp
           /\ dns = "bindUdp" /\ udp => faults > 0
           /\ dns = "backoff" \/ api = "backoff" => faults > 0
           /\ main = "waiting" /\ (dns = "done" \/ api = "done") => faults > 0
           /\ gaveUp => faults > 0

\* What may leave main() uncaught.
Escaped ==
    exit = "uncaught" =>
        \/ "kek" \in sound /\ "dsn" \notin sound
        \/ dns = "off" /\ Needs["boot"] \cup Needs["ping"] \subseteq sound
        \/ faults > 0 /\ sound = Precondition

\* What a probe saw, and what it answered, is still so: the sockets and the
\* cache until the end, is_accepting while main waits.
Ready == /\ request \in {"sawReady", "sawUnready"} \/ readied => ~Booting
         /\ request = "sawReady" \/ readied => sound = Precondition
         /\ main # "exited" /\ (request = "sawReady" \/ readied) =>
               dns = "serving" /\ populated
         /\ main = "waiting" /\ (request = "sawReady" \/ readied) => accepting

LInv == /\ TypeOK /\ Bound /\ Cause /\ Noticed /\ Shut /\ Validated
        /\ Faulted /\ Escaped /\ Ready

\* What a crash makes of the supervisor's state is well typed.
LEMMA CrashTypes ==
    ASSUME TypeOK, NEW p \in Plane, Crashed(p)
    PROVE  /\ shutdown' \in BOOLEAN /\ signalled' \in BOOLEAN
           /\ recent' \in [Plane -> Nat] /\ unhealthy' \in [Plane -> BOOLEAN]
<1>1. CASE recent[p] >= MaxRestarts
  <2>1. /\ shutdown' = TRUE /\ signalled' = signalled /\ recent' = recent
        /\ unhealthy' = [unhealthy EXCEPT ![p] = TRUE]
    BY <1>1 DEF Crashed
  <2>2. unhealthy' \in [Plane -> BOOLEAN]
    BY <2>1, Zenon DEF TypeOK
  <2> QED
    BY <2>1, <2>2, Zenon DEF TypeOK
<1>2. CASE ~(recent[p] >= MaxRestarts)
  <2>1. /\ shutdown' = shutdown /\ signalled' = signalled
        /\ unhealthy' = unhealthy
        /\ recent' = [recent EXCEPT ![p] = @ + 1]
    BY <1>2 DEF Crashed
  <2>2. recent' \in [Plane -> Nat]
    BY <2>1 DEF TypeOK
  <2> QED
    BY <2>1, <2>2, Zenon DEF TypeOK
<1> QED
  BY <1>1, <1>2

\* Every step keeps the types.
LEMMA LifecycleTypes == TypeOK /\ [Next]_vars => TypeOK'
<1> SUFFICES ASSUME TypeOK, [Next]_vars  PROVE TypeOK'
  OBVIOUS
<1> USE DEF TypeOK, superVars, sockVars, endVars, readyVars
<1>1. CASE Launch
  BY <1>1 DEF Launch
<1>2. CASE Validate
  BY <1>2 DEF Validate, Needs, Passed
<1>2a. CASE BootRaises \/ BootKilled
  BY <1>2a DEF BootRaises, BootKilled
<1>2b. CASE ApiPortTaken
  <2>1. faults' \in Nat
    BY <1>2b DEF ApiPortTaken
  <2>2. task' \in [Client -> {"none", "idle", "running", "over"}]
    BY <1>2b DEF ApiPortTaken
  <2> QED
    BY <1>2b, <2>1, <2>2, Zenon DEF ApiPortTaken
<1>3. CASE Notice
  <2>1. InFlight \subseteq Client
    BY DEF InFlight
  <2>2. PlaneGaveUp \in BOOLEAN
    BY DEF PlaneGaveUp
  <2>3. /\ gaveUp' \in BOOLEAN /\ watched' \subseteq Client
        /\ accepting' \in BOOLEAN /\ udpAccepting' \in BOOLEAN
    BY <1>3, <2>1, <2>2, Zenon DEF Notice, StopAccepting
  <2>4. /\ main' \in {"stopping", "draining"}
        /\ api' \in {api, "done"} /\ request' \in {request, "cut"}
    BY <1>3 DEF Notice, CancelApi
  <2>5. UNCHANGED <<dns, shutdown, signalled, recent, unhealthy, udp, tcp,
                    lateBind, task, exit, faults, sound, populated, readied>>
    BY <1>3 DEF Notice
  <2> QED
    BY <2>3, <2>4, <2>5
<1>4. CASE Drained
  BY <1>4 DEF Drained, CancelApi
<1>5. CASE DrainTimeout
  BY <1>5 DEF DrainTimeout, CancelApi
<1>6. CASE Dispose
  BY <1>6 DEF Dispose
<1>7. CASE Exit
  <2>1. task' \in [Client -> {"none", "idle", "running", "over"}]
    BY <1>7 DEF Exit
  <2>2. /\ main' = "exited" /\ dns' = "done"
        /\ udp' = FALSE /\ tcp' = FALSE
        /\ accepting' = FALSE /\ udpAccepting' = FALSE
    BY <1>7 DEF Exit
  <2>3. UNCHANGED <<api, shutdown, signalled, recent, unhealthy, watched,
                    request, sound, populated, readied, gaveUp, lateBind,
                    exit, faults>>
    BY <1>7 DEF Exit
  <2>4. /\ udp' \in BOOLEAN /\ tcp' \in BOOLEAN
        /\ accepting' \in BOOLEAN /\ udpAccepting' \in BOOLEAN
    BY <2>2, Zenon
  <2> QED
    BY <2>1, <2>2, <2>3, <2>4, SMTT(60)
<1>8. CASE DnsWakes
  BY <1>8 DEF DnsWakes
<1>9. CASE UdpBound
  BY <1>9 DEF UdpBound
<1>10. CASE TcpBound
  BY <1>10 DEF TcpBound
<1>11. CASE BindFails
  <2>1. faults' \in Nat
    BY <1>11 DEF BindFails
  <2>2. Crashed("dns") /\ "dns" \in Plane
    BY <1>11 DEF BindFails, Plane
  <2>3. AfterCrash("dns") \in {"done", "backoff"}
    BY DEF AfterCrash
  <2> QED
    BY <1>11, <2>1, <2>2, <2>3, CrashTypes DEF BindFails
<1>12. CASE ApiWakes \/ ApiBound
  BY <1>12 DEF ApiWakes, ApiBound
<1>13. CASE ApiCloses \/ ApiStops
  BY <1>13 DEF ApiCloses, ApiStops
<1>14. CASE Signal
  BY <1>14 DEF Signal
<1>15. ASSUME NEW p \in Plane, Forget(p)  PROVE TypeOK'
  BY <1>15 DEF Forget
<1>16. ASSUME NEW c \in Udp, Datagram(c)  PROVE TypeOK'
  BY <1>16 DEF Datagram, Client
<1>17. ASSUME NEW c \in Tcp, Connect(c) \/ Message(c) \/ PeerCloses(c)
       PROVE  TypeOK'
  BY <1>17 DEF Connect, Message, PeerCloses, Client
<1>18. ASSUME NEW c \in Client, Handled(c)  PROVE TypeOK'
  BY <1>18 DEF Handled
<1>19. CASE ApiBegins \/ ProbeBegins
  BY <1>19 DEF ApiBegins, ProbeBegins
<1>20. CASE ApiEnds
  <2>1. populated' \in BOOLEAN
    BY <1>20, Zenon DEF ApiEnds
  <2>2. /\ request' = "idle"
        /\ UNCHANGED <<main, dns, api, shutdown, signalled, recent, unhealthy,
                       udp, tcp, udpAccepting, accepting, task, watched,
                       sound, readied, gaveUp, lateBind, exit, faults>>
    BY <1>20 DEF ApiEnds
  <2> QED
    BY <2>1, <2>2
<1>20a. CASE ProbeEnds
  <2>1. readied' \in BOOLEAN
    BY <1>20a, Zenon DEF ProbeEnds
  <2>2. /\ request' = "idle"
        /\ UNCHANGED <<main, dns, api, shutdown, signalled, recent, unhealthy,
                       udp, tcp, udpAccepting, accepting, task, watched,
                       sound, populated, gaveUp, lateBind, exit, faults>>
    BY <1>20a DEF ProbeEnds
  <2> QED
    BY <2>1, <2>2
<1>21. CASE ApiCrashes
  <2>1. faults' \in Nat
    BY <1>21 DEF ApiCrashes
  <2>2. Crashed("api") /\ "api" \in Plane
    BY <1>21 DEF ApiCrashes, Plane
  <2>3. AfterCrash("api") \in {"done", "backoff"}
    BY DEF AfterCrash
  <2> QED
    BY <1>21, <2>1, <2>2, <2>3, CrashTypes DEF ApiCrashes
<1>22. CASE UNCHANGED vars
  BY <1>22 DEF vars
<1> QED
  BY <1>1, <1>2, <1>2a, <1>2b, <1>3, <1>4, <1>5, <1>6, <1>7, <1>8, <1>9,
     <1>10, <1>11, <1>12, <1>13, <1>14, <1>15, <1>16, <1>17, <1>18, <1>19,
     <1>20, <1>20a, <1>21, <1>22
  DEF Next, MainStep, DnsStep, ApiStep
-----------------------------------------------------------------------------
\* The sockets and the plane's task keep in step.
LEMMA BoundStep ==
    ASSUME Bound, Cause, [Next]_vars
    PROVE  Bound'
<1> USE DEF Bound, superVars, sockVars, endVars, readyVars
<1>1. CASE Launch
  <2>1. ~accepting /\ dns' = "bindUdp" /\ UNCHANGED <<udp, tcp, accepting>>
    BY <1>1 DEF Launch, Cause, Booting
  <2> QED
    BY <2>1
<1>2. CASE ApiPortTaken
  BY <1>2 DEF ApiPortTaken
<1>3. CASE Notice
  <2>1. accepting' = FALSE /\ UNCHANGED <<dns, udp, tcp>>
    BY <1>3 DEF Notice, StopAccepting
  <2> QED
    BY <2>1, Zenon
<1>4. CASE Exit
  BY <1>4 DEF Exit
<1>5. CASE DnsWakes
  BY <1>5 DEF DnsWakes
<1>6. CASE UdpBound
  BY <1>6 DEF UdpBound
<1>7. CASE TcpBound
  BY <1>7 DEF TcpBound
<1>8. CASE BindFails
  BY <1>8 DEF BindFails, AfterCrash
<1>9. CASE
            \/ Drained
            \/ DrainTimeout
            \/ Dispose
            \/ Validate \/ BootRaises \/ BootKilled
            \/ ApiWakes \/ ApiBound \/ ApiCloses \/ ApiStops
            \/ Signal
            \/ ApiBegins \/ ApiEnds \/ ProbeBegins \/ ProbeEnds
            \/ ApiCrashes
            \/ UNCHANGED vars
            \/ (\E p \in Plane : Forget(p))
            \/ (\E c \in Udp : Datagram(c))
            \/ (\E c \in Tcp : Connect(c) \/ Message(c) \/ PeerCloses(c))
            \/ (\E c \in Client : Handled(c))
  <2>1. UNCHANGED <<dns, udp, tcp, accepting>>
    BY <1>9 DEF ApiBegins, ApiBound, ApiCloses, ApiCrashes, ApiEnds, ApiStops,
           ApiWakes, BootKilled, BootRaises, CancelApi, Connect, Datagram,
           Dispose, DrainTimeout, Drained, Forget, Handled, Message,
           PeerCloses, ProbeBegins, ProbeEnds, Signal, Validate, vars
  <2> QED
    BY <2>1
<1> QED
  BY <1>1, <1>2, <1>3, <1>4, <1>5, <1>6, <1>7, <1>8, <1>9
  DEF Next, MainStep, DnsStep, ApiStep

\* Shutdown keeps having a cause.
LEMMA CauseStep ==
    ASSUME TypeOK, Cause, [Next]_vars
    PROVE  Cause'
<1> USE DEF Cause, TypeOK, Booting, superVars, sockVars, endVars, readyVars
<1>1. CASE Launch
  BY <1>1 DEF Launch
<1>2. CASE Validate \/ BootRaises \/ BootKilled
  BY <1>2 DEF Validate, Needs, Passed, BootRaises, BootKilled
<1>2a. CASE ApiPortTaken
  BY <1>2a DEF ApiPortTaken, Plane
<1>3. CASE Notice
  BY <1>3 DEF Notice, CancelApi, Plane
<1>4. CASE Drained
  BY <1>4 DEF Drained, CancelApi, Plane
<1>5. CASE DrainTimeout
  BY <1>5 DEF DrainTimeout, CancelApi, Plane
<1>6. CASE Dispose
  BY <1>6 DEF Dispose
<1>7. CASE Exit
  BY <1>7 DEF Exit
<1>8. CASE DnsWakes
  BY <1>8 DEF DnsWakes, Running, Plane
<1>9. CASE UdpBound
  BY <1>9 DEF UdpBound, Running, Plane
<1>10. CASE TcpBound
  BY <1>10 DEF TcpBound, Running, Plane
<1>11. CASE BindFails
  BY <1>11 DEF BindFails, Running, Crashed, AfterCrash, Plane
<1>12. CASE ApiWakes \/ ApiBound
  BY <1>12 DEF ApiWakes, ApiBound, Running, Plane
<1>13. CASE ApiCloses \/ ApiStops
  BY <1>13 DEF ApiCloses, ApiStops, ShuttingDown, Plane
<1>14. CASE Signal
  BY <1>14 DEF Signal
<1>15. CASE ApiCrashes
  BY <1>15 DEF ApiCrashes, Running, Crashed, AfterCrash, Plane
<1>16. CASE
            \/ ApiBegins \/ ApiEnds \/ ProbeBegins \/ ProbeEnds
            \/ UNCHANGED vars
            \/ (\E p \in Plane : Forget(p))
            \/ (\E c \in Udp : Datagram(c))
            \/ (\E c \in Tcp : Connect(c) \/ Message(c) \/ PeerCloses(c))
            \/ (\E c \in Client : Handled(c))
  <2>1. UNCHANGED <<main, dns, api, shutdown, signalled, unhealthy>>
    BY <1>16 DEF ApiBegins, ApiEnds, Connect, Datagram, Forget, Handled,
           Message, PeerCloses, ProbeBegins, ProbeEnds, vars
  <2> QED
    BY <2>1
<1> QED
  BY <1>1, <1>2, <1>2a, <1>3, <1>4, <1>5, <1>6, <1>7, <1>8, <1>9, <1>10,
     <1>11, <1>12, <1>13, <1>14, <1>15, <1>16
  DEF Next, MainStep, DnsStep, ApiStep

\* Main's verdict stays true.
LEMMA NoticedStep ==
    ASSUME TypeOK, Cause, Noticed, [Next]_vars
    PROVE  Noticed'
<1> USE DEF Noticed, TypeOK, Booting, ShuttingDown, superVars, sockVars, endVars, readyVars
<1>1. CASE Launch
  BY <1>1 DEF Launch, Cause
<1>2. CASE Validate \/ BootRaises \/ BootKilled
  BY <1>2 DEF Validate, Needs, Passed, BootRaises, BootKilled, Cause
<1>2a. CASE ApiPortTaken
  BY <1>2a DEF ApiPortTaken
<1>3. CASE Notice
  BY <1>3 DEF Notice, PlaneGaveUp, Cause, Plane
<1>4. CASE Drained
  BY <1>4 DEF Drained
<1>5. CASE DrainTimeout
  BY <1>5 DEF DrainTimeout
<1>6. CASE Dispose
  BY <1>6 DEF Dispose
<1>7. CASE Exit
  BY <1>7 DEF Exit
<1>8. CASE BindFails
  BY <1>8 DEF BindFails, Running, Crashed
<1>9. CASE Signal
  BY <1>9 DEF Signal
<1>10. CASE ApiCrashes
  BY <1>10 DEF ApiCrashes, Running, Crashed
<1>11. CASE
            \/ DnsWakes
            \/ UdpBound
            \/ TcpBound
            \/ ApiWakes \/ ApiBound \/ ApiCloses \/ ApiStops
            \/ ApiBegins \/ ApiEnds \/ ProbeBegins \/ ProbeEnds
            \/ UNCHANGED vars
            \/ (\E p \in Plane : Forget(p))
            \/ (\E c \in Udp : Datagram(c))
            \/ (\E c \in Tcp : Connect(c) \/ Message(c) \/ PeerCloses(c))
            \/ (\E c \in Client : Handled(c))
  <2>1. UNCHANGED <<main, shutdown, signalled, gaveUp, exit>>
    BY <1>11 DEF ApiBegins, ApiBound, ApiCloses, ApiEnds, ApiStops, ApiWakes,
           Connect, Datagram, DnsWakes, Forget, Handled, Message, PeerCloses,
           ProbeBegins, ProbeEnds, TcpBound, UdpBound, vars
  <2> QED
    BY <2>1
<1> QED
  BY <1>1, <1>2, <1>2a, <1>3, <1>4, <1>5, <1>6, <1>7, <1>8, <1>9, <1>10,
     <1>11
  DEF Next, MainStep, DnsStep, ApiStep

\* Nothing new is taken during shutdown.
LEMMA ShutStep ==
    ASSUME TypeOK, Shut, [Next]_vars
    PROVE  Shut'
<1> USE DEF Shut, TypeOK, InFlight, ShuttingDown, superVars, sockVars, endVars, readyVars
<1>1. CASE Launch
  BY <1>1 DEF Launch
<1>2. CASE Validate \/ BootRaises \/ BootKilled \/ ApiPortTaken
  BY <1>2 DEF Validate, Needs, Passed, BootRaises, BootKilled, ApiPortTaken
<1>3. CASE Notice
  BY <1>3 DEF Notice, StopAccepting
<1>4. CASE Drained
  BY <1>4 DEF Drained
<1>5. CASE DrainTimeout
  BY <1>5 DEF DrainTimeout
<1>6. CASE Dispose
  BY <1>6 DEF Dispose
<1>7. CASE Exit
  BY <1>7 DEF Exit
<1>8. CASE UdpBound
  BY <1>8 DEF UdpBound
<1>9. CASE TcpBound
  BY <1>9 DEF TcpBound
<1>10. ASSUME NEW c \in Udp, Datagram(c)
      PROVE  Shut'
  BY <1>10 DEF Datagram, Client
<1>11. ASSUME NEW c \in Tcp, Connect(c) \/ Message(c) \/ PeerCloses(c)
      PROVE  Shut'
  BY <1>11 DEF Connect, Message, PeerCloses, Client
<1>12. ASSUME NEW c \in Client, Handled(c)
      PROVE  Shut'
  BY <1>12 DEF Handled
<1>13. CASE
            \/ DnsWakes
            \/ BindFails
            \/ ApiWakes \/ ApiBound \/ ApiCloses \/ ApiStops
            \/ Signal
            \/ ApiBegins \/ ApiEnds \/ ProbeBegins \/ ProbeEnds
            \/ ApiCrashes
            \/ UNCHANGED vars
            \/ (\E p \in Plane : Forget(p))
  <2>1. UNCHANGED <<main, accepting, udpAccepting, lateBind, task, watched>>
    BY <1>13 DEF ApiBegins, ApiBound, ApiCloses, ApiCrashes, ApiEnds, ApiStops,
           ApiWakes, BindFails, DnsWakes, Forget, ProbeBegins, ProbeEnds,
           Signal, vars
  <2> QED
    BY <2>1
<1> QED
  BY <1>1, <1>2, <1>3, <1>4, <1>5, <1>6, <1>7, <1>8, <1>9, <1>10, <1>11,
       <1>12, <1>13
  DEF Next, MainStep, DnsStep, ApiStep

\* Startup's checks, once passed, stay passed.
LEMMA ValidatedStep ==
    ASSUME TypeOK, Validated, [Next]_vars
    PROVE  Validated'
<1> USE DEF Validated, TypeOK, Booting, Running, superVars, sockVars, endVars,
            readyVars
<1>1. CASE Validate
  <2>1. CASE Needs[main] \subseteq sound
    <3>1. main' = Passed[main] /\ UNCHANGED <<sound, exit>>
      BY <1>1, <2>1 DEF Validate
    <3>2. main \in {"boot", "ping", "schema", "rows"}
      BY <1>1, Zenon DEF Validate, Needs
    <3>3. main = "rows" => sound = Precondition
      <4> SUFFICES ASSUME main = "rows"  PROVE Precondition \subseteq sound
        OBVIOUS
      <4>1. /\ Needs["boot"] \subseteq sound /\ Needs["ping"] \subseteq sound
            /\ Needs["schema"] \subseteq sound /\ Needs["rows"] \subseteq sound
        BY <2>1
      <4>2. /\ Needs["boot"] = {"kek", "dsn", "spa"}
            /\ Needs["ping"] = {"database"}
            /\ Needs["schema"] = {"migrations", "schema"}
            /\ Needs["rows"] = {"providers", "algorithms"}
        BY DEF Needs
      <4> QED
        BY <4>1, <4>2, Zenon DEF Precondition
    <3> QED
      BY <2>1, <3>1, <3>2, <3>3 DEF Passed
  <2>2. CASE ~(Needs[main] \subseteq sound)
    <3>1. main' = "exited" /\ exit' = "2" /\ UNCHANGED sound
      BY <1>1, <2>2 DEF Validate
    <3>2. sound # Precondition
      BY <1>1, <2>2 DEF Validate, Needs, Precondition
    <3>3. main = "boot" \/ Needs["boot"] \subseteq sound
      BY <1>1 DEF Validate, Needs
    <3>4. "dsn" \in Needs["boot"]
      BY DEF Needs
    <3>5. "kek" \in sound => "dsn" \in sound
      BY <1>1, <3>3, <3>4 DEF Validate, MalformedDsn
    <3> QED
      BY <3>1, <3>2, <3>5
  <2> QED
    BY <2>1, <2>2
<1>2. CASE Launch
  BY <1>2 DEF Launch
<1>3. CASE BootRaises \/ BootKilled \/ ApiPortTaken
  BY <1>3 DEF BootRaises, BootKilled, ApiPortTaken
<1>4. CASE Notice
  BY <1>4 DEF Notice
<1>5. CASE Drained \/ DrainTimeout
  BY <1>5 DEF Drained, DrainTimeout
<1>6. CASE Dispose
  BY <1>6 DEF Dispose
<1>7. CASE Exit
  BY <1>7 DEF Exit
<1>8. CASE
            \/ DnsWakes \/ UdpBound \/ TcpBound \/ BindFails
            \/ ApiWakes \/ ApiBound \/ ApiCloses \/ ApiStops
            \/ Signal
            \/ ApiBegins \/ ApiEnds \/ ProbeBegins \/ ProbeEnds
            \/ ApiCrashes
            \/ UNCHANGED vars
            \/ (\E p \in Plane : Forget(p))
            \/ (\E c \in Udp : Datagram(c))
            \/ (\E c \in Tcp : Connect(c) \/ Message(c) \/ PeerCloses(c))
            \/ (\E c \in Client : Handled(c))
  <2>1. UNCHANGED <<main, sound, exit>>
    BY <1>8 DEF ApiBegins, ApiBound, ApiCloses, ApiCrashes, ApiEnds, ApiStops,
           ApiWakes, BindFails, Connect, Datagram, DnsWakes, Forget, Handled,
           Message, PeerCloses, ProbeBegins, ProbeEnds, Signal, TcpBound,
           UdpBound, vars
  <2> QED
    BY <2>1
<1> QED
  BY <1>1, <1>2, <1>3, <1>4, <1>5, <1>6, <1>7, <1>8
  DEF Next, MainStep, DnsStep, ApiStep

\* A pause and the end of a plane go back to a crash.
LEMMA FaultedStep ==
    ASSUME TypeOK, Cause, Faulted, [Next]_vars
    PROVE  Faulted'
<1> USE DEF Faulted, TypeOK, superVars, sockVars, endVars, readyVars
<1>1. CASE Validate \/ BootRaises \/ BootKilled
  <2>1. dns = "off" /\ api = "off"
    BY <1>1 DEF Cause, Validate, Needs, BootRaises, BootKilled, MalformedDsn,
           Booting
  <2>2. UNCHANGED <<dns, api, udp, gaveUp, faults>>
    BY <1>1 DEF Validate, BootRaises, BootKilled
  <2> QED
    BY <2>1, <2>2
<1>2. CASE Launch
  BY <1>2 DEF Launch, Cause, Booting
<1>3. CASE Notice
  <2>1. /\ main' # "waiting" /\ gaveUp' = (dns = "done" \/ api = "done")
        /\ main = "waiting" /\ api' \in {api, "done"}
        /\ UNCHANGED <<dns, udp, faults>>
    BY <1>3 DEF Notice, PlaneGaveUp, CancelApi
  <2> QED
    BY <2>1
<1>4. CASE Drained \/ DrainTimeout
  BY <1>4 DEF Drained, DrainTimeout, CancelApi
<1>5. CASE Dispose \/ Exit
  BY <1>5 DEF Dispose, Exit
<1>6. CASE DnsWakes \/ ApiWakes
  BY <1>6 DEF DnsWakes, ApiWakes
<1>7. CASE UdpBound \/ TcpBound
  BY <1>7 DEF UdpBound, TcpBound
<1>8. CASE BindFails
  <2>1. faults' > 0 /\ dns' \in {"done", "backoff"}
    BY <1>8 DEF BindFails, AfterCrash
  <2> QED
    BY <2>1
<1>9. CASE ApiCrashes
  <2>1. faults' > 0 /\ UNCHANGED <<dns, udp>>
    BY <1>9 DEF ApiCrashes
  <2> QED
    BY <2>1
<1>10. CASE ApiPortTaken
  <2>1. faults' > 0 /\ dns' = "done"
    BY <1>10 DEF ApiPortTaken
  <2> QED
    BY <2>1
<1>11. CASE ApiBound \/ ApiCloses \/ ApiStops
  BY <1>11 DEF ApiBound, ApiCloses, ApiStops, ShuttingDown
<1>12. CASE
            \/ Signal
            \/ ApiBegins \/ ApiEnds \/ ProbeBegins \/ ProbeEnds
            \/ UNCHANGED vars
            \/ (\E p \in Plane : Forget(p))
            \/ (\E c \in Udp : Datagram(c))
            \/ (\E c \in Tcp : Connect(c) \/ Message(c) \/ PeerCloses(c))
            \/ (\E c \in Client : Handled(c))
  <2>1. UNCHANGED <<main, dns, api, udp, gaveUp, faults>>
    BY <1>12 DEF ApiBegins, ApiEnds, Connect, Datagram, Forget, Handled,
           Message, PeerCloses, ProbeBegins, ProbeEnds, Signal, vars
  <2> QED
    BY <2>1
<1> QED
  BY <1>1, <1>2, <1>3, <1>4, <1>5, <1>6, <1>7, <1>8, <1>9, <1>10, <1>11,
     <1>12
  DEF Next, MainStep, DnsStep, ApiStep

\* Only two steps end the process uncaught, and nothing happens after them.
LEMMA EscapedStep ==
    ASSUME TypeOK, Cause, Noticed, Validated, Escaped, [Next]_vars
    PROVE  Escaped'
<1> USE DEF superVars, sockVars, endVars, readyVars
<1>1. CASE BootRaises
  <2>1. UNCHANGED <<dns, sound>>
    BY <1>1 DEF BootRaises
  <2>2. CASE MalformedDsn
    BY <2>1, <2>2 DEF MalformedDsn, Escaped
  <2>3. CASE main \in {"schema", "rows"}
    <3>1. dns = "off"
      BY <2>3 DEF Cause, Booting
    <3>2. Needs["boot"] \cup Needs["ping"] \subseteq sound
      BY <2>3, Zenon DEF Validated
    <3> QED
      BY <2>1, <3>1, <3>2 DEF Escaped
  <2> QED
    BY <1>1, <2>2, <2>3 DEF BootRaises
<1>2. CASE ApiPortTaken
  <2>1. faults' > 0 /\ UNCHANGED sound
    BY <1>2 DEF ApiPortTaken, TypeOK
  <2>2. sound = Precondition
    BY <1>2 DEF ApiPortTaken, Validated, Running, Booting
  <2> QED
    BY <2>1, <2>2 DEF Escaped
<1>3. CASE UNCHANGED vars
  BY <1>3 DEF vars, Escaped
<1>4. CASE
            \/ Validate \/ BootKilled \/ Launch
            \/ Notice \/ Drained \/ DrainTimeout \/ Dispose \/ Exit
  <2>1. main # "exited"
    BY <1>4 DEF Validate, Needs, BootKilled, Booting, Launch, Notice, Drained,
           DrainTimeout, Dispose, Exit
  <2>2. exit' \in {exit, "0", "1", "2", "killed"}
    BY <1>4 DEF Validate, BootKilled, Launch, Notice, Drained, DrainTimeout,
           Dispose, Exit
  <2> QED
    BY <2>1, <2>2 DEF Escaped, Noticed
<1>5. CASE
            \/ DnsStep
            \/ ApiWakes \/ ApiBound \/ ApiCloses \/ ApiStops
            \/ Signal
            \/ ApiBegins \/ ApiEnds \/ ProbeBegins \/ ProbeEnds
            \/ ApiCrashes
            \/ (\E p \in Plane : Forget(p))
            \/ (\E c \in Udp : Datagram(c))
            \/ (\E c \in Tcp : Connect(c) \/ Message(c) \/ PeerCloses(c))
            \/ (\E c \in Client : Handled(c))
  <2>1. main # "exited" /\ UNCHANGED exit
    BY <1>5 DEF DnsStep, ApiBegins, ApiBound, ApiCloses, ApiCrashes, ApiEnds,
           ApiStops, ApiWakes, BindFails, Connect, Datagram, DnsWakes, Forget,
           Handled, Message, PeerCloses, ProbeBegins, ProbeEnds, Running,
           ShuttingDown, Signal, TcpBound, UdpBound
  <2> QED
    BY <2>1 DEF Escaped, Noticed
<1> QED
  BY <1>1, <1>2, <1>3, <1>4, <1>5 DEF Next, MainStep, ApiStep

\* A probe's look at the DNS plane, and its answer, do not go stale: is_accepting
\* is withdrawn by main only, a serving plane keeps its sockets, and the cache is
\* never emptied.
LEMMA ReadyStep ==
    ASSUME TypeOK, Bound, Validated, Ready, [Next]_vars
    PROVE  Ready'
<1> USE DEF Ready, TypeOK, Booting, superVars, sockVars, endVars, readyVars
<1>1. CASE Validate
  BY <1>1 DEF Validate, Needs, Passed
<1>2. CASE Launch
  BY <1>2 DEF Launch
<1>3. CASE BootRaises \/ BootKilled \/ ApiPortTaken
  BY <1>3 DEF BootRaises, BootKilled, ApiPortTaken
<1>4. CASE Notice
  BY <1>4 DEF Notice, CancelApi
<1>5. CASE Drained \/ DrainTimeout
  BY <1>5 DEF Drained, DrainTimeout, CancelApi
<1>6. CASE Dispose \/ Exit
  BY <1>6 DEF Dispose, Exit
<1>7. CASE UdpBound \/ TcpBound
  BY <1>7 DEF UdpBound, TcpBound
<1>8. CASE DnsWakes \/ BindFails
  BY <1>8 DEF DnsWakes, BindFails
<1>9. CASE ApiBegins \/ ApiEnds
  <2>1. populated => populated'
    BY <1>9, Zenon DEF ApiBegins, ApiEnds, readyVars
  <2>2. request' # "sawReady" /\ request' # "sawUnready"
    BY <1>9 DEF ApiBegins, ApiEnds
  <2>3. UNCHANGED <<main, dns, sound, accepting, readied>>
    BY <1>9 DEF ApiBegins, ApiEnds
  <2> QED
    BY <2>1, <2>2, <2>3
<1>10. CASE ProbeBegins
  BY <1>10 DEF ProbeBegins, Running, Validated, Bound
<1>11. CASE ProbeEnds
  <2>1. readied' => request = "sawReady"
    BY <1>11 DEF ProbeEnds
  <2>2. /\ request' = "idle"
        /\ UNCHANGED <<main, dns, sound, accepting, populated>>
    BY <1>11 DEF ProbeEnds
  <2> QED
    BY <2>1, <2>2
<1>12. CASE ApiCrashes
  BY <1>12 DEF ApiCrashes
<1>13. CASE
            \/ ApiWakes \/ ApiBound \/ ApiCloses \/ ApiStops
            \/ Signal
            \/ UNCHANGED vars
            \/ (\E p \in Plane : Forget(p))
            \/ (\E c \in Udp : Datagram(c))
            \/ (\E c \in Tcp : Connect(c) \/ Message(c) \/ PeerCloses(c))
            \/ (\E c \in Client : Handled(c))
  <2>1. UNCHANGED <<main, dns, request, sound, accepting, populated, readied>>
    BY <1>13 DEF ApiBound, ApiCloses, ApiStops, ApiWakes, Connect, Datagram,
           Forget, Handled, Message, PeerCloses, Signal, vars
  <2> QED
    BY <2>1
<1> QED
  BY <1>1, <1>2, <1>3, <1>4, <1>5, <1>6, <1>7, <1>8, <1>9, <1>10, <1>11,
     <1>12, <1>13
  DEF Next, MainStep, DnsStep, ApiStep

\* The invariant holds in every reachable state.
LEMMA LInvariance == Spec => []LInv
<1>1. Init => LInv
  <2> SUFFICES ASSUME Init
               PROVE  LInv
    OBVIOUS
  <2>1. TypeOK
    BY DEF Init, TypeOK
  <2>2. Bound
    BY DEF Init, Bound
  <2>3. Cause
    BY DEF Init, Cause, Plane
  <2>4. Noticed
    BY DEF Init, Noticed, Booting, ShuttingDown
  <2>5. Shut
    BY DEF Init, Shut, ShuttingDown
  <2>6. Validated
    BY DEF Init, Validated, Booting, Running
  <2>7. Ready
    BY DEF Init, Ready
  <2>8. Faulted /\ Escaped
    BY DEF Init, Faulted, Escaped
  <2> QED
    BY <2>1, <2>2, <2>3, <2>4, <2>5, <2>6, <2>7, <2>8 DEF LInv
<1>2. LInv /\ [Next]_vars => LInv'
  BY LifecycleTypes, BoundStep, CauseStep, NoticedStep, ShutStep,
     ValidatedStep, FaultedStep, EscapedStep, ReadyStep DEF LInv
<1> QED
  BY <1>1, <1>2, PTL DEF Spec

\* The state of the process is well typed, for any budget and any clients.
THEOREM LifecycleTypeCorrect == Spec => []TypeOK
BY LInvariance, PTL DEF LInv

\* Rfc2136Server.is_accepting is true only while both sockets are open.
THEOREM ReadinessIsHonest == Spec => []ReadyMeansBound
<1>1. LInv => ReadyMeansBound
  BY DEF LInv, Bound, ReadyMeansBound
<1> QED
  BY LInvariance, <1>1, PTL

\* A 200 from /readyz is earned, and its grounds last: the sockets and the cache
\* to the end of the process, is_accepting until shutdown is noticed.
THEOREM ReadinessLasts == Spec => []ReadyIsEarned
<1>1. LInv => ReadyIsEarned
  BY DEF LInv, Bound, Ready, ReadyIsEarned
<1> QED
  BY LInvariance, <1>1, PTL

\* The exit code of main() says what ended the process: 1 without an exhausted
\* plane takes a signal and a crash before it, an uncaught exception one of three
\* named causes.
THEOREM ExitCodesAreExplained == Spec => []ExitCodeExplained
<1>1. LInv => ExitCodeExplained
  BY DEF LInv, TypeOK, Cause, Noticed, Validated, Faulted, Escaped,
         ExitCodeExplained
<1> QED
  BY LInvariance, <1>1, PTL

\* stop_accepting and drain() leave no request under way when the pool is
\* closed, unless serve() went on binding.
THEOREM DrainIsComplete == Spec => []DrainedUnlessLateBind
<1>1. LInv => DrainedUnlessLateBind
  BY DEF LInv, Shut, ShuttingDown, InFlight, DrainedUnlessLateBind
<1> QED
  BY LInvariance, <1>1, PTL
=============================================================================
