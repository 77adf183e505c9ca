----------------------------- MODULE Instances -----------------------------
(***************************************************************************)
(* Instances of the service on one machine: Service.start and Service.stop *)
(* (service.py), _run (__main__.py) and the lifecycle of the control       *)
(* socket (control/server.py).  They share two resources, the path of the  *)
(* Unix socket and the TCP port.  Nothing but the socket tells an instance *)
(* that another one is running.                                            *)
(*                                                                         *)
(* The steps of one instance are the system calls that touch those two     *)
(* resources; the calls of different instances interleave.                 *)
(***************************************************************************)
EXTENDS Naturals

CONSTANTS
  Processes,  \* instances of `wol-unlock`; one that has ended may start again
  NoProcess   \* nobody

ASSUME InstancesAssumption == Processes \cap {NoProcess, "none", "stale"} = {}

VARIABLES
  stage,      \* how far each instance has come in start() or stop()
  file,       \* whose socket the path names: an instance, "none" or "stale"
  listening,  \* instances whose control server accepts connections
  port        \* the instance that holds the TCP port

vars == <<stage, file, listening, port>>

Stages == {"off",       \* not running
           "opened",    \* database open; next, ControlServer.start
           "stale",     \* the path exists and nobody answers: next, unlink
           "clear",     \* next, bind the socket
           "bound",     \* next, HttpServer.start
           "serving",   \* started
           "failed",    \* start() raised: next, stop()
           "stopping",  \* stop(): next, HttpServer.stop
           "closing",   \* next, close the control server
           "closed"}    \* wait_closed; next, unlink the path

TypeOK ==
  /\ stage \in [Processes -> Stages]
  /\ file \in Processes \cup {"none", "stale"}
  /\ listening \subseteq Processes
  /\ port \in Processes \cup {NoProcess}

Init ==
  /\ stage = [p \in Processes |-> "off"]
  /\ file = "none"
  /\ listening = {}
  /\ port = NoProcess

Goes(p, from, to) ==
  /\ stage[p] \in from
  /\ stage' = [stage EXCEPT ![p] = to]

-----------------------------------------------------------------------------
(* Service.start.                                                          *)

\* The identity is loaded and the database opened.
Open(p) ==
  /\ Goes(p, {"off"}, "opened")
  /\ UNCHANGED <<file, listening, port>>

ProbeBy(p, live) ==
  /\ Goes(p, {"opened"}, IF file = "none" THEN "clear" ELSE IF live THEN "failed" ELSE "stale")
  /\ UNCHANGED <<file, listening, port>>

\* Mutant: a path that exists is taken for a running instance.
ProbeExists(p) == ProbeBy(p, TRUE)

\* _unlink_stale: does the path exist, and does anybody answer on it?
Probe(p) == ProbeBy(p, file \in listening)

\* _unlink_stale: nobody did.
UnlinkStale(p) ==
  /\ Goes(p, {"stale"}, "clear")
  /\ file' = "none"
  /\ UNCHANGED <<listening, port>>

\* asyncio.start_unix_server: replaces a socket found at the path.
Bind(p) ==
  /\ Goes(p, {"clear"}, "bound")
  /\ file' = p
  /\ listening' = listening \cup {p}
  /\ UNCHANGED port

\* HttpServer.start: the port may be held by another instance.
BindPort(p) ==
  /\ \/ port = NoProcess /\ port' = p /\ Goes(p, {"bound"}, "serving")
     \/ port # NoProcess /\ port' = port /\ Goes(p, {"bound"}, "failed")
  /\ UNCHANGED <<file, listening>>

-----------------------------------------------------------------------------
(* Service.stop, after a signal or when start() raised.                    *)

Stop(p) ==
  /\ Goes(p, {"serving", "failed"}, "stopping")
  /\ UNCHANGED <<file, listening, port>>

ReleasePort(p) ==
  /\ Goes(p, {"stopping"}, "closing")
  /\ port' = IF port = p THEN NoProcess ELSE port
  /\ UNCHANGED <<file, listening>>

\* From Python 3.13 on, closing a server also removes its own socket file.
CloseServer(p) ==
  /\ Goes(p, {"closing"}, "closed")
  /\ listening' = listening \ {p}
  /\ file' \in {file} \cup (IF file = p THEN {"none"} ELSE {})
  /\ UNCHANGED port

\* Mutant: the socket file is left where it is.
LeaveSocket(p) ==
  /\ Goes(p, {"closed"}, "off")
  /\ UNCHANGED <<file, listening, port>>

\* ControlServer.stop ends with path.unlink(missing_ok=True), also when its own
\* start() raised because the socket is another instance's.
UnlinkSocket(p) ==
  /\ Goes(p, {"closed"}, "off")
  /\ file' = "none"
  /\ UNCHANGED <<listening, port>>

\* The process dies; the kernel closes its sockets, the path stays.
Crash(p) ==
  /\ Goes(p, Stages \ {"off"}, "off")
  /\ file' = IF file = p THEN "stale" ELSE file
  /\ listening' = listening \ {p}
  /\ port' = IF port = p THEN NoProcess ELSE port

\* Everything dies, and the runtime directory was in memory.
PowerLoss ==
  /\ stage' = [p \in Processes |-> "off"]
  /\ file' = "none"
  /\ listening' = {}
  /\ port' = NoProcess

Step(p) ==
  \/ Open(p)
  \/ Probe(p)
  \/ UnlinkStale(p)
  \/ Bind(p)
  \/ BindPort(p)
  \/ Stop(p)
  \/ ReleasePort(p)
  \/ CloseServer(p)
  \/ UnlinkSocket(p)
  \/ Crash(p)

Next == PowerLoss \/ \E p \in Processes : Step(p)

Spec == Init /\ [][Next]_vars

-----------------------------------------------------------------------------
(* Properties.                                                             *)

\* An instance that has ended, however far its start had come, holds neither the port
\* nor a server, and the socket file is its own only if it died.
StoppedHoldsNothing ==
  \A p \in Processes : stage[p] = "off" => p \notin listening /\ port # p /\ file # p

\* control/server.py:78, "otherwise a second instance would silently steal the
\* socket from a healthy one": an instance that stops, or that failed to start,
\* leaves the socket of a serving instance alone.
HealthyKeepsSocket ==
  [][\A p, q \in Processes :
       UnlinkSocket(q) /\ file = p /\ stage[p] = "serving" => file' = p]_vars

=============================================================================
