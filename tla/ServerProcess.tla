---------------------------- MODULE ServerProcess ----------------------------
(***************************************************************************)
(* One server process from its start to its exit (server.ts): the gate of  *)
(* the worker (src/lib/worker-startup.ts, src/lib/simulation/safety.ts),   *)
(* requests, sockets and the worker's polls side by side, and the shutdown *)
(* that a signal begins at any moment of them; and which match rooms a     *)
(* socket is in (src/lib/socket-server.ts, the connection handler).        *)
(*                                                                         *)
(* Requests may last for ever.  Node tells the HTTP server's callback when *)
(* no request and no socket is left; Socket.IO detaches from it some time  *)
(* after it was asked to close, and until then a request that is still     *)
(* open may become a socket.  The rejection of startWorker is left out: no *)
(* poll causes it.                                                         *)
(***************************************************************************)
EXTENDS WorkerSchedule

CONSTANTS
    Sockets,            \* connections
    Matches,            \* match identifiers
    Malformed,          \* what a request carries when it is none
    SHUTDOWN_TIMEOUT,   \* time a shutdown may take
    MaxRequests         \* bound on the requests that are open at once

ASSUME RoomsAssumption == Malformed \notin Matches
ASSUME ServerAssumption == SHUTDOWN_TIMEOUT \in Nat /\ MaxRequests \in Nat

VARIABLES
    connected,  \* the sockets that are connected
    requested,  \* requestedMatches of each socket's handler
    waiting,    \* subscriptions that wait for their access, <<socket, match>>
    rooms,      \* the matches whose room the socket is in
    phase,      \* "preparing", "cleaning", "serving", "stopping", "exited"
    shouldStart, simulated,     \* what the gate has decided
    requests,   \* open HTTP requests
    http, io,   \* the two servers: "open", "closing", "closed"
    pendingClosures,
    exitCode,
    deadline    \* the instant at which the exit is forced

roomsVars == <<connected, requested, waiting, rooms>>

serverVars == <<phase, shouldStart, simulated, requests, http, io,
                pendingClosures, exitCode, deadline>>

allVars == <<workerVars, roomsVars, serverVars>>

-----------------------------------------------------------------------------
(* The rooms.  A subscription replaces the socket's requests, waits for the *)
(* match's access, and joins; the socket may ask for another match,         *)
(* unsubscribe or disconnect while it waits, and several subscriptions may  *)
(* be waiting.  Whether a lookup grants access is left open: MatchRealtime  *)
(* says what it reads.                                                      *)

Ids == Matches \cup {Malformed}

RoomsInit ==
    /\ connected = {}
    /\ requested = [s \in Sockets |-> {}]
    /\ waiting = {}
    /\ rooms = [s \in Sockets |-> {}]

\* A reconnection is a new socket; its handler starts with no request.  (A
\* subscription of the old one that still waits finds that request set empty.)
Connect(s) ==
    /\ s \notin connected
    /\ \A m \in Ids : <<s, m>> \notin waiting
    /\ connected' = connected \cup {s}
    /\ UNCHANGED <<requested, waiting, rooms>>

\* A request without an identifier is ignored.
ValidId(m) == m \in Matches

\* Only the rooms of requested matches are left; nothing else is joined.
LeaveOthers(s, m) == rooms[s] \ (requested[s] \ {m})

Subscribe(s, m) ==
    /\ s \in connected
    /\ ValidId(m)
    /\ rooms' = [rooms EXCEPT ![s] = LeaveOthers(s, m)]
    /\ requested' = [requested EXCEPT ![s] = {m}]
    /\ waiting' = waiting \cup {<<s, m>>}
    /\ UNCHANGED connected

\* A mutation: the request is not looked at again.
NotLookedAt(s, m) == TRUE

\* The request may have been withdrawn while its access was looked up.
StillRequested(s, m) == m \in requested[s]

\* The access is known.  Other subscriptions of the same socket to the same
\* match may go on waiting.
Answered(s, m) ==
    /\ <<s, m>> \in waiting
    /\ \E again \in BOOLEAN : waiting' = IF again THEN waiting ELSE waiting \ {<<s, m>>}
    /\ \E granted \in BOOLEAN :
         rooms' = IF granted /\ StillRequested(s, m)
                  THEN [rooms EXCEPT ![s] = @ \cup {m}] ELSE rooms
    /\ UNCHANGED <<connected, requested>>

Unsubscribe(s, m) ==
    /\ s \in connected
    /\ ValidId(m)
    /\ requested' = [requested EXCEPT ![s] = @ \ {m}]
    /\ rooms' = [rooms EXCEPT ![s] = @ \ {m}]
    /\ UNCHANGED <<connected, waiting>>

\* The server leaves the rooms of a socket that disconnects.
Disconnect(s) ==
    /\ s \in connected
    /\ connected' = connected \ {s}
    /\ requested' = [requested EXCEPT ![s] = {}]
    /\ rooms' = [rooms EXCEPT ![s] = {}]
    /\ UNCHANGED waiting

RoomsNext ==
    \E s \in Sockets :
        \/ Connect(s) \/ Disconnect(s)
        \/ \E m \in Ids : Subscribe(s, m) \/ Answered(s, m) \/ Unsubscribe(s, m)

RoomsSpec == RoomsInit /\ [][RoomsNext]_roomsVars

-----------------------------------------------------------------------------
(* The gate                                                                *)

\* What the process may be started with.
Environments ==
    [production : BOOLEAN, requested : BOOLEAN, acknowledged : BOOLEAN,
     simulation : BOOLEAN,
     database : {"disposable", "staging", "production", "unknown"}]

\* getWorkerStartupDecision
StartupState(e) ==
    CASE ~e.requested -> "disabled"
      [] e.requested /\ e.database = "unknown" -> "blocked"
      [] e.requested /\ e.database = "production"
           /\ ~e.production /\ ~e.acknowledged -> "blocked"
      [] OTHER -> "enabled"

\* getSimulationDatabaseSafetyDecision; local, development and test databases
\* are disposable.
SimulationAllowed(e) == ~e.production /\ e.database = "disposable"

MayServe(e) ==
    /\ StartupState(e) # "blocked"
    /\ e.simulation /\ StartupState(e) = "enabled" => SimulationAllowed(e)

ServerInit ==
    /\ WorkerInit /\ RoomsInit
    /\ phase = "preparing"
    /\ shouldStart = FALSE /\ simulated = FALSE
    /\ requests = 0
    /\ http = "open" /\ io = "open"
    /\ pendingClosures = 2
    /\ exitCode = 0
    /\ deadline = Never

-----------------------------------------------------------------------------
(* Start                                                                   *)

Exit(code) == phase' = "exited" /\ exitCode' = code

\* The modules are loaded and the environment is looked at.  With a simulation
\* the matches of an earlier one are removed first.
Prepared ==
    /\ phase = "preparing"
    /\ \E e \in Environments :
         \/ /\ ~MayServe(e)
            /\ Exit(1)
            /\ UNCHANGED <<shouldStart, simulated>>
         \/ /\ MayServe(e)
            /\ shouldStart' = (StartupState(e) = "enabled")
            /\ simulated' = (e.simulation /\ shouldStart')
            /\ phase' = "cleaning"
            /\ UNCHANGED exitCode
    /\ UNCHANGED <<requests, http, io, pendingClosures, deadline, workerVars, roomsVars>>

\* cleanupOrphanedSimData is over or was not called; the worker starts and the
\* server listens.
Serve ==
    /\ phase = "cleaning"
    /\ phase' = "serving"
    /\ IF shouldStart THEN startWorker ELSE UNCHANGED workerVars
    /\ UNCHANGED <<shouldStart, simulated, requests, http, io, pendingClosures,
                   exitCode, deadline, roomsVars>>

\* The cleaning fails, or a signal comes before it is listened for.
FailToStart ==
    /\ \/ phase = "cleaning" /\ simulated
       \/ phase = "preparing"
    /\ Exit(1)
    /\ UNCHANGED <<shouldStart, simulated, requests, http, io, pendingClosures,
                   deadline, workerVars, roomsVars>>

-----------------------------------------------------------------------------
(* Service                                                                 *)

Up == phase \in {"serving", "stopping"}

RequestBegins ==
    /\ phase = "serving"
    /\ requests < MaxRequests
    /\ requests' = requests + 1
    /\ UNCHANGED <<phase, shouldStart, simulated, http, io, pendingClosures,
                   exitCode, deadline, workerVars, roomsVars>>

RequestEnds ==
    /\ Up /\ requests > 0
    /\ requests' = requests - 1
    /\ UNCHANGED <<phase, shouldStart, simulated, http, io, pendingClosures,
                   exitCode, deadline, workerVars, roomsVars>>

\* A socket comes in through the HTTP server.
SocketConnects ==
    /\ Up
    /\ http = "open" \/ (io = "closing" /\ requests > 0)
    /\ \E s \in Sockets : Connect(s)
    /\ UNCHANGED <<workerVars, serverVars>>

SocketActs ==
    /\ Up
    /\ \E s \in Sockets :
         \/ Disconnect(s)
         \/ \E m \in Ids : Subscribe(s, m) \/ Answered(s, m) \/ Unsubscribe(s, m)
    /\ UNCHANGED <<workerVars, serverVars>>

WorkerActs ==
    /\ Up
    /\ PollEnds \/ ScheduleNext(simulated) \/ TimerFires
    /\ UNCHANGED <<roomsVars, serverVars>>

TimePasses ==
    /\ Up
    /\ Tick
    /\ UNCHANGED <<roomsVars, serverVars>>

-----------------------------------------------------------------------------
(* Shutdown                                                                *)

\* disconnectSockets: every handler sees its socket disconnect.
DisconnectsSockets ==
    /\ connected' = {}
    /\ requested' = [s \in Sockets |-> {}]
    /\ rooms' = [s \in Sockets |-> {}]
    /\ UNCHANGED waiting

\* SIGTERM or SIGINT; the second of them finds shutdownStarted.
Shutdown ==
    /\ phase = "serving"
    /\ now + SHUTDOWN_TIMEOUT < MaxClock
    /\ phase' = "stopping"
    /\ IF shouldStart THEN stopWorker ELSE UNCHANGED workerVars
    /\ deadline' = now + SHUTDOWN_TIMEOUT
    /\ http' = "closing" /\ io' = "closing"
    /\ DisconnectsSockets
    /\ UNCHANGED <<shouldStart, simulated, requests, pendingClosures, exitCode>>

AllClosed == pendingClosures' = 0

\* The callback of either closure.
Closed(failed) ==
    LET code == IF failed THEN 1 ELSE exitCode
    IN  /\ pendingClosures' = pendingClosures - 1
        /\ exitCode' = code
        /\ phase' = IF AllClosed THEN "exited" ELSE phase
        /\ deadline' = IF AllClosed THEN Never ELSE deadline

Drained == requests = 0 /\ connected = {}

HttpCloses ==
    /\ phase = "stopping" /\ http = "closing" /\ Drained
    /\ http' = "closed"
    /\ \E failed \in BOOLEAN : Closed(failed)
    /\ UNCHANGED <<shouldStart, simulated, requests, io, workerVars, roomsVars>>

\* Socket.IO detaches: sockets that came after disconnectSockets go, too.
SocketServerDetaches ==
    /\ phase = "stopping" /\ io = "closing"
    /\ io' = "detached"
    /\ DisconnectsSockets
    /\ UNCHANGED <<phase, shouldStart, simulated, requests, http, pendingClosures,
                   exitCode, deadline, workerVars>>

SocketServerCloses ==
    /\ phase = "stopping" /\ io = "detached"
    /\ io' = "closed"
    /\ Closed(FALSE)
    /\ UNCHANGED <<shouldStart, simulated, requests, http, workerVars, roomsVars>>

\* A mutation: nothing limits the shutdown.
NoDeadline == FALSE

DeadlineReached == deadline <= now

ForcedExit ==
    /\ phase = "stopping"
    /\ DeadlineReached
    /\ Exit(1)
    /\ UNCHANGED <<shouldStart, simulated, requests, http, io, pendingClosures,
                   deadline, workerVars, roomsVars>>

ServerNext ==
    \/ Prepared \/ Serve \/ FailToStart
    \/ RequestBegins \/ RequestEnds \/ SocketConnects \/ SocketActs
    \/ WorkerActs \/ TimePasses
    \/ Shutdown \/ HttpCloses \/ SocketServerDetaches \/ SocketServerCloses
    \/ ForcedExit

\* Time passes and a due timer is run; nothing is said of requests, lookups or
\* closures.
ServerSpec ==
    /\ ServerInit /\ [][ServerNext]_allVars
    /\ WF_allVars(TimePasses) /\ WF_allVars(ForcedExit)

-----------------------------------------------------------------------------
(* Properties                                                              *)

\* The state is of the declared shape (the sets of the connection handler).
RoomsTypeOK ==
    /\ connected \subseteq Sockets
    /\ requested \in [Sockets -> SUBSET Matches]
    /\ waiting \subseteq Sockets \X Matches
    /\ rooms \in [Sockets -> SUBSET Matches]

\* A socket receives events of at most one match, the one it asked for last,
\* however late the answers to its earlier subscriptions come; none once it
\* has unsubscribed or gone (match:subscribe and disconnect).
RoomsFollowRequests ==
    \A s \in Sockets :
        /\ rooms[s] \subseteq requested[s]
        /\ \A m, n \in requested[s] : m = n
        /\ s \notin connected => requested[s] = {}

ServerTypeOK ==
    /\ WorkerTypeOK /\ RoomsTypeOK
    /\ phase \in {"preparing", "cleaning", "serving", "stopping", "exited"}
    /\ shouldStart \in BOOLEAN /\ simulated \in BOOLEAN
    /\ requests \in 0..MaxRequests
    /\ http \in {"open", "closing", "closed"}
    /\ io \in {"open", "closing", "detached", "closed"}
    /\ pendingClosures \in 0..2 /\ exitCode \in 0..1
    /\ deadline \in Nat \cup {Never}

\* A shutdown that reports success has cut nothing off: every request was
\* answered and every socket has gone, also one that came in while the servers
\* were closing (the pending closures and the exit code).
SuccessMeansDrained == phase = "exited" /\ exitCode = 0 => Drained

\* A shutdown ends, whatever requests, sockets and polls do.
ShutdownEnds == phase = "stopping" ~> phase = "exited"

=============================================================================
