------------------------ MODULE ServerProcess_proofs ------------------------
(***************************************************************************)
(* What ServerProcess promises for any intervals, any time and any sockets.*)
(* Every step of the process is a step of its worker or leaves the worker  *)
(* alone, and the same holds for its sockets and for its servers, so each  *)
(* part has an invariant of its own.                                       *)
(***************************************************************************)
EXTENDS ServerProcess, TLAPS

-----------------------------------------------------------------------------
(* The rooms, by themselves: for any sockets and matches                   *)

\* What each step preserves: the shape of the state and the property itself,
\* which is inductive (the connection handler of socket-server.ts).
IInv == RoomsTypeOK /\ RoomsFollowRequests

\* Initially no socket is connected and nothing is requested.
LEMMA InitEstablishes == RoomsInit => IInv
  BY DEF RoomsInit, IInv, RoomsTypeOK, RoomsFollowRequests

\* Every step of the connection handler preserves the invariant.
LEMMA StepPreserves == IInv /\ [RoomsNext]_roomsVars => IInv'
<1> SUFFICES ASSUME IInv, [RoomsNext]_roomsVars PROVE IInv'
  OBVIOUS
<1> USE DEF IInv
<1>1. ASSUME NEW s \in Sockets, Connect(s) PROVE IInv'
  BY <1>1 DEF Connect, RoomsTypeOK, RoomsFollowRequests
<1>2. ASSUME NEW s \in Sockets, Disconnect(s) PROVE IInv'
  BY <1>2 DEF Disconnect, RoomsTypeOK, RoomsFollowRequests
<1>3. ASSUME NEW s \in Sockets, NEW m \in Ids, Subscribe(s, m) PROVE IInv'
  <2>1. RoomsTypeOK'
    BY <1>3 DEF Subscribe, ValidId, LeaveOthers, RoomsTypeOK
  <2>2. \A t \in Sockets \ {s} :
            rooms'[t] = rooms[t] /\ requested'[t] = requested[t]
    BY <1>3 DEF Subscribe, RoomsTypeOK
  <2>3. requested'[s] = {m} /\ rooms'[s] = rooms[s] \ (requested[s] \ {m})
    BY <1>3 DEF Subscribe, LeaveOthers, RoomsTypeOK
  <2>4. connected' = connected /\ s \in connected
    BY <1>3 DEF Subscribe
  <2>5. RoomsFollowRequests'
    BY <2>2, <2>3, <2>4 DEF RoomsFollowRequests
  <2> QED
    BY <2>1, <2>5
<1>4. ASSUME NEW s \in Sockets, NEW m \in Ids, Answered(s, m) PROVE IInv'
  <2>1. waiting' \subseteq waiting
    BY <1>4 DEF Answered
  <2>2. \/ rooms' = rooms
        \/ m \in requested[s] /\ rooms' = [rooms EXCEPT ![s] = @ \cup {m}]
    BY <1>4 DEF Answered, StillRequested
  <2>3. UNCHANGED <<connected, requested>>
    BY <1>4 DEF Answered
  <2>4. RoomsTypeOK'
    BY <2>1, <2>2, <2>3 DEF RoomsTypeOK
  <2>5. RoomsFollowRequests'
    BY <2>2, <2>3 DEF RoomsTypeOK, RoomsFollowRequests
  <2> QED
    BY <2>4, <2>5
<1>5. ASSUME NEW s \in Sockets, NEW m \in Ids, Unsubscribe(s, m) PROVE IInv'
  BY <1>5 DEF Unsubscribe, RoomsTypeOK, RoomsFollowRequests
<1>6. CASE UNCHANGED roomsVars
  BY <1>6 DEF roomsVars, RoomsTypeOK, RoomsFollowRequests
<1> QED
  BY <1>1, <1>2, <1>3, <1>4, <1>5, <1>6 DEF RoomsNext

\* A socket is only ever in the room of the match it asked for last, and in
\* none once it has gone, whatever the order of the answers.
THEOREM OneRoomPerSocket == RoomsSpec => []RoomsFollowRequests
<1>1. RoomsInit => IInv
  BY InitEstablishes
<1>2. IInv /\ [RoomsNext]_roomsVars => IInv'
  BY StepPreserves
<1>3. IInv => RoomsFollowRequests
  BY DEF IInv
<1> QED
  BY <1>1, <1>2, <1>3, PTL DEF RoomsSpec

-----------------------------------------------------------------------------
(* The worker                                                              *)

WorkerStep ==
    \/ startWorker \/ PollEnds \/ ScheduleNext(simulated) \/ TimerFires
    \/ stopWorker \/ Tick

\* What the record says at each place of the chain, and how far apart the end
\* of a poll, the timer and the beginning of the next one can be when all are
\* punctual.
ChainFits ==
    /\ chain = "none" =>
         ~isRunning /\ health.last = Never /\ health.started = Never /\ extra = 0
    /\ (chain = "poll") = (health.started # Never)
    /\ chain = "poll" => health.started <= now
    /\ chain = "poll" /\ punctual => now < health.started + MAX_ACTIVE_POLL
    /\ chain = "poll" /\ health.last # Never =>
         /\ health.interval \in Intervals
         /\ health.last <= health.started
         /\ punctual => health.started <= health.last + health.interval + 2 * MaxLag
    /\ chain = "lookup" => health.last # Never /\ health.last <= now
    /\ chain = "lookup" /\ punctual => now <= health.last + MaxLag
    /\ chain = "timer" =>
         /\ health.last # Never /\ health.last <= now
         /\ health.interval \in Intervals
         /\ pollTimer # Never
    /\ chain = "timer" /\ punctual =>
         /\ pollTimer <= health.last + MaxLag + health.interval
         /\ now <= pollTimer + MaxLag

\* A worker polls once after it was stopped, at most.
StopFits ==
    /\ isRunning => extra = 0
    /\ StoppedWorkerStops

WorkerInv == WorkerTypeOK /\ ChainFits /\ StopFits

\* Instants are numbers, and Never is none of them (the assumptions on the
\* constants of WorkerSchedule).
LEMMA InstantsAreNumbers ==
    /\ Instants \subseteq Nat
    /\ Never \notin Instants
    /\ 0 \in Instants
    /\ \A i \in Intervals : i \in Nat /\ i > 0 /\ 2 * MaxLag < i
  BY ScheduleAssumption DEF Instants

\* The record starts empty.
LEMMA WorkerInitEstablishes == WorkerInit => WorkerInv
<1> SUFFICES ASSUME WorkerInit PROVE WorkerInv
  OBVIOUS
<1> USE DEF WorkerInit
<1>1. /\ health.last = Never /\ health.started = Never /\ health.status = "pending"
      /\ health.interval = 0
  OBVIOUS
<1>2. WorkerTypeOK
  BY InstantsAreNumbers DEF WorkerTypeOK
<1>3. ChainFits
  BY <1>1 DEF ChainFits
<1>4. StopFits
  BY DEF StopFits, StoppedWorkerStops
<1> QED
  BY <1>2, <1>3, <1>4 DEF WorkerInv

\* A poll begins: at the start, or when the timer fires.
LEMMA BeginningPreserves ==
    ASSUME WorkerInv, startWorker \/ TimerFires
    PROVE  WorkerInv'
<1> USE InstantsAreNumbers, ScheduleAssumption
<1>1. CASE startWorker
  <2>1. /\ health' = [health EXCEPT !.started = now]
        /\ chain' = "poll" /\ extra' = 0 /\ isRunning' = TRUE
        /\ UNCHANGED <<now, pollTimer, punctual>>
        /\ health.last = Never
    BY <1>1 DEF startWorker, BeginPoll, Begun, WorkerInv, WorkerTypeOK, ChainFits
  <2>2. WorkerTypeOK'
    BY <2>1 DEF WorkerInv, WorkerTypeOK
  <2>3. ChainFits' /\ StopFits'
    BY <2>1 DEF WorkerInv, WorkerTypeOK, ChainFits, StopFits, StoppedWorkerStops
  <2> QED
    BY <2>2, <2>3 DEF WorkerInv
<1>2. CASE TimerFires
  <2>1. /\ health' = [health EXCEPT !.started = now]
        /\ chain = "timer" /\ chain' = "poll"
        /\ UNCHANGED <<now, pollTimer, punctual, isRunning>>
        /\ pollTimer <= now
    BY <1>2 DEF TimerFires, BeginPoll, Begun, WorkerInv, WorkerTypeOK, ChainFits
  <2>2. extra' = extra + (IF isRunning THEN 0 ELSE 1) /\ extra = 0
    BY <1>2, <2>1 DEF TimerFires, BeginPoll, WorkerInv, WorkerTypeOK, StopFits,
       StoppedWorkerStops
  <2>3. WorkerTypeOK'
    BY <2>1, <2>2 DEF WorkerInv, WorkerTypeOK
  <2>4. ChainFits'
    BY <2>1 DEF WorkerInv, WorkerTypeOK, ChainFits
  <2>5. StopFits'
    BY <2>1, <2>2 DEF WorkerInv, WorkerTypeOK, StopFits, StoppedWorkerStops
  <2> QED
    BY <2>3, <2>4, <2>5 DEF WorkerInv
<1> QED
  BY <1>1, <1>2

\* The outcome of a poll is one of the statuses.
LEMMA AggregateIsStatus ==
    ASSUME NEW outcomes PROVE Aggregate(outcomes) \in Statuses
  BY DEF Aggregate, Statuses

\* A poll ends, and the next one is scheduled.
LEMMA EndPreserves ==
    ASSUME WorkerInv, PollEnds \/ ScheduleNext(simulated)
    PROVE  WorkerInv'
<1> USE InstantsAreNumbers, ScheduleAssumption
<1>1. CASE PollEnds
  <2>1. PICK status \in Statuses :
            health' = [health EXCEPT !.last = now, !.started = Never, !.status = status]
    BY <1>1, AggregateIsStatus DEF PollEnds, Recorded
  <2>2. /\ chain = "poll" /\ chain' = IF isRunning THEN "lookup" ELSE "ended"
        /\ UNCHANGED <<now, isRunning, pollTimer, punctual, extra>>
    BY <1>1 DEF PollEnds, AfterPoll
  <2>3. WorkerTypeOK'
    BY <2>1, <2>2 DEF WorkerInv, WorkerTypeOK
  <2>4. ChainFits'
    BY <2>1, <2>2 DEF WorkerInv, WorkerTypeOK, ChainFits
  <2>5. StopFits'
    BY <2>2 DEF WorkerInv, WorkerTypeOK, StopFits, StoppedWorkerStops
  <2> QED
    BY <2>3, <2>4, <2>5 DEF WorkerInv
<1>2. CASE ScheduleNext(simulated)
  <2>1. PICK i \in Intervals :
            health' = [health EXCEPT !.interval = i] /\ pollTimer' = now + i
    BY <1>2 DEF ScheduleNext, getPollingInterval, Intervals
  <2>2. /\ chain = "lookup" /\ chain' = "timer"
        /\ UNCHANGED <<now, isRunning, punctual, extra>>
    BY <1>2 DEF ScheduleNext
  <2>3. WorkerTypeOK'
    BY <2>1, <2>2 DEF WorkerInv, WorkerTypeOK
  <2>4. ChainFits'
    BY <2>1, <2>2 DEF WorkerInv, WorkerTypeOK, ChainFits
  <2>5. StopFits'
    BY <2>2 DEF WorkerInv, WorkerTypeOK, StopFits, StoppedWorkerStops
  <2> QED
    BY <2>3, <2>4, <2>5 DEF WorkerInv
<1> QED
  BY <1>1, <1>2

\* The worker is stopped, or time passes.
LEMMA StopAndTickPreserve ==
    ASSUME WorkerInv, stopWorker \/ Tick
    PROVE  WorkerInv'
<1> USE InstantsAreNumbers, ScheduleAssumption
<1>1. CASE stopWorker
  <2>1. WorkerTypeOK'
    BY <1>1 DEF stopWorker, AfterStop, WorkerInv, WorkerTypeOK
  <2>2. ChainFits'
    BY <1>1 DEF stopWorker, AfterStop, WorkerInv, WorkerTypeOK, ChainFits
  <2>3. StopFits'
    BY <1>1 DEF stopWorker, AfterStop, WorkerInv, WorkerTypeOK, StopFits,
       StoppedWorkerStops
  <2> QED
    BY <2>1, <2>2, <2>3 DEF WorkerInv
<1>2. CASE Tick
  <2>1. WorkerTypeOK'
    BY <1>2 DEF Tick, WorkerInv, WorkerTypeOK, Instants
  <2>2. ChainFits'
    <3>1. /\ now' = now + 1 /\ UNCHANGED <<isRunning, pollTimer, health, chain, extra>>
          /\ now \in Nat /\ now' \in Nat
          /\ punctual' = (punctual /\ OnTime(now + 1))
      BY <1>2 DEF Tick, WorkerInv, WorkerTypeOK
    <3>2. /\ health.last \in Nat \cup {Never} /\ health.started \in Nat \cup {Never}
          /\ pollTimer \in Nat \cup {Never}
      BY DEF WorkerInv, WorkerTypeOK
    <3>3. punctual' => punctual
      BY <3>1
    <3>4. punctual' => OnTime(now + 1)
      BY <3>1
    <3>5. punctual' =>
            /\ chain = "poll" => now' < health.started + MAX_ACTIVE_POLL
            /\ chain = "lookup" => now' <= health.last + MaxLag
            /\ chain = "timer" => now' <= pollTimer + MaxLag
      BY <3>1, <3>4 DEF OnTime
    <3>6. ChainFits
      BY DEF WorkerInv
    <3>7. CASE chain = "poll"
      BY <3>1, <3>2, <3>3, <3>5, <3>6, <3>7 DEF ChainFits
    <3>8. CASE chain = "lookup"
      BY <3>1, <3>2, <3>3, <3>5, <3>6, <3>8 DEF ChainFits
    <3>9. CASE chain = "timer"
      BY <3>1, <3>2, <3>3, <3>5, <3>6, <3>9 DEF ChainFits
    <3>10. CASE chain \notin {"poll", "lookup", "timer"}
      BY <3>1, <3>6, <3>10 DEF ChainFits
    <3> QED
      BY <3>7, <3>8, <3>9, <3>10
  <2>3. StopFits'
    BY <1>2 DEF Tick, WorkerInv, StopFits, StoppedWorkerStops
  <2> QED
    BY <2>1, <2>2, <2>3 DEF WorkerInv
<1> QED
  BY <1>1, <1>2

\* Every step of the process is a step of the worker or none of its.
LEMMA WorkerSteps == ASSUME [ServerNext]_allVars PROVE [WorkerStep]_workerVars
<1>1. CASE Serve
  BY <1>1 DEF Serve, WorkerStep
<1>2. CASE Shutdown
  BY <1>2 DEF Shutdown, WorkerStep
<1>3. CASE WorkerActs
  BY <1>3 DEF WorkerActs, WorkerStep
<1>4. CASE TimePasses
  BY <1>4 DEF TimePasses, WorkerStep
<1>5. CASE Prepared \/ FailToStart \/ RequestBegins \/ RequestEnds
           \/ SocketConnects \/ SocketActs \/ HttpCloses
           \/ SocketServerDetaches \/ SocketServerCloses \/ ForcedExit
  BY <1>5 DEF Prepared, FailToStart, RequestBegins, RequestEnds, SocketConnects,
     SocketActs, HttpCloses, SocketServerDetaches, SocketServerCloses, ForcedExit
<1>6. CASE UNCHANGED allVars
  BY <1>6 DEF allVars
<1> QED
  BY <1>1, <1>2, <1>3, <1>4, <1>5, <1>6 DEF ServerNext

\* The worker's invariant holds throughout the life of the process.
THEOREM WorkerInvariance == ServerSpec => []WorkerInv
<1>1. ServerInit => WorkerInv
  BY WorkerInitEstablishes DEF ServerInit
<1>2. WorkerInv /\ [ServerNext]_allVars => WorkerInv'
  <2> SUFFICES ASSUME WorkerInv, [ServerNext]_allVars PROVE WorkerInv'
    OBVIOUS
  <2>1. [WorkerStep]_workerVars
    BY WorkerSteps
  <2>2. CASE WorkerStep
    BY <2>2, BeginningPreserves, EndPreserves, StopAndTickPreserve DEF WorkerStep
  <2>3. CASE UNCHANGED workerVars
    BY <2>3 DEF workerVars, WorkerInv, WorkerTypeOK, ChainFits, StopFits,
       StoppedWorkerStops
  <2> QED
    BY <2>1, <2>2, <2>3
<1> QED
  BY <1>1, <1>2, PTL DEF ServerSpec

\* A worker whose polls, lookups and timers are on time is never reported
\* unhealthy after a good poll, whatever the intervals (getWorkerHealth).
THEOREM NoFalseAlarm == ServerSpec => []PunctualWorkerIsHealthy
<1>1. WorkerInv => PunctualWorkerIsHealthy
  <2> SUFFICES ASSUME WorkerInv, punctual, GoodPrevious(health), chain # "ended"
               PROVE  Healthy
    BY DEF PunctualWorkerIsHealthy
  <2> USE InstantsAreNumbers, ScheduleAssumption
  <2>1. /\ health.last \in Nat /\ health.interval \in Intervals
        /\ health.interval \in Nat /\ now \in Nat /\ pollTimer \in Nat \cup {Never}
        /\ 2 * MaxLag < health.interval
        /\ health.started \in Nat \cup {Never}
    <3>1. /\ health.interval \in Intervals \cup {0} /\ health.interval > 0
          /\ health.last \in Instants \cup {Never} /\ health.last # Never
          /\ health.started \in Instants \cup {Never}
          /\ now \in Instants /\ pollTimer \in Nat \cup {Never}
      BY DEF WorkerInv, WorkerTypeOK, GoodPrevious
    <3>2. health.interval \in Intervals
      BY <3>1
    <3> QED
      BY <3>1, <3>2
  <2>2. ChainFits
    BY DEF WorkerInv
  <2>3. CASE chain = "poll"
    <3>1. health.started \in Nat /\ now < health.started + MAX_ACTIVE_POLL
      BY <2>1, <2>2, <2>3 DEF ChainFits
    <3>2. health.last <= health.started /\ health.started < health.last + 2 * health.interval
      BY <2>1, <2>2, <2>3, <3>1 DEF ChainFits
    <3> QED
      BY <3>1, <3>2, <2>1 DEF Healthy, IsHealthy, ActiveHealthy
  <2>4. CASE chain = "lookup"
    <3>1. health.started = Never /\ now < health.last + 2 * health.interval
      BY <2>1, <2>2, <2>4 DEF ChainFits
    <3> QED
      BY <3>1 DEF Healthy, IsHealthy, IdleHealthy
  <2>5. CASE chain = "timer"
    <3>1. health.started = Never /\ now < health.last + 2 * health.interval
      BY <2>1, <2>2, <2>5 DEF ChainFits
    <3> QED
      BY <3>1 DEF Healthy, IsHealthy, IdleHealthy
  <2>6. chain # "none"
    BY <2>1, <2>2 DEF ChainFits
  <2> QED
    BY <2>3, <2>4, <2>5, <2>6 DEF WorkerInv, WorkerTypeOK
<1> QED
  BY <1>1, WorkerInvariance, PTL

\* A stopped worker begins one more poll at most (the timer that is set after
\* stopWorker has looked for one).
THEOREM StoppedWorkerEnds == ServerSpec => []StoppedWorkerStops
<1>1. WorkerInv => StoppedWorkerStops
  BY DEF WorkerInv, StopFits
<1> QED
  BY <1>1, WorkerInvariance, PTL

-----------------------------------------------------------------------------
(* The sockets                                                             *)

\* What a step of the process does to the rooms: a step of the connection
\* handler, the end of every connection, or nothing.
LEMMA SocketSteps ==
    ASSUME [ServerNext]_allVars
    PROVE  [RoomsNext]_roomsVars \/ DisconnectsSockets
<1>1. CASE SocketConnects
  BY <1>1 DEF SocketConnects, RoomsNext
<1>2. CASE SocketActs
  BY <1>2 DEF SocketActs, RoomsNext
<1>3. CASE Shutdown \/ SocketServerDetaches
  BY <1>3 DEF Shutdown, SocketServerDetaches
<1>4. CASE Prepared \/ Serve \/ FailToStart \/ RequestBegins \/ RequestEnds
           \/ WorkerActs \/ TimePasses \/ HttpCloses \/ SocketServerCloses
           \/ ForcedExit
  BY <1>4 DEF Prepared, Serve, FailToStart, RequestBegins, RequestEnds,
     WorkerActs, TimePasses, HttpCloses, SocketServerCloses, ForcedExit
<1>5. CASE UNCHANGED allVars
  BY <1>5 DEF allVars
<1> QED
  BY <1>1, <1>2, <1>3, <1>4, <1>5 DEF ServerNext

\* A socket is only in the room it asked for last while the process serves and
\* while it shuts down with subscriptions still being looked up.
THEOREM RoomsFollowInProcess == ServerSpec => []RoomsFollowRequests
<1>1. ServerInit => IInv
  BY InitEstablishes DEF ServerInit
<1>2. IInv /\ [ServerNext]_allVars => IInv'
  <2> SUFFICES ASSUME IInv, [ServerNext]_allVars PROVE IInv'
    OBVIOUS
  <2>1. CASE [RoomsNext]_roomsVars
    BY <2>1, StepPreserves
  <2>2. CASE DisconnectsSockets
    BY <2>2 DEF DisconnectsSockets, IInv, RoomsTypeOK, RoomsFollowRequests
  <2> QED
    BY <2>1, <2>2, SocketSteps
<1>3. IInv => RoomsFollowRequests
  BY DEF IInv
<1> QED
  BY <1>1, <1>2, <1>3, PTL DEF ServerSpec

-----------------------------------------------------------------------------
(* The shutdown                                                            *)

Open(server) == IF server = "closed" THEN 0 ELSE 1

\* The count of the closures that are awaited is right, and what has drained
\* stays so: without an open request no socket comes in.
ClosureInv ==
    /\ requests \in Nat
    /\ phase \in {"preparing", "cleaning", "serving"} => http = "open" /\ io = "open"
    /\ phase = "stopping" => http # "open"
    /\ pendingClosures = Open(http) + Open(io)
    /\ http = "closed" => Drained
    /\ phase = "exited" /\ exitCode = 0 => http = "closed"

\* A callback that is the last one finds the HTTP server closed.
LEMMA ClosingPreserves ==
    ASSUME ClosureInv, HttpCloses \/ SocketServerCloses
    PROVE  ClosureInv'
<1>1. CASE HttpCloses
  <2>1. /\ http = "closing" /\ http' = "closed" /\ Drained
        /\ UNCHANGED <<requests, io, connected>>
        /\ pendingClosures' = pendingClosures - 1
        /\ phase' \in {"stopping", "exited"}
    BY <1>1 DEF HttpCloses, Closed, roomsVars
  <2> QED
    BY <2>1 DEF ClosureInv, Open, Drained
<1>2. CASE SocketServerCloses
  <2>1. /\ phase = "stopping" /\ io = "detached" /\ io' = "closed"
        /\ UNCHANGED <<requests, http, connected>>
        /\ pendingClosures' = pendingClosures - 1
        /\ phase' = IF pendingClosures' = 0 THEN "exited" ELSE phase
    BY <1>2 DEF SocketServerCloses, Closed, AllClosed, roomsVars
  <2>2. pendingClosures' = Open(http)
    BY <2>1 DEF ClosureInv, Open
  <2> QED
    BY <2>1, <2>2 DEF ClosureInv, Open, Drained
<1> QED
  BY <1>1, <1>2

\* Requests and sockets come and go; none comes once the HTTP server is closed.
LEMMA TrafficPreserves ==
    ASSUME ClosureInv,
           RequestBegins \/ RequestEnds \/ SocketConnects \/ SocketActs
    PROVE  ClosureInv'
<1>1. CASE RequestBegins
  BY <1>1 DEF RequestBegins, ClosureInv, Open, Drained, roomsVars
<1>2. CASE RequestEnds
  BY <1>2 DEF RequestEnds, ClosureInv, Open, Drained, roomsVars
<1>3. CASE SocketConnects
  <2>1. http # "closed"
    BY <1>3 DEF SocketConnects, ClosureInv, Drained
  <2> QED
    BY <1>3, <2>1 DEF SocketConnects, ClosureInv, Open, serverVars
<1>4. CASE SocketActs
  <2>1. connected' \subseteq connected
    BY <1>4 DEF SocketActs, Disconnect, Subscribe, Answered, Unsubscribe
  <2>2. UNCHANGED serverVars
    BY <1>4 DEF SocketActs
  <2> QED
    BY <2>1, <2>2 DEF ClosureInv, Open, Drained, serverVars
<1> QED
  BY <1>1, <1>2, <1>3, <1>4

\* A process that exits with success has answered every request and parted
\* with every socket (the closures that shutdown counts).
THEOREM SuccessIsDrained == ServerSpec => []SuccessMeansDrained
<1>1. ServerInit => ClosureInv
  BY DEF ServerInit, ClosureInv, Open
<1>2. ClosureInv /\ [ServerNext]_allVars => ClosureInv'
  <2> SUFFICES ASSUME ClosureInv, [ServerNext]_allVars PROVE ClosureInv'
    OBVIOUS
  <2>1. CASE Prepared \/ Serve \/ FailToStart
    BY <2>1 DEF Prepared, Serve, FailToStart, Exit, ClosureInv, Open, Drained, roomsVars
  <2>2. CASE WorkerActs \/ TimePasses
    BY <2>2 DEF WorkerActs, TimePasses, ClosureInv, Open, Drained, roomsVars, serverVars
  <2>3. CASE Shutdown
    BY <2>3 DEF Shutdown, ClosureInv, Open, Drained
  <2>4. CASE SocketServerDetaches
    BY <2>4 DEF SocketServerDetaches, DisconnectsSockets, ClosureInv, Open, Drained
  <2>5. CASE ForcedExit
    BY <2>5 DEF ForcedExit, Exit, ClosureInv, Open, Drained, roomsVars
  <2>6. CASE UNCHANGED allVars
    BY <2>6 DEF allVars, roomsVars, serverVars, ClosureInv, Open, Drained
  <2> QED
    BY <2>1, <2>2, <2>3, <2>4, <2>5, <2>6, ClosingPreserves, TrafficPreserves
       DEF ServerNext
<1>3. ClosureInv => SuccessMeansDrained
  BY DEF ClosureInv, SuccessMeansDrained
<1> QED
  BY <1>1, <1>2, <1>3, PTL DEF ServerSpec

=============================================================================
