--------------------------- MODULE WorkerSchedule ---------------------------
(***************************************************************************)
(* When the background worker polls (src/lib/worker.ts, from               *)
(* pollAllSources on) and what src/lib/worker-health.ts tells of it.       *)
(*                                                                         *)
(* One chain of polls: a poll, the lookup of the live state, a timer, the  *)
(* next poll.  Time passes while any of them lasts; a timer never fires    *)
(* early and may fire late.  What a poll does is MatchRevision and         *)
(* GlasgowResults; here it takes time and has an outcome, and it always    *)
(* ends, as each source catches its errors.  The module has no Spec: the   *)
(* worker is started and stopped by ServerProcess.                         *)
(***************************************************************************)
EXTENDS Naturals

CONSTANTS
    POLL_SIM, POLL_LIVE, POLL_PRE_MATCH, POLL_MATCH_DAY, POLL_OFF_SEASON,
    MAX_ACTIVE_POLL,    \* a poll that lasts longer is taken for dead
    MaxLag,             \* delay of a punctual lookup and of a punctual timer
    MaxClock,           \* bound on the time
    Outcomes,           \* what the sources of a poll may come to
    Never               \* no instant

Intervals ==
    {POLL_SIM, POLL_LIVE, POLL_PRE_MATCH, POLL_MATCH_DAY, POLL_OFF_SEASON}
Instants == 0..MaxClock
Statuses == {"success", "empty", "partial", "error"}

ASSUME ScheduleAssumption ==
    /\ MaxLag \in Nat /\ MaxClock \in Nat /\ MAX_ACTIVE_POLL \in Nat \ {0}
    /\ Intervals \subseteq Nat
    /\ \A i \in Intervals : 2 * MaxLag < i
    /\ Never \notin Nat
    /\ Outcomes \subseteq SUBSET Statuses

VARIABLES
    now,
    isRunning,
    pollTimer,  \* the instant at which the timer is due
    health,     \* the record on the Node global
    chain,      \* where the chain of polls is
    punctual,   \* polls, lookups and timers have kept within their bounds
    extra       \* how many polls began after the worker was stopped

workerVars == <<now, isRunning, pollTimer, health, chain, punctual, extra>>

WorkerInit ==
    /\ now = 0
    /\ isRunning = FALSE
    /\ pollTimer = Never
    /\ health = [last |-> Never, started |-> Never, status |-> "pending", interval |-> 0]
    /\ chain = "none"
    /\ punctual = TRUE
    /\ extra = 0

-----------------------------------------------------------------------------
(* worker-health.ts                                                        *)

\* A mutation: the end of a poll leaves its beginning on record.
StillActive(h, status) == [h EXCEPT !.last = now, !.status = status]

Begun(h) == [h EXCEPT !.started = IF @ = Never THEN now ELSE @]

Recorded(h, status) ==
    [h EXCEPT !.last = now, !.started = Never, !.status = status]

GoodPrevious(h) ==
    h.last # Never /\ h.interval > 0 /\ h.status \in {"success", "empty"}

IdleHealthy(h, t) == h.started = Never /\ t < h.last + 2 * h.interval

ActiveHealthy(h, t) ==
    /\ h.started # Never
    /\ t < h.started + MAX_ACTIVE_POLL
    /\ h.last <= h.started
    /\ h.started < h.last + 2 * h.interval

IsHealthy(h, t) == GoodPrevious(h) /\ (IdleHealthy(h, t) \/ ActiveHealthy(h, t))

-----------------------------------------------------------------------------
(* worker.ts                                                               *)

Aggregate(outcomes) ==
    IF "error" \in outcomes THEN "error"
    ELSE IF "partial" \in outcomes THEN "partial"
    ELSE IF "success" \in outcomes THEN "success"
    ELSE "empty"

getPollingInterval(simulated, hasLive, isMatchDay, hasPreMatch) ==
    IF simulated THEN POLL_SIM
    ELSE IF hasLive THEN POLL_LIVE
    ELSE IF hasPreMatch THEN POLL_PRE_MATCH
    ELSE IF isMatchDay THEN POLL_MATCH_DAY
    ELSE POLL_OFF_SEASON

BeginPoll ==
    /\ health' = Begun(health)
    /\ chain' = "poll"
    /\ extra' = extra + (IF isRunning' THEN 0 ELSE 1)

startWorker ==
    /\ ~isRunning /\ chain = "none"
    /\ isRunning' = TRUE
    /\ BeginPoll
    /\ UNCHANGED <<now, pollTimer, punctual>>

\* scheduleNextPoll looks at isRunning before its lookup, and only then.
AfterPoll == IF isRunning THEN "lookup" ELSE "ended"

\* The poll of all sources is over: Champion Data and, when it is enabled, the
\* Glasgow feed.
PollEnds ==
    /\ chain = "poll"
    /\ \E outcomes \in Outcomes : health' = Recorded(health, Aggregate(outcomes))
    /\ chain' = AfterPoll
    /\ UNCHANGED <<now, isRunning, pollTimer, punctual, extra>>

\* The live state is known, or its lookup failed.
ScheduleNext(simulated) ==
    /\ chain = "lookup"
    /\ \E i \in {POLL_OFF_SEASON} \cup
            {getPollingInterval(simulated, live, day, pre) :
                live \in BOOLEAN, day \in BOOLEAN, pre \in BOOLEAN} :
         /\ health' = [health EXCEPT !.interval = i]
         /\ pollTimer' = now + i
    /\ chain' = "timer"
    /\ UNCHANGED <<now, isRunning, punctual, extra>>

\* The timer's callback does not look at isRunning.
TimerFires ==
    /\ chain = "timer"
    /\ pollTimer <= now
    /\ UNCHANGED isRunning
    /\ BeginPoll
    /\ UNCHANGED <<now, pollTimer, punctual>>

\* Clearing a timer that has fired, or that is not set yet, changes nothing.
AfterStop == IF chain = "timer" THEN "ended" ELSE chain

stopWorker ==
    /\ isRunning' = FALSE
    /\ pollTimer' = Never
    /\ chain' = AfterStop
    /\ UNCHANGED <<now, health, punctual, extra>>

OnTime(t) ==
    /\ chain = "poll" => t < health.started + MAX_ACTIVE_POLL
    /\ chain = "lookup" => t <= health.last + MaxLag
    /\ chain = "timer" => t <= pollTimer + MaxLag

Tick ==
    /\ now < MaxClock
    /\ now' = now + 1
    /\ punctual' = (punctual /\ OnTime(now + 1))
    /\ UNCHANGED <<isRunning, pollTimer, health, chain, extra>>

-----------------------------------------------------------------------------
(* Properties                                                              *)

Healthy == IsHealthy(health, now)

WorkerTypeOK ==
    /\ now \in Instants
    /\ isRunning \in BOOLEAN /\ punctual \in BOOLEAN
    /\ pollTimer \in Nat \cup {Never}
    /\ health \in [last : Instants \cup {Never}, started : Instants \cup {Never},
                   status : Statuses \cup {"pending"}, interval : Intervals \cup {0}]
    /\ chain \in {"none", "poll", "lookup", "timer", "ended"}
    /\ extra \in Nat

\* No false alarm: from the first time it has scheduled a poll, a worker whose
\* polls, lookups and timers are on time, and whose last poll was good, is
\* reported healthy at every instant, between polls and during them, whichever
\* intervals follow each other (getWorkerHealth).
PunctualWorkerIsHealthy ==
    punctual /\ GoodPrevious(health) /\ chain # "ended" => Healthy

\* Readiness once lost comes back only with the end of a good poll or with a
\* longer interval, never because time passes, a poll begins late or the worker
\* is stopped (the test "does not let a late poll start restore stale readiness").
ReadinessIsRegainedByPolls ==
    [][~Healthy /\ Healthy' =>
          \/ chain = "poll" /\ chain' # "poll" /\ health'.last = now
          \/ chain = "lookup" /\ health'.interval > health.interval]_workerVars

\* A worker that was stopped while it looked up the live state begins one more
\* poll at most, and when it has ended nothing is left that could begin another.
StoppedWorkerStops ==
    /\ extra <= 1
    /\ ~isRunning /\ extra = 1 => chain \in {"poll", "ended"}

=============================================================================
