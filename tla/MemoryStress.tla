---------------------------- MODULE MemoryStress ----------------------------
(***************************************************************************)
(* The memory stress of a release (stress-phase2-memory.ts): a harness     *)
(* starts the production server, sends it waves of requests while a        *)
(* monitor probes its health and samples its memory, advances the epoch    *)
(* between waves, and stops it.  The server may answer badly, crash, hang  *)
(* or grow at any time.                                                    *)
(***************************************************************************)
EXTENDS Integers

CONSTANTS
    None,
    Routes,         \* the requests of a wave
    Waves,
    Rotations,      \* how many of the waves an advance of the epoch follows
    Sizes,          \* what the server's memory may be
    HardLimit       \* the size that it must stay under

Children == {"starting", "up", "hung", "stopping", "success", "error", "signal"}
Verdicts == {"passed", "failed", "blocked"}

MemoryStressAssumption ==
    /\ None \notin Sizes /\ None \notin Children \cup Verdicts
    /\ Waves \in Nat \ {0} /\ Rotations \in 0..(Waves - 1)
    /\ Sizes \subseteq Nat /\ HardLimit \in Nat

VARIABLES
    step,           \* where the harness is
    child,          \* the server
    size,           \* its memory
    wave, waiting,  \* the waves that have been sent, and the requests without an answer
    monitor,        \* its loop: off, probing, resting or done
    monitorRunning,
    failures,       \* did a request, a probe or the beginning fail
    peak,           \* the greatest sample, None before the first
    printed,        \* has the server reported an unhandled rejection
    unhandled,      \* has the harness read that
    verdict,
    rotated,        \* history: the advances of the epoch
    troubled,       \* history: has anything but the stop gone wrong
    stuck           \* history: did the server not even die of a SIGKILL

stressVars ==
    <<step, child, size, wave, waiting, monitor, monitorRunning, failures, peak, printed,
      unhandled, verdict, rotated, troubled, stuck>>

serverVars == <<child, size, printed>>
harnessVars == <<step, wave, waiting, monitorRunning, verdict, rotated, stuck>>

-----------------------------------------------------------------------------

\* A server that has a process; exitCode is None while it runs and when a signal ended it.
Running == child \in {"starting", "up", "hung", "stopping"}
Exited == child \in {"success", "error"}

Steps == {"check", "health", "ready", "waves", "quiet", "exit", "judge", "cleanup", "kill",
          "end"}

Init ==
    /\ step = "check" /\ child = None /\ size \in Sizes /\ wave = 0 /\ waiting = {}
    /\ monitor = "off" /\ monitorRunning = TRUE /\ failures = FALSE /\ peak = None
    /\ printed = FALSE /\ unhandled = FALSE /\ verdict = None /\ rotated = 0
    /\ troubled = FALSE /\ stuck = FALSE

-----------------------------------------------------------------------------
(* The server                                                              *)

Start == child = "starting" /\ child' = "up" /\ UNCHANGED <<size, printed, troubled>>

Grow == child \in {"up", "stopping"} /\ size' \in Sizes /\ UNCHANGED <<child, printed, troubled>>

Reject ==
    /\ child \in {"up", "stopping"}
    /\ printed' = TRUE /\ troubled' = TRUE
    /\ UNCHANGED <<child, size>>

Break ==
    /\ Running
    /\ child' \in {"hung", "error", "signal"}
    /\ troubled' = TRUE
    /\ UNCHANGED <<size, printed>>

Stop == child = "stopping" /\ child' = "success" /\ UNCHANGED <<size, printed, troubled>>

Server ==
    /\ Start \/ Grow \/ Reject \/ Break \/ Stop
    /\ UNCHANGED <<harnessVars, monitor, failures, peak, unhandled>>

-----------------------------------------------------------------------------
(* What the harness hears                                                  *)

\* What it prints is read some time later, and what is left when it ends may not be.
Hear ==
    /\ printed /\ ~unhandled
    /\ unhandled' = TRUE
    /\ UNCHANGED <<serverVars, harnessVars, monitor, failures, peak, troubled>>

Greatest(s) == IF peak = None \/ s > peak THEN s ELSE peak

\* A sample of the process that was asked for, which may fail, and one that the server
\* sends by itself.
Sampled == peak' \in IF Running THEN {Greatest(size), peak} ELSE {peak}

Report ==
    /\ child \in {"up", "stopping"}
    /\ peak' = Greatest(size)
    /\ UNCHANGED <<serverVars, harnessVars, monitor, failures, unhandled, troubled>>

\* An answer is good only of a server that is up; a bad one of such a server, or none
\* in time, is the server's.
Answer ==
    \/ child = "up" /\ UNCHANGED <<failures, troubled>>
    \/ child = "up" /\ failures' = TRUE /\ troubled' = TRUE
    \/ child # "up" /\ failures' = TRUE /\ UNCHANGED troubled

\* The loop of the monitor: two probes, a sample, a rest.
Probe ==
    /\ monitor = "probing"
    /\ Answer /\ Sampled
    /\ monitor' = "resting"
    /\ UNCHANGED <<serverVars, harnessVars, unhandled>>

Again ==
    /\ monitor = "resting"
    /\ monitor' = IF monitorRunning /\ ~Exited THEN "probing" ELSE "done"
    /\ UNCHANGED <<serverVars, harnessVars, failures, peak, unhandled, troubled>>

-----------------------------------------------------------------------------
(* The harness                                                             *)

Goes(s) == step' = s
Throws == Goes("cleanup") /\ verdict' = "failed"
Blocks == Goes("cleanup") /\ verdict' = "blocked"

\* assertLocalMemoryStressEnvironment, the build, the connection, the data.
Refuse ==
    /\ step = "check" /\ Blocks
    /\ UNCHANGED <<serverVars, wave, waiting, monitor, monitorRunning, failures, peak,
                   unhandled, rotated, troubled, stuck>>

\* spawn; a process that cannot be started is one that has ended.
Spawn ==
    /\ step = "check" /\ Goes("health")
    /\ \/ child' = "starting" /\ UNCHANGED <<failures, troubled>>
       \/ child' = "error" /\ failures' = TRUE /\ troubled' = TRUE
    /\ UNCHANGED <<size, wave, waiting, monitor, monitorRunning, peak, printed, unhandled,
                   verdict, rotated, stuck>>

\* waitForStatus, for health and for readiness: until a good answer, the end of the
\* process, or half a minute has passed.
Healthy(s, next) ==
    /\ step = s /\ child = "up" /\ Goes(next)
    /\ UNCHANGED <<failures, verdict, troubled>>

Unhealthy(s) ==
    /\ step = s /\ Throws
    /\ failures' = TRUE /\ troubled' = TRUE

Begin ==
    /\ \/ Healthy("health", "ready") /\ UNCHANGED <<monitor, waiting, wave>>
       \/ /\ Healthy("ready", "waves")
          /\ monitor' = "probing" /\ waiting' = Routes /\ wave' = 1
       \/ \E s \in {"health", "ready"} : Unhealthy(s) /\ UNCHANGED <<monitor, waiting, wave>>
    /\ UNCHANGED <<serverVars, monitorRunning, peak, unhandled, rotated, stuck>>

Respond(r) ==
    /\ r \in waiting
    /\ waiting' = waiting \ {r}
    /\ Answer
    /\ UNCHANGED <<serverVars, step, wave, monitor, monitorRunning, peak, unhandled, verdict,
                   rotated, stuck>>

\* After a wave: the epoch, which may not be there to advance, and the next wave.
NextWave ==
    /\ step = "waves" /\ waiting = {}
    /\ \/ /\ wave <= Rotations /\ Blocks
          /\ UNCHANGED <<wave, waiting, rotated, monitorRunning>>
       \/ /\ rotated' = IF wave <= Rotations THEN rotated + 1 ELSE rotated
          /\ IF wave < Waves
             THEN Goes("waves") /\ wave' = wave + 1 /\ waiting' = Routes
                  /\ UNCHANGED monitorRunning
             ELSE Goes("quiet") /\ monitorRunning' = FALSE /\ UNCHANGED <<wave, waiting>>
          /\ UNCHANGED verdict
    /\ UNCHANGED <<serverVars, monitor, failures, peak, unhandled, troubled, stuck>>

\* A mutation: the monitor is told to end, and not waited for.
NotAwaited == TRUE

\* await monitor.
Awaited == monitor \in {"off", "done"}

\* The last sample, and SIGTERM.
Terminate ==
    /\ step = "quiet" /\ Awaited
    /\ Sampled
    /\ child' = IF child \in {"starting", "up"} THEN "stopping" ELSE child
    /\ Goes("exit")
    /\ UNCHANGED <<size, wave, waiting, monitor, monitorRunning, failures, printed, unhandled,
                   verdict, rotated, troubled, stuck>>

\* waitForExit, which gives up after seven seconds.
Ended ==
    /\ step = "exit" /\ ~Running /\ Goes("judge")
    /\ UNCHANGED <<verdict, troubled>>

NotEnded ==
    /\ step = "exit" /\ Running /\ Throws
    /\ troubled' = TRUE

Judge ==
    /\ step = "judge"
    /\ verdict' = IF /\ child = "success" /\ ~unhandled
                     /\ ~failures
                     /\ peak # None /\ peak < HardLimit
                  THEN "passed" ELSE "failed"
    /\ Goes("cleanup")
    /\ UNCHANGED troubled

Finish ==
    /\ Ended \/ NotEnded \/ Judge
    /\ UNCHANGED <<serverVars, wave, waiting, monitor, monitorRunning, failures, peak,
                   unhandled, rotated, stuck>>

\* finally: the monitor ends, and a process that still runs is killed and waited for.
Cleanup ==
    /\ step = "cleanup"
    /\ monitorRunning' = FALSE
    /\ Goes("kill")
    /\ UNCHANGED <<serverVars, wave, waiting, monitor, failures, peak, unhandled, verdict,
                   rotated, troubled, stuck>>

Kill ==
    /\ step = "kill" /\ Awaited
    /\ Goes("end")
    /\ \/ ~Running /\ UNCHANGED <<child, stuck, troubled>>
       \/ Running /\ child' = "signal" /\ UNCHANGED <<stuck, troubled>>
       \/ Running /\ stuck' = TRUE /\ troubled' = TRUE /\ UNCHANGED child
    /\ UNCHANGED <<size, printed, wave, waiting, monitor, monitorRunning, failures, peak,
                   unhandled, verdict, rotated>>

Next ==
    \/ Server \/ Hear \/ Report \/ Probe \/ Again
    \/ Refuse \/ Spawn \/ Begin \/ NextWave \/ Terminate \/ Finish \/ Cleanup \/ Kill
    \/ \E r \in Routes : Respond(r)

Spec == Init /\ [][Next]_stressVars

-----------------------------------------------------------------------------

TypeOK ==
    /\ step \in Steps /\ wave \in 0..Waves /\ waiting \subseteq Routes
    /\ child \in Children \cup {None}
    /\ size \in Sizes /\ peak \in Sizes \cup {None}
    /\ monitor \in {"off", "probing", "resting", "done"}
    /\ verdict \in Verdicts \cup {None} /\ rotated \in 0..Rotations
    /\ {monitorRunning, failures, printed, unhandled, troubled, stuck} \subseteq BOOLEAN

\* A stress that passes sent all its waves and got every answer, advanced the epoch as
\* often as it was asked to, saw no sample at the limit, and its server ended by itself.
\* One that fails had a reason: a server that did all it was asked to until it was
\* stopped, and was measured below the limit, is not failed by its own stop.  However
\* it ends, it leaves no server behind that a signal could end
\* (stress-phase2-memory.ts).
StressIsEarned ==
    /\ verdict = "passed" =>
          /\ wave = Waves /\ waiting = {} /\ rotated = Rotations
          /\ ~failures /\ peak < HardLimit /\ child = "success"
    /\ verdict = "failed" => troubled \/ peak = None \/ peak >= HardLimit
    /\ step = "end" => (~Running \/ stuck) /\ Awaited

=============================================================================
