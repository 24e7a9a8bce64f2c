--------------------------- MODULE ProductionSmoke ---------------------------
(***************************************************************************)
(* The smoke of a release (scripts/production-smoke.ts): ten requests to   *)
(* the deployed site, one after the other and each with retries, whose     *)
(* answers must be those of the phase of the release, then two files of    *)
(* evidence and the exit code.  The site goes on changing meanwhile: it is *)
(* deployed, fails, recovers, and its features are switched.               *)
(*                                                                         *)
(* An answer is that of the site at one instant.  Markers, bodies and URLs *)
(* are left out but for what they tell: whether the answer is the one that *)
(* is expected, and which edition the first match with a score belongs to. *)
(***************************************************************************)
EXTENDS Naturals, Sequences, FiniteSets

CONSTANTS
    Phase,          \* "baseline" or "published"
    MaxRetries,     \* retries
    MaxDelay,       \* bound on the time from the worker's health to the timestamp
    Freshness,      \* twice the worker's interval
    MaxActivePoll,  \* EXPECTED_MAX_ACTIVE_POLL_MS
    Owners,         \* the editions the match may belong to
    MaxChanges,     \* bound on the changes of the site
    None

SmokeAssumption ==
    /\ Phase \in {"baseline", "published"}
    /\ {MaxRetries, MaxDelay, MaxChanges} \subseteq Nat
    /\ {Freshness, MaxActivePoll} \subseteq Nat \ {0}
    /\ None \notin {0, 1}

VARIABLES
    site,       \* what is deployed, and how it is
    attempt,    \* of the request being made
    checks,     \* the outcomes so far
    discovered, \* the edition of the match that the results named
    files,      \* the evidence: what has become of each file
    exit,       \* the exit code, or None
    held,       \* history: the checks the site has satisfied since the start
    changes

smokeVars == <<site, attempt, checks, discovered, files, exit, held, changes>>

Checks ==
    <<"health", "readiness", "home", "matches", "glasgow", "rankings", "records",
      "comparison", "explore", "redirect">>

Names == {Checks[i] : i \in DOMAIN Checks}

NextCheck == Checks[Len(checks) + 1]

\* Polls that have finished and one that is running: since when.
Workers == [last : 0..Freshness, active : {None} \cup 0..MaxActivePoll]

-----------------------------------------------------------------------------
(* The site                                                                *)

Published == Phase = "published"

\* getWorkerHealth: its last poll is recent, or the one that runs began in time.
WorkerIsHealthy(w) ==
    IF w.active = None THEN w.last < Freshness
    ELSE w.last - w.active < Freshness /\ w.active < MaxActivePoll

\* The readiness route answers 200 when all that is enabled is well, else 503.
IsReady(s) == s.database /\ WorkerIsHealthy(s.worker)

\* The script computes anew from the report's own timestamp.
ReportPasses(s, delay) ==
    /\ IF s.worker.active = None THEN s.worker.last + delay < Freshness
       ELSE /\ s.worker.active <= s.worker.last
            /\ s.worker.last - s.worker.active < Freshness
            /\ s.worker.active + delay < MaxActivePoll
    /\ s.features = Published

\* What the answers to the checks depend on, with the match discovered.
Satisfies(check, s) ==
    CASE check = "health" -> s.release = "expected"
      [] check = "readiness" -> IsReady(s) /\ s.features = Published
      [] check = "home" -> s.database
      [] check = "matches" -> s.database /\ s.owner # None
      [] check = "glasgow" -> s.database /\ s.published = Published
      [] check \in {"rankings", "records", "comparison", "explore"} ->
            s.features = Published
      [] check = "redirect" -> s.database /\ s.owner # None /\ s.owner = discovered

Holding(s) == {check \in Names : s.up /\ Satisfies(check, s)}

Idle == [last |-> 0, active |-> None]

\* The site of a release that is as it should be.
Released ==
    [up |-> TRUE, release |-> "expected", database |-> TRUE, worker |-> Idle,
     features |-> Published, published |-> Published, owner |-> CHOOSE owner \in Owners : TRUE]

Init ==
    /\ \/ site = Released
       \/ site = [Released EXCEPT !.up = FALSE]
       \/ site = [Released EXCEPT !.release = "other"]
       \/ site = [Released EXCEPT !.owner = None]
    /\ attempt = 1
    /\ checks = <<>>
    /\ discovered = None
    /\ files = [json |-> None, markdown |-> None]
    /\ exit = None
    /\ held = Holding(site)
    /\ changes = 0

Change ==
    /\ changes < MaxChanges
    /\ changes' = changes + 1
    /\ \/ \E up \in BOOLEAN : site' = [site EXCEPT !.up = up]
       \/ \E release \in {"expected", "other"} : site' = [site EXCEPT !.release = release]
       \/ \E database \in BOOLEAN : site' = [site EXCEPT !.database = database]
       \/ \E worker \in Workers : site' = [site EXCEPT !.worker = worker]
       \/ \E features \in BOOLEAN : site' = [site EXCEPT !.features = features]
       \/ \E published \in BOOLEAN : site' = [site EXCEPT !.published = published]
       \/ \E owner \in Owners \cup {None} : site' = [site EXCEPT !.owner = owner]
    /\ held' = held \cup Holding(site')
    /\ UNCHANGED <<attempt, checks, discovered, files, exit>>

-----------------------------------------------------------------------------
(* A check: requests until one is answered, and the assertion              *)

\* How an attempt ends: with the site's answer or its error, without an
\* answer, or with one that is not safe to keep.
ServerError(check) == ~site.up \/ (check = "readiness" /\ ~IsReady(site))

Outcome(check) == IF ServerError(check) THEN "error" ELSE "answer"

CheckEnds(passed) ==
    /\ checks' = Append(checks, passed)
    /\ attempt' = 1

LastAttempt == attempt > MaxRetries

Pending == exit = None /\ Len(checks) < Len(Checks)

\* A mutation: the last attempt's answer passes whatever its status is.
PassesAnyStatus(check, delay) == Satisfies(check, site) \/ ServerError(check)

\* What the assertion finds in an answer; never true of an error of the server.
Passes(check, delay) ==
    /\ ~ServerError(check)
    /\ Satisfies(check, site)
    /\ check = "readiness" => ReportPasses(site, delay)

\* The redirect is asked for only with a match.
Attempted == NextCheck = "redirect" => discovered # None

Answered(delay) ==
    /\ Pending /\ Attempted
    /\ Outcome(NextCheck) = "answer" \/ LastAttempt
    /\ CheckEnds(Passes(NextCheck, delay))
    /\ discovered' = IF NextCheck = "matches" /\ Passes(NextCheck, delay) THEN site.owner ELSE discovered
    /\ held' = IF discovered' = discovered THEN held
               ELSE IF site.up THEN held \cup {"redirect"} ELSE held
    /\ UNCHANGED <<site, files, exit, changes>>

\* An error of the server, or no answer in time.
Retried ==
    /\ Pending /\ Attempted /\ ~LastAttempt
    /\ attempt' = attempt + 1
    /\ UNCHANGED <<site, checks, discovered, files, exit, held, changes>>

\* No answer at the last attempt, or one that must not be followed or kept.
Failed ==
    /\ Pending /\ Attempted
    /\ CheckEnds(FALSE)
    /\ UNCHANGED <<site, discovered, files, exit, held, changes>>

\* The redirect that is not asked for is recorded as failed.
Skipped ==
    /\ Pending /\ ~Attempted
    /\ CheckEnds(FALSE)
    /\ UNCHANGED <<site, discovered, files, exit, held, changes>>

-----------------------------------------------------------------------------
(* The evidence and the exit                                               *)

Executed == exit = None /\ Len(checks) = Len(Checks)

AllPassed == \A i \in DOMAIN checks : checks[i]

\* The directory is not a private one of the user, or a file is there already
\* or cannot be written: the other may have been.
WriteFile(file, outcome) ==
    /\ Executed
    /\ files[file] = None
    /\ files' = [files EXCEPT ![file] = outcome]
    /\ UNCHANGED <<site, attempt, checks, discovered, exit, held, changes>>

Settled == \A file \in DOMAIN files : files[file] # None

ExitCode == IF AllPassed /\ \A file \in DOMAIN files : files[file] = "written" THEN 0 ELSE 1

Exit ==
    /\ Executed /\ Settled
    /\ exit' = ExitCode
    /\ UNCHANGED <<site, attempt, checks, discovered, files, held, changes>>

\* The arguments are not those of a run.
Refuse ==
    /\ exit = None /\ checks = <<>> /\ attempt = 1
    /\ exit' = 1
    /\ UNCHANGED <<site, attempt, checks, discovered, files, held, changes>>

Next ==
    \/ Change \/ Retried \/ Failed \/ Skipped \/ Exit \/ Refuse
    \/ \E delay \in 0..MaxDelay : Answered(delay)
    \/ \E file \in DOMAIN files, outcome \in {"written", "failed"} : WriteFile(file, outcome)

Spec == Init /\ [][Next]_smokeVars

-----------------------------------------------------------------------------
(* Properties                                                              *)

\* A check that passes found something that was so of the site at an instant of
\* the run, and a smoke that exits with 0 has ten of them and both files of
\* evidence; whatever failed between, was retried or could not be asked
\* (executeProductionSmoke).
SmokeIsEarned ==
    /\ \A i \in DOMAIN checks : checks[i] => Checks[i] \in held
    /\ exit = 0 =>
          /\ Len(checks) = Len(Checks) /\ AllPassed
          /\ \A file \in DOMAIN files : files[file] = "written"

=============================================================================
