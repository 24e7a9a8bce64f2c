----------------------------- MODULE OfficialFeed -----------------------------
(***************************************************************************)
(* One fetch of the official Glasgow feed for a date                       *)
(* (src/lib/glasgow/official-feed.ts): the sessions of the date, then the  *)
(* details of each of their phases, by two workers that share the next     *)
(* index and the first failure.  The provider answers what it likes, when  *)
(* it likes, or never; each request has a timeout.                         *)
(*                                                                         *)
(* A phase result is known by its unit status and its two result statuses. *)
(* Everything else the validators look at (types, dates, identities, the   *)
(* size of a response) is one truth value: the response is well formed or  *)
(* not.  Scores are left out; the order of the observations is, too.       *)
(***************************************************************************)
EXTENDS Naturals, FiniteSets, Sequences, SequencesExt

CONSTANTS
    Phases,      \* phases, each of a session, that may be listed
    Ceremony,    \* the one whose code is VICT
    Codes,       \* provider match codes
    Listings,    \* the sets of statuses a session may list for a phase
    Responses,   \* the sets of phase results considered, with their statuses
    Concurrency  \* the workers of a fetch

UnitStatuses == {"UPCOMING", "LIVE", "COMPLETE", "null", "other"}
ResultStatuses == {"GETTING_READY", "RUNNING", "SCHEDULED_BREAK", "FINISHED", "OFFICIAL"}
PhaseStatuses == {"UPCOMING", "LIVE", "COMPLETE", "null"}

PhaseResults ==
    [code : Codes, unit : UnitStatuses, first : ResultStatuses, second : ResultStatuses]

OfficialFeedAssumption ==
    /\ IsFiniteSet(Phases) /\ Ceremony \in Phases
    /\ Listings \subseteq SUBSET PhaseStatuses
    /\ Responses \subseteq SUBSET PhaseResults
    /\ Concurrency \in Nat \ {0}

VARIABLES
    fetch,      \* where the fetch of the date is
    requests,   \* the phases to ask for, with the status the session gave
    nextIndex,  \* the next one to ask for
    inFlight,   \* the indexes that are asked for
    failure,    \* some request has failed
    results,    \* what the answers came to, by index
    heard,      \* history: the answers
    answer      \* the observations that are returned

feedVars == <<fetch, requests, nextIndex, inFlight, failure, results, heard, answer>>

Observations == [code : Codes, status : {"LIVE", "COMPLETED"}]

Init ==
    /\ fetch = "idle"
    /\ requests = <<>>
    /\ nextIndex = 1
    /\ inFlight = {}
    /\ failure = FALSE
    /\ results = <<>>
    /\ heard = <<>>
    /\ answer = {}

-----------------------------------------------------------------------------
(* The sessions of the date                                                *)

\* isOfficialGlasgowFeedEnabled: never in a preview; the flag, or else only
\* the production worker.
Enabled(env) ==
    /\ ~env.preview
    /\ env.flag = "true" \/ (env.flag = "unset" /\ env.productionWorker)

Settings ==
    [preview : BOOLEAN, flag : {"true", "false", "unset"}, productionWorker : BOOLEAN]

Begin ==
    /\ fetch = "idle"
    /\ \E env \in Settings : Enabled(env)
    /\ fetch' = "sessions"
    /\ UNCHANGED <<requests, nextIndex, inFlight, failure, results, heard, answer>>

Idle ==
    /\ fetch' = "idle"
    /\ requests' = <<>>
    /\ nextIndex' = 1
    /\ inFlight' = {}
    /\ failure' = FALSE
    /\ results' = <<>>
    /\ heard' = <<>>
    /\ answer' = {}

\* The statuses a response lists for each phase of a session: a session may
\* list a phase twice, but its entries must agree.
Conflicting(listed) == \E p \in Phases : Cardinality(listed[p]) > 1

Wanted(listed) == {p \in Phases \ {Ceremony} : listed[p] \notin {{}, {"UPCOMING"}}}

PhaseRequests(listed) ==
    LET order == SetToSeq(Wanted(listed))
    IN [i \in DOMAIN order |-> [phase |-> order[i],
                                status |-> CHOOSE s \in listed[order[i]] : TRUE]]

\* A list that is not complete, or does not agree with itself, ends the fetch.
Sessions(listed, wellFormed) ==
    /\ fetch = "sessions"
    /\ IF wellFormed /\ ~Conflicting(listed)
       THEN /\ fetch' = "phases"
            /\ requests' = PhaseRequests(listed)
            /\ results' = [i \in DOMAIN requests' |-> {}]
            /\ heard' = [i \in DOMAIN requests' |-> {}]
            /\ UNCHANGED <<nextIndex, inFlight, failure, answer>>
       ELSE Idle

SessionsFail == fetch = "sessions" /\ Idle

-----------------------------------------------------------------------------
(* The details of a phase                                                  *)

Both(report, status) == report.first = status /\ report.second = status
Either(report, status) == report.first = status \/ report.second = status

\* A row without a score as yet.
GettingReady(report, phaseStatus) ==
    /\ report.unit = "LIVE" \/ (report.unit = "null" /\ phaseStatus = "null")
    /\ Both(report, "GETTING_READY")

IsOfficial(report) == report.unit = "COMPLETE" /\ Both(report, "OFFICIAL")

\* Between two periods the provider gives no unit status; at the end it says
\* FINISHED for a while before the result is official.
IsLive(report, phaseStatus) ==
    \/ report.unit = "LIVE" /\ (Both(report, "RUNNING") \/ Both(report, "FINISHED"))
    \/ report.unit = "null" /\ phaseStatus = "null" /\ Both(report, "SCHEDULED_BREAK")

Skipped(report, phaseStatus) == report.unit = "UPCOMING" \/ GettingReady(report, phaseStatus)

Valid(report, phaseStatus) ==
    \/ Skipped(report, phaseStatus)
    \/ IsOfficial(report) \/ IsLive(report, phaseStatus)

\* The observations of an answer: at most one for each match code.
Observed(reports, phaseStatus) ==
    {[code |-> r.code, status |-> IF IsOfficial(r) THEN "COMPLETED" ELSE "LIVE"] :
        r \in {q \in reports : ~Skipped(q, phaseStatus)}}

\* An answer that says nothing of a phase that has begun is refused.
Parses(reports, phaseStatus) ==
    /\ \A r \in reports : Valid(r, phaseStatus)
    /\ \A r, q \in reports :
         r.code = q.code /\ ~Skipped(r, phaseStatus) /\ ~Skipped(q, phaseStatus) => r = q
    /\ \E r \in reports : ~Skipped(r, phaseStatus) \/ GettingReady(r, phaseStatus)

-----------------------------------------------------------------------------
(* The two workers                                                         *)

\* A worker takes the next request unless one has failed.
Take ==
    /\ fetch = "phases"
    /\ ~failure
    /\ nextIndex \in DOMAIN requests
    /\ Cardinality(inFlight) < Concurrency
    /\ inFlight' = inFlight \cup {nextIndex}
    /\ nextIndex' = nextIndex + 1
    /\ UNCHANGED <<fetch, requests, failure, results, heard, answer>>

\* A mutation: a phase whose answer is of no use is left out.
LeftOut(i, reports) == FALSE

\* A response that cannot be read or parsed is a failure.
Refused(i, reports) == ~Parses(reports, requests[i].status)

Respond(i, reports) ==
    /\ i \in inFlight
    /\ inFlight' = inFlight \ {i}
    /\ heard' = [heard EXCEPT ![i] = reports]
    /\ failure' = (failure \/ Refused(i, reports))
    /\ results' = IF Parses(reports, requests[i].status)
                  THEN [results EXCEPT ![i] = Observed(reports, requests[i].status)]
                  ELSE results
    /\ UNCHANGED <<fetch, requests, nextIndex, answer>>

\* The request fails, is aborted by the caller, or is not well formed.
RequestFails(i) ==
    /\ i \in inFlight
    /\ inFlight' = inFlight \ {i}
    /\ failure' = TRUE
    /\ UNCHANGED <<fetch, requests, nextIndex, results, heard, answer>>

\* Ten seconds after a request began, whatever the provider does; a later
\* answer is not listened to.
TimesOut(i) == RequestFails(i)

TimeLimit ==
    \/ fetch = "sessions" /\ Idle
    \/ \E i \in inFlight : TimesOut(i)

WorkersDone == inFlight = {} /\ (failure \/ nextIndex \notin DOMAIN requests)

All == UNION {results[i] : i \in DOMAIN results}

\* Two phases may not speak of the same match.
Disjoint ==
    \A i, j \in DOMAIN results : i # j =>
        \A o \in results[i], q \in results[j] : o.code # q.code

\* Both workers have ended: a failure is thrown, otherwise all is returned.
Collect ==
    /\ fetch = "phases"
    /\ WorkersDone
    /\ IF failure \/ ~Disjoint
       THEN Idle
       ELSE /\ fetch' = "done"
            /\ answer' = All
            /\ UNCHANGED <<requests, nextIndex, inFlight, failure, results, heard>>

Finish == fetch = "done" /\ Idle

Provider ==
    \/ \E listed \in [Phases -> Listings], wellFormed \in BOOLEAN :
         Sessions(listed, wellFormed)
    \/ SessionsFail
    \/ \E i \in inFlight : RequestFails(i) \/ \E reports \in Responses : Respond(i, reports)

Next == Begin \/ Take \/ TimeLimit \/ Collect \/ Finish \/ Provider

Spec == Init /\ [][Next]_feedVars

-----------------------------------------------------------------------------
(* Properties                                                              *)

\* The state is of the declared shape (OfficialFeedObservation).
TypeOK ==
    /\ nextIndex \in 1..Cardinality(Phases) + 1
    /\ inFlight \subseteq DOMAIN requests
    /\ \A i \in DOMAIN results : results[i] \subseteq Observations
    /\ answer \subseteq Observations

\* What a fetch returns is all the provider said of the phases of the date: a
\* match of every answer that has a score, once, and completed exactly when it
\* was complete and official for both sides; a failed phase is never left out
\* (fetchPhaseResultsWithConcurrencyTwo, parseOfficialDetailPayload).
AnswerIsComplete ==
    fetch = "done" =>
        /\ \A i \in DOMAIN requests : \E r \in heard[i] : TRUE
        /\ \A i \in DOMAIN requests : \A r \in heard[i] :
             LET observed == {o \in answer : o.code = r.code}
                 scored == ~Either(r, "GETTING_READY") /\ r.unit # "UPCOMING"
             IN scored => observed = {[code |-> r.code,
                                       status |-> IF r.unit = "COMPLETE" /\ Both(r, "OFFICIAL")
                                                  THEN "COMPLETED" ELSE "LIVE"]}

=============================================================================
