--------------------------- MODULE NavigationMonitor ---------------------------
(***************************************************************************)
(* The navigation monitor (scripts/monitor-navigation-performance.ts): one *)
(* browser page after another is opened, watched while a link is hovered,  *)
(* clicked and followed, and closed; what was counted becomes gates (lib/  *)
(* navigation-performance-monitor.ts), and the gates an exit code.         *)
(*                                                                         *)
(* The requests of a page go on by themselves: an answer, an abort or the  *)
(* size of a response may come at any step of the sample.  A request is    *)
(* kept with the phase it was sent in, from which the observer's counters  *)
(* are counted.  Requests of other targets and messages of the console are *)
(* only counted: what fails as a fault, what the page says as an error.    *)
(* Durations are within the budget or not; the bytes of the idle page are. *)
(***************************************************************************)
EXTENDS Integers, Sequences, FiniteSets, SequencesExt, FiniteSetsExt

CONSTANTS
    Transitions,    \* the transitions measured, in their order
    Prefetched,     \* those whose data is fetched when a link is hovered, in that order
    Contracts,      \* the browsers that must not prefetch, in their order
    Samples,        \* measured samples of each transition
    MinEnforced,    \* MIN_ENFORCED_NAVIGATION_SAMPLES
    MaxIdle,        \* budget of requests of an idle page
    Requests,       \* requests that a page may send for its target
    MaxMishaps      \* bound: what goes wrong in a run

MonitorAssumption ==
    /\ Transitions \in Seq(ToSet(Transitions)) /\ IsInjective(Transitions) /\ Transitions # <<>>
    /\ Prefetched \in Seq(ToSet(Transitions)) /\ IsInjective(Prefetched)
    /\ IsFiniteSet(Requests)
    /\ Samples \in Nat \ {0} /\ MinEnforced \in Nat \ {0} /\ MaxIdle \in Nat

VARIABLES
    enforced,   \* budgets decide the exit code
    at,         \* where the monitor is: its step, the group, the sample, the stage
    page,       \* the page open: the observer's phase, the requests, the faults
    evidence,   \* what was counted when the link was clicked
    measured,   \* the summary of each group
    idle,       \* of the idle page: is the measurement complete, within the budget?
    contracts,  \* for each contract, was nothing sent before the click?
    mishaps,    \* what went wrong so far
    history,    \* per group, what its samples were, not what was counted
    exit        \* the exit code: 0, 1 (an error report), 2 (a failing gate)

monitorVars == <<enforced, at, page, evidence, measured, idle, contracts, mishaps, history, exit>>

Groups ==
    LET of(profile, interaction, transitions) ==
            [i \in 1..Len(transitions) |->
               [profile |-> profile, interaction |-> interaction, transition |-> transitions[i]]]
    IN of("desktop", "pointer", Transitions) \o of("mobile", "touch", Transitions)
       \o of("desktop", "keyboard", Prefetched)

LastGroup == Len(Groups)
Group == Groups[at.group]

\* Only a pointer that hovers and a focus announce the click.
Announced(g) == g.interaction # "touch"

\* The groups whose data must have been fetched before the click.
Required(g) == Announced(g) /\ \E i \in DOMAIN Prefetched : Prefetched[i] = g.transition

Unsent == [phase |-> "none", end |-> "no", ok |-> FALSE, size |-> "unknown"]
Opened(phase) == [phase |-> phase, requests |-> [r \in Requests |-> Unsent], faults |-> 0,
                  errors |-> 0]
Closed == Opened("closed")
NoEvidence == [requests |-> 0, settled |-> 0, completed |-> 0, sized |-> 0]
NoSummary ==
    [count |-> 0, emitted |-> 0, settled |-> 0, completed |-> 0, sized |-> 0,
     late |-> 0, faults |-> 0, errors |-> 0, slow |-> 0]

\* Budgets are enforced only when there are samples enough (readConfiguration).
Policies == {e \in BOOLEAN : e => Samples >= MinEnforced}

InitWith(policy) ==
    /\ enforced = policy
    /\ at = [step |-> "prerequisites", group |-> 1, sample |-> 0, stage |-> "closed", slow |-> FALSE]
    /\ page = Closed
    /\ evidence = NoEvidence
    /\ measured = [g \in 1..LastGroup |-> NoSummary]
    /\ idle = [complete |-> FALSE, within |-> FALSE]
    /\ contracts = <<>>
    /\ mishaps = 0
    /\ history = [g \in 1..LastGroup |-> {}]
    /\ exit = 0 - 1

Init == \E policy \in Policies : InitWith(policy)

-----------------------------------------------------------------------------
(* What the observer counts                                                *)

SentIn(phase) == {r \in Requests : page.requests[r].phase = phase}
Ended(sent) == {r \in sent : page.requests[r].end # "no"}
Aborted == {r \in Requests : page.requests[r].end = "aborted"}
Finished(sent) == {r \in sent : page.requests[r].end = "done"}
Completed(sent) == {r \in Finished(sent) : page.requests[r].ok}
SizeKnown(sent) == {r \in sent : page.requests[r].size = "known"}

IntentEvidence ==
    LET sent == SentIn("intent")
    IN [requests |-> Cardinality(sent), settled |-> Cardinality(Ended(sent)),
        completed |-> Cardinality(Completed(sent)),
        sized |-> Cardinality(SizeKnown(Completed(sent)))]

\* Every request of the idle page ended, by an answer of a known size or by an
\* abort; the aborts are counted in every phase, and errors of the page not at all.
IdleIsComplete ==
    LET sent == SentIn("idle")
    IN /\ Ended(sent) = sent
       /\ Cardinality(Finished(sent)) + Cardinality(Aborted) = Cardinality(sent)
       /\ SizeKnown(Finished(sent)) = Finished(sent)
       /\ page.faults = 0

\* flush: the sizes asked for have been answered, or refused.
Flushed == \A r \in Finished(Requests) : page.requests[r].size # "pending"

-----------------------------------------------------------------------------
(* The browser                                                             *)

Open == page.phase # "closed"
Mishap == mishaps < MaxMishaps /\ mishaps' = mishaps + 1
PageOnly == UNCHANGED <<enforced, at, evidence, measured, idle, contracts, history, exit>>

\* A request for the target, or of the idle page, in whatever phase it is.
Send(r) ==
    /\ Open
    /\ page.requests[r] = Unsent
    /\ page' = [page EXCEPT !.requests[r].phase = page.phase]
    /\ PageOnly /\ UNCHANGED mishaps

InFlight(r) == Open /\ r \in Requests \ SentIn("none") /\ page.requests[r].end = "no"

\* An aborted request is a settled one and no fault.
Abort(r) ==
    /\ InFlight(r)
    /\ page' = [page EXCEPT !.requests[r].end = "aborted"]
    /\ PageOnly /\ UNCHANGED mishaps

RequestFails(r) ==
    /\ InFlight(r) /\ Mishap
    /\ page' = [page EXCEPT !.requests[r].end = "failed", !.faults = @ + 1]
    /\ PageOnly

Finish(r) ==
    /\ InFlight(r)
    /\ page' = [page EXCEPT !.requests[r].end = "done", !.requests[r].ok = TRUE,
                            !.requests[r].size = "pending"]
    /\ PageOnly /\ UNCHANGED mishaps

\* A response that is not a success, and is a fault if it is the server's.
FinishBadly(r) ==
    /\ InFlight(r) /\ Mishap
    /\ \E server \in {0, 1} :
         page' = [page EXCEPT !.requests[r].end = "done", !.requests[r].size = "pending",
                              !.faults = @ + server]
    /\ PageOnly

Size(r) ==
    /\ Open /\ page.requests[r].size = "pending"
    /\ page' = [page EXCEPT !.requests[r].size = "known"]
    /\ PageOnly /\ UNCHANGED mishaps

SizeFails(r) ==
    /\ Open /\ page.requests[r].size = "pending" /\ Mishap
    /\ page' = [page EXCEPT !.requests[r].size = "unavailable"]
    /\ PageOnly

\* An error of the console or the page; another request that fails, a 5xx.
Fault ==
    /\ Open /\ Mishap
    /\ \/ page' = [page EXCEPT !.errors = @ + 1]
       \/ page' = [page EXCEPT !.faults = @ + 1]
    /\ PageOnly

Browser ==
    \/ \E r \in Requests : Send(r) \/ Abort(r) \/ RequestFails(r) \/ Finish(r)
                           \/ FinishBadly(r) \/ Size(r) \/ SizeFails(r)
    \/ Fault

-----------------------------------------------------------------------------
(* The monitor                                                             *)

\* Every failure ends the run with an error report and exit code 1.
EndWithError ==
    /\ exit' = 1
    /\ at' = [at EXCEPT !.step = "ended"]
    /\ page' = Closed
    /\ UNCHANGED <<enforced, evidence, measured, idle, contracts, history>>

\* Health, readiness and the release before the browser is launched.
Prerequisites ==
    /\ at.step = "prerequisites"
    /\ at' = [at EXCEPT !.step = "idle"]
    /\ page' = Opened("idle")
    /\ UNCHANGED <<enforced, evidence, measured, idle, contracts, mishaps, history, exit>>

\* The observation ends; requests in flight are waited for, not for ever.
ObserveIdle ==
    /\ at.step = "idle" /\ page.phase = "idle"
    /\ page' = [page EXCEPT !.phase = "done"]
    /\ UNCHANGED <<enforced, at, evidence, measured, idle, contracts, mishaps, history, exit>>

MeasureIdle ==
    /\ at.step = "idle" /\ page.phase = "done" /\ Flushed
    /\ idle' = [complete |-> IdleIsComplete, within |-> Cardinality(SentIn("idle")) <= MaxIdle]
    /\ page' = Opened("source")
    /\ at' = [at EXCEPT !.step = "contracts"]
    /\ UNCHANGED <<enforced, evidence, measured, contracts, mishaps, history, exit>>

HoverConstrained ==
    /\ at.step = "contracts" /\ page.phase = "source"
    /\ page' = [page EXCEPT !.phase = "intent"]
    /\ UNCHANGED <<enforced, at, evidence, measured, idle, contracts, mishaps, history, exit>>

MeasureContract ==
    /\ at.step = "contracts" /\ page.phase = "intent"
    /\ contracts' = Append(contracts, SentIn("source") \cup SentIn("intent") = {})
    /\ page' = Opened("source")
    /\ at' = IF Len(contracts) + 1 < Len(Contracts) THEN at
             ELSE [at EXCEPT !.step = "matrix", !.stage = "source_navigation"]
    /\ UNCHANGED <<enforced, evidence, measured, idle, mishaps, history, exit>>

Stage(from, to) == at.step = "matrix" /\ at.stage = from /\ at' = [at EXCEPT !.stage = to]

\* The page is shown and the link found; the phase changes before the hover.
ShowSource ==
    /\ IF Announced(Group) THEN /\ Stage("source_navigation", "intent_settlement")
                                /\ page' = [page EXCEPT !.phase = "intent"]
       ELSE Stage("source_navigation", "navigation_activation") /\ UNCHANGED page
    /\ UNCHANGED <<enforced, evidence, measured, idle, contracts, mishaps, history, exit>>

\* The wait ends when what was sent has ended, when nothing was, or when it
\* has lasted too long: at any time, once the sizes are known.
SettleIntent ==
    /\ Stage("intent_settlement", "navigation_activation")
    /\ Flushed
    /\ UNCHANGED <<enforced, page, evidence, measured, idle, contracts, mishaps, history, exit>>

\* In the history: was anything under way, was there an answer to use?
Click ==
    /\ Stage("navigation_activation", "destination")
    /\ evidence' = IntentEvidence
    /\ page' = [page EXCEPT !.phase = "post-click"]
    /\ history' = IF at.sample = 0 THEN history
                  ELSE [history EXCEPT ![at.group] = @ \cup
                          {[sample |-> at.sample,
                            underway |-> SentIn("intent") \ Ended(SentIn("intent")) # {},
                            sent |-> SentIn("intent") # {},
                            answered |-> SizeKnown(Completed(SentIn("intent"))) # {}]}]
    /\ UNCHANGED <<enforced, measured, idle, contracts, mishaps, exit>>

Arrive ==
    /\ Stage("destination", "post_ready_observation")
    /\ UNCHANGED <<enforced, page, evidence, measured, idle, contracts, mishaps, history, exit>>

ArriveLate ==
    /\ at.step = "matrix" /\ at.stage = "destination" /\ Mishap
    /\ at' = [at EXCEPT !.stage = "post_ready_observation", !.slow = TRUE]
    /\ UNCHANGED <<enforced, page, evidence, measured, idle, contracts, history, exit>>

ObserveReady ==
    /\ Stage("post_ready_observation", "flush")
    /\ page' = [page EXCEPT !.phase = "done"]
    /\ UNCHANGED <<enforced, evidence, measured, idle, contracts, mishaps, history, exit>>

\* The next sample of the group, the next group, or the report.
NextSample ==
    LET next == [at EXCEPT !.stage = "source_navigation", !.slow = FALSE]
    IN IF at.sample < Samples THEN [next EXCEPT !.sample = @ + 1]
       ELSE IF at.group < LastGroup THEN [next EXCEPT !.group = @ + 1, !.sample = 0]
       ELSE [next EXCEPT !.step = "report"]

\* A mutation: what the hover brought is counted when the sample ends.
CountedAtTheEnd == IntentEvidence

\* It was counted before the click, in the step that sets the phase.
Counted == evidence

Summed(s) ==
    [count |-> s.count + 1,
     emitted |-> s.emitted + IF Counted.requests > 0 THEN 1 ELSE 0,
     settled |-> s.settled + IF Counted.requests > 0 /\ Counted.settled = Counted.requests
                             THEN 1 ELSE 0,
     completed |-> s.completed + Counted.completed,
     sized |-> s.sized + Counted.sized,
     late |-> s.late + Cardinality(SentIn("post-click")),
     faults |-> s.faults + page.faults,
     errors |-> s.errors + page.errors,
     slow |-> s.slow + IF at.slow THEN 1 ELSE 0]

\* The warm-up, sample 0, is not counted.
EndSample ==
    /\ at.step = "matrix" /\ at.stage = "flush" /\ Flushed
    /\ measured' = IF at.sample = 0 THEN measured
                   ELSE [measured EXCEPT ![at.group] = Summed(@)]
    /\ at' = NextSample
    /\ page' = IF NextSample.step = "matrix" THEN Opened("source") ELSE Closed
    /\ evidence' = NoEvidence
    /\ UNCHANGED <<enforced, idle, contracts, mishaps, history, exit>>

\* A prerequisite, a route, a stage of a sample or the browser fails: whatever
\* the stage, the sample is named and the run is over.
Fail ==
    /\ at.step # "ended"
    /\ Mishap
    /\ EndWithError

-----------------------------------------------------------------------------
(* The gates                                                               *)

\* nearestRank: the 95th percentile is over the budget when more samples are
\* slow than it leaves aside.
P95IsSlow(s) == s.slow > s.count - ((95 * s.count + 99) \div 100)

\* Gates of a group, only for the groups that have samples.
GroupGates(g) ==
    LET s == measured[g]
        intent == /\ s.emitted = s.count /\ s.settled = s.count
                  /\ s.completed > 0 /\ s.sized = s.completed
    IN [samples |-> s.count >= Samples, errors |-> s.faults = 0 /\ s.errors = 0,
        intent |-> Required(Groups[g]) => intent,
        late |-> Required(Groups[g]) => s.late = 0]

Evidence ==
    /\ \A g \in 1..LastGroup : measured[g].count > 0 =>
         \A gate \in DOMAIN GroupGates(g) : GroupGates(g)[gate]
    /\ idle.complete
    /\ \A c \in DOMAIN contracts : contracts[c]

\* The budgets, which decide only when they are enforced.
Budgets ==
    /\ \A g \in 1..LastGroup : ~P95IsSlow(measured[g])
    /\ idle.within

\* shouldFailNavigationMonitor, once the report is written.
Report ==
    /\ at.step = "report"
    /\ exit' = IF Evidence /\ (enforced => Budgets) THEN 0 ELSE 2
    /\ at' = [at EXCEPT !.step = "ended"]
    /\ UNCHANGED <<enforced, page, evidence, measured, idle, contracts, mishaps, history>>

Next ==
    \/ Browser \/ Prerequisites \/ ObserveIdle \/ MeasureIdle \/ HoverConstrained
    \/ MeasureContract \/ ShowSource \/ SettleIntent \/ Click \/ Arrive \/ ArriveLate
    \/ ObserveReady \/ EndSample \/ Fail \/ Report

Spec == Init /\ [][Next]_monitorVars

-----------------------------------------------------------------------------
(* A group that passes its gates was clicked the planned number of times,  *)
(* and where data must be prefetched, each click found the requests of its *)
(* hover ended, and one click of the group at least a whole answer; a run  *)
(* that ends well has passed those of every group: however answers, aborts, *)
(* sizes and failures fell between the steps of a sample                   *)
(* (monitor-navigation-performance.ts, evaluateNavigationPerformance).      *)
Passes(g) == measured[g].count > 0 /\ \A gate \in DOMAIN GroupGates(g) : GroupGates(g)[gate]

SuccessIsEvidenced ==
    /\ exit = 0 => \A g \in 1..LastGroup : Passes(g)
    /\ \A g \in 1..LastGroup : Passes(g) =>
         /\ {s.sample : s \in history[g]} = 1..Samples
         /\ Required(Groups[g]) =>
              /\ \A s \in history[g] : s.sent /\ ~s.underway
              /\ \E s \in history[g] : s.answered

=============================================================================
