---------------------------- MODULE MCQuietWorld ----------------------------
(***************************************************************************)
(* The parts of the site that owe something once their surroundings are    *)
(* quiet: the poll of a Champion Data match, the sync of a Glasgow match,  *)
(* the badge of an open page, and the broadcasts of a process whose        *)
(* lookups all succeed.  They share no state here; a behaviour is one of   *)
(* them, chosen at the start.                                              *)
(***************************************************************************)
EXTENDS MatchRevision, Sequences, FiniteSets, TLC

CONSTANTS x, y, NoTeam,            \* teams
          c1, c2, None,            \* components of a page; no instant
          p1, s1, Nowhere          \* a process, a subscription, no process

VARIABLES
    part,       \* the part at work
    provider,   \* what the upstream of Champion Data would answer now
    calm,       \* nothing changes upstream and nothing fails any more
    gClock, gRow, table, log, latest, previews, gJob, agreeing,
    gProvider, gCalm,
    hour, match, public, reading, steady, badge, watching, pollTimer, dayCalm,
    mRow, lookup, task, joined, page

glasgowVars ==
    <<gClock, gRow, table, log, latest, previews, gJob, agreeing,
      gProvider, gCalm>>
dayVars == <<hour, match, public, reading, steady, badge, watching, pollTimer, dayCalm>>
broadcastVars == <<mRow, lookup, task, joined, page>>

-----------------------------------------------------------------------------
(***************************************************************************)
(* What one worker owes a match once its surroundings are quiet.  The      *)
(* steps are those of MatchRevision; here the upstream has a state of its  *)
(* own, and from some moment on (calm) it no longer changes and no step    *)
(* fails.  Polls then repeat for ever, as the timer of worker.ts makes     *)
(* them.                                                                   *)
(*                                                                         *)
(* Request tokens are only compared with each other, so between two polls  *)
(* they are replaced by their ranks (Rebase): that keeps the instants      *)
(* within MaxClock in behaviours that never end.                           *)
(***************************************************************************)
recoveryVars == <<vars, provider, calm>>

RecoveryInit ==
    /\ Init
    /\ provider \in Observation
    /\ calm = FALSE

Disturb ==
    /\ ~calm
    /\ \/ provider' \in Observation /\ UNCHANGED vars
       \/ (\E w \in Workers : Failure(w)) /\ UNCHANGED provider
    /\ UNCHANGED calm

CalmDown ==
    /\ ~calm
    /\ calm' = TRUE
    /\ UNCHANGED <<vars, provider>>

Resting == \A w \in Workers : At(w, "idle")

\* The number of distinct tokens of the row that are not later than t.
Rank(t) == Cardinality({u \in {row.retrievedAt, row.updatedAt} \ {0} : u <= t})

Rebased == clock <= Rank(clock) + 1

Rebase ==
    /\ Resting
    /\ ~Rebased
    /\ clock' = Rank(clock) + 1
    /\ row' = [row EXCEPT !.retrievedAt = Rank(@), !.updatedAt = Rank(@)]
    /\ UNCHANGED <<ladder, unread, job, openFix, lostFix, provider, calm>>

\* Polls are seconds apart, so one starts at a later instant than every
\* request of the previous one (scheduleNextPoll).
Work(w) ==
    /\ At(w, "idle") => Rebased
    /\ Answer(w, provider) \/ Progress(w)
    /\ At(w, "idle") => clock' > clock
    /\ UNCHANGED <<provider, calm>>

RecoveryNext == Disturb \/ CalmDown \/ Rebase \/ \E w \in Workers : Work(w)

-----------------------------------------------------------------------------
(* A Glasgow match of two known teams, in either order, and an operator's  *)
(* file with periods.                                                      *)

Score(a, b) == [A |-> a, B |-> b]
Pair(a, b) == [A |-> a, B |-> b]
Seen(status, a, b, score) ==
    [status |-> status, teams |-> Pair(a, b), score |-> score]

Drawn == <<Pair(x, y)>>

Sightings ==
    <<{Seen(status, x, y, score) : status \in {"LIVE", "COMPLETED"},
           score \in {Score(0, 0), Score(1, 0), Score(0, 1)}}
      \cup {Seen("COMPLETED", y, x, Score(0, 1))}>>

File ==
    <<[match |-> 1, teams |-> Pair(x, y), status |-> "COMPLETED",
       quality |-> "UNOFFICIAL_FINAL", score |-> Score(1, 0), updated |-> 0,
       periods |-> [upto |-> 4, sum |-> Score(1, 0)]]>>

Glasgow == INSTANCE GlasgowRecovery WITH
    Teams <- {x, y}, Matches <- {1}, Drawn <- Drawn, Bracket <- {}, Pool <- {1},
    Sightings <- Sightings, Drafts <- {File}, MaxGoals <- 1, MaxPeriods <- 4,
    MaxClock <- 1, MaxReceipts <- 3, MaxPreviews <- 1,
    clock <- gClock, row <- gRow, job <- gJob, provider <- gProvider, calm <- gCalm

(***************************************************************************)
(* One match, and two components of a page.                                *)
(***************************************************************************)
Day == INSTANCE MatchDay WITH
    Matches <- {1}, Hours <- 0..1, DayLength <- 2, Schedule <- <<1>>,
    Limit <- 1, Components <- {c1, c2}, calm <- dayCalm

(***************************************************************************)
(* A page, its subscription and the process it is connected to; every      *)
(* lookup succeeds.                                                        *)
(***************************************************************************)
Broadcast == INSTANCE MatchRealtime WITH
    Processes <- {p1}, Subscriptions <- {s1}, FirstRevisions <- {1}, MaxRevision <- 2,
    Disturbances <- {"request", "commit", "close", "revocation"}, row <- mRow

ASSUME PartsAssumption ==
    /\ Glasgow!ResultsAssumption /\ Day!MatchDayAssumption
    /\ Broadcast!RealtimeAssumption

-----------------------------------------------------------------------------
Parts == {"revision", "glasgow", "day", "broadcast"}

QuietInit ==
    /\ part \in Parts
    /\ IF part = "revision" THEN RecoveryInit
       ELSE Init /\ calm = FALSE /\ provider = NoObservation
    /\ IF part = "glasgow" THEN Glasgow!RecoveryInit
       ELSE Glasgow!Init /\ gCalm = FALSE /\ gProvider = CHOOSE reports \in Glasgow!Reports : TRUE
    /\ Day!Init
    /\ Broadcast!Init /\ (part # "broadcast" => mRow.status = "LIVE")

\* A part at work, the others at rest.
QuietNext ==
    /\ part' = part
    /\ \/ part = "revision" /\ RecoveryNext
          /\ UNCHANGED <<glasgowVars, dayVars, broadcastVars>>
       \/ part = "glasgow" /\ Glasgow!RecoveryNext
          /\ UNCHANGED <<recoveryVars, dayVars, broadcastVars>>
       \/ part = "day" /\ Day!Next
          /\ UNCHANGED <<recoveryVars, glasgowVars, broadcastVars>>
       \/ part = "broadcast" /\ Broadcast!Next
          /\ UNCHANGED <<recoveryVars, glasgowVars, dayVars>>

quietVars == <<part, recoveryVars, glasgowVars, dayVars, broadcastVars>>

\* The fairness of each part while it is at work.  A worker keeps polling (the chain of
\* timers in scheduleNextPoll) and its requests are answered or fail; nobody promises
\* that the world calms down.
QuietFairness ==
    /\ WF_recoveryVars(part = "revision" /\ Rebase)
    /\ \A w \in Workers : WF_recoveryVars(part = "revision" /\ Work(w))
    /\ WF_glasgowVars(part = "glasgow" /\ Glasgow!Forget)
    /\ \A w \in Workers : WF_glasgowVars(part = "glasgow" /\ Glasgow!Work(w))
    /\ WF_dayVars(part = "day" /\ Day!Poll)
    /\ WF_dayVars(part = "day" /\ Day!Read)
    /\ WF_broadcastVars(part = "broadcast" /\ Broadcast!ReadLookup(p1))
    /\ WF_broadcastVars(part = "broadcast" /\ Broadcast!ResolveLookup(p1))
    /\ \A t \in {p1, s1} : WF_broadcastVars(part = "broadcast" /\ Broadcast!Proceed(t))

QuietSpec == QuietInit /\ [][QuietNext]_quietVars /\ QuietFairness

-----------------------------------------------------------------------------
(* Properties                                                              *)

\* The stored result is the upstream's, official, and no retry is pending.
Settled ==
    /\ row.status = "COMPLETED"
    /\ Official
    /\ row.score = provider.score
    /\ ~OpenCorrection

\* A completion or correction is never lost: whatever failed before (a lost
\* request, a mismatch, a crash after the commit), once the upstream rests at a
\* completed match the official result reaches it and stays there
\* (the durable retries of worker.ts).
CompletionIsDurable ==
    [](calm /\ provider.status = "COMPLETED" => <>[]Settled)

\* While a match is in play its score reaches the row again and again, also
\* after the stale-clock rule has closed the match too early, unless an answer
\* from before has made the result official.
LiveScoreIsFollowed ==
    (calm /\ provider.status = "LIVE")
        ~> (row.status = "LIVE" /\ row.score = provider.score) \/ Official

\* Those of the other parts, by their names there.

\* A final result of the Glasgow feed becomes official (official-feed-sync.ts).
FinalBecomesOfficial == part = "glasgow" => Glasgow!FinalBecomesOfficial

\* The badge of a page that stays open comes to show what is on (useLiveStatus.ts).
BadgeCatchesUp == Day!BadgeCatchesUp

\* A broadcast with the right revision reaches the page (broadcasting.ts).
BroadcastsReachTheRoom == Broadcast!BroadcastsReachTheRoom

=============================================================================
