--------------------------- MODULE MatchRevision ---------------------------
(***************************************************************************)
(* The life of one Champion Data match row under any number of concurrent  *)
(* workers (src/lib/worker.ts, ingestion.ts, processing.ts).               *)
(*                                                                         *)
(* A poll is a sequence of awaits, so each worker is a small program:      *)
(*   idle -> fixture -> detail -> filter -> sync -> live -> reconcile      *)
(*        -> detect -> detectTx -> plan -> finalRead -> finalOpen          *)
(*        -> finalFetch -> finalTx -> finalLog -> finalClear -> idle       *)
(* A serializable transaction is one step; a request is two (it starts,    *)
(* it is answered), and its ordering token is the time it STARTED.  What   *)
(* is read in one step and used in a later one may be stale by then.       *)
(*                                                                         *)
(* Abstractions.  The score stands for the whole canonical detail (score,  *)
(* quarters, player and team statistics).  The clock of the stored period, *)
(* which decides whether a LIVE row looks finished, is a free choice.      *)
(* Workers are separate processes reading clocks that agree; the lock that *)
(* serializes polls inside one process only removes interleavings.         *)
(* Metadata of the fixture (teams, venue, stage) is not represented.       *)
(* The standings are those of the edition: the part of them this match     *)
(* makes up is what the last rebuild, also one by another match, read.     *)
(***************************************************************************)
EXTENDS Naturals, TLC

CONSTANTS
    Workers,    \* worker processes
    Scores,     \* the scores a provider may report
    NoScore,    \* no score: no row, no observation
    MaxClock    \* bound on the instants at which a request may start

ASSUME ConstantsAssumption ==
    /\ NoScore \notin Scores
    /\ MaxClock \in Nat

\* Workers and scores are only compared: where they are model values and no
\* temporal property with fairness is checked, their permutations are symmetries.
Symmetry == Permutations(Workers) \cup Permutations(Scores)

VARIABLES
    clock,      \* the present; request tokens are values it has had
    row,        \* the Match row
    ladder,     \* the match's contribution to Standing, NoScore for none
    unread,     \* workers whose read of the stale LIVE row is outdated
    job,        \* each worker's poll
    openFix,    \* workers whose attempt has an open final-detail-correction
    lostFix     \* whether an abandoned correction attempt left one open

vars == <<clock, row, ladder, unread, job, openFix, lostFix>>

Lifecycle == {"SCHEDULED", "LIVE", "COMPLETED"}

Observation == [status : Lifecycle, score : Scores]
NoObservation == [status |-> "NONE", score |-> NoScore]

OfficialQuality == {"OFFICIAL_FINAL", "CORRECTED"}
PromotableQuality == {"UNKNOWN", "PROVISIONAL", "UNOFFICIAL_FINAL"}
ResultQuality == OfficialQuality \cup PromotableQuality

Idle == [pc |-> "idle", fixAt |-> 0, fix |-> NoObservation,
         detailAt |-> 0, detail |-> NoScore, skip |-> FALSE,
         newly |-> FALSE, correction |-> FALSE, finalAt |-> 0]

Official == row.quality \in OfficialQuality

\* hasAcceptedFixtureRevision, and the rule of every path behind it: the row
\* still holds the worker's fixture, and no detail as recent as that fixture.
FixtureAccepted(w) == row.retrievedAt = job[w].fixAt
DetailOutdated(w) == row.updatedAt < job[w].fixAt

\* What a rebuild of the standings takes from a row.
LadderOf(r) ==
    IF r.status = "COMPLETED" /\ r.quality \in OfficialQuality \cup {"UNOFFICIAL_FINAL"}
    THEN r.score ELSE NoScore

\* A mutation: the standings are rebuilt before the row is written.
RebuildBeforeWrite == ladder' = LadderOf(row)

\* rebuildStandingsInTransaction, after the row is written.
Rebuild == ladder' = LadderOf(row')

\* cp_prepare_legacy_match_write, the trigger before every write of a lifecycle
\* or a quality: a completed row is never stored as pending.
Stored(r) ==
    [r EXCEPT !.quality =
        IF r.status = "COMPLETED" /\ @ \in {"UNKNOWN", "PROVISIONAL"} THEN "UNOFFICIAL_FINAL"
        ELSE IF r.status = "LIVE" /\ @ = "UNKNOWN" THEN "PROVISIONAL"
        ELSE @]

\* Every write of the row moves Match.updatedAt.
WriteRow(r) == row' = Stored(r) /\ unread' = Workers

-----------------------------------------------------------------------------

Init ==
    /\ clock = 1
    /\ row = [status |-> "ABSENT", quality |-> "UNKNOWN", score |-> NoScore,
              retrievedAt |-> 0, updatedAt |-> 0, detailed |-> FALSE]
    /\ ladder = NoScore
    /\ unread = Workers
    /\ job = [w \in Workers |-> Idle]
    /\ openFix = {}
    /\ lostFix = FALSE

At(w, label) == job[w].pc = label

\* The worker continues with the fields of its poll that `next` gives.
Continue(w, next) == job' = [job EXCEPT ![w] = next]

Goto(w, label) == Continue(w, [job[w] EXCEPT !.pc = label])

\* Nothing is left to do for this match: the poll goes on with the others, or
\* ends.  Its fixture plays no part any more.
Pass(w) == Continue(w, [Idle EXCEPT !.pc = "detect"])
Stop(w) == Continue(w, Idle)

\* new Date() at the start of a request: requests may share an instant.
Now(t) == t \in {clock, clock + 1} /\ t <= MaxClock /\ clock' = t

-----------------------------------------------------------------------------
(* Ingestion                                                               *)

\* A poll starts by requesting the fixture.
StartPoll(w) ==
    /\ At(w, "idle")
    /\ \E t \in {clock, clock + 1} :
         /\ Now(t)
         /\ Continue(w, [Idle EXCEPT !.pc = "fixture", !.fixAt = t])
    /\ UNCHANGED <<row, ladder, unread, openFix, lostFix>>

\* The details are requested of a match in play, and of a completed one the
\* database has not caught up with.
WantsDetail(obs) ==
    \/ obs.status = "LIVE"
    \/ /\ obs.status = "COMPLETED"
       /\ row.status \in {"ABSENT", "SCHEDULED", "LIVE"} \/ ~row.detailed

FixtureAnswered(w, obs) ==
    /\ At(w, "fixture")
    /\ IF WantsDetail(obs)
       THEN \E t \in {clock, clock + 1} :
              /\ Now(t)
              /\ Continue(w, [job[w] EXCEPT !.pc = "detail", !.fix = obs,
                                            !.detailAt = t])
       ELSE /\ Continue(w, [job[w] EXCEPT !.pc = "filter", !.fix = obs])
            /\ UNCHANGED clock
    /\ UNCHANGED <<row, ladder, unread, openFix, lostFix>>

\* Nothing was ingested for this match: a poll that is left with no match at
\* all ends early, without the later phases.
WithoutSource(w) == Pass(w) \/ Stop(w)

FixtureFailed(w) ==
    /\ At(w, "fixture")
    /\ WithoutSource(w)
    /\ UNCHANGED <<clock, row, ladder, unread, openFix, lostFix>>

DetailAnswered(w, score) ==
    /\ At(w, "detail")
    /\ Continue(w, [job[w] EXCEPT !.pc = "filter", !.detail = score])
    /\ UNCHANGED <<clock, row, ladder, unread, openFix, lostFix>>

\* Without a detail the fixture may still complete the match; with one that
\* does not validate, or whose observation could not be logged, it may not.
DetailFailed(w) ==
    /\ At(w, "detail")
    /\ \E rejected \in BOOLEAN :
         Continue(w, [job[w] EXCEPT !.pc = "filter", !.detailAt = 0, !.skip = rejected])
    /\ UNCHANGED <<clock, row, ladder, unread, openFix, lostFix>>

\* filterSupersededFixtureObservation
FilterSuperseded(w) ==
    /\ At(w, "filter")
    /\ IF row.retrievedAt >= job[w].fixAt \/ row.updatedAt >= job[w].fixAt
       THEN WithoutSource(w)
       ELSE Goto(w, "sync")
    /\ UNCHANGED <<clock, row, ladder, unread, openFix, lostFix>>

InitialQuality(status) == IF status = "SCHEDULED" THEN "UNKNOWN" ELSE "PROVISIONAL"

\* syncFixtureMatches: create the row, accept a newer fixture, or refuse.
SyncWrite(w) ==
    \/ /\ row.status = "ABSENT"
       /\ WriteRow([row EXCEPT !.status = job[w].fix.status,
                               !.quality = InitialQuality(job[w].fix.status),
                               !.score = job[w].fix.score,
                               !.retrievedAt = job[w].fixAt])
    \/ /\ row.status # "ABSENT"
       /\ row.retrievedAt < job[w].fixAt
       /\ WriteRow([row EXCEPT !.retrievedAt = job[w].fixAt])
    \/ /\ row.status # "ABSENT"
       /\ row.retrievedAt >= job[w].fixAt
       /\ UNCHANGED <<row, unread>>

\* A fixture that is refused stays in the poll: the revision checks of the
\* later phases are what keeps it from being used.
SyncFixture(w) ==
    /\ At(w, "sync")
    /\ SyncWrite(w)
    /\ IF job[w].skip
       THEN Pass(w)
       ELSE Goto(w, IF job[w].detail = NoScore THEN "reconcile" ELSE "live")
    /\ UNCHANGED <<clock, ladder, openFix, lostFix>>

\* The update of this match, or of another one of its source, is lost.
SyncFailed(w) ==
    /\ At(w, "sync")
    /\ SyncWrite(w) \/ UNCHANGED <<row, unread>>
    /\ WithoutSource(w)
    /\ UNCHANGED <<clock, ladder, openFix, lostFix>>

-----------------------------------------------------------------------------
(* Processing                                                              *)

\* Mutations: without the detail's revision, without the protection of an
\* official result, and with every completed result protected.
LiveWithoutRevision(w) ==
    ~FixtureAccepted(w) \/ (row.status = "COMPLETED" /\ Official /\ job[w].fix.status # "COMPLETED")
LiveReopensFinal(w) == row.updatedAt >= job[w].detailAt \/ ~FixtureAccepted(w)
LiveNeverReopens(w) ==
    LiveReopensFinal(w) \/ (row.status = "COMPLETED" /\ job[w].fix.status # "COMPLETED")

LiveSuperseded(w) ==
    \/ row.updatedAt >= job[w].detailAt
    \/ ~FixtureAccepted(w)
    \/ row.status = "COMPLETED" /\ Official /\ job[w].fix.status # "COMPLETED"

\* The transaction of one detail observation.  Its lifecycle is the fixture's;
\* a completed one writes nothing here and is left to finalization.
ApplyLive(w) ==
    /\ At(w, "live")
    /\ ~LiveSuperseded(w)
    /\ job[w].fix.status # "COMPLETED"
    /\ WriteRow([row EXCEPT !.status = job[w].fix.status,
                            !.quality = IF row.status = job[w].fix.status THEN @
                                        ELSE InitialQuality(job[w].fix.status),
                            !.score = job[w].detail,
                            !.updatedAt = job[w].detailAt,
                            !.detailed = TRUE])
    /\ IF row.status = "COMPLETED" THEN Rebuild ELSE UNCHANGED ladder
    /\ Continue(w, [job[w] EXCEPT !.pc = "reconcile", !.detail = NoScore, !.detailAt = 0])
    /\ UNCHANGED <<clock, openFix, lostFix>>

SkipLive(w) ==
    /\ At(w, "live")
    /\ \/ /\ LiveSuperseded(w)
          /\ Pass(w)
       \/ /\ ~LiveSuperseded(w)
          /\ job[w].fix.status = "COMPLETED"
          /\ Continue(w, [job[w] EXCEPT !.pc = "reconcile", !.detail = NoScore,
                                        !.detailAt = 0])
    /\ UNCHANGED <<clock, row, ladder, unread, openFix, lostFix>>

\* reconcileCompletedMatches: the fixture alone marks the match as finished,
\* meant to be pending until its final detail; the standings are not rebuilt.
Reconcile(w) ==
    /\ At(w, "reconcile")
    /\ IF /\ job[w].fix.status = "COMPLETED"
          /\ row.status \in {"LIVE", "SCHEDULED"}
          /\ FixtureAccepted(w)
          /\ DetailOutdated(w)
       THEN /\ WriteRow([row EXCEPT !.status = "COMPLETED", !.quality = "PROVISIONAL"])
            /\ Continue(w, [job[w] EXCEPT !.pc = "detect", !.newly = TRUE])
       ELSE /\ Goto(w, "detect")
            /\ UNCHANGED <<row, unread>>
    /\ UNCHANGED <<clock, ladder, openFix, lostFix>>

\* detectStaleCompletedMatches reads the LIVE rows; whether this one's period
\* clock, which comes with a detail, and age say that it has ended is left open.
DetectStale(w) ==
    /\ At(w, "detect")
    /\ \/ /\ row.status = "LIVE" /\ row.detailed
          /\ unread' = unread \ {w}
          /\ Goto(w, "detectTx")
       \/ /\ Goto(w, "plan")
          /\ UNCHANGED unread
    /\ UNCHANGED <<clock, row, ladder, openFix, lostFix>>

\* Its update is conditional on the row being as it was read.
CompleteStale(w) ==
    /\ At(w, "detectTx")
    /\ IF row.status = "LIVE" /\ w \notin unread
       THEN /\ WriteRow([row EXCEPT !.status = "COMPLETED", !.quality = "UNOFFICIAL_FINAL"])
            /\ Rebuild
            /\ Continue(w, [job[w] EXCEPT !.pc = "plan", !.newly = TRUE])
       ELSE /\ unread' = unread \cup {w}
            /\ Goto(w, "plan")
            /\ UNCHANGED <<row, ladder>>
    /\ UNCHANGED <<clock, openFix, lostFix>>

-----------------------------------------------------------------------------
(* Finalization                                                            *)

\* A mutation: the detail that was committed meanwhile is not looked at.
MayFinalizeAgain(w) == job[w].fix.status = "COMPLETED" /\ FixtureAccepted(w)

\* A completed fixture that is still the accepted one and newer than the
\* stored detail: the precondition of every final write.
MayFinalize(w) ==
    /\ job[w].fix.status = "COMPLETED"
    /\ FixtureAccepted(w)
    /\ DetailOutdated(w)

ScoreDiffers(w) == row.score # job[w].fix.score

\* reconcileStaleCompletedScores
PendingScore(w) ==
    /\ row.status = "COMPLETED"
    /\ MayFinalize(w)
    /\ ScoreDiffers(w) \/ row.quality \in PromotableQuality

WasCorrection(w) == PendingScore(w) /\ ScoreDiffers(w) /\ Official

OpenCorrection == lostFix \/ openFix # {}

\* A failed correction is retried whether or not the scores still differ.
DurableCorrection(w) ==
    /\ OpenCorrection
    /\ job[w].fix # NoObservation
    /\ row.status = "COMPLETED"

\* A mutation: only a match that is completed in this poll is finalized.
ChosenOnce(w) == job[w].newly \/ DurableCorrection(w)

Chosen(w) ==
    \/ job[w].newly
    \/ PendingScore(w)
    \/ row.status = "COMPLETED" /\ row.quality \in PromotableQuality
    \/ DurableCorrection(w)

\* The end of pollChampionData: the scans that choose what to finalize.
ScheduleFinalization(w) ==
    /\ At(w, "plan")
    /\ IF Chosen(w)
       THEN Continue(w, [job[w] EXCEPT !.pc = "finalRead", !.newly = FALSE,
                             !.correction = WasCorrection(w) \/ DurableCorrection(w)])
       ELSE Stop(w)
    /\ UNCHANGED <<clock, row, ladder, unread, openFix, lostFix>>

\* finalizeCompletedMatches reads all its matches, then takes them in turn.
ReadForFinalization(w) ==
    /\ At(w, "finalRead")
    /\ IF MayFinalize(w)
       THEN Continue(w, [job[w] EXCEPT !.pc = "finalOpen",
                             !.correction = @ \/ OpenCorrection \/ row.quality = "CORRECTED"])
       ELSE Stop(w)
    /\ UNCHANGED <<clock, row, ladder, unread, openFix, lostFix>>

\* Log the intent, request the final detail.
StartFinalization(w) ==
    /\ At(w, "finalOpen")
    /\ \E t \in {clock, clock + 1} :
         /\ Now(t)
         /\ Continue(w, [job[w] EXCEPT !.pc = "finalFetch", !.finalAt = t])
    /\ openFix' = IF job[w].correction THEN openFix \cup {w} ELSE openFix
    /\ UNCHANGED <<row, ladder, unread, lostFix>>

\* The final detail must agree with the fixture it completes.
FinalAnswered(w, obs) ==
    /\ At(w, "finalFetch")
    /\ obs = job[w].fix
    /\ Goto(w, "finalTx")
    /\ UNCHANGED <<clock, row, ladder, unread, openFix, lostFix>>

\* The final transaction checks again what was read before the request.  Its
\* branch for a row as recent as finalAt cannot be reached: finalAt >= fixAt.
CommitFinal(w) ==
    /\ At(w, "finalTx")
    /\ MayFinalize(w)
    /\ WriteRow([row EXCEPT !.status = "COMPLETED",
                            !.quality = IF job[w].correction THEN "CORRECTED"
                                        ELSE "OFFICIAL_FINAL",
                            !.score = job[w].fix.score,
                            !.updatedAt = job[w].finalAt,
                            !.detailed = TRUE])
    /\ Rebuild
    /\ Goto(w, "finalLog")
    /\ UNCHANGED <<clock, openFix, lostFix>>

FinalSuperseded(w) ==
    /\ At(w, "finalTx")
    /\ ~MayFinalize(w)
    /\ Stop(w)
    /\ openFix' = openFix \ {w}
    /\ UNCHANGED <<clock, row, ladder, unread, lostFix>>

\* After the commit the attempt's log is closed, then those of the attempts
\* that failed before it.
CloseLog(w) ==
    /\ At(w, "finalLog")
    /\ openFix' = openFix \ {w}
    /\ IF job[w].correction THEN Goto(w, "finalClear") ELSE Stop(w)
    /\ UNCHANGED <<clock, row, ladder, unread, lostFix>>

ClearCorrections(w) ==
    /\ At(w, "finalClear")
    /\ openFix' = {}
    /\ lostFix' = FALSE
    /\ Stop(w)
    /\ UNCHANGED <<clock, row, ladder, unread>>

\* The attempt's log stays unresolved.
LeaveUnresolved(w) ==
    /\ Stop(w)
    /\ openFix' = openFix \ {w}
    /\ lostFix' = (lostFix \/ job[w].correction)
    /\ UNCHANGED <<clock, row, ladder, unread>>

FinalMismatched(w, obs) ==
    /\ At(w, "finalFetch")
    /\ obs # job[w].fix
    /\ LeaveUnresolved(w)

\* Any error after the attempt was logged, even once the final is committed.
FinalFailed(w) ==
    /\ \/ At(w, "finalFetch") \/ At(w, "finalTx")
       \/ At(w, "finalLog") \/ At(w, "finalClear")
    /\ LeaveUnresolved(w)

-----------------------------------------------------------------------------

\* Another match of the edition rebuilds the standings from all its rows.
RebuildElsewhere ==
    /\ row.status # "ABSENT"
    /\ ladder' = LadderOf(row)
    /\ UNCHANGED <<clock, row, unread, job, openFix, lostFix>>

\* An error that no phase handles ends the whole poll.
PollFailed(w) ==
    /\ job[w].pc \in {"live", "reconcile", "detect", "detectTx", "plan",
                     "finalRead", "finalOpen"}
    /\ Stop(w)
    /\ unread' = unread \cup {w}
    /\ UNCHANGED <<clock, row, ladder, openFix, lostFix>>

\* The process dies and is started again: only the database remains.
Crash(w) ==
    /\ ~At(w, "idle")
    /\ Stop(w)
    /\ unread' = unread \cup {w}
    /\ openFix' = openFix \ {w}
    /\ lostFix' = (lostFix \/ w \in openFix)
    /\ UNCHANGED <<clock, row, ladder>>

\* The upstream answers, `obs` being what it says at that time.
Answer(w, obs) ==
    \/ FixtureAnswered(w, obs)
    \/ DetailAnswered(w, obs.score)
    \/ FinalAnswered(w, obs)
    \/ FinalMismatched(w, obs)

\* The poll goes on as it is meant to.
Progress(w) ==
    \/ StartPoll(w) \/ FilterSuperseded(w) \/ SyncFixture(w)
    \/ ApplyLive(w) \/ SkipLive(w) \/ Reconcile(w)
    \/ DetectStale(w) \/ CompleteStale(w)
    \/ ScheduleFinalization(w) \/ ReadForFinalization(w) \/ StartFinalization(w)
    \/ CommitFinal(w) \/ FinalSuperseded(w) \/ CloseLog(w) \/ ClearCorrections(w)

Failure(w) ==
    \/ FixtureFailed(w) \/ DetailFailed(w) \/ SyncFailed(w)
    \/ FinalFailed(w) \/ PollFailed(w) \/ Crash(w)

\* The upstream may say anything at any time: goals, completion, corrections,
\* and lifecycles or scores that go back.
Next ==
    \/ \E w \in Workers :
          \/ \E obs \in Observation : Answer(w, obs)
          \/ Progress(w)
          \/ Failure(w)
    \/ RebuildElsewhere

Spec == Init /\ [][Next]_vars

-----------------------------------------------------------------------------
(* Properties                                                              *)

Instants == 0..MaxClock

Labels == {"idle", "fixture", "detail", "filter", "sync", "live", "reconcile",
           "detect", "detectTx", "plan", "finalRead", "finalOpen", "finalFetch",
           "finalTx", "finalLog", "finalClear"}

Rows == [status : Lifecycle \cup {"ABSENT"}, quality : ResultQuality,
         score : Scores \cup {NoScore}, retrievedAt : Nat, updatedAt : Nat,
         detailed : BOOLEAN]

Jobs == [pc : Labels, fixAt : Nat, fix : Observation \cup {NoObservation},
         detailAt : Nat, detail : Scores \cup {NoScore}, skip : BOOLEAN,
         newly : BOOLEAN, correction : BOOLEAN, finalAt : Nat]

\* The state is of the declared shape (the records of worker.ts, processing.ts
\* and the Match and PollLog tables that the model keeps).
TypeOK ==
    /\ clock \in Nat
    /\ row \in Rows
    /\ ladder \in Scores \cup {NoScore}
    /\ unread \subseteq Workers
    /\ job \in [Workers -> Jobs]
    /\ openFix \subseteq Workers
    /\ lostFix \in BOOLEAN

\* The ladder never counts a result the row does not hold, and counts every
\* official one: a result that leaves or changes does so in the transaction
\* that rebuilds the standings, whoever else rebuilds them in between
\* (worker.ts, processing.ts: each path decides on its own whether to rebuild).
LadderMatchesResult ==
    /\ ladder \in {NoScore, LadderOf(row)}
    /\ Official => ladder = LadderOf(row)

\* What the worker intends: "A fixture score is not a coherent final detail
\* revision. Keep it non-public/non-standings until finalization applies the
\* matching detail snapshot transactionally." (syncFixtureMatches)
OnlyDetailsCount == ladder # NoScore => row.detailed

\* Every replacement of a stored score is attributed to a strictly newer
\* detail request, and neither ordering token of the row ever goes back,
\* however late an old answer is processed.
RevisionsOrderScores ==
    [][/\ row'.retrievedAt >= row.retrievedAt
       /\ row'.updatedAt >= row.updatedAt
       /\ row.status # "ABSENT" /\ row'.score # row.score
            => row'.updatedAt > row.updatedAt]_vars

\* An attempt that is not a correction never reaches an official result: the
\* decision is made on a read before the request, and no commit in between can
\* make it wrong without also making the attempt fail.
OnlyCorrectionsReplaceOfficial ==
    \A w \in Workers :
        At(w, "finalTx") /\ MayFinalize(w) /\ Official => job[w].correction

\* The stored result follows the lifecycle of CanonicalResult.
Canonical == INSTANCE CanonicalResult
    WITH status <- row.status, quality <- row.quality,
         score <- row.score, rev <- row.updatedAt

ImplementsCanonicalResult == Canonical!Spec

=============================================================================
