------------------------ MODULE MatchRevision_proofs ------------------------
(***************************************************************************)
(* Theorems about MatchRevision for every set of workers, every set of     *)
(* scores and every bound on the instants.                                 *)
(***************************************************************************)
EXTENDS MatchRevision, TLAPS

-----------------------------------------------------------------------------
(* The inductive invariant                                                 *)

AtFinal(w) == job[w].pc \in {"finalFetch", "finalTx", "finalLog", "finalClear"}

\* Each lifecycle of the row has its qualities.
RowFits ==
    /\ row.status = "ABSENT" => /\ row.quality = "UNKNOWN"
                                /\ row.score = NoScore
                                /\ row.retrievedAt = 0
                                /\ row.updatedAt = 0
    /\ row.status # "ABSENT" => row.score \in Scores
    /\ row.status = "SCHEDULED" => row.quality = "UNKNOWN"
    /\ row.status = "LIVE" => row.quality = "PROVISIONAL"
    /\ row.status = "COMPLETED" => row.quality \in OfficialQuality \cup {"UNOFFICIAL_FINAL"}

\* The worker has found a completed fixture it may finalize.
Attempting(w) == At(w, "finalOpen") \/ AtFinal(w)

Synced(w) ==
    \/ job[w].pc \in {"live", "reconcile", "detect", "detectTx", "plan", "finalRead"}
    \/ Attempting(w)

\* A poll carries a fixture as long as a phase may use it, and a detail only of
\* a match in play or completed.  Its fixture is not from the future, and once
\* it has been offered to the row, not newer than the accepted one.
PollFits(w) ==
    /\ job[w].pc \in {"detail", "filter", "sync", "live", "reconcile"} \/ Attempting(w)
         => job[w].fix \in Observation
    /\ At(w, "live") => job[w].detail \in Scores
    /\ At(w, "fixture") => job[w].detail = NoScore
    /\ At(w, "detail") \/ job[w].detail # NoScore => job[w].fix.status \in {"LIVE", "COMPLETED"}
    /\ job[w].fixAt <= clock
    /\ job[w].pc \in {"live", "reconcile", "detectTx"} \/ Attempting(w) => row.status # "ABSENT"
    /\ Synced(w) => job[w].fixAt <= row.retrievedAt

\* If the worker's fixture is still the accepted one and the stored detail is
\* older, then a match it has marked as finished is not official yet, and an
\* attempt that is not a correction still finds no official result.
AttemptFits(w) ==
    /\ job[w].newly => /\ job[w].pc \in {"detect", "detectTx", "plan"}
                       /\ FixtureAccepted(w) /\ DetailOutdated(w) => ~Official
    /\ Attempting(w) => job[w].fix.status = "COMPLETED"
    /\ AtFinal(w) => job[w].fixAt <= job[w].finalAt
    /\ At(w, "finalRead") \/ Attempting(w) =>
        /\ job[w].correction => Official
        /\ FixtureAccepted(w) /\ DetailOutdated(w) /\ Official => job[w].correction

\* Only an official result has corrections to retry.
CorrectionsFit == OpenCorrection => Official

IInv ==
    /\ TypeOK
    /\ LadderMatchesResult
    /\ RowFits
    /\ CorrectionsFit
    /\ \A w \in Workers : PollFits(w) /\ AttemptFits(w)

-----------------------------------------------------------------------------
(* Type correctness                                                        *)

\* A worker at rest has a job of the declared shape.
LEMMA IdleType == Idle \in Jobs
  BY DEF Idle, Jobs, Labels, NoObservation

\* The initial state is of the declared shape.
LEMMA InitType == Init => TypeOK
<1> SUFFICES ASSUME Init PROVE TypeOK
  OBVIOUS
<1> USE DEF Init
<1>1. row \in Rows
  BY DEF Rows, ResultQuality, PromotableQuality
<1>2. job \in [Workers -> Jobs]
  BY IdleType
<1> QED
  BY <1>1, <1>2 DEF TypeOK

\* A worker that continues with a job of the declared shape leaves the others
\* as they are.
LEMMA ContinueType ==
  ASSUME TypeOK, NEW w \in Workers, NEW next \in Jobs, Continue(w, next)
  PROVE  job' \in [Workers -> Jobs]
  BY DEF TypeOK, Continue

\* So does one that only moves on, passes over the match or ends its poll.
LEMMA MoveType ==
  ASSUME TypeOK, NEW w \in Workers
  PROVE  /\ \A label \in Labels : Goto(w, label) => job' \in [Workers -> Jobs]
         /\ WithoutSource(w) => job' \in [Workers -> Jobs]
         /\ Pass(w) => job' \in [Workers -> Jobs]
         /\ Stop(w) => job' \in [Workers -> Jobs]
<1>1. job[w] \in Jobs
  BY DEF TypeOK
<1>2. [Idle EXCEPT !.pc = "detect"] \in Jobs
  BY IdleType DEF Jobs, Labels
<1>3. ASSUME NEW label \in Labels, Goto(w, label)
      PROVE  job' \in [Workers -> Jobs]
  <2>1. [job[w] EXCEPT !.pc = label] \in Jobs
    BY <1>1 DEF Jobs
  <2> QED
    BY <1>3, <2>1, ContinueType DEF Goto
<1>4. Pass(w) => job' \in [Workers -> Jobs]
  BY <1>2, ContinueType DEF Pass
<1>5. Stop(w) => job' \in [Workers -> Jobs]
  BY IdleType, ContinueType DEF Stop
<1> QED
  BY <1>3, <1>4, <1>5 DEF WithoutSource

\* The instant of a new request is a time, and not before the present one.
LEMMA NowType ==
  ASSUME TypeOK, NEW t \in {clock, clock + 1}, Now(t)
  PROVE  t \in Nat /\ clock' = t /\ clock <= clock'
  BY DEF TypeOK, Now

\* An answer of the upstream keeps the shape of the state.
LEMMA AnswerType ==
  ASSUME TypeOK, NEW w \in Workers, NEW obs \in Observation, Answer(w, obs)
  PROVE  TypeOK'
<1>0. job[w] \in Jobs
  BY DEF TypeOK
<1>1. CASE FixtureAnswered(w, obs)
  <2>1. job' \in [Workers -> Jobs] /\ clock' \in Nat
    <3>1. CASE WantsDetail(obs)
      <4>1. PICK t \in {clock, clock + 1} :
              /\ Now(t)
              /\ Continue(w, [job[w] EXCEPT !.pc = "detail", !.fix = obs, !.detailAt = t])
        BY <1>1, <3>1 DEF FixtureAnswered
      <4>2. [job[w] EXCEPT !.pc = "detail", !.fix = obs, !.detailAt = t] \in Jobs
        BY <1>0, <4>1, NowType DEF Jobs, Labels
      <4> QED
        BY <4>1, <4>2, NowType, ContinueType
    <3>2. CASE ~WantsDetail(obs)
      <4>1. [job[w] EXCEPT !.pc = "filter", !.fix = obs] \in Jobs
        BY <1>0 DEF Jobs, Labels
      <4> QED
        BY <1>1, <3>2, <4>1, ContinueType DEF FixtureAnswered, TypeOK
    <3> QED
      BY <3>1, <3>2
  <2> QED
    BY <1>1, <2>1 DEF FixtureAnswered, TypeOK
<1>2. CASE DetailAnswered(w, obs.score)
  <2>1. obs.score \in Scores
    BY DEF Observation
  <2>2. [job[w] EXCEPT !.pc = "filter", !.detail = obs.score] \in Jobs
    BY <1>0, <2>1 DEF Jobs, Labels
  <2>3. job' \in [Workers -> Jobs]
    BY <1>2, <2>2, ContinueType DEF DetailAnswered
  <2> QED
    BY <1>2, <2>3 DEF DetailAnswered, TypeOK
<1>3. CASE FinalAnswered(w, obs)
  BY <1>3, MoveType DEF FinalAnswered, TypeOK, Labels
<1>4. CASE FinalMismatched(w, obs)
  BY <1>4, MoveType DEF FinalMismatched, LeaveUnresolved, TypeOK
<1> QED
  BY <1>1, <1>2, <1>3, <1>4 DEF Answer

\* The trigger decides on the quality of a row and leaves the rest alone.
LEMMA StoredRow ==
  ASSUME NEW r \in Rows
  PROVE  /\ Stored(r) \in Rows
         /\ Stored(r).status = r.status /\ Stored(r).score = r.score
         /\ Stored(r).retrievedAt = r.retrievedAt /\ Stored(r).updatedAt = r.updatedAt
         /\ Stored(r).detailed = r.detailed
         /\ Stored(r).quality =
              IF r.status = "COMPLETED" /\ r.quality \in {"UNKNOWN", "PROVISIONAL"}
              THEN "UNOFFICIAL_FINAL"
              ELSE IF r.status = "LIVE" /\ r.quality = "UNKNOWN" THEN "PROVISIONAL"
              ELSE r.quality
  BY DEF Stored, Rows, ResultQuality, PromotableQuality

\* syncFixtureMatches writes a row of the declared shape.
LEMMA SyncWriteType ==
  ASSUME TypeOK, NEW w \in Workers, SyncWrite(w), job[w].fix \in Observation
  PROVE  row' \in Rows /\ unread' \subseteq Workers
<1>1. job[w].fix.status \in Lifecycle /\ job[w].fix.score \in Scores
  BY DEF Observation
<1>2. job[w].fixAt \in Nat
  BY DEF TypeOK, Jobs
<1>3. InitialQuality(job[w].fix.status) \in ResultQuality
  BY DEF InitialQuality, ResultQuality, PromotableQuality
<1>4. row \in Rows /\ unread \subseteq Workers
  BY DEF TypeOK
<1>5. CASE row.status = "ABSENT" \/ row.retrievedAt < job[w].fixAt
  <2> DEFINE created == [row EXCEPT !.status = job[w].fix.status,
                                   !.quality = InitialQuality(job[w].fix.status),
                                   !.score = job[w].fix.score,
                                   !.retrievedAt = job[w].fixAt]
             accepted == [row EXCEPT !.retrievedAt = job[w].fixAt]
  <2>1. created \in Rows /\ accepted \in Rows
    BY <1>1, <1>2, <1>3, <1>4 DEF Rows
  <2>2. /\ unread' = Workers
        /\ row' = Stored(created) \/ row' = Stored(accepted)
    BY <1>2, <1>4, <1>5 DEF SyncWrite, WriteRow, Rows
  <2> HIDE DEF created, accepted
  <2> QED
    BY <2>1, <2>2, StoredRow
<1>6. CASE UNCHANGED <<row, unread>>
  BY <1>4, <1>6
<1> QED
  BY <1>5, <1>6 DEF SyncWrite

\* What the standings take from a row is a score or nothing.
LEMMA LadderOfType ==
  ASSUME NEW r \in Rows
  PROVE  LadderOf(r) \in Scores \cup {NoScore}
  BY DEF LadderOf, Rows

\* A step that fails keeps the shape of the state.
LEMMA FailureType ==
  ASSUME TypeOK, NEW w \in Workers, Failure(w), PollFits(w)
  PROVE  TypeOK'
<1>1. CASE FixtureFailed(w)
  BY <1>1, MoveType DEF FixtureFailed, TypeOK
<1>2. CASE DetailFailed(w)
  <2>1. PICK rejected \in BOOLEAN :
          Continue(w, [job[w] EXCEPT !.pc = "filter", !.detailAt = 0, !.skip = rejected])
    BY <1>2 DEF DetailFailed
  <2>2. [job[w] EXCEPT !.pc = "filter", !.detailAt = 0, !.skip = rejected] \in Jobs
    BY DEF TypeOK, Jobs, Labels
  <2>3. job' \in [Workers -> Jobs]
    BY <2>1, <2>2, ContinueType
  <2> QED
    BY <1>2, <2>3 DEF DetailFailed, TypeOK
<1>3. CASE SyncFailed(w)
  <2>1. job[w].fix \in Observation
    BY <1>3 DEF SyncFailed, At, PollFits
  <2>2. row' \in Rows /\ unread' \subseteq Workers
    BY <1>3, <2>1, SyncWriteType DEF SyncFailed, TypeOK
  <2>3. job' \in [Workers -> Jobs]
    BY <1>3, MoveType DEF SyncFailed
  <2> QED
    BY <1>3, <2>2, <2>3 DEF SyncFailed, TypeOK
<1>4. CASE FinalFailed(w)
  BY <1>4, MoveType DEF FinalFailed, LeaveUnresolved, TypeOK
<1>5. CASE PollFailed(w)
  BY <1>5, MoveType DEF PollFailed, TypeOK
<1>6. CASE Crash(w)
  BY <1>6, MoveType DEF Crash, TypeOK
<1> QED
  BY <1>1, <1>2, <1>3, <1>4, <1>5, <1>6 DEF Failure

\* A step of the poll keeps the shape of the state.
LEMMA ProgressType ==
  ASSUME TypeOK, NEW w \in Workers, Progress(w), PollFits(w)
  PROVE  TypeOK'
<1>0. job[w] \in Jobs /\ row \in Rows
  BY DEF TypeOK
<1>1. CASE StartPoll(w)
  <2>1. PICK t \in {clock, clock + 1} :
          Now(t) /\ Continue(w, [Idle EXCEPT !.pc = "fixture", !.fixAt = t])
    BY <1>1 DEF StartPoll
  <2>2. [Idle EXCEPT !.pc = "fixture", !.fixAt = t] \in Jobs
    BY <2>1, IdleType, NowType DEF Jobs, Labels
  <2>3. job' \in [Workers -> Jobs] /\ clock' \in Nat
    BY <2>1, <2>2, ContinueType, NowType
  <2> QED
    BY <1>1, <2>3 DEF StartPoll, TypeOK
<1>2. CASE FilterSuperseded(w)
  BY <1>2, MoveType DEF FilterSuperseded, TypeOK, Labels
<1>3. CASE SyncFixture(w)
  <2>1. job[w].fix \in Observation
    BY <1>3 DEF SyncFixture, At, PollFits
  <2>2. row' \in Rows /\ unread' \subseteq Workers
    BY <1>3, <2>1, SyncWriteType DEF SyncFixture
  <2>3. job' \in [Workers -> Jobs]
    BY <1>3, MoveType DEF SyncFixture, Labels
  <2> QED
    BY <1>3, <2>2, <2>3 DEF SyncFixture, TypeOK
<1>4. CASE ApplyLive(w)
  <2>1. job[w].fix.status \in Lifecycle /\ job[w].detail \in Scores
    BY <1>4 DEF ApplyLive, At, PollFits, Observation
  <2>2. InitialQuality(job[w].fix.status) \in ResultQuality
    BY DEF InitialQuality, ResultQuality, PromotableQuality
  <2>3. row' \in Rows /\ unread' = Workers
    <3>1. PICK r \in Rows : row' = Stored(r) /\ unread' = Workers
      BY <1>0, <1>4, <2>1, <2>2 DEF ApplyLive, WriteRow, Rows, Jobs
    <3> QED
      BY <3>1, StoredRow
  <2>4. ladder' \in Scores \cup {NoScore}
    BY <1>4, <2>3, LadderOfType DEF ApplyLive, Rebuild, TypeOK
  <2>5. [job[w] EXCEPT !.pc = "reconcile", !.detail = NoScore, !.detailAt = 0] \in Jobs
    BY <1>0 DEF Jobs, Labels
  <2>6. job' \in [Workers -> Jobs]
    BY <1>4, <2>5, ContinueType DEF ApplyLive
  <2> QED
    BY <1>4, <2>3, <2>4, <2>6 DEF ApplyLive, TypeOK
<1>5. CASE SkipLive(w)
  <2>1. [job[w] EXCEPT !.pc = "reconcile", !.detail = NoScore, !.detailAt = 0] \in Jobs
    BY <1>0 DEF Jobs, Labels
  <2>2. job' \in [Workers -> Jobs]
    BY <1>5, <2>1, ContinueType, MoveType DEF SkipLive
  <2> QED
    BY <1>5, <2>2 DEF SkipLive, TypeOK
<1>6. CASE Reconcile(w)
  <2>1. [job[w] EXCEPT !.pc = "detect", !.newly = TRUE] \in Jobs
    BY <1>0 DEF Jobs, Labels
  <2>2. job' \in [Workers -> Jobs]
    BY <1>6, <2>1, ContinueType, MoveType DEF Reconcile, Labels
  <2>3. row' \in Rows /\ unread' \subseteq Workers
    <3>1. \/ \E r \in Rows : row' = Stored(r) /\ unread' = Workers
          \/ UNCHANGED <<row, unread>>
      BY <1>0, <1>6 DEF Reconcile, WriteRow, Rows, Lifecycle, ResultQuality, PromotableQuality
    <3> QED
      BY <3>1, StoredRow DEF TypeOK
  <2> QED
    BY <1>6, <2>2, <2>3 DEF Reconcile, TypeOK
<1>7. CASE DetectStale(w)
  BY <1>7, MoveType DEF DetectStale, TypeOK, Labels
<1>8. CASE CompleteStale(w)
  <2>1. [job[w] EXCEPT !.pc = "plan", !.newly = TRUE] \in Jobs
    BY <1>0 DEF Jobs, Labels
  <2>2. job' \in [Workers -> Jobs]
    BY <1>8, <2>1, ContinueType, MoveType DEF CompleteStale, Labels
  <2>3. row' \in Rows /\ unread' \subseteq Workers
    <3>1. \/ \E r \in Rows : row' = Stored(r) /\ unread' = Workers
          \/ row' = row /\ unread' = unread \cup {w}
      BY <1>0, <1>8 DEF CompleteStale, WriteRow, Rows, Lifecycle, ResultQuality,
                        PromotableQuality
    <3> QED
      BY <3>1, StoredRow DEF TypeOK
  <2>4. ladder' \in Scores \cup {NoScore}
    BY <1>8, <2>3, LadderOfType DEF CompleteStale, Rebuild, TypeOK
  <2> QED
    BY <1>8, <2>2, <2>3, <2>4 DEF CompleteStale, TypeOK
<1>9. CASE StartFinalization(w)
  <2>1. PICK t \in {clock, clock + 1} :
          Now(t) /\ Continue(w, [job[w] EXCEPT !.pc = "finalFetch", !.finalAt = t])
    BY <1>9 DEF StartFinalization
  <2>2. [job[w] EXCEPT !.pc = "finalFetch", !.finalAt = t] \in Jobs
    BY <1>0, <2>1, NowType DEF Jobs, Labels
  <2>3. job' \in [Workers -> Jobs] /\ clock' \in Nat
    BY <2>1, <2>2, ContinueType, NowType
  <2>4. openFix' \subseteq Workers
    BY <1>9 DEF StartFinalization, TypeOK
  <2> QED
    BY <1>9, <2>3, <2>4 DEF StartFinalization, TypeOK
<1>10. CASE ScheduleFinalization(w) \/ ReadForFinalization(w)
  <2> DEFINE scheduled == [job[w] EXCEPT !.pc = "finalRead", !.newly = FALSE,
                             !.correction = WasCorrection(w) \/ DurableCorrection(w)]
             read == [job[w] EXCEPT !.pc = "finalOpen",
                        !.correction = @ \/ OpenCorrection \/ row.quality = "CORRECTED"]
  <2>1. (WasCorrection(w) \/ DurableCorrection(w)) \in BOOLEAN
    OBVIOUS
  <2>2. scheduled \in Jobs /\ read \in Jobs
    BY <1>0, <2>1 DEF Jobs, Labels
  <2>3. Continue(w, scheduled) \/ Continue(w, read) \/ Stop(w)
    BY <1>10 DEF ScheduleFinalization, ReadForFinalization
  <2> HIDE DEF scheduled, read
  <2>4. job' \in [Workers -> Jobs]
    BY <2>2, <2>3, ContinueType, MoveType
  <2> QED
    BY <1>10, <2>4 DEF ScheduleFinalization, ReadForFinalization, TypeOK
<1>11. CASE CommitFinal(w)
  <2>1. job[w].fix.score \in Scores /\ job[w].finalAt \in Nat
    BY <1>0, <1>11 DEF CommitFinal, At, Attempting, AtFinal, PollFits, Observation, Jobs
  <2>2. row' \in Rows /\ unread' = Workers
    <3>1. PICK r \in Rows : row' = Stored(r) /\ unread' = Workers
      BY <1>0, <1>11, <2>1 DEF CommitFinal, WriteRow, Rows, Lifecycle, ResultQuality,
                               OfficialQuality
    <3> QED
      BY <3>1, StoredRow
  <2>3. ladder' \in Scores \cup {NoScore}
    BY <1>11, <2>2, LadderOfType DEF CommitFinal, Rebuild
  <2>4. job' \in [Workers -> Jobs]
    BY <1>11, MoveType DEF CommitFinal, Labels
  <2> QED
    BY <1>11, <2>2, <2>3, <2>4 DEF CommitFinal, TypeOK
<1>12. CASE FinalSuperseded(w)
  BY <1>12, MoveType DEF FinalSuperseded, TypeOK
<1>13. CASE CloseLog(w)
  BY <1>13, MoveType DEF CloseLog, TypeOK, Labels
<1>14. CASE ClearCorrections(w)
  BY <1>14, MoveType DEF ClearCorrections, TypeOK
<1> QED
  BY <1>1, <1>2, <1>3, <1>4, <1>5, <1>6, <1>7, <1>8, <1>9, <1>10, <1>11, <1>12,
     <1>13, <1>14 DEF Progress

-----------------------------------------------------------------------------
(* The row                                                                 *)

\* What one step may do to the row, as far as the other workers can tell: time
\* and the ordering tokens advance, an official result stays official, and one
\* that becomes official is as recent as the accepted fixture.
RowAdvances ==
    /\ row.retrievedAt <= row'.retrievedAt
    /\ row.updatedAt <= row'.updatedAt
    /\ row.status # "ABSENT" => row'.status # "ABSENT"
    /\ Official => Official'
    /\ Official' /\ ~Official => row'.retrievedAt <= row'.updatedAt

\* The step is one of the lifecycle, or leaves the result as it is.
CanonicalStep ==
    \/ Canonical!Next
    \/ UNCHANGED <<row.status, row.quality, row.score, row.updatedAt>>

RowStep == RowFits' /\ LadderMatchesResult' /\ RowAdvances /\ CanonicalStep

\* A step that leaves the row and the ladder alone moves the row as it may.
LEMMA RowUnchanged ==
  ASSUME IInv, UNCHANGED <<row, ladder>>
  PROVE  RowStep
<1> USE DEF IInv
<1>1. row.retrievedAt \in Nat /\ row.updatedAt \in Nat
  BY DEF TypeOK, Rows
<1>2. RowFits' /\ LadderMatchesResult'
  BY DEF RowFits, LadderMatchesResult, Official
<1>3. RowAdvances
  BY <1>1 DEF RowAdvances, Official
<1> QED
  BY <1>2, <1>3 DEF RowStep, CanonicalStep

\* The fixture phase creates the row or only moves its fixture token.
LEMMA SyncRow ==
  ASSUME IInv, NEW w \in Workers, SyncWrite(w), job[w].fix \in Observation,
         UNCHANGED ladder
  PROVE  RowStep
<1> USE DEF IInv
<1>1. /\ job[w].fix.status \in Lifecycle
      /\ job[w].fix.score \in Scores
      /\ job[w].fixAt \in Nat
      /\ row \in Rows
  BY DEF Observation, TypeOK, Jobs
<1>2. CASE row.status = "ABSENT" /\ row' # row
  <2> DEFINE r == [row EXCEPT !.status = job[w].fix.status,
                             !.quality = InitialQuality(job[w].fix.status),
                             !.score = job[w].fix.score,
                             !.retrievedAt = job[w].fixAt]
  <2>1. row' = Stored(r)
    BY <1>2 DEF SyncWrite, WriteRow
  <2>2. /\ row'.status = job[w].fix.status
        /\ row'.status = "SCHEDULED" => row'.quality = "UNKNOWN"
        /\ row'.status = "LIVE" => row'.quality = "PROVISIONAL"
        /\ row'.status = "COMPLETED" => row'.quality = "UNOFFICIAL_FINAL"
        /\ row'.score = job[w].fix.score
        /\ row'.retrievedAt = job[w].fixAt
        /\ row'.updatedAt = row.updatedAt
    <3>1. InitialQuality(job[w].fix.status) \in ResultQuality
      BY DEF InitialQuality, ResultQuality, PromotableQuality
    <3>2. r \in Rows
      BY <1>1, <3>1 DEF Rows
    <3>3. /\ r.status = job[w].fix.status /\ r.score = job[w].fix.score
          /\ r.quality = InitialQuality(job[w].fix.status)
          /\ r.retrievedAt = job[w].fixAt /\ r.updatedAt = row.updatedAt
      BY <1>1 DEF Rows
    <3> HIDE DEF r
    <3> QED
      BY <1>1, <2>1, <3>2, <3>3, StoredRow DEF InitialQuality, Lifecycle
  <2>3. /\ row.quality = "UNKNOWN" /\ row.score = NoScore
        /\ row.updatedAt = 0 /\ row.retrievedAt = 0
    BY <1>2 DEF RowFits
  <2>4. RowFits'
    BY <1>1, <2>2 DEF RowFits, Lifecycle
  <2>5. LadderMatchesResult'
    <3>1. ladder = NoScore
      BY <1>2 DEF LadderMatchesResult, LadderOf
    <3>2. ~Official'
      BY <1>1, <2>2 DEF Official, OfficialQuality, Lifecycle
    <3> QED
      BY <3>1, <3>2 DEF LadderMatchesResult
  <2>6. RowAdvances
    BY <1>1, <1>2, <2>2, <2>3 DEF RowAdvances, Official, OfficialQuality, Lifecycle
  <2>7. Canonical!Appear
    BY <1>1, <1>2, <2>2 DEF Canonical!Appear, Lifecycle
  <2> QED
    BY <2>4, <2>5, <2>6, <2>7 DEF RowStep, CanonicalStep, Canonical!Next
<1>3. CASE row.status # "ABSENT" /\ row.retrievedAt < job[w].fixAt
  <2> DEFINE r == [row EXCEPT !.retrievedAt = job[w].fixAt]
  <2>1. row' = Stored(r)
    BY <1>1, <1>3 DEF SyncWrite, WriteRow, Rows
  <2>2. /\ row'.status = row.status
        /\ row'.quality = row.quality
        /\ row'.score = row.score
        /\ row'.retrievedAt = job[w].fixAt
        /\ row'.updatedAt = row.updatedAt
    <3>1. r \in Rows /\ r.status = row.status /\ r.quality = row.quality
          /\ r.score = row.score /\ r.retrievedAt = job[w].fixAt
          /\ r.updatedAt = row.updatedAt
      BY <1>1 DEF Rows
    <3> QED
      BY <2>1, <3>1, StoredRow DEF RowFits, OfficialQuality
  <2>3. RowFits' /\ LadderMatchesResult'
    BY <1>3, <2>2 DEF RowFits, LadderMatchesResult, LadderOf, Official
  <2>4. RowAdvances
    BY <1>1, <1>3, <2>2 DEF RowAdvances, Official, Rows
  <2> QED
    BY <2>2, <2>3, <2>4 DEF RowStep, CanonicalStep
<1>4. CASE row' = row
  BY <1>4, RowUnchanged
<1> QED
  BY <1>2, <1>3, <1>4 DEF SyncWrite, WriteRow

\* A live observation replaces a result that is not official, under a newer token.
LEMMA LiveRow ==
  ASSUME IInv, NEW w \in Workers, ApplyLive(w)
  PROVE  RowStep
<1> USE DEF IInv
<1>1. /\ job[w].fix.status = "LIVE"
      /\ job[w].detail \in Scores
      /\ job[w].detailAt \in Nat
      /\ row \in Rows
      /\ row.status # "ABSENT"
  <2>1. job[w].detail \in Scores /\ row.status # "ABSENT"
    BY DEF ApplyLive, At, PollFits
  <2>2. job[w].fix.status = "LIVE"
    BY <2>1, ConstantsAssumption DEF ApplyLive, At, PollFits
  <2> QED
    BY <2>1, <2>2 DEF TypeOK, Jobs
<1> DEFINE r == [row EXCEPT !.status = job[w].fix.status,
                           !.quality = IF row.status = job[w].fix.status THEN @
                                       ELSE InitialQuality(job[w].fix.status),
                           !.score = job[w].detail,
                           !.updatedAt = job[w].detailAt,
                           !.detailed = TRUE]
<1>2. /\ row' = Stored(r)
      /\ ladder' = IF row.status = "COMPLETED" THEN LadderOf(row') ELSE ladder
      /\ ~LiveSuperseded(w)
  BY DEF ApplyLive, WriteRow, Rebuild
<1>3. /\ row'.status = "LIVE"
      /\ row'.quality = "PROVISIONAL"
      /\ row'.score = job[w].detail
      /\ row'.retrievedAt = row.retrievedAt
      /\ row'.updatedAt = job[w].detailAt
  <2>1. /\ r.status = "LIVE" /\ r.quality = "PROVISIONAL"
        /\ r.score = job[w].detail /\ r.retrievedAt = row.retrievedAt
        /\ r.updatedAt = job[w].detailAt
    BY <1>1 DEF Rows, InitialQuality, RowFits
  <2>2. r \in Rows
    BY <1>1, <2>1 DEF Rows, Lifecycle, ResultQuality, PromotableQuality
  <2> QED
    BY <1>2, <2>1, <2>2, StoredRow
<1>4. row.updatedAt < job[w].detailAt
  BY <1>1, <1>2 DEF LiveSuperseded, Rows
<1>5. ~Official
  <2>1. CASE row.status = "COMPLETED"
    BY <1>1, <1>2, <2>1 DEF LiveSuperseded
  <2>2. CASE row.status \in {"SCHEDULED", "LIVE"}
    BY <2>2 DEF RowFits, Official, OfficialQuality
  <2> QED
    BY <1>1, <2>1, <2>2 DEF Rows, Lifecycle
<1>6. RowFits'
  BY <1>1, <1>3 DEF RowFits
<1>7. LadderMatchesResult'
  BY <1>1, <1>2, <1>3 DEF LadderMatchesResult, LadderOf, Official, OfficialQuality
<1>8. RowAdvances
  BY <1>1, <1>3, <1>4, <1>5 DEF RowAdvances, Official, OfficialQuality, Rows
<1>9. Canonical!Observe
  BY <1>1, <1>3, <1>4, <1>5 DEF Canonical!Observe, Canonical!Official,
       Canonical!OfficialQuality, Official, OfficialQuality, Rows
<1> QED
  BY <1>6, <1>7, <1>8, <1>9 DEF RowStep, CanonicalStep, Canonical!Next

\* The fixture's completion settles a result that is not official.
LEMMA ReconcileRow ==
  ASSUME IInv, NEW w \in Workers, Reconcile(w)
  PROVE  RowStep
<1> USE DEF IInv
<1>1. row \in Rows /\ ladder' = ladder
  BY DEF TypeOK, Reconcile
<1>2. CASE row' = row
  BY <1>1, <1>2, RowUnchanged
<1>3. CASE row' # row
  <2> DEFINE r == [row EXCEPT !.status = "COMPLETED", !.quality = "PROVISIONAL"]
  <2>1. /\ row' = Stored(r)
        /\ row.status \in {"LIVE", "SCHEDULED"}
    BY <1>3 DEF Reconcile, WriteRow
  <2>2. /\ row'.status = "COMPLETED"
        /\ row'.quality = "UNOFFICIAL_FINAL"
        /\ row'.score = row.score
        /\ row'.retrievedAt = row.retrievedAt
        /\ row'.updatedAt = row.updatedAt
    <3>1. /\ r \in Rows /\ r.status = "COMPLETED" /\ r.quality = "PROVISIONAL"
          /\ r.score = row.score /\ r.retrievedAt = row.retrievedAt
          /\ r.updatedAt = row.updatedAt
      BY <1>1 DEF Rows, Lifecycle, ResultQuality, PromotableQuality
    <3> QED
      BY <2>1, <3>1, StoredRow
  <2>3. ~Official
    BY <2>1 DEF RowFits, Official, OfficialQuality
  <2>4. RowFits'
    BY <2>1, <2>2 DEF RowFits
  <2>5. LadderMatchesResult'
    BY <1>1, <2>1, <2>2 DEF LadderMatchesResult, LadderOf, Official, OfficialQuality
  <2>6. RowAdvances
    BY <1>1, <2>2, <2>3 DEF RowAdvances, Official, OfficialQuality, Rows
  <2>7. Canonical!Settle
    BY <2>1, <2>2 DEF Canonical!Settle
  <2> QED
    BY <2>4, <2>5, <2>6, <2>7 DEF RowStep, CanonicalStep, Canonical!Next
<1> QED
  BY <1>2, <1>3

\* The stale-clock rule settles a LIVE result and rebuilds the standings.
LEMMA StaleRow ==
  ASSUME IInv, NEW w \in Workers, CompleteStale(w)
  PROVE  RowStep
<1> USE DEF IInv
<1>1. row \in Rows
  BY DEF TypeOK
<1>2. CASE row.status = "LIVE" /\ w \notin unread
  <2> DEFINE r == [row EXCEPT !.status = "COMPLETED", !.quality = "UNOFFICIAL_FINAL"]
  <2>1. /\ row' = Stored(r)
        /\ ladder' = LadderOf(row')
    BY <1>2 DEF CompleteStale, WriteRow, Rebuild
  <2>2. /\ row'.status = "COMPLETED"
        /\ row'.quality = "UNOFFICIAL_FINAL"
        /\ row'.score = row.score
        /\ row'.retrievedAt = row.retrievedAt
        /\ row'.updatedAt = row.updatedAt
    <3>1. /\ r \in Rows /\ r.status = "COMPLETED" /\ r.quality = "UNOFFICIAL_FINAL"
          /\ r.score = row.score /\ r.retrievedAt = row.retrievedAt
          /\ r.updatedAt = row.updatedAt
      BY <1>1 DEF Rows, Lifecycle, ResultQuality, PromotableQuality
    <3> QED
      BY <2>1, <3>1, StoredRow
  <2>3. ~Official
    BY <1>2 DEF RowFits, Official, OfficialQuality
  <2>4. RowFits'
    BY <1>2, <2>2 DEF RowFits
  <2>5. LadderMatchesResult'
    BY <2>1 DEF LadderMatchesResult
  <2>6. RowAdvances
    BY <1>1, <2>2, <2>3 DEF RowAdvances, Official, OfficialQuality, Rows
  <2>7. Canonical!Settle
    BY <1>2, <2>2 DEF Canonical!Settle
  <2> QED
    BY <2>4, <2>5, <2>6, <2>7 DEF RowStep, CanonicalStep, Canonical!Next
<1>3. CASE ~(row.status = "LIVE" /\ w \notin unread)
  BY <1>3, RowUnchanged DEF CompleteStale
<1> QED
  BY <1>2, <1>3

\* A final commit finalizes once, or corrects what is official, under a newer token.
LEMMA FinalRow ==
  ASSUME IInv, NEW w \in Workers, CommitFinal(w)
  PROVE  RowStep
<1> USE DEF IInv
<1>1. /\ job[w].fix.score \in Scores
      /\ job[w].fixAt \in Nat
      /\ job[w].finalAt \in Nat
      /\ row \in Rows
      /\ row.status # "ABSENT"
  BY DEF CommitFinal, At, Attempting, AtFinal, PollFits, Observation, TypeOK, Jobs
<1> DEFINE r == [row EXCEPT !.status = "COMPLETED",
                           !.quality = IF job[w].correction THEN "CORRECTED"
                                       ELSE "OFFICIAL_FINAL",
                           !.score = job[w].fix.score,
                           !.updatedAt = job[w].finalAt,
                           !.detailed = TRUE]
<1>2. /\ row' = Stored(r)
      /\ ladder' = LadderOf(row')
      /\ MayFinalize(w)
  BY DEF CommitFinal, WriteRow, Rebuild
<1>3. /\ row'.status = "COMPLETED"
      /\ row'.quality = IF job[w].correction THEN "CORRECTED" ELSE "OFFICIAL_FINAL"
      /\ row'.score = job[w].fix.score
      /\ row'.retrievedAt = row.retrievedAt
      /\ row'.updatedAt = job[w].finalAt
  <2>1. /\ r \in Rows /\ r.status = "COMPLETED"
        /\ r.quality = IF job[w].correction THEN "CORRECTED" ELSE "OFFICIAL_FINAL"
        /\ r.score = job[w].fix.score /\ r.retrievedAt = row.retrievedAt
        /\ r.updatedAt = job[w].finalAt
    BY <1>1 DEF Rows, Lifecycle, ResultQuality, OfficialQuality
  <2> HIDE DEF r
  <2> QED
    BY <1>2, <2>1, StoredRow
<1>4. /\ row.retrievedAt = job[w].fixAt
      /\ row.updatedAt < job[w].fixAt
  BY <1>2 DEF MayFinalize, FixtureAccepted, DetailOutdated
<1>5. /\ job[w].fixAt <= job[w].finalAt
      /\ job[w].correction <=> Official
  BY <1>2 DEF CommitFinal, At, Attempting, AtFinal, AttemptFits, MayFinalize
<1>6. RowFits'
  BY <1>1, <1>3 DEF RowFits, OfficialQuality
<1>7. LadderMatchesResult'
  BY <1>2 DEF LadderMatchesResult
<1>8. row.updatedAt < row'.updatedAt
  BY <1>1, <1>3, <1>4, <1>5 DEF Rows
<1>9. RowAdvances
  BY <1>1, <1>3, <1>4, <1>5, <1>8 DEF RowAdvances, Official, OfficialQuality, Rows
<1>10. CASE job[w].correction
  <2>1. row.status = "COMPLETED"
    BY <1>1, <1>5, <1>10 DEF RowFits, Official, OfficialQuality, Rows, Lifecycle
  <2>2. Canonical!Correct
    BY <1>1, <1>3, <1>5, <1>8, <1>10, <2>1 DEF Canonical!Correct, Canonical!Official,
       Canonical!OfficialQuality, Official, OfficialQuality
  <2> QED
    BY <1>6, <1>7, <1>9, <2>2 DEF RowStep, CanonicalStep, Canonical!Next
<1>11. CASE ~job[w].correction
  <2>1. Canonical!Finalize
    BY <1>1, <1>3, <1>5, <1>8, <1>11 DEF Canonical!Finalize, Canonical!Official,
       Canonical!OfficialQuality, Official, OfficialQuality
  <2> QED
    BY <1>6, <1>7, <1>9, <2>1 DEF RowStep, CanonicalStep, Canonical!Next
<1> QED
  BY <1>10, <1>11

\* The steps of one worker.
StepOf(w) ==
    \/ \E obs \in Observation : Answer(w, obs)
    \/ Progress(w)
    \/ Failure(w)

\* Whatever a worker does, the row moves as it may.
LEMMA StepRow ==
  ASSUME IInv, NEW w \in Workers, StepOf(w)
  PROVE  RowStep
<1>1. PollFits(w)
  BY DEF IInv
<1>2. CASE UNCHANGED <<row, ladder>>
  BY <1>2, RowUnchanged
<1>3. ASSUME NEW obs \in Observation, Answer(w, obs)
      PROVE  UNCHANGED <<row, ladder>>
  BY <1>3 DEF Answer, FixtureAnswered, DetailAnswered, FinalAnswered, FinalMismatched,
              LeaveUnresolved
<1>4. CASE SyncFixture(w)
  BY <1>1, <1>4, SyncRow DEF SyncFixture, At, PollFits
<1>5. CASE SyncFailed(w)
  <2>1. job[w].fix \in Observation /\ UNCHANGED ladder
    BY <1>1, <1>5 DEF SyncFailed, At, PollFits
  <2>2. CASE SyncWrite(w)
    BY <2>1, <2>2, SyncRow
  <2>3. CASE UNCHANGED <<row, unread>>
    BY <2>1, <2>3, <1>2
  <2> QED
    BY <1>5, <2>2, <2>3 DEF SyncFailed
<1>6. Failure(w) => SyncFailed(w) \/ UNCHANGED <<row, ladder>>
  BY DEF Failure, FixtureFailed, DetailFailed, FinalFailed, LeaveUnresolved, PollFailed,
         Crash
<1>7. Progress(w) => \/ SyncFixture(w) \/ ApplyLive(w) \/ Reconcile(w) \/ CompleteStale(w)
                     \/ CommitFinal(w) \/ UNCHANGED <<row, ladder>>
  BY DEF Progress, StartPoll, FilterSuperseded, SkipLive, DetectStale, StartFinalization,
         ScheduleFinalization, ReadForFinalization, FinalSuperseded, CloseLog, ClearCorrections
<1> QED
  BY <1>2, <1>3, <1>4, <1>5, <1>6, <1>7, LiveRow, ReconcileRow, StaleRow, FinalRow
     DEF StepOf

\* Time does not go back, and a step of one worker leaves the poll of every
\* other as it is.
LEMMA StepFrame ==
  ASSUME IInv, NEW w \in Workers, StepOf(w)
  PROVE  /\ clock <= clock'
         /\ \A v \in Workers : v # w => job'[v] = job[v]
<1> USE DEF IInv
<1>1. clock \in Nat /\ job \in [Workers -> Jobs]
  BY DEF TypeOK
<1>2. ASSUME NEW next, Continue(w, next)
      PROVE  \A v \in Workers : v # w => job'[v] = job[v]
  BY <1>1, <1>2 DEF Continue
<1>3. ASSUME NEW t \in {clock, clock + 1}, Now(t)
      PROVE  clock <= clock'
  BY <1>1, <1>3 DEF Now
<1>4. ASSUME NEW obs \in Observation, Answer(w, obs)
      PROVE  /\ clock <= clock'
             /\ \A v \in Workers : v # w => job'[v] = job[v]
  <2>1. CASE FixtureAnswered(w, obs)
    BY <1>1, <1>2, <1>3, <2>1 DEF FixtureAnswered
  <2>2. CASE DetailAnswered(w, obs.score)
    BY <1>1, <1>2, <2>2 DEF DetailAnswered
  <2>3. CASE FinalAnswered(w, obs)
    BY <1>1, <1>2, <2>3 DEF FinalAnswered, Goto
  <2>4. CASE FinalMismatched(w, obs)
    BY <1>1, <1>2, <2>4 DEF FinalMismatched, LeaveUnresolved, Stop
  <2> QED
    BY <1>4, <2>1, <2>2, <2>3, <2>4 DEF Answer
<1>5. CASE Failure(w)
  <2>1. clock' = clock
    BY <1>5 DEF Failure, FixtureFailed, DetailFailed, SyncFailed, FinalFailed,
                LeaveUnresolved, PollFailed, Crash
  <2>2. \E next : Continue(w, next)
    BY <1>5 DEF Failure, FixtureFailed, DetailFailed, SyncFailed, FinalFailed,
                LeaveUnresolved, PollFailed, Crash, WithoutSource, Pass, Stop
  <2> QED
    BY <1>1, <1>2, <2>1, <2>2
<1>6. CASE Progress(w)
  <2>1. CASE StartPoll(w)
    BY <1>1, <1>2, <1>3, <2>1 DEF StartPoll
  <2>2. CASE StartFinalization(w)
    BY <1>1, <1>2, <1>3, <2>2 DEF StartFinalization
  <2>3. CASE ~StartPoll(w) /\ ~StartFinalization(w)
    <3>1. clock' = clock
      BY <1>6, <2>3 DEF Progress, FilterSuperseded, SyncFixture, ApplyLive, SkipLive,
            Reconcile, DetectStale, CompleteStale, ScheduleFinalization, ReadForFinalization, CommitFinal,
            FinalSuperseded, CloseLog, ClearCorrections
    <3>2. \E next : Continue(w, next)
      BY <1>6, <2>3 DEF Progress, FilterSuperseded, SyncFixture, ApplyLive, SkipLive,
            Reconcile, DetectStale, CompleteStale, ScheduleFinalization, ReadForFinalization, CommitFinal,
            FinalSuperseded, CloseLog, ClearCorrections, WithoutSource, Pass, Stop, Goto
    <3> QED
      BY <1>1, <1>2, <3>1, <3>2
  <2> QED
    BY <2>1, <2>2, <2>3
<1> QED
  BY <1>4, <1>5, <1>6 DEF StepOf

-----------------------------------------------------------------------------
(* The polls                                                               *)

\* What the other workers do to the row keeps what a poll relies on.
LEMMA OthersFit ==
  ASSUME IInv, TypeOK', RowAdvances, clock <= clock', NEW v \in Workers, job'[v] = job[v]
  PROVE  PollFits(v)' /\ AttemptFits(v)'
<1> USE DEF IInv
<1>1. /\ job[v] \in Jobs /\ row \in Rows /\ row' \in Rows
      /\ clock \in Nat /\ clock' \in Nat
  BY DEF TypeOK
<1>2. /\ job[v].fixAt \in Nat
      /\ row.retrievedAt \in Nat /\ row'.retrievedAt \in Nat
      /\ row.updatedAt \in Nat /\ row'.updatedAt \in Nat
  BY <1>1 DEF Jobs, Rows
<1>3. PollFits(v)'
  BY <1>1, <1>2 DEF PollFits, Synced, Attempting, AtFinal, At, RowAdvances
<1>4. Synced(v) /\ FixtureAccepted(v)' /\ DetailOutdated(v)'
        => FixtureAccepted(v) /\ DetailOutdated(v) /\ (Official' <=> Official)
  <2> SUFFICES ASSUME Synced(v), FixtureAccepted(v)', DetailOutdated(v)'
               PROVE  FixtureAccepted(v) /\ DetailOutdated(v) /\ (Official' <=> Official)
    OBVIOUS
  <2>1. job[v].fixAt <= row.retrievedAt
    BY DEF PollFits
  <2> QED
    BY <1>2, <2>1 DEF FixtureAccepted, DetailOutdated, RowAdvances
<1>5. job[v].newly => Synced(v)
  BY DEF AttemptFits, Synced
<1>6. At(v, "finalRead") \/ Attempting(v) => Synced(v)
  BY DEF Synced, At
<1>7. Official => Official'
  BY DEF RowAdvances
<1>8. AttemptFits(v)'
  BY <1>4, <1>5, <1>6, <1>7 DEF AttemptFits, Attempting, AtFinal, At
<1> QED
  BY <1>3, <1>8

\* A worker with nothing left to do for the match relies on nothing.
LEMMA RestFits ==
  ASSUME TypeOK, TypeOK', NEW w \in Workers, Pass(w) \/ Stop(w)
  PROVE  PollFits(w)' /\ AttemptFits(w)'
<1>1. job'[w] = Idle \/ job'[w] = [Idle EXCEPT !.pc = "detect"]
  BY DEF Pass, Stop, Continue, TypeOK
<1>2. /\ job'[w].pc \in {"idle", "detect"}
      /\ job'[w].fixAt = 0 /\ job'[w].detail = NoScore /\ job'[w].newly = FALSE
  BY <1>1 DEF Idle
<1>3. clock' \in Nat /\ row'.retrievedAt \in Nat
  BY DEF TypeOK, Rows
<1> QED
  BY <1>2, <1>3 DEF PollFits, AttemptFits, Synced, Attempting, AtFinal, At

\* What the worker continues with is its job from then on.
LEMMA ContinueAt ==
  ASSUME TypeOK, NEW w \in Workers
  PROVE  /\ \A next : Continue(w, next) => job'[w] = next
         /\ \A label : Goto(w, label) => job'[w] = [job[w] EXCEPT !.pc = label]
  BY DEF TypeOK, Continue, Goto

\* Requesting, answering and filtering keep what the worker's own poll relies on.
LEMMA IngestionFits ==
  ASSUME IInv, TypeOK', RowAdvances, clock <= clock', NEW w \in Workers,
         \/ StartPoll(w)
         \/ \E obs \in Observation : FixtureAnswered(w, obs) \/ DetailAnswered(w, obs.score)
         \/ DetailFailed(w) \/ FilterSuperseded(w)
  PROVE  PollFits(w)' /\ AttemptFits(w)'
<1> USE DEF IInv
<1>1. job[w] \in Jobs /\ clock \in Nat /\ clock' \in Nat
  BY DEF TypeOK
<1>2. job[w].fixAt \in Nat /\ job[w].fixAt <= clock /\ job[w].fixAt <= clock'
  BY <1>1 DEF Jobs, PollFits
<1>3. CASE StartPoll(w)
  <2>1. PICK t \in {clock, clock + 1} :
          Now(t) /\ Continue(w, [Idle EXCEPT !.pc = "fixture", !.fixAt = t])
    BY <1>3 DEF StartPoll
  <2>2. /\ job'[w].pc = "fixture" /\ job'[w].fixAt = clock'
        /\ job'[w].detail = NoScore /\ job'[w].newly = FALSE
    BY <2>1, ContinueAt DEF Idle, Now
  <2> QED
    BY <1>1, <2>2 DEF PollFits, AttemptFits, Synced, Attempting, AtFinal, At
<1>4. ASSUME NEW obs \in Observation, FixtureAnswered(w, obs)
      PROVE  PollFits(w)' /\ AttemptFits(w)'
  <2>1. job[w].detail = NoScore /\ ~job[w].newly
    BY <1>4 DEF FixtureAnswered, At, PollFits, AttemptFits
  <2>2. /\ \/ job'[w].pc = "detail" /\ WantsDetail(obs)
           \/ job'[w].pc = "filter"
        /\ job'[w].fix = obs
        /\ job'[w].fixAt = job[w].fixAt
        /\ job'[w].detail = NoScore
        /\ ~job'[w].newly
    <3>1. CASE WantsDetail(obs)
      <4>1. PICK t : job'[w] = [job[w] EXCEPT !.pc = "detail", !.fix = obs, !.detailAt = t]
        BY <1>4, <3>1, ContinueAt DEF FixtureAnswered
      <4> QED
        BY <1>1, <2>1, <3>1, <4>1 DEF Jobs
    <3>2. CASE ~WantsDetail(obs)
      <4>1. job'[w] = [job[w] EXCEPT !.pc = "filter", !.fix = obs]
        BY <1>4, <3>2, ContinueAt DEF FixtureAnswered
      <4> QED
        BY <1>1, <2>1, <4>1 DEF Jobs
    <3> QED
      BY <3>1, <3>2
  <2>3. WantsDetail(obs) => obs.status \in {"LIVE", "COMPLETED"}
    BY DEF WantsDetail
  <2> QED
    BY <1>2, <2>2, <2>3 DEF PollFits, AttemptFits, Synced, Attempting, AtFinal, At
<1>5. ASSUME At(w, "detail"),
             /\ job'[w].pc = "filter" /\ job'[w].fix = job[w].fix
             /\ job'[w].fixAt = job[w].fixAt /\ job'[w].newly = job[w].newly
      PROVE  PollFits(w)' /\ AttemptFits(w)'
  <2>1. /\ job[w].fix \in Observation /\ job[w].fix.status \in {"LIVE", "COMPLETED"}
        /\ ~job[w].newly
    BY <1>5 DEF PollFits, AttemptFits, At
  <2> QED
    BY <1>2, <1>5, <2>1 DEF PollFits, AttemptFits, Synced, Attempting, AtFinal, At
<1>6. ASSUME NEW d, DetailAnswered(w, d)
      PROVE  PollFits(w)' /\ AttemptFits(w)'
  <2> DEFINE next == [job[w] EXCEPT !.pc = "filter", !.detail = d]
  <2>1. Continue(w, next)
    BY <1>6 DEF DetailAnswered
  <2>2. job'[w] = next
    BY <2>1, ContinueAt
  <2>3. /\ job'[w].pc = "filter" /\ job'[w].fix = job[w].fix
        /\ job'[w].fixAt = job[w].fixAt /\ job'[w].newly = job[w].newly
    BY <1>1, <2>2 DEF Jobs
  <2> QED
    BY <1>5, <1>6, <2>3 DEF DetailAnswered
<1>7. CASE DetailFailed(w)
  <2>1. PICK k \in BOOLEAN :
          Continue(w, [job[w] EXCEPT !.pc = "filter", !.detailAt = 0, !.skip = k])
    BY <1>7 DEF DetailFailed
  <2> DEFINE next == [job[w] EXCEPT !.pc = "filter", !.detailAt = 0, !.skip = k]
  <2>2. job'[w] = next
    BY <2>1, ContinueAt
  <2>3. /\ job'[w].pc = "filter" /\ job'[w].fix = job[w].fix
        /\ job'[w].fixAt = job[w].fixAt /\ job'[w].newly = job[w].newly
    BY <1>1, <2>2 DEF Jobs
  <2> QED
    BY <1>5, <1>7, <2>3 DEF DetailFailed
<1>8. CASE FilterSuperseded(w)
  <2>1. CASE Pass(w) \/ Stop(w)
    BY <2>1, RestFits
  <2>2. CASE Goto(w, "sync")
    <3> DEFINE next == [job[w] EXCEPT !.pc = "sync"]
    <3>0. job'[w] = next
      BY <2>2, ContinueAt
    <3>1. /\ job'[w].pc = "sync" /\ job'[w].fix = job[w].fix
          /\ job'[w].fixAt = job[w].fixAt /\ job'[w].newly = job[w].newly
          /\ job'[w].detail = job[w].detail
      BY <1>1, <3>0 DEF Jobs
    <3>2. /\ job[w].fix \in Observation /\ ~job[w].newly
          /\ job[w].detail # NoScore => job[w].fix.status \in {"LIVE", "COMPLETED"}
      BY <1>8 DEF FilterSuperseded, PollFits, AttemptFits, At
    <3> QED
      BY <1>2, <3>1, <3>2 DEF PollFits, AttemptFits, Synced, Attempting, AtFinal, At
  <2> QED
    BY <1>8, <2>1, <2>2 DEF FilterSuperseded, WithoutSource
<1> QED
  BY <1>3, <1>4, <1>6, <1>7, <1>8

\* The phases that write the fixture and the live detail keep it too.
LEMMA ProcessingFits ==
  ASSUME IInv, TypeOK', RowAdvances, clock <= clock', NEW w \in Workers,
         \/ SyncFixture(w) \/ ApplyLive(w) \/ SkipLive(w)
         \/ Reconcile(w) \/ DetectStale(w) \/ CompleteStale(w)
  PROVE  PollFits(w)' /\ AttemptFits(w)'
<1> USE DEF IInv
<1>1. /\ job[w] \in Jobs /\ clock \in Nat /\ clock' \in Nat
      /\ row \in Rows /\ row' \in Rows
  BY DEF TypeOK
<1>2. /\ job[w].fixAt \in Nat /\ job[w].fixAt <= clock'
      /\ row.retrievedAt \in Nat /\ row'.retrievedAt \in Nat
      /\ row.retrievedAt <= row'.retrievedAt
      /\ row.status # "ABSENT" => row'.status # "ABSENT"
  BY <1>1 DEF Jobs, Rows, PollFits, RowAdvances
<1>3. CASE Pass(w) \/ Stop(w)
  BY <1>3, RestFits
<1>4. CASE SyncFixture(w) /\ ~Pass(w)
  <2>1. /\ job[w].fix \in Observation /\ job[w].fix.status \in Lifecycle /\ ~job[w].newly
        /\ job[w].detail # NoScore => job[w].fix.status \in {"LIVE", "COMPLETED"}
    BY <1>4 DEF SyncFixture, PollFits, AttemptFits, At, Observation
  <2>2. row'.status # "ABSENT" /\ job[w].fixAt <= row'.retrievedAt
    <3>1. CASE row.status = "ABSENT"
      <4>1. row' = Stored([row EXCEPT !.status = job[w].fix.status,
                                      !.quality = InitialQuality(job[w].fix.status),
                                      !.score = job[w].fix.score,
                                      !.retrievedAt = job[w].fixAt])
        BY <1>4, <3>1 DEF SyncFixture, SyncWrite, WriteRow
      <4>2. row'.status = job[w].fix.status /\ row'.retrievedAt = job[w].fixAt
        BY <1>1, <4>1 DEF Stored, Rows
      <4> QED
        BY <1>2, <2>1, <4>2 DEF Lifecycle
    <3>2. CASE row.status # "ABSENT" /\ row.retrievedAt < job[w].fixAt
      <4>1. row' = Stored([row EXCEPT !.retrievedAt = job[w].fixAt])
        BY <1>2, <1>4, <3>2 DEF SyncFixture, SyncWrite, WriteRow
      <4>2. row'.retrievedAt = job[w].fixAt
        BY <1>1, <4>1 DEF Stored, Rows
      <4> QED
        BY <1>2, <3>2, <4>2
    <3>3. CASE row.status # "ABSENT" /\ ~(row.retrievedAt < job[w].fixAt)
      BY <1>2, <3>3
    <3> QED
      BY <3>1, <3>2, <3>3
  <2> DEFINE next == [job[w] EXCEPT !.pc = IF job[w].detail = NoScore THEN "reconcile"
                                           ELSE "live"]
  <2>3. job'[w] = next
    BY <1>4, ContinueAt DEF SyncFixture
  <2>4. /\ job'[w].pc = IF job[w].detail = NoScore THEN "reconcile" ELSE "live"
        /\ job'[w].fix = job[w].fix /\ job'[w].fixAt = job[w].fixAt
        /\ job'[w].newly = job[w].newly /\ job'[w].detail = job[w].detail
    BY <1>1, <2>3 DEF Jobs
  <2>5. job[w].detail \in Scores \cup {NoScore}
    BY <1>1 DEF Jobs
  <2> QED
    BY <1>2, <2>1, <2>2, <2>4, <2>5 DEF PollFits, AttemptFits, Synced, Attempting, AtFinal, At
<1>5. CASE (ApplyLive(w) \/ SkipLive(w)) /\ ~Pass(w)
  <2> DEFINE next == [job[w] EXCEPT !.pc = "reconcile", !.detail = NoScore, !.detailAt = 0]
  <2>1. At(w, "live") /\ job'[w] = next
    BY <1>5, ContinueAt DEF ApplyLive, SkipLive
  <2>2. /\ job'[w].pc = "reconcile" /\ job'[w].detail = NoScore
        /\ job'[w].fix = job[w].fix /\ job'[w].fixAt = job[w].fixAt
        /\ job'[w].newly = job[w].newly
    BY <1>1, <2>1 DEF Jobs
  <2>3. /\ job[w].fix \in Observation /\ ~job[w].newly
        /\ row.status # "ABSENT" /\ job[w].fixAt <= row.retrievedAt
    BY <2>1 DEF PollFits, AttemptFits, Synced, At
  <2> QED
    BY <1>2, <2>2, <2>3 DEF PollFits, AttemptFits, Synced, Attempting, AtFinal, At
<1>6. CASE Reconcile(w)
  <2>1. /\ ~job[w].newly /\ job[w].fixAt <= row.retrievedAt
        /\ job[w].detail # NoScore => job[w].fix.status \in {"LIVE", "COMPLETED"}
    BY <1>6 DEF Reconcile, PollFits, AttemptFits, Synced, At
  <2>2. /\ job'[w].pc = "detect"
        /\ job'[w].fix = job[w].fix /\ job'[w].fixAt = job[w].fixAt
        /\ job'[w].detail = job[w].detail
        /\ job'[w].newly => \/ job[w].newly
                            \/ row' = Stored([row EXCEPT !.status = "COMPLETED",
                                                         !.quality = "PROVISIONAL"])
    <3> DEFINE marked == [job[w] EXCEPT !.pc = "detect", !.newly = TRUE]
               other == [job[w] EXCEPT !.pc = "detect"]
    <3>1. \/ job'[w] = marked /\ row' = Stored([row EXCEPT !.status = "COMPLETED",
                                                           !.quality = "PROVISIONAL"])
          \/ job'[w] = other
      BY <1>6, ContinueAt DEF Reconcile, WriteRow
    <3> QED
      BY <1>1, <3>1 DEF Jobs
  <2>3. job'[w].newly => ~Official'
    BY <1>1, <2>1, <2>2 DEF Stored, Official, OfficialQuality, Rows
  <2> QED
    BY <1>2, <2>1, <2>2, <2>3 DEF PollFits, AttemptFits, Synced, Attempting, AtFinal, At
<1>7. CASE DetectStale(w)
  <2>1. /\ job[w].fixAt <= row.retrievedAt /\ row' = row
        /\ job[w].detail # NoScore => job[w].fix.status \in {"LIVE", "COMPLETED"}
        /\ job[w].newly => (FixtureAccepted(w) /\ DetailOutdated(w) => ~Official)
    BY <1>7 DEF DetectStale, PollFits, AttemptFits, Synced, At
  <2>2. PICK label \in {"detectTx", "plan"} :
          /\ Goto(w, label)
          /\ label = "detectTx" => row.status # "ABSENT"
    BY <1>7 DEF DetectStale
  <2> DEFINE next == [job[w] EXCEPT !.pc = label]
  <2>3. job'[w] = next
    BY <2>2, ContinueAt
  <2>4. /\ job'[w].pc \in {"detectTx", "plan"}
        /\ job'[w].pc = "detectTx" => row.status # "ABSENT"
        /\ job'[w].fix = job[w].fix /\ job'[w].fixAt = job[w].fixAt
        /\ job'[w].detail = job[w].detail /\ job'[w].newly = job[w].newly
    BY <1>1, <2>2, <2>3 DEF Jobs
  <2>5. job'[w].newly => (FixtureAccepted(w)' /\ DetailOutdated(w)' => ~Official')
    BY <2>1, <2>4 DEF Official, FixtureAccepted, DetailOutdated
  <2>6. job'[w].pc \notin {"fixture", "detail", "filter", "sync", "live", "reconcile"}
        /\ ~Attempting(w)'
    BY <2>4 DEF Attempting, AtFinal, At
  <2> QED
    BY <1>2, <2>1, <2>4, <2>5, <2>6 DEF PollFits, AttemptFits, Synced, AtFinal, At
<1>8. CASE CompleteStale(w)
  <2>1. /\ job[w].fixAt <= row.retrievedAt
        /\ job[w].detail # NoScore => job[w].fix.status \in {"LIVE", "COMPLETED"}
        /\ job[w].newly => (FixtureAccepted(w) /\ DetailOutdated(w) => ~Official)
    BY <1>8 DEF CompleteStale, PollFits, AttemptFits, Synced, At
  <2>2. /\ job'[w].pc = "plan"
        /\ job'[w].fix = job[w].fix /\ job'[w].fixAt = job[w].fixAt
        /\ job'[w].detail = job[w].detail
        /\ \/ row' = Stored([row EXCEPT !.status = "COMPLETED", !.quality = "UNOFFICIAL_FINAL"])
           \/ job'[w].newly = job[w].newly /\ row' = row
    <3> DEFINE marked == [job[w] EXCEPT !.pc = "plan", !.newly = TRUE]
               other == [job[w] EXCEPT !.pc = "plan"]
    <3>1. \/ job'[w] = marked /\ row' = Stored([row EXCEPT !.status = "COMPLETED",
                                                           !.quality = "UNOFFICIAL_FINAL"])
          \/ job'[w] = other /\ row' = row
      BY <1>8, ContinueAt DEF CompleteStale, WriteRow
    <3> QED
      BY <1>1, <3>1 DEF Jobs
  <2>3. job'[w].newly => (FixtureAccepted(w)' /\ DetailOutdated(w)' => ~Official')
    <3>1. CASE row' = Stored([row EXCEPT !.status = "COMPLETED",
                                         !.quality = "UNOFFICIAL_FINAL"])
      <4>1. row'.quality = "UNOFFICIAL_FINAL"
        BY <1>1, <3>1 DEF Stored, Rows
      <4> QED
        BY <4>1 DEF Official, OfficialQuality
    <3>2. CASE job'[w].newly = job[w].newly /\ row' = row
      BY <2>1, <2>2, <3>2 DEF Official, FixtureAccepted, DetailOutdated
    <3> QED
      BY <2>2, <3>1, <3>2
  <2> QED
    BY <1>2, <2>1, <2>2, <2>3 DEF PollFits, AttemptFits, Synced, Attempting, AtFinal, At
<1> QED
  BY <1>3, <1>4, <1>5, <1>6, <1>7, <1>8

\* The phases of finalization keep it: an attempt is a correction exactly when
\* the result it will replace is official.
LEMMA FinalizationFits ==
  ASSUME IInv, TypeOK', RowAdvances, clock <= clock', NEW w \in Workers,
         \/ \E obs \in Observation : FinalAnswered(w, obs)
         \/ ScheduleFinalization(w) \/ ReadForFinalization(w)
         \/ StartFinalization(w) \/ CommitFinal(w) \/ CloseLog(w)
  PROVE  PollFits(w)' /\ AttemptFits(w)'
<1> USE DEF IInv
<1>1. /\ job[w] \in Jobs /\ clock \in Nat /\ clock' \in Nat
      /\ row \in Rows /\ row' \in Rows
  BY DEF TypeOK
<1>2. /\ job[w].fixAt \in Nat /\ job[w].fixAt <= clock /\ job[w].fixAt <= clock'
      /\ job[w].finalAt \in Nat
      /\ row.retrievedAt \in Nat /\ row'.retrievedAt \in Nat
      /\ row.updatedAt \in Nat /\ row'.updatedAt \in Nat
      /\ row.retrievedAt <= row'.retrievedAt
      /\ row.status # "ABSENT" => row'.status # "ABSENT"
  BY <1>1 DEF Jobs, Rows, PollFits, RowAdvances
<1>3. CASE Stop(w)
  BY <1>3, RestFits
<1>4. CASE ScheduleFinalization(w) /\ Chosen(w)
  <2> DEFINE correction == WasCorrection(w) \/ DurableCorrection(w)
  <2>1. Continue(w, [job[w] EXCEPT !.pc = "finalRead", !.newly = FALSE,
                                   !.correction = correction])
    BY <1>4 DEF ScheduleFinalization
  <2>2. /\ row' = row /\ job[w].fixAt <= row.retrievedAt
        /\ job[w].detail # NoScore => job[w].fix.status \in {"LIVE", "COMPLETED"}
    BY <1>4 DEF ScheduleFinalization, PollFits, Synced, At
  <2>3. correction => Official
    BY DEF CorrectionsFit, WasCorrection, DurableCorrection
  <2>4. FixtureAccepted(w) /\ DetailOutdated(w) /\ Official => correction
    <3> SUFFICES ASSUME FixtureAccepted(w), DetailOutdated(w), Official PROVE correction
      OBVIOUS
    <3>1. ~job[w].newly
      BY DEF AttemptFits
    <3>2. row.quality \notin PromotableQuality
      BY DEF Official, OfficialQuality, PromotableQuality
    <3> QED
      BY <1>4, <3>1, <3>2 DEF Chosen, PendingScore, WasCorrection
  <2> HIDE DEF correction
  <2> DEFINE next == [job[w] EXCEPT !.pc = "finalRead", !.newly = FALSE,
                                    !.correction = correction]
  <2>5. job'[w] = next
    BY <2>1, ContinueAt
  <2>6. /\ job'[w].pc = "finalRead" /\ job'[w].fix = job[w].fix
        /\ job'[w].fixAt = job[w].fixAt /\ job'[w].detail = job[w].detail
        /\ job'[w].newly = FALSE /\ job'[w].correction = correction
    BY <1>1, <2>5 DEF Jobs
  <2>7. PollFits(w)'
    BY <1>2, <2>2, <2>6 DEF PollFits, Synced, Attempting, AtFinal, At
  <2>8. AttemptFits(w)'
    BY <2>2, <2>3, <2>4, <2>6 DEF AttemptFits, Attempting, AtFinal, At, Official,
                                  FixtureAccepted, DetailOutdated
  <2> QED
    BY <2>7, <2>8
<1>5. CASE ReadForFinalization(w) /\ MayFinalize(w)
  <2> DEFINE correction == job[w].correction \/ OpenCorrection \/ row.quality = "CORRECTED"
  <2>1. Continue(w, [job[w] EXCEPT !.pc = "finalOpen",
                        !.correction = @ \/ OpenCorrection \/ row.quality = "CORRECTED"])
    BY <1>5 DEF ReadForFinalization
  <2>2. /\ row' = row /\ ~job[w].newly
        /\ job[w].fix.status = "COMPLETED" /\ FixtureAccepted(w) /\ DetailOutdated(w)
        /\ job[w].correction => Official
        /\ Official => job[w].correction
    BY <1>5 DEF ReadForFinalization, MayFinalize, AttemptFits, At
  <2>3. job[w].fix \in Observation
    BY <1>1, <2>2 DEF Jobs, NoObservation
  <2>4. row.status # "ABSENT"
    BY <1>2, <2>2 DEF RowFits, FixtureAccepted, DetailOutdated
  <2>5. job[w].fixAt <= row.retrievedAt
    BY <1>2, <2>2 DEF FixtureAccepted
  <2>6. correction <=> Official
    BY <2>2 DEF CorrectionsFit, Official, OfficialQuality
  <2> DEFINE next == [job[w] EXCEPT !.pc = "finalOpen",
                        !.correction = @ \/ OpenCorrection \/ row.quality = "CORRECTED"]
  <2>7. job'[w] = next
    BY <2>1, ContinueAt
  <2>8. /\ job'[w].pc = "finalOpen" /\ job'[w].fix = job[w].fix
        /\ job'[w].fixAt = job[w].fixAt /\ job'[w].newly = job[w].newly
        /\ job'[w].correction = correction
    BY <1>1, <2>7 DEF Jobs
  <2> HIDE DEF correction, next
  <2>9. PollFits(w)'
    BY <1>2, <2>2, <2>3, <2>4, <2>5, <2>8 DEF PollFits, Synced, Attempting, AtFinal, At
  <2>10. AttemptFits(w)'
    BY <2>2, <2>6, <2>8 DEF AttemptFits, Attempting, AtFinal, At, Official
  <2> QED
    BY <2>9, <2>10
<1>6. CASE StartFinalization(w)
  <2>1. PICK t \in {clock, clock + 1} :
          Now(t) /\ Continue(w, [job[w] EXCEPT !.pc = "finalFetch", !.finalAt = t])
    BY <1>6 DEF StartFinalization
  <2> DEFINE next == [job[w] EXCEPT !.pc = "finalFetch", !.finalAt = t]
  <2>2. job'[w] = next
    BY <2>1, ContinueAt
  <2>3. /\ job'[w].pc = "finalFetch" /\ job'[w].fix = job[w].fix
        /\ job'[w].fixAt = job[w].fixAt /\ job'[w].finalAt = t
        /\ job'[w].newly = job[w].newly /\ job'[w].correction = job[w].correction
    BY <1>1, <2>2 DEF Jobs
  <2>4. /\ row' = row /\ ~job[w].newly
        /\ job[w].fix \in Observation /\ row.status # "ABSENT"
        /\ job[w].fixAt <= row.retrievedAt
        /\ job[w].fix.status = "COMPLETED"
        /\ job[w].correction => Official
        /\ FixtureAccepted(w) /\ DetailOutdated(w) /\ Official => job[w].correction
    BY <1>6 DEF StartFinalization, PollFits, AttemptFits, Synced, Attempting, At
  <2>5. job[w].fixAt <= t
    BY <1>1, <1>2
  <2>6. PollFits(w)'
    BY <1>2, <2>3, <2>4 DEF PollFits, Synced, Attempting, AtFinal, At
  <2>7. AttemptFits(w)'
    BY <2>3, <2>4, <2>5 DEF AttemptFits, Attempting, AtFinal, At, Official,
                            FixtureAccepted, DetailOutdated
  <2> QED
    BY <2>6, <2>7
<1>7. CASE /\ ~ScheduleFinalization(w) /\ ~ReadForFinalization(w)
           /\ ~StartFinalization(w) /\ ~Stop(w)
  <2>1. /\ AtFinal(w)
        /\ \E label \in {"finalTx", "finalLog", "finalClear"} : Goto(w, label)
        /\ CommitFinal(w) \/ row' = row
    BY <1>7 DEF FinalAnswered, CommitFinal, CloseLog, AtFinal, At
  <2>2. PICK label \in {"finalTx", "finalLog", "finalClear"} : Goto(w, label)
    BY <2>1
  <2> DEFINE next == [job[w] EXCEPT !.pc = label]
  <2>3. job'[w] = next
    BY <2>2, ContinueAt
  <2>4. /\ job'[w].pc = label /\ job'[w].fix = job[w].fix
        /\ job'[w].fixAt = job[w].fixAt /\ job'[w].finalAt = job[w].finalAt
        /\ job'[w].newly = job[w].newly /\ job'[w].correction = job[w].correction
        /\ job'[w].detail = job[w].detail
    BY <1>1, <2>3 DEF Jobs
  <2>5. /\ job[w].fix \in Observation /\ row.status # "ABSENT" /\ ~job[w].newly
        /\ job[w].fixAt <= row.retrievedAt
        /\ job[w].fix.status = "COMPLETED" /\ job[w].fixAt <= job[w].finalAt
        /\ job[w].correction => Official
        /\ FixtureAccepted(w) /\ DetailOutdated(w) /\ Official => job[w].correction
    BY <2>1 DEF PollFits, AttemptFits, Synced, Attempting, AtFinal
  <2>6. PollFits(w)'
    BY <1>2, <2>4, <2>5 DEF PollFits, Synced, Attempting, AtFinal, At
  <2>7. Official => Official'
    BY DEF RowAdvances
  <2>8. FixtureAccepted(w)' /\ DetailOutdated(w)' /\ Official' => job[w].correction
    <3>1. CASE row' = row
      BY <2>4, <2>5, <3>1 DEF FixtureAccepted, DetailOutdated, Official
    <3>2. CASE CommitFinal(w)
      <4>1. row'.updatedAt = job[w].finalAt
        BY <1>1, <3>2 DEF CommitFinal, WriteRow, Stored, Rows
      <4> QED
        BY <1>2, <2>4, <2>5, <4>1 DEF DetailOutdated
    <3> QED
      BY <2>1, <3>1, <3>2
  <2>9. AttemptFits(w)'
    BY <2>4, <2>5, <2>7, <2>8 DEF AttemptFits, Attempting, AtFinal
  <2> QED
    BY <2>6, <2>9
<1> QED
  BY <1>3, <1>4, <1>5, <1>6, <1>7 DEF ScheduleFinalization, ReadForFinalization

\* Every step of a worker keeps what its own poll relies on.
LEMMA StepFits ==
  ASSUME IInv, TypeOK', RowAdvances, clock <= clock', NEW w \in Workers, StepOf(w)
  PROVE  PollFits(w)' /\ AttemptFits(w)'
<1> USE DEF IInv
<1>1. CASE Pass(w) \/ Stop(w)
  BY <1>1, RestFits
<1>2. ASSUME NEW obs \in Observation, Answer(w, obs)
      PROVE  PollFits(w)' /\ AttemptFits(w)'
  <2>1. CASE FixtureAnswered(w, obs) \/ DetailAnswered(w, obs.score)
    BY <2>1, IngestionFits
  <2>2. CASE FinalAnswered(w, obs)
    BY <2>2, FinalizationFits
  <2>3. CASE FinalMismatched(w, obs)
    BY <1>1, <2>3 DEF FinalMismatched, LeaveUnresolved
  <2> QED
    BY <1>2, <2>1, <2>2, <2>3 DEF Answer
<1>3. CASE Failure(w)
  BY <1>1, <1>3, IngestionFits DEF Failure, FixtureFailed, SyncFailed, FinalFailed,
       LeaveUnresolved, PollFailed, Crash, WithoutSource
<1>4. CASE Progress(w)
  <2>1. CASE StartPoll(w) \/ FilterSuperseded(w)
    BY <2>1, IngestionFits
  <2>2. CASE \/ SyncFixture(w) \/ ApplyLive(w) \/ SkipLive(w)
             \/ Reconcile(w) \/ DetectStale(w) \/ CompleteStale(w)
    BY <2>2, ProcessingFits
  <2>3. CASE \/ ScheduleFinalization(w) \/ ReadForFinalization(w)
             \/ StartFinalization(w) \/ CommitFinal(w) \/ CloseLog(w)
    BY <2>3, FinalizationFits
  <2>4. CASE FinalSuperseded(w) \/ ClearCorrections(w)
    BY <1>1, <2>4 DEF FinalSuperseded, ClearCorrections
  <2> QED
    BY <1>4, <2>1, <2>2, <2>3, <2>4 DEF Progress
<1> QED
  BY <1>2, <1>3, <1>4 DEF StepOf

\* Every step keeps open corrections to official results.
LEMMA StepCorrections ==
  ASSUME IInv, NEW w \in Workers, StepOf(w), RowAdvances, AttemptFits(w)', TypeOK'
  PROVE  CorrectionsFit'
<1> USE DEF IInv
<1>1. OpenCorrection => Official
  BY DEF CorrectionsFit
<1>2. AtFinal(w) /\ job[w].correction => Official
  BY DEF AttemptFits, Attempting
<1>3. CASE openFix' \subseteq openFix /\ (lostFix' => OpenCorrection \/ Official)
  BY <1>1, <1>3 DEF CorrectionsFit, OpenCorrection, RowAdvances
<1>4. CASE LeaveUnresolved(w) /\ AtFinal(w)
  <2>1. openFix' \subseteq openFix /\ (lostFix' => lostFix \/ job[w].correction)
    BY <1>4 DEF LeaveUnresolved
  <2> QED
    BY <1>2, <1>3, <1>4, <2>1 DEF OpenCorrection
<1>5. ASSUME NEW obs \in Observation, Answer(w, obs)
      PROVE  CorrectionsFit'
  <2>1. CASE FinalMismatched(w, obs)
    BY <1>4, <2>1 DEF FinalMismatched, AtFinal, At
  <2>2. CASE UNCHANGED <<openFix, lostFix>>
    BY <1>3, <2>2 DEF OpenCorrection
  <2> QED
    BY <1>5, <2>1, <2>2 DEF Answer, FixtureAnswered, DetailAnswered, FinalAnswered
<1>6. CASE Failure(w)
  <2>1. CASE FinalFailed(w)
    BY <1>4, <2>1 DEF FinalFailed, AtFinal, At
  <2>2. CASE Crash(w)
    BY <1>3, <2>2 DEF Crash, OpenCorrection
  <2>3. CASE UNCHANGED <<openFix, lostFix>>
    BY <1>3, <2>3 DEF OpenCorrection
  <2> QED
    BY <1>6, <2>1, <2>2, <2>3 DEF Failure, FixtureFailed, DetailFailed, SyncFailed, PollFailed
<1>7. CASE Progress(w)
  <2>1. CASE StartFinalization(w)
    <3>1. job[w].correction => Official
      BY <2>1 DEF StartFinalization, AttemptFits, Attempting
    <3>2. /\ openFix' = IF job[w].correction THEN openFix \cup {w} ELSE openFix
          /\ lostFix' = lostFix /\ row' = row
      BY <2>1 DEF StartFinalization
    <3>3. OpenCorrection' => OpenCorrection \/ job[w].correction
      BY <3>2 DEF OpenCorrection
    <3> QED
      BY <1>1, <3>1, <3>2, <3>3 DEF CorrectionsFit, Official
  <2>2. CASE FinalSuperseded(w) \/ CloseLog(w) \/ ClearCorrections(w)
    BY <1>3, <2>2 DEF FinalSuperseded, CloseLog, ClearCorrections, OpenCorrection
  <2>3. CASE UNCHANGED <<openFix, lostFix>>
    BY <1>3, <2>3 DEF OpenCorrection
  <2> QED
    BY <1>7, <2>1, <2>2, <2>3 DEF Progress, StartPoll, FilterSuperseded, SyncFixture,
       ApplyLive, SkipLive, Reconcile, DetectStale, CompleteStale, ScheduleFinalization,
       ReadForFinalization, CommitFinal
<1> QED
  BY <1>5, <1>6, <1>7 DEF StepOf

-----------------------------------------------------------------------------
(* Theorems                                                                *)

\* The invariant holds initially.
LEMMA InitInv == Init => IInv
<1> SUFFICES ASSUME Init PROVE IInv
  OBVIOUS
<1>1. TypeOK
  BY InitType
<1>2. LadderMatchesResult /\ RowFits /\ CorrectionsFit
  BY DEF Init, LadderMatchesResult, LadderOf, RowFits, CorrectionsFit, OpenCorrection,
         Official, OfficialQuality
<1>3. ASSUME NEW w \in Workers
      PROVE  PollFits(w) /\ AttemptFits(w)
  <2>1. /\ job[w].pc = "idle" /\ job[w].fixAt = 0 /\ job[w].detail = NoScore
        /\ job[w].newly = FALSE /\ clock = 1
    BY DEF Init, Idle
  <2> QED
    BY <2>1 DEF PollFits, AttemptFits, Synced, Attempting, AtFinal, At
<1> QED
  BY <1>1, <1>2, <1>3 DEF IInv

\* Every step preserves the invariant and moves the row as it may move.
LEMMA NextInv ==
  ASSUME IInv, [Next]_vars
  PROVE  IInv' /\ RowStep
<1>1. CASE UNCHANGED vars
  <2>1. IInv'
    BY <1>1 DEF vars, IInv, TypeOK, LadderMatchesResult, RowFits, CorrectionsFit,
       OpenCorrection, PollFits, AttemptFits, Synced, Attempting, AtFinal, At, Official,
       FixtureAccepted, DetailOutdated
  <2> QED
    BY <1>1, <2>1, RowUnchanged DEF vars
<1>2. CASE RebuildElsewhere
  <2>1. UNCHANGED <<row, clock, job, unread, openFix, lostFix>> /\ ladder' = LadderOf(row)
    BY <1>2 DEF RebuildElsewhere
  <2>2. IInv'
    BY <2>1, LadderOfType DEF IInv, TypeOK, LadderMatchesResult, LadderOf, RowFits,
       CorrectionsFit, OpenCorrection, PollFits, AttemptFits, Synced, Attempting, AtFinal,
       At, Official, FixtureAccepted, DetailOutdated
  <2>3. row.retrievedAt \in Nat /\ row.updatedAt \in Nat
    BY DEF IInv, TypeOK, Rows
  <2> QED
    BY <2>1, <2>2, <2>3 DEF IInv, RowStep, RowAdvances, Official, CanonicalStep
<1>3. CASE \E w \in Workers : StepOf(w)
  <2>1. PICK w \in Workers : StepOf(w)
    BY <1>3
  <2>2. RowStep
    BY <2>1, StepRow
  <2>3. TypeOK'
    BY <2>1, AnswerType, ProgressType, FailureType DEF StepOf, IInv
  <2>4. /\ clock <= clock'
        /\ \A v \in Workers : v # w => job'[v] = job[v]
    BY <2>1, StepFrame
  <2>5. PollFits(w)' /\ AttemptFits(w)'
    BY <2>1, <2>2, <2>3, <2>4, StepFits DEF RowStep
  <2>6. \A v \in Workers : v # w => PollFits(v)' /\ AttemptFits(v)'
    BY <2>2, <2>3, <2>4, OthersFit DEF RowStep
  <2>7. CorrectionsFit'
    BY <2>1, <2>2, <2>3, <2>5, StepCorrections DEF RowStep
  <2> QED
    BY <2>2, <2>3, <2>5, <2>6, <2>7 DEF RowStep, IInv
<1> QED
  BY <1>1, <1>2, <1>3 DEF Next, StepOf

\* The invariant holds in every reachable state, for any number of workers.
THEOREM Invariance == Spec => []IInv
<1>1. Init => IInv
  BY InitInv
<1>2. IInv /\ [Next]_vars => IInv'
  BY NextInv
<1> QED
  BY <1>1, <1>2, PTL DEF Spec

\* Every reachable state is of the declared shape.
THEOREM TypeCorrect == Spec => []TypeOK
<1>1. IInv => TypeOK
  BY DEF IInv
<1> QED
  BY <1>1, Invariance, PTL

\* The standings count the official result of the match and never one it does
\* not hold, whatever the order in which the transactions commit.
THEOREM LadderCorrect == Spec => []LadderMatchesResult
<1>1. IInv => LadderMatchesResult
  BY DEF IInv
<1> QED
  BY <1>1, Invariance, PTL

\* No attempt that is not a correction commits over an official result.
THEOREM OfficialProtected == Spec => []OnlyCorrectionsReplaceOfficial
<1>1. ASSUME IInv, NEW w \in Workers,
             At(w, "finalTx"), MayFinalize(w), Official
      PROVE  job[w].correction
  BY <1>1 DEF IInv, AttemptFits, Attempting, AtFinal, At, MayFinalize
<1>2. IInv => OnlyCorrectionsReplaceOfficial
  BY <1>1 DEF OnlyCorrectionsReplaceOfficial
<1> QED
  BY <1>2, Invariance, PTL

\* The ordering tokens of the row never go back, and a score is only replaced
\* under a newer one.
THEOREM RevisionsOrdered == Spec => RevisionsOrderScores
<1>1. ASSUME IInv, [Next]_vars
      PROVE  [/\ row'.retrievedAt >= row.retrievedAt
              /\ row'.updatedAt >= row.updatedAt
              /\ row.status # "ABSENT" /\ row'.score # row.score
                    => row'.updatedAt > row.updatedAt]_vars
  <2>1. RowAdvances /\ CanonicalStep
    BY <1>1, NextInv DEF RowStep
  <2>2. row.updatedAt \in Nat /\ row'.updatedAt \in Nat
        /\ row.retrievedAt \in Nat /\ row'.retrievedAt \in Nat
    BY <1>1, NextInv DEF IInv, TypeOK, Rows
  <2>3. row.status # "ABSENT" /\ row'.score # row.score => row'.updatedAt > row.updatedAt
    BY <2>1 DEF CanonicalStep, Canonical!Next, Canonical!Appear, Canonical!Observe,
                Canonical!Settle, Canonical!Finalize, Canonical!Correct
  <2> QED
    BY <2>1, <2>2, <2>3 DEF RowAdvances
<1> QED
  BY <1>1, Invariance, PTL DEF Spec, RevisionsOrderScores

\* The workers together implement the lifecycle of CanonicalResult.
THEOREM Refinement == Spec => ImplementsCanonicalResult
<1>1. Init => Canonical!Init
  BY DEF Init, Canonical!Init
<1>2. IInv /\ [Next]_vars => [Canonical!Next]_Canonical!vars
  BY NextInv DEF RowStep, CanonicalStep, Canonical!vars
<1> QED
  BY <1>1, <1>2, Invariance, PTL DEF Spec, ImplementsCanonicalResult, Canonical!Spec

=============================================================================
