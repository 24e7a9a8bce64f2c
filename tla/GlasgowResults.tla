--------------------------- MODULE GlasgowResults ---------------------------
(***************************************************************************)
(* How results reach the Glasgow 2026 matches: the automatic feed          *)
(* (src/lib/glasgow/official-feed-sync.ts), run by any number of           *)
(* overlapping workers, and the guarded manual workflow, both through the  *)
(* serializable writer of src/lib/glasgow/results-import.ts.               *)
(*                                                                         *)
(* A sync reads the matches and the receipts, asks the provider, plans     *)
(* against what it READ, and applies each planned result in a transaction  *)
(* of its own, which validates it again against what is stored THEN.  A    *)
(* transaction is one step.                                                *)
(*                                                                         *)
(* Abstractions.  A match is the number of its place in the schedule.  A   *)
(* checksum is the position in `log` of the import that had it; equal      *)
(* inputs have equal checksums.  Of the period scores we keep how many     *)
(* there are and the score they add up to.  "OFF" is DELAYED, POSTPONED,   *)
(* CANCELLED and ABANDONED.  Ambiguous or malformed observations and       *)
(* fixtures on dates that are not requested are observations that were     *)
(* not made.  The edition is published and its source enabled throughout.  *)
(* A manual file has one or two results.                                   *)
(***************************************************************************)
EXTENDS Naturals, Sequences, FiniteSets

CONSTANTS
    Workers,        \* processes that run the sync
    Matches,        \* matches, numbered in the order of the schedule
    Teams, NoTeam,
    Drawn,          \* the teams of each match before play
    Bracket,        \* slots that take the winner or loser of another match
    Pool,           \* matches of the pool stage
    MaxGoals,       \* bound on the goals of a side
    MaxPeriods,     \* bound on the number of periods
    Sightings,      \* what the provider may say of each match
    Drafts,         \* the results of the files an operator may prepare
    MaxClock,       \* bound on the instants at which a sync may start
    MaxReceipts,    \* bound on the imports that are not replays
    MaxPreviews     \* bound on the recorded dry runs

Sides == {"A", "B"}
Scorelines == [Sides -> 0..MaxGoals]
Statuses == {"SCHEDULED", "LIVE", "COMPLETED", "OFF"}
FinalQualities == {"UNOFFICIAL_FINAL", "OFFICIAL_FINAL", "CORRECTED"}
Qualities == {"UNKNOWN", "PROVISIONAL"} \cup FinalQualities
Periods == [upto : 0..MaxPeriods, sum : Scorelines]
Instants == 0..MaxClock

Slots == [of : Matches, takes : {"MATCH_WINNER", "MATCH_LOSER"},
          match : Matches, side : Sides]

Observations ==
    [status : {"LIVE", "COMPLETED"}, teams : [Sides -> Teams], score : Scorelines]

\* GlasgowMatchResultInput: periods are optional.
Results ==
    [match : Matches, teams : [Sides -> Teams], status : Statuses,
     quality : Qualities, score : Scorelines, updated : Instants,
     periods : Periods]

ASSUME ResultsAssumption ==
    /\ NoTeam \notin Teams
    /\ Matches \subseteq Nat
    /\ MaxGoals \in Nat /\ MaxPeriods \in Nat /\ MaxClock \in Nat \ {0}
    /\ MaxReceipts \in Nat /\ MaxPreviews \in Nat
    /\ Drawn \in [Matches -> [Sides -> Teams \cup {NoTeam}]]
    /\ Bracket \subseteq Slots
    /\ \A f \in Bracket : f.of # f.match
    /\ \A f, g \in Bracket : f.match = g.match /\ f.side = g.side => f = g
    /\ Pool \subseteq Matches
    /\ Sightings \in [Matches -> SUBSET Observations]
    /\ Drafts \subseteq Seq(Results)
    /\ \A d \in Drafts : Len(d) \in {1, 2}

VARIABLES
    clock,      \* the present
    row,        \* Match with its slots, periods and period coverage
    table,      \* what the pool standings count, one result per match
    log,        \* the inputs of the applied imports, in order
    latest,     \* the newest successful receipt: a position in log, 0 for none
    previews,   \* recorded clean dry runs, each with the receipt it was made on
    job,        \* each worker's sync
    agreeing    \* history: observations in a row of this final result, up to 2

vars == <<clock, row, table, log, latest, previews, job, agreeing>>

Scoreless == [side \in Sides |-> 0]
NoPeriods == [upto |-> 0, sum |-> Scoreless]
NotSeen == [status |-> "NONE"]

Scheduled(m) ==
    [status |-> "SCHEDULED", quality |-> "UNKNOWN", score |-> Scoreless,
     updated |-> 0, slot |-> Drawn[m], team |-> Drawn[m],
     periods |-> NoPeriods, shown |-> "UNAVAILABLE"]

Fixtures == [m \in Matches |-> Scheduled(m)]

Idle == [pc |-> "idle", at |-> 0, read |-> {}, rows |-> Fixtures,
         base |-> 0, todo |-> {}]

Init ==
    /\ clock = 1
    /\ row = Fixtures
    /\ table = {}
    /\ log = <<>>
    /\ latest = 0
    /\ previews = {}
    /\ job = [w \in Workers |-> Idle]
    /\ agreeing = [m \in Matches |-> 0]

Tick ==
    /\ clock < MaxClock
    /\ clock' = clock + 1
    /\ UNCHANGED <<row, table, log, latest, previews, job, agreeing>>

-----------------------------------------------------------------------------
(* Validation of one result against a stored row (buildDatabasePreview)    *)

\* The score is the stored one, and so are the periods; a result that brings
\* none differs from a row that has some.
SameResultData(r, u) ==
    r.status = u.status /\ r.score = u.score /\ r.periods = u.periods

SameResult(r, u) == r.quality = u.quality /\ SameResultData(r, u)

\* A mutation: a correction may become official in its turn.
PromotesCorrections(r, u) ==
    \/ SameResult(r, u)
    \/ u.quality = "CORRECTED"
    \/ r.quality \in {"UNKNOWN", "PROVISIONAL"}
    \/ r.quality # "OFFICIAL_FINAL" /\ u.quality = "OFFICIAL_FINAL"

ValidQualityTransition(r, u) ==
    \/ SameResult(r, u)
    \/ u.quality = "CORRECTED"
    \/ r.quality = "UNKNOWN"
    \/ /\ r.quality = "PROVISIONAL"
       /\ u.quality \in {"PROVISIONAL", "UNOFFICIAL_FINAL", "OFFICIAL_FINAL"}
    \/ r.quality = "UNOFFICIAL_FINAL" /\ u.quality = "OFFICIAL_FINAL"

\* PARTICIPANT_MISMATCH
ParticipantsMatch(r, u) ==
    \A side \in Sides :
        /\ r.slot[side] \in {NoTeam, u.teams[side]}
        /\ r.team[side] \in {NoTeam, u.teams[side]}

\* CORRECTION_REQUIRED
CorrectsCompleted(r, u) ==
    r.status = "COMPLETED" /\ ~SameResultData(r, u) => u.quality = "CORRECTED"

\* SCORE_REGRESSION: of a live score by a live score.
KeepsLiveScore(r, u) ==
    r.status = "LIVE" /\ u.status = "LIVE"
        => \A side \in Sides : u.score[side] >= r.score[side]

\* A mutation: the age of a result plays no part.
AnyAge(r, u) == TRUE

\* STALE_SOURCE_UPDATE: a repetition may be older than what it repeats.
NotStale(r, u) == u.updated >= r.updated \/ SameResult(r, u)

\* PERIOD_SET_REGRESSION
KeepsPeriods(r, u) == u.periods.upto = 0 \/ u.periods.upto >= r.periods.upto

Clean(r, u) ==
    /\ ParticipantsMatch(r, u)
    /\ ValidQualityTransition(r, u)
    /\ CorrectsCompleted(r, u)
    /\ KeepsLiveScore(r, u)
    /\ NotStale(r, u)
    /\ KeepsPeriods(r, u)

-----------------------------------------------------------------------------
(* Validation of an input                                                  *)

\* The rules of validateGlasgowResultsInput for one result: four regulation
\* periods that add up to a completed score, status and quality that belong
\* together.
WellFormed(u) ==
    /\ u.teams["A"] # u.teams["B"]
    /\ CASE u.status = "LIVE" -> u.quality = "PROVISIONAL"
         [] u.status = "COMPLETED" -> u.quality \in FinalQualities
         [] OTHER -> /\ u.quality = "UNKNOWN"
                     /\ u.score = Scoreless
                     /\ u.periods = NoPeriods
    /\ u.status # "SCHEDULED"
    /\ u.periods.upto > 0 =>
         CASE u.status = "COMPLETED" -> u.periods.upto >= 4 /\ u.periods.sum = u.score
           [] OTHER -> \A side \in Sides : u.periods.sum[side] <= u.score[side]

\* A correction names the newest receipt; nothing else names one.
Evidence(input) ==
    IF \E i \in DOMAIN input.results : input.results[i].quality = "CORRECTED"
    THEN input.base # 0 /\ input.base = latest
    ELSE input.base = 0

Valid(input) ==
    /\ Evidence(input)
    /\ \A i \in DOMAIN input.results :
         WellFormed(input.results[i])
         /\ Clean(row[input.results[i].match], input.results[i])
    /\ \A i, j \in DOMAIN input.results :
         input.results[i].match = input.results[j].match => i = j

-----------------------------------------------------------------------------
(* The transaction (applyWithMode)                                         *)

\* FINAL_QUALITIES decide the slots that depend on the match.
Decides(u) == u.status = "COMPLETED" /\ u.quality \in FinalQualities

Tied(u) == u.score["A"] = u.score["B"]

\* The team a dependent slot takes from a decisive score.
TakenFrom(f, score, teams) ==
    IF (f.takes = "MATCH_WINNER") = (score["A"] > score["B"])
    THEN teams["A"] ELSE teams["B"]

Taken(f, u) == TakenFrom(f, u.score, u.teams)

Dependents(m) == {f \in Bracket : f.of = m}

Started(r) == r.status \in {"LIVE", "COMPLETED"}

\* A mutation: only completed matches keep their teams.
TouchesCompleted(rows, u) ==
    \E f \in Dependents(u.match) :
        /\ rows[f.match].slot[f.side] # Taken(f, u)
        /\ rows[f.match].status = "COMPLETED"

\* A slot must change that belongs to a match which has started.
TouchesStarted(rows, u) ==
    \E f \in Dependents(u.match) :
        /\ rows[f.match].slot[f.side] # Taken(f, u)
        /\ Started(rows[f.match])

\* The transaction rolls back: a draw decides nothing, a started match keeps
\* its teams.
Blocked(rows, u) ==
    /\ Decides(u)
    /\ IF Tied(u) THEN Dependents(u.match) # {} ELSE TouchesStarted(rows, u)

\* A mutation: periods are added, those that are stored are not replaced.
PeriodsAdded(r, u) ==
    IF u.periods.upto = 0 THEN r.periods
    ELSE IF r.periods.upto = 0 THEN u.periods
    ELSE [upto |-> u.periods.upto, sum |-> r.periods.sum]

\* Periods replace stored ones of the same number: all of them (KeepsPeriods).
PeriodsAfter(r, u) == IF u.periods.upto = 0 THEN r.periods ELSE u.periods

\* The state of the PERIOD_SCORES coverage.
PeriodCoverage(u) ==
    IF u.periods.upto = 0 THEN "UNAVAILABLE"
    ELSE IF u.status = "LIVE" THEN "PROVISIONAL" ELSE "AVAILABLE"

\* The match row.  A slot is only written when it differed at validation.
ResultWritten(r, before, u) ==
    [r EXCEPT
        !.status = u.status, !.quality = u.quality, !.score = u.score,
        !.updated = u.updated, !.team = u.teams,
        !.slot = [side \in Sides |->
            IF before.slot[side] = u.teams[side] THEN @[side] ELSE u.teams[side]],
        !.periods = PeriodsAfter(before, u), !.shown = PeriodCoverage(u)]

\* A mutation: only an empty slot is filled.
EmptySlotsFilled(r, m, u) ==
    [r EXCEPT
        !.slot = [side \in Sides |->
            IF @[side] = NoTeam /\ \E f \in Dependents(u.match) : f.match = m /\ f.side = side
            THEN Taken(CHOOSE f \in Dependents(u.match) : f.match = m /\ f.side = side, u)
            ELSE @[side]],
        !.team = [side \in Sides |->
            IF @[side] = NoTeam /\ \E f \in Dependents(u.match) : f.match = m /\ f.side = side
            THEN Taken(CHOOSE f \in Dependents(u.match) : f.match = m /\ f.side = side, u)
            ELSE @[side]]]

\* The slots of a match that depend on u, and the match's teams with them.
SlotsFilled(r, m, u) ==
    LET Changes(side) == {f \in Dependents(u.match) :
            f.match = m /\ f.side = side /\ r.slot[side] # Taken(f, u)}
        After(teams) == [side \in Sides |->
            IF Changes(side) = {} THEN teams[side]
            ELSE Taken(CHOOSE f \in Changes(side) : TRUE, u)]
    IN  [r EXCEPT !.slot = After(r.slot), !.team = After(r.team)]

\* All rows after one result; `before` holds the rows as validated.
Written(rows, before, u) ==
    [m \in Matches |->
        IF m = u.match THEN ResultWritten(rows[m], before[m], u)
        ELSE IF Decides(u) /\ ~Tied(u) THEN SlotsFilled(rows[m], m, u)
        ELSE rows[m]]

\* A file's results are written in the order of their identifiers.
RowsAfter(rows, results) ==
    IF Len(results) = 1 THEN Written(rows, rows, results[1])
    ELSE Written(Written(rows, rows, results[1]), rows, results[2])

Applicable(results) ==
    /\ ~Blocked(row, results[1])
    /\ Len(results) = 2 => ~Blocked(Written(row, row, results[1]), results[2])

\* The pool standings are computed anew from every counted pool result.
Standings(rows) ==
    {[match |-> m, teams |-> rows[m].slot, score |-> rows[m].score] :
        m \in {p \in Pool : rows[p].status = "COMPLETED"
                            /\ rows[p].quality \in FinalQualities}}

\* A mutation: they are computed before the result is written.
RebuiltBefore == table' = Standings(row)

Rebuilt == table' = Standings(row')

Recorded(input) == log' = Append(log, input)

Replayed(input) == {i \in DOMAIN log : log[i] = input}

\* What a stored result adds to what was observed: an operator vouches for what
\* is not called unofficial, and one who calls it so has observed it once.
Agreement(m, u, byFeed) ==
    IF ~Decides(u) THEN 0
    ELSE IF ~byFeed THEN (IF u.quality = "UNOFFICIAL_FINAL" THEN 1 ELSE 2)
    ELSE IF row[m].status = "COMPLETED" /\ row[m].score = u.score
         THEN (IF agreeing[m] = 0 THEN 1 ELSE 2)
    ELSE 1

\* History: what the polls and the operators have agreed on.
Observed(results, byFeed) ==
    agreeing' = [m \in Matches |->
        LET us == {i \in DOMAIN results : results[i].match = m}
        IN  IF us = {} THEN agreeing[m]
            ELSE Agreement(m, results[CHOOSE i \in us : TRUE], byFeed)]

\* The same input again only leaves a receipt.
Replay(input) ==
    /\ Replayed(input) # {}
    /\ latest' = CHOOSE i \in Replayed(input) : TRUE
    /\ UNCHANGED <<row, table, log, agreeing>>

FirstImport(input, byFeed) ==
    /\ Replayed(input) = {}
    /\ Len(log) < MaxReceipts
    /\ Applicable(input.results)
    /\ row' = RowsAfter(row, input.results)
    /\ Rebuilt
    /\ Recorded(input)
    /\ latest' = Len(log) + 1
    /\ Observed(input.results, byFeed)

Import(input, byFeed) ==
    Valid(input) /\ (Replay(input) \/ FirstImport(input, byFeed))

Refused(input) ==
    ~Valid(input) \/ (Replayed(input) = {} /\ ~Applicable(input.results))

-----------------------------------------------------------------------------
(* The feed (syncOfficialGlasgowResults)                                   *)

Continue(w, next) ==
    /\ job' = [job EXCEPT ![w] = next]
    /\ UNCHANGED <<clock, previews>>

NothingWritten == UNCHANGED <<row, table, log, latest, agreeing>>

\* retrievedAt is the time at which the sync starts.
StartSync(w) ==
    /\ job[w].pc = "idle"
    /\ Continue(w, [Idle EXCEPT !.pc = "reading", !.at = clock])
    /\ NothingWritten

\* The two queries run at the same time: either may see the older database.
ReadMatches(w) ==
    /\ job[w].pc = "reading" /\ "matches" \notin job[w].read
    /\ Continue(w, [job[w] EXCEPT !.read = @ \cup {"matches"}, !.rows = row])
    /\ NothingWritten

ReadReceipts(w) ==
    /\ job[w].pc = "reading" /\ "receipts" \notin job[w].read
    /\ Continue(w, [job[w] EXCEPT !.read = @ \cup {"receipts"}, !.base = latest])
    /\ NothingWritten

Reversed(s) ==
    [s EXCEPT !.teams = [A |-> @["B"], B |-> @["A"]],
              !.score = [A |-> @["B"], B |-> @["A"]]]

InOrder(r, s) == \A side \in Sides : r.team[side] \in {NoTeam, s.teams[side]}

\* The provider's teams are those of the fixture, one of which is known.
Placed(r, s) ==
    /\ s.teams["A"] # s.teams["B"]
    /\ \E side \in Sides : r.team[side] # NoTeam
    /\ InOrder(r, s) \/ InOrder(r, Reversed(s))

\* The provider's order is not a home and away order.
Canonical(r, s) == IF InOrder(r, s) THEN s ELSE Reversed(s)

\* Nothing is reopened and a live score does not fall.
Eligible(r, s) ==
    /\ r.status \in {"SCHEDULED", "LIVE", "COMPLETED"}
    /\ ~(r.status = "COMPLETED" /\ s.status = "LIVE")
    /\ r.status = "LIVE" => \A side \in Sides : s.score[side] >= r.score[side]

\* A mutation: the first final result is taken to be official.
TrustFirst(r, s) ==
    CASE s.status = "LIVE" -> "PROVISIONAL"
      [] s.status = "COMPLETED" ->
           IF r.status = "COMPLETED" /\ s.score # r.score
           THEN "CORRECTED" ELSE "OFFICIAL_FINAL"

PlannedQuality(r, s) ==
    CASE s.status = "LIVE" -> "PROVISIONAL"
      [] s.status = "COMPLETED" /\ r.status # "COMPLETED" -> "UNOFFICIAL_FINAL"
      [] s.status = "COMPLETED" /\ r.status = "COMPLETED" ->
           IF s.score # r.score THEN "CORRECTED"
           ELSE IF r.quality = "UNOFFICIAL_FINAL" THEN "OFFICIAL_FINAL"
           ELSE IF r.quality \in {"OFFICIAL_FINAL", "CORRECTED"} THEN r.quality
           ELSE "UNOFFICIAL_FINAL"

\* What the row becomes; equal to the row when there is nothing to do.
PlannedUpdate(m, r, s, at) ==
    [match |-> m, teams |-> s.teams, status |-> s.status,
     quality |-> PlannedQuality(r, s), score |-> s.score,
     updated |-> at, periods |-> NoPeriods]

Unchanged(r, u) == r.status = u.status /\ r.quality = u.quality /\ r.score = u.score

\* planOfficialGlasgowUpdates, on the rows and the receipt that were read.
Plan(j, seen) ==
    LET Usable == {m \in Matches :
            /\ seen[m] # NotSeen
            /\ Placed(j.rows[m], seen[m])
            /\ Eligible(j.rows[m], Canonical(j.rows[m], seen[m]))}
        Update(m) ==
            PlannedUpdate(m, j.rows[m], Canonical(j.rows[m], seen[m]), j.at)
    IN  {u \in {Update(m) : m \in Usable} :
            /\ ~Unchanged(j.rows[u.match], u)
            /\ u.quality = "CORRECTED" => j.base # 0}

\* The worker goes on with what is left to apply.
Applying(j, todo, base) ==
    IF todo = {} THEN Idle
    ELSE [Idle EXCEPT !.pc = "applying", !.at = j.at, !.todo = todo, !.base = base]

\* The provider's answers; a date that fails leaves its matches unseen.
Reports ==
    {seen \in [Matches -> UNION {Sightings[m] : m \in Matches} \cup {NotSeen}] :
        \A m \in Matches : seen[m] \in Sightings[m] \cup {NotSeen}}

Fetch(w, seen) ==
    /\ job[w].pc = "reading" /\ job[w].read = {"matches", "receipts"}
    /\ Continue(w, Applying(job[w], Plan(job[w], seen), job[w].base))
    /\ NothingWritten

\* The update of the earliest match is next.
First(todo) == CHOOSE u \in todo : \A v \in todo : u.match <= v.match

\* A mutation: a correction is sent without its evidence.
InputWithoutEvidence(j) == [results |-> <<First(j.todo)>>, base |-> 0]

InputOf(j) ==
    LET u == First(j.todo)
    IN  [results |-> <<u>>, base |-> IF u.quality = "CORRECTED" THEN j.base ELSE 0]

Rest(j) == j.todo \ {First(j.todo)}

\* Each receipt is the base of the next correction.
ApplyScheduled(w) ==
    /\ job[w].pc = "applying"
    /\ Import(InputOf(job[w]), TRUE)
    /\ Continue(w, Applying(job[w], Rest(job[w]), latest'))

\* A refused or failed result leaves the others to be tried.
Skip(w) ==
    /\ job[w].pc = "applying"
    /\ Continue(w, Applying(job[w], Rest(job[w]), job[w].base))
    /\ NothingWritten

ApplyRefused(w) == job[w].pc = "applying" /\ Refused(InputOf(job[w])) /\ Skip(w)

\* A conflict with another transaction, a lost connection: there is no retry.
ApplyFailed(w) == Skip(w)

\* A query failed, no date could be fetched, or the process ended.
Abandon(w) ==
    /\ job[w].pc # "idle"
    /\ Continue(w, Idle)
    /\ NothingWritten

Sync(w) ==
    \/ StartSync(w) \/ ReadMatches(w) \/ ReadReceipts(w)
    \/ (\E seen \in Reports : Fetch(w, seen))
    \/ ApplyScheduled(w) \/ ApplyRefused(w)

SyncDisturbed(w) == ApplyFailed(w) \/ Abandon(w)

-----------------------------------------------------------------------------
(* The guarded manual workflow                                             *)

\* The source's own time of a prepared result is in the past.
Stamped(draft, t) == [i \in DOMAIN draft |-> [draft[i] EXCEPT !.updated = t]]

RecordPreview ==
    /\ Cardinality(previews) < MaxPreviews
    /\ \E draft \in Drafts, t \in 1..clock, base \in {0, latest} :
         LET input == [results |-> Stamped(draft, t), base |-> base]
         IN  /\ Valid(input)
             /\ previews' = previews \cup {[input |-> input, on |-> latest]}
    /\ UNCHANGED <<clock, job>>
    /\ NothingWritten

\* The confirmation token is that of a dry run of this input on this receipt.
ApplyManual ==
    /\ \E p \in previews : p.on = latest /\ Import(p.input, FALSE)
    /\ UNCHANGED <<clock, previews, job>>

-----------------------------------------------------------------------------

Next ==
    \/ Tick
    \/ RecordPreview
    \/ ApplyManual
    \/ \E w \in Workers : Sync(w) \/ SyncDisturbed(w)

Spec == Init /\ [][Next]_vars

-----------------------------------------------------------------------------
(* Properties                                                              *)

Rows == [status : Statuses, quality : Qualities, score : Scorelines,
         updated : Instants, slot : [Sides -> Teams \cup {NoTeam}],
         team : [Sides -> Teams \cup {NoTeam}], periods : Periods,
         shown : {"UNAVAILABLE", "PROVISIONAL", "AVAILABLE"}]

Inputs == [results : Seq(Results), base : Nat]

Jobs == [pc : {"idle", "reading", "applying"}, at : Instants,
         read : SUBSET {"matches", "receipts"}, rows : [Matches -> Rows],
         base : Nat, todo : SUBSET Results]

\* The state is of the declared shape, and receipts exist that are referred to.
TypeOK ==
    /\ clock \in Instants
    /\ row \in [Matches -> Rows]
    /\ table \in SUBSET [match : Pool, teams : [Sides -> Teams \cup {NoTeam}], score : Scorelines]
    /\ log \in Seq(Inputs)
    /\ latest \in 0..Len(log)
    /\ \A p \in previews :
         p.input \in Inputs /\ Len(p.input.results) \in {1, 2} /\ p.on \in Nat
    /\ job \in [Workers -> Jobs]
    /\ \A w \in Workers : job[w].pc = "applying" => job[w].todo # {}
    /\ agreeing \in [Matches -> 0..2]

\* The bracket agrees with the results: the winner or loser of a completed
\* match is in the slot that waits for it, and the match that has the slot
\* names the same team, whatever was corrected meanwhile
\* (the dependent slots of applyWithMode).
SlotsFollowResults ==
    \A f \in Bracket :
        row[f.of].status = "COMPLETED" =>
            LET team == TakenFrom(f, row[f.of].score, row[f.of].team)
            IN  /\ row[f.of].score["A"] # row[f.of].score["B"]
                /\ row[f.match].slot[f.side] = team
                /\ row[f.match].team[f.side] = team

\* A match that is being played or has been played keeps the teams that play
\* it, whatever is corrected before it ("Cannot change a knockout slot after
\* dependent match has started").
StartedMatchKeepsItsTeams ==
    [][\A m \in Matches : Started(row[m]) =>
          row'[m].team = row[m].team /\ row'[m].slot = row[m].slot]_vars

\* The public result of each match, as ResultLifecycle speaks of it.
PublicResults == [m \in Matches |-> [status |-> row[m].status,
                     quality |-> row[m].quality, score |-> row[m].score]]

Lifecycle == INSTANCE ResultLifecycle WITH
    Scores <- Scorelines, NoScore <- Scoreless, result <- PublicResults

\* Whatever is read too early or repeated, results follow the accepted
\* transitions (official-feed-sync.ts and results-import.ts together).
FollowsLifecycle == Lifecycle!Spec

\* The standings count the completed pool matches and no others, for the teams
\* that are said to play them, although they are computed from the slots and
\* the qualities (applyWithMode).
StandingsCountResults ==
    table = {[match |-> m, teams |-> row[m].team, score |-> row[m].score] :
                m \in {p \in Pool : row[p].status = "COMPLETED"}}

\* A result becomes official by itself only after a poll has agreed with the
\* poll, or the operator, that stored it, also when polls overlap ("identical on
\* a second successful poll", official-feed-sync.ts).
ConfirmedTwice ==
    \A m \in Matches : row[m].quality = "OFFICIAL_FINAL" => agreeing[m] = 2

\* The public result of a match, its quality included, changes only on information
\* at least as new as that it replaces, in files of any size and however old what
\* the sync had read; an older repetition changes nothing but the source time
\* ("an older changed source timestamp" is refused, STALE_SOURCE_UPDATE;
\* docs/runbooks/glasgow-2026-compensating-correction.md).
FreshestWins ==
    [][\A m \in Matches :
          PublicResults'[m] # PublicResults[m] => row'[m].updated >= row[m].updated]_vars

\* Periods that are shown as available add up to the final score, although a
\* result of the feed replaces the score and leaves the periods.
PeriodsAgree ==
    \A m \in Matches : row[m].shown = "AVAILABLE" =>
        /\ row[m].status = "COMPLETED"
        /\ row[m].periods.sum = row[m].score

=============================================================================
