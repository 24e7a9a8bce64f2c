------------------------------ MODULE LivePage ------------------------------
(***************************************************************************)
(* The live page of a match.  Details of the provider are written to rows: *)
(* statistics of players, the score flow with its scorers, and the events  *)
(* inferred from the statistics (applyChanges and writeFinalStats in       *)
(* src/lib/processing.ts, persistStatEvents in src/lib/broadcasting.ts).   *)
(* The page is rendered from the rows (live/page.tsx), then kept up by     *)
(* what the worker sends to the room of the match (broadcasting.ts,        *)
(* src/lib/worker.ts), and shown by LiveGameClient.tsx.                    *)
(*                                                                         *)
(* Every detail is applied (MatchRevision has what decides it), and it is  *)
(* coherent: its score is the last total of its flow.  Of the statistics   *)
(* there are goals, and one of the four that make events; of the clock,    *)
(* the seconds since the first period began.  A row of the flow is named   *)
(* by its second and team, an event by its player and second.              *)
(*                                                                         *)
(* The parts of a message name the revision they were made of: when the    *)
(* next detail is applied first, what is left of them is not sent any      *)
(* more.  The match is public and its provider covers everything;          *)
(* MatchRealtime has the gates, ServerProcess the rooms.                   *)
(***************************************************************************)
EXTENDS Naturals, Sequences, FiniteSetsExt, SequencesExt

CONSTANTS
    Roster,         \* the players of a detail, in its order
    TeamOf,         \* "home" or "away" for each
    Known,          \* those that have a row in the database
    Details,        \* what the provider may report
    PeriodLength,   \* seconds
    MaxRevisions,   \* bound: details that are applied
    None

VARIABLES
    match,      \* its status, score, clock and revision
    stats,      \* PlayerMatchStats: the goals and the count of a player
    flow,       \* ScoreFlow
    events,     \* MatchEvent
    lowered,    \* history: players whose goals were corrected downwards
    queue,      \* the parts of the last revision that are still to be sent
    page,       \* what was rendered
    sock,       \* what the room has sent: for each part its last payload
    missed      \* history: the parts that the page was not told of

rowVars == <<match, stats, flow, events, lowered>>
vars == <<match, stats, flow, events, lowered, queue, page, sock, missed>>

Players == Range(Roster)
Teams == {"home", "away"}

LiveAssumption ==
    /\ TeamOf \in [Players -> Teams]
    /\ Known \subseteq Players
    /\ PeriodLength \in Nat \ {0}
    /\ MaxRevisions \in Nat
    /\ \A d \in Details :
          /\ DOMAIN d.stats \subseteq Players
          /\ \A i, j \in DOMAIN d.flow : i < j => d.flow[i].at <= d.flow[j].at

Period(at) == at \div PeriodLength + 1

-----------------------------------------------------------------------------
(* A detail                                                                *)

\* The running total of a flow, after its first i goals.
Total(d, i) ==
    [team \in Teams |->
        MapThenSumSet(LAMBDA j : d.flow[j].points, {j \in 1..i : d.flow[j].team = team})]

ScoreOf(d) == Total(d, Len(d.flow))

\* Players without a row are left out, with a warning.
Reported(d) == DOMAIN d.stats \cap Known

StatsOf(d) == [p \in Players |-> IF p \in Reported(d) THEN d.stats[p] ELSE None]

GoalsOf(p) == IF stats[p] = None THEN 0 ELSE stats[p].goals
CountOf(p) == IF stats[p] = None THEN 0 ELSE stats[p].count

-----------------------------------------------------------------------------
(* Events                                                                  *)

EventsOf(p) == {e \in events : e.player = p}

Newest(n, S) ==
    Range(SubSeq(SetToSortSeq(S, LAMBDA e, f : e.at > f.at), 1, Min({n, Cardinality(S)})))

\* The events of a player beyond a count, the newest first.
Excess(p, count) ==
    IF CountOf(p) > count THEN Newest(CountOf(p) - count, EventsOf(p)) ELSE {}

\* One event a second for what was added to a count.
Inferred(d, p) ==
    {[player |-> p, at |-> d.at + i] : i \in 0..(d.stats[p].count - CountOf(p) - 1)}

\* persistStatEvents: a second that has an event already takes no other
\* (skipDuplicates), and players who are no longer reported lose theirs.
PersistedEvents(d) ==
    UNION {EventsOf(p) \ Excess(p, d.stats[p].count) : p \in Reported(d)}
    \cup UNION {Inferred(d, p) : p \in {q \in Reported(d) : d.stats[q].count > CountOf(q)}}
    \cup UNION {EventsOf(p) : p \in {q \in Players \ Reported(d) : stats[q] = None}}

\* writeFinalStats: as many as the final count, the oldest.
FinalEvents(d) ==
    UNION {LET have == EventsOf(p)
               want == d.stats[p].count
           IN  have \ Newest(IF Cardinality(have) > want THEN Cardinality(have) - want ELSE 0,
                             have)
           : p \in Reported(d)}

-----------------------------------------------------------------------------
(* The score flow                                                          *)

SameGoal(f, g) == f.at = g.at /\ f.team = g.team

Existing(g) == {f \in flow : SameGoal(f, g)}

\* The players of a team who have more goals than before, once for each.
Scorers(d, team) ==
    FlattenSeq([i \in DOMAIN Roster |->
        LET p == Roster[i]
        IN  IF p \in Reported(d) /\ TeamOf[p] = team /\ d.stats[p].goals > GoalsOf(p)
            THEN [n \in 1..(d.stats[p].goals - GoalsOf(p)) |-> p]
            ELSE <<>>])

\* A goal that is new has the next scorer of its team, one that is not keeps its own.
ScorerOf(d, i) ==
    LET g == d.flow[i]
        turn == Cardinality({j \in 1..i : /\ d.flow[j].team = g.team
                                          /\ Existing(d.flow[j]) = {}})
        scorers == Scorers(d, g.team)
    IN  IF Existing(g) # {} THEN (CHOOSE f \in Existing(g) : TRUE).scorer
        ELSE IF turn \in DOMAIN scorers THEN scorers[turn] ELSE None

Goal(d, i, scorer) ==
    [at |-> d.flow[i].at, team |-> d.flow[i].team, points |-> d.flow[i].points,
     total |-> Total(d, i), scorer |-> scorer]

AppliedFlow(d) == {Goal(d, i, ScorerOf(d, i)) : i \in DOMAIN d.flow}

\* writeFinalStats replaces the flow, without scorers.
FinalFlow(d) == {Goal(d, i, None) : i \in DOMAIN d.flow}

-----------------------------------------------------------------------------

Row(status, d) ==
    [status |-> status, score |-> ScoreOf(d), at |-> d.at, revision |-> match.revision + 1]

\* The rows before anything was observed.
RowsInit ==
    /\ match = [status |-> "SCHEDULED", score |-> [team \in Teams |-> 0], at |-> 0,
                revision |-> 0]
    /\ stats = [p \in Players |-> None]
    /\ flow = {}
    /\ events = {}
    /\ lowered = {}

\* A detail of a match in play.
ApplyDetail(d) ==
    /\ match.status # "COMPLETED" /\ match.revision < MaxRevisions
    /\ match' = Row("LIVE", d)
    /\ events' = PersistedEvents(d)
    /\ stats' = StatsOf(d)
    /\ flow' = AppliedFlow(d)
    /\ lowered' = lowered \cup
          {p \in Players : GoalsOf(p) > IF p \in Reported(d) THEN d.stats[p].goals ELSE 0}

\* The detail of a match that has ended, or a correction of it.
WriteFinal(d) ==
    /\ match.status \in {"LIVE", "COMPLETED"} /\ match.revision < MaxRevisions
    /\ match' = Row("COMPLETED", d)
    /\ events' = FinalEvents(d)
    /\ stats' = StatsOf(d)
    /\ flow' = FinalFlow(d)
    /\ lowered' = {}

-----------------------------------------------------------------------------
(* What a message says                                                     *)

Parts == {"score", "status", "stats", "flow", "events"}

\* The score, the flow, the events and the statistics of a match.
Rows == [score |-> [score |-> match.score, period |-> Period(match.at)],
         status |-> match.status, stats |-> stats, flow |-> flow, events |-> events]

-----------------------------------------------------------------------------
(* The page                                                                *)

\* mergePlayerStats: a player the payload does not have is without statistics.
Rendered(part) == page.rows[part]

Latest(part) == IF sock[part] = None THEN Rendered(part) ELSE sock[part]

\* mergeScoreFlows: a goal of the room replaces the rendered one.
MergedFlow(initial, incoming) ==
    {f \in initial : \A g \in incoming : ~SameGoal(f, g)} \cup incoming

\* A mutation: the flow of the room is added to the rendered one.
AddedFlow ==
    IF sock.flow = None THEN Rendered("flow") ELSE MergedFlow(Rendered("flow"), sock.flow)

\* A snapshot of the flow replaces the rendered one.
AllScoreFlow ==
    IF sock.flow = None THEN MergedFlow(Rendered("flow"), {}) ELSE sock.flow

IsLive ==
    /\ sock.status # "COMPLETED"
    /\ sock.status = "LIVE" \/ Rendered("status") = "LIVE"

\* The last totals of some goals.
LastTotal(goals) ==
    IF goals = {} THEN [team \in Teams |-> 0]
    ELSE (CHOOSE f \in goals : \A g \in goals :
             g.at < f.at \/ (g.at = f.at /\ \A team \in Teams : g.total[team] <= f.total[team])).total

InPeriod(goals, n) == {f \in goals : Period(f.at) = n}
BeforePeriod(goals, n) == {f \in goals : Period(f.at) < n}

\* buildLiveQuarters: what a period added to the totals; the one in play has
\* what is left of the score when it is without a goal.
Quarters ==
    LET goals == AllScoreFlow
        current == Latest("score").period
        Of[n \in 0..current] ==
            IF n = 0 THEN [team \in Teams |-> 0]
            ELSE IF InPeriod(goals, n) # {}
            THEN [team \in Teams |-> LastTotal(InPeriod(goals, n))[team]
                                     - LastTotal(BeforePeriod(goals, n))[team]]
            ELSE IF n = current
            THEN [team \in Teams |-> Latest("score").score[team]
                                     - MapThenSumSet(LAMBDA i : Of[i][team], 0..(n - 1))]
            ELSE [team \in Teams |-> 0]
    IN  [n \in 1..current |-> Of[n]]

-----------------------------------------------------------------------------
(* The worker                                                              *)

\* What is left to send of the revision before, and not part of this one.
Overtaken(parts) == Range(queue) \ Range(parts)

\* The score is sent when it has changed and the status when it has; the
\* statistics, the flow and the events with every detail.
Changed(d) ==
    (IF ScoreOf(d) # match.score THEN <<"score">> ELSE <<>>)
    \o (IF match.status # "LIVE" THEN <<"status">> ELSE <<>>)
    \o <<"stats", "flow", "events">>

Completion == <<"status", "score", "flow", "stats", "events">>

Observe(d) ==
    /\ ApplyDetail(d)
    /\ queue' = Changed(d)
    /\ missed' = missed \cup Overtaken(Changed(d))
    /\ UNCHANGED <<page, sock>>

\* broadcastCompletion, unless the process ends before it.
Finalize(d, announced) ==
    /\ WriteFinal(d)
    /\ queue' = IF announced THEN Completion ELSE <<>>
    /\ missed' = IF announced THEN missed ELSE missed \cup Parts
    /\ UNCHANGED <<page, sock>>

\* A part is made of the rows when it is sent.
SendPart ==
    /\ queue # <<>>
    /\ queue' = Tail(queue)
    /\ IF page.phase = "joined"
       THEN /\ sock' = [sock EXCEPT ![Head(queue)] = Rows[Head(queue)]]
            /\ missed' = missed \ {Head(queue)}
       ELSE UNCHANGED <<sock, missed>>
    /\ UNCHANGED <<rowVars, page>>

\* The lookup before it failed.
LosePart ==
    /\ queue # <<>>
    /\ queue' = Tail(queue)
    /\ missed' = missed \cup {Head(queue)}
    /\ UNCHANGED <<rowVars, page, sock>>

-----------------------------------------------------------------------------
(* The rendering, and the join                                             *)

NoPage == [phase |-> "none", rows |-> None]
Silent == [part \in Parts |-> None]

\* findUnique reads the match, and then what belongs to it; a match that is not
\* under way redirects.
RenderRow ==
    /\ page.phase = "none"
    /\ match.status \in {"LIVE", "COMPLETED"}
    /\ page' = [phase |-> "reading", rows |-> Rows]
    /\ UNCHANGED <<rowVars, queue, sock, missed>>

RenderRest ==
    /\ page.phase = "reading"
    /\ page' = [phase |-> "rendered",
                rows |-> [Rows EXCEPT !.score = Rendered("score"), !.status = Rendered("status")]]
    /\ UNCHANGED <<rowVars, queue, sock, missed>>

\* The parts in which a rendered page differs from the rows.
Stale == {part \in Parts : Rendered(part) # Rows[part]}

\* A match in play sends nothing to those who join; a final, everything.
Join ==
    /\ page.phase = "rendered"
    /\ page' = [page EXCEPT !.phase = "joined"]
    /\ IF match.status = "COMPLETED"
       THEN sock' = Rows /\ missed' = {}
       ELSE sock' = sock /\ missed' = Stale
    /\ UNCHANGED <<rowVars, queue>>

-----------------------------------------------------------------------------
Init ==
    /\ RowsInit
    /\ queue = <<>>
    /\ page = NoPage
    /\ sock = Silent
    /\ missed = {}

Next ==
    \/ \E d \in Details : Observe(d)
    \/ \E d \in Details, announced \in BOOLEAN : Finalize(d, announced)
    \/ SendPart
    \/ LosePart
    \/ RenderRow
    \/ RenderRest
    \/ Join

Spec == Init /\ [][Next]_vars

-----------------------------------------------------------------------------
(* Properties                                                              *)

\* No more events of a player are kept than the statistics count, and no more
\* goals are credited to one than the player has scored, unless those were
\* corrected downwards: through details that add, take back and leave out, and
\* stops of the clock (broadcasting.ts, processing.ts).
RowsAreBacked ==
    \A p \in Players :
        /\ Cardinality(EventsOf(p)) <= CountOf(p)
        /\ p \notin lowered => Cardinality({f \in flow : f.scorer = p}) <= GoalsOf(p)

\* The points a period had.
PointsIn(n) ==
    [team \in Teams |-> MapThenSumSet(LAMBDA f : f.points,
                                      {f \in InPeriod(flow, n) : f.team = team})]

QuartersAreRight == \A n \in DOMAIN Quarters : Quarters[n] = PointsIn(n)

\* The period of the page, which only a message of the score brings, is none before
\* that of a goal: a correction that moves a goal on and keeps the score sends no
\* such message, and the page has the quarters wrong until the next one.
PeriodCoversGoals == \A f \in flow : Period(f.at) <= Latest("score").period

\* A page that has joined shows the rows of every part it was told of, when
\* nothing is left to send: the score, the statistics, the events and the goals,
\* corrections and what was taken back included, and of the periods it knows of
\* the points scored in each (LiveGameClient.tsx, score-flow.ts).
RoomShowsTheMatch ==
    (page.phase = "joined" /\ queue = <<>>) =>
        /\ "score" \notin missed => Latest("score").score = match.score
        /\ "status" \notin missed => (IsLive <=> match.status = "LIVE")
        /\ "stats" \notin missed => Latest("stats") = stats
        /\ "events" \notin missed => Latest("events") = events
        /\ "flow" \notin missed => AllScoreFlow = flow
        /\ ({"score", "flow"} \cap missed = {} /\ flow # {} /\ PeriodCoversGoals) =>
              QuartersAreRight

\* What the rows of a match say, and what a page shows of them.
LivePageIsTrue == RowsAreBacked /\ RoomShowsTheMatch

=============================================================================
