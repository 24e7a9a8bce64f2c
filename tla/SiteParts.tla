------------------------------ MODULE SiteParts ------------------------------
(***************************************************************************)
(* What a visitor reads, what serves it and what measures it: the archive  *)
(* of results, the list of events of a match, the matches of the day, the  *)
(* live page of a match, the simulation with its requests and its matches, *)
(* the monitor of the navigation, the log of the timing, and the teams and *)
(* players of an import.  They share no state with each other; a behaviour *)
(* is that of one of them, chosen at the beginning, or of another part,    *)
(* the others at rest.  Constants and variables have the names of the      *)
(* parts' modules; a name that an earlier part has taken is another one    *)
(* here.                                                                   *)
(***************************************************************************)
CONSTANTS
    None,
    Matches, PageSize, ScanLimit, MaxChanges,                           \* ResultsFeed
    Entries, Filters, Sources, EventsPerPage, Fetches,                  \* MatchTimeline
    Clients, MatchCount, MaxStarts, Production,                         \* SimulationControl
    PeriodTicks, StartOffset, MaxTicks, MaxScore,                       \* SimulationPlay
    Fixtures, Hours, DayLength, Schedule, MaxCandidates, Components,    \* MatchDay
    Roster, TeamOf, Known, Details, PeriodLength, MaxRevisions,         \* LivePage
    Transitions, Prefetched, Contracts, Samples, MinEnforced, MaxIdle,
    Requests, MaxMishaps,                                               \* NavigationMonitor
    CR, LF, Tokens, MinSamples, MaxGroups, MaxPerGroup, MaxSamples,
    MaxLineBytes, MaxLines, MaxBytes,                                   \* TimingSummary
    Bundles, Capabilities, Plain, Edition, OtherTeams, LeaguePlayers    \* SourceIdentities

VARIABLES
    part,                                                               \* the one at work
    result, cached, walk, pages, touched, rewritten, restated,   \* ResultsFeed
    recorded, filter, shown, next, loading, initial, older, mixed,      \* MatchTimeline
    sim, tickTimer, rows, request, starts, overtaken, failed,           \* SimulationControl
    play, breaks, jumped,                                               \* SimulationPlay
    hour, match, public, reading, steady, badge, watching, pollTimer,
    calm,                                                               \* MatchDay
    game, stats, flow, events, lowered, queue, view, sock, missed,      \* LivePage
    enforced, place, tab, evidence, measured, idle, contracts, mishaps,
    history, exit,                                                      \* NavigationMonitor
    read, scan, sums, samples,                                          \* TimingSummary
    teams, entries, players, mapped, coverage, previews, applied, receipt

Feed == INSTANCE ResultsFeed
Reader == INSTANCE MatchTimeline WITH
    Rows <- Entries, PageSize <- EventsPerPage, Slots <- Fetches
Control == INSTANCE SimulationControl
Play == INSTANCE SimulationPlay
Day == INSTANCE MatchDay WITH Matches <- Fixtures, Limit <- MaxCandidates
Live == INSTANCE LivePage WITH match <- game, page <- view
Monitor == INSTANCE NavigationMonitor WITH at <- place, page <- tab
Timing == INSTANCE TimingSummary
Ident == INSTANCE SourceIdentities WITH recorded <- previews

ASSUME SitePartsAssumption ==
    /\ Feed!ResultsFeedAssumption /\ Reader!TimelineAssumption /\ Control!ControlAssumption
    /\ Play!PlayAssumption /\ Day!MatchDayAssumption /\ Live!LiveAssumption
    /\ Monitor!MonitorAssumption /\ Timing!TimingAssumption
    /\ Ident!SourceIdentitiesAssumption

-----------------------------------------------------------------------------
feedVars == <<result, cached, walk, pages, touched, rewritten, restated>>
readerVars == <<recorded, filter, shown, next, loading, initial, older, mixed>>
controlVars == <<sim, tickTimer, rows, request, starts, overtaken, failed>>
playVars == <<play, breaks, jumped>>
dayVars == <<hour, match, public, reading, steady, badge, watching, pollTimer, calm>>
liveVars == <<game, stats, flow, events, lowered, queue, view, sock, missed>>
monitorVars ==
    <<enforced, place, tab, evidence, measured, idle, contracts, mishaps, history, exit>>
timingVars == <<read, scan, sums, samples>>
identVars == <<teams, entries, players, mapped, coverage, previews, applied, receipt>>

siteCells ==
    <<feedVars, readerVars, controlVars, playVars, dayVars, liveVars, monitorVars, timingVars,
      identVars>>
siteVars == <<part, siteCells>>

\* Nothing in the variables of a part at rest.
NoFeed ==
    result = None /\ cached = None /\ walk = None /\ pages = None
    /\ touched = None /\ rewritten = None /\ restated = None
NoReader ==
    recorded = None /\ filter = None /\ shown = None /\ next = None /\ loading = None
    /\ initial = None /\ older = None /\ mixed = None
NoSimulation ==
    sim = None /\ tickTimer = None /\ rows = None /\ request = None /\ starts = None
    /\ overtaken = None /\ failed = None
NoPlay ==
    play = None /\ breaks = None /\ jumped = None
NoDay ==
    hour = None /\ match = None /\ public = None /\ reading = None /\ steady = None
    /\ badge = None /\ watching = None /\ pollTimer = None /\ calm = None
NoLivePage ==
    game = None /\ stats = None /\ flow = None /\ events = None /\ lowered = None
    /\ queue = None /\ view = None /\ sock = None /\ missed = None
NoMonitor ==
    enforced = None /\ place = None /\ tab = None /\ evidence = None /\ measured = None
    /\ idle = None /\ contracts = None /\ mishaps = None /\ history = None /\ exit = None
NoTiming ==
    read = None /\ scan = None /\ sums = None /\ samples = None
NoImport ==
    teams = None /\ entries = None /\ players = None /\ mapped = None /\ coverage = None
    /\ previews = None /\ applied = None /\ receipt = None

SiteInit ==
    /\ IF part = "feed" THEN Feed!Init ELSE NoFeed
    /\ IF part = "timeline" THEN Reader!Init ELSE NoReader
    /\ IF part = "control" THEN Control!Init ELSE NoSimulation
    /\ IF part = "play" THEN Play!Init ELSE NoPlay
    /\ IF part = "day" THEN Day!Init ELSE NoDay
    /\ IF part = "live" THEN Live!Init ELSE NoLivePage
    /\ IF part = "monitor" THEN Monitor!Init ELSE NoMonitor
    /\ IF part = "timing" THEN Timing!Init ELSE NoTiming
    /\ IF part = "import" THEN Ident!Init ELSE NoImport

Site ==
    {"feed", "timeline", "control", "play", "day", "live", "monitor", "timing", "import"}

\* A part at work, the others at rest.
SiteNext ==
    /\ part \in Site /\ part' = part
    /\ IF part = "feed" THEN Feed!Next ELSE UNCHANGED feedVars
    /\ IF part = "timeline" THEN Reader!Next ELSE UNCHANGED readerVars
    /\ IF part = "control" THEN Control!Next ELSE UNCHANGED controlVars
    /\ IF part = "play" THEN Play!Next ELSE UNCHANGED playVars
    /\ IF part = "day" THEN Day!Next ELSE UNCHANGED dayVars
    /\ IF part = "live" THEN Live!Next ELSE UNCHANGED liveVars
    /\ IF part = "monitor" THEN Monitor!Next ELSE UNCHANGED monitorVars
    /\ IF part = "timing" THEN Timing!Next ELSE UNCHANGED timingVars
    /\ IF part = "import" THEN Ident!Next ELSE UNCHANGED identVars

SiteSpec == SiteInit /\ [][SiteNext]_siteVars

-----------------------------------------------------------------------------
(* The properties of the parts, by their names there.                      *)

\* The archive of results is walked once, without a gap (home-feed.ts).
ArchiveIsWalkedOnce == part = "feed" => Feed!ArchiveIsWalkedOnce

\* The cards of the pages a client holds show the scores of their matches, until
\* a match is observed again (home-feed.ts).
CardsAreCurrent == part = "feed" => Feed!CardsAreCurrent

\* The list of events of a match leaves none out (MatchTimeline.tsx, match-timeline.ts).
PlayByPlayHasNoGaps == part = "timeline" => Reader!PlayByPlayHasNoGaps

\* The rows of the simulation are those of its matches (sim-routes.ts).
RowsFollowMatches == part = "control" => Control!RowsFollowMatches

\* No reader overlooks a match that is on all the while it reads (live-state.ts).
MatchesAreNotOverlooked == [][part = "day" => Day!OverlooksNothing]_siteVars

\* What is served of a match adds up: a simulated one is consistent with itself
\* (engine.ts), and the live page shows the rows of the match, which the details of
\* the provider back (processing.ts, broadcasting.ts, LiveGameClient.tsx).
ServedMatchesAddUp ==
    /\ part = "play" => Play!ServedMatchIsConsistent
    /\ part = "live" => Live!LivePageIsTrue

\* What is said of the performance was measured: a monitored run that ends well has
\* its evidence (monitor-navigation-performance.ts), every line of the timing log is
\* accounted for (summarize-server-timing.ts) and the gate is satisfied by time spent
\* in phases (server-timing.ts).
MeasurementsAreEarned ==
    /\ part = "monitor" => Monitor!SuccessIsEvidenced
    /\ part = "timing" => Timing!EveryLineIsCounted /\ Timing!GateIsEarned

\* Who is who in an import stays settled from one revision to the next (prisma-writer.ts).
SourcesAgree == [][part = "import" => Ident!SourcesAgreeStep]_siteVars

=============================================================================
