\* Two processes with their workers, and a page that moves between
\* the processes; small instances of the other parts, whose bounds are in MCSiteParts.
SPECIFICATION PartsSpec
CONSTANTS
    Processes = {q1, q2}
    Nowhere = Nowhere
    Subscriptions = {s1}
    FirstRevisions = {1}
    MaxRevision = 3
    Disturbances = {}
    c1 = c1
    c2 = c2
    c3 = c3
    None = None
    r1 = r1
    CR = CR
    LF = LF
    g1 = g1
    g2 = g2
    x = x
    y = y
    h1 = h1
    a1 = a1
    unlisted = unlisted
    d1 = d1
    Matches <- FourResults
    PageSize = 1
    ScanLimit = 2
    MaxChanges = 1
    Entries <- SevenEvents
    Filters <- AllOrSome
    Sources <- BothTables
    EventsPerPage = 2
    Fetches = {d1}
    Clients = {c1, c2, c3}
    MatchCount = 2
    MaxStarts = 3
    Production = FALSE
    PeriodTicks = 2
    StartOffset = 2
    MaxTicks = 2
    MaxScore = 3
    Fixtures = {1, 2}
    Hours <- ThreeHours
    DayLength = 2
    Schedule <- OneThenTwo
    MaxCandidates = 1
    Components = {c1, c2}
    Roster <- ListedPlayers
    TeamOf <- HomeAndAway
    Known = {h1, a1}
    Details <- CoherentDetails
    PeriodLength = 2
    MaxRevisions = 2
    Transitions <- OneTransition
    Prefetched <- OneTransition
    Contracts <- OneContract
    Samples = 1
    MinEnforced = 1
    MaxIdle = 1
    Requests = {r1}
    MaxMishaps = 1
    Tokens <- TimingLog
    MinSamples = 2
    MaxGroups = 1
    MaxPerGroup = 2
    MaxSamples = 6
    MaxLineBytes = 2
    MaxLines = 3
    MaxBytes = 5
    Bundles <- FiveRevisions
    Capabilities <- TwoCapabilities
    Plain <- PlainNames
    Edition = "edition"
    OtherTeams <- LeagueClub
    LeaguePlayers <- LeagueLee
SYMMETRY Symmetry
INVARIANTS VersionedEventsAreCurrent
    ArchiveIsWalkedOnce PlayByPlayHasNoGaps RowsFollowMatches
    ServedMatchesAddUp MeasurementsAreEarned CardsAreCurrent
PROPERTIES ScoreNeverGoesBack
    MatchesAreNotOverlooked SourcesAgree
CHECK_DEADLOCK FALSE
