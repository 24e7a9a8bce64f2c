\* Small instances of the services, each at work alone.
SPECIFICATION ServicesSpec
CONSTANTS
    None = None
    k1 = k1
    k2 = k2
    d1 = d1
    p1 = p1
    p2 = p2
    p3 = p3
    victory = victory
    m1 = m1
    m2 = m2
    e1 = e1
    e2 = e2
    t1 = t1
    t2 = t2
    reader = reader
    old = old
    new = new
    x = x
    q1 = q1
    q2 = q2
    q3 = q3
    f1 = f1
    f2 = f2
    a1 = a1
    \* Pages: two editions.
    Editions = {1, 2}
    Strict = {2}
    Leagues = {1}
    Season <- Seasons
    Today = 2
    PageSize = 1
    MaxChanges = 2
    \* A verdict lives four times the timeout, or twice when it is a refusal.
    Boundary = "analytics"
    Timeout = 1
    HealthyLife = 4
    UnhealthyLife = 2
    Horizon = 8
    \* One retry, and one change of the site at any time.
    Phase = "published"
    MaxRetries = 1
    MaxDelay = 1
    Freshness = 2
    MaxActivePoll = 1
    Owners = {e1, e2}
    MaxSiteChanges = 1
    \* Two questions of a client.
    Requests = {k1, k2}
    Clients = {d1}
    Questions <- QuestionsAsked
    Limit = 1
    MaxMinutes = 1
    MaxCommits = 1
    \* Three requests of a user, two at a time; one thing goes wrong.
    Handlers = {1, 2}
    Items = {t1, t2}
    Emails = {reader}
    Passwords = {old, new}
    MaxUserResources = 1
    RateLimit <- Limits
    Window = 2
    MaxRateLimitKeys = 2
    MaxBegun = 3
    LastInstant = 2
    MaxMishaps = 1
    \* A fetch of a date by two workers.
    Phases = {p1, p2, p3, victory}
    Ceremony = victory
    Codes = {m1, m2}
    Listings <- PhaseListings
    Responses <- Answers
    Concurrency = 2
    \* Two runs of the wrapper and one name of a file; evidence is of the same tick.
    Approved = e1
    Commands <- CommandsTyped
    Environments <- Shells
    PreviewShells <- ShellsOfPreviews
    PsqlShells <- ShellsOfPsql
    Runs = {k1, k2}
    Files = {x}
    MaxAge = 0
    MaxSkew = 0
    LastTick = 1
    \* Two texts, a match and a player; what is public changes twice.
    Queries = {q1, q2}
    TooLong = {q2}
    Findable = {f1, a1}
    Fixtures = {f1}
    Matching <- NamesOf
    MaxTurns = 2
    Texts = {q1, q2, q3}
    \* Two teams and a list of two matches; two requests at a time.
    Teams = {t1, t2}
    Favorites = {f1, f2}
    Reminders = {}
    Calls = {k1, k2}
    \* Two waves of two requests.
    Routes = {f1, a1}
    Waves = 2
    Rotations = 1
    Sizes = {1, 2}
    HardLimit = 2
    \* Two rehearsals of a chain of six migrations, and one change by hand.
    Chain = 6
    Contracts <- ScopedRoles
    Schemas <- PreviewSchemas
    Acls <- PreviewAcls
    MaxRehearsals = 2
    MaxHandwork = 1
SYMMETRY Symmetry
INVARIANTS PagesFollowPublication ChecksAreEarned AnswersAreEarned AccountsAreSound
    AnswerIsComplete ProductionIsGuarded
CHECK_DEADLOCK FALSE
