---------------------------- MODULE ServiceParts ----------------------------
(***************************************************************************)
(* The services around the site, which share no state with each other: a   *)
(* behaviour is that of one of them, chosen at the beginning, the others   *)
(* at rest.  Constants and variables have the names of the parts' modules; *)
(* a name that an earlier part has taken is another one here.              *)
(***************************************************************************)
CONSTANTS
    None,
    Editions, Strict, Leagues, Season, Today, PageSize, MaxChanges,     \* EditionPages
    Boundary, Timeout, HealthyLife, UnhealthyLife, Horizon,             \* ScopedDatabases
    Phase, MaxRetries, MaxDelay, Freshness, MaxActivePoll, Owners,      \* ProductionSmoke
    MaxSiteChanges,
    Requests, Clients, Questions, Limit, MaxMinutes, MaxCommits,        \* StatQuestions
    Handlers, Items, Emails, Passwords, MaxUserResources, RateLimit,    \* Accounts
    Window, MaxRateLimitKeys, MaxBegun, LastInstant, MaxMishaps,
    Phases, Ceremony, Codes, Listings, Responses, Concurrency,          \* OfficialFeed
    Approved, Commands, Environments, PreviewShells, PsqlShells, Runs,  \* ProductionGuard
    Files, MaxAge, MaxSkew, LastTick,
    Queries, TooLong, Findable, Fixtures, Matching, MaxTurns, Texts,    \* ReaderControls
    Teams, Favorites, Reminders, Calls,
    Routes, Waves, Rotations, Sizes, HardLimit,                         \* MemoryStress
    Chain, Contracts, Schemas, Acls, MaxRehearsals, MaxHandwork         \* PreviewRehearsal

VARIABLES
    part,                                                               \* the one at work
    status, match, cached, page, wasReady, changes,                     \* EditionPages
    now, target, drifted, reachable, entry, answer, since,              \* ScopedDatabases
    site, attempt, checks, discovered, files, exit, held, siteChanges,  \* ProductionSmoke
    epoch, minute, buckets, cache, request, telemetry, granted,         \* StatQuestions
    saved, passwordOf, rateLimits, handler, instant, begun, mishaps,    \* Accounts
    uses, told,
    fetch, requests, nextIndex, inFlight, failure, results, heard,      \* OfficialFeed
    fetched,
    clock, evidence, run, last,                                         \* ProductionGuard
    query, found, searching, alert, activeIndex, tasks, access, turns,  \* ReaderControls
    witnessed,
    question, address, requesting, requestError, response, coming,
    flights,
    place, savedRows, shown, load, copy, known, pending, calls,
    strained,
    step, child, size, wave, waiting, monitor, monitorRunning,          \* MemoryStress
    failures, peak, printed, unhandled, verdict, rotated, troubled, stuck,
    ledger, effects, roles, acl, job, altered, quiet, rehearsals,       \* PreviewRehearsal
    handiwork

Shown == INSTANCE EditionPages
Scoped == INSTANCE ScopedDatabases
Smoke == INSTANCE ProductionSmoke WITH MaxChanges <- MaxSiteChanges, changes <- siteChanges
Asked == INSTANCE StatQuestions
User == INSTANCE Accounts WITH
    Requests <- Handlers, Horizon <- LastInstant, request <- handler, now <- instant
Client == INSTANCE OfficialFeed WITH answer <- fetched
Guarded == INSTANCE ProductionGuard WITH Horizon <- LastTick
Reader == INSTANCE ReaderControls WITH
    Questions <- Texts, loading <- searching, rows <- savedRows
Stress == INSTANCE MemoryStress
Preview == INSTANCE PreviewRehearsal

ASSUME PartsAssumption ==
    /\ Shown!EditionPagesAssumption /\ Scoped!ScopedDatabasesAssumption
    /\ Smoke!SmokeAssumption /\ Asked!StatQuestionsAssumption /\ User!AccountsAssumption
    /\ Client!OfficialFeedAssumption /\ Guarded!ProductionGuardAssumption
    /\ Reader!SearchAssumption /\ Reader!AskAssumption /\ Reader!SavedAssumption
    /\ Stress!MemoryStressAssumption /\ Preview!PreviewAssumption

-----------------------------------------------------------------------------
pagesVars == <<status, match, cached, page, wasReady, changes>>
scopedVars == <<now, target, drifted, reachable, entry, answer, since>>
smokeVars == <<site, attempt, checks, discovered, files, exit, held, siteChanges>>
statVars == <<epoch, minute, buckets, cache, request, telemetry, granted>>
accountsVars == <<saved, passwordOf, rateLimits, handler, instant, begun, mishaps, uses, told>>
feedVars == <<fetch, requests, nextIndex, inFlight, failure, results, heard, fetched>>
guardVars == <<clock, evidence, run, last>>
searchVars ==
    <<query, found, searching, alert, activeIndex, tasks, access, turns, witnessed>>
askVars == <<question, address, requesting, requestError, response, coming, flights>>
savedVars ==
    <<place, savedRows, shown, load, copy, known, pending, calls, strained>>
stressVars ==
    <<step, child, size, wave, waiting, monitor, monitorRunning, failures, peak, printed,
      unhandled, verdict, rotated, troubled, stuck>>
previewVars == <<ledger, effects, roles, acl, job, altered, quiet, rehearsals, handiwork>>

partsVars ==
    <<part, pagesVars, scopedVars, smokeVars, statVars, accountsVars, feedVars, guardVars,
      searchVars, askVars, savedVars, stressVars, previewVars>>

Parts ==
    {"pages", "scoped", "smoke", "stats", "user", "official", "guard", "search", "ask",
     "saved", "stress", "preview"}

NoPages ==
    status = None /\ match = None /\ cached = None /\ page = None /\ wasReady = None
    /\ changes = None
NoProbe ==
    now = None /\ target = None /\ drifted = None /\ reachable = None /\ entry = None
    /\ answer = None /\ since = None
NoSmoke ==
    site = None /\ attempt = None /\ checks = None /\ discovered = None /\ files = None
    /\ exit = None /\ held = None /\ siteChanges = None
NoQuestions ==
    epoch = None /\ minute = None /\ buckets = None /\ cache = None /\ request = None
    /\ telemetry = None /\ granted = None
NoUser ==
    saved = None /\ passwordOf = None /\ rateLimits = None /\ handler = None
    /\ instant = None /\ begun = None /\ mishaps = None /\ uses = None /\ told = None
NoFetch ==
    fetch = None /\ requests = None /\ nextIndex = None /\ inFlight = None
    /\ failure = None /\ results = None /\ heard = None /\ fetched = None
NoCommands == clock = None /\ evidence = None /\ run = None /\ last = None
NoSearch ==
    query = None /\ found = None /\ searching = None /\ alert = None /\ activeIndex = None
    /\ tasks = None /\ access = None /\ turns = None /\ witnessed = None
NoAsking ==
    question = None /\ address = None /\ requesting = None /\ requestError = None
    /\ response = None /\ coming = None /\ flights = None
NothingSaved ==
    place = None /\ savedRows = None /\ shown = None /\ load = None /\ copy = None
    /\ known = None /\ pending = None /\ calls = None /\ strained = None
NoStress ==
    step = None /\ child = None /\ size = None /\ wave = None /\ waiting = None
    /\ monitor = None /\ monitorRunning = None /\ failures = None /\ peak = None
    /\ printed = None /\ unhandled = None /\ verdict = None /\ rotated = None
    /\ troubled = None /\ stuck = None
NoPreview ==
    ledger = None /\ effects = None /\ roles = None /\ acl = None /\ job = None
    /\ altered = None /\ quiet = None /\ rehearsals = None /\ handiwork = None

PartsInit ==
    /\ part \in Parts
    /\ IF part = "pages" THEN Shown!Init ELSE NoPages
    /\ IF part = "scoped" THEN Scoped!Init ELSE NoProbe
    /\ IF part = "smoke" THEN Smoke!Init ELSE NoSmoke
    /\ IF part = "stats" THEN Asked!Init ELSE NoQuestions
    /\ IF part = "user" THEN User!Init ELSE NoUser
    /\ IF part = "official" THEN Client!Init ELSE NoFetch
    /\ IF part = "guard" THEN Guarded!Init ELSE NoCommands
    /\ IF part = "search" THEN Reader!SearchInit ELSE NoSearch
    /\ IF part = "ask" THEN Reader!AskInit ELSE NoAsking
    /\ IF part = "saved" THEN Reader!SavedInit ELSE NothingSaved
    /\ IF part = "stress" THEN Stress!Init ELSE NoStress
    /\ IF part = "preview" THEN Preview!Init ELSE NoPreview

\* The part at work takes a step, the others rest.
PartsNext ==
    /\ part' = part
    /\ IF part = "pages" THEN Shown!Next ELSE UNCHANGED pagesVars
    /\ IF part = "scoped" THEN Scoped!Next ELSE UNCHANGED scopedVars
    /\ IF part = "smoke" THEN Smoke!Next ELSE UNCHANGED smokeVars
    /\ IF part = "stats" THEN Asked!Next ELSE UNCHANGED statVars
    /\ IF part = "user" THEN User!Next ELSE UNCHANGED accountsVars
    /\ IF part = "official" THEN Client!Next ELSE UNCHANGED feedVars
    /\ IF part = "guard" THEN Guarded!Next ELSE UNCHANGED guardVars
    /\ IF part = "search" THEN Reader!SearchNext ELSE UNCHANGED searchVars
    /\ IF part = "ask" THEN Reader!AskNext ELSE UNCHANGED askVars
    /\ IF part = "saved" THEN Reader!SavedNext ELSE UNCHANGED savedVars
    /\ IF part = "stress" THEN Stress!Next ELSE UNCHANGED stressVars
    /\ IF part = "preview" THEN Preview!Next ELSE UNCHANGED previewVars

PartsSpec == PartsInit /\ [][PartsNext]_partsVars

-----------------------------------------------------------------------------
(* The properties of the parts, by their names there.                      *)

\* Pages follow the publication of editions (competitions.ts, edition-schedule.ts).
PagesFollowPublication == part = "pages" => Shown!PagesFollowPublication

\* What a check reports was so: no verdict on a scoped role is older than its life
\* (scoped-database-boundary.ts), a smoke that passes saw the site satisfy every check
\* (production-smoke.ts), the memory stress fails for a reason and passes for one
\* (stress-phase2-memory.ts), and a migration that is recorded, or a rehearsal that
\* passes, is so of the preview (the scripts of glasgow-preview-rehearsal).
ChecksAreEarned ==
    /\ part = "scoped" => Scoped!VerdictsAreRecent
    /\ part = "smoke" => Smoke!SmokeIsEarned
    /\ part = "stress" => Stress!StressIsEarned
    /\ part = "preview" => Preview!RehearsalIsEarned

\* An answer is to what is asked, of the data as it was then: questions on statistics
\* are counted and keep to their scope (api/stats/query), and the search box and the
\* page of Ask CentrePass show what was found for the text they stand at
\* (GlobalSearch.tsx, ExploreClient.tsx).
AnswersAreEarned ==
    /\ part = "stats" => Asked!AnswersAreEarned
    /\ part = "search" => Reader!SearchIsSettled
    /\ part = "ask" => Reader!AnswerIsOfTheAddress

\* Limits, saved things and accounts under requests that overlap (user-resource-route.ts),
\* and what a page shows as saved is saved (settings/page.tsx, MatchActions.tsx).
AccountsAreSound ==
    /\ part = "user" => User!AccountsAreSound
    /\ part = "saved" => Reader!ShownIsSaved

\* A fetch answers with all it was told or with nothing (official-feed.ts).
AnswerIsComplete == part = "official" => Client!AnswerIsComplete

\* The Glasgow commands reach production with standing evidence only
\* (production-glasgow.ts, glasgow-production-guard.ts).
ProductionIsGuarded == part = "guard" => Guarded!ProductionIsGuarded

=============================================================================
