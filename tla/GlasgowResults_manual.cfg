\* One worker and an operator with four files, among them one of two results.
SPECIFICATION Spec
CONSTANTS
    x = x
    y = y
    z = z
    NoTeam = NoTeam
    Workers = {w1}
    Teams = {x, y, z}
    Matches <- Knockout
    Drawn <- KnockoutDrawn
    Bracket <- KnockoutBracket
    Pool <- NoPool
    Sightings <- SemifinalReports
    Drafts <- KnockoutDrafts
    MaxGoals = 1
    MaxPeriods = 5
    MaxClock = 2
    MaxReceipts = 4
    MaxPreviews = 2
INVARIANTS SlotsFollowResults PeriodsAgree
PROPERTIES StartedMatchKeepsItsTeams FollowsLifecycle
CHECK_DEADLOCK FALSE
