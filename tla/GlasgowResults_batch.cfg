\* An operator's file whose two results contradict each other.
SPECIFICATION Spec
CONSTANTS
    x = x
    y = y
    z = z
    NoTeam = NoTeam
    Workers = {w1}
    Teams = {x, y, z}
    Matches <- Knockout
    Drawn <- KnockoutDrawn
    Bracket <- KnockoutBracket
    Pool <- NoPool
    Sightings <- SemifinalReports
    Drafts <- ContradictoryDrafts
    MaxGoals = 1
    MaxPeriods = 5
    MaxClock = 2
    MaxReceipts = 4
    MaxPreviews = 2
INVARIANTS SlotsFollowResults
CHECK_DEADLOCK FALSE
