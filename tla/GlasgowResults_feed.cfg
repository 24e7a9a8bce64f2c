\* Two workers and one match; three instants, three imports.
SPECIFICATION Spec
CONSTANTS
    x = x
    y = y
    z = z
    NoTeam = NoTeam
    Workers = {w1, w2}
    Teams = {x, y}
    Matches <- OneMatch
    Drawn <- OneDrawn
    Bracket <- NoBracket
    Pool <- OneMatch
    Sightings <- OneSightings
    Drafts <- NoDrafts
    MaxGoals = 1
    MaxPeriods = 0
    MaxClock = 3
    MaxReceipts = 3
    MaxPreviews = 0
INVARIANTS ConfirmedTwice StandingsCountResults
PROPERTIES FreshestWins
SYMMETRY Symmetry
CHECK_DEADLOCK FALSE
