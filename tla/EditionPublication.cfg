\* Two operators with a bundle and its revision.
SPECIFICATION Spec
CONSTANTS
    b1 = b1
    b2 = b2
    semi = semi
    final = final
    p = p
    q = q
    x = x
    y = y
    z = z
    Operators = {o1, o2}
    Bundles = {b1, b2}
    Matches = {semi, final}
    Players = {p, q}
    Teams = {x, y, z}
    NoTeam = NoTeam
    NoMatch = NoMatch
    NoSide = NoSide
    NoBundle = NoBundle
    Retrieved <- TwoRetrieved
    Fixture <- WholeFixture
    Listed <- Both
    Roster <- TwoRosters
    Names <- TwoNames
    Takes <- WinnerTakes
    Reports <- RevisionReports
    FixtureSize = 2
    SquadSize = 1
    MaxRuns = 4
SYMMETRY Symmetry
INVARIANTS ContentFollowsReceipts OneRootPerBundle
PROPERTY HiddenResultsStand
CHECK_DEADLOCK FALSE
