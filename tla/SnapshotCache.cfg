\* Two requests around a transaction, on a fixture of two matches, at most one
\* of them played.
SPECIFICATION Spec
CONSTANTS
    m1 = m1
    m2 = m2
    v1 = v1
    v2 = v2
    r1 = r1
    r2 = r2
    NoRow = NoRow
    Edition = Edition
    Matches = {m1, m2}
    Starts = {{}, {m1}}
    Values = {v1, v2}
    Gated = TRUE
    FixtureSize = 2
    MaxCommits = 1
    Requests = {r1, r2}
    Kinds = {"ranking", "power", "record"}
SYMMETRY Symmetry
INVARIANTS AnswersAreCurrent
PROPERTIES ViewsFollowEpoch
CHECK_DEADLOCK FALSE
