\* Two overlapping workers, two scores, three request instants.
SPECIFICATION Spec
CONSTANTS
    Workers = {w1, w2}
    Scores = {s1, s2}
    NoScore = NoScore
    MaxClock = 3
SYMMETRY Symmetry
INVARIANTS LadderMatchesResult OnlyCorrectionsReplaceOfficial
PROPERTIES RevisionsOrderScores ImplementsCanonicalResult
CHECK_DEADLOCK FALSE
