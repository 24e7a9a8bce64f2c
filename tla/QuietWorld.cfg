\* One worker each; six instants are enough for a poll that starts from rebased tokens.
SPECIFICATION QuietSpec
CONSTANTS
    Workers = {w1}
    Scores = {g1, g2}
    NoScore = NoScore
    MaxClock = 6
    x = x
    y = y
    NoTeam = NoTeam
    c1 = c1
    c2 = c2
    None = None
    p1 = p1
    s1 = s1
    Nowhere = Nowhere
PROPERTIES CompletionIsDurable LiveScoreIsFollowed FinalBecomesOfficial BadgeCatchesUp BroadcastsReachTheRoom
CHECK_DEADLOCK FALSE
