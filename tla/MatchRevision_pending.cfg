\* One match listed as completed while another one rebuilds the standings.
SPECIFICATION Spec
CONSTANTS
    Workers = {w1, w2}
    Scores = {s1, s2}
    NoScore = NoScore
    MaxClock = 3
SYMMETRY Symmetry
INVARIANT OnlyDetailsCount
CHECK_DEADLOCK FALSE
