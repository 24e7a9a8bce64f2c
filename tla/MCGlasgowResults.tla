-------------------------- MODULE MCGlasgowResults --------------------------
(***************************************************************************)
(* GlasgowResults on small instances: one match as the feed sees it, and a *)
(* semifinal whose winner and loser go on to a final and a bronze match.   *)
(***************************************************************************)
EXTENDS GlasgowResults, TLC

CONSTANTS x, y, z

\* Workers are only compared; no property with fairness is checked here.
Symmetry == Permutations(Workers)

Score(a, b) == [A |-> a, B |-> b]
Pair(a, b) == [A |-> a, B |-> b]
Seen(status, a, b, score) ==
    [status |-> status, teams |-> Pair(a, b), score |-> score]

\* One match of two known teams, reported in either order.
OneMatch == {1}
OneDrawn == [m \in OneMatch |-> Pair(x, y)]
OneSightings == [m \in OneMatch |->
    {Seen(status, x, y, score) : status \in {"LIVE", "COMPLETED"},
         score \in {Score(0, 0), Score(1, 0), Score(0, 1)}}
    \cup {Seen("COMPLETED", y, x, Score(0, 1))}]

NoBracket == {}
NoDrafts == {}
NoPool == {}

\* A semifinal of x and y; the final of its winner and z.
Knockout == {1, 2}
KnockoutDrawn == (1 :> Pair(x, y)) @@ (2 :> Pair(NoTeam, z))
KnockoutBracket ==
    {[of |-> 1, takes |-> "MATCH_WINNER", match |-> 2, side |-> "A"]}
Final(m, a, b, quality, score, upto) ==
    [match |-> m, teams |-> Pair(a, b), status |-> "COMPLETED",
     quality |-> quality, score |-> score, updated |-> 0,
     periods |-> [upto |-> upto, sum |-> IF upto = 0 THEN Score(0, 0) ELSE score]]

Postponed(m, a, b) ==
    [match |-> m, teams |-> Pair(a, b), status |-> "OFF", quality |-> "UNKNOWN",
     score |-> Score(0, 0), updated |-> 0,
     periods |-> [upto |-> 0, sum |-> Score(0, 0)]]

\* Files for the knockout: a result with periods and one without, a correction
\* that turns the winner, the two matches of a day together.
KnockoutDrafts ==
    {<<Final(1, x, y, "UNOFFICIAL_FINAL", Score(1, 0), 4)>>,
     <<Final(1, x, y, "CORRECTED", Score(0, 1), 5)>>,
     <<Postponed(2, x, z)>>,
     <<Final(1, x, y, "OFFICIAL_FINAL", Score(1, 0), 0),
       Final(2, x, z, "UNOFFICIAL_FINAL", Score(0, 1), 0)>>}

\* A final result with its periods.
PeriodDrafts == {<<Final(1, x, y, "UNOFFICIAL_FINAL", Score(1, 0), 4)>>}

\* A file whose final is not played by the winner of its semifinal.
ContradictoryDrafts ==
    {<<Final(1, x, y, "UNOFFICIAL_FINAL", Score(1, 0), 0),
       Final(2, y, z, "UNOFFICIAL_FINAL", Score(0, 1), 0)>>}

SemifinalReports == [m \in Knockout |->
    IF m = 1 THEN {Seen("COMPLETED", x, y, Score(1, 0)), Seen("LIVE", x, y, Score(0, 0)),
                   Seen("COMPLETED", y, x, Score(1, 0))}
    ELSE {Seen("LIVE", z, x, Score(0, 0))}]
=============================================================================
