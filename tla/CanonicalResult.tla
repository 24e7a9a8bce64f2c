-------------------------- MODULE CanonicalResult --------------------------
(***************************************************************************)
(* What the Champion Data worker promises about the stored result of one   *)
(* match, whatever the number of workers, the order of their requests and  *)
(* the steps that fail: the lifecycle a reader of the match row may see.   *)
(*                                                                         *)
(*   - a result starts as SCHEDULED, LIVE or unofficially COMPLETED;       *)
(*   - until it is official, a live observation may replace it;            *)
(*   - it becomes OFFICIAL_FINAL at most once, and from then on changes    *)
(*     only by becoming CORRECTED, under a newer source revision;          *)
(*   - every replacement of the score carries a strictly newer revision.   *)
(*                                                                         *)
(* MatchRevision, the code's algorithm, implements this module.            *)
(***************************************************************************)
EXTENDS Naturals

CONSTANTS
    Scores,     \* the scores a provider may report
    NoScore     \* the score of a match that has no row yet

VARIABLES
    status,     \* Match.status, "ABSENT" before the row exists
    quality,    \* Match.resultQuality
    score,      \* Match.homeScore and awayScore
    rev         \* Match.sourceUpdatedAt, 0 for null

vars == <<status, quality, score, rev>>

OfficialQuality == {"OFFICIAL_FINAL", "CORRECTED"}

Official == quality \in OfficialQuality

Init ==
    /\ status = "ABSENT"
    /\ quality = "UNKNOWN"
    /\ score = NoScore
    /\ rev = 0

\* The first fixture that lists the match creates its row.
Appear ==
    /\ status = "ABSENT"
    /\ <<status', quality'>> \in {<<"SCHEDULED", "UNKNOWN">>,
                                  <<"LIVE", "PROVISIONAL">>,
                                  <<"COMPLETED", "UNOFFICIAL_FINAL">>}
    /\ score' \in Scores
    /\ UNCHANGED rev

\* A live observation replaces a result that is not official.
Observe ==
    /\ status # "ABSENT"
    /\ ~Official
    /\ status' = "LIVE"
    /\ quality' = "PROVISIONAL"
    /\ score' \in Scores
    /\ rev' \in Nat /\ rev' > rev

\* The match is marked as finished, unofficially until a matching detail.
Settle ==
    /\ status \in {"SCHEDULED", "LIVE"}
    /\ status' = "COMPLETED"
    /\ quality' = "UNOFFICIAL_FINAL"
    /\ UNCHANGED <<score, rev>>

\* A detail that agrees with the fixture makes the result official, once.
Finalize ==
    /\ status # "ABSENT"
    /\ ~Official
    /\ status' = "COMPLETED"
    /\ quality' = "OFFICIAL_FINAL"
    /\ score' \in Scores
    /\ rev' \in Nat /\ rev' > rev

\* An official result is replaced only as a correction of itself.
Correct ==
    /\ Official
    /\ quality' = "CORRECTED"
    /\ score' \in Scores
    /\ rev' \in Nat /\ rev' > rev
    /\ UNCHANGED status

Next == Appear \/ Observe \/ Settle \/ Finalize \/ Correct

Spec == Init /\ [][Next]_vars

=============================================================================
