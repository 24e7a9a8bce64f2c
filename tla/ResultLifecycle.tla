--------------------------- MODULE ResultLifecycle ---------------------------
(***************************************************************************)
(* What may happen to the public result of a Glasgow match: the table of   *)
(* accepted state transitions of docs/runbooks/glasgow-2026-live-feed.md   *)
(* and the status and quality rules of docs/runbooks/                      *)
(* glasgow-2026-results.md, without the readers and writers that make it   *)
(* happen.  GlasgowResults implements it.                                  *)
(***************************************************************************)
EXTENDS Naturals

CONSTANTS Matches, Sides, Scores, NoScore

VARIABLE result     \* status, quality and score of each match

Status(m) == result[m].status
Become(m, status, quality, score) ==
    result'[m] = [status |-> status, quality |-> quality, score |-> score]

Init == result = [m \in Matches |->
    [status |-> "SCHEDULED", quality |-> "UNKNOWN", score |-> NoScore]]

\* A match in play: its score only grows, and nothing completed is reopened.
Live(m, score) ==
    /\ Status(m) # "COMPLETED"
    /\ Status(m) = "LIVE" => \A side \in Sides : score[side] >= result[m].score[side]
    /\ Become(m, "LIVE", "PROVISIONAL", score)

\* The first final result, not yet official unless an operator vouches for it.
Final(m, score) ==
    /\ Status(m) # "COMPLETED"
    /\ \E quality \in {"UNOFFICIAL_FINAL", "OFFICIAL_FINAL", "CORRECTED"} :
         Become(m, "COMPLETED", quality, score)

\* The same result again makes it official.
Promote(m) ==
    /\ result[m].quality = "UNOFFICIAL_FINAL"
    /\ Become(m, "COMPLETED", "OFFICIAL_FINAL", result[m].score)

Correct(m, score) ==
    /\ Status(m) = "COMPLETED"
    /\ Become(m, "COMPLETED", "CORRECTED", score)

\* Delayed, postponed, cancelled or abandoned before it began.
Disrupt(m) ==
    /\ Status(m) \in {"SCHEDULED", "OFF"}
    /\ Become(m, "OFF", "UNKNOWN", NoScore)

Step(m) ==
    \/ Promote(m) \/ Disrupt(m)
    \/ \E score \in Scores : Live(m, score) \/ Final(m, score) \/ Correct(m, score)

\* One import may carry the results of several matches.
Next ==
    /\ DOMAIN result' = Matches
    /\ \A m \in Matches : Step(m) \/ result'[m] = result[m]

Spec == Init /\ [][Next]_result
=============================================================================
