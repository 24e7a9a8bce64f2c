--------------------------- MODULE GlasgowRecovery ---------------------------
(***************************************************************************)
(* What one worker owes a Glasgow match once the provider is quiet.  The   *)
(* steps are those of GlasgowResults; the provider has a state of its own, *)
(* and from some moment on (calm) it no longer changes, no step fails and  *)
(* no operator interferes.  Polls repeat for ever.                         *)
(*                                                                         *)
(* Only the newest receipt is ever referred to again, so between two syncs *)
(* the older ones are forgotten (Forget), and with them the dry runs, that *)
(* an operator may record anew.  The worker's syncs follow each other:     *)
(* that their instants differ plays no part, and MaxClock is 1.            *)
(***************************************************************************)
EXTENDS GlasgowResults

VARIABLES
    provider,   \* what the provider says of each match now
    calm        \* nothing changes and nothing fails any more

recoveryVars == <<vars, provider, calm>>

RecoveryInit ==
    /\ Init
    /\ provider \in Reports
    /\ calm = FALSE

Forgettable == \A w \in Workers : job[w].pc = "idle" /\ Len(log) > 1

\* A receipt of which only its place is remembered.
Remembered == [results |-> <<>>, base |-> 0]

Forget ==
    /\ Forgettable
    /\ log' = <<Remembered>>
    /\ latest' = 1
    /\ previews' = {}
    /\ UNCHANGED <<clock, row, table, job, agreeing, provider, calm>>

\* The files of an operator leave room for the import that is under way.
Operator == RecordPreview \/ (Len(log) + 1 < MaxReceipts /\ ApplyManual)

Disturb ==
    /\ ~calm
    /\ \/ provider' \in Reports /\ UNCHANGED vars
       \/ (Operator \/ \E w \in Workers : SyncDisturbed(w)) /\ UNCHANGED provider
    /\ UNCHANGED calm

CalmDown ==
    /\ ~calm
    /\ calm' = TRUE
    /\ UNCHANGED <<vars, provider>>

Work(w) ==
    /\ ~Forgettable
    /\ \/ StartSync(w) \/ ReadMatches(w) \/ ReadReceipts(w)
       \/ Fetch(w, provider) \/ ApplyScheduled(w) \/ ApplyRefused(w)
    /\ UNCHANGED <<provider, calm>>

RecoveryNext == Disturb \/ CalmDown \/ Forget \/ \E w \in Workers : Work(w)

\* A worker keeps polling, and its requests and transactions end.
Fairness ==
    /\ WF_recoveryVars(Forget)
    /\ \A w \in Workers : WF_recoveryVars(Work(w))

RecoverySpec == RecoveryInit /\ [][RecoveryNext]_recoveryVars /\ Fairness

-----------------------------------------------------------------------------
(* Properties                                                              *)

Reported(m) == Canonical(row[m], provider[m])

ReportedFinal(m) == provider[m].status = "COMPLETED"

\* The feed may not end a match with less than the live score it once gave.
Overshot(m) ==
    /\ ReportedFinal(m)
    /\ row[m].status = "LIVE"
    /\ \E side \in Sides : row[m].score[side] > Reported(m).score[side]

\* Nor can it promote a result whose periods only an operator knew: the same
\* result without periods counts as a changed one (sameResultData).
OperatorsOwn(m) ==
    /\ row[m].quality = "UNOFFICIAL_FINAL"
    /\ row[m].periods # NoPeriods

Settled(m) ==
    /\ ReportedFinal(m)
    /\ row[m].status = "COMPLETED"
    /\ row[m].score = Reported(m).score
    /\ row[m].quality \in {"OFFICIAL_FINAL", "CORRECTED"}

\* When the provider rests at a final result, that result becomes official and
\* stays so, whatever was reported, corrected or lost before (the table of the
\* live-feed runbook, and the retry by the next poll), but for the two cases
\* above, which wait for an operator's correction.
FinalBecomesOfficial ==
    \A m \in Matches :
        <>[](calm /\ ReportedFinal(m) /\ ~Overshot(m) /\ ~OperatorsOwn(m))
            => <>[]Settled(m)

=============================================================================
