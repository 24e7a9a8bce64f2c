---------------------------- MODULE SimulationPlay ----------------------------
(***************************************************************************)
(* How a simulated match plays (src/lib/simulation/engine.ts, tickMatch)   *)
(* and what the worker is served of it (data-generator.ts).  An operator   *)
(* may jump to any state between two ticks (the goto request).             *)
(*                                                                         *)
(* The seconds of a period are counted in ticks.  Both sides' goals are    *)
(* one score; the score flow is known by the score after the last entry of *)
(* each period, which is what the period scores are built from.  Players   *)
(* and their statistics are left out.                                      *)
(***************************************************************************)
EXTENDS Naturals, FiniteSets, FiniteSetsExt

CONSTANTS
    PeriodTicks,    \* the ticks of a period (900 s over tickStep)
    StartOffset,    \* ticks before the match begins
    MaxTicks,       \* bound on the ticks that are counted
    MaxScore        \* bound on the score

PlayAssumption ==
    /\ PeriodTicks \in Nat \ {0}
    /\ StartOffset \in Nat /\ MaxTicks \in Nat /\ MaxScore \in Nat
    /\ StartOffset <= MaxTicks

VARIABLES
    play,     \* the simulated match
    breaks,   \* breakTickCounts of the match
    jumped    \* history: the operator has jumped

playVars == <<play, breaks, jumped>>

\* STATE_ORDER by index: 0 before the match, then each period and its break by
\* turns, the last period and the end.
StateIndexes == 0..8
PreMatch == 0
Complete == 8
Periods == 1..4

IsActive(i) == i \in {1, 3, 5, 7}
IsBreak(i) == i \in {2, 4, 6}

AdvanceState(i) == IF i = Complete THEN i ELSE i + 1

StateToPeriod(i) == IF i = Complete THEN 4 ELSE (i + 1) \div 2

\* A score flow without an entry in a period.
NoEntry == MaxScore + 1

Init ==
    /\ play = [state |-> PreMatch, period |-> 0, seconds |-> 0, ticks |-> 0,
               score |-> 0, flow |-> [p \in Periods |-> NoEntry]]
    /\ breaks = 0
    /\ jumped = FALSE

-----------------------------------------------------------------------------
(* A tick                                                                  *)

\* No more ticks are counted than decide whether the match has begun.
Counted == [play EXCEPT !.ticks = IF @ < MaxTicks THEN @ + 1 ELSE @]

TickPreMatch ==
    /\ play.state = PreMatch
    /\ play' = IF Counted.ticks >= StartOffset
               THEN [Counted EXCEPT !.state = 1, !.period = 1, !.seconds = 0]
               ELSE Counted
    /\ UNCHANGED <<breaks, jumped>>

TickComplete ==
    /\ play.state = Complete
    /\ play' = Counted
    /\ UNCHANGED <<breaks, jumped>>

\* A break is over at its second tick.
TickBreak ==
    /\ IsBreak(play.state)
    /\ IF breaks + 1 >= 2
       THEN /\ breaks' = 0
            /\ play' = LET next == AdvanceState(play.state)
                       IN [Counted EXCEPT !.state = next, !.period = StateToPeriod(next),
                                          !.seconds = 0]
       ELSE breaks' = breaks + 1 /\ play' = Counted
    /\ UNCHANGED jumped

\* A mutation: an entry goes to the period of the state that is entered.
EntryOfNext(score) ==
    [play.flow EXCEPT ![StateToPeriod(AdvanceState(AdvanceState(play.state)))] = score]

\* A goal is entered in the flow of the period of the match.
Entry(score) == [play.flow EXCEPT ![play.period] = score]

\* Up to two goals a side, a super shot counting twice: any score in one tick.
TickActive ==
    /\ IsActive(play.state)
    /\ \E score \in play.score..MaxScore :
         LET seconds == IF play.seconds < PeriodTicks THEN play.seconds + 1 ELSE PeriodTicks
             over == seconds = PeriodTicks
             next == AdvanceState(play.state)
         IN /\ play' = [Counted EXCEPT
                          !.seconds = seconds,
                          !.score = score,
                          !.flow = IF score = play.score THEN @ ELSE Entry(score),
                          !.state = IF over THEN next ELSE @]
            /\ breaks' = IF over /\ IsBreak(next) THEN 0 ELSE breaks
    /\ UNCHANGED jumped

\* Whatever the match was at; the ticks of a break are not forgotten.
Goto(i) ==
    /\ play' = [play EXCEPT !.state = i,
                            !.period = (i + 1) \div 2,
                            !.seconds = IF IsBreak(i) THEN PeriodTicks ELSE 0]
    /\ jumped' = TRUE
    /\ UNCHANGED breaks

Next ==
    \/ TickPreMatch \/ TickComplete \/ TickBreak \/ TickActive
    \/ \E i \in StateIndexes : Goto(i)

Spec == Init /\ [][Next]_playVars

-----------------------------------------------------------------------------
(* What is served                                                          *)

Status == CASE play.state = PreMatch -> "scheduled"
            [] play.state = Complete -> "complete"
            [] OTHER -> "playing"

\* A period without an entry ends at the score the one before it ended at.
PeriodScore[p \in 0..4] ==
    IF p = 0 THEN 0
    ELSE IF play.flow[p] = NoEntry THEN PeriodScore[p - 1] ELSE play.flow[p]

Served ==
    [status |-> Status, period |-> StateToPeriod(play.state),
     completed |-> Max({0, StateToPeriod(play.state) - 1}),
     score |-> play.score,
     periods |-> [p \in 1..StateToPeriod(play.state) |-> PeriodScore[p]]]

-----------------------------------------------------------------------------
(* Properties                                                              *)

\* The state is of the declared shape (SimMatch of types.ts).
TypeOK ==
    /\ play.state \in StateIndexes /\ play.period \in 0..4
    /\ play.seconds \in 0..PeriodTicks /\ play.ticks \in 0..MaxTicks
    /\ play.score \in 0..MaxScore
    /\ play.flow \in [Periods -> 0..NoEntry]
    /\ breaks \in 0..1

\* What the worker is served of a match agrees with itself: the period of the
\* match is the one of its state, also after a jump, and as long as nobody
\* jumped the period scores never fall and lead to the score
\* (buildMatchStatsResponse).
ServedMatchIsConsistent ==
    /\ play.period = Served.period
    /\ ~jumped =>
         /\ \A p, q \in DOMAIN Served.periods : p <= q => Served.periods[p] <= Served.periods[q]
         /\ Served.score = PeriodScore[Served.period]

=============================================================================
