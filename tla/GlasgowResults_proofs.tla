------------------------ MODULE GlasgowResults_proofs ------------------------
(***************************************************************************)
(* The results of the Glasgow matches and the bracket they fill, for any   *)
(* number of workers and matches, any bracket and any provider.            *)
(*                                                                         *)
(* Everything a sync knows may be out of date, so nothing is assumed of    *)
(* what it plans: the argument rests on what the transaction validates     *)
(* (Clean, Blocked) and on how it writes.                                  *)
(***************************************************************************)
EXTENDS GlasgowResults, WellFoundedInduction, SequenceTheorems, TLAPS

-----------------------------------------------------------------------------
(* Types                                                                   *)

\* A pair of values by side.
LEMMA PairIsFunction ==
  ASSUME NEW S, NEW a \in S, NEW b \in S
  PROVE  [A |-> a, B |-> b] \in [Sides -> S]
BY DEF Sides

\* The empty score and the idle sync have their types.
LEMMA Empties ==
  /\ Scoreless \in Scorelines
  /\ NoPeriods \in Periods
  /\ Fixtures \in [Matches -> Rows]
  /\ Idle \in Jobs
<1> USE ResultsAssumption
<1>1. Scoreless \in Scorelines
  BY DEF Scoreless, Scorelines
<1>2. NoPeriods \in Periods
  BY <1>1 DEF NoPeriods, Periods
<1>3. ASSUME NEW m \in Matches PROVE Scheduled(m) \in Rows
  <2>1. Drawn[m] \in [Sides -> Teams \cup {NoTeam}]
    OBVIOUS
  <2> QED
    BY <1>1, <1>2, <2>1 DEF Scheduled, Rows, Statuses, Qualities, Instants
<1>4. Fixtures \in [Matches -> Rows]
  BY <1>3 DEF Fixtures
<1>5. Idle \in Jobs
  BY <1>4 DEF Idle, Jobs, Instants
<1> QED
  BY <1>1, <1>2, <1>4, <1>5

\* The initial state.
LEMMA InitType == Init => TypeOK
<1> SUFFICES ASSUME Init PROVE TypeOK
  OBVIOUS
<1> USE ResultsAssumption
<1>1. 1 \in Instants /\ 0 \in Instants
  BY DEF Instants
<1>2. latest \in 0..Len(log)
  BY DEF Init
<1>3. log \in Seq(Inputs)
  BY DEF Init
<1>4. \A w \in Workers : job[w].pc = "applying" => job[w].todo # {}
  BY DEF Init, Idle
<1> QED
  BY Empties, <1>1, <1>2, <1>3, <1>4 DEF Init, TypeOK

\* A sync that goes on writes nothing.
LEMMA ContinueType ==
  ASSUME TypeOK, NEW w \in Workers, NEW next \in Jobs,
         next.pc = "applying" => next.todo # {},
         Continue(w, next), NothingWritten
  PROVE  TypeOK'
<1>1. job' = [job EXCEPT ![w] = next]
  BY DEF Continue
<1>2. job' \in [Workers -> Jobs]
  BY <1>1 DEF TypeOK
<1>3. \A v \in Workers : job'[v].pc = "applying" => job'[v].todo # {}
  BY <1>1 DEF TypeOK
<1> QED
  BY <1>2, <1>3 DEF TypeOK, Continue, NothingWritten

LEMMA ApplyingType ==
  ASSUME NEW j \in Jobs, NEW todo \in SUBSET Results, NEW base \in Nat
  PROVE  /\ Applying(j, todo, base) \in Jobs
         /\ Applying(j, todo, base).pc = "applying"
              => Applying(j, todo, base).todo # {}
<1>1. CASE todo = {}
  BY <1>1, Empties DEF Applying, Idle
<1>2. CASE todo # {}
  <2>1. Applying(j, todo, base) =
          [Idle EXCEPT !.pc = "applying", !.at = j.at, !.todo = todo, !.base = base]
    BY <1>2 DEF Applying
  <2> QED
    BY <1>2, <2>1, Empties DEF Jobs
<1> QED
  BY <1>1, <1>2

\* There is an earliest update.
LEMMA FirstIsIn ==
  ASSUME NEW todo \in SUBSET Results, todo # {}
  PROVE  First(todo) \in todo
<1> DEFINE T == {u.match : u \in todo}
<1>1. T \subseteq Nat /\ T # {}
  <2>1. T \subseteq Nat
    BY ResultsAssumption DEF Results
  <2>2. PICK u \in todo : TRUE
    OBVIOUS
  <2>3. u.match \in T
    OBVIOUS
  <2> QED
    BY <2>1, <2>3
<1> DEFINE R == OpToRel(<, Nat)
<1>2. IsWellFoundedOn(R, Nat)
  BY NatLessThanWellFounded, Zenon
<1>3. \A x, y \in Nat : y < x => <<y, x>> \in R
  BY Zenon DEF OpToRel
<1> HIDE DEF R, T
<1>4. PICK x \in T : \A y \in T : ~(<<y, x>> \in R)
  BY <1>1, <1>2, WFMin
<1>5. \A y \in T : x <= y
  <2> SUFFICES ASSUME NEW y \in T PROVE x <= y
    OBVIOUS
  <2>1. x \in Nat /\ y \in Nat
    BY <1>1
  <2>2. ~(y < x)
    BY <1>3, <1>4, <2>1
  <2> QED
    BY <2>1, <2>2
<1>6. PICK u \in todo : u.match = x
  BY DEF T
<1>7. \A v \in todo : u.match <= v.match
  BY <1>5, <1>6 DEF T
<1> QED
  BY <1>7 DEF First

LEMMA CanonicalType ==
  ASSUME NEW r \in Rows, NEW s \in Observations
  PROVE  Canonical(r, s) \in Observations
<1>1. s.teams["A"] \in Teams /\ s.teams["B"] \in Teams
  BY DEF Observations, Sides
<1>2. s.score["A"] \in 0..MaxGoals /\ s.score["B"] \in 0..MaxGoals
  BY DEF Observations, Scorelines, Sides
<1>3. [A |-> s.teams["B"], B |-> s.teams["A"]] \in [Sides -> Teams]
  BY <1>1, PairIsFunction
<1>4. [A |-> s.score["B"], B |-> s.score["A"]] \in Scorelines
  BY <1>2, PairIsFunction DEF Scorelines
<1>5. Reversed(s) \in Observations
  BY <1>3, <1>4 DEF Reversed, Observations
<1> QED
  BY <1>5 DEF Canonical

LEMMA PlanType ==
  ASSUME NEW j \in Jobs, NEW seen \in Reports
  PROVE  Plan(j, seen) \in SUBSET Results
<1> SUFFICES ASSUME NEW m \in Matches, seen[m] # NotSeen
             PROVE  PlannedUpdate(m, j.rows[m], Canonical(j.rows[m], seen[m]), j.at)
                      \in Results
  BY DEF Plan
<1>1. seen[m] \in Observations
  BY ResultsAssumption DEF Reports
<1>2. j.rows[m] \in Rows /\ j.at \in Instants
  BY DEF Jobs
<1>3. PICK s \in Observations : s = Canonical(j.rows[m], seen[m])
  BY <1>1, <1>2, CanonicalType
<1>4. PICK r \in Rows : r = j.rows[m]
  BY <1>2
<1>5. PlannedQuality(r, s) \in Qualities
  BY DEF PlannedQuality, Qualities, FinalQualities, Observations, Rows
<1>6. s.teams \in [Sides -> Teams] /\ s.score \in Scorelines /\ s.status \in Statuses
  BY DEF Observations, Statuses
<1>7. PlannedUpdate(m, r, s, j.at) \in Results
  BY <1>2, <1>5, <1>6, Empties DEF PlannedUpdate, Results
<1> QED
  BY <1>3, <1>4, <1>7

-----------------------------------------------------------------------------
(* What the transaction writes                                             *)

LEMMA TakenType ==
  ASSUME NEW f, NEW u \in Results
  PROVE  Taken(f, u) \in Teams
<1>1. u.teams["A"] \in Teams /\ u.teams["B"] \in Teams
  BY DEF Results, Sides
<1> QED
  BY <1>1 DEF Taken, TakenFrom

\* The row of the match itself.
LEMMA ResultWrittenIs ==
  ASSUME NEW r \in Rows, NEW before \in Rows, NEW u \in Results
  PROVE  /\ ResultWritten(r, before, u) \in Rows
         /\ ResultWritten(r, before, u).status = u.status
         /\ ResultWritten(r, before, u).quality = u.quality
         /\ ResultWritten(r, before, u).score = u.score
         /\ ResultWritten(r, before, u).team = u.teams
         /\ ResultWritten(r, before, u).updated = u.updated
         /\ ResultWritten(r, before, u).periods = PeriodsAfter(before, u)
         /\ ResultWritten(r, before, u).shown = PeriodCoverage(u)
<1> DEFINE slot == [side \in Sides |->
             IF before.slot[side] = u.teams[side] THEN r.slot[side] ELSE u.teams[side]]
           new == ResultWritten(r, before, u)
<1>1. slot \in [Sides -> Teams \cup {NoTeam}]
  BY DEF Rows, Results
<1>2. PeriodsAfter(before, u) \in Periods
  BY DEF PeriodsAfter, Rows, Results
<1>3. PeriodCoverage(u) \in {"UNAVAILABLE", "PROVISIONAL", "AVAILABLE"}
  BY DEF PeriodCoverage
<1>4. u.teams \in [Sides -> Teams \cup {NoTeam}]
  BY DEF Results
<1> HIDE DEF slot
<1>5. new = [r EXCEPT
        !.status = u.status, !.quality = u.quality, !.score = u.score,
        !.updated = u.updated, !.team = u.teams, !.slot = slot,
        !.periods = PeriodsAfter(before, u), !.shown = PeriodCoverage(u)]
  BY DEF ResultWritten, slot
<1> QED
  BY <1>1, <1>2, <1>3, <1>4, <1>5 DEF Rows, Results

\* The row of another match: only its slots, and its teams with them.
LEMMA SlotsFilledIs ==
  ASSUME NEW r \in Rows, NEW m \in Matches, NEW u \in Results
  PROVE  /\ SlotsFilled(r, m, u) \in Rows
         /\ SlotsFilled(r, m, u).status = r.status
         /\ SlotsFilled(r, m, u).quality = r.quality
         /\ SlotsFilled(r, m, u).score = r.score
         /\ SlotsFilled(r, m, u).updated = r.updated
         /\ SlotsFilled(r, m, u).periods = r.periods
         /\ SlotsFilled(r, m, u).shown = r.shown
<1> DEFINE Changes(side) == {f \in Dependents(u.match) :
             f.match = m /\ f.side = side /\ r.slot[side] # Taken(f, u)}
           After(teams) == [side \in Sides |->
             IF Changes(side) = {} THEN teams[side]
             ELSE Taken(CHOOSE f \in Changes(side) : TRUE, u)]
<1>1. \A teams \in [Sides -> Teams \cup {NoTeam}] :
         After(teams) \in [Sides -> Teams \cup {NoTeam}]
  <2> SUFFICES ASSUME NEW teams \in [Sides -> Teams \cup {NoTeam}], NEW side \in Sides
               PROVE  After(teams)[side] \in Teams \cup {NoTeam}
    OBVIOUS
  <2>1. Taken(CHOOSE f \in Changes(side) : TRUE, u) \in Teams
    BY TakenType
  <2> QED
    BY <2>1
<1>2. r.slot \in [Sides -> Teams \cup {NoTeam}] /\ r.team \in [Sides -> Teams \cup {NoTeam}]
  BY DEF Rows
<1>3. After(r.slot) \in [Sides -> Teams \cup {NoTeam}]
      /\ After(r.team) \in [Sides -> Teams \cup {NoTeam}]
  BY <1>1, <1>2
<1>4. SlotsFilled(r, m, u) = [r EXCEPT !.slot = After(r.slot), !.team = After(r.team)]
  BY DEF SlotsFilled
<1> HIDE DEF After
<1> QED
  BY <1>3, <1>4 DEF Rows

LEMMA WrittenType ==
  ASSUME NEW rows \in [Matches -> Rows], NEW before \in [Matches -> Rows],
         NEW u \in Results
  PROVE  Written(rows, before, u) \in [Matches -> Rows]
BY ResultWrittenIs, SlotsFilledIs DEF Written

LEMMA RowsAfterType ==
  ASSUME NEW rows \in [Matches -> Rows], NEW results \in Seq(Results),
         Len(results) \in {1, 2}
  PROVE  RowsAfter(rows, results) \in [Matches -> Rows]
<1>1. CASE Len(results) = 1
  <2>1. results[1] \in Results
    <3>1. 1 \in 1..Len(results)
      BY <1>1
    <3> QED
      BY <3>1, ElementOfSeq
  <2> QED
    BY <1>1, <2>1, WrittenType DEF RowsAfter
<1>2. CASE Len(results) = 2
  <2>1. results[1] \in Results /\ results[2] \in Results
    BY <1>2
  <2>2. Written(rows, rows, results[1]) \in [Matches -> Rows]
    BY <2>1, WrittenType
  <2> QED
    BY <1>2, <2>1, <2>2, WrittenType DEF RowsAfter
<1> QED
  BY <1>1, <1>2

LEMMA StandingsType ==
  ASSUME NEW rows \in [Matches -> Rows]
  PROVE  Standings(rows) \in SUBSET
           [match : Pool, teams : [Sides -> Teams \cup {NoTeam}], score : Scorelines]
BY ResultsAssumption DEF Standings, Rows

\* What an import changes keeps its type.
ImportedType ==
  /\ row' \in [Matches -> Rows]
  /\ table' \in SUBSET
       [match : Pool, teams : [Sides -> Teams \cup {NoTeam}], score : Scorelines]
  /\ log' \in Seq(Inputs)
  /\ latest' \in 0..Len(log')
  /\ agreeing' \in [Matches -> 0..2]

LEMMA ObservedType ==
  ASSUME TypeOK, NEW results, NEW byFeed, Observed(results, byFeed)
  PROVE  agreeing' \in [Matches -> 0..2]
<1>1. \A m \in Matches : agreeing[m] \in 0..2
  BY DEF TypeOK
<1>2. 0 \in 0..2 /\ 1 \in 0..2 /\ 2 \in 0..2
  OBVIOUS
<1>3. \A m \in Matches : \A u : Agreement(m, u, byFeed) \in 0..2
  BY <1>2, Zenon DEF Agreement
<1> QED
  BY <1>1, <1>3, Zenon DEF Observed

LEMMA ImportType ==
  ASSUME TypeOK, NEW input \in Inputs, Len(input.results) \in {1, 2},
         NEW byFeed, Import(input, byFeed)
  PROVE  ImportedType
<1>1. CASE Replay(input)
  <2>1. Replayed(input) # {} /\ latest' = CHOOSE i \in Replayed(input) : TRUE
    BY <1>1 DEF Replay
  <2>2. latest' \in Replayed(input)
    BY <2>1
  <2>3. latest' \in 0..Len(log)
    BY <2>2 DEF Replayed, TypeOK
  <2> QED
    BY <1>1, <2>3 DEF Replay, TypeOK, ImportedType
<1>2. CASE FirstImport(input, byFeed)
  <2>1. row' \in [Matches -> Rows]
    <3>1. row' = RowsAfter(row, input.results)
      BY <1>2 DEF FirstImport
    <3>2. row \in [Matches -> Rows] /\ input.results \in Seq(Results)
      BY DEF TypeOK, Inputs
    <3> QED
      BY <3>1, <3>2, RowsAfterType
  <2>2. table' = Standings(row')
    BY <1>2 DEF FirstImport, Rebuilt
  <2>3. table' \in SUBSET
          [match : Pool, teams : [Sides -> Teams \cup {NoTeam}], score : Scorelines]
    BY <2>1, <2>2, StandingsType
  <2>4. log' = Append(log, input) /\ latest' = Len(log) + 1
    BY <1>2 DEF FirstImport, Recorded
  <2>5. log \in Seq(Inputs) /\ Len(log) \in Nat
    BY DEF TypeOK
  <2>6. log' \in Seq(Inputs) /\ Len(log') = Len(log) + 1
    BY <2>4, <2>5
  <2>7. latest' \in 0..Len(log')
    BY <2>4, <2>5, <2>6
  <2>8. Observed(input.results, byFeed)
    BY <1>2 DEF FirstImport
  <2> QED
    BY <2>1, <2>3, <2>6, <2>7, <2>8, ObservedType DEF ImportedType
<1> QED
  BY <1>1, <1>2 DEF Import

\* What a worker sends.
LEMMA InputOfType ==
  ASSUME TypeOK, NEW w \in Workers, job[w].pc = "applying"
  PROVE  /\ InputOf(job[w]) \in Inputs
         /\ Len(InputOf(job[w]).results) = 1
<1>1. job[w] \in Jobs /\ job[w].todo # {}
  BY DEF TypeOK
<1>2. job[w].todo \in SUBSET Results /\ job[w].base \in Nat
  BY <1>1 DEF Jobs
<1>3. First(job[w].todo) \in Results
  BY <1>1, <1>2, FirstIsIn
<1>4. <<First(job[w].todo)>> \in Seq(Results) /\ Len(<<First(job[w].todo)>>) = 1
  BY <1>3
<1> QED
  BY <1>2, <1>4 DEF InputOf, Inputs

\* What an operator prepares.
LEMMA StampedType ==
  ASSUME TypeOK, NEW draft \in Drafts, NEW t \in 1..clock
  PROVE  /\ Stamped(draft, t) \in Seq(Results)
         /\ Len(Stamped(draft, t)) = Len(draft)
<1>1. draft \in Seq(Results) /\ Len(draft) \in Nat /\ DOMAIN draft = 1..Len(draft)
  BY ResultsAssumption
<1>2. t \in Instants
  BY ResultsAssumption DEF TypeOK, Instants
<1>3. \A i \in 1..Len(draft) : [draft[i] EXCEPT !.updated = t] \in Results
  <2> SUFFICES ASSUME NEW i \in 1..Len(draft)
               PROVE  [draft[i] EXCEPT !.updated = t] \in Results
    OBVIOUS
  <2>1. draft[i] \in Results
    BY <1>1, ElementOfSeq
  <2> QED
    BY <1>2, <2>1 DEF Results
<1>4. Stamped(draft, t) \in [1..Len(draft) -> Results]
  BY <1>1, <1>3 DEF Stamped
<1> QED
  BY <1>1, <1>4

\* Every step of a sync.
LEMMA SyncType ==
  ASSUME TypeOK, NEW w \in Workers, Sync(w) \/ SyncDisturbed(w)
  PROVE  TypeOK'
<1>1. job[w] \in Jobs
  BY DEF TypeOK
<1>2. row \in [Matches -> Rows] /\ latest \in Nat /\ clock \in Instants
  BY DEF TypeOK
<1>3. CASE StartSync(w)
  <2> DEFINE next == [Idle EXCEPT !.pc = "reading", !.at = clock]
  <2>1. next \in Jobs /\ next.pc # "applying"
    BY <1>2, Empties DEF Jobs, Idle
  <2>2. Continue(w, next) /\ NothingWritten
    BY <1>3 DEF StartSync
  <2> HIDE DEF next
  <2> QED
    BY <2>1, <2>2, ContinueType
<1>4. CASE ReadMatches(w)
  <2> DEFINE next == [job[w] EXCEPT !.read = @ \cup {"matches"}, !.rows = row]
  <2>1. next \in Jobs /\ next.pc # "applying"
    BY <1>1, <1>2, <1>4 DEF Jobs, ReadMatches
  <2>2. Continue(w, next) /\ NothingWritten
    BY <1>4 DEF ReadMatches
  <2> HIDE DEF next
  <2> QED
    BY <2>1, <2>2, ContinueType
<1>5. CASE ReadReceipts(w)
  <2> DEFINE next == [job[w] EXCEPT !.read = @ \cup {"receipts"}, !.base = latest]
  <2>1. next \in Jobs /\ next.pc # "applying"
    BY <1>1, <1>2, <1>5 DEF Jobs, ReadReceipts
  <2>2. Continue(w, next) /\ NothingWritten
    BY <1>5 DEF ReadReceipts
  <2> HIDE DEF next
  <2> QED
    BY <2>1, <2>2, ContinueType
<1>6. ASSUME NEW seen \in Reports, Fetch(w, seen) PROVE TypeOK'
  <2>1. Plan(job[w], seen) \in SUBSET Results
    BY <1>1, PlanType
  <2>2. PICK next : next = Applying(job[w], Plan(job[w], seen), job[w].base)
    OBVIOUS
  <2>3. job[w].base \in Nat
    BY <1>1 DEF Jobs
  <2>4. next \in Jobs /\ (next.pc = "applying" => next.todo # {})
    BY <1>1, <2>1, <2>2, <2>3, ApplyingType
  <2>5. Continue(w, next) /\ NothingWritten
    BY <1>6, <2>2 DEF Fetch
  <2> QED
    BY <2>4, <2>5, ContinueType
<1>7. CASE ApplyScheduled(w)
  <2>1. job[w].pc = "applying" /\ Import(InputOf(job[w]), TRUE)
    BY <1>7 DEF ApplyScheduled
  <2>2. ImportedType
    BY <2>1, InputOfType, ImportType
  <2>3. Rest(job[w]) \in SUBSET Results
    BY <1>1 DEF Rest, Jobs
  <2>4. latest' \in Nat
    BY <2>2 DEF ImportedType
  <2>5. PICK next : next = Applying(job[w], Rest(job[w]), latest')
    OBVIOUS
  <2>6. next \in Jobs /\ (next.pc = "applying" => next.todo # {})
    BY <1>1, <2>3, <2>4, <2>5, ApplyingType
  <2>7. job' = [job EXCEPT ![w] = next] /\ clock' = clock /\ previews' = previews
    BY <1>7, <2>5 DEF ApplyScheduled, Continue
  <2>8. job' \in [Workers -> Jobs]
        /\ \A v \in Workers : job'[v].pc = "applying" => job'[v].todo # {}
    BY <2>6, <2>7 DEF TypeOK
  <2> QED
    BY <2>2, <2>7, <2>8 DEF TypeOK, ImportedType
<1>8. CASE Skip(w)
  <2>1. Rest(job[w]) \in SUBSET Results /\ job[w].base \in Nat
    BY <1>1 DEF Rest, Jobs
  <2>2. PICK next : next = Applying(job[w], Rest(job[w]), job[w].base)
    OBVIOUS
  <2>3. next \in Jobs /\ (next.pc = "applying" => next.todo # {})
    BY <1>1, <2>1, <2>2, ApplyingType
  <2>4. Continue(w, next) /\ NothingWritten
    BY <1>8, <2>2 DEF Skip
  <2> QED
    BY <2>3, <2>4, ContinueType
<1>9. CASE Abandon(w)
  <2>1. Idle \in Jobs /\ Idle.pc # "applying"
    BY Empties DEF Idle
  <2>2. Continue(w, Idle) /\ NothingWritten
    BY <1>9 DEF Abandon
  <2> QED
    BY <2>1, <2>2, ContinueType
<1> QED
  BY <1>3, <1>4, <1>5, <1>6, <1>7, <1>8, <1>9
     DEF Sync, SyncDisturbed, ApplyRefused, ApplyFailed

\* Every step of the manual workflow.
LEMMA RecordPreviewType ==
  ASSUME TypeOK, RecordPreview
  PROVE  TypeOK'
<1>1. PICK draft \in Drafts, t \in 1..clock, base \in {0, latest} :
        previews' = previews \cup
          {[input |-> [results |-> Stamped(draft, t), base |-> base], on |-> latest]}
  BY DEF RecordPreview
<1> DEFINE input == [results |-> Stamped(draft, t), base |-> base]
           new == [input |-> input, on |-> latest]
<1>2. latest \in Nat
  BY DEF TypeOK
<1>3. input \in Inputs
  BY <1>2, StampedType DEF Inputs
<1>4. Len(input.results) \in {1, 2}
  BY StampedType, ResultsAssumption
<1>5. \A p \in previews' :
        p.input \in Inputs /\ Len(p.input.results) \in {1, 2} /\ p.on \in Nat
  <2>1. new.input = input /\ new.on = latest
    OBVIOUS
  <2>2. previews' = previews \cup {new}
    BY <1>1
  <2> HIDE DEF new, input
  <2> QED
    BY <1>2, <1>3, <1>4, <2>1, <2>2 DEF TypeOK
<1> QED
  BY <1>5 DEF TypeOK, RecordPreview, NothingWritten

LEMMA ApplyManualType ==
  ASSUME TypeOK, ApplyManual
  PROVE  TypeOK'
<1>1. PICK p \in previews : Import(p.input, FALSE)
  BY DEF ApplyManual
<1>2. p.input \in Inputs /\ Len(p.input.results) \in {1, 2}
  BY DEF TypeOK
<1>3. ImportedType
  BY <1>1, <1>2, ImportType
<1> QED
  BY <1>3 DEF TypeOK, ApplyManual, ImportedType

LEMMA StepType == TypeOK /\ [Next]_vars => TypeOK'
<1> SUFFICES ASSUME TypeOK, [Next]_vars PROVE TypeOK'
  OBVIOUS
<1>1. CASE Tick
  <2>1. clock' \in Instants
    BY <1>1, ResultsAssumption DEF Tick, TypeOK, Instants
  <2> QED
    BY <1>1, <2>1 DEF Tick, TypeOK
<1>2. CASE RecordPreview
  BY <1>2, RecordPreviewType
<1>3. CASE ApplyManual
  BY <1>3, ApplyManualType
<1>4. ASSUME NEW w \in Workers, Sync(w) \/ SyncDisturbed(w) PROVE TypeOK'
  BY <1>4, SyncType
<1>5. CASE UNCHANGED vars
  BY <1>5 DEF vars, TypeOK
<1> QED
  BY <1>1, <1>2, <1>3, <1>4, <1>5 DEF Next

\* TypeOK for any number of workers, matches and receipts: in particular a
\* reference to a receipt is one to a receipt that exists.
THEOREM TypeCorrect == Spec => []TypeOK
BY InitType, StepType, PTL DEF Spec

-----------------------------------------------------------------------------
(* The bracket follows the results                                         *)
(*                                                                         *)
(* SlotsFollowResults is not inductive.  What a slot waits for is computed *)
(* from the teams of a completed match, so these must be known and must    *)
(* not change; and they are compared through the slots, so slots and teams *)
(* must agree.  A completed match must have a final quality, or its result *)
(* would have decided nothing.  That is BracketInv.                        *)

\* The files of the operators have one result; with two the bracket need not
\* follow the results (GlasgowResults_batch.cfg).
SingleResults == \A d \in Drafts : Len(d) = 1

SinglePreviews == \A p \in previews : Len(p.input.results) = 1

\* What is said of every row.
Settled(r) ==
  /\ r.slot = r.team
  /\ Started(r) => r.team \in [Sides -> Teams]
  /\ r.status = "COMPLETED" => r.quality \in FinalQualities

BracketInv ==
  /\ TypeOK
  /\ SinglePreviews
  /\ \A m \in Matches : Settled(row[m])
  /\ SlotsFollowResults

\* One side of a match that may depend on u.
LEMMA SlotsFilledSide ==
  ASSUME NEW r \in Rows, NEW m \in Matches, NEW u \in Results, NEW side \in Sides
  PROVE  LET new == SlotsFilled(r, m, u) IN
         \/ /\ new.slot[side] = r.slot[side] /\ new.team[side] = r.team[side]
            /\ \A f \in Dependents(u.match) :
                 f.match = m /\ f.side = side => r.slot[side] = Taken(f, u)
         \/ \E f \in Dependents(u.match) :
              /\ f.match = m /\ f.side = side /\ r.slot[side] # Taken(f, u)
              /\ new.slot[side] = Taken(f, u) /\ new.team[side] = Taken(f, u)
<1> DEFINE Changes(s) == {f \in Dependents(u.match) :
             f.match = m /\ f.side = s /\ r.slot[s] # Taken(f, u)}
           After(teams) == [s \in Sides |->
             IF Changes(s) = {} THEN teams[s]
             ELSE Taken(CHOOSE f \in Changes(s) : TRUE, u)]
           new == SlotsFilled(r, m, u)
<1>1. new = [r EXCEPT !.slot = After(r.slot), !.team = After(r.team)]
  BY DEF SlotsFilled
<1>2. new.slot = After(r.slot) /\ new.team = After(r.team)
  <2> HIDE DEF After
  <2> QED
    BY <1>1 DEF Rows
<1>3. CASE Changes(side) = {}
  <2>1. After(r.slot)[side] = r.slot[side] /\ After(r.team)[side] = r.team[side]
    BY <1>3
  <2>2. \A f \in Dependents(u.match) :
          f.match = m /\ f.side = side => r.slot[side] = Taken(f, u)
    BY <1>3
  <2> QED
    BY <1>2, <2>1, <2>2
<1>4. CASE Changes(side) # {}
  <2>1. PICK f : f = CHOOSE g \in Changes(side) : TRUE
    OBVIOUS
  <2>2. f \in Changes(side)
    BY <1>4, <2>1
  <2>3. After(r.slot)[side] = Taken(f, u) /\ After(r.team)[side] = Taken(f, u)
    BY <1>4, <2>1
  <2>4. new.slot[side] = Taken(f, u) /\ new.team[side] = Taken(f, u)
    BY <1>2, <2>3
  <2>5. /\ f \in Dependents(u.match)
        /\ f.match = m /\ f.side = side /\ r.slot[side] # Taken(f, u)
    BY <2>2
  <2> HIDE DEF new
  <2>6. \E g \in Dependents(u.match) :
          /\ g.match = m /\ g.side = side /\ r.slot[side] # Taken(g, u)
          /\ new.slot[side] = Taken(g, u) /\ new.team[side] = Taken(g, u)
    BY <2>4, <2>5
  <2> QED
    BY <2>6 DEF new
<1> QED
  BY <1>3, <1>4

\* The slots of the result's own match: they name its teams.
LEMMA OwnSlots ==
  ASSUME NEW r \in Rows, NEW u \in Results
  PROVE  ResultWritten(r, r, u).slot = u.teams
<1> DEFINE slot == [side \in Sides |->
             IF r.slot[side] = u.teams[side] THEN r.slot[side] ELSE u.teams[side]]
<1>1. u.teams \in [Sides -> Teams]
  BY DEF Results
<1>2. slot = u.teams
  BY <1>1
<1> HIDE DEF slot
<1>3. ResultWritten(r, r, u) = [r EXCEPT
        !.status = u.status, !.quality = u.quality, !.score = u.score,
        !.updated = u.updated, !.team = u.teams, !.slot = slot,
        !.periods = PeriodsAfter(r, u), !.shown = PeriodCoverage(u)]
  BY DEF ResultWritten, slot
<1> QED
  BY <1>2, <1>3 DEF Rows

\* A validated result leaves every row settled, and the teams of every started
\* match as they are.
LEMMA WrittenSettled ==
  ASSUME NEW rows \in [Matches -> Rows], NEW u \in Results,
         \A m \in Matches : Settled(rows[m]),
         WellFormed(u), ParticipantsMatch(rows[u.match], u), ~Blocked(rows, u),
         NEW m \in Matches
  PROVE  LET new == Written(rows, rows, u)[m] IN
         /\ Settled(new)
         /\ Started(rows[m]) => new.team = rows[m].team /\ new.slot = rows[m].slot
<1> DEFINE r == rows[m]
           new == Written(rows, rows, u)[m]
<1>1. r \in Rows /\ Settled(r)
  OBVIOUS
<1>2. r.slot \in [Sides -> Teams \cup {NoTeam}] /\ r.team \in [Sides -> Teams \cup {NoTeam}]
  BY <1>1 DEF Rows
<1>3. CASE m = u.match
  <2>1. new = ResultWritten(r, r, u)
    BY <1>3 DEF Written
  <2>2. u.teams \in [Sides -> Teams]
    BY DEF Results
  <2>3. new.slot = u.teams /\ new.team = u.teams /\ new.status = u.status
        /\ new.quality = u.quality
    BY <1>1, <2>1, OwnSlots, ResultWrittenIs
  <2>4. u.status = "COMPLETED" => u.quality \in FinalQualities
    BY DEF WellFormed, Results
  <2>5. Settled(new)
    <3> HIDE DEF new
    <3> QED
      BY <2>2, <2>3, <2>4 DEF Settled
  <2>6. ASSUME Started(r) PROVE u.teams = r.team
    <3>1. r.team \in [Sides -> Teams]
      BY <1>1, <2>6 DEF Settled
    <3>2. \A side \in Sides : r.team[side] \in {NoTeam, u.teams[side]}
      BY <1>3 DEF ParticipantsMatch
    <3>3. \A side \in Sides : r.team[side] = u.teams[side]
      BY <3>1, <3>2, ResultsAssumption
    <3> QED
      BY <2>2, <3>1, <3>3
  <2>7. r.slot = r.team
    BY <1>1 DEF Settled
  <2> HIDE DEF new, r
  <2> QED
    BY <2>3, <2>5, <2>6, <2>7 DEF r, new
<1>4. CASE m # u.match /\ Decides(u) /\ ~Tied(u)
  <2>1. new = SlotsFilled(r, m, u)
    BY <1>4 DEF Written
  <2>2. new \in Rows /\ new.status = r.status /\ new.quality = r.quality
    BY <1>1, <2>1, SlotsFilledIs
  <2>3. new.slot \in [Sides -> Teams \cup {NoTeam}] /\ new.team \in [Sides -> Teams \cup {NoTeam}]
    BY <2>2 DEF Rows
  <2>4. r.slot = r.team
    BY <1>1 DEF Settled
  <2>5. \A side \in Sides : new.slot[side] = new.team[side]
    <3> SUFFICES ASSUME NEW side \in Sides PROVE new.slot[side] = new.team[side]
      OBVIOUS
    <3> HIDE DEF new, r
    <3> QED
      BY <1>1, <2>1, <2>4, SlotsFilledSide DEF new
  <2>6. new.slot = new.team
    <3> HIDE DEF new
    <3> QED
      BY <2>3, <2>5
  <2>7. ASSUME Started(r)
        PROVE  new.team = r.team /\ new.slot = r.slot
    <3>1. ~TouchesStarted(rows, u)
      BY <1>4 DEF Blocked
    <3>2. \A f \in Dependents(u.match) : f.match = m => r.slot[f.side] = Taken(f, u)
      BY <2>7, <3>1 DEF TouchesStarted
    <3>3. \A side \in Sides : new.slot[side] = r.slot[side] /\ new.team[side] = r.team[side]
      <4> SUFFICES ASSUME NEW side \in Sides
                   PROVE  new.slot[side] = r.slot[side] /\ new.team[side] = r.team[side]
        OBVIOUS
      <4> HIDE DEF new, r
      <4> QED
        BY <1>1, <2>1, <3>2, SlotsFilledSide DEF new
    <3> HIDE DEF new, r
    <3> QED
      BY <1>2, <2>3, <3>3
  <2>8. Settled(new)
    <3> HIDE DEF new, r
    <3> QED
      BY <1>1, <2>2, <2>6, <2>7 DEF Settled, Started
  <2> QED
    BY <2>7, <2>8
<1>5. CASE m # u.match /\ ~(Decides(u) /\ ~Tied(u))
  <2>1. new = r
    BY <1>5 DEF Written
  <2> QED
    BY <1>1, <2>1
<1> QED
  BY <1>3, <1>4, <1>5

\* A validated result that is not blocked leaves the bracket in agreement.
LEMMA WrittenFollows ==
  ASSUME TypeOK, NEW u \in Results,
         \A m \in Matches : Settled(row[m]),
         SlotsFollowResults,
         WellFormed(u), ParticipantsMatch(row[u.match], u), ~Blocked(row, u),
         row' = Written(row, row, u)
  PROVE  SlotsFollowResults'
<1> SUFFICES ASSUME NEW f \in Bracket, row'[f.of].status = "COMPLETED"
             PROVE  LET team == TakenFrom(f, row'[f.of].score, row'[f.of].team)
                    IN  /\ row'[f.of].score["A"] # row'[f.of].score["B"]
                        /\ row'[f.match].slot[f.side] = team
                        /\ row'[f.match].team[f.side] = team
  BY DEF SlotsFollowResults
<1>1. f \in Slots /\ f.of # f.match
  BY ResultsAssumption
<1>2. f.of \in Matches /\ f.match \in Matches /\ f.side \in Sides
  BY <1>1 DEF Slots
<1>3. row[f.of] \in Rows /\ row[f.match] \in Rows /\ u.match \in Matches
  BY <1>2 DEF TypeOK, Results
<1>4. row \in [Matches -> Rows]
  BY DEF TypeOK
<1>5. Settled(row[f.of]) /\ Settled(row[f.match])
  BY <1>2
<1>6. row[f.match].slot = row[f.match].team
  BY <1>5 DEF Settled
<1>7. CASE f.of = u.match
  <2>1. row'[f.of] = ResultWritten(row[f.of], row[f.of], u)
    BY <1>2, <1>7 DEF Written
  <2>2. row'[f.of].status = u.status /\ row'[f.of].score = u.score /\ row'[f.of].team = u.teams
    <3>1. PICK r \in Rows : r = row[f.of]
      BY <1>3
    <3>2. row'[f.of] = ResultWritten(r, r, u)
      BY <2>1, <3>1
    <3> QED
      BY <3>2, ResultWrittenIs
  <2>3. Decides(u)
    BY <2>2 DEF WellFormed, Decides
  <2>4. f \in Dependents(u.match)
    BY <1>7 DEF Dependents
  <2>5. ~Tied(u)
    BY <2>3, <2>4 DEF Blocked
  <2>6. f.match # u.match
    BY <1>1, <1>7
  <2>7. row'[f.match] = SlotsFilled(row[f.match], f.match, u)
    BY <1>2, <2>3, <2>5, <2>6 DEF Written
  <2>8. \A g \in Dependents(u.match) : g.match = f.match /\ g.side = f.side => g = f
    BY ResultsAssumption DEF Dependents
  <2>9. /\ row'[f.match].slot[f.side] = Taken(f, u)
        /\ row'[f.match].team[f.side] = Taken(f, u)
    BY <1>2, <1>3, <1>6, <2>4, <2>7, <2>8, SlotsFilledSide
  <2>10. u.score["A"] # u.score["B"]
    BY <2>5 DEF Tied
  <2> QED
    BY <2>2, <2>9, <2>10 DEF Taken
<1>8. CASE f.of # u.match
  <2>1. row'[f.of].status = row[f.of].status /\ row'[f.of].score = row[f.of].score
    BY <1>2, <1>3, <1>8, SlotsFilledIs DEF Written
  <2>2. Started(row[f.of]) /\ row[f.of].status = "COMPLETED"
    BY <2>1 DEF Started
  <2>3. row'[f.of].team = row[f.of].team
    BY <1>2, <1>4, <2>2, WrittenSettled
  <2>4. row[f.of].team \in [Sides -> Teams]
    BY <1>5, <2>2 DEF Settled
  <2>5. PICK team : team = TakenFrom(f, row[f.of].score, row[f.of].team)
    OBVIOUS
  <2>6. team \in Teams
    BY <2>4, <2>5 DEF TakenFrom, Sides
  <2>7. /\ row[f.of].score["A"] # row[f.of].score["B"]
        /\ row[f.match].slot[f.side] = team
        /\ row[f.match].team[f.side] = team
    BY <2>2, <2>5 DEF SlotsFollowResults
  <2>8. row'[f.match].slot[f.side] = team /\ row'[f.match].team[f.side] = team
    <3>1. CASE f.match = u.match
      <4>1. row'[f.match] = ResultWritten(row[f.match], row[f.match], u)
        BY <1>2, <3>1 DEF Written
      <4>2. row'[f.match].slot = u.teams /\ row'[f.match].team = u.teams
        <5>1. PICK r \in Rows : r = row[f.match]
          BY <1>3
        <5>2. row'[f.match] = ResultWritten(r, r, u)
          BY <4>1, <5>1
        <5> QED
          BY <5>2, OwnSlots, ResultWrittenIs
      <4>3. team = u.teams[f.side]
        BY <1>2, <2>6, <2>7, <3>1, ResultsAssumption DEF ParticipantsMatch
      <4> QED
        BY <4>2, <4>3
    <3>2. CASE f.match # u.match /\ Decides(u) /\ ~Tied(u)
      <4>1. row'[f.match] = SlotsFilled(row[f.match], f.match, u)
        BY <1>2, <3>2 DEF Written
      <4>2. \A g \in Dependents(u.match) : ~(g.match = f.match /\ g.side = f.side)
        BY <1>8, ResultsAssumption DEF Dependents
      <4>3. /\ row'[f.match].slot[f.side] = row[f.match].slot[f.side]
            /\ row'[f.match].team[f.side] = row[f.match].team[f.side]
        BY <1>2, <1>3, <4>1, <4>2, SlotsFilledSide
      <4> QED
        BY <2>7, <4>3
    <3>3. CASE f.match # u.match /\ ~(Decides(u) /\ ~Tied(u))
      <4>1. row'[f.match] = row[f.match]
        BY <1>2, <3>3 DEF Written
      <4> QED
        BY <2>7, <4>1
    <3> QED
      BY <3>1, <3>2, <3>3
  <2>9. TakenFrom(f, row'[f.of].score, row'[f.of].team) = team
    BY <2>1, <2>3, <2>5
  <2> QED
    BY <2>1, <2>7, <2>8, <2>9
<1> QED
  BY <1>7, <1>8

\* What an import of one result does to the rows.
LEMMA ImportWrites ==
  ASSUME TypeOK, NEW input \in Inputs, Len(input.results) = 1,
         NEW byFeed, Import(input, byFeed)
  PROVE  \/ row' = row
         \/ \E u \in Results :
              /\ WellFormed(u) /\ ParticipantsMatch(row[u.match], u)
              /\ ~Blocked(row, u) /\ row' = Written(row, row, u)
<1>1. CASE Replay(input)
  BY <1>1 DEF Replay
<1>2. CASE FirstImport(input, byFeed)
  <2>1. input.results \in Seq(Results) /\ 1 \in 1..Len(input.results)
    BY DEF Inputs
  <2>2. PICK u \in Results : u = input.results[1]
    BY <2>1, ElementOfSeq
  <2>3. 1 \in DOMAIN input.results
    BY <2>1
  <2>4. WellFormed(u) /\ Clean(row[u.match], u)
    BY <2>2, <2>3 DEF Import, Valid
  <2>5. ~Blocked(row, u)
    BY <1>2, <2>2 DEF FirstImport, Applicable
  <2>6. row' = Written(row, row, u)
    BY <1>2, <2>2 DEF FirstImport, RowsAfter
  <2> QED
    BY <2>4, <2>5, <2>6 DEF Clean
<1> QED
  BY <1>1, <1>2 DEF Import

\* The rows change in imports only, and each import has one result.
LEMMA RowsChange ==
  ASSUME BracketInv, [Next]_vars
  PROVE  \/ row' = row
         \/ \E u \in Results :
              /\ WellFormed(u) /\ ParticipantsMatch(row[u.match], u)
              /\ ~Blocked(row, u) /\ row' = Written(row, row, u)
<1> USE DEF BracketInv
<1>1. CASE ApplyManual
  <2>1. PICK p \in previews : Import(p.input, FALSE)
    BY <1>1 DEF ApplyManual
  <2>2. p.input \in Inputs /\ Len(p.input.results) = 1
    BY DEF TypeOK, SinglePreviews
  <2> QED
    BY <2>1, <2>2, ImportWrites
<1>2. ASSUME NEW w \in Workers, ApplyScheduled(w)
      PROVE  \/ row' = row
             \/ \E u \in Results :
                  /\ WellFormed(u) /\ ParticipantsMatch(row[u.match], u)
                  /\ ~Blocked(row, u) /\ row' = Written(row, row, u)
  <2>1. job[w].pc = "applying" /\ Import(InputOf(job[w]), TRUE)
    BY <1>2 DEF ApplyScheduled
  <2> QED
    BY <2>1, InputOfType, ImportWrites
<1>3. CASE Tick \/ RecordPreview
  BY <1>3 DEF Tick, RecordPreview, NothingWritten
<1>4. ASSUME NEW w \in Workers, Sync(w) \/ SyncDisturbed(w), ~ApplyScheduled(w)
      PROVE  row' = row
  BY <1>4 DEF Sync, SyncDisturbed, StartSync, ReadMatches, ReadReceipts, Fetch,
              ApplyRefused, ApplyFailed, Skip, Abandon, NothingWritten
<1>5. CASE UNCHANGED vars
  BY <1>5 DEF vars
<1> QED
  BY <1>1, <1>2, <1>3, <1>4, <1>5 DEF Next

\* Dry runs are recorded of single results.
LEMMA PreviewsSingle ==
  ASSUME SingleResults, BracketInv, [Next]_vars
  PROVE  SinglePreviews'
<1> USE DEF BracketInv, SinglePreviews
<1>1. CASE RecordPreview
  <2>1. PICK draft \in Drafts, t \in 1..clock, base \in {0, latest} :
          previews' = previews \cup
            {[input |-> [results |-> Stamped(draft, t), base |-> base], on |-> latest]}
    BY <1>1 DEF RecordPreview
  <2>2. Len(Stamped(draft, t)) = 1
    BY StampedType DEF SingleResults
  <2> QED
    BY <2>1, <2>2
<1>2. CASE previews' = previews
  BY <1>2
<1>3. Next => RecordPreview \/ previews' = previews
  BY DEF Next, Tick, ApplyManual, Sync, SyncDisturbed, StartSync, ReadMatches,
         ReadReceipts, Fetch, ApplyScheduled, ApplyRefused, ApplyFailed, Skip,
         Abandon, Continue
<1> QED
  BY <1>1, <1>2, <1>3 DEF vars

LEMMA BracketInit == Init => BracketInv
<1> SUFFICES ASSUME Init PROVE BracketInv
  OBVIOUS
<1>1. SinglePreviews
  BY DEF Init, SinglePreviews
<1>2. \A m \in Matches : Settled(row[m])
  BY DEF Init, Fixtures, Scheduled, Settled, Started
<1>3. \A m \in Matches : row[m].status # "COMPLETED"
  BY DEF Init, Fixtures, Scheduled
<1>4. SlotsFollowResults
  BY <1>3, ResultsAssumption DEF SlotsFollowResults, Slots
<1> QED
  BY <1>1, <1>2, <1>4, InitType DEF BracketInv

LEMMA BracketStep ==
  ASSUME SingleResults, BracketInv, [Next]_vars
  PROVE  BracketInv'
<1>1. TypeOK' /\ SinglePreviews'
  BY StepType, PreviewsSingle DEF BracketInv
<1>2. CASE row' = row
  BY <1>1, <1>2 DEF BracketInv, SlotsFollowResults
<1>3. ASSUME NEW u \in Results, WellFormed(u), ParticipantsMatch(row[u.match], u),
             ~Blocked(row, u), row' = Written(row, row, u)
      PROVE  BracketInv'
  <2>1. row \in [Matches -> Rows] /\ \A m \in Matches : Settled(row[m])
    BY DEF BracketInv, TypeOK
  <2>2. \A m \in Matches : Settled(row'[m])
    BY <1>3, <2>1, WrittenSettled
  <2>3. SlotsFollowResults'
    BY <1>3, <2>1, WrittenFollows DEF BracketInv
  <2> QED
    BY <1>1, <2>2, <2>3 DEF BracketInv
<1> QED
  BY <1>2, <1>3, RowsChange

\* The bracket agrees with the results, for any bracket, any number of
\* overlapping workers and whatever they have read, as long as the files of
\* the operators carry one result each.
THEOREM SlotsFollow ==
  ASSUME SingleResults
  PROVE  Spec => []SlotsFollowResults
<1>1. BracketInv /\ [Next]_vars => BracketInv'
  BY BracketStep
<1>2. BracketInv => SlotsFollowResults
  BY DEF BracketInv
<1> QED
  BY <1>1, <1>2, BracketInit, PTL DEF Spec

\* A match that has started keeps its teams and its slots.
LEMMA StartedStep ==
  ASSUME BracketInv, [Next]_vars
  PROVE  \A m \in Matches : Started(row[m]) =>
           row'[m].team = row[m].team /\ row'[m].slot = row[m].slot
<1>1. CASE row' = row
  BY <1>1
<1>2. ASSUME NEW u \in Results, WellFormed(u), ParticipantsMatch(row[u.match], u),
             ~Blocked(row, u), row' = Written(row, row, u)
      PROVE  \A m \in Matches : Started(row[m]) =>
               row'[m].team = row[m].team /\ row'[m].slot = row[m].slot
  <2>1. row \in [Matches -> Rows] /\ \A m \in Matches : Settled(row[m])
    BY DEF BracketInv, TypeOK
  <2> QED
    BY <1>2, <2>1, WrittenSettled
<1> QED
  BY <1>1, <1>2, RowsChange

\* No correction upstream changes who plays, or played, a match
\* ("Cannot change a knockout slot after dependent match has started").
THEOREM StartedKeep ==
  ASSUME SingleResults
  PROVE  Spec => StartedMatchKeepsItsTeams
<1>1. BracketInv /\ [Next]_vars => BracketInv'
  BY BracketStep
<1>2. BracketInv /\ [Next]_vars =>
        [\A m \in Matches : Started(row[m]) =>
           row'[m].team = row[m].team /\ row'[m].slot = row[m].slot]_vars
  BY StartedStep
<1> QED
  BY <1>1, <1>2, BracketInit, PTL DEF Spec, StartedMatchKeepsItsTeams

\* Under BracketInv the standings that are computed are those that are promised.
LEMMA StandingsAre ==
  ASSUME NEW rows \in [Matches -> Rows], \A m \in Matches : Settled(rows[m])
  PROVE  Standings(rows) =
           {[match |-> m, teams |-> rows[m].team, score |-> rows[m].score] :
              m \in {p \in Pool : rows[p].status = "COMPLETED"}}
<1>1. \A p \in Pool : rows[p].slot = rows[p].team
  BY ResultsAssumption DEF Settled
<1>2. \A p \in Pool : rows[p].status = "COMPLETED" => rows[p].quality \in FinalQualities
  BY ResultsAssumption DEF Settled
<1>3. {p \in Pool : rows[p].status = "COMPLETED" /\ rows[p].quality \in FinalQualities}
        = {p \in Pool : rows[p].status = "COMPLETED"}
  BY <1>2
<1> QED
  BY <1>1, <1>3, Zenon DEF Standings

\* An import computes the standings from what it wrote; nothing else changes
\* a result or the standings.
LEMMA StandingsStep ==
  ASSUME [Next]_vars
  PROVE  table' = Standings(row') \/ (table' = table /\ row' = row)
<1>1. ASSUME NEW input, NEW byFeed, Import(input, byFeed)
      PROVE  table' = Standings(row') \/ (table' = table /\ row' = row)
  BY <1>1 DEF Import, Replay, FirstImport, Rebuilt
<1>2. Next =>
        \/ table' = table /\ row' = row
        \/ ApplyManual \/ \E w \in Workers : ApplyScheduled(w)
  BY DEF Next, Tick, RecordPreview, Sync, SyncDisturbed, StartSync, ReadMatches,
         ReadReceipts, Fetch, ApplyRefused, ApplyFailed, Skip, Abandon, NothingWritten
<1>3. ApplyManual \/ (\E w \in Workers : ApplyScheduled(w))
        => \E input, byFeed : Import(input, byFeed)
  BY DEF ApplyManual, ApplyScheduled
<1> QED
  BY <1>1, <1>2, <1>3 DEF vars

\* The standings count every completed pool match, with its teams and score.
THEOREM StandingsCount ==
  ASSUME SingleResults
  PROVE  Spec => []StandingsCountResults
<1>1. Init => StandingsCountResults
  <2> SUFFICES ASSUME Init PROVE StandingsCountResults
    OBVIOUS
  <2>1. \A p \in Pool : row[p].status # "COMPLETED"
    BY ResultsAssumption DEF Init, Fixtures, Scheduled
  <2>2. {p \in Pool : row[p].status = "COMPLETED"} = {}
    BY <2>1
  <2> QED
    BY <2>2 DEF Init, StandingsCountResults
<1>2. BracketInv /\ [Next]_vars => BracketInv'
  BY BracketStep
<1>3. BracketInv /\ BracketInv' /\ StandingsCountResults /\ [Next]_vars
        => StandingsCountResults'
  <2> SUFFICES ASSUME BracketInv, BracketInv', StandingsCountResults, [Next]_vars
               PROVE  StandingsCountResults'
    OBVIOUS
  <2>1. row' \in [Matches -> Rows] /\ \A m \in Matches : Settled(row'[m])
    BY DEF BracketInv, TypeOK
  <2>2. CASE table' = Standings(row')
    BY <2>1, <2>2, StandingsAre DEF StandingsCountResults
  <2>3. CASE table' = table /\ row' = row
    BY <2>3 DEF StandingsCountResults
  <2> QED
    BY <2>2, <2>3, StandingsStep
<1> QED
  BY <1>1, <1>2, <1>3, BracketInit, PTL DEF Spec

-----------------------------------------------------------------------------
(* Results follow the lifecycle                                            *)
(*                                                                         *)
(* Here files may have two results: their matches differ, and each result  *)
(* was validated against the row it replaces.  The invariant ties quality  *)
(* to status, which ResultLifecycle reads from either.                     *)

QualityFits(r) ==
  CASE r.status = "COMPLETED" -> r.quality \in FinalQualities
    [] r.status = "LIVE" -> r.quality = "PROVISIONAL"
    [] OTHER -> r.quality = "UNKNOWN"

LifecycleInv == TypeOK /\ \A m \in Matches : QualityFits(row[m])

\* What the lifecycle sees of a row is the result of an input, or unchanged.
Takes(new, u) == new.status = u.status /\ new.quality = u.quality /\ new.score = u.score

\* A row that another match's result leaves alone, but for its slots.
Keeps(new, r) ==
  Takes(new, r) /\ new.updated = r.updated /\ new.periods = r.periods /\ new.shown = r.shown

\* A row that has the result u, its periods those of `before` unless u has some.
Stores(new, before, u) ==
  /\ Takes(new, u) /\ new.updated = u.updated
  /\ new.periods = PeriodsAfter(before, u) /\ new.shown = PeriodCoverage(u)

Accepted(m, u) ==
  u.match = m /\ WellFormed(u) /\ Clean(row[m], u) /\ Stores(row'[m], row[m], u)

LEMMA WrittenStores ==
  ASSUME NEW rows \in [Matches -> Rows], NEW before \in [Matches -> Rows],
         NEW u \in Results, NEW m \in Matches
  PROVE  /\ m = u.match => Stores(Written(rows, before, u)[m], before[m], u)
         /\ m # u.match => Keeps(Written(rows, before, u)[m], rows[m])
<1>1. PICK r \in Rows, old \in Rows : r = rows[m] /\ old = before[m]
  OBVIOUS
<1>2. CASE m = u.match
  <2>1. Written(rows, before, u)[m] = ResultWritten(r, old, u)
    BY <1>1, <1>2 DEF Written
  <2>2. Stores(ResultWritten(r, old, u), old, u)
    BY ResultWrittenIs DEF Stores, Takes
  <2> QED
    BY <1>1, <1>2, <2>1, <2>2
<1>3. CASE m # u.match
  <2>1. Written(rows, before, u)[m] \in {SlotsFilled(r, m, u), r}
    BY <1>1, <1>3 DEF Written
  <2>2. Keeps(SlotsFilled(r, m, u), r) /\ Keeps(r, r)
    BY SlotsFilledIs DEF Keeps, Takes
  <2> QED
    BY <1>1, <1>3, <2>1, <2>2
<1> QED
  BY <1>2, <1>3

\* An import leaves a match alone, or stores what one of its results says of it.
Outcome(input, byFeed, m) ==
  \/ Keeps(row'[m], row[m]) /\ agreeing'[m] = agreeing[m]
  \/ \E i \in DOMAIN input.results :
       /\ Accepted(m, input.results[i])
       /\ agreeing'[m] = Agreement(m, input.results[i], byFeed)

\* Which of the results of an import the history is about.
LEMMA ObservedIs ==
  ASSUME NEW results, NEW byFeed, NEW m \in Matches, Observed(results, byFeed),
         \A i, j \in DOMAIN results : results[i].match = results[j].match => i = j
  PROVE  /\ (\A i \in DOMAIN results : results[i].match # m) => agreeing'[m] = agreeing[m]
         /\ \A i \in DOMAIN results :
              results[i].match = m => agreeing'[m] = Agreement(m, results[i], byFeed)
<1> DEFINE us == {i \in DOMAIN results : results[i].match = m}
<1>1. agreeing'[m] = IF us = {} THEN agreeing[m]
                     ELSE Agreement(m, results[CHOOSE i \in us : TRUE], byFeed)
  BY DEF Observed
<1>2. CASE us = {}
  BY <1>1, <1>2
<1>3. CASE us # {}
  <2>1. PICK k : k = CHOOSE i \in us : TRUE
    OBVIOUS
  <2>2. k \in us
    BY <1>3, <2>1
  <2>3. agreeing'[m] = Agreement(m, results[k], byFeed)
    BY <1>1, <1>3, <2>1
  <2>4. \A i \in DOMAIN results : results[i].match = m => i = k
    BY <2>2
  <2> HIDE DEF us
  <2>5. k \in DOMAIN results /\ results[k].match = m
    BY <2>2 DEF us
  <2> QED
    BY <2>3, <2>4, <2>5
<1> QED
  BY <1>2, <1>3

LEMMA ImportAccepts ==
  ASSUME TypeOK, NEW input \in Inputs, Len(input.results) \in {1, 2},
         NEW byFeed, Import(input, byFeed), NEW m \in Matches
  PROVE  Outcome(input, byFeed, m)
<1>1. CASE Replay(input)
  BY <1>1 DEF Replay, Keeps, Takes, Outcome
<1>2. CASE FirstImport(input, byFeed)
  <2> DEFINE results == input.results
  <2>1. results \in Seq(Results) /\ DOMAIN results = 1..Len(results)
    BY DEF Inputs
  <2>2. row \in [Matches -> Rows]
    BY DEF TypeOK
  <2>3. row' = RowsAfter(row, results) /\ Observed(results, byFeed)
    BY <1>2 DEF FirstImport
  <2>4. /\ \A i, j \in DOMAIN results : results[i].match = results[j].match => i = j
        /\ \A i \in DOMAIN results :
             WellFormed(results[i]) /\ Clean(row[results[i].match], results[i])
    BY DEF Import, Valid
  <2>5. \A i \in DOMAIN results : results[i] \in Results
    BY <2>1, ElementOfSeq
  <2>6. /\ \A i \in DOMAIN results :
             results[i].match = m => Stores(row'[m], row[m], results[i])
        /\ (\A i \in DOMAIN results : results[i].match # m) => Keeps(row'[m], row[m])
    <3> HIDE DEF results
    <3>1. CASE Len(results) = 1
      <4>1. DOMAIN results = {1} /\ results[1] \in Results
        BY <2>1, <2>5, <3>1
      <4>2. row' = Written(row, row, results[1])
        BY <2>3, <3>1 DEF RowsAfter
      <4> QED
        BY <2>2, <4>1, <4>2, WrittenStores
    <3>2. CASE Len(results) = 2
      <4>1. DOMAIN results = {1, 2} /\ results[1] \in Results /\ results[2] \in Results
        BY <2>1, <2>5, <3>2
      <4>2. PICK u \in Results, v \in Results : u = results[1] /\ v = results[2]
        BY <4>1
      <4>3. u.match # v.match
        BY <2>4, <4>1, <4>2
      <4>4. PICK first \in [Matches -> Rows] : first = Written(row, row, u)
        BY <2>2, WrittenType
      <4>5. row' = Written(first, row, v)
        BY <2>3, <3>2, <4>2, <4>4 DEF RowsAfter
      <4>6. m = v.match => Stores(row'[m], row[m], v)
        BY <2>2, <4>5, WrittenStores
      <4>7. m # v.match => Keeps(row'[m], first[m])
        BY <2>2, <4>5, WrittenStores
      <4>8. m = u.match => Stores(first[m], row[m], u)
        BY <2>2, <4>4, WrittenStores
      <4>9. m # u.match => Keeps(first[m], row[m])
        BY <2>2, <4>4, WrittenStores
      <4>10. m = u.match => Stores(row'[m], row[m], u)
        BY <4>3, <4>7, <4>8 DEF Keeps, Stores, Takes
      <4>11. m # u.match /\ m # v.match => Keeps(row'[m], row[m])
        BY <4>7, <4>9 DEF Keeps, Takes
      <4> QED
        BY <4>1, <4>2, <4>6, <4>10, <4>11
    <3> QED
      BY <3>1, <3>2 DEF results
  <2>7. CASE \A i \in DOMAIN results : results[i].match # m
    BY <2>3, <2>4, <2>6, <2>7, ObservedIs DEF Outcome
  <2>8. ASSUME NEW i \in DOMAIN results, results[i].match = m
        PROVE  Accepted(m, results[i]) /\ agreeing'[m] = Agreement(m, results[i], byFeed)
    <3>1. agreeing'[m] = Agreement(m, results[i], byFeed)
      BY <2>3, <2>4, <2>8, ObservedIs
    <3>2. Accepted(m, results[i])
      BY <2>4, <2>6, <2>8 DEF Accepted
    <3> QED
      BY <3>1, <3>2
  <2> QED
    BY <2>7, <2>8 DEF Outcome
<1> QED
  BY <1>1, <1>2 DEF Import

\* A step that writes is an import, of an operator or of a worker.
LEMMA StepImports ==
  ASSUME TypeOK, [Next]_vars
  PROVE  \/ row' = row /\ agreeing' = agreeing
         \/ \E input \in Inputs :
              /\ Len(input.results) \in {1, 2} /\ Import(input, FALSE)
              /\ job' = job
         \/ \E w \in Workers :
              /\ ApplyScheduled(w)
              /\ InputOf(job[w]) \in Inputs /\ Len(InputOf(job[w]).results) = 1
<1>1. CASE ApplyManual
  <2>1. PICK p \in previews : Import(p.input, FALSE)
    BY <1>1 DEF ApplyManual
  <2>2. p.input \in Inputs /\ Len(p.input.results) \in {1, 2}
    BY DEF TypeOK
  <2> QED
    BY <1>1, <2>1, <2>2 DEF ApplyManual
<1>2. ASSUME NEW w \in Workers, ApplyScheduled(w)
      PROVE  InputOf(job[w]) \in Inputs /\ Len(InputOf(job[w]).results) = 1
  <2>1. job[w].pc = "applying"
    BY <1>2 DEF ApplyScheduled
  <2> QED
    BY <2>1, InputOfType
<1>3. Next => \/ row' = row /\ agreeing' = agreeing
              \/ ApplyManual \/ \E w \in Workers : ApplyScheduled(w)
  BY DEF Next, Tick, RecordPreview, Sync, SyncDisturbed, StartSync, ReadMatches,
         ReadReceipts, Fetch, ApplyRefused, ApplyFailed, Skip, Abandon, NothingWritten
<1> QED
  BY <1>1, <1>2, <1>3 DEF vars

\* Whatever a step does, a match is left alone or takes an accepted result.
LEMMA StepAccepts ==
  ASSUME TypeOK, [Next]_vars, NEW m \in Matches
  PROVE  Keeps(row'[m], row[m]) \/ \E u \in Results : Accepted(m, u)
<1>1. ASSUME NEW input \in Inputs, NEW byFeed, Outcome(input, byFeed, m)
      PROVE  Keeps(row'[m], row[m]) \/ \E u \in Results : Accepted(m, u)
  <2>1. \A i \in DOMAIN input.results : input.results[i] \in Results
    BY ElementOfSeq DEF Inputs
  <2> QED
    BY <1>1, <2>1 DEF Outcome
<1>2. CASE \E input \in Inputs : Len(input.results) \in {1, 2} /\ Import(input, FALSE)
  <2>1. PICK input \in Inputs : Len(input.results) \in {1, 2} /\ Import(input, FALSE)
    BY <1>2
  <2>2. Outcome(input, FALSE, m)
    BY <2>1, ImportAccepts
  <2> QED
    BY <1>1, <2>2
<1>3. ASSUME NEW w \in Workers, ApplyScheduled(w), InputOf(job[w]) \in Inputs,
             Len(InputOf(job[w]).results) = 1
      PROVE  Keeps(row'[m], row[m]) \/ \E u \in Results : Accepted(m, u)
  <2>1. Import(InputOf(job[w]), TRUE)
    BY <1>3 DEF ApplyScheduled
  <2>2. Outcome(InputOf(job[w]), TRUE, m)
    BY <1>3, <2>1, ImportAccepts
  <2>3. PICK results \in Seq(Results) : results = InputOf(job[w]).results
    BY <1>3 DEF Inputs
  <2>4. \A i \in DOMAIN results : results[i] \in Results
    BY ElementOfSeq
  <2> QED
    BY <2>2, <2>3, <2>4 DEF Outcome
<1>4. CASE row' = row /\ agreeing' = agreeing
  BY <1>4 DEF Keeps, Takes
<1>5. \/ row' = row /\ agreeing' = agreeing
      \/ \E input \in Inputs : Len(input.results) \in {1, 2} /\ Import(input, FALSE)
      \/ \E w \in Workers :
           /\ ApplyScheduled(w)
           /\ InputOf(job[w]) \in Inputs /\ Len(InputOf(job[w]).results) = 1
  BY StepImports
<1> QED
  BY <1>2, <1>3, <1>4, <1>5

LEMMA AcceptedFits ==
  ASSUME NEW m \in Matches, NEW u \in Results, Accepted(m, u)
  PROVE  QualityFits(row'[m])
<1>1. u.status \in {"LIVE", "COMPLETED", "OFF"}
  BY DEF Accepted, WellFormed, Results, Statuses
<1> QED
  BY <1>1 DEF Accepted, WellFormed, Stores, Takes, QualityFits

LEMMA LifecycleStep == LifecycleInv /\ [Next]_vars => LifecycleInv'
<1> SUFFICES ASSUME LifecycleInv, [Next]_vars PROVE LifecycleInv'
  OBVIOUS
<1>1. TypeOK /\ TypeOK'
  BY StepType DEF LifecycleInv
<1>2. ASSUME NEW m \in Matches PROVE QualityFits(row'[m])
  <2>1. CASE Keeps(row'[m], row[m])
    BY <2>1 DEF LifecycleInv, Keeps, Takes, QualityFits
  <2>2. CASE \E u \in Results : Accepted(m, u)
    BY <2>2, AcceptedFits
  <2> QED
    BY <1>1, <2>1, <2>2, StepAccepts
<1> QED
  BY <1>1, <1>2 DEF LifecycleInv

\* What ResultLifecycle calls the result of a match.
Public(r) == [status |-> r.status, quality |-> r.quality, score |-> r.score]

LEMMA AcceptedStep ==
  ASSUME LifecycleInv, NEW m \in Matches, NEW u \in Results, Accepted(m, u)
  PROVE  Public(row'[m]) = Public(row[m]) \/ Lifecycle!Step(m)
<1>1. QualityFits(row[m]) /\ row[m] \in Rows
  BY DEF LifecycleInv, TypeOK
<1>2. Takes(row'[m], u) /\ WellFormed(u) /\ Clean(row[m], u)
  BY DEF Accepted, Stores
<1>3. Public(row'[m]) = [status |-> u.status, quality |-> u.quality, score |-> u.score]
  BY <1>2 DEF Takes, Public
<1>4. u.score \in Scorelines
  BY DEF Results
<1>5. CASE u.status = "LIVE"
  <2>1. u.quality = "PROVISIONAL"
    BY <1>2, <1>5 DEF WellFormed
  <2>2. row[m].status # "COMPLETED"
    BY <1>1, <1>2, <1>5, <2>1
       DEF Clean, ValidQualityTransition, SameResult, SameResultData, QualityFits, FinalQualities
  <2>3. row[m].status = "LIVE" => \A side \in Sides : u.score[side] >= row[m].score[side]
    BY <1>2, <1>5 DEF Clean, KeepsLiveScore
  <2>4. Lifecycle!Live(m, u.score)
    BY <1>2, <1>5, <2>1, <2>2, <2>3
       DEF Lifecycle!Live, PublicResults, Lifecycle!Status, Lifecycle!Become, Takes
  <2> QED
    BY <1>4, <2>4 DEF Lifecycle!Step
<1>6. CASE u.status = "COMPLETED"
  <2>1. u.quality \in FinalQualities
    BY <1>2, <1>6 DEF WellFormed
  <2>2. CASE row[m].status # "COMPLETED"
    <3>1. Lifecycle!Final(m, u.score)
      BY <1>2, <1>6, <2>1, <2>2
         DEF Lifecycle!Final, PublicResults, Lifecycle!Status, Lifecycle!Become, Takes, FinalQualities
    <3> QED
      BY <1>4, <3>1 DEF Lifecycle!Step
  <2>3. CASE row[m].status = "COMPLETED" /\ u.quality = "CORRECTED"
    <3>1. Lifecycle!Correct(m, u.score)
      BY <1>2, <1>6, <2>3
         DEF Lifecycle!Correct, PublicResults, Lifecycle!Status, Lifecycle!Become, Takes
    <3> QED
      BY <1>4, <3>1 DEF Lifecycle!Step
  <2>4. CASE row[m].status = "COMPLETED" /\ u.quality # "CORRECTED"
    <3>1. row[m].quality \in FinalQualities
      BY <1>1, <2>4 DEF QualityFits
    <3>2. SameResultData(row[m], u)
      BY <1>2, <2>4 DEF Clean, CorrectsCompleted
    <3>3. CASE row[m].quality = u.quality
      BY <1>3, <1>6, <2>4, <3>2, <3>3 DEF SameResultData, Public
    <3>4. CASE row[m].quality # u.quality
      <4>1. row[m].quality = "UNOFFICIAL_FINAL" /\ u.quality = "OFFICIAL_FINAL"
        BY <1>2, <2>4, <3>1, <3>4
           DEF Clean, ValidQualityTransition, SameResult, FinalQualities
      <4>2. Lifecycle!Promote(m)
        BY <1>2, <1>6, <3>2, <4>1
           DEF Lifecycle!Promote, PublicResults, Lifecycle!Become, Takes, SameResultData
      <4> QED
        BY <4>2 DEF Lifecycle!Step
    <3> QED
      BY <3>3, <3>4
  <2> QED
    BY <2>2, <2>3, <2>4
<1>7. CASE u.status = "OFF"
  <2>1. u.quality = "UNKNOWN" /\ u.score = Scoreless
    BY <1>2, <1>7 DEF WellFormed
  <2>2. CASE SameResult(row[m], u)
    BY <1>3, <2>2 DEF SameResult, SameResultData, Public
  <2>3. CASE ~SameResult(row[m], u)
    <3>1. row[m].quality = "UNKNOWN"
      BY <1>2, <2>1, <2>3 DEF Clean, ValidQualityTransition
    <3>2. row[m].status \in {"SCHEDULED", "OFF"}
      BY <1>1, <3>1 DEF QualityFits, Rows, Statuses, FinalQualities
    <3>3. Lifecycle!Disrupt(m)
      BY <1>2, <1>7, <2>1, <3>2
         DEF Lifecycle!Disrupt, PublicResults, Lifecycle!Status, Lifecycle!Become, Takes
    <3> QED
      BY <3>3 DEF Lifecycle!Step
  <2> QED
    BY <2>2, <2>3
<1> QED
  BY <1>2, <1>5, <1>6, <1>7 DEF WellFormed, Results, Statuses

\* Results only ever change as ResultLifecycle allows, whatever the workers
\* have read and whatever the provider and the operators say.
THEOREM ResultsFollowLifecycle == Spec => FollowsLifecycle
<1>1. Init => Lifecycle!Init
  BY DEF Init, Lifecycle!Init, PublicResults, Fixtures, Scheduled
<1>2. Init => LifecycleInv
  BY InitType DEF Init, LifecycleInv, QualityFits, Fixtures, Scheduled
<1>3. LifecycleInv /\ [Next]_vars => [Lifecycle!Next]_PublicResults
  <2> SUFFICES ASSUME LifecycleInv, [Next]_vars PROVE Lifecycle!Next
    OBVIOUS
  <2>1. ASSUME NEW m \in Matches
        PROVE  Lifecycle!Step(m) \/ Public(row'[m]) = Public(row[m])
    <3>1. CASE Keeps(row'[m], row[m])
      BY <3>1 DEF Keeps, Takes, Public
    <3>2. CASE \E u \in Results : Accepted(m, u)
      BY <3>2, AcceptedStep
    <3> QED
      BY <3>1, <3>2, StepAccepts DEF LifecycleInv
  <2> QED
    BY <2>1 DEF Lifecycle!Next, PublicResults, Public
<1> QED
  BY <1>1, <1>2, <1>3, LifecycleStep, PTL DEF Spec, FollowsLifecycle, Lifecycle!Spec

-----------------------------------------------------------------------------
(* Periods and source times                                                *)

LEMMA PeriodsStep ==
  ASSUME TypeOK, [Next]_vars, PeriodsAgree
  PROVE  PeriodsAgree'
<1> SUFFICES ASSUME NEW m \in Matches, row'[m].shown = "AVAILABLE"
             PROVE  /\ row'[m].status = "COMPLETED"
                    /\ row'[m].periods.sum = row'[m].score
  BY DEF PeriodsAgree
<1>1. CASE Keeps(row'[m], row[m])
  BY <1>1 DEF PeriodsAgree, Keeps, Takes
<1>2. ASSUME NEW u \in Results, Accepted(m, u)
      PROVE  /\ row'[m].status = "COMPLETED"
             /\ row'[m].periods.sum = row'[m].score
  <2>1. Stores(row'[m], row[m], u) /\ WellFormed(u)
    BY <1>2 DEF Accepted
  <2>2. PeriodCoverage(u) = "AVAILABLE"
    BY <2>1 DEF Stores
  <2>3. u.periods.upto # 0 /\ u.status # "LIVE"
    BY <2>2 DEF PeriodCoverage
  <2>4. u.periods # NoPeriods
    BY <2>3 DEF NoPeriods
  <2>5. u.status = "COMPLETED"
    BY <2>1, <2>3, <2>4 DEF WellFormed
  <2>6. u.periods.upto > 0
    BY <2>3, ResultsAssumption DEF Results, Periods
  <2>7. u.periods.sum = u.score
    BY <2>1, <2>5, <2>6 DEF WellFormed
  <2>8. row'[m].periods = u.periods /\ row'[m].score = u.score /\ row'[m].status = u.status
    BY <2>1, <2>3 DEF Stores, Takes, PeriodsAfter
  <2> QED
    BY <2>5, <2>7, <2>8
<1> QED
  BY <1>1, <1>2, StepAccepts

\* Periods that are shown as the breakdown of a result add up to it, whichever
\* results replace each other, with periods and without.
THEOREM PeriodsAddUp == Spec => []PeriodsAgree
<1>1. Init => PeriodsAgree
  BY DEF Init, Fixtures, Scheduled, PeriodsAgree
<1>2. TypeOK /\ [Next]_vars /\ PeriodsAgree => PeriodsAgree'
  BY PeriodsStep
<1> QED
  BY <1>1, <1>2, TypeCorrect, PTL DEF Spec

\* A validated result that is older than the row is a repetition of it.
LEMMA FreshStep ==
  ASSUME TypeOK, [Next]_vars, NEW m \in Matches, PublicResults'[m] # PublicResults[m]
  PROVE  row'[m].updated >= row[m].updated
<1>1. ~Takes(row'[m], row[m])
  BY DEF PublicResults, Takes
<1>2. PICK u \in Results : Accepted(m, u)
  BY <1>1, StepAccepts DEF Keeps
<1>3. NotStale(row[m], u) /\ Stores(row'[m], row[m], u)
  BY <1>2 DEF Accepted, Clean
<1>4. ~SameResult(row[m], u)
  BY <1>1, <1>3 DEF SameResult, SameResultData, Stores, Takes
<1> QED
  BY <1>3, <1>4 DEF NotStale, Stores

\* No poll and no operator's file puts older information in the place of newer,
\* whatever the sync had read when it was planned.
THEOREM FreshestWin == Spec => FreshestWins
<1>1. TypeOK /\ [Next]_vars =>
        [\A m \in Matches :
           PublicResults'[m] # PublicResults[m] => row'[m].updated >= row[m].updated]_vars
  BY FreshStep
<1> QED
  BY <1>1, TypeCorrect, PTL DEF Spec, FreshestWins

-----------------------------------------------------------------------------
(* Two observations before a result is official                            *)
(*                                                                         *)
(* A poll plans an official result for a match whose row it read as        *)
(* completed; the row may have been corrected since, but it is still       *)
(* completed, and then only a repetition of what is stored is accepted.    *)
(* So the history, which counts what was stored, has one observation of    *)
(* every completed row and two of an official one.                         *)

ObservedOnce == \A m \in Matches : row[m].status = "COMPLETED" => agreeing[m] >= 1

\* What a sync has read as completed is completed still.
ReadCompleted ==
  \A w \in Workers, m \in Matches :
    job[w].rows[m].status = "COMPLETED" => row[m].status = "COMPLETED"

\* A sync makes official what is completed.
PlannedOfficial ==
  \A w \in Workers : \A u \in job[w].todo :
    u.quality = "OFFICIAL_FINAL" => row[u.match].status = "COMPLETED"

ConfirmInv ==
  LifecycleInv /\ ObservedOnce /\ ConfirmedTwice /\ ReadCompleted /\ PlannedOfficial

LEMMA ConfirmInit == Init => ConfirmInv
<1> SUFFICES ASSUME Init PROVE ConfirmInv
  OBVIOUS
<1>1. \A m \in Matches : row[m].status = "SCHEDULED" /\ row[m].quality = "UNKNOWN"
  BY DEF Init, Fixtures, Scheduled
<1>2. LifecycleInv
  BY <1>1, InitType DEF LifecycleInv, QualityFits
<1>3. \A w \in Workers : job[w] = Idle
  BY DEF Init
<1>4. \A m \in Matches : Idle.rows[m].status = "SCHEDULED"
  BY DEF Idle, Fixtures, Scheduled
<1>5. Idle.todo = {}
  BY DEF Idle
<1> QED
  BY <1>1, <1>2, <1>3, <1>4, <1>5
     DEF ConfirmInv, ObservedOnce, ConfirmedTwice, ReadCompleted, PlannedOfficial

\* Only a completed result replaces a completed one.
LEMMA CompletedStays ==
  ASSUME LifecycleInv, [Next]_vars, NEW m \in Matches, row[m].status = "COMPLETED"
  PROVE  row'[m].status = "COMPLETED"
<1>1. CASE Keeps(row'[m], row[m])
  BY <1>1 DEF Keeps, Takes
<1>2. ASSUME NEW u \in Results, Accepted(m, u) PROVE row'[m].status = "COMPLETED"
  <2>1. WellFormed(u) /\ CorrectsCompleted(row[m], u) /\ Stores(row'[m], row[m], u)
    BY <1>2 DEF Accepted, Clean
  <2>2. SameResultData(row[m], u) \/ u.quality = "CORRECTED"
    BY <2>1 DEF CorrectsCompleted
  <2>3. u.status = "COMPLETED"
    BY <2>1, <2>2 DEF WellFormed, SameResultData, Results, Statuses
  <2> QED
    BY <2>1, <2>3 DEF Stores, Takes
<1> QED
  BY <1>1, <1>2, StepAccepts DEF LifecycleInv

\* What the history says of a match after an import.
LEMMA ImportConfirms ==
  ASSUME ConfirmInv, NEW m \in Matches, NEW u \in Results, NEW byFeed \in BOOLEAN,
         Accepted(m, u), agreeing'[m] = Agreement(m, u, byFeed),
         byFeed /\ u.quality = "OFFICIAL_FINAL" => row[m].status = "COMPLETED"
  PROVE  /\ row'[m].status = "COMPLETED" => agreeing'[m] >= 1
         /\ row'[m].quality = "OFFICIAL_FINAL" => agreeing'[m] = 2
<1>1. WellFormed(u) /\ Clean(row[m], u) /\ Takes(row'[m], u)
  BY DEF Accepted, Stores
<1>2. row'[m].status = u.status /\ row'[m].quality = u.quality
  BY <1>1 DEF Takes
<1>3. (u.status = "COMPLETED") = (u.quality \in FinalQualities)
  BY <1>1 DEF WellFormed, Results, Statuses, FinalQualities
<1>4. CASE u.status # "COMPLETED"
  BY <1>2, <1>3, <1>4 DEF FinalQualities
<1>5. CASE u.status = "COMPLETED" /\ ~byFeed
  <2>1. Decides(u)
    BY <1>3, <1>5 DEF Decides
  <2>2. agreeing'[m] = IF u.quality = "UNOFFICIAL_FINAL" THEN 1 ELSE 2
    BY <1>5, <2>1 DEF Agreement
  <2> QED
    BY <1>2, <2>2
<1>6. CASE u.status = "COMPLETED" /\ byFeed
  <2>1. Decides(u)
    BY <1>3, <1>6 DEF Decides
  <2>2. agreeing'[m] = IF row[m].status = "COMPLETED" /\ row[m].score = u.score
                       THEN (IF agreeing[m] = 0 THEN 1 ELSE 2) ELSE 1
    BY <1>6, <2>1 DEF Agreement
  <2>3. ASSUME u.quality = "OFFICIAL_FINAL" PROVE agreeing'[m] = 2
    <3>1. row[m].status = "COMPLETED"
      BY <1>6, <2>3
    <3>2. SameResultData(row[m], u)
      BY <1>1, <2>3, <3>1 DEF Clean, CorrectsCompleted
    <3>3. agreeing[m] >= 1
      BY <3>1 DEF ConfirmInv, ObservedOnce
    <3> QED
      BY <2>2, <3>1, <3>2, <3>3 DEF SameResultData
  <2> QED
    BY <1>2, <2>2, <2>3
<1> QED
  BY <1>4, <1>5, <1>6

\* The history after any step.
LEMMA StepConfirms ==
  ASSUME ConfirmInv, [Next]_vars, NEW m \in Matches
  PROVE  /\ row'[m].status = "COMPLETED" => agreeing'[m] >= 1
         /\ row'[m].quality = "OFFICIAL_FINAL" => agreeing'[m] = 2
<1> DEFINE Goal == /\ row'[m].status = "COMPLETED" => agreeing'[m] >= 1
                   /\ row'[m].quality = "OFFICIAL_FINAL" => agreeing'[m] = 2
<1>1. ASSUME Keeps(row'[m], row[m]), agreeing'[m] = agreeing[m] PROVE Goal
  BY <1>1 DEF ConfirmInv, ObservedOnce, ConfirmedTwice, Keeps, Takes
<1>2. CASE row' = row /\ agreeing' = agreeing
  BY <1>1, <1>2 DEF Keeps, Takes
<1>3. CASE \E input \in Inputs : Len(input.results) \in {1, 2} /\ Import(input, FALSE)
  <2>1. PICK input \in Inputs : Len(input.results) \in {1, 2} /\ Import(input, FALSE)
    BY <1>3
  <2>2. Outcome(input, FALSE, m)
    BY <2>1, ImportAccepts DEF ConfirmInv, LifecycleInv
  <2>3. \A i \in DOMAIN input.results : input.results[i] \in Results
    BY <2>1, ElementOfSeq DEF Inputs
  <2>4. ASSUME NEW u \in Results, Accepted(m, u), agreeing'[m] = Agreement(m, u, FALSE)
        PROVE  Goal
    BY <2>4, ImportConfirms
  <2> QED
    BY <1>1, <2>2, <2>3, <2>4 DEF Outcome
<1>4. ASSUME NEW w \in Workers, ApplyScheduled(w), InputOf(job[w]) \in Inputs,
             Len(InputOf(job[w]).results) = 1
      PROVE  Goal
  <2>1. Import(InputOf(job[w]), TRUE) /\ job[w].pc = "applying"
    BY <1>4 DEF ApplyScheduled
  <2>2. Outcome(InputOf(job[w]), TRUE, m)
    BY <1>4, <2>1, ImportAccepts DEF ConfirmInv, LifecycleInv
  <2>3. job[w].todo \in SUBSET Results /\ job[w].todo # {}
    BY <2>1 DEF ConfirmInv, LifecycleInv, TypeOK, Jobs
  <2>4. PICK u \in Results : u = First(job[w].todo) /\ u \in job[w].todo
    BY <2>3, FirstIsIn
  <2>5. InputOf(job[w]).results = <<u>>
    BY <2>4 DEF InputOf
  <2>6. u.quality = "OFFICIAL_FINAL" => row[u.match].status = "COMPLETED"
    BY <2>4 DEF ConfirmInv, PlannedOfficial
  <2>7. ASSUME Accepted(m, u), agreeing'[m] = Agreement(m, u, TRUE) PROVE Goal
    <3>1. u.match = m
      BY <2>7 DEF Accepted
    <3> QED
      BY <2>6, <2>7, <3>1, ImportConfirms
  <2>8. \A i \in DOMAIN <<u>> : <<u>>[i] = u
    OBVIOUS
  <2> HIDE DEF Goal
  <2> QED
    BY <1>1, <2>2, <2>5, <2>7, <2>8 DEF Outcome
<1> QED
  BY <1>2, <1>3, <1>4, StepImports DEF ConfirmInv, LifecycleInv

\* A plan makes official what the sync has read as completed.
LEMMA PlanOfficial ==
  ASSUME NEW j \in Jobs, NEW seen \in Reports, NEW u \in Plan(j, seen),
         u.quality = "OFFICIAL_FINAL"
  PROVE  j.rows[u.match].status = "COMPLETED"
<1>1. PICK m \in Matches :
        /\ seen[m] # NotSeen
        /\ u = PlannedUpdate(m, j.rows[m], Canonical(j.rows[m], seen[m]), j.at)
  BY DEF Plan
<1>2. j.rows[m] \in Rows /\ seen[m] \in Observations
  BY <1>1, ResultsAssumption DEF Jobs, Reports
<1>3. PICK r \in Rows, s \in Observations :
        r = j.rows[m] /\ s = Canonical(j.rows[m], seen[m])
  BY <1>2, CanonicalType
<1>4. u.match = m /\ u.quality = PlannedQuality(r, s)
  BY <1>1, <1>3 DEF PlannedUpdate
<1>5. s.status \in {"LIVE", "COMPLETED"}
  BY DEF Observations
<1>6. CASE s.status = "LIVE"
  BY <1>4, <1>6 DEF PlannedQuality
<1>7. CASE s.status = "COMPLETED"
  BY <1>3, <1>4, <1>7 DEF PlannedQuality
<1> QED
  BY <1>5, <1>6, <1>7

\* What the syncs know after any step is what they knew, or what is stored now.
LEMMA JobsStep ==
  ASSUME ConfirmInv, [Next]_vars
  PROVE  /\ \A w \in Workers, m \in Matches :
              job'[w].rows[m].status = "COMPLETED" =>
                row[m].status = "COMPLETED"
         /\ \A w \in Workers : \A u \in job'[w].todo :
              u.quality = "OFFICIAL_FINAL" => row[u.match].status = "COMPLETED"
<1> DEFINE Fits(j) ==
      /\ \A m \in Matches : j.rows[m].status = "COMPLETED" => row[m].status = "COMPLETED"
      /\ \A u \in j.todo : u.quality = "OFFICIAL_FINAL" => row[u.match].status = "COMPLETED"
<1>1. \A w \in Workers : Fits(job[w])
  BY DEF ConfirmInv, ReadCompleted, PlannedOfficial
<1>2. \A w \in Workers : job[w] \in Jobs
  BY DEF ConfirmInv, LifecycleInv, TypeOK
<1>3. Idle \in Jobs /\ Idle.todo = {}
      /\ \A m \in Matches : Idle.rows[m].status # "COMPLETED"
  BY Empties DEF Idle, Fixtures, Scheduled
<1>4. Fits(Idle)
  BY <1>3
<1>5. ASSUME NEW j \in Jobs, NEW todo, NEW base,
             \A u \in todo : u.quality = "OFFICIAL_FINAL" => row[u.match].status = "COMPLETED"
      PROVE  Fits(Applying(j, todo, base))
  <2>1. CASE todo = {}
    BY <1>4, <2>1 DEF Applying
  <2>2. CASE todo # {}
    <3>1. Applying(j, todo, base) =
            [Idle EXCEPT !.pc = "applying", !.at = j.at, !.todo = todo, !.base = base]
      BY <2>2 DEF Applying
    <3>2. Applying(j, todo, base).rows = Idle.rows /\ Applying(j, todo, base).todo = todo
      BY <1>3, <3>1 DEF Jobs
    <3> QED
      BY <1>3, <1>5, <3>2
  <2> QED
    BY <2>1, <2>2
<1>6. ASSUME NEW w \in Workers, NEW next, Fits(next), Continue(w, next)
      PROVE  \A v \in Workers : Fits(job'[v])
  <2>1. \A v \in Workers : job'[v] \in {next, job[v]}
    BY <1>6 DEF Continue, ConfirmInv, LifecycleInv, TypeOK
  <2> HIDE DEF Fits
  <2> QED
    BY <1>1, <1>6, <2>1
<1> DEFINE Goal == \A v \in Workers : Fits(job'[v])
<1>7. ASSUME NEW w \in Workers, StartSync(w) PROVE Goal
  <2> DEFINE next == [Idle EXCEPT !.pc = "reading", !.at = clock]
  <2>1. next.rows = Idle.rows /\ next.todo = Idle.todo
    BY <1>3 DEF Jobs
  <2>2. Fits(next)
    BY <1>4, <2>1
  <2> HIDE DEF next, Fits
  <2> QED
    BY <1>6, <1>7, <2>2 DEF StartSync, next
<1>8. ASSUME NEW w \in Workers, ReadMatches(w) PROVE Goal
  <2> DEFINE next == [job[w] EXCEPT !.read = @ \cup {"matches"}, !.rows = row]
  <2>1. next.rows = row /\ next.todo = job[w].todo
    BY <1>2 DEF Jobs
  <2>2. Fits(next)
    BY <1>1, <2>1
  <2> HIDE DEF next, Fits
  <2> QED
    BY <1>6, <1>8, <2>2 DEF ReadMatches, next
<1>9. ASSUME NEW w \in Workers, ReadReceipts(w) PROVE Goal
  <2> DEFINE next == [job[w] EXCEPT !.read = @ \cup {"receipts"}, !.base = latest]
  <2>1. next.rows = job[w].rows /\ next.todo = job[w].todo
    BY <1>2 DEF Jobs
  <2>2. Fits(next)
    BY <1>1, <2>1
  <2> HIDE DEF next, Fits
  <2> QED
    BY <1>6, <1>9, <2>2 DEF ReadReceipts, next
<1>10. ASSUME NEW w \in Workers, NEW seen \in Reports, Fetch(w, seen) PROVE Goal
  <2>1. \A u \in Plan(job[w], seen) :
          u.quality = "OFFICIAL_FINAL" => row[u.match].status = "COMPLETED"
    <3> SUFFICES ASSUME NEW u \in Plan(job[w], seen), u.quality = "OFFICIAL_FINAL"
                 PROVE  row[u.match].status = "COMPLETED"
      OBVIOUS
    <3>1. PICK j \in Jobs : j = job[w]
      BY <1>2
    <3>2. u \in Results /\ j.rows[u.match].status = "COMPLETED"
      BY <1>10, <3>1, PlanOfficial, PlanType
    <3>3. u.match \in Matches
      BY <3>2 DEF Results
    <3> QED
      BY <1>1, <3>1, <3>2, <3>3
  <2>2. Fits(Applying(job[w], Plan(job[w], seen), job[w].base))
    BY <1>2, <1>5, <2>1
  <2> HIDE DEF Fits
  <2> QED
    BY <1>6, <1>10, <2>2 DEF Fetch
<1>11. ASSUME NEW w \in Workers, NEW base, Continue(w, Applying(job[w], Rest(job[w]), base))
       PROVE  Goal
  <2>1. \A u \in Rest(job[w]) :
          u.quality = "OFFICIAL_FINAL" => row[u.match].status = "COMPLETED"
    BY <1>1 DEF Rest
  <2>2. Fits(Applying(job[w], Rest(job[w]), base))
    BY <1>2, <1>5, <2>1
  <2> HIDE DEF Fits
  <2> QED
    BY <1>6, <1>11, <2>2
<1>12. ASSUME NEW w \in Workers, ApplyScheduled(w) PROVE Goal
  <2>1. PICK base : base = latest'
    OBVIOUS
  <2>2. Continue(w, Applying(job[w], Rest(job[w]), base))
    BY <1>12, <2>1 DEF ApplyScheduled, Applying
  <2>3. Goal
    <3> HIDE DEF Fits, Goal
    <3> QED
      BY <1>11, <2>2
  <2> QED
    BY <2>3
<1>13. ASSUME NEW w \in Workers, Skip(w) PROVE Goal
  BY <1>11, <1>13 DEF Skip
<1>14. ASSUME NEW w \in Workers, Abandon(w) PROVE Goal
  <2> HIDE DEF Fits
  <2> QED
    BY <1>4, <1>6, <1>14 DEF Abandon
<1>15. CASE job' = job
  BY <1>1, <1>15
<1>16. Goal
  <2>1. Next => \/ job' = job
                \/ \E w \in Workers :
                     \/ StartSync(w) \/ ReadMatches(w) \/ ReadReceipts(w)
                     \/ (\E seen \in Reports : Fetch(w, seen))
                     \/ ApplyScheduled(w) \/ Skip(w) \/ Abandon(w)
    BY DEF Next, Tick, RecordPreview, ApplyManual, Sync, SyncDisturbed,
           ApplyRefused, ApplyFailed
  <2>2. ASSUME NEW w \in Workers,
               \/ StartSync(w) \/ ReadMatches(w) \/ ReadReceipts(w)
               \/ (\E seen \in Reports : Fetch(w, seen))
               \/ ApplyScheduled(w) \/ Skip(w) \/ Abandon(w)
        PROVE  Goal
    <3> HIDE DEF Goal
    <3> QED
      BY <1>7, <1>8, <1>9, <1>10, <1>12, <1>13, <1>14, <2>2
  <2>3. Next \/ UNCHANGED vars
    OBVIOUS
  <2>4. UNCHANGED vars => job' = job
    BY DEF vars
  <2>5. CASE job' = job
    BY <1>15, <2>5
  <2>6. CASE job' # job
    <3>1. PICK w \in Workers :
            \/ StartSync(w) \/ ReadMatches(w) \/ ReadReceipts(w)
            \/ (\E seen \in Reports : Fetch(w, seen))
            \/ ApplyScheduled(w) \/ Skip(w) \/ Abandon(w)
      BY <2>1, <2>3, <2>4, <2>6
    <3> QED
      BY <2>2, <3>1
  <2> QED
    BY <2>5, <2>6
<1> QED
  BY <1>16

LEMMA ConfirmStep == ConfirmInv /\ [Next]_vars => ConfirmInv'
<1> SUFFICES ASSUME ConfirmInv, [Next]_vars PROVE ConfirmInv'
  OBVIOUS
<1>1. LifecycleInv /\ LifecycleInv'
  BY LifecycleStep DEF ConfirmInv
<1>2. ObservedOnce' /\ ConfirmedTwice'
  BY StepConfirms DEF ObservedOnce, ConfirmedTwice
<1>3. \A m \in Matches : row[m].status = "COMPLETED" => row'[m].status = "COMPLETED"
  BY <1>1, CompletedStays
<1>4. ReadCompleted'
  BY <1>3, JobsStep DEF ReadCompleted
<1>5. PlannedOfficial'
  <2> SUFFICES ASSUME NEW w \in Workers, NEW u \in job'[w].todo,
                      u.quality = "OFFICIAL_FINAL"
               PROVE  row'[u.match].status = "COMPLETED"
    BY DEF PlannedOfficial
  <2>1. u \in Results
    BY <1>1 DEF LifecycleInv, TypeOK, Jobs
  <2>2. u.match \in Matches
    BY <2>1 DEF Results
  <2> QED
    BY <1>3, <2>2, JobsStep
<1> QED
  BY <1>1, <1>2, <1>4, <1>5 DEF ConfirmInv

\* No result is official by itself before a poll has agreed with what was
\* stored, for any number of workers that read, plan and apply in any order.
THEOREM OfficialIsConfirmed == Spec => []ConfirmedTwice
<1>1. ConfirmInv => ConfirmedTwice
  BY DEF ConfirmInv
<1> QED
  BY <1>1, ConfirmInit, ConfirmStep, PTL DEF Spec

=============================================================================
