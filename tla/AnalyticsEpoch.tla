--------------------------- MODULE AnalyticsEpoch ---------------------------
(***************************************************************************)
(* The tables of one edition that the analytics views read, the views, and *)
(* the epoch that the database advances when one of them may have changed  *)
(* (analytics.queue_match_invalidation and its triggers).                  *)
(*                                                                         *)
(* A step is a committed transaction that changes one row.  The writers of *)
(* a match hold its row lock and the importers are serializable, so their  *)
(* triggers judge by what is committed.  Several advances in one           *)
(* transaction count as one: readers only compare epochs.  Of a row only   *)
(* what a view or a trigger distinguishes is kept.                         *)
(***************************************************************************)
EXTENDS Integers, FiniteSets

CONSTANTS
    Matches,        \* the matches the edition may have
    Starts,         \* which of them may have an official result at the start
    Values,         \* scores, box scores, names
    NoRow,          \* a row that does not exist
    Edition,        \* the owner of a coverage row that names no match
    Gated,          \* is this the edition whose directory row needs a full fixture
    FixtureSize,    \* how many matches a full fixture has (38 in the code)
    MaxCommits      \* bounds the transactions

MatchRow == [official : BOOLEAN, score : Values, staged : BOOLEAN]
Coverage == {"AVAILABLE", "UNAVAILABLE"}
Structure == [published : BOOLEAN, entered : BOOLEAN, stageOpen : BOOLEAN,
              label : Values, people : Values]

ASSUME RowsAssumption ==
    /\ NoRow \notin MatchRow \cup Values \cup Coverage
    /\ Edition \notin Matches
    /\ Gated \in BOOLEAN
    /\ Starts \subseteq SUBSET Matches
    /\ MaxCommits \in Nat

VARIABLES
    match,      \* Match: COMPLETED and official or corrected and not simulated, score, stage
    slotted,    \* the matches whose two MatchSlot rows exist
    stats,      \* PlayerMatchStats and TeamMatchStats of a match
    coverage,   \* DataCoverage of a match or of the edition, box-score capabilities
    imported,   \* is there a clean applied ImportRun of the known source
    structure,  \* Competition, EditionEntry, Stage, and the names of Team and Player
    epoch,      \* analytics.cache_epoch.revision
    commits,    \* how many transactions have committed
    version     \* the commit that last changed each view

tables == <<match, slotted, stats, coverage, imported, structure>>
database == <<tables, epoch, commits, version>>

-----------------------------------------------------------------------------
(* The views                                                               *)

Existing == {m \in Matches : match[m] # NoRow}
Eligible(row) == row # NoRow /\ row.official
EligibleMatches == {m \in Matches : Eligible(match[m])}
Staged == {m \in Existing : match[m].staged}

\* The gate of the Glasgow edition in analytics.competition_directory.
FixtureComplete ==
    /\ Cardinality(Existing) = FixtureSize
    /\ slotted = Existing
    /\ imported
    /\ structure.stageOpen
    /\ Staged = Existing

Visible ==
    /\ structure.published
    /\ structure.entered
    /\ EligibleMatches # {}
    /\ Gated => FixtureComplete

\* Official matches without a stage, or whose stage is published.
Public == {m \in EligibleMatches : match[m].staged => structure.stageOpen}

CoverageOf(m) == IF coverage[m] # NoRow THEN coverage[m] ELSE coverage[Edition]

WithBoxScore == {m \in Public : stats[m] # NoRow /\ CoverageOf(m) = "AVAILABLE"}

Listed(rows) == IF Visible THEN rows ELSE {}

Facts == Listed({<<m, match[m].staged, stats[m]>> : m \in WithBoxScore})

\* What the queries of repository.ts are answered with: the edition directory,
\* the box scores, the player directory, the results and the team directory.
views ==
    [editions |-> Listed({structure.label}),
     facts    |-> Facts,
     people   |-> Listed({<<structure.people, Facts>>}),
     matches  |-> Listed({<<m, match[m].score>> : m \in Public}),
     teams    |-> Listed({structure.people})]

Parts == {"editions", "facts", "people", "matches", "teams"}

-----------------------------------------------------------------------------
(* The triggers                                                            *)

\* A mutation: a trigger that only looks at matches that are official now.
MatchTriggerNewOnly(old, new) ==
    \/ Gated /\ (old = NoRow \/ new = NoRow \/ old.staged # new.staged)
    \/ Eligible(new)

\* The branch of queue_match_invalidation for Match: a change of the fixture of
\* the gated edition, or any change of a match that is or was official.
MatchTrigger(old, new) ==
    \/ /\ Gated
       /\ \/ old = NoRow
          \/ new = NoRow
          \/ old.staged # new.staged
    \/ Eligible(old) \/ Eligible(new)

\* The branch for box scores: of an official match.
StatsTrigger(m) == Eligible(match[m])

\* The branch for DataCoverage: of an official match, or of an edition with one.
CoverageTrigger(owner) == \E m \in EligibleMatches : owner \in {m, Edition}

\* The branches for ImportRun and SourceSystem: of an edition with an official match.
ImportTrigger == EligibleMatches # {}

\* The transaction commits; advance_cache_epoch ran in it if a trigger called it.
Commit(advanced) ==
    /\ commits < MaxCommits
    /\ commits' = commits + 1
    /\ epoch' = IF advanced THEN epoch + 1 ELSE epoch
    /\ version' = [p \in Parts |->
                     IF views'[p] # views[p] THEN commits + 1 ELSE version[p]]

-----------------------------------------------------------------------------
(* The writers                                                             *)

\* A match is written, or deleted with its slots and coverage; box scores forbid
\* the deletion.
WriteMatch(m, new) ==
    /\ new # match[m]
    /\ new = NoRow => stats[m] = NoRow
    /\ match' = [match EXCEPT ![m] = new]
    /\ slotted' = IF new = NoRow THEN slotted \ {m} ELSE slotted
    /\ coverage' = IF new = NoRow THEN [coverage EXCEPT ![m] = NoRow] ELSE coverage
    /\ UNCHANGED <<stats, imported, structure>>
    /\ Commit(MatchTrigger(match[m], new))

WriteStats(m, new) ==
    /\ match[m] # NoRow
    /\ new # stats[m]
    /\ stats' = [stats EXCEPT ![m] = new]
    /\ UNCHANGED <<match, slotted, coverage, imported, structure>>
    /\ Commit(StatsTrigger(m))

WriteCoverage(owner, new) ==
    /\ owner \in Existing \cup {Edition}
    /\ new # coverage[owner]
    /\ coverage' = [coverage EXCEPT ![owner] = new]
    /\ UNCHANGED <<match, slotted, stats, imported, structure>>
    /\ Commit(CoverageTrigger(owner))

\* Slots appear and disappear; the trigger looks for their match only.
WriteSlots(m) ==
    /\ match[m] # NoRow
    /\ slotted' = IF m \in slotted THEN slotted \ {m} ELSE slotted \cup {m}
    /\ UNCHANGED <<match, stats, coverage, imported, structure>>
    /\ Commit(TRUE)

WriteImport ==
    /\ imported' = ~imported
    /\ UNCHANGED <<match, slotted, stats, coverage, structure>>
    /\ Commit(ImportTrigger)

\* Editions, entries, stages, rosters, players and teams always advance the epoch.
WriteStructure ==
    /\ \/ \E f \in {"published", "entered", "stageOpen"} :
             structure' = [structure EXCEPT ![f] = ~@]
       \/ \E f \in {"label", "people"} : \E v \in Values \ {structure[f]} :
             structure' = [structure EXCEPT ![f] = v]
    /\ UNCHANGED <<match, slotted, stats, coverage, imported>>
    /\ Commit(TRUE)

Write ==
    \/ \E m \in Matches :
          \/ \E new \in MatchRow \cup {NoRow} : WriteMatch(m, new)
          \/ \E new \in Values \cup {NoRow} : WriteStats(m, new)
          \/ WriteSlots(m)
    \/ \E owner \in Matches \cup {Edition}, new \in Coverage \cup {NoRow} :
          WriteCoverage(owner, new)
    \/ WriteImport
    \/ WriteStructure

\* A published edition before its first result, or in the middle of its fixture.
DatabaseInit ==
    \E v \in Values, played \in Starts :
        /\ match = [m \in Matches |-> [official |-> m \in played, score |-> v, staged |-> TRUE]]
        /\ slotted = Matches
        /\ stats = [m \in Matches |-> IF m \in played THEN v ELSE NoRow]
        /\ coverage = [owner \in Matches \cup {Edition} |->
                         IF owner = Edition THEN "AVAILABLE" ELSE NoRow]
        /\ imported = TRUE
        /\ structure = [published |-> TRUE, entered |-> TRUE, stageOpen |-> TRUE,
                        label |-> v, people |-> v]
        /\ epoch = 1
        /\ commits = 0
        /\ version = [p \in Parts |-> 0]

DatabaseTypeOK ==
    /\ match \in [Matches -> MatchRow \cup {NoRow}]
    /\ slotted \subseteq Existing
    /\ stats \in [Matches -> Values \cup {NoRow}]
    /\ coverage \in [Matches \cup {Edition} -> Coverage \cup {NoRow}]
    /\ imported \in BOOLEAN
    /\ structure \in Structure
    /\ epoch \in Nat \ {0}
    /\ commits \in 0 .. MaxCommits
    /\ version \in [Parts -> 0 .. commits]

=============================================================================
