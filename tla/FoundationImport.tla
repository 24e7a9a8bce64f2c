-------------------------- MODULE FoundationImport --------------------------
(***************************************************************************)
(* The import of a complete edition bundle (scripts/import-glasgow-2026.ts *)
(* and src/lib/sources): an operator plans an import on the identities     *)
(* that are mapped, records the clean plan as a dry run, and applies it in *)
(* one serializable transaction that locks the edition.                    *)
(*                                                                         *)
(* A transaction decides everything again on what is stored, except for    *)
(* the plan: that is made before it, and compared with the recorded one.   *)
(*                                                                         *)
(* Abstractions.  A checksum is the bundle.  A plan is its bundle and the  *)
(* identities of it that were mapped, which decide between INSERT and      *)
(* UPDATE.  Teams, entries and the coverage declarations are the same in   *)
(* every bundle; a match row keeps which bundle its schedule, venue and    *)
(* stage are from.  Receipts are ordered by their commits, and an apply    *)
(* that begins remembers how many there were.  Receipts of failed runs,    *)
(* which nothing here reads, are left out, with the audit of each row.     *)
(***************************************************************************)
EXTENDS Naturals, Sequences, FiniteSets

CONSTANTS
    Operators,      \* sessions that run the scripts
    Bundles,        \* the versions of the bundle
    Matches, Players,
    Teams, NoTeam,
    NoMatch, NoSide,
    NoBundle,
    Retrieved,      \* context.retrievedAt of a bundle
    Fixture,        \* the matches in a bundle
    Listed,         \* the players in a bundle
    Roster,         \* the roster status a bundle gives a player
    Names,          \* the team a bundle names for a side of a match, if any
    Takes,          \* the match whose winner a side takes, if any
    Reports,        \* the winner in the result a bundle brings, if any
    MaxRuns         \* bound on the successful receipts

Sides == {"A", "B"}
Standing == {"ABSENT", "ACTIVE", "REPLACED", "WITHDRAWN"}
Started == {"LIVE", "COMPLETED"}
Identities == Matches \cup Players

ASSUME FoundationAssumption ==
    /\ Matches \cap Players = {}
    /\ NoTeam \notin Teams /\ NoMatch \notin Matches /\ NoSide \notin Sides
    /\ NoBundle \notin Bundles
    /\ MaxRuns \in Nat
    /\ Retrieved \in [Bundles -> Nat]
    /\ Fixture \in [Bundles -> SUBSET Matches]
    /\ Listed \in [Bundles -> SUBSET Players]
    /\ Roster \in [Bundles -> [Players -> Standing]]
    /\ \A b \in Bundles : \A p \in Players \ Listed[b] : Roster[b][p] = "ABSENT"
    /\ Names \in [Bundles -> [Matches -> [Sides -> Teams \cup {NoTeam}]]]
    /\ Takes \in [Bundles -> [Matches -> [Sides -> Matches \cup {NoMatch}]]]
    /\ Reports \in [Bundles -> [Matches -> Sides \cup {NoSide}]]

VARIABLES
    publication,    \* Competition.publicationStatus, and Stage.isPublished
    runs,           \* successful receipts of ImportRun, in order
    known,          \* identities with a SourceEntityMapping
    rows,           \* Match
    slots,          \* MatchSlot
    squad,          \* RosterMembership
    job             \* the command each operator is running

content == <<known, rows, slots, squad>>
importVars == <<publication, runs, content, job>>

Memberships == [player : Players, from : Nat, open : BOOLEAN,
                status : Standing \ {"ABSENT"}]

Unseen == [details |-> NoBundle, status |-> "ABSENT", quality |-> "UNKNOWN",
           winner |-> NoSide, team |-> [side \in Sides |-> NoTeam]]

NoJob == [pc |-> "idle", bundle |-> NoBundle, seen |-> {}, started |-> 0,
          fits |-> FALSE]

ImportInit ==
    /\ publication = "DRAFT"
    /\ runs = <<>>
    /\ known = {}
    /\ rows = [m \in Matches |-> Unseen]
    /\ slots = [m \in Matches |->
                   [side \in Sides |-> [takes |-> NoMatch, team |-> NoTeam]]]
    /\ squad = {}
    /\ job = [o \in Operators |-> NoJob]

Named(b) == Listed[b] \cup Fixture[b]

At(o, pc) == job[o].pc = pc
Finish(o) == job' = [job EXCEPT ![o] = NoJob]

-----------------------------------------------------------------------------
(* Receipts                                                                *)

Positions(kind, b) ==
    {i \in DOMAIN runs : runs[i].kind = kind /\ runs[i].bundle = b}

\* A mutation: an applied run counts only if its plan is the present one.
RootsOfThisPlan(b, seen) == {i \in Positions("ROOT", b) : runs[i].seen = seen}

\* Applied runs of the bundle that wrote it, whatever their plan was.
Roots(b, seen) == Positions("ROOT", b)

HasDryRun(b, seen) == \E i \in Positions("DRY", b) : runs[i].seen = seen

\* A recorded dry run of the same plan, completed when the root run began.
Reviewed(r) ==
    \E i \in Positions("DRY", runs[r].bundle) :
        i <= runs[r].started /\ runs[i].seen = runs[r].seen

\* The one applied run that a further apply repeats.
Repeats(b, seen, r) ==
    /\ Roots(b, seen) = {r}
    /\ \A i \in Positions("REPLAY", b) : runs[i].root = r
    /\ Reviewed(r)
    /\ Named(b) \subseteq known

Receipt(kind, o, root) ==
    [kind |-> kind, bundle |-> job[o].bundle, seen |-> job[o].seen,
     started |-> job[o].started, root |-> root]

Log(receipt) ==
    /\ Len(runs) < MaxRuns
    /\ runs' = Append(runs, receipt)

\* What lockCompetitionForImport finds.
IsDraft == publication = "DRAFT"

-----------------------------------------------------------------------------
(* What a bundle makes of the rows                                         *)

\* A mutation: only finished matches keep their results.
OnlyFinishedKept(b, m) ==
    rows[m].status = "COMPLETED" /\ Reports[b][m] = NoSide

\* preserveResultOwnedState: play has begun and the bundle has no result.
Preserved(b, m) == rows[m].status \in Started /\ Reports[b][m] = NoSide

TeamsAfter(b, m) ==
    [side \in Sides |->
        IF Preserved(b, m) \/ Names[b][m][side] = NoTeam
        THEN rows[m].team[side] ELSE Names[b][m][side]]

\* A reported result is written as PROVISIONAL, which the trigger on the table
\* does not let a completed match be.
RowAfter(b, m) ==
    LET reported == Reports[b][m] # NoSide
    IN  [details |-> b,
         status |-> IF reported THEN "COMPLETED"
                    ELSE IF Preserved(b, m) THEN rows[m].status ELSE "SCHEDULED",
         quality |-> IF reported THEN "UNOFFICIAL_FINAL" ELSE rows[m].quality,
         winner |-> IF reported THEN Reports[b][m] ELSE rows[m].winner,
         team |-> TeamsAfter(b, m)]

\* A slot keeps the team it has until the bundle names another.
SlotAfter(b, m, side) ==
    IF Preserved(b, m) THEN slots[m][side]
    ELSE [takes |-> Takes[b][m][side],
          team |-> IF Names[b][m][side] = NoTeam THEN slots[m][side].team
                   ELSE Names[b][m][side]]

InRoster(b, p) == Roster[b][p] # "ABSENT"
OpenOf(p) == {s \in squad : s.player = p /\ s.open}

\* Players of the bundle without an open membership get one that begins when
\* the bundle was retrieved; the index over that instant may refuse it.
Joining(b) == {p \in Players : InRoster(b, p) /\ OpenOf(p) = {}}
Unique(b) == \A p \in Joining(b) : \A s \in squad :
                 s.player = p => s.from # Retrieved[b]

\* A mutation: nobody is closed.
NobodyLeaves(b, s) == s

\* An open membership takes its status from the bundle, and an active one the
\* bundle does not have is closed.
MemberAfter(b, s) ==
    IF ~s.open THEN s
    ELSE IF InRoster(b, s.player)
    THEN [s EXCEPT !.status = Roster[b][s.player]]
    ELSE IF s.status = "ACTIVE"
    THEN [s EXCEPT !.status = "REPLACED", !.open = FALSE] ELSE s

SquadAfter(b) ==
    {MemberAfter(b, s) : s \in squad}
    \cup {[player |-> p, from |-> Retrieved[b], open |-> TRUE,
           status |-> Roster[b][p]] : p \in Joining(b)}

-----------------------------------------------------------------------------
(* The commands                                                            *)

\* loadPrismaImportPlanningState and planCompetitionImport.
Plan(o, b) ==
    /\ At(o, "idle")
    /\ job' = [job EXCEPT ![o] =
          [NoJob EXCEPT !.pc = "planned", !.bundle = b, !.seen = known \cap Named(b)]]
    /\ UNCHANGED <<publication, runs, content>>

\* recordPrismaImportPreview.
RecordPreview(o) ==
    /\ At(o, "planned")
    /\ IsDraft
    /\ Log(Receipt("DRY", o, 0))
    /\ Finish(o)
    /\ UNCHANGED <<publication, content>>

\* execute takes the time of its beginning before it opens the transaction.
BeginApply(o) ==
    /\ At(o, "planned")
    /\ job' = [job EXCEPT ![o].pc = "begun", ![o].started = Len(runs)]
    /\ UNCHANGED <<publication, runs, content>>

\* The bundle was applied before: a receipt, and nothing else.
Replay(o) ==
    /\ At(o, "begun")
    /\ IsDraft
    /\ \E r \in DOMAIN runs :
          /\ Repeats(job[o].bundle, job[o].seen, r)
          /\ Log(Receipt("REPLAY", o, r))
    /\ Finish(o)
    /\ UNCHANGED <<publication, content>>

\* The first apply of a bundle, whose plan must have been recorded.
Apply(o) ==
    LET b == job[o].bundle
    IN  /\ At(o, "begun")
        /\ IsDraft
        /\ Roots(b, job[o].seen) = {}
        /\ HasDryRun(b, job[o].seen)
        /\ Unique(b)
        /\ Log(Receipt("ROOT", o, 0))
        /\ known' = known \cup Named(b)
        /\ rows' = [m \in Matches |->
                       IF m \in Fixture[b] THEN RowAfter(b, m) ELSE rows[m]]
        /\ slots' = [m \in Matches |->
                        IF m \in Fixture[b]
                        THEN [side \in Sides |-> SlotAfter(b, m, side)]
                        ELSE slots[m]]
        /\ squad' = SquadAfter(b)
        /\ Finish(o)
        /\ UNCHANGED publication

\* A command is refused, fails, or is killed.
Stop(o) ==
    /\ ~At(o, "idle")
    /\ Finish(o)
    /\ UNCHANGED <<publication, runs, content>>

ImportStep(o) ==
    \/ \E b \in Bundles : Plan(o, b)
    \/ RecordPreview(o)
    \/ BeginApply(o)
    \/ Replay(o)
    \/ Apply(o)
    \/ Stop(o)

=============================================================================
