------------------------- MODULE EditionPublication -------------------------
(***************************************************************************)
(* An edition from its foundation to the public: FoundationImport beside   *)
(* the commands that publish and unpublish it                              *)
(* (src/lib/edition-publication.ts) and the results that are imported      *)
(* while it is public (GlasgowResults has those in detail).                *)
(*                                                                         *)
(* A publication reads the edition, then the receipts and the rows, and    *)
(* decides on what it read; the transaction that publishes reads nothing.  *)
(* A token is the two receipts it names: the last apply, which may be a    *)
(* replay, and the last dry run.                                           *)
(***************************************************************************)
EXTENDS FoundationImport

CONSTANTS
    FixtureSize,    \* GLASGOW_2026_EXPECTED_MATCH_COUNT
    SquadSize       \* the number of active memberships of a complete edition

VARIABLE tokens     \* the confirmation tokens that dry runs have printed

vars == <<importVars, tokens>>

ASSUME PublicationAssumption == FixtureSize \in Nat /\ SquadSize \in Nat

Init == ImportInit /\ tokens = {}

-----------------------------------------------------------------------------
(* Publication                                                             *)

Latest(kinds) ==
    LET found == {i \in DOMAIN runs : runs[i].kind \in kinds}
    IN  IF found = {} THEN 0
        ELSE CHOOSE i \in found : \A j \in found : j <= i

Applied == Latest({"ROOT", "REPLAY"})
DryRun == Latest({"DRY"})

ActiveMembers == {s \in squad : s.open /\ s.status = "ACTIVE"}
Imported == {m \in Matches : rows[m].status # "ABSENT"}

\* evaluateEditionPublicationReadiness, for what is read of the receipts, the
\* squad and the mappings ...
Complete(b) ==
    /\ Applied # 0 /\ runs[Applied].bundle = b
    /\ DryRun # 0 /\ runs[DryRun].bundle = b
    /\ Cardinality(ActiveMembers) = SquadSize
    /\ known = Named(b)

\* ... and for what was read of the edition before them.
Ready(o) == job[o].fits /\ Complete(job[o].bundle)

\* The first query of publishEdition: its status and its counts.
ReadEdition(o, b) ==
    /\ At(o, "idle")
    /\ job' = [job EXCEPT ![o] =
          [NoJob EXCEPT !.pc = "counted", !.bundle = b,
              !.fits = publication = "DRAFT" /\ Cardinality(Imported) = FixtureSize]]
    /\ UNCHANGED <<publication, runs, content, tokens>>

\* publish --dry-run prints the token.
PrintToken(o) ==
    /\ At(o, "counted")
    /\ Ready(o)
    /\ tokens' = tokens \cup {<<Applied, DryRun>>}
    /\ Finish(o)
    /\ UNCHANGED <<publication, runs, content>>

\* publish --apply --confirm compares the token with the one it derives.
AcceptToken(o) ==
    /\ At(o, "counted")
    /\ Ready(o)
    /\ <<Applied, DryRun>> \in tokens
    /\ job' = [job EXCEPT ![o].pc = "publishing"]
    /\ UNCHANGED <<publication, runs, content, tokens>>

Publish(o) ==
    /\ At(o, "publishing")
    /\ publication' = "PUBLISHED"
    /\ Finish(o)
    /\ UNCHANGED <<runs, content, tokens>>

\* unpublishEdition reads the status, and leaves a draft alone.
ReadStatus(o) ==
    /\ At(o, "idle")
    /\ publication = "PUBLISHED"
    /\ job' = [job EXCEPT ![o] = [NoJob EXCEPT !.pc = "hiding"]]
    /\ UNCHANGED <<publication, runs, content, tokens>>

Unpublish(o) ==
    /\ At(o, "hiding")
    /\ publication' = "DRAFT"
    /\ Finish(o)
    /\ UNCHANGED <<runs, content, tokens>>

-----------------------------------------------------------------------------
(* Results, which are imported while the edition is public                 *)

StartMatch(m) ==
    /\ publication = "PUBLISHED"
    /\ rows[m].status = "SCHEDULED"
    /\ \A side \in Sides : rows[m].team[side] # NoTeam
    /\ rows' = [rows EXCEPT ![m].status = "LIVE"]
    /\ UNCHANGED <<publication, runs, known, slots, squad, job, tokens>>

\* A final result fills the slots that take the winner and their matches; it
\* is refused if that would change who plays a match that has started.
FinishMatch(m, winner) ==
    LET team == rows[m].team[winner]
        Fills(n, side) == slots[n][side].takes = m
    IN  /\ publication = "PUBLISHED"
        /\ rows[m].status \in {"SCHEDULED", "LIVE"}
        /\ \A side \in Sides : rows[m].team[side] # NoTeam
        /\ \A n \in Matches, side \in Sides :
              Fills(n, side) /\ rows[n].status \in Started => slots[n][side].team = team
        /\ slots' = [n \in Matches |-> [side \in Sides |->
              IF Fills(n, side) THEN [slots[n][side] EXCEPT !.team = team]
              ELSE slots[n][side]]]
        /\ rows' = [n \in Matches |->
              LET placed == [rows[n] EXCEPT !.team =
                      [side \in Sides |-> IF Fills(n, side) THEN team ELSE @[side]]]
              IN  IF n = m
                  THEN [placed EXCEPT !.status = "COMPLETED", !.winner = winner,
                                      !.quality = "OFFICIAL_FINAL"]
                  ELSE placed]
        /\ UNCHANGED <<publication, runs, known, squad, job, tokens>>

Next ==
    \/ \E o \in Operators :
          \/ ImportStep(o) /\ UNCHANGED tokens
          \/ \E b \in Bundles : ReadEdition(o, b)
          \/ PrintToken(o)
          \/ AcceptToken(o)
          \/ Publish(o)
          \/ ReadStatus(o)
          \/ Unpublish(o)
    \/ \E m \in Matches :
          \/ StartMatch(m)
          \/ \E winner \in Sides : FinishMatch(m, winner)

Spec == Init /\ [][Next]_vars

-----------------------------------------------------------------------------
(* Properties                                                              *)

Receipts ==
    [kind : {"DRY", "ROOT", "REPLAY"}, bundle : Bundles,
     seen : SUBSET Identities, started : Nat, root : Nat]

Rows ==
    [details : Bundles \cup {NoBundle},
     status : {"ABSENT", "SCHEDULED"} \cup Started,
     quality : {"UNKNOWN", "UNOFFICIAL_FINAL", "OFFICIAL_FINAL"},
     winner : Sides \cup {NoSide},
     team : [Sides -> Teams \cup {NoTeam}]]

Jobs ==
    [pc : {"idle", "planned", "begun", "counted", "publishing", "hiding"},
     bundle : Bundles \cup {NoBundle}, seen : SUBSET Identities,
     started : Nat, fits : BOOLEAN]

\* Rows, receipts and jobs have their shape, exactly the mapped matches have
\* rows, and a replay refers to the earlier run that wrote its bundle.
TypeOK ==
    /\ publication \in {"DRAFT", "PUBLISHED"}
    /\ runs \in Seq(Receipts)
    /\ known \subseteq Identities
    /\ rows \in [Matches -> Rows]
    /\ slots \in [Matches -> [Sides -> [takes : Matches \cup {NoMatch},
                                        team : Teams \cup {NoTeam}]]]
    /\ squad \subseteq Memberships
    /\ job \in [Operators -> Jobs]
    /\ tokens \subseteq Nat \X Nat
    /\ \A m \in Matches : m \in known <=> rows[m].status # "ABSENT"
    /\ \A i \in DOMAIN runs : runs[i].kind = "REPLAY" =>
          \E r \in 1..i : /\ r = runs[i].root
                          /\ runs[r].kind = "ROOT" /\ runs[r].bundle = runs[i].bundle

LastRoot == Latest({"ROOT"})

\* The receipts tell what the edition holds: the schedule and the active
\* squad are those of the last run that wrote, however many operators plan on
\* old states, apply at once, repeat earlier bundles, or are refused.
ContentFollowsReceipts ==
    IF LastRoot = 0 THEN known = {} /\ squad = {}
    ELSE LET b == runs[LastRoot].bundle
         IN  /\ \A m \in Fixture[b] : rows[m].details = b
             /\ \A p \in Players :
                   (\E s \in ActiveMembers : s.player = p) <=> Roster[b][p] = "ACTIVE"

\* No two operators write the same bundle: one run wrote it, and every other
\* apply of it is a replay of that run ("Expected exactly one authoritative
\* applied receipt").
OneRootPerBundle ==
    \A i, j \in DOMAIN runs :
        runs[i].kind = "ROOT" /\ runs[j].kind = "ROOT" /\ runs[i].bundle = runs[j].bundle
            => i = j

\* What is public does not change under its readers: no import, planned or
\* begun while the edition was a draft, commits after it was published.
FrozenWhilePublished ==
    [][publication = "PUBLISHED" =>
          /\ squad' = squad /\ known' = known
          /\ \A m \in Matches : rows'[m].details = rows[m].details]_vars

\* A match and its slots name the same teams, although the importer plans the
\* two separately, and whatever the results have filled.
ParticipantsAgree ==
    \A m \in Matches, side \in Sides : rows[m].team[side] = slots[m][side].team

\* While the edition is hidden, a revised bundle leaves what is known of the
\* matches that have started as it is, unless it brings a result of its own.
HiddenResultsStand ==
    [][publication = "DRAFT" =>
          \A m \in Matches :
              rows[m].status \in Started
              => \/ rows'[m] = [rows[m] EXCEPT !.details = rows'[m].details]
                 \/ Reports[rows'[m].details][m] # NoSide]_vars

\* A revised bundle that was recorded and then applied makes the edition ready
\* for publication, whoever the revision replaced ("Missing former roster
\* members are closed, not deleted", rollback runbook).
RevisionCanBePublished ==
    \A b \in Bundles :
        /\ LastRoot # 0 /\ Applied = LastRoot /\ runs[LastRoot].bundle = b
        /\ DryRun # 0 /\ runs[DryRun].bundle = b
        => Complete(b)

=============================================================================
