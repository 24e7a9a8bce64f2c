-------------------------- MODULE SourceIdentities --------------------------
(***************************************************************************)
(* Who is who in an edition that is imported: the rows of teams and        *)
(* players that the revisions of a bundle are written to, beside those of  *)
(* the league, and the mappings that remember which row an identity of the *)
(* source stands for (src/lib/sources/prisma-writer.ts, planner.ts,        *)
(* validation.ts, coverage.ts), with the options of its one caller         *)
(* (scripts/import-glasgow-2026.ts).                                       *)
(*                                                                         *)
(* Commands run one at a time, each a step, and the edition is a draft;    *)
(* FoundationImport has commands side by side and the rest of a bundle:    *)
(* rosters, matches and results.  A row that a bundle creates is named by  *)
(* the identity that it is created for.  Fields are well formed; a name    *)
(* stands also for a position or an abbreviation, a status for a group and *)
(* a seed, and a photo for its credits.                                    *)
(***************************************************************************)
EXTENDS Integers, Sequences

CONSTANTS
    Bundles,        \* the revisions: [teams, players, coverage]
    Capabilities,   \* ALL_DATA_CAPABILITIES
    Plain,          \* normalizedPlayerName, for each name
    Edition,        \* the edition that is imported
    OtherTeams,     \* rows of Team, of other competitions
    LeaguePlayers,  \* rows of Player, of the league
    None

VARIABLES
    teams,          \* Team: slug, name, edition
    entries,        \* EditionEntry of the edition, by team: status, name
    players,        \* Player: name, championDataPlayerId (cd), photo
    mapped,         \* SourceEntityMapping: the row of an identity
    coverage,       \* DataCoverage of the edition: the state of a capability
    recorded,       \* the clean previews recorded: bundle, identities mapped then
    applied,        \* the bundles applied, in order
    receipt         \* what the last ImportRun says

content == <<teams, entries, players, mapped, coverage, applied>>
vars == <<content, recorded, receipt>>

TeamKey(ext) == <<"TEAM", ext>>
PlayerKey(ext) == <<"PLAYER", ext>>
TeamExts(b) == {b.teams[i].ext : i \in DOMAIN b.teams}
Identities(b) ==
    {TeamKey(ext) : ext \in TeamExts(b)}
    \cup {PlayerKey(b.players[i].ext) : i \in DOMAIN b.players}

Unique(values) == \A i, j \in DOMAIN values : values[i] = values[j] => i = j

SourceIdentitiesAssumption ==
    /\ \A b \in Bundles :
          /\ b.teams \in Seq([ext : TeamExts(b),
                              slug : {b.teams[i].slug : i \in DOMAIN b.teams},
                              name : {b.teams[i].name : i \in DOMAIN b.teams},
                              status : {b.teams[i].status : i \in DOMAIN b.teams}])
          /\ b.players \in Seq([ext : {b.players[i].ext : i \in DOMAIN b.players},
                                team : {b.players[i].team : i \in DOMAIN b.players},
                                name : DOMAIN Plain,
                                cd : {b.players[i].cd : i \in DOMAIN b.players},
                                photo : {b.players[i].photo : i \in DOMAIN b.players}])
          /\ DOMAIN b.coverage \subseteq Capabilities
          /\ Identities(b) \cap (DOMAIN OtherTeams \cup DOMAIN LeaguePlayers) = {}
    /\ \A r \in DOMAIN OtherTeams : OtherTeams[r].edition # Edition
    /\ \A r \in DOMAIN LeaguePlayers :
          LET row == LeaguePlayers[r]
          IN  row = [name |-> row.name, cd |-> row.cd, photo |-> row.photo] /\ row.cd # None
    /\ Unique([r \in DOMAIN OtherTeams |-> OtherTeams[r].slug])
    /\ Unique([r \in DOMAIN LeaguePlayers |-> LeaguePlayers[r].cd])

-----------------------------------------------------------------------------
(* The preview                                                             *)

\* validateNormalizedImport: no external identity twice.
Valid(b) ==
    /\ Unique([i \in DOMAIN b.teams |-> b.teams[i].ext])
    /\ Unique([i \in DOMAIN b.players |-> b.players[i].ext])

\* A player's team is in the bundle or known from an earlier one.
Resolved(b) ==
    \A i \in DOMAIN b.players :
        \/ b.players[i].team \in TeamExts(b)
        \/ TeamKey(b.players[i].team) \in DOMAIN mapped

PreviewIsClean(b) == Valid(b) /\ Resolved(b)

\* What a preview says beside the bundle: what would be updated.
Seen(b) == Identities(b) \cap DOMAIN mapped

-----------------------------------------------------------------------------
(* The checks of an apply                                                  *)

MappingsStand ==
    \A k \in DOMAIN mapped :
        IF k[1] = "TEAM" THEN mapped[k] \in DOMAIN teams /\ teams[mapped[k]].edition = Edition
        ELSE mapped[k] \in DOMAIN players

\* The row of the player that a reviewer recognised, if there is one yet.
Canonical(p) == {r \in DOMAIN players : p.cd # None /\ players[r].cd = p.cd}

\* A mutation: the review is only held against the name.
OnlyNamed(b) ==
    \A i \in DOMAIN b.players : \A r \in Canonical(b.players[i]) :
        Plain[players[r].name] = Plain[b.players[i].name]

\* A reviewed player has the name of the row, and is not mapped to another.
ReviewFits(b) ==
    \A i \in DOMAIN b.players : \A r \in Canonical(b.players[i]) :
        LET key == PlayerKey(b.players[i].ext)
        IN  /\ Plain[players[r].name] = Plain[b.players[i].name]
            /\ key \in DOMAIN mapped => mapped[key] = r

Fits(b) == PreviewIsClean(b) /\ MappingsStand /\ ReviewFits(b)

WasApplied(b) == \E i \in DOMAIN applied : applied[i] = b

-----------------------------------------------------------------------------
(* What the plans of a bundle make of the rows.  A plan is for a row that  *)
(* exists or for a new one.  Those of a row are made from what it was at   *)
(* the beginning: one that wants just that writes nothing, of the others   *)
(* the last one stands.                                                    *)

Writers(rows, plans, r, n) ==
    {i \in DOMAIN plans :
        /\ i <= n /\ plans[i].row = r
        /\ r \in DOMAIN rows => plans[i].wants # rows[r]}

LastOf(indices) == CHOOSE i \in indices : \A j \in indices : j <= i

After(rows, plans, r, n) ==
    LET writers == Writers(rows, plans, r, n)
    IN  IF writers = {} THEN rows[r] ELSE plans[LastOf(writers)].wants

Settled(rows, plans) ==
    [r \in DOMAIN rows \cup {plans[i].row : i \in DOMAIN plans} |->
        After(rows, plans, r, Len(plans))]

-----------------------------------------------------------------------------
(* Teams and their entries                                                 *)

\* The team of the mapping, else the one of the edition that has the slug.
TeamBefore(t) ==
    IF TeamKey(t.ext) \in DOMAIN mapped THEN {mapped[TeamKey(t.ext)]}
    ELSE {r \in DOMAIN teams : teams[r].slug = t.slug /\ teams[r].edition = Edition}

TeamId(t) ==
    IF TeamBefore(t) = {} THEN TeamKey(t.ext) ELSE CHOOSE r \in TeamBefore(t) : TRUE

TeamPlans(b) ==
    [i \in 1..Len(b.teams) |->
        [row |-> TeamId(b.teams[i]),
         wants |-> [slug |-> b.teams[i].slug, name |-> b.teams[i].name, edition |-> Edition]]]

\* The team of another competition has the slug.
SlugTaken(b) ==
    \E i \in DOMAIN b.teams : \E r \in DOMAIN teams :
        TeamBefore(b.teams[i]) = {} /\ teams[r].slug = b.teams[i].slug

\* Team.slug is unique: when a team is updated, as those before it have been,
\* and when the new ones are created.
SlugsStayUnique(b) ==
    LET plans == TeamPlans(b)
        UpTo(i, r) == After(teams, plans, r, i)
    IN  /\ \A i \in DOMAIN plans : \A r \in DOMAIN teams :
              (i \in Writers(teams, plans, plans[i].row, i) /\ plans[i].row \in DOMAIN teams
               /\ r # plans[i].row) => UpTo(i, r).slug # plans[i].wants.slug
        /\ Unique([r \in DOMAIN Settled(teams, plans) |-> Settled(teams, plans)[r].slug])

EntryPlans(b) ==
    [i \in 1..Len(b.teams) |->
        [row |-> TeamId(b.teams[i]),
         wants |-> [status |-> b.teams[i].status, name |-> b.teams[i].name]]]

-----------------------------------------------------------------------------
(* Players                                                                 *)

TeamsAreGiven(b) == \A i \in DOMAIN b.players : b.players[i].team \in TeamExts(b)

\* The reviewed row, else the mapped one.
PlayerBefore(p) ==
    IF Canonical(p) # {} THEN Canonical(p)
    ELSE IF PlayerKey(p.ext) \in DOMAIN mapped THEN {mapped[PlayerKey(p.ext)]} ELSE {}

PlayerId(p) ==
    IF PlayerBefore(p) = {} THEN PlayerKey(p.ext) ELSE CHOOSE r \in PlayerBefore(p) : TRUE

Photo(row, p) == IF p.photo = None THEN row.photo ELSE p.photo

\* A player of Champion Data keeps the name; of the photo a review decides.
Desired(row, p) ==
    IF row.cd = None THEN [row EXCEPT !.name = p.name, !.photo = Photo(row, p)]
    ELSE IF p.cd # None THEN [row EXCEPT !.photo = Photo(row, p)]
    ELSE row

Created(p) == [name |-> p.name, cd |-> p.cd, photo |-> p.photo]

PlayerPlans(b) ==
    [i \in 1..Len(b.players) |->
        LET p == b.players[i]
        IN  [row |-> PlayerId(p),
             wants |-> IF PlayerBefore(p) = {} THEN Created(p)
                       ELSE Desired(players[PlayerId(p)], p)]]

\* Player.championDataPlayerId is unique.
ReviewsAreUnique(b) ==
    LET after == Settled(players, PlayerPlans(b))
    IN  \A r, s \in DOMAIN after : (after[r].cd = after[s].cd /\ after[r].cd # None) => r = s

-----------------------------------------------------------------------------
(* Coverage and mappings                                                   *)

\* What the bundle does not supply is unavailable.
CompleteCoverageMatrix(b) ==
    [c \in Capabilities |-> IF c \in DOMAIN b.coverage THEN b.coverage[c] ELSE "UNAVAILABLE"]

MappingTarget(b, k) ==
    IF k \in {TeamKey(ext) : ext \in TeamExts(b)}
    THEN TeamId(b.teams[CHOOSE i \in DOMAIN b.teams : TeamKey(b.teams[i].ext) = k])
    ELSE PlayerId(b.players[CHOOSE i \in DOMAIN b.players : PlayerKey(b.players[i].ext) = k])

MappedAfter(b) ==
    [k \in DOMAIN mapped \cup Identities(b) |->
        IF k \in Identities(b) THEN MappingTarget(b, k) ELSE mapped[k]]

-----------------------------------------------------------------------------
(* The commands                                                            *)

RecordPreview(b) ==
    /\ PreviewIsClean(b)
    /\ recorded' = recorded \cup {<<b, Seen(b)>>}
    /\ receipt' = "PREVIEWED"
    /\ UNCHANGED content

\* A bundle that was applied before: nothing is written but the receipt.
Replays(b) == WasApplied(b) /\ Fits(b) /\ Identities(b) \subseteq DOMAIN mapped

Replay(b) ==
    /\ Replays(b)
    /\ receipt' = "REPLAYED"
    /\ UNCHANGED <<content, recorded>>

\* The same preview was recorded.
Applies(b) ==
    /\ ~WasApplied(b) /\ <<b, Seen(b)>> \in recorded
    /\ Fits(b) /\ TeamsAreGiven(b)
    /\ ~SlugTaken(b) /\ SlugsStayUnique(b) /\ ReviewsAreUnique(b)

Apply(b) ==
    /\ Applies(b)
    /\ teams' = Settled(teams, TeamPlans(b))
    /\ entries' = Settled(entries, EntryPlans(b))
    /\ players' = Settled(players, PlayerPlans(b))
    /\ mapped' = MappedAfter(b)
    /\ coverage' = CompleteCoverageMatrix(b)
    /\ applied' = Append(applied, b)
    /\ receipt' = "APPLIED"
    /\ UNCHANGED recorded

\* An apply is refused or fails, and its failure is kept if it can be.
Fail(b) ==
    /\ PreviewIsClean(b)
    /\ receipt' = "FAILED"
    /\ UNCHANGED <<content, recorded>>

-----------------------------------------------------------------------------
Init ==
    /\ teams = OtherTeams
    /\ entries = <<>>
    /\ players = LeaguePlayers
    /\ mapped = <<>>
    /\ coverage = <<>>
    /\ recorded = {}
    /\ applied = <<>>
    /\ receipt = None

Next == \E b \in Bundles : RecordPreview(b) \/ Apply(b) \/ Replay(b) \/ Fail(b)

Spec == Init /\ [][Next]_vars

-----------------------------------------------------------------------------
(* Properties                                                              *)

\* A player of the i-th bundle applied whom an earlier one had without the
\* review, or with another.
ReviewedLate(i, p) ==
    \E j \in 1..i - 1 : \E k \in DOMAIN applied[j].players :
        applied[j].players[k].ext = p.ext /\ applied[j].players[k].cd # p.cd

\* A player that was reviewed is the row of Champion Data, the only one, unless an
\* earlier bundle came without the review.
ReviewedAreOne ==
    \A i \in DOMAIN applied : \A j \in DOMAIN applied[i].players :
        LET p == applied[i].players[j]
        IN  (p.cd # None /\ ~ReviewedLate(i, p)) => Canonical(p) = {mapped[PlayerKey(p.ext)]}

\* Two players of the source are one row only by a review.
OneRowEach ==
    \A k, l \in DOMAIN mapped :
        (k # l /\ k[1] = "PLAYER" /\ l[1] = "PLAYER" /\ mapped[k] = mapped[l]) =>
            players[mapped[k]].cd # None

\* What was applied can be applied again, whatever was imported since.
AppliedIsRepeatable ==
    \A i \in DOMAIN applied :
        (\A j \in DOMAIN applied[i].players : ~ReviewedLate(i, applied[i].players[j])) =>
            Replays(applied[i])

\* The last bundle's teams, entries, players and coverage stand; of two that it has
\* for one row, one of them.
EditionIsTheLast ==
    applied # <<>> =>
      LET b == applied[Len(applied)]
      IN  /\ \A i \in DOMAIN b.teams :
                LET r == mapped[TeamKey(b.teams[i].ext)]
                    Same(j) == mapped[TeamKey(b.teams[j].ext)] = r
                IN  /\ \E j \in DOMAIN b.teams : Same(j) /\ teams[r] =
                          [slug |-> b.teams[j].slug, name |-> b.teams[j].name, edition |-> Edition]
                    /\ \E j \in DOMAIN b.teams : Same(j) /\ entries[r] =
                          [status |-> b.teams[j].status, name |-> b.teams[j].name]
          /\ \A i \in DOMAIN b.players :
                LET row == players[mapped[PlayerKey(b.players[i].ext)]]
                IN  row.cd = None => row.name = b.players[i].name
          /\ coverage = CompleteCoverageMatrix(b)

\* An identity keeps the row that it was mapped to; nobody renames a player of
\* Champion Data or makes another one of them, and the teams of other competitions
\* stay as they are.
IdentitiesStay ==
    /\ \A k \in DOMAIN mapped : k \in DOMAIN mapped' /\ mapped'[k] = mapped[k]
    /\ \A r \in DOMAIN players :
          players[r].cd # None =>
              /\ r \in DOMAIN players'
              /\ players'[r].cd = players[r].cd /\ players'[r].name = players[r].name
    /\ \A r \in DOMAIN OtherTeams : teams'[r] = OtherTeams[r]

\* Identities across the revisions of a bundle and the league (prisma-writer.ts).
SourcesAgreeStep ==
    IdentitiesStay
    /\ (ReviewedAreOne /\ OneRowEach /\ AppliedIsRepeatable /\ EditionIsTheLast)'

SourcesAgree == [][SourcesAgreeStep]_vars

=============================================================================
