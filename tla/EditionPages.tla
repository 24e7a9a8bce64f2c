----------------------------- MODULE EditionPages -----------------------------
(***************************************************************************)
(* The pages of an edition and what they may show (lib/competitions.ts,    *)
(* edition-schedule.ts, tournament/service.ts, cached-queries.ts and the   *)
(* pages under app/).  Editions are published and hidden by commands of    *)
(* other processes, which cannot clear this one's caches: a page therefore *)
(* reads anew which editions are public and lets only rows come from the   *)
(* caches.  The global navigation alone keeps its directory for a while.   *)
(*                                                                         *)
(* An edition has one match, in a published stage and with its score       *)
(* covered; teams, tables and labels are left out.  A cache may answer     *)
(* with what it holds however old that is, or have expired.  The order of  *)
(* the database is that of the editions' numbers, the newest first.        *)
(***************************************************************************)
EXTENDS Integers, FiniteSets, FiniteSetsExt

CONSTANTS
    Editions,       \* the numbers of the editions
    Strict,         \* those the Glasgow gate is for
    Leagues,        \* those whose series is a league
    Season,         \* the first and the last day of each, or None
    Today,
    PageSize,       \* MAX_LIVE_FALLBACK_COMPETITION_CANDIDATES
    MaxChanges,     \* bound on the changes of editions and matches
    None

EditionPagesAssumption ==
    /\ Editions \subseteq Nat \ {0} /\ IsFiniteSet(Editions)
    /\ Strict \subseteq Editions /\ Leagues \subseteq Editions
    /\ Season \in [Editions -> (Nat \cup {None}) \X (Nat \cup {None})]
    /\ PageSize \in Nat \ {0} /\ MaxChanges \in Nat /\ Today \in Nat
    /\ None \notin Editions /\ None \notin {"SCHEDULED", "LIVE", "COMPLETED"}

VARIABLES
    status,     \* of each edition
    match,      \* of the match of each edition
    cached,     \* what the caches hold: rows of two kinds, and the directory
    page,       \* the request being answered
    wasReady,   \* history: the editions that were ready since it began
    changes

pagesVars == <<status, match, cached, page, wasReady, changes>>

\* Not published; published with too little in it; with enough for any edition
\* but not all the Glasgow gate asks; with all.
Statuses == {"DRAFT", "shell", "viable", "complete"}

MatchStates == {"SCHEDULED", "LIVE", "COMPLETED"}

Kinds == {"schedule", "bracket", "team", "standings", "home", "ladder", "live", "directory"}

\* Those that name an edition.
Named == {"schedule", "bracket", "team", "standings"}

Published(s) == {e \in Editions : s[e] # "DRAFT"}

PassesGenericGate(s, e) == s[e] \in {"viable", "complete"}

IsPubliclyReady(s, e) == s[e] = "complete" \/ (s[e] = "viable" /\ e \notin Strict)

Ready(s) == {e \in Editions : IsPubliclyReady(s, e)}

NoPage ==
    [kind |-> "none", edition |-> None, pc |-> "idle", snapshot |-> None, cursor |-> None,
     chosen |-> None, names |-> {}, row |-> None, shown |-> {}]

InitWith(s) ==
    /\ status = s
    /\ match = [e \in Editions |-> "SCHEDULED"]
    /\ cached = [schedule |-> [e \in Editions |-> None],
                 team |-> [e \in Editions |-> None], directory |-> None]
    /\ page = NoPage
    /\ wasReady = {}
    /\ changes = 0

Init == \E s \in [Editions -> Statuses] : InitWith(s)

-----------------------------------------------------------------------------
(* The order in which editions are offered                                 *)

\* In season, to come, past, and without usable dates.
ActivityGroup(e) ==
    LET start == Season[e][1]
        end == Season[e][2]
        valid == start = None \/ end = None \/ start <= end
    IN CASE valid /\ start # None /\ end # None /\ start <= Today /\ Today <= end -> 0
         [] valid /\ start # None /\ start > Today -> 1
         [] valid /\ end # None /\ end < Today -> 2
         [] OTHER -> 3

\* The latest start, the next to come, the last to have ended.
Recency(e) ==
    CASE ActivityGroup(e) = 0 -> -Season[e][1]
      [] ActivityGroup(e) = 1 -> Season[e][1]
      [] ActivityGroup(e) = 2 -> -Season[e][2]
      [] OTHER -> 0

OfferedBefore(d, e) ==
    \/ ActivityGroup(d) < ActivityGroup(e)
    \/ /\ ActivityGroup(d) = ActivityGroup(e)
       /\ Recency(d) < Recency(e) \/ (Recency(d) = Recency(e) /\ d > e)

FirstOffered(offered) ==
    IF offered = {} THEN None
    ELSE CHOOSE e \in offered : \A d \in offered \ {e} : OfferedBefore(e, d)

-----------------------------------------------------------------------------
(* What changes meanwhile                                                  *)

Change ==
    /\ changes < MaxChanges
    /\ changes' = changes + 1
    /\ wasReady' = wasReady \cup Ready(status')
    /\ UNCHANGED <<cached, page>>

\* An import, a publication or an unpublication of an edition.
Republish(e, s) ==
    /\ s # status[e]
    /\ status' = [status EXCEPT ![e] = s]
    /\ UNCHANGED match
    /\ Change

Advance(e) ==
    /\ match[e] # "COMPLETED"
    /\ match' = [match EXCEPT ![e] = IF @ = "SCHEDULED" THEN "LIVE" ELSE "COMPLETED"]
    /\ UNCHANGED status
    /\ Change

\* The lives of the entries end: 60 seconds, 15 minutes, 3 minutes.
Expire ==
    /\ \/ \E kind \in {"schedule", "team"}, e \in Editions :
            cached[kind][e] # None /\ cached' = [cached EXCEPT ![kind][e] = None]
       \/ cached.directory # None /\ cached' = [cached EXCEPT !.directory = None]
    /\ UNCHANGED <<status, match, page, wasReady, changes>>

-----------------------------------------------------------------------------
(* Requests                                                                *)

Ask(kind, e) ==
    /\ page.pc \in {"idle", "done"}
    /\ page' = [NoPage EXCEPT
                  !.kind = kind, !.edition = e,
                  !.pc = CASE kind = "live" -> "snapshot" [] kind = "directory" -> "directory"
                           [] OTHER -> "resolve"]
    /\ wasReady' = Ready(status)
    /\ UNCHANGED <<status, match, cached, changes>>

Unread == UNCHANGED <<status, match, wasReady, changes>>

\* The request ends with what it shows.
Shows(cards) == page' = [page EXCEPT !.pc = "done", !.shown = cards]

Card(e, score) == [edition |-> e, score |-> score]

\* A mutation: the public editions are those of the navigation's directory.
CachedEditions == IF cached.directory = None THEN Ready(status) ELSE cached.directory

\* Read for each request.
PublicEditions == Ready(status)

\* An edition that is named is found exactly or not at all; the home page takes
\* the first that is offered, the old ladder the first of a league.
Selected(editions) ==
    CASE page.kind \in Named -> IF page.edition \in editions THEN page.edition ELSE None
      [] page.kind = "home" -> FirstOffered(editions)
      [] OTHER -> FirstOffered(editions \cap Leagues)

Continue(e) ==
    IF e = None THEN Shows({}) ELSE page' = [page EXCEPT !.chosen = e, !.pc = "rows"]

Resolve ==
    /\ page.pc = "resolve"
    /\ Continue(Selected(PublicEditions))
    /\ UNCHANGED cached
    /\ Unread

\* A row of the chosen edition: from its cache, which is filled if need be.
CachedRow(kind) ==
    IF cached[kind][page.chosen] = None THEN match[page.chosen] ELSE cached[kind][page.chosen]

Keep(kind) == cached' = [cached EXCEPT ![kind][page.chosen] = CachedRow(kind)]

HasScore(state) == state \in {"LIVE", "COMPLETED"}

ScoreIf(allowed, row) == IF allowed THEN row ELSE None

\* The schedule, with the score of the row that is shown.
ShowSchedule ==
    /\ page.pc = "rows" /\ page.kind = "schedule"
    /\ Keep("schedule")
    /\ LET row == CachedRow("schedule")
       IN Shows({Card(page.chosen, ScoreIf(HasScore(row), row))})
    /\ Unread

\* The home page reads the rows it shows.
ShowHome ==
    /\ page.pc = "rows" /\ page.kind = "home"
    /\ LET row == match[page.chosen]
       IN Shows({Card(page.chosen, ScoreIf(HasScore(row), row))})
    /\ UNCHANGED cached
    /\ Unread

\* The live hub, that found no match live, looks for the next and the latest one.
ShowHub ==
    /\ page.pc = "rows" /\ page.kind = "live"
    /\ LET row == match[page.chosen]
       IN Shows(IF row = "LIVE" THEN {} ELSE {Card(page.chosen, ScoreIf(HasScore(row), row))})
    /\ UNCHANGED cached
    /\ Unread

ShowTable ==
    /\ page.pc = "rows" /\ page.kind \in {"standings", "ladder"}
    /\ Shows({Card(page.chosen, None)})
    /\ UNCHANGED cached
    /\ Unread

\* The bracket's rows are read, a team's candidates may be cached ones.
ReadCandidates ==
    /\ page.pc = "rows" /\ page.kind \in {"bracket", "team"}
    /\ IF page.kind = "team"
       THEN Keep("team") /\ page' = [page EXCEPT !.row = CachedRow("team"), !.pc = "access"]
       ELSE UNCHANGED cached
            /\ page' = [page EXCEPT !.row = match[page.chosen], !.pc = "access"]
    /\ Unread

\* The access is read after the rows, with the edition that was loaded before.
\* A team's page has results of completed matches and fixtures to come.
ShowCandidates ==
    /\ page.pc = "access"
    /\ LET access == match[page.chosen]
       IN Shows(
            CASE page.kind = "bracket" ->
                   {Card(page.chosen, ScoreIf(HasScore(access), page.row))}
              [] page.kind = "team" /\ page.row = "COMPLETED" ->
                   IF HasScore(access) THEN {Card(page.chosen, page.row)} ELSE {}
              [] page.kind = "team" /\ page.row = "SCHEDULED" -> {Card(page.chosen, None)}
              [] OTHER -> {})
    /\ UNCHANGED cached
    /\ Unread

-----------------------------------------------------------------------------
(* The live hub without a live match: the newest edition that is ready     *)

TakeSnapshot ==
    /\ page.pc = "snapshot"
    /\ page' = [page EXCEPT !.snapshot = status, !.pc = "walk"]
    /\ UNCHANGED cached
    /\ Unread

\* The transaction is a repeatable read.
Snapshot == page.snapshot

\* The published editions after the cursor, at most PageSize of them.
CandidatesOn(s) ==
    LET left == {e \in Published(s) : page.cursor = None \/ e < page.cursor}
    IN {e \in left : Cardinality({d \in left : d > e}) < PageSize}

Walk ==
    /\ page.pc = "walk"
    /\ LET candidates == CandidatesOn(Snapshot)
           ready == candidates \cap Ready(Snapshot)
       IN CASE ready # {} -> Continue(Max(ready))
            [] ready = {} /\ Cardinality(candidates) < PageSize -> Continue(None)
            [] OTHER -> page' = [page EXCEPT !.cursor = Min(candidates)]
    /\ UNCHANGED cached
    /\ Unread

-----------------------------------------------------------------------------
(* The directory of the navigation                                         *)

Cards(editions) == {Card(e, None) : e \in editions}

Fill(editions) == Shows(Cards(editions)) /\ cached' = [cached EXCEPT !.directory = editions]

ReadDirectory ==
    /\ page.pc = "directory"
    /\ LET candidates == {e \in Editions : PassesGenericGate(status, e)}
       IN CASE cached.directory # None ->
                 page' = [NoPage EXCEPT !.pc = "done", !.shown = Cards(cached.directory)]
                 /\ UNCHANGED cached
            [] cached.directory = None /\ candidates \cap Strict = {} -> Fill(candidates)
            [] OTHER -> page' = [page EXCEPT !.names = candidates, !.pc = "strict"]
                        /\ UNCHANGED cached
    /\ Unread

\* The strict ones among them are asked about in a second query.
ReadStrict ==
    /\ page.pc = "strict"
    /\ Fill({e \in page.names : e \in Strict => IsPubliclyReady(status, e)})
    /\ Unread

Answer ==
    \/ Resolve \/ ShowSchedule \/ ShowHome \/ ShowHub \/ ShowTable \/ ReadCandidates
    \/ ShowCandidates \/ TakeSnapshot \/ Walk \/ ReadDirectory \/ ReadStrict

World == Expire \/ \E e \in Editions : Advance(e) \/ \E s \in Statuses : Republish(e, s)

Next ==
    \/ Answer \/ World
    \/ \E kind \in Named, e \in Editions : Ask(kind, e)
    \/ \E kind \in Kinds \ Named : Ask(kind, None)

Spec == Init /\ [][Next]_pagesVars

-----------------------------------------------------------------------------
(* Properties                                                              *)

\* What a request shows, from whatever cache, is of editions that were public
\* at some moment of it: once hidden, an edition is gone with the next request
\* (the comment of getCompetitions); a directory served from the cache is the
\* exception.
NothingHiddenIsShown ==
    page.pc = "done" /\ page.kind # "none" =>
        {card.edition : card \in page.shown} \subseteq wasReady

\* The live hub falls back on the newest edition that was ready at one moment,
\* however many published shells are newer (loadLiveFallbackCompetition).
FallbackIsNewestReady ==
    page.kind = "live" /\ page.pc \in {"rows", "done"} =>
        page.chosen = IF Ready(page.snapshot) = {} THEN None ELSE Max(Ready(page.snapshot))

\* Except on the bracket, a score is that of a row with a result, never the
\* default of one without (buildEditionSchedule), though row and access are
\* read apart.
ScoresAreResults ==
    page.kind # "bracket" => \A card \in page.shown : card.score # "SCHEDULED"

PagesFollowPublication ==
    NothingHiddenIsShown /\ FallbackIsNewestReady /\ ScoresAreResults

=============================================================================
