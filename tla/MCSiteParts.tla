------------------------------ MODULE MCSiteParts ------------------------------
(***************************************************************************)
(* The room of a live match (MatchRealtime), and the parts of SiteParts: a *)
(* behaviour is that of one of them, chosen at the beginning, the others   *)
(* at rest.  What the specifications only compare are model values.        *)
(***************************************************************************)
EXTENDS MatchRealtime, SiteParts, Sequences, TLC

CONSTANTS
    c1, c2, c3,             \* components, or clients
    r1,                     \* a request of a page
    g1, g2,                 \* the groups of the timing log, or kinds of events
    x, y,                   \* teams
    h1, a1, unlisted,       \* a player of each team, and one without a row
    d1                      \* a request for more of a list

Symmetry == Permutations(Processes) \cup Permutations(Subscriptions) \cup Permutations({c1, c2})

\* The same with fewer revisions, where lookups fail and other requests begin some.
Disturbed == INSTANCE MatchRealtime WITH
    MaxRevision <- 2, Disturbances <- {"failure", "request"}

-----------------------------------------------------------------------------
(* Values of the constants                                                 *)

\* Two matches an hour apart, and days of two hours.
ThreeHours == 0..2
OneThenTwo == <<1, 2>>

OneTransition == <<"results">>
OneContract == <<"save-data">>

\* Operations attributed in full, in part, twice and too late, and whatever
\* else a log may hold.
Interval(started, ended) == [started |-> started, ended |-> ended]

Logged(event, group, outcome, duration, phases) ==
    [event |-> event, group |-> group, outcome |-> outcome, duration |-> duration,
     phases |-> phases]

TimingLog ==
    {Logged("operation", g1, "success", 3, {Interval(0, 2), Interval(1, 3)}),
     Logged("operation", g1, "success", 4, {Interval(0, 2), Interval(1, 3)}),
     Logged("operation", g2, "success", 4, {Interval(0, 4), Interval(1, 2)}),
     Logged("operation", g1, "success", 2, {Interval(0, 3)}),
     Logged("operation", g1, "success", 0, {Interval(0, 0)}),
     Logged("operation", g1, "missing", 1, {Interval(0, 1)})}
    \cup {Logged(event, g1, "error", 1, {}) :
            event \in {"operation", "phase", "other", "malformed"}}
    \cup {Logged("phase", g2, "missing", 1, {}), Logged("query", g2, "missing", 1, {})}

\* An archive of four results.
FourResults == 1..4

\* Seven rows: both tables at the first second, and three of one table at the third,
\* more than a page of two has room for.
Event(at, source, id, kind, team) ==
    [at |-> at, source |-> source, id |-> id, kind |-> kind, team |-> team]

SevenEvents ==
    <<Event(1, "event", 1, g2, y), Event(1, "score", 1, g1, x), Event(2, "event", 2, g2, x),
      Event(3, "event", 3, g2, x), Event(3, "event", 4, g2, x), Event(3, "event", 5, g2, x),
      Event(4, "event", 6, g2, y)>>

AllOrSome ==
    {[kind |-> None, team |-> None], [kind |-> g1, team |-> None], [kind |-> None, team |-> x]}

BothTables == {"score", "event"}

\* Details that add, take back and leave out: goals and events of two players, a
\* third who has no row, a goal of two points, and goals that are moved to
\* the second period; periods of two seconds.
Scored(at, team, points) == [at |-> at, team |-> team, points |-> points]
Counted(goals, count) == [goals |-> goals, count |-> count]
Detail(at, home, away, other, goals) ==
    [at |-> at, flow |-> goals,
     stats |-> (h1 :> home) @@ (a1 :> away) @@
               (IF other = None THEN <<>> ELSE unlisted :> other)]

CoherentDetails ==
    {Detail(1, Counted(1, 2), Counted(0, 1), Counted(1, 0),
            <<Scored(0, "home", 1), Scored(1, "home", 2)>>),
     Detail(2, Counted(1, 0), Counted(1, 2), None,
            <<Scored(0, "home", 1), Scored(2, "away", 1)>>),
     Detail(3, Counted(2, 1), Counted(1, 1), Counted(0, 1),
            <<Scored(0, "home", 1), Scored(2, "away", 1), Scored(3, "home", 1)>>),
     Detail(3, Counted(1, 2), Counted(0, 1), Counted(1, 0),
            <<Scored(2, "home", 1), Scored(3, "home", 2)>>)}

ListedPlayers == <<h1, unlisted, a1>>
HomeAndAway == (h1 :> "home") @@ (unlisted :> "home") @@ (a1 :> "away")

\* Revisions of a bundle: one without reviews, one that swaps a slug and has the
\* reviews of two players, one that has a player of the first again under another
\* identity, one that reviews a second identity, and one that takes the slug of
\* the club of the league.
Team(ext, slug, name, status) == [ext |-> ext, slug |-> slug, name |-> name, status |-> status]
Person(ext, team, name, cd, photo) ==
    [ext |-> ext, team |-> team, name |-> name, cd |-> cd, photo |-> photo]
Revision(sides, squad, declared) == [teams |-> sides, players |-> squad, coverage |-> declared]

FiveRevisions ==
    {Revision(<<Team("t1", "reds", "Reds", "ACTIVE")>>,
              <<Person("p1", "t1", "Lee", None, None)>>, "FINAL_SCORE" :> "AVAILABLE"),
     Revision(<<Team("t1", "blues", "Blues", "WITHDRAWN"), Team("t2", "reds", "Reds", "ACTIVE")>>,
              <<Person("p1", "t1", "LEE", 7, "portrait"), Person("p2", "t2", "Kim", 8, None)>>,
              "LINEUPS" :> "PENDING"),
     Revision(<<Team("t2", "reds", "The Reds", "ACTIVE")>>,
              <<Person("p3", "t2", "LEE", 7, None), Person("p2", "t2", "Roe", None, "snap")>>,
              <<>>),
     Revision(<<Team("t4", "whites", "Whites", "ACTIVE")>>,
              <<Person("p4", "t4", "Kim", 8, None)>>, <<>>),
     Revision(<<Team("t3", "club", "Club", "ACTIVE")>>, <<>>, <<>>)}

TwoCapabilities == {"FINAL_SCORE", "LINEUPS"}
PlainNames == ("Lee" :> 1) @@ ("LEE" :> 1) @@ ("Kim" :> 2) @@ ("Roe" :> 3)
LeagueClub == <<"LEAGUE", "club">> :> [slug |-> "club", name |-> "Club", edition |-> "league"]
LeagueLee == <<"LEAGUE", "lee">> :> [name |-> "Lee", cd |-> 7, photo |-> None]

ASSUME PartsAssumption == Disturbed!RealtimeAssumption

-----------------------------------------------------------------------------
\* Nobody is in the room of the match.
AtRest == Init /\ row.status = "LIVE"

PartsInit ==
    /\ \/ part \in {"rooms", "disturbed"} /\ Init
       \/ part \in Site /\ AtRest
    /\ SiteInit

PartsNext ==
    \/ part = "rooms" /\ Next /\ UNCHANGED siteVars
    \/ part = "disturbed" /\ Disturbed!Next /\ UNCHANGED siteVars
    \/ SiteNext /\ UNCHANGED vars

PartsSpec == PartsInit /\ [][PartsNext]_<<siteVars, vars>>

=============================================================================
